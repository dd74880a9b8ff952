-------------------------------- MODULE Texts --------------------------------
(***************************************************************************)
(* The character searches and the decimal numbers that url.c, http.c and   *)
(* config.c are built from.  A text is a sequence of characters.           *)
(***************************************************************************)
EXTENDS Integers, Sequences, FiniteSets

(* How many characters precede the first one of C: strchr and the loops.   *)
SpanLen(s, C) ==
  Cardinality({n \in 1 .. Len(s) : \A i \in 1 .. n : s[i] \notin C})

(* The part of s before the first character of C, and the part from there. *)
Before(s, C) == SubSeq(s, 1, SpanLen(s, C))
From(s, C)   == SubSeq(s, SpanLen(s, C) + 1, Len(s))

Has(s, C) == \E i \in 1 .. Len(s) : s[i] \in C

(* The number that a text of digits spells. *)
DecimalValue(s, digit) ==
  LET value[n \in 0 .. Len(s)] ==
        IF n = 0 THEN 0 ELSE 10 * value[n - 1] + digit[s[n]]
  IN value[Len(s)]
=============================================================================
