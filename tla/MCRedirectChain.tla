--------------------------- MODULE MCRedirectChain ---------------------------
(***************************************************************************)
(* RedirectChain on texts of up to three characters after the scheme, so   *)
(* that every delimiter meets every other, followed by chains of redirects *)
(* to locations of up to two.                                              *)
(***************************************************************************)
EXTENDS RedirectChain, SequencesExt

MCDigit       == [d \in {"0", "7"} |-> IF d = "0" THEN 0 ELSE 7]
MCDefaultPort == [s \in {"http", "https"} |-> IF s = "http" THEN <<"7">> ELSE <<"7", "0">>]

MCOriginals ==
  [scheme : {"http"}, rest : SeqOf(Char, 3)]
    \cup [scheme : {"https", "none"}, rest : SeqOf(Char, 1)]
    \cup {[scheme |-> "http", rest |-> <<"x", ":", "7">> \o d] :
            d \in SeqOf({"0", "7", "/"}, 2)}

Locations ==
  [scheme : {"none"}, rest : SeqOf({"x", "/", "?", "#", " "}, 2)]
    \cup [scheme : {"http", "https"}, rest : {<<>>, <<"x">>, <<"x", "?">>, <<"x", ":">>}]

MCResponses ==
  {[locations |-> <<location>>, cookies |-> <<>>] : location \in Locations}
    \cup [locations : {<<>>, <<[scheme |-> "none", rest |-> <<"x">>],
                              [scheme |-> "none", rest |-> <<"/">>]>>},
          cookies : {<<>>, <<<<"x">>>>, <<<<"x", "x", ";", "x">>, <<"x">>>>}]
=============================================================================
