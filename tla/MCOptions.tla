------------------------------ MODULE MCOptions ------------------------------
(***************************************************************************)
(* Options on every command line of up to four of the arguments below:     *)
(* flags alone and grouped, values attached and apart, good and bad.       *)
(***************************************************************************)
EXTENDS Options

MCDigit == [d \in {"0", "4", "6", "9"} |->
              CASE d = "0" -> 0 [] d = "4" -> 4 [] d = "6" -> 6 [] d = "9" -> 9]

MCArguments ==
  {<<"-", "m">>, <<"-", "q", "4">>, <<"-", "6", "v">>, <<"-", "v", "0">>,
   <<"-", "t", " ", "6">>, <<"-", "4", "t">>, <<"-", "u", "m">>, <<"-", "q", "u">>,
   <<"-", "t", "-", "4">>, <<"4">>, <<"+", "9">>, <<" ">>, <<"-">>, <<"-", "x">>, <<>>}

MCCommandLines == SeqOf(MCArguments, 4)
=============================================================================
