----------------------------- MODULE MCStdinLine -----------------------------
(***************************************************************************)
(* StdinLine with the command "qt" and a line buffer of three bytes.       *)
(***************************************************************************)
EXTENDS StdinLine

MCQuitWord == <<"q", "t">>
=============================================================================
