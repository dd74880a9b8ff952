---------------------------- MODULE MCHttpResponse ----------------------------
(***************************************************************************)
(* HttpResponse on responses made of the pieces below: lines with and      *)
(* without content, blank lines, and blank lines torn by a stray byte.     *)
(* The reader still sees them cut at every byte.                           *)
(***************************************************************************)
EXTENDS HttpResponse

MCPieces == {<<CR, LF>>, <<Other, CR, LF>>, <<CR>>}
=============================================================================
