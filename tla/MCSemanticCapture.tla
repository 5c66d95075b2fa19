------------------------- MODULE MCSemanticCapture -------------------------
(***************************************************************************)
(* A page with a presentational div next to a shown one, and a text that   *)
(* changes elsewhere: body > (main > p), div, div.                         *)
(***************************************************************************)
EXTENDS SemanticCapture

McParent == <<0, 1, 2, 1, 1>>
McTag == <<"body", "main", "p", "div", "div">>
=============================================================================
