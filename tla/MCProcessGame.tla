--------------------------- MODULE MCProcessGame ----------------------------
(* The process game in the small. *)
EXTENDS ProcessGame

RightLane == <<0>>
LeftLane == <<1>>
=============================================================================
