------------------------------ MODULE MCWorld -------------------------------
(* The world in the small: two lanes of one crocodile, one den, two frogs. *)
EXTENDS World, TLC

CONSTANTS a, b
TwoPlayers == {a, b}
OneWidth == {2}

(* The ids are interchangeable. *)
Symmetry == Permutations(TwoPlayers)
=============================================================================
