---------------------------- MODULE MCThreadGame ----------------------------
(* The lanes of the crocodiles and the bullets of the instances.           *)
EXTENDS ThreadGame
NoLane == <<>>
RightLane == <<0>>
LeftLane == <<1>>
NoShots == {}
StartRowShots == {[x |-> 1, y |-> 4, dir |-> 1, enemy |-> TRUE],
                  [x |-> 3, y |-> 4, dir |-> -1, enemy |-> FALSE]}
=============================================================================
