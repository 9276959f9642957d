--------------------------- MODULE MCMultiplayer ----------------------------
(* The multiplayer game with few clients, slots and frames in a stream. *)
EXTENDS Multiplayer, TLC

CONSTANTS c1, c2, i1, i2

TwoClients == {c1, c2}
OneId == {i1}
TwoIds == {i1, i2}
TwoFds == 1..2
OneFd == 1..1

(* Clients and ids are interchangeable: used by the runs without liveness. *)
Symmetry == Permutations(TwoClients) \cup Permutations(TwoIds)
=============================================================================
