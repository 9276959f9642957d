-------------------------- MODULE MCCircularBuffer --------------------------
(* CircularBuffer with two producers, one buffer_get and one buffer_try_get
   thread: fewer places than the producers together can fill. *)
EXTENDS CircularBuffer, TLC

CONSTANTS p1, p2, g1, t1, m1, m2

MCProducers == {p1, p2}
MCGetters == {g1}
MCNoGetters == {}   \* the game itself never calls buffer_get
MCPollers == {t1}
MCMsg == {m1, m2}
=============================================================================
