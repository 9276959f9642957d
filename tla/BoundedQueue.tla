---------------------------- MODULE BoundedQueue ----------------------------
(***************************************************************************)
(* What the event buffer of the threaded game promises to the threads that *)
(* share it: a FIFO queue of at most Capacity messages, that loses and     *)
(* repeats none of them until it is closed.  CircularBuffer implements it. *)
(***************************************************************************)
EXTENDS Naturals, Sequences

CONSTANTS Msg,        \* the messages that are queued
          Consumers,  \* the threads that take messages
          Capacity,   \* how many messages the queue holds
          NoMsg       \* what a consumer holds before its first message

VARIABLES queue,      \* the messages put and not yet taken, oldest first
          got,        \* got[c]: the last message handed to consumer c
          closed      \* the queue has been destroyed

vars == <<queue, got, closed>>

Init ==
  /\ queue = <<>>
  /\ got = [c \in Consumers |-> NoMsg]
  /\ closed = FALSE

Enqueue(m) ==
  /\ ~closed
  /\ Len(queue) < Capacity
  /\ queue' = Append(queue, m)
  /\ UNCHANGED <<got, closed>>

Dequeue(c) ==
  /\ ~closed
  /\ queue # <<>>
  /\ got' = [got EXCEPT ![c] = Head(queue)]
  /\ queue' = Tail(queue)
  /\ UNCHANGED closed

Close ==
  /\ ~closed
  /\ closed' = TRUE
  /\ queue' = <<>>
  /\ UNCHANGED got

Next ==
  \/ \E m \in Msg : Enqueue(m)
  \/ \E c \in Consumers : Dequeue(c)
  \/ Close

Spec == Init /\ [][Next]_vars
=============================================================================
