--------------------------- MODULE CircularBuffer ---------------------------
(***************************************************************************)
(* The event buffer of the threaded single-player game                     *)
(* (singleplayer/ver_thread/src/buffer.c): a ring of messages guarded by   *)
(* one mutex and two condition variables, shared by the threads that put   *)
(* positions into it and the game loop that takes them out.                *)
(*                                                                         *)
(* A step is the code a thread runs between two points where another one   *)
(* can interfere: from taking the mutex to releasing it (in a return or in *)
(* pthread_cond_wait) when nothing is read or written in the ring, and in  *)
(* two halves, "enter" and "store" or "take", when it is, because          *)
(* buffer_destroy frees the ring WITHOUT the mutex.  Condition variables   *)
(* may wake a thread spuriously, and a thread that was woken has to win    *)
(* the mutex back, against threads that never waited.                      *)
(***************************************************************************)
EXTENDS Integers, Sequences, FiniteSets

CONSTANTS Producers,  \* the threads that call buffer_put
          Getters,    \* the threads that call buffer_get
          Pollers,    \* the threads that call buffer_try_get
          Capacity,   \* the capacity given to buffer_init
          Quota,      \* bound: how many messages each producer puts
          Msg,        \* the messages
          NoMsg,      \* no message
          NoThread    \* the mutex is free

Consumers == Getters \cup Pollers
Threads == Producers \cup Consumers

ASSUME CapacityAssumption == Capacity \in Nat \ {0}
ASSUME QuotaAssumption == Quota \in Nat
ASSUME ThreadsAssumption ==
  /\ IsFiniteSet(Producers) /\ IsFiniteSet(Getters) /\ IsFiniteSet(Pollers)
  /\ Producers \cap Consumers = {}
  /\ NoThread \notin Threads
ASSUME MsgAssumption == NoMsg \notin Msg

VARIABLES
  array, head, tail, count,  \* the fields of circular_buffer
  phase,    \* "live", then buffer_destroy: "closing" while it sleeps after the
            \* broadcasts, "freed" once array is NULL; "crashed" on a NULL store
  mutex,    \* the thread inside its critical section, or NoThread
  st,       \* st[t]: where thread t is in its call
  pending,  \* pending[p]: the message producer p is putting
  left,     \* left[p]: how many messages producer p may still put
  got       \* got[c]: the last message buffer_get or buffer_try_get gave c

ring == <<array, head, tail, count>>
vars == <<array, head, tail, count, phase, mutex, st, pending, left, got>>

States == {"idle", "putWait", "putWoken", "putting",
           "getWait", "getWoken", "taking"}
Phases == {"live", "closing", "freed", "crashed"}

TypeOK ==
  /\ array \in [0..Capacity-1 -> Msg]
  /\ head \in 0..Capacity-1
  /\ tail \in 0..Capacity-1
  /\ count \in 0..Capacity
  /\ phase \in Phases
  /\ mutex \in Threads \cup {NoThread}
  /\ st \in [Threads -> States]
  /\ pending \in [Producers -> Msg \cup {NoMsg}]
  /\ left \in [Producers -> 0..Quota]
  /\ got \in [Consumers -> Msg \cup {NoMsg}]

(* The ring comes from malloc: its contents are arbitrary. *)
Init ==
  /\ array \in [0..Capacity-1 -> Msg]
  /\ head = 0 /\ tail = 0 /\ count = 0
  /\ phase = "live"
  /\ mutex = NoThread
  /\ st = [t \in Threads |-> "idle"]
  /\ pending = [p \in Producers |-> NoMsg]
  /\ left = [p \in Producers |-> Quota]
  /\ got = [c \in Consumers |-> NoMsg]

-----------------------------------------------------------------------------
(* Helpers *)

HasArray == phase \in {"live", "closing"}   \* buf->array is not NULL

Mut_NextIndex(i) == IF i = Capacity THEN 0 ELSE i + 1
NextIndex(i) == (i + 1) % Capacity

Full == count = Capacity

In(s, where) == {t \in Threads : s[t] = where}

(* pthread_cond_signal: one waiter, whichever it is, is woken; with none
   waiting the signal is lost. *)
Signalled(s, waiting, woken) ==
  IF In(s, waiting) = {} THEN {s}
  ELSE {[s EXCEPT ![t] = woken] : t \in In(s, waiting)}

Broadcast(s) ==
  [t \in Threads |-> CASE s[t] = "putWait" -> "putWoken"
                       [] s[t] = "getWait" -> "getWoken"
                       [] OTHER -> s[t]]

(* The call of producer p is over. *)
Finished(p) ==
  /\ pending' = [pending EXCEPT ![p] = NoMsg]
  /\ left' = [left EXCEPT ![p] = left[p] - 1]

-----------------------------------------------------------------------------
(* buffer_put *)

(* With the mutex won, wait for room or keep the mutex and go on to store. *)
EnterPut(p) ==
  /\ HasArray
  /\ mutex = NoThread
  /\ IF Full
     THEN st' = [st EXCEPT ![p] = "putWait"] /\ UNCHANGED mutex
     ELSE st' = [st EXCEPT ![p] = "putting"] /\ mutex' = p

PutCall(p, m) ==
  /\ st[p] = "idle" /\ left[p] > 0
  /\ EnterPut(p)
  /\ pending' = [pending EXCEPT ![p] = m]
  /\ UNCHANGED <<ring, phase, left, got>>

Mut_PutResume(p) ==
  /\ st[p] = "putWoken"
  /\ HasArray /\ mutex = NoThread
  /\ st' = [st EXCEPT ![p] = "putting"] /\ mutex' = p
  /\ UNCHANGED <<ring, phase, pending, left, got>>

(* pthread_cond_wait returns: the loop tests the condition again. *)
PutResume(p) ==
  /\ st[p] = "putWoken"
  /\ EnterPut(p)
  /\ UNCHANGED <<ring, phase, pending, left, got>>

Mut_PutStore(p) ==
  /\ st[p] = "putting"
  /\ HasArray
  /\ array' = [array EXCEPT ![NextIndex(tail)] = pending[p]]
  /\ tail' = NextIndex(tail)
  /\ count' = count + 1
  /\ st' \in Signalled([st EXCEPT ![p] = "idle"], "getWait", "getWoken")
  /\ mutex' = NoThread
  /\ Finished(p)
  /\ UNCHANGED <<head, phase, got>>

PutStore(p) ==
  /\ st[p] = "putting"
  /\ HasArray
  /\ array' = [array EXCEPT ![tail] = pending[p]]
  /\ tail' = NextIndex(tail)
  /\ count' = count + 1
  /\ st' \in Signalled([st EXCEPT ![p] = "idle"], "getWait", "getWoken")
  /\ mutex' = NoThread
  /\ Finished(p)
  /\ UNCHANGED <<head, phase, got>>

(* The buffer is gone: the call returns and the message is dropped. *)
PutDropped(p) ==
  /\ phase = "freed"
  /\ \/ st[p] = "idle" /\ left[p] > 0
     \/ st[p] = "putWoken" /\ mutex = NoThread
  /\ st' = [st EXCEPT ![p] = "idle"]
  /\ Finished(p)
  /\ UNCHANGED <<ring, phase, mutex, got>>

-----------------------------------------------------------------------------
(* buffer_get and buffer_try_get *)

GetEnter(c) ==
  /\ \/ c \in Getters /\ st[c] = "idle"
     \/ st[c] = "getWoken"
  /\ HasArray
  /\ mutex = NoThread
  /\ IF count = 0
     THEN st' = [st EXCEPT ![c] = "getWait"] /\ UNCHANGED mutex
     ELSE st' = [st EXCEPT ![c] = "taking"] /\ mutex' = c
  /\ UNCHANGED <<ring, phase, pending, left, got>>

TryGetEnter(c) ==
  /\ c \in Pollers /\ st[c] = "idle"
  /\ HasArray
  /\ mutex = NoThread
  /\ count > 0
  /\ st' = [st EXCEPT ![c] = "taking"] /\ mutex' = c
  /\ UNCHANGED <<ring, phase, pending, left, got>>

(* buffer_try_get finds nothing, or no buffer, and returns false. *)
TryGetNothing(c) ==
  /\ c \in Pollers /\ st[c] = "idle"
  /\ \/ phase = "freed"
     \/ HasArray /\ mutex = NoThread /\ count = 0
  /\ UNCHANGED vars

Mut_Take(c) ==
  /\ st[c] = "taking"
  /\ HasArray
  /\ got' = [got EXCEPT ![c] = array[head]]
  /\ head' = NextIndex(head)
  /\ count' = count - 1
  /\ st' \in IF Full THEN Signalled([st EXCEPT ![c] = "idle"], "putWait", "putWoken")
             ELSE {[st EXCEPT ![c] = "idle"]}
  /\ mutex' = NoThread
  /\ UNCHANGED <<array, tail, phase, pending, left>>

Take(c) ==
  /\ st[c] = "taking"
  /\ HasArray
  /\ got' = [got EXCEPT ![c] = array[head]]
  /\ head' = NextIndex(head)
  /\ count' = count - 1
  /\ st' \in Signalled([st EXCEPT ![c] = "idle"], "putWait", "putWoken")
  /\ mutex' = NoThread
  /\ UNCHANGED <<array, tail, phase, pending, left>>

(* The buffer is gone: buffer_get returns with its message untouched. *)
GetDropped(c) ==
  /\ phase = "freed"
  /\ st[c] = "getWoken" /\ mutex = NoThread
  /\ st' = [st EXCEPT ![c] = "idle"]
  /\ UNCHANGED <<ring, phase, mutex, pending, left, got>>

-----------------------------------------------------------------------------
(* buffer_destroy, the condition variables and the outcome of a race *)

(* pthread_cond_wait may return without a signal. *)
SpuriousWakeup(t) ==
  /\ \/ st[t] = "putWait" /\ st' = [st EXCEPT ![t] = "putWoken"]
     \/ st[t] = "getWait" /\ st' = [st EXCEPT ![t] = "getWoken"]
  /\ UNCHANGED <<ring, phase, mutex, pending, left, got>>

DestroyBroadcast ==
  /\ phase = "live"
  /\ mutex = NoThread
  /\ phase' = "closing"
  /\ st' = Broadcast(st)
  /\ UNCHANGED <<ring, mutex, pending, left, got>>

(* After the sleep, without the mutex: array is NULL, capacity and count 0. *)
DestroyFree ==
  /\ phase = "closing"
  /\ phase' = "freed"
  /\ count' = 0
  /\ UNCHANGED <<array, head, tail, mutex, st, pending, left, got>>

(* A thread that had passed its checks reads or writes the ring after the
   free: array is NULL and the index is taken modulo 0. *)
AccessFreed(t) ==
  /\ phase = "freed"
  /\ st[t] \in {"putting", "taking"}
  /\ phase' = "crashed"
  /\ UNCHANGED <<ring, mutex, st, pending, left, got>>

Crashed ==
  /\ phase = "crashed"
  /\ UNCHANGED vars

-----------------------------------------------------------------------------

ProducerStep(p) ==
  \/ PutResume(p) \/ PutStore(p) \/ PutDropped(p)

ConsumerStep(c) ==
  \/ GetEnter(c) \/ TryGetEnter(c) \/ TryGetNothing(c) \/ Take(c) \/ GetDropped(c)

Next ==
  \/ \E p \in Producers : (\E m \in Msg : PutCall(p, m)) \/ ProducerStep(p)
  \/ \E c \in Consumers : ConsumerStep(c)
  \/ \E t \in Threads : SpuriousWakeup(t) \/ AccessFreed(t)
  \/ DestroyBroadcast
  \/ DestroyFree
  \/ Crashed

Spec == Init /\ [][Next]_vars

(* A thread inside a call goes on, and the game loop keeps polling: the
   scheduler runs every thread that can run.  Nobody has to start a put. *)
Fairness ==
  /\ \A p \in Producers : WF_vars(ProducerStep(p))
  /\ \A c \in Consumers : WF_vars(ConsumerStep(c))

FairSpec == Spec /\ Fairness

-----------------------------------------------------------------------------
(* Properties *)

PutComing == {t \in Threads : st[t] \in {"putWoken", "putting"}}
GetComing == {t \in Threads : st[t] \in {"getWoken", "taking"}}

(* No lost wakeup (the signals of lines 69, 101 and 127): while a producer
   waits for room, every free place has a woken or storing producer of its
   own on the way; while a consumer waits for a message, every message has a
   woken or taking consumer on the way.  A signal sent only when the buffer
   was full, or a second waiter missed by a single signal, breaks it. *)
NoLostWakeup ==
  HasArray =>
    /\ In(st, "putWait") # {} => count + Cardinality(PutComing) >= Capacity
    /\ In(st, "getWait") # {} => count <= Cardinality(GetComing)

(* The critical sections exclude each other and a thread that goes on to
   store or take has room, or a message, when it does: no test is stale when
   the ring is touched. *)
NoStaleTest ==
  \A t \in Threads :
    /\ st[t] \in {"putting", "taking"} <=> mutex = t
    /\ HasArray /\ st[t] = "putting" => count < Capacity
    /\ HasArray /\ st[t] = "taking" => count > 0

(* The ring as the FIFO queue it stands for. *)
RingSeq(a, h, n) == [i \in 1..n |-> a[(h + i - 1) % Capacity]]
Contents == IF HasArray THEN RingSeq(array, head, count) ELSE <<>>

Queue == INSTANCE BoundedQueue WITH queue <- Contents, closed <- ~HasArray

(* The circular buffer is a bounded FIFO queue: a put appends, a get removes
   the oldest message and hands over exactly that one, nothing is lost,
   repeated or reordered however the threads interleave. *)
QueueSpec == Queue!Spec

(* A put that has begun returns (the consumer keeps polling), unless the
   buffer is destroyed meanwhile. *)
PutReturns ==
  \A p \in Producers : st[p] # "idle" ~> (st[p] = "idle" \/ phase # "live")

(* buffer.c lines 21 and 27: the broadcasts and the pause before the free let
   the threads out of their waits, so that none is left waiting on a
   condition variable that is destroyed. *)
WaitersLeave == phase = "freed" => In(st, "putWait") = {} /\ In(st, "getWait") = {}
=============================================================================
