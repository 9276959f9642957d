------------------------ MODULE CircularBufferProofs ------------------------
(***************************************************************************)
(* Proofs about CircularBuffer, for any threads, capacity and messages:    *)
(* its invariants, and that it implements BoundedQueue.                    *)
(***************************************************************************)
EXTENDS CircularBuffer, TLAPS, FiniteSetTheorems

InPut == {"putWait", "putWoken", "putting"}

(* A producer inside a call has a message in hand and still owes its end. *)
InCall ==
  \A p \in Producers : st[p] \in InPut => left[p] > 0 /\ pending[p] \in Msg

IInv == TypeOK /\ NoStaleTest /\ InCall

(* What pthread_cond_signal can do: it moves waiting threads only, from
   "waiting" to "woken". *)
LEMMA SignalledThreads ==
  ASSUME NEW s \in [Threads -> States], NEW waiting \in States,
         NEW woken \in States, NEW r \in Signalled(s, waiting, woken)
  PROVE  /\ r \in [Threads -> States]
         /\ \A t \in Threads : r[t] = s[t] \/ (s[t] = waiting /\ r[t] = woken)
  BY DEF Signalled, In

(* The initial states satisfy the inductive invariant. *)
LEMMA InitInvariant == Init => IInv
<1> SUFFICES ASSUME Init PROVE IInv
  OBVIOUS
<1>1. TypeOK
  BY CapacityAssumption, QuotaAssumption DEF Init, TypeOK, States, Phases
<1>2. NoStaleTest
  BY ThreadsAssumption DEF Init, NoStaleTest, HasArray
<1>3. InCall
  BY DEF Init, InCall, InPut, Threads
<1> QED
  BY <1>1, <1>2, <1>3 DEF IInv

LEMMA NextIndexInRange ==
  ASSUME NEW i \in 0..Capacity-1
  PROVE  NextIndex(i) \in 0..Capacity-1
  BY CapacityAssumption DEF NextIndex

(* A producer takes the mutex, or starts to wait for room. *)
LEMMA EnterPutInvariant ==
  ASSUME IInv, NEW p \in Producers, EnterPut(p),
         st[p] \in {"idle", "putWoken"},
         UNCHANGED <<ring, phase, left, got>>,
         pending' \in [Producers -> Msg \cup {NoMsg}],
         \A q \in Producers \ {p} : pending'[q] = pending[q],
         left[p] > 0, pending'[p] \in Msg
  PROVE  IInv'
<1> USE DEF IInv
<1>1. p \in Threads
  BY DEF Threads
<1>2. TypeOK'
  BY <1>1 DEF EnterPut, TypeOK, ring, States
<1>3. NoStaleTest'
  <2>1. CASE Full
    BY <1>1, <2>1, ThreadsAssumption DEF EnterPut, TypeOK, NoStaleTest, HasArray, ring
  <2>2. CASE ~Full
    <3>1. count < Capacity
      BY <2>2, CapacityAssumption DEF Full, TypeOK
    <3>2. st' = [st EXCEPT ![p] = "putting"] /\ mutex = NoThread /\ mutex' = p
      BY <2>2 DEF EnterPut
    <3> QED
      BY <1>1, <3>1, <3>2, ThreadsAssumption DEF TypeOK, NoStaleTest, HasArray, ring
  <2> QED
    BY <2>1, <2>2
<1>4. InCall'
  <2> SUFFICES ASSUME NEW q \in Producers, st'[q] \in InPut
               PROVE  left'[q] > 0 /\ pending'[q] \in Msg
    BY DEF InCall
  <2>1. CASE q = p
    BY <2>1 DEF ring
  <2>2. CASE q # p
    <3>1. st'[q] = st[q]
      BY <2>2, <1>1 DEF EnterPut, TypeOK, Threads
    <3> QED
      BY <2>2, <3>1 DEF InCall
  <2> QED
    BY <2>1, <2>2
<1> QED
  BY <1>2, <1>3, <1>4

LEMMA PutStoreInvariant ==
  ASSUME IInv, NEW p \in Producers, PutStore(p)
  PROVE  IInv'
<1> USE DEF IInv
<1> DEFINE s == [st EXCEPT ![p] = "idle"]
<1>1. p \in Threads /\ s \in [Threads -> States]
  BY DEF Threads, TypeOK, States
<1>2. /\ st' \in [Threads -> States]
      /\ \A t \in Threads : st'[t] = s[t] \/ (s[t] = "getWait" /\ st'[t] = "getWoken")
  <2>1. st' \in Signalled(s, "getWait", "getWoken")
    BY DEF PutStore
  <2>2. "getWait" \in States /\ "getWoken" \in States
    BY DEF States
  <2> HIDE DEF s
  <2> QED
    BY <1>1, <2>1, <2>2, SignalledThreads
<1>3. count < Capacity /\ left[p] > 0 /\ pending[p] \in Msg /\ mutex = p
  BY <1>1 DEF PutStore, NoStaleTest, InCall, InPut
<1>4. TypeOK'
  <2>1. array' \in [0..Capacity-1 -> Msg]
    BY <1>3 DEF PutStore, TypeOK
  <2>2. tail' \in 0..Capacity-1
    BY NextIndexInRange DEF PutStore, TypeOK
  <2>3. count' \in 0..Capacity
    BY <1>3, CapacityAssumption DEF PutStore, TypeOK
  <2>4. left' \in [Producers -> 0..Quota] /\ pending' \in [Producers -> Msg \cup {NoMsg}]
    BY <1>3, QuotaAssumption DEF PutStore, Finished, TypeOK
  <2> QED
    BY <1>2, <2>1, <2>2, <2>3, <2>4 DEF PutStore, TypeOK
<1>5. NoStaleTest'
  BY <1>1, <1>2, <1>3, ThreadsAssumption DEF PutStore, NoStaleTest, TypeOK
<1>6. InCall'
  <2> SUFFICES ASSUME NEW q \in Producers, st'[q] \in InPut
               PROVE  left'[q] > 0 /\ pending'[q] \in Msg
    BY DEF InCall
  <2>1. q \in Threads /\ q # p
    BY <1>1, <1>2 DEF Threads, InPut, TypeOK
  <2>2. st[q] \in InPut
    BY <1>1, <1>2, <2>1 DEF InPut, TypeOK
  <2> QED
    BY <2>1, <2>2 DEF InCall, PutStore, Finished, TypeOK
<1> QED
  BY <1>4, <1>5, <1>6

LEMMA PutDroppedInvariant ==
  ASSUME IInv, NEW p \in Producers, PutDropped(p)
  PROVE  IInv'
<1> USE DEF IInv
<1>1. p \in Threads /\ left[p] > 0
  BY DEF Threads, PutDropped, InCall, InPut
<1>2. TypeOK'
  <2>1. left' \in [Producers -> 0..Quota] /\ pending' \in [Producers -> Msg \cup {NoMsg}]
    BY <1>1, QuotaAssumption DEF PutDropped, Finished, TypeOK
  <2>2. st' \in [Threads -> States]
    BY <1>1 DEF PutDropped, TypeOK, States
  <2> QED
    BY <2>1, <2>2 DEF PutDropped, TypeOK, ring
<1>3. NoStaleTest'
  BY <1>1 DEF PutDropped, NoStaleTest, TypeOK, HasArray, ring
<1>4. InCall'
  BY <1>1 DEF PutDropped, Finished, InCall, InPut, TypeOK
<1> QED
  BY <1>2, <1>3, <1>4

(* A consumer takes the mutex, starts to wait for a message, or finds the
   buffer gone: it is in no put before or after. *)
LEMMA EnterGetInvariant ==
  ASSUME IInv, NEW c \in Consumers, NEW where \in {"idle", "getWait", "taking"},
         st' = [st EXCEPT ![c] = where],
         st[c] \in {"idle", "getWoken"},
         where = "taking" => mutex = NoThread /\ mutex' = c /\ count > 0,
         where # "taking" => UNCHANGED mutex,
         UNCHANGED <<ring, phase, pending, left, got>>
  PROVE  IInv'
<1> USE DEF IInv
<1>1. c \in Threads /\ c \notin Producers
  BY ThreadsAssumption DEF Threads
<1>2. TypeOK'
  BY <1>1 DEF TypeOK, ring, States
<1>3. NoStaleTest'
  BY <1>1, ThreadsAssumption DEF TypeOK, NoStaleTest, HasArray, ring
<1>4. InCall'
  BY <1>1 DEF TypeOK, InCall
<1> QED
  BY <1>2, <1>3, <1>4

LEMMA TakeInvariant ==
  ASSUME IInv, NEW c \in Consumers, Take(c)
  PROVE  IInv'
<1> USE DEF IInv
<1> DEFINE s == [st EXCEPT ![c] = "idle"]
<1>1. c \in Threads /\ s \in [Threads -> States]
  BY DEF Threads, TypeOK, States
<1>2. /\ st' \in [Threads -> States]
      /\ \A t \in Threads : st'[t] = s[t] \/ (s[t] = "putWait" /\ st'[t] = "putWoken")
  <2>1. st' \in Signalled(s, "putWait", "putWoken")
    BY DEF Take
  <2>2. "putWait" \in States /\ "putWoken" \in States
    BY DEF States
  <2> HIDE DEF s
  <2> QED
    BY <1>1, <2>1, <2>2, SignalledThreads
<1>3. count > 0 /\ mutex = c
  BY <1>1 DEF Take, NoStaleTest
<1>4. TypeOK'
  <2>1. head' \in 0..Capacity-1
    BY NextIndexInRange DEF Take, TypeOK
  <2>2. count' \in 0..Capacity
    BY <1>3, CapacityAssumption DEF Take, TypeOK
  <2>3. got' \in [Consumers -> Msg \cup {NoMsg}]
    BY DEF Take, TypeOK
  <2> QED
    BY <1>2, <2>1, <2>2, <2>3 DEF Take, TypeOK
<1>5. NoStaleTest'
  BY <1>1, <1>2, <1>3, ThreadsAssumption DEF Take, NoStaleTest, TypeOK
<1>6. InCall'
  <2> SUFFICES ASSUME NEW q \in Producers, st'[q] \in InPut
               PROVE  left'[q] > 0 /\ pending'[q] \in Msg
    BY DEF InCall
  <2>1. q \in Threads /\ q # c
    BY ThreadsAssumption DEF Threads
  <2>2. st[q] \in InPut
    BY <1>1, <1>2, <2>1 DEF InPut, TypeOK
  <2> QED
    BY <2>2 DEF InCall, Take
<1> QED
  BY <1>4, <1>5, <1>6

(* The steps that only move waiting threads on: wakeups and broadcasts. *)
LEMMA WakeInvariant ==
  ASSUME IInv,
         st' \in [Threads -> States],
         \A t \in Threads : \/ st'[t] = st[t]
                            \/ st[t] = "putWait" /\ st'[t] = "putWoken"
                            \/ st[t] = "getWait" /\ st'[t] = "getWoken",
         phase' \in Phases, phase = "live" \/ phase' = phase,
         UNCHANGED <<ring, mutex, pending, left, got>>
  PROVE  IInv'
<1> USE DEF IInv
<1>1. TypeOK'
  BY DEF TypeOK, ring
<1>2. NoStaleTest'
  BY DEF TypeOK, NoStaleTest, HasArray, ring
<1>3. InCall'
  BY DEF TypeOK, InCall, InPut, Threads
<1> QED
  BY <1>1, <1>2, <1>3

(* Every step preserves the inductive invariant. *)
LEMMA NextInvariant == IInv /\ [Next]_vars => IInv'
<1> SUFFICES ASSUME IInv, [Next]_vars PROVE IInv'
  OBVIOUS
<1> USE DEF IInv
<1>1. ASSUME NEW p \in Producers, NEW m \in Msg, PutCall(p, m) PROVE IInv'
  <2>1. pending' \in [Producers -> Msg \cup {NoMsg}] /\ pending'[p] = m
    BY <1>1 DEF PutCall, TypeOK
  <2>2. \A q \in Producers \ {p} : pending'[q] = pending[q]
    BY <1>1 DEF PutCall, TypeOK
  <2> QED
    BY <1>1, <2>1, <2>2, EnterPutInvariant DEF PutCall
<1>2. ASSUME NEW p \in Producers, PutResume(p) PROVE IInv'
  <2>1. left[p] > 0 /\ pending[p] \in Msg
    BY <1>2 DEF PutResume, InCall, InPut
  <2> QED
    BY <1>2, <2>1, EnterPutInvariant DEF PutResume, TypeOK
<1>3. ASSUME NEW p \in Producers, PutStore(p) PROVE IInv'
  BY <1>3, PutStoreInvariant
<1>4. ASSUME NEW p \in Producers, PutDropped(p) PROVE IInv'
  BY <1>4, PutDroppedInvariant
<1>5. ASSUME NEW c \in Consumers, GetEnter(c) PROVE IInv'
  <2>1. st[c] \in {"idle", "getWoken"} /\ count \in Nat
    BY <1>5 DEF GetEnter, TypeOK
  <2>2. CASE count = 0
    BY <1>5, <2>1, <2>2, EnterGetInvariant DEF GetEnter
  <2>3. CASE count > 0
    BY <1>5, <2>1, <2>3, EnterGetInvariant DEF GetEnter
  <2> QED
    BY <2>1, <2>2, <2>3
<1>6. ASSUME NEW c \in Consumers, TryGetEnter(c) PROVE IInv'
  BY <1>6, EnterGetInvariant DEF TryGetEnter
<1>7. ASSUME NEW c \in Consumers, Take(c) PROVE IInv'
  BY <1>7, TakeInvariant
<1>8. ASSUME NEW c \in Consumers, GetDropped(c) PROVE IInv'
  BY <1>8, EnterGetInvariant DEF GetDropped
<1>9. ASSUME NEW t \in Threads, SpuriousWakeup(t) PROVE IInv'
  <2>1. /\ st' \in [Threads -> States]
        /\ \A u \in Threads : \/ st'[u] = st[u]
                              \/ st[u] = "putWait" /\ st'[u] = "putWoken"
                              \/ st[u] = "getWait" /\ st'[u] = "getWoken"
    BY <1>9 DEF SpuriousWakeup, TypeOK, States
  <2> QED
    BY <1>9, <2>1, WakeInvariant DEF SpuriousWakeup, TypeOK
<1>10. ASSUME NEW t \in Threads, AccessFreed(t) PROVE IInv'
  <2>1. TypeOK'
    BY <1>10 DEF AccessFreed, TypeOK, Phases, ring
  <2>2. NoStaleTest'
    BY <1>10 DEF AccessFreed, NoStaleTest, HasArray, ring
  <2>3. InCall'
    BY <1>10 DEF AccessFreed, InCall
  <2> QED
    BY <2>1, <2>2, <2>3
<1>11. ASSUME DestroyBroadcast PROVE IInv'
  <2>1. /\ st' \in [Threads -> States]
        /\ \A u \in Threads : \/ st'[u] = st[u]
                              \/ st[u] = "putWait" /\ st'[u] = "putWoken"
                              \/ st[u] = "getWait" /\ st'[u] = "getWoken"
    BY <1>11 DEF DestroyBroadcast, Broadcast, TypeOK, States
  <2> QED
    BY <1>11, <2>1, WakeInvariant DEF DestroyBroadcast, Phases
<1>12. ASSUME DestroyFree PROVE IInv'
  <2>1. TypeOK'
    BY <1>12, CapacityAssumption DEF DestroyFree, TypeOK, Phases
  <2>2. NoStaleTest'
    BY <1>12 DEF DestroyFree, NoStaleTest, HasArray
  <2>3. InCall'
    BY <1>12 DEF DestroyFree, InCall
  <2> QED
    BY <2>1, <2>2, <2>3
<1>13. ASSUME UNCHANGED vars PROVE IInv'
  BY <1>13 DEF vars, TypeOK, NoStaleTest, InCall, HasArray
<1> QED
  BY <1>1, <1>2, <1>3, <1>4, <1>5, <1>6, <1>7, <1>8, <1>9, <1>10, <1>11, <1>12, <1>13
  DEF Next, ProducerStep, ConsumerStep, TryGetNothing, Crashed

THEOREM Invariance == Spec => []IInv
<1>1. Init => IInv
  BY InitInvariant
<1>2. IInv /\ [Next]_vars => IInv'
  BY NextInvariant
<1> QED
  BY <1>1, <1>2, PTL DEF Spec

(* Type correctness of buffer.c's fields, for every capacity and any number
   of threads: no index leaves the ring and count never exceeds it. *)
THEOREM TypeCorrect == Spec => []TypeOK
<1>1. IInv => TypeOK
  BY DEF IInv
<1> QED
  BY <1>1, Invariance, PTL

(* The critical sections of buffer.c exclude each other, and no store or take
   acts on a stale test of count. *)
THEOREM NoStaleTests == Spec => []NoStaleTest
<1>1. IInv => NoStaleTest
  BY DEF IInv
<1> QED
  BY <1>1, Invariance, PTL

-----------------------------------------------------------------------------
(* No lost wakeup *)

LEMMA ThreadsFinite == IsFiniteSet(Threads)
  BY ThreadsAssumption, FS_Union DEF Threads, Consumers

LEMMA CardMonotone ==
  ASSUME NEW B \in SUBSET Threads, NEW A \in SUBSET B
  PROVE  /\ Cardinality(A) \in Nat /\ Cardinality(B) \in Nat
         /\ Cardinality(A) <= Cardinality(B)
<1>1. IsFiniteSet(B)
  BY ThreadsFinite, FS_Subset
<1> QED
  BY <1>1, FS_Subset, FS_CardinalityType

LEMMA CardRemove ==
  ASSUME NEW A \in SUBSET Threads, NEW t \in A
  PROVE  Cardinality(A \ {t}) = Cardinality(A) - 1
<1>1. IsFiniteSet(A)
  BY ThreadsFinite, FS_Subset
<1> QED
  BY <1>1, FS_RemoveElement

LEMMA CardAdd ==
  ASSUME NEW A \in SUBSET Threads, NEW t \in Threads \ A
  PROVE  Cardinality(A \cup {t}) = Cardinality(A) + 1
<1>1. IsFiniteSet(A)
  BY ThreadsFinite, FS_Subset
<1> QED
  BY <1>1, FS_AddElement

Room == In(st, "putWait") # {} => count + Cardinality(PutComing) >= Capacity
Supply == In(st, "getWait") # {} => count <= Cardinality(GetComing)

LEMMA ComingTypes ==
  /\ PutComing \in SUBSET Threads /\ Cardinality(PutComing) \in Nat
  /\ GetComing \in SUBSET Threads /\ Cardinality(GetComing) \in Nat
<1>1. PutComing \in SUBSET Threads /\ GetComing \in SUBSET Threads
  BY DEF PutComing, GetComing
<1> QED
  BY <1>1, CardMonotone

(* A producer that waits no longer, or comes, does not hurt its fellows. *)
LEMMA RoomKept ==
  ASSUME TypeOK, TypeOK', Room, UNCHANGED count,
         In(st', "putWait") \subseteq In(st, "putWait"),
         PutComing \subseteq PutComing'
  PROVE  Room'
<1>1. PutComing' \in SUBSET Threads
  BY DEF PutComing
<1>2. /\ Cardinality(PutComing) \in Nat /\ Cardinality(PutComing') \in Nat
      /\ Cardinality(PutComing) <= Cardinality(PutComing')
  BY <1>1, CardMonotone
<1> QED
  BY <1>2, CapacityAssumption DEF Room, TypeOK

LEMMA SupplyKept ==
  ASSUME TypeOK, TypeOK', Supply, UNCHANGED count,
         In(st', "getWait") \subseteq In(st, "getWait"),
         GetComing \subseteq GetComing'
  PROVE  Supply'
<1>1. GetComing' \in SUBSET Threads
  BY DEF GetComing
<1>2. /\ Cardinality(GetComing) \in Nat /\ Cardinality(GetComing') \in Nat
      /\ Cardinality(GetComing) <= Cardinality(GetComing')
  BY <1>1, CardMonotone
<1> QED
  BY <1>2 DEF Supply, TypeOK

(* A producer enters a put, from outside or from a wait. *)
LEMMA EnterPutWakeups ==
  ASSUME IInv, IInv', Room, Supply, NEW p \in Producers, EnterPut(p),
         st[p] \in {"idle", "putWoken"}, UNCHANGED ring
  PROVE  Room' /\ Supply'
<1>1. p \in Threads /\ TypeOK /\ TypeOK' /\ count' = count
  BY DEF Threads, IInv, ring
<1>2. Supply'
  <2>1. In(st', "getWait") \subseteq In(st, "getWait")
    BY <1>1 DEF In, EnterPut, TypeOK
  <2>2. GetComing \subseteq GetComing'
    BY <1>1 DEF GetComing, EnterPut, TypeOK
  <2> QED
    BY <1>1, <2>1, <2>2, SupplyKept
<1>3. Room'
  <2>1. CASE Full
    <3>1. PutComing' \in SUBSET Threads
      BY DEF PutComing
    <3>2. Cardinality(PutComing') \in Nat
      BY <3>1, CardMonotone
    <3> QED
      BY <1>1, <2>1, <3>2, CapacityAssumption DEF Room, Full
  <2>2. CASE ~Full
    <3>1. In(st', "putWait") \subseteq In(st, "putWait")
      BY <1>1, <2>2 DEF In, EnterPut, TypeOK
    <3>2. PutComing \subseteq PutComing'
      BY <1>1, <2>2 DEF PutComing, EnterPut, TypeOK
    <3> QED
      BY <1>1, <3>1, <3>2, RoomKept
  <2> QED
    BY <2>1, <2>2
<1> QED
  BY <1>2, <1>3

(* A consumer enters a get. *)
LEMMA EnterGetWakeups ==
  ASSUME IInv, IInv', Room, Supply, NEW c \in Consumers,
         st[c] \in {"idle", "getWoken"}, UNCHANGED ring,
         NEW where \in {"getWait", "taking"},
         st' = [st EXCEPT ![c] = where],
         where = "getWait" => count = 0
  PROVE  Room' /\ Supply'
<1>1. c \in Threads /\ TypeOK /\ TypeOK' /\ count' = count
  BY DEF Threads, IInv, ring
<1>2. Room'
  <2>1. In(st', "putWait") \subseteq In(st, "putWait")
    BY <1>1 DEF In, TypeOK
  <2>2. PutComing \subseteq PutComing'
    BY <1>1 DEF PutComing, TypeOK
  <2> QED
    BY <1>1, <2>1, <2>2, RoomKept
<1>3. Supply'
  <2>1. CASE where = "getWait"
    <3>1. GetComing' \in SUBSET Threads
      BY DEF GetComing
    <3>2. Cardinality(GetComing') \in Nat
      BY <3>1, CardMonotone
    <3> QED
      BY <1>1, <2>1, <3>2 DEF Supply
  <2>2. CASE where = "taking"
    <3>1. In(st', "getWait") \subseteq In(st, "getWait")
      BY <1>1, <2>2 DEF In, TypeOK
    <3>2. GetComing \subseteq GetComing'
      BY <1>1, <2>2 DEF GetComing, TypeOK
    <3> QED
      BY <1>1, <3>1, <3>2, SupplyKept
  <2> QED
    BY <2>1, <2>2
<1> QED
  BY <1>2, <1>3

(* The signal of pthread_cond_signal reaches a waiter when there is one. *)
LEMMA SignalReaches ==
  ASSUME NEW s \in [Threads -> States], NEW waiting \in States,
         NEW woken \in States, NEW r \in Signalled(s, waiting, woken),
         In(s, waiting) # {}
  PROVE  \E t \in In(s, waiting) : r = [s EXCEPT ![t] = woken]
  BY DEF Signalled

LEMMA SignalLost ==
  ASSUME NEW s, NEW waiting, NEW woken, NEW r \in Signalled(s, waiting, woken),
         In(s, waiting) = {}
  PROVE  r = s
  BY DEF Signalled

(* A store uses the place its producer came for and signals a consumer. *)
LEMMA PutStoreWakeups ==
  ASSUME IInv, IInv', Room, Supply, NEW p \in Producers, PutStore(p)
  PROVE  Room' /\ Supply'
<1> DEFINE s == [st EXCEPT ![p] = "idle"]
<1>1. /\ p \in Threads /\ TypeOK /\ TypeOK' /\ count' = count + 1
      /\ st[p] = "putting" /\ s \in [Threads -> States]
      /\ count \in Nat /\ st \in [Threads -> States]
  BY CapacityAssumption DEF Threads, IInv, PutStore, TypeOK, States
<1>2. st' \in Signalled(s, "getWait", "getWoken") /\ {"getWait", "getWoken"} \subseteq States
  BY DEF PutStore, States
<1>3. In(s, "getWait") = In(st, "getWait")
  BY <1>1 DEF In
<1>4. CASE In(s, "getWait") = {}
  <2>1. st' = s
    <3> HIDE DEF s
    <3> QED BY <1>2, <1>4, SignalLost
  <2>2. PutComing' = PutComing \ {p} /\ p \in PutComing
    BY <1>1, <2>1 DEF PutComing
  <2>3. In(st', "putWait") = In(st, "putWait") /\ In(st', "getWait") = {}
    BY <1>1, <1>4, <2>1 DEF In
  <2>4. Cardinality(PutComing') = Cardinality(PutComing) - 1
    BY <2>2, CardRemove, ComingTypes
  <2> QED
    BY <1>1, <2>3, <2>4, ComingTypes, CapacityAssumption DEF Room, Supply
<1>5. CASE In(s, "getWait") # {}
  <2>1. PICK t \in In(s, "getWait") : st' = [s EXCEPT ![t] = "getWoken"]
    <3> HIDE DEF s
    <3> QED BY <1>1, <1>2, <1>5, SignalReaches
  <2>2. t \in Threads /\ st[t] = "getWait" /\ t # p
    BY <1>1, <1>3 DEF In
  <2>3. PutComing' = PutComing \ {p} /\ p \in PutComing
    BY <1>1, <2>1, <2>2 DEF PutComing
  <2>4. GetComing' = GetComing \cup {t} /\ t \notin GetComing
    BY <1>1, <2>1, <2>2 DEF GetComing
  <2>5. In(st', "putWait") = In(st, "putWait") /\ In(st, "getWait") # {}
    BY <1>1, <1>3, <1>5, <2>1, <2>2 DEF In
  <2>6. Cardinality(PutComing') = Cardinality(PutComing) - 1
    BY <2>3, CardRemove, ComingTypes
  <2>7. Cardinality(GetComing') = Cardinality(GetComing) + 1
    BY <2>2, <2>4, CardAdd, ComingTypes
  <2> QED
    BY <1>1, <2>5, <2>6, <2>7, ComingTypes, CapacityAssumption DEF Room, Supply
<1> QED
  BY <1>4, <1>5

(* A take uses the message its consumer came for and signals a producer. *)
LEMMA TakeWakeups ==
  ASSUME IInv, IInv', Room, Supply, NEW c \in Consumers, Take(c)
  PROVE  Room' /\ Supply'
<1> DEFINE s == [st EXCEPT ![c] = "idle"]
<1>1. /\ c \in Threads /\ TypeOK /\ TypeOK' /\ count' = count - 1
      /\ st[c] = "taking" /\ s \in [Threads -> States]
      /\ count \in Nat /\ count' \in Nat /\ st \in [Threads -> States]
  BY CapacityAssumption DEF Threads, IInv, Take, TypeOK, States
<1>2. st' \in Signalled(s, "putWait", "putWoken") /\ {"putWait", "putWoken"} \subseteq States
  BY DEF Take, States
<1>3. In(s, "putWait") = In(st, "putWait")
  BY <1>1 DEF In
<1>4. CASE In(s, "putWait") = {}
  <2>1. st' = s
    <3> HIDE DEF s
    <3> QED BY <1>2, <1>4, SignalLost
  <2>2. GetComing' = GetComing \ {c} /\ c \in GetComing
    BY <1>1, <2>1 DEF GetComing
  <2>3. In(st', "getWait") = In(st, "getWait") /\ In(st', "putWait") = {}
    BY <1>1, <1>4, <2>1 DEF In
  <2>4. Cardinality(GetComing') = Cardinality(GetComing) - 1
    BY <2>2, CardRemove, ComingTypes
  <2> QED
    BY <1>1, <2>3, <2>4, ComingTypes DEF Room, Supply
<1>5. CASE In(s, "putWait") # {}
  <2>1. PICK t \in In(s, "putWait") : st' = [s EXCEPT ![t] = "putWoken"]
    <3> HIDE DEF s
    <3> QED BY <1>1, <1>2, <1>5, SignalReaches
  <2>2. t \in Threads /\ st[t] = "putWait" /\ t # c
    BY <1>1, <1>3 DEF In
  <2>3. GetComing' = GetComing \ {c} /\ c \in GetComing
    BY <1>1, <2>1, <2>2 DEF GetComing
  <2>4. PutComing' = PutComing \cup {t} /\ t \notin PutComing
    BY <1>1, <2>1, <2>2 DEF PutComing
  <2>5. In(st', "getWait") = In(st, "getWait") /\ In(st, "putWait") # {}
    BY <1>1, <1>3, <1>5, <2>1, <2>2 DEF In
  <2>6. Cardinality(GetComing') = Cardinality(GetComing) - 1
    BY <2>3, CardRemove, ComingTypes
  <2>7. Cardinality(PutComing') = Cardinality(PutComing) + 1
    BY <2>2, <2>4, CardAdd, ComingTypes
  <2> QED
    BY <1>1, <2>5, <2>6, <2>7, ComingTypes, CapacityAssumption DEF Room, Supply
<1> QED
  BY <1>4, <1>5

(* Every step of a live buffer preserves the wakeup invariant. *)
LEMMA WakeupStep ==
  ASSUME IInv, IInv', Room, Supply, HasArray, HasArray', Next
  PROVE  Room' /\ Supply'
<1>1. TypeOK /\ TypeOK'
  BY DEF IInv
<1>2. ASSUME NEW p \in Producers, NEW m \in Msg, PutCall(p, m) PROVE Room' /\ Supply'
  BY <1>2, EnterPutWakeups DEF PutCall
<1>3. ASSUME NEW p \in Producers, PutResume(p) PROVE Room' /\ Supply'
  BY <1>3, EnterPutWakeups DEF PutResume
<1>4. ASSUME NEW p \in Producers, PutStore(p) PROVE Room' /\ Supply'
  BY <1>4, PutStoreWakeups
<1>5. ASSUME NEW p \in Producers, PutDropped(p) PROVE Room' /\ Supply'
  BY <1>5 DEF PutDropped, HasArray
<1>6. ASSUME NEW c \in Consumers, GetEnter(c) PROVE Room' /\ Supply'
  <2>1. st[c] \in {"idle", "getWoken"} /\ UNCHANGED ring
    BY <1>6 DEF GetEnter
  <2>2. CASE count = 0
    BY <1>6, <2>1, <2>2, EnterGetWakeups DEF GetEnter
  <2>3. CASE count # 0
    BY <1>6, <2>1, <2>3, EnterGetWakeups DEF GetEnter
  <2> QED
    BY <2>2, <2>3
<1>7. ASSUME NEW c \in Consumers, TryGetEnter(c) PROVE Room' /\ Supply'
  BY <1>7, EnterGetWakeups DEF TryGetEnter
<1>8. ASSUME NEW c \in Consumers, Take(c) PROVE Room' /\ Supply'
  BY <1>8, TakeWakeups
<1>9. ASSUME NEW c \in Consumers, GetDropped(c) PROVE Room' /\ Supply'
  BY <1>9 DEF GetDropped, HasArray
<1>10. ASSUME NEW t \in Threads, SpuriousWakeup(t) PROVE Room' /\ Supply'
  <2>1. /\ In(st', "putWait") \subseteq In(st, "putWait")
        /\ In(st', "getWait") \subseteq In(st, "getWait")
    BY <1>1, <1>10 DEF SpuriousWakeup, In, TypeOK
  <2>2. PutComing \subseteq PutComing' /\ GetComing \subseteq GetComing'
    BY <1>1, <1>10 DEF SpuriousWakeup, PutComing, GetComing, TypeOK
  <2>3. UNCHANGED count
    BY <1>10 DEF SpuriousWakeup, ring
  <2> QED
    BY <1>1, <2>1, <2>2, <2>3, RoomKept, SupplyKept
<1>11. ASSUME NEW t \in Threads, AccessFreed(t) PROVE Room' /\ Supply'
  BY <1>11 DEF AccessFreed, HasArray
<1>12. ASSUME DestroyBroadcast PROVE Room' /\ Supply'
  BY <1>1, <1>12 DEF DestroyBroadcast, Broadcast, In, Room, Supply, TypeOK
<1>13. ASSUME DestroyFree PROVE Room' /\ Supply'
  BY <1>13 DEF DestroyFree, HasArray
<1>14. ASSUME UNCHANGED vars PROVE Room' /\ Supply'
  BY <1>14 DEF vars, Room, Supply, In, PutComing, GetComing
<1> QED
  BY <1>2, <1>3, <1>4, <1>5, <1>6, <1>7, <1>8, <1>9, <1>10, <1>11, <1>12, <1>13, <1>14
  DEF Next, ProducerStep, ConsumerStep, TryGetNothing, Crashed

(* No wakeup of buffer.c is lost, for any number of producers and consumers:
   one signal for each message and for each place is enough, although a woken
   thread may find its message or place taken and waits again. *)
THEOREM WakeupsKept == Spec => []NoLostWakeup
<1>1. NoLostWakeup <=> (HasArray => Room /\ Supply)
  BY DEF NoLostWakeup, Room, Supply
<1>2. Init => NoLostWakeup
  BY DEF Init, NoLostWakeup, In
<1>3. IInv /\ IInv' /\ NoLostWakeup /\ [Next]_vars => NoLostWakeup'
  <2> SUFFICES ASSUME IInv, IInv', NoLostWakeup, [Next]_vars, HasArray'
               PROVE  Room' /\ Supply'
    BY DEF NoLostWakeup, Room, Supply
  <2>1. CASE UNCHANGED vars
    BY <2>1 DEF vars, NoLostWakeup, Room, Supply, In, PutComing, GetComing, HasArray
  <2>2. CASE Next
    <3>1. HasArray
      BY <2>2 DEF Next, ProducerStep, ConsumerStep, PutCall, PutResume, PutStore,
         PutDropped, EnterPut, GetEnter, TryGetEnter, TryGetNothing, Take,
         GetDropped, SpuriousWakeup, AccessFreed, DestroyBroadcast, DestroyFree,
         Crashed, HasArray, vars
    <3> QED
      BY <1>1, <2>2, <3>1, WakeupStep
  <2> QED
    BY <2>1, <2>2
<1> QED
  BY <1>2, <1>3, Invariance, PTL DEF Spec

-----------------------------------------------------------------------------
(* The ring is a FIFO queue *)

(* The tail index is where the next message of the queue goes. *)
Ring == HasArray => tail = (head + count) % Capacity

(* What k % Capacity is when k is at most one round beyond the ring. *)
Wrap(k) == IF k < Capacity THEN k ELSE k - Capacity

LEMMA ModOnce == \A k \in 0..2*Capacity-1 : k % Capacity = Wrap(k)
<1> SUFFICES ASSUME NEW k \in 0..2*Capacity-1
             PROVE  k % Capacity = Wrap(k)
  OBVIOUS
<1>1. CASE k < Capacity
  BY <1>1, CapacityAssumption DEF Wrap
<1>2. CASE ~(k < Capacity)
  <2>1. k \in Capacity..2*Capacity-1
    BY <1>2, CapacityAssumption
  <2> QED
    BY <1>2, <2>1, CapacityAssumption DEF Wrap
<1> QED
  BY <1>1, <1>2

LEMMA NextIndexIs ==
  ASSUME NEW i \in 0..Capacity-1
  PROVE  NextIndex(i) = IF i + 1 < Capacity THEN i + 1 ELSE 0
<1>1. i + 1 \in 0..2*Capacity-1
  BY CapacityAssumption
<1>2. NextIndex(i) = Wrap(i + 1)
  BY <1>1, ModOnce, Zenon DEF NextIndex
<1> QED
  BY <1>2, CapacityAssumption DEF Wrap

LEMMA RingStep == IInv /\ Ring /\ [Next]_vars => Ring'
<1> SUFFICES ASSUME IInv, Ring, [Next]_vars, HasArray' PROVE tail' = (head' + count') % Capacity
  BY DEF Ring
<1>1. TypeOK /\ Capacity \in Nat \ {0}
  BY CapacityAssumption DEF IInv
<1>2. ASSUME NEW p \in Producers, PutStore(p)
      PROVE  tail' = (head' + count') % Capacity
  <2>1. tail = (head + count) % Capacity /\ count < Capacity
    BY <1>2 DEF PutStore, Ring, IInv, NoStaleTest, Threads
  <2>2. tail' = NextIndex(tail) /\ head' = head /\ count' = count + 1
    BY <1>2 DEF PutStore
  <2>3. /\ head + count \in 0..2*Capacity-1 /\ head + count + 1 \in 0..2*Capacity-1
    BY <1>1, <2>1 DEF TypeOK
  <2>4. tail = Wrap(head + count)
    BY <2>1, <2>3, ModOnce, Zenon
  <2>5. NextIndex(tail) = IF tail + 1 < Capacity THEN tail + 1 ELSE 0
    BY <1>1, NextIndexIs DEF TypeOK
  <2>6. (head + (count + 1)) % Capacity = Wrap(head + (count + 1))
    <3>1. head + (count + 1) \in 0..2*Capacity-1
      BY <1>1, <2>3 DEF TypeOK
    <3> QED
      BY <3>1, ModOnce, Zenon
  <2> QED
    BY <1>1, <2>1, <2>2, <2>4, <2>5, <2>6 DEF TypeOK, Wrap
<1>3. ASSUME NEW c \in Consumers, Take(c)
      PROVE  tail' = (head' + count') % Capacity
  <2>1. tail = (head + count) % Capacity /\ count > 0
    BY <1>3 DEF Take, Ring, IInv, NoStaleTest, Threads
  <2>2. head' = NextIndex(head) /\ tail' = tail /\ count' = count - 1
    BY <1>3 DEF Take
  <2>3. tail = Wrap(head + count)
    <3>1. head + count \in 0..2*Capacity-1
      BY <1>1 DEF TypeOK
    <3> QED
      BY <2>1, <3>1, ModOnce, Zenon
  <2>4. NextIndex(head) = IF head + 1 < Capacity THEN head + 1 ELSE 0
    BY <1>1, NextIndexIs DEF TypeOK
  <2>5. (NextIndex(head) + (count - 1)) % Capacity
          = Wrap(NextIndex(head) + (count - 1))
    <3>1. NextIndex(head) + (count - 1) \in 0..2*Capacity-1
      BY <1>1, <2>1, <2>4 DEF TypeOK
    <3> QED
      BY <3>1, ModOnce, Zenon
  <2> QED
    BY <1>1, <2>1, <2>2, <2>3, <2>4, <2>5 DEF TypeOK, Wrap
<1>4. CASE UNCHANGED <<head, tail, count>> /\ HasArray
  BY <1>4 DEF Ring
<1>5. CASE UNCHANGED vars
  BY <1>5 DEF vars, Ring, HasArray
<1> QED
  BY <1>2, <1>3, <1>4, <1>5
  DEF Next, ProducerStep, ConsumerStep, PutCall, PutResume, PutDropped, EnterPut,
      GetEnter, TryGetEnter, TryGetNothing, GetDropped, SpuriousWakeup,
      AccessFreed, DestroyBroadcast, DestroyFree, Crashed, HasArray, ring

THEOREM RingKept == Spec => []Ring
<1>1. Init => Ring
  BY CapacityAssumption DEF Init, Ring
<1> QED
  BY <1>1, RingStep, Invariance, PTL DEF Spec

(* The place of the i-th message in the ring. *)
At(h, i) == (h + i - 1) % Capacity

LEMMA AtIs ==
  ASSUME NEW h \in 0..Capacity-1, NEW i \in 1..Capacity
  PROVE  At(h, i) = Wrap(h + i - 1) /\ At(h, i) \in 0..Capacity-1
<1>1. h + i - 1 \in 0..2*Capacity-1
  BY CapacityAssumption
<1>2. At(h, i) = Wrap(h + i - 1)
  BY <1>1, ModOnce, Zenon DEF At
<1> QED
  BY <1>1, <1>2, CapacityAssumption DEF Wrap

LEMMA RingSeqFacts ==
  ASSUME NEW a \in [0..Capacity-1 -> Msg], NEW h \in 0..Capacity-1,
         NEW n \in 0..Capacity
  PROVE  /\ RingSeq(a, h, n) \in Seq(Msg) /\ Len(RingSeq(a, h, n)) = n
         /\ \A i \in 1..n : RingSeq(a, h, n)[i] = a[At(h, i)]
<1>1. \A i \in 1..n : i \in 1..Capacity
  BY CapacityAssumption
<1>2. \A i \in 1..n : At(h, i) \in 0..Capacity-1
  BY <1>1, AtIs
<1>3. RingSeq(a, h, n) = [i \in 1..n |-> a[At(h, i)]]
  BY DEF RingSeq, At
<1> QED
  BY <1>2, <1>3, CapacityAssumption

(* Writing behind the last message appends it. *)
LEMMA RingSeqStore ==
  ASSUME NEW a \in [0..Capacity-1 -> Msg], NEW h \in 0..Capacity-1,
         NEW n \in 0..Capacity-1, NEW m \in Msg
  PROVE  RingSeq([a EXCEPT ![At(h, n + 1)] = m], h, n + 1)
           = Append(RingSeq(a, h, n), m)
<1> DEFINE b == [a EXCEPT ![At(h, n + 1)] = m]
           old == RingSeq(a, h, n)
           new == RingSeq(b, h, n + 1)
<1>1. n + 1 \in 1..Capacity /\ n + 1 \in 0..Capacity /\ n \in 0..Capacity /\ n \in Nat
  BY CapacityAssumption
<1>2. At(h, n + 1) \in 0..Capacity-1 /\ b \in [0..Capacity-1 -> Msg]
  BY <1>1, AtIs
<1>3. /\ new \in Seq(Msg) /\ Len(new) = n + 1
      /\ \A i \in 1..n+1 : new[i] = b[At(h, i)]
  <2> HIDE DEF b
  <2> QED BY <1>1, <1>2, RingSeqFacts
<1>4. /\ old \in Seq(Msg) /\ Len(old) = n
      /\ \A i \in 1..n : old[i] = a[At(h, i)]
  BY <1>1, RingSeqFacts
<1>5. new[n + 1] = m
  <2>1. b[At(h, n + 1)] = m
    BY <1>2
  <2>2. n + 1 \in 1..n+1
    BY <1>1
  <2> HIDE DEF new, b
  <2> QED
    BY <1>3, <2>1, <2>2
<1>6. ASSUME NEW i \in 1..n PROVE new[i] = old[i]
  <2>1. i \in 1..Capacity /\ i \in 1..n+1
    BY <1>1, CapacityAssumption
  <2>2. At(h, i) # At(h, n + 1) /\ At(h, i) \in 0..Capacity-1
    <3>1. At(h, i) = Wrap(h + i - 1)
      BY <2>1, AtIs
    <3>2. At(h, n + 1) = Wrap(h + (n + 1) - 1)
      BY <1>1, AtIs
    <3>3. At(h, i) \in 0..Capacity-1
      BY <2>1, AtIs
    <3> QED
      BY <1>1, <2>1, <3>1, <3>2, <3>3, CapacityAssumption DEF Wrap
  <2>3. b[At(h, i)] = a[At(h, i)]
    BY <2>2
  <2>4. new[i] = b[At(h, i)] /\ old[i] = a[At(h, i)]
    <3> HIDE DEF new, old, b
    <3> QED BY <1>3, <1>4, <2>1
  <2> QED
    BY <2>3, <2>4
<1> HIDE DEF new, old
<1>7. new = Append(old, m)
  BY <1>1, <1>3, <1>4, <1>5, <1>6
<1> QED
  BY <1>7 DEF new, old

(* Moving the head on removes the oldest message. *)
LEMMA RingSeqTake ==
  ASSUME NEW a \in [0..Capacity-1 -> Msg], NEW h \in 0..Capacity-1,
         NEW n \in 1..Capacity
  PROVE  /\ RingSeq(a, h, n) # <<>>
         /\ Head(RingSeq(a, h, n)) = a[h]
         /\ RingSeq(a, NextIndex(h), n - 1) = Tail(RingSeq(a, h, n))
<1> DEFINE old == RingSeq(a, h, n)
           new == RingSeq(a, NextIndex(h), n - 1)
<1>1. n \in 0..Capacity /\ n - 1 \in 0..Capacity /\ n \in Nat /\ 1 \in 1..Capacity
  BY CapacityAssumption
<1>2. NextIndex(h) \in 0..Capacity-1
  BY NextIndexInRange
<1>3. /\ old \in Seq(Msg) /\ Len(old) = n
      /\ \A i \in 1..n : old[i] = a[At(h, i)]
  BY <1>1, RingSeqFacts
<1>4. /\ new \in Seq(Msg) /\ Len(new) = n - 1
      /\ \A i \in 1..n-1 : new[i] = a[At(NextIndex(h), i)]
  BY <1>1, <1>2, RingSeqFacts
<1>5. At(h, 1) = h
  BY <1>1, AtIs, CapacityAssumption DEF Wrap
<1>6. ASSUME NEW i \in 1..n-1 PROVE new[i] = old[i + 1]
  <2>1. i \in 1..Capacity /\ i + 1 \in 1..Capacity /\ i + 1 \in 1..n
    BY <1>1, CapacityAssumption
  <2>2. At(NextIndex(h), i) = At(h, i + 1)
    <3>1. At(h, i + 1) = Wrap(h + (i + 1) - 1)
      BY <2>1, AtIs
    <3>2. At(NextIndex(h), i) = Wrap(NextIndex(h) + i - 1)
      BY <1>2, <2>1, AtIs
    <3>3. NextIndex(h) = IF h + 1 < Capacity THEN h + 1 ELSE 0
      BY NextIndexIs
    <3> QED
      BY <1>1, <1>2, <2>1, <3>1, <3>2, <3>3, CapacityAssumption DEF Wrap
  <2> HIDE DEF new, old
  <2> QED
    BY <1>3, <1>4, <2>1, <2>2
<1> HIDE DEF new, old
<1>7. old # <<>> /\ Head(old) = a[h] /\ new = Tail(old)
  <2>1. old # <<>> /\ Head(old) = old[1] /\ old[1] = a[h]
    BY <1>1, <1>3, <1>5
  <2>2. /\ Tail(old) \in Seq(Msg) /\ Len(Tail(old)) = n - 1
        /\ \A i \in 1..n-1 : Tail(old)[i] = old[i + 1]
    BY <1>1, <1>3
  <2>3. new = Tail(old)
    BY <1>1, <1>4, <1>6, <2>2
  <2> QED
    BY <2>1, <2>3
<1> QED
  BY <1>7 DEF new, old

(* A store appends its message to the queue. *)
LEMMA StoreEnqueues ==
  ASSUME IInv, Ring, NEW p \in Producers, PutStore(p)
  PROVE  Queue!Enqueue(pending[p]) /\ pending[p] \in Msg
<1>1. /\ HasArray /\ HasArray' /\ pending[p] \in Msg /\ count \in 0..Capacity-1
      /\ tail = (head + count) % Capacity
      /\ head \in 0..Capacity-1 /\ array \in [0..Capacity-1 -> Msg]
  BY CapacityAssumption
  DEF PutStore, IInv, TypeOK, NoStaleTest, InCall, InPut, Ring, HasArray, Threads
<1>2. tail = At(head, count + 1)
  <2>1. head + count = head + (count + 1) - 1
    BY <1>1, CapacityAssumption
  <2> QED
    BY <1>1, <2>1 DEF At
<1>3. Contents = RingSeq(array, head, count)
  BY <1>1 DEF Contents
<1>4. Contents' = RingSeq([array EXCEPT ![At(head, count + 1)] = pending[p]], head, count + 1)
  BY <1>1, <1>2 DEF Contents, PutStore, RingSeq
<1>5. Contents' = Append(Contents, pending[p])
  BY <1>1, <1>3, <1>4, RingSeqStore
<1>6. count \in 0..Capacity /\ count < Capacity
  BY <1>1, CapacityAssumption
<1>7. Len(Contents) < Capacity
  BY <1>1, <1>3, <1>6, RingSeqFacts
<1> QED
  BY <1>1, <1>5, <1>7 DEF Queue!Enqueue, PutStore

(* A take removes the head of the queue and hands it over. *)
LEMMA TakeDequeues ==
  ASSUME IInv, NEW c \in Consumers, Take(c)
  PROVE  Queue!Dequeue(c)
<1>1. /\ HasArray /\ HasArray' /\ count \in 1..Capacity
      /\ head \in 0..Capacity-1 /\ array \in [0..Capacity-1 -> Msg]
  BY CapacityAssumption DEF Take, IInv, TypeOK, NoStaleTest, HasArray, Threads
<1>2. Contents = RingSeq(array, head, count)
  BY <1>1 DEF Contents
<1>3. Contents' = RingSeq(array, NextIndex(head), count - 1)
  BY <1>1 DEF Contents, Take, RingSeq, NextIndex
<1>4. Contents # <<>> /\ Head(Contents) = array[head] /\ Contents' = Tail(Contents)
  BY <1>1, <1>2, <1>3, RingSeqTake
<1> QED
  BY <1>1, <1>4 DEF Queue!Dequeue, Take

LEMMA StepRefines ==
  ASSUME IInv, IInv', Ring, [Next]_vars
  PROVE  [Queue!Next]_(Queue!vars)
<1>1. ASSUME NEW p \in Producers, PutStore(p) PROVE Queue!Next
  BY <1>1, StoreEnqueues DEF Queue!Next
<1>2. ASSUME NEW c \in Consumers, Take(c) PROVE Queue!Next
  BY <1>2, TakeDequeues DEF Queue!Next
<1>3. ASSUME DestroyFree PROVE Queue!Next
  BY <1>3 DEF DestroyFree, Queue!Next, Queue!Close, Contents, HasArray
<1>4. CASE UNCHANGED <<array, head, count, got>> /\ (HasArray <=> HasArray')
  BY <1>4 DEF Queue!vars, Contents, RingSeq
<1>5. CASE UNCHANGED vars
  BY <1>5 DEF vars, Queue!vars, Contents, RingSeq, HasArray
<1> QED
  BY <1>1, <1>2, <1>3, <1>4, <1>5
  DEF Next, ProducerStep, ConsumerStep, PutCall, PutResume, PutDropped, EnterPut,
      GetEnter, TryGetEnter, TryGetNothing, GetDropped, SpuriousWakeup,
      AccessFreed, DestroyBroadcast, Crashed, HasArray, ring

(* buffer.c implements the bounded FIFO queue until it is destroyed: nothing
   is lost, repeated or reordered, whatever the capacity and the threads. *)
THEOREM Refinement == Spec => QueueSpec
<1>1. Init => Queue!Init
  BY DEF Init, Queue!Init, Contents, RingSeq, HasArray
<1>2. IInv /\ IInv' /\ Ring /\ [Next]_vars => [Queue!Next]_(Queue!vars)
  BY StepRefines
<1> QED
  BY <1>1, <1>2, Invariance, RingKept, PTL DEF Spec, QueueSpec, Queue!Spec
=============================================================================
