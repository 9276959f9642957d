-------------------------- MODULE MultiplayerProofs --------------------------
(***************************************************************************)
(* Theorems about Multiplayer, for any clients, slots, descriptors, ids    *)
(* and any streams.                                                        *)
(***************************************************************************)
EXTENDS Multiplayer, Minima

-----------------------------------------------------------------------------
(* Descriptors *)

SlotType == [state : {"EMPTY", "PENDING", "ACTIVE"}, fd : Fds \cup {NoFd},
             id : Ids \cup {NoId}, age : Nat]

(* FdOwnership while the server runs, for any slots and owners.            *)
Sole ==
  /\ \A i \in Slots \ Free : slots[i].fd \in OpenFds
  /\ \A f \in OpenFds : \E i \in Slots \ Free : slots[i].fd = f
  /\ \A i, j \in Slots \ Free : slots[i].fd = slots[j].fd => i = j

FdTypes ==
  /\ owner \in [Fds -> Clients \cup {NoClient}]
  /\ backlog \in Seq(Clients)
  /\ slots \in [Slots -> SlotType]
  /\ neti \in Slots /\ simi \in Slots

FdInv == FdTypes /\ FdOwnership

LEMMA Parts == FdOwnership <=> /\ netpc # "done" => Sole
                               /\ netpc = "done" => OpenFds = {} /\ simpc = "exited"
  BY DEF FdOwnership, Sole

LEMMA FdInit == Init => FdInv
<1> SUFFICES ASSUME Init PROVE FdInv
  OBVIOUS
<1>1. /\ owner = [f \in Fds |-> NoClient] /\ backlog = <<>> /\ netpc # "done"
      /\ slots = [i \in Slots |-> EmptySlot] /\ neti = 1 /\ simi = 1
  BY DEF Init, ConnectionsInit, ServerInit
<1>2. EmptySlot \in SlotType /\ EmptySlot.state = "EMPTY"
  BY DEF EmptySlot, SlotType
<1>3. FdTypes /\ Free = Slots /\ OpenFds = {}
  BY <1>1, <1>2, PlacesAssumption DEF FdTypes, Free, OpenFds, Slots
<1>4. QED
  BY <1>1, <1>3 DEF FdInv, FdOwnership

(* drop_client_locked closes the descriptor of the slot it empties.        *)
LEMMA DropFd ==
  ASSUME FdTypes, Sole, NEW i \in Slots, slots[i].state # "EMPTY",
         slots' = [slots EXCEPT ![i] = EmptySlot],
         owner' = [owner EXCEPT ![slots[i].fd] = NoClient]
  PROVE  /\ Sole' /\ slots' \in [Slots -> SlotType]
         /\ owner' \in [Fds -> Clients \cup {NoClient}]
<1>1. EmptySlot \in SlotType /\ EmptySlot.state = "EMPTY"
  BY DEF EmptySlot, SlotType
<1>2. Free' = Free \cup {i} /\ i \notin Free
  BY <1>1 DEF Free, FdTypes
<1>3. slots[i].fd \in Fds
  BY <1>2 DEF Sole, OpenFds
<1>4. OpenFds' = OpenFds \ {slots[i].fd}
  BY <1>3 DEF OpenFds, FdTypes
<1>5. \A j \in Slots \ {i} : slots'[j] = slots[j]
  BY DEF FdTypes
<1>6. QED
  BY <1>1, <1>2, <1>3, <1>4, <1>5 DEF Sole, FdTypes

(* Steps that leave every slot its descriptor.                             *)
LEMMA SameFd ==
  ASSUME Sole, UNCHANGED owner,
         \A i \in Slots : /\ slots'[i].fd = slots[i].fd
                          /\ slots'[i].state = "EMPTY" <=> slots[i].state = "EMPTY"
  PROVE  Sole'
<1>1. Free' = Free /\ OpenFds' = OpenFds
  BY DEF Free, OpenFds
<1>2. QED
  BY <1>1 DEF Sole

(* There is a descriptor for a slot that is free, and accept() takes the   *)
(* lowest.                                                                 *)
LEMMA FdLeft ==
  ASSUME FdTypes, Sole, Free # {}
  PROVE  LowestFree \in Fds \ OpenFds /\ Min(Free) \in Free
<1>1. Fds \ OpenFds # {}
  <2> SUFFICES ASSUME Fds \subseteq OpenFds PROVE FALSE
    OBVIOUS
  <2> DEFINE used == Slots \ Free
             fdOf == [i \in used |-> slots[i].fd]
  <2>1. IsFiniteSet(Slots) /\ Cardinality(Slots) = MaxPlayers
    BY FS_Interval, PlacesAssumption DEF Slots
  <2>2. IsFiniteSet(used) /\ Cardinality(used) < MaxPlayers
    <3>1. used \subseteq Slots /\ used # Slots
      BY DEF Free
    <3>2. Cardinality(used) <= Cardinality(Slots) /\ IsFiniteSet(used)
          /\ (Cardinality(used) = Cardinality(Slots) => used = Slots)
      BY <2>1, <3>1, FS_Subset
    <3>3. Cardinality(used) \in Nat /\ Cardinality(Slots) \in Nat
      BY <2>1, <3>2, FS_CardinalityType
    <3>4. QED
      BY <2>1, <3>1, <3>2, <3>3
  <2>3. fdOf \in Surjection(used, Fds)
    <3>1. fdOf \in [used -> Fds]
      BY DEF Sole, OpenFds
    <3>2. \A f \in Fds : \E i \in used : fdOf[i] = f
      BY DEF Sole
    <3>3. QED
      BY <3>1, <3>2 DEF Surjection
  <2>4. Cardinality(Fds) <= Cardinality(used)
    BY <2>2, <2>3, FS_Surjection
  <2>5. Cardinality(Fds) \in Nat /\ Cardinality(used) \in Nat
    BY <2>2, PlacesAssumption, FS_CardinalityType
  <2>6. QED
    BY <2>2, <2>4, <2>5, PlacesAssumption
<1>2. \E n \in Fds \ OpenFds : \A o \in Fds \ OpenFds : n <= o
  BY <1>1, LeastExists, PlacesAssumption
<1>3. \E n \in Free : \A o \in Free : n <= o
  <2>1. Free \in SUBSET Nat
    BY DEF Free, Slots
  <2>2. QED
    BY <2>1, LeastExists
<1>4. QED
  BY <1>2, <1>3 DEF LowestFree, Min

LEMMA AcceptFd ==
  ASSUME FdInv, NetAccept
  PROVE  /\ Sole' /\ slots' \in [Slots -> SlotType]
         /\ owner' \in [Fds -> Clients \cup {NoClient}] /\ backlog' \in Seq(Clients)
<1>1. FdTypes /\ Sole /\ netpc = "accept"
  BY Parts DEF FdInv, NetAccept
<1>2. CASE UNCHANGED <<owner, backlog, slots>>
  <2>1. Free' = Free /\ OpenFds' = OpenFds
    BY <1>2 DEF Free, OpenFds
  <2>2. QED
    BY <1>1, <1>2, <2>1 DEF Sole, FdTypes
<1>3. CASE /\ backlog # <<>> /\ backlog' = Tail(backlog) /\ Free = {}
           /\ UNCHANGED <<owner, slots>>
  <2>1. Free' = Free /\ OpenFds' = OpenFds
    BY <1>3 DEF Free, OpenFds
  <2>2. QED
    BY <1>1, <1>3, <2>1 DEF Sole, FdTypes
<1>4. CASE /\ backlog # <<>> /\ backlog' = Tail(backlog) /\ Free # {}
           /\ owner' = [owner EXCEPT ![LowestFree] = Head(backlog)]
           /\ slots' = [slots EXCEPT ![Min(Free)] =
                [EmptySlot EXCEPT !.state = "PENDING", !.fd = LowestFree]]
  <2> DEFINE new == [EmptySlot EXCEPT !.state = "PENDING", !.fd = LowestFree]
  <2>1. LowestFree \in Fds \ OpenFds /\ Min(Free) \in Free
    BY <1>1, <1>4, FdLeft
  <2>2. Head(backlog) \in Clients /\ Tail(backlog) \in Seq(Clients)
    BY <1>1, <1>4 DEF FdTypes
  <2>3. new \in SlotType /\ new.state = "PENDING" /\ new.fd = LowestFree
    BY <2>1 DEF EmptySlot, SlotType
  <2>4. OpenFds' = OpenFds \cup {LowestFree}
    BY <1>1, <1>4, <2>1, <2>2, NamesAssumption DEF OpenFds, FdTypes
  <2>5. Free \subseteq Slots /\ Free' = Free \ {Min(Free)}
    BY <1>1, <1>4, <2>1, <2>3 DEF Free, FdTypes
  <2>6. slots'[Min(Free)] = new /\ \A j \in Slots \ {Min(Free)} : slots'[j] = slots[j]
    BY <1>1, <1>4, <2>1, <2>5 DEF FdTypes
  <2> HIDE DEF new
  <2>7. Sole'
    BY <1>1, <2>1, <2>3, <2>4, <2>5, <2>6 DEF Sole
  <2>8. QED
    BY <1>1, <1>4, <2>1, <2>2, <2>3, <2>5, <2>7 DEF FdTypes, new
<1>5. QED
  BY <1>2, <1>3, <1>4 DEF NetAccept

LEMMA SimFd == FdInv /\ SimStep => FdInv'
<1> SUFFICES ASSUME FdInv, SimStep PROVE FdInv'
  OBVIOUS
<1>1. FdTypes /\ UNCHANGED <<backlog, neti, netpc>>
  BY DEF FdInv, SimStep, SimCheck, SimLock, SimBeat, SimBuild, SimSend, net, sockets
<1>2. simi' \in Slots
  BY <1>1, PlacesAssumption
  DEF FdTypes, SimStep, SimCheck, SimLock, SimBeat, SimBuild, SimSend, NextSim, Slots
<1>3. CASE SimCheck
  <2>1. UNCHANGED <<owner, slots>> /\ simpc = "check"
    BY <1>3 DEF SimCheck, sockets
  <2>2. netpc # "done" /\ Sole
    BY <2>1, Parts DEF FdInv
  <2>3. Sole'
    BY <2>1, <2>2, SameFd
  <2>4. QED
    BY <1>1, <1>2, <2>1, <2>2, <2>3, Parts DEF FdInv, FdOwnership, Sole, FdTypes
<1>4. CASE ~SimCheck
  <2>1. netpc # "done" /\ Sole /\ netpc' # "done"
    BY <1>1, <1>4, Parts DEF FdInv, SimStep, SimLock, SimBeat, SimBuild, SimSend
  <2>2. CASE UNCHANGED <<owner, slots>>
    BY <1>1, <1>2, <2>1, <2>2, SameFd, Parts DEF FdInv, FdOwnership, Sole, FdTypes
  <2>3. CASE \E i \in Slots : slots[i].state = "ACTIVE" /\ Drop(i)
    <3>1. PICK i \in Slots : slots[i].state = "ACTIVE" /\ Drop(i)
      BY <2>3
    <3>2. /\ Sole' /\ slots' \in [Slots -> SlotType]
          /\ owner' \in [Fds -> Clients \cup {NoClient}]
      BY <1>1, <2>1, <3>1, DropFd DEF Drop
    <3>3. QED
      BY <1>1, <1>2, <2>1, <3>2 DEF FdInv, FdOwnership, Sole, FdTypes
  <2>4. QED
    BY <1>1, <1>4, <2>2, <2>3
    DEF FdTypes, SimStep, SimLock, SimBeat, SimBuild, SimSend, sockets
<1>5. QED
  BY <1>3, <1>4

(* A slot that the network thread serves.                                  *)
LEMMA ServeFd ==
  ASSUME FdInv, NetSkip \/ NetRecvFails \/ NetFrame \/ \E id \in Ids : NetJoin(id)
  PROVE  FdInv'
<1>1. FdTypes /\ netpc = "serve" /\ Sole /\ UNCHANGED <<backlog, simi>>
  BY Parts
  DEF FdInv, NetSkip, NetRecvFails, NetFrame, NetJoin, sim, sockets
<1>2. neti' \in Slots /\ netpc' # "done"
  <2>1. NextServe
    BY DEF NetSkip, NetRecvFails, NetFrame, NetJoin
  <2>2. QED
    BY <1>1, <2>1, PlacesAssumption DEF NextServe, FdTypes, Slots
<1>3. SUFFICES /\ Sole' /\ slots' \in [Slots -> SlotType]
               /\ owner' \in [Fds -> Clients \cup {NoClient}]
  BY <1>1, <1>2 DEF FdInv, FdOwnership, Sole, FdTypes
<1>4. neti \in Slots
  BY <1>1 DEF FdTypes
<1>5. CASE UNCHANGED <<owner, slots>>
  BY <1>1, <1>5, SameFd DEF FdTypes
<1>6. ASSUME slots[neti].state # "EMPTY", slots' = [slots EXCEPT ![neti] = EmptySlot],
             owner' = [owner EXCEPT ![slots[neti].fd] = NoClient]
      PROVE  /\ Sole' /\ slots' \in [Slots -> SlotType]
             /\ owner' \in [Fds -> Clients \cup {NoClient}]
  BY <1>1, <1>4, <1>6, DropFd
<1>7. CASE NetFrame
  <2>1. UNCHANGED owner /\ slots' = [slots EXCEPT ![neti].age = 0]
    BY <1>7 DEF NetFrame
  <2>2. slots' \in [Slots -> SlotType]
    BY <1>1, <1>4, <2>1 DEF FdTypes, SlotType
  <2>3. \A i \in Slots : slots'[i].fd = slots[i].fd /\ slots'[i].state = slots[i].state
    BY <1>1, <1>4, <2>1 DEF FdTypes, SlotType
  <2>4. QED
    BY <1>1, <2>1, <2>2, <2>3, SameFd DEF FdTypes
<1>8. CASE NetRecvFails
  BY <1>6, <1>8 DEF NetRecvFails, Selected, Drop
<1>9. ASSUME NEW id \in Ids, NetJoin(id)
      PROVE  /\ Sole' /\ slots' \in [Slots -> SlotType]
             /\ owner' \in [Fds -> Clients \cup {NoClient}]
  <2>1. CASE UNCHANGED owner
    <3>1. slots[neti].state = "PENDING"
          /\ \/ slots' = [slots EXCEPT ![neti] =
                 [slots[neti] EXCEPT !.state = "ACTIVE", !.id = id, !.age = 0]]
             \/ slots' = [slots EXCEPT ![neti] = EmptySlot]
                /\ owner' = [owner EXCEPT ![slots[neti].fd] = NoClient]
      BY <1>9 DEF NetJoin, Drop
    <3>2. CASE slots' = [slots EXCEPT ![neti] = EmptySlot]
               /\ owner' = [owner EXCEPT ![slots[neti].fd] = NoClient]
      BY <1>6, <3>1, <3>2
    <3>3. CASE slots' = [slots EXCEPT ![neti] =
                 [slots[neti] EXCEPT !.state = "ACTIVE", !.id = id, !.age = 0]]
      <4>1. slots' \in [Slots -> SlotType]
        BY <1>1, <1>4, <3>3 DEF FdTypes, SlotType
      <4>2. \A i \in Slots : /\ slots'[i].fd = slots[i].fd
                             /\ slots'[i].state = "EMPTY" <=> slots[i].state = "EMPTY"
        BY <1>1, <1>4, <3>1, <3>3 DEF FdTypes, SlotType
      <4>3. QED
        BY <1>1, <2>1, <4>1, <4>2, SameFd DEF FdTypes
    <3>4. QED
      BY <3>1, <3>2, <3>3
  <2>2. CASE ~UNCHANGED owner
    BY <1>6, <1>9, <2>2 DEF NetJoin, Drop
  <2>3. QED
    BY <2>1, <2>2
<1>10. QED
  BY <1>5, <1>7, <1>8, <1>9 DEF NetSkip, sockets

LEMMA NetFd == FdInv /\ NetStep => FdInv'
<1> SUFFICES ASSUME FdInv, NetStep PROVE FdInv'
  OBVIOUS
<1>1. CASE NetTop \/ NetSelect \/ NetWake \/ NetIdle \/ NetLock
  <2>1. UNCHANGED <<owner, slots, backlog, neti, simi>> /\ netpc # "done" /\ netpc' # "done"
    BY <1>1 DEF NetTop, NetSelect, NetWake, NetIdle, NetLock, sockets, sim
  <2>2. Sole'
    BY <2>1, Parts, SameFd DEF FdInv
  <2>3. QED
    BY <2>1, <2>2 DEF FdInv, FdOwnership, Sole, FdTypes
<1>2. CASE NetAccept
  <2>1. UNCHANGED <<neti, simi>> /\ netpc' = "serve"
    BY <1>2 DEF NetAccept, sim
  <2>2. QED
    BY <1>2, <2>1, AcceptFd DEF FdInv, FdOwnership, Sole, FdTypes
<1>3. CASE NetExit
  <2>1. /\ netpc = "join" /\ simpc = "exited" /\ netpc' = "done" /\ backlog' = <<>>
        /\ owner' = [f \in Fds |-> IF f \in SlotFds THEN NoClient ELSE owner[f]]
        /\ UNCHANGED <<slots, neti, simi, simpc>>
    BY <1>3 DEF NetExit, sim
  <2>2. Sole /\ FdTypes
    BY <2>1, Parts DEF FdInv
  <2>3. OpenFds' = {}
    BY <2>1, <2>2 DEF Sole, OpenFds, SlotFds
  <2>4. owner' \in [Fds -> Clients \cup {NoClient}]
    BY <2>1, <2>2 DEF FdTypes
  <2>5. QED
    BY <2>1, <2>2, <2>3, <2>4 DEF FdInv, FdTypes, FdOwnership
<1>4. QED
  BY <1>1, <1>2, <1>3, ServeFd DEF NetStep

LEMMA FdKeeps == FdInv /\ [Next]_vars => FdInv'
<1> SUFFICES ASSUME FdInv, [Next]_vars PROVE FdInv'
  OBVIOUS
<1>1. CASE SimStep \/ NetStep
  BY <1>1, SimFd, NetFd
<1>2. CASE Second
  <2>1. /\ netpc # "done" /\ UNCHANGED <<owner, backlog, neti, simi, netpc>>
        /\ slots' = [i \in Slots |->
             IF slots[i].state = "ACTIVE" /\ slots[i].age <= Timeout
             THEN [slots[i] EXCEPT !.age = @ + 1] ELSE slots[i]]
    BY <1>2 DEF Second, sockets, net, sim
  <2>2. slots' \in [Slots -> SlotType]
    <3>1. \A e \in SlotType : [e EXCEPT !.age = @ + 1] \in SlotType
      BY DEF SlotType
    <3>2. \A i \in Slots : slots[i] \in SlotType
      BY DEF FdInv, FdTypes
    <3>3. QED
      BY <2>1, <3>1, <3>2
  <2>3. \A i \in Slots : slots'[i].fd = slots[i].fd /\ slots'[i].state = slots[i].state
    BY <2>1 DEF FdInv, FdTypes, SlotType
  <2>4. Sole'
    BY <2>1, <2>3, Parts, SameFd DEF FdInv
  <2>5. QED
    BY <2>1, <2>2, <2>4 DEF FdInv, FdOwnership, Sole, FdTypes
<1>3. CASE ShutdownSignal \/ UNCHANGED vars
           \/ \E c \in Clients : (Connect(c) \/ ClientStep(c)) /\ UNCHANGED server
  <2>1. UNCHANGED <<owner, slots, neti, simi, netpc, simpc>>
    BY <1>3 DEF ShutdownSignal, Connect, ClientStep, ClientProgress, SendJoin, Handshake,
       ReadFrame, EndOfStream, PressKey, Quit, Killed, Hang, Exit, vars, sockets,
       server, net, sim
  <2>2. backlog' \in Seq(Clients)
    BY <1>3 DEF FdInv, FdTypes, ShutdownSignal, Connect, ClientStep, ClientProgress,
       SendJoin, Handshake, ReadFrame, EndOfStream, PressKey, Quit, Killed, Hang, Exit,
       vars, sockets
  <2>3. FdOwnership'
    BY <2>1 DEF FdInv, FdOwnership, OpenFds, Free
  <2>4. QED
    BY <2>1, <2>2, <2>3 DEF FdInv, FdTypes
<1>4. QED
  BY <1>1, <1>2, <1>3 DEF Next, Done

LEMMA FdInvariance == Spec => []FdInv
<1>1. QED
  BY FdInit, FdKeeps, PTL DEF Spec

(* No descriptor leaks and none is shared, whatever both threads close and *)
(* whatever numbers the kernel hands out again; none is open in the end.   *)
THEOREM DescriptorsOwned == Spec => []FdOwnership
<1>1. FdInv => FdOwnership
  BY DEF FdInv
<1>2. QED
  BY <1>1, FdInvariance, PTL

-----------------------------------------------------------------------------
(* Types *)

Links ==
  /\ cend \subseteq Clients /\ Len(backlog) <= Backlog
  /\ up \in [Clients -> Seq(UpFrames)] /\ \A c \in Clients : Len(up[c]) <= UpCap
  /\ down \in [Clients -> Seq(DownFrames)] /\ \A c \in Clients : Len(down[c]) <= DownCap

Persons == cl \in [Clients -> ClientStates] /\ myid \in [Clients -> Ids \cup {NoId}]

Rooms ==
  /\ \A i \in Slots : slots[i].age <= Timeout + 1
  /\ players \in Seq(Ids) /\ Len(players) <= MaxPlayers
  /\ lock \in {"free", "net", "sim"} /\ running \in BOOLEAN
  /\ netpc \in {"top", "select", "blocked", "want", "accept", "serve", "join", "done"}
  /\ rfds \subseteq Fds \cup {ListenFd}
  /\ simpc \in {"check", "want", "beat", "build", "send", "exited"}
  /\ tick \in 0..HeartbeatEvery - 1 /\ snap \subseteq Ids

TypeInv == FdInv /\ Links /\ Persons /\ Rooms

LEMMA TypeInit == Init => TypeInv
<1> SUFFICES ASSUME Init PROVE TypeInv
  OBVIOUS
<1>1. Links
  BY CapsAssumption DEF Init, ConnectionsInit, Links
<1>2. Persons
  BY DEF Init, ClientInit, Persons, ClientStates
<1>3. Rooms
  BY PlacesAssumption, TimesAssumption DEF Init, ServerInit, Rooms, EmptySlot
<1>4. QED
  BY <1>1, <1>2, <1>3, FdInit DEF TypeInv

(* Who leaves is taken out of the list of players: his first entry.        *)
LEMMA RemovesOne ==
  ASSUME NEW S, NEW s \in Seq(S), NEW e, \E i \in 1..Len(s) : s[i] = e
  PROVE  \E n \in 1..Len(s) : /\ s[n] = e
           /\ RemovePlayer(s, e) = SubSeq(s, 1, n - 1) \o SubSeq(s, n + 1, Len(s))
<1> DEFINE I == {i \in 1..Len(s) : s[i] = e}
<1>1. I # {} /\ I \in SUBSET Nat
  OBVIOUS
<1>2. Min(I) \in I
  BY <1>1, LeastExists DEF Min
<1>3. RemovePlayer(s, e) = RemoveAt(s, Min(I))
  BY <1>1 DEF RemovePlayer, RemoveFirst, SelectInSeq
<1>4. QED
  BY <1>2, <1>3 DEF RemoveAt

LEMMA RemoveType ==
  ASSUME NEW S, NEW s \in Seq(S), NEW e
  PROVE  RemovePlayer(s, e) \in Seq(S) /\ Len(RemovePlayer(s, e)) <= Len(s)
<1>1. CASE \E i \in 1..Len(s) : s[i] = e
  <2>1. PICK n \in 1..Len(s) :
          RemovePlayer(s, e) = SubSeq(s, 1, n - 1) \o SubSeq(s, n + 1, Len(s))
    BY <1>1, RemovesOne
  <2>2. /\ SubSeq(s, 1, n - 1) \in Seq(S) /\ Len(SubSeq(s, 1, n - 1)) = n - 1
        /\ SubSeq(s, n + 1, Len(s)) \in Seq(S)
        /\ Len(SubSeq(s, n + 1, Len(s))) = Len(s) - n
    OBVIOUS
  <2>3. \A a, c \in Seq(S) : a \o c \in Seq(S) /\ Len(a \o c) = Len(a) + Len(c)
    OBVIOUS
  <2>4. /\ RemovePlayer(s, e) \in Seq(S)
        /\ Len(RemovePlayer(s, e)) = (n - 1) + (Len(s) - n)
    BY <2>1, <2>2, <2>3
  <2>5. QED
    BY <2>4
<1>2. CASE ~\E i \in 1..Len(s) : s[i] = e
  BY <1>2 DEF RemovePlayer, RemoveFirst
<1>3. QED
  BY <1>1, <1>2

LEMMA PeerType ==
  ASSUME FdInv, netpc # "done", NEW i \in Slots, slots[i].state # "EMPTY"
  PROVE  slots[i].fd \in OpenFds /\ Peer(i) \in Clients
  BY Parts DEF FdInv, FdTypes, Sole, Free, OpenFds, Peer

(* What a send leaves of the streams.                                      *)
LEMMA SentLinks ==
  ASSUME Links, NEW c \in Clients, NEW frame \in DownFrames, SendWorks(c),
         down' = Sent(c, frame)
  PROVE  /\ down' \in [Clients -> Seq(DownFrames)]
         /\ \A d \in Clients : Len(down'[d]) <= DownCap
<1>1. CASE c \in cend
  <2>1. down' = [down EXCEPT ![c] = Append(down[c], frame)] /\ Len(down[c]) < DownCap
    BY <1>1 DEF Sent, SendWorks
  <2>2. Append(down[c], frame) \in Seq(DownFrames)
        /\ Len(Append(down[c], frame)) = Len(down[c]) + 1 /\ Len(down[c]) \in Nat
    BY DEF Links
  <2>3. QED
    BY <2>1, <2>2, CapsAssumption DEF Links
<1>2. CASE c \notin cend
  BY <1>2 DEF Sent, Links
<1>3. QED
  BY <1>1, <1>2

LEMMA FrameTypes ==
  /\ [type |-> "PING"] \in DownFrames
  /\ \A id \in Ids : [type |-> "WELCOME", id |-> id] \in DownFrames
  /\ \A S \in SUBSET Ids : [type |-> "SNAPSHOT", ids |-> S] \in DownFrames
  BY DEF DownFrames

(* A stream to the server is emptied, or its first frame read.             *)
LEMMA ReadLinks ==
  ASSUME Links, NEW c \in Clients,
         \/ up' = [up EXCEPT ![c] = <<>>]
         \/ up[c] # <<>> /\ up' = [up EXCEPT ![c] = Tail(up[c])]
  PROVE  up' \in [Clients -> Seq(UpFrames)] /\ \A d \in Clients : Len(up'[d]) <= UpCap
<1>1. CASE up' = [up EXCEPT ![c] = <<>>]
  BY <1>1, CapsAssumption DEF Links
<1>2. CASE up[c] # <<>> /\ up' = [up EXCEPT ![c] = Tail(up[c])]
  <2>1. Tail(up[c]) \in Seq(UpFrames) /\ Len(Tail(up[c])) = Len(up[c]) - 1
        /\ Len(up[c]) \in Nat
    BY <1>2 DEF Links
  <2>2. QED
    BY <1>2, <2>1, CapsAssumption DEF Links
<1>3. QED
  BY <1>1, <1>2

LEMMA SimLinks == TypeInv /\ SimStep => Links'
<1> SUFFICES ASSUME TypeInv, SimStep PROVE Links'
  OBVIOUS
<1>1. UNCHANGED <<cend, backlog>>
  BY DEF SimStep, SimCheck, SimLock, SimBeat, SimBuild, SimSend, sockets
<1>2. CASE UNCHANGED <<up, down>>
  BY <1>1, <1>2 DEF TypeInv, Links
<1>3. CASE SimBeat \/ SimSend
  <2>1. /\ simi \in Slots /\ netpc # "done" /\ FdInv /\ Links
        /\ slots[simi].state = "ACTIVE" => Peer(simi) \in Clients
    BY <1>3, PeerType DEF TypeInv, FdInv, FdTypes, FdOwnership, SimBeat, SimSend
  <2>2. CASE slots[simi].state = "ACTIVE" /\ Drop(simi) /\ UNCHANGED down
    BY <1>1, <2>1, <2>2, ReadLinks DEF Drop, Links
  <2>3. CASE \E frame \in DownFrames :
               /\ slots[simi].state = "ACTIVE" /\ SendWorks(Peer(simi))
               /\ down' = Sent(Peer(simi), frame) /\ UNCHANGED up
    BY <1>1, <2>1, <2>3, SentLinks DEF Links
  <2>4. CASE SimBeat
    BY <1>2, <2>2, <2>3, <2>4, FrameTypes DEF SimBeat
  <2>5. CASE SimSend
    BY <1>2, <2>2, <2>3, <2>5, FrameTypes DEF SimSend, TypeInv, Rooms
  <2>6. QED
    BY <1>3, <2>4, <2>5
<1>4. QED
  BY <1>2, <1>3 DEF SimStep, SimCheck, SimLock, SimBuild, sockets

LEMMA NetLinks == TypeInv /\ NetStep => Links'
<1> SUFFICES ASSUME TypeInv, NetStep PROVE Links'
  OBVIOUS
<1>1. CASE NetTop \/ NetSelect \/ NetWake \/ NetIdle \/ NetLock \/ NetSkip
  BY <1>1 DEF NetTop, NetSelect, NetWake, NetIdle, NetLock, NetSkip, sockets, TypeInv, Links
<1>2. CASE NetAccept
  <2>1. UNCHANGED <<cend, down>> /\ Links /\ backlog \in Seq(Clients)
    BY <1>2 DEF NetAccept, TypeInv, FdInv, FdTypes
  <2>2. CASE UNCHANGED <<backlog, up>>
    BY <2>1, <2>2 DEF Links
  <2>3. CASE backlog # <<>> /\ backlog' = Tail(backlog)
             /\ \/ UNCHANGED up
                \/ up' = [up EXCEPT ![Head(backlog)] = <<>>]
    <3>1. Head(backlog) \in Clients /\ Len(Tail(backlog)) = Len(backlog) - 1
          /\ Len(backlog) \in Nat
      BY <2>1, <2>3
    <3>2. up' \in [Clients -> Seq(UpFrames)] /\ \A d \in Clients : Len(up'[d]) <= UpCap
      BY <2>1, <2>3, <3>1, ReadLinks DEF Links
    <3>3. QED
      BY <2>1, <2>3, <3>1, <3>2, CapsAssumption DEF Links
  <2>4. QED
    BY <1>2, <2>2, <2>3 DEF NetAccept
<1>3. CASE NetRecvFails \/ NetFrame \/ \E id \in Ids : NetJoin(id)
  <2>1. /\ neti \in Slots /\ Peer(neti) \in Clients /\ Links
        /\ UNCHANGED <<cend, backlog>>
    <3>1. neti \in Slots /\ netpc # "done" /\ slots[neti].state # "EMPTY"
      BY <1>3 DEF TypeInv, FdInv, FdTypes, NetRecvFails, NetFrame, NetJoin, Selected
    <3>2. QED
      BY <1>3, <3>1, PeerType DEF TypeInv, NetRecvFails, NetFrame, NetJoin
  <2>2. \/ up' = [up EXCEPT ![Peer(neti)] = <<>>]
        \/ up[Peer(neti)] # <<>> /\ up' = [up EXCEPT ![Peer(neti)] = Tail(up[Peer(neti)])]
    BY <1>3 DEF NetRecvFails, NetFrame, NetJoin, Drop, Consume, Received
  <2>3. \/ UNCHANGED down
        \/ \E frame \in DownFrames : SendWorks(Peer(neti)) /\ down' = Sent(Peer(neti), frame)
    BY <1>3, FrameTypes DEF NetRecvFails, NetFrame, NetJoin
  <2>4. /\ down' \in [Clients -> Seq(DownFrames)]
        /\ \A d \in Clients : Len(down'[d]) <= DownCap
    BY <2>1, <2>3, SentLinks DEF Links
  <2>5. QED
    BY <2>1, <2>2, <2>4, ReadLinks DEF Links
<1>4. CASE NetExit
  BY <1>4, CapsAssumption DEF NetExit, TypeInv, Links
<1>5. QED
  BY <1>1, <1>2, <1>3, <1>4 DEF NetStep

(* A client writes a frame, if there is room.                              *)
LEMMA SendUpLinks ==
  ASSUME Links, NEW c \in Clients, NEW frame \in UpFrames, Room(c), SendUp(c, frame)
  PROVE  up' \in [Clients -> Seq(UpFrames)] /\ \A d \in Clients : Len(up'[d]) <= UpCap
<1>1. Append(up[c], frame) \in Seq(UpFrames) /\ Len(Append(up[c], frame)) = Len(up[c]) + 1
      /\ Len(up[c]) \in Nat
  BY DEF Links
<1>2. QED
  BY <1>1, CapsAssumption DEF Links, Room, SendUp

LEMMA ExitKeeps ==
  ASSUME Links, Persons, NEW c \in Clients, Exit(c)
  PROVE  Links' /\ Persons'
<1>1. down' = [down EXCEPT ![c] = <<>>] /\ cend' = cend \ {c} /\ UNCHANGED <<up, backlog>>
  BY DEF Exit, CloseClientEnd
<1>2. Links'
  BY <1>1, CapsAssumption DEF Links
<1>3. QED
  BY <1>2 DEF Exit, Persons, ClientStates

LEMMA ClientTypes ==
  ASSUME TypeInv, NEW c \in Clients, Connect(c) \/ ClientStep(c)
  PROVE  Links' /\ Persons'
<1>1. Links /\ Persons /\ backlog \in Seq(Clients)
  BY DEF TypeInv, FdInv, FdTypes
<1>2. CASE Connect(c)
  <2>1. Len(backlog') = Len(backlog) + 1 /\ Len(backlog) \in Nat
    BY <1>1, <1>2 DEF Connect
  <2>2. Links'
    BY <1>1, <1>2, <2>1, CapsAssumption DEF Connect, Links
  <2>3. QED
    BY <1>1, <1>2, <2>2 DEF Connect, Persons, ClientStates
<1>3. CASE Exit(c)
  BY <1>1, <1>3, ExitKeeps
<1>4. CASE SendJoin(c) \/ PressKey(c) \/ Hang(c)
  <2>1. /\ UNCHANGED <<backlog, cend, down, myid>>
        /\ UNCHANGED up \/ \E frame \in UpFrames : Room(c) /\ SendUp(c, frame)
    BY <1>4 DEF SendJoin, PressKey, Hang, UpFrames, client
  <2>2. up' \in [Clients -> Seq(UpFrames)] /\ \A d \in Clients : Len(up'[d]) <= UpCap
    BY <1>1, <2>1, SendUpLinks DEF Links
  <2>3. cl' \in [Clients -> ClientStates]
    BY <1>1, <1>4 DEF SendJoin, PressKey, Hang, Persons, ClientStates, client
  <2>4. QED
    BY <1>1, <2>1, <2>2, <2>3 DEF Links, Persons
<1>5. CASE /\ ReadFrame(c) \/ Handshake(c)
           /\ ~Exit(c)
  <2>1. /\ down[c] # <<>> /\ down' = [down EXCEPT ![c] = Tail(down[c])]
        /\ UNCHANGED <<backlog, cend>>
    BY <1>5 DEF ReadFrame, Handshake
  <2>2. Tail(down[c]) \in Seq(DownFrames) /\ Len(Tail(down[c])) = Len(down[c]) - 1
        /\ Len(down[c]) \in Nat /\ Head(down[c]) \in DownFrames
    BY <1>1, <2>1 DEF Links
  <2>3. UNCHANGED up \/ (Room(c) /\ SendUp(c, "PONG"))
    BY <1>5 DEF ReadFrame, Handshake
  <2>4. up' \in [Clients -> Seq(UpFrames)] /\ \A d \in Clients : Len(up'[d]) <= UpCap
    BY <1>1, <2>3, SendUpLinks DEF Links, UpFrames
  <2>5. Links'
    <3>1. down' \in [Clients -> Seq(DownFrames)]
      BY <1>1, <2>1, <2>2 DEF Links
    <3>2. \A d \in Clients : Len(down'[d]) <= DownCap
      BY <1>1, <2>1, <2>2, CapsAssumption DEF Links
    <3>3. QED
      BY <1>1, <2>1, <2>4, <3>1, <3>2 DEF Links
  <2>6. CASE ReadFrame(c)
    BY <1>1, <2>5, <2>6 DEF ReadFrame, client, Persons
  <2>7. CASE Handshake(c)
    <3>1. Head(down[c]).type = "WELCOME" => Head(down[c]).id \in Ids
      BY <2>2 DEF DownFrames
    <3>2. QED
      BY <1>1, <1>5, <2>5, <2>7, <3>1 DEF Handshake, Persons, ClientStates
  <2>8. QED
    BY <1>5, <2>6, <2>7
<1>6. QED
  BY <1>2, <1>3, <1>4, <1>5 DEF ClientStep, ClientProgress, EndOfStream, Quit, Killed

(* Dropping a slot keeps the ages and the list of players in bounds.       *)
LEMMA DropRooms ==
  ASSUME TypeInv, NEW i \in Slots, netpc # "done", slots[i].state # "EMPTY", Drop(i)
  PROVE  /\ \A j \in Slots : slots'[j].age <= Timeout + 1
         /\ players' \in Seq(Ids) /\ Len(players') <= MaxPlayers
<1>1. slots' = [slots EXCEPT ![i] = EmptySlot] /\ slots \in [Slots -> SlotType] /\ Rooms
  BY DEF Drop, TypeInv, FdInv, FdTypes
<1>2. \A j \in Slots : slots'[j].age <= Timeout + 1
  BY <1>1, TimesAssumption DEF EmptySlot, Rooms
<1>3. CASE players' = players
  BY <1>1, <1>2, <1>3 DEF Rooms
<1>4. CASE players' = RemovePlayer(players, slots[i].id)
  <2>1. players \in Seq(Ids) /\ Len(players) <= MaxPlayers /\ Len(players) \in Nat
    BY <1>1 DEF Rooms
  <2>2. /\ RemovePlayer(players, slots[i].id) \in Seq(Ids)
        /\ Len(RemovePlayer(players, slots[i].id)) <= Len(players)
    BY <2>1, RemoveType
  <2>3. Len(players') \in Nat
    BY <1>4, <2>2
  <2>4. QED
    BY <1>2, <1>4, <2>1, <2>2, <2>3, PlacesAssumption
<1>5. QED
  BY <1>3, <1>4 DEF Drop

LEMMA SimRooms == TypeInv /\ SimStep => Rooms'
<1> SUFFICES ASSUME TypeInv, SimStep PROVE Rooms'
  OBVIOUS
<1>1. Rooms /\ UNCHANGED <<running, netpc, rfds>>
  BY DEF TypeInv, SimStep, SimCheck, SimLock, SimBeat, SimBuild, SimSend, net
<1>2. CASE SimCheck \/ SimLock \/ SimBuild
  <2>1. UNCHANGED <<slots, players, tick>>
    BY <1>2 DEF SimCheck, SimLock, SimBuild
  <2>2. \A k \in 1..Len(players) : players[k] \in Ids
    BY <1>1 DEF Rooms
  <2>3. snap' \subseteq Ids
    BY <1>1, <1>2, <2>2 DEF SimCheck, SimLock, SimBuild, Range, Rooms
  <2>4. lock' \in {"free", "net", "sim"}
        /\ simpc' \in {"check", "want", "beat", "build", "send", "exited"}
    BY <1>1, <1>2 DEF SimCheck, SimLock, SimBuild, Rooms
  <2>5. QED
    BY <1>1, <2>1, <2>3, <2>4 DEF Rooms
<1>3. CASE SimBeat \/ SimSend
  <2>1. /\ \A j \in Slots : slots'[j].age <= Timeout + 1
        /\ players' \in Seq(Ids) /\ Len(players') <= MaxPlayers
    <3>1. CASE UNCHANGED <<slots, players>>
      BY <1>1, <3>1 DEF Rooms
    <3>2. CASE ~UNCHANGED <<slots, players>>
      <4>1. slots[simi].state = "ACTIVE" /\ Drop(simi) /\ simi \in Slots /\ netpc # "done"
        BY <1>3, <3>2 DEF SimBeat, SimSend, TypeInv, FdInv, FdTypes, FdOwnership
      <4>2. QED
        BY <4>1, DropRooms
    <3>3. QED
      BY <3>1, <3>2
  <2>2. /\ lock' \in {"free", "net", "sim"} /\ snap' \subseteq Ids
        /\ simpc' \in {"check", "want", "beat", "build", "send", "exited"}
    BY <1>1, <1>3 DEF SimBeat, SimSend, NextSim, Rooms
  <2>3. tick' \in 0..HeartbeatEvery - 1
    <3>1. \A t \in 0..HeartbeatEvery - 1 : (t + 1) % HeartbeatEvery \in 0..HeartbeatEvery - 1
      BY TimesAssumption
    <3>2. QED
      BY <1>1, <1>3, <3>1 DEF SimBeat, SimSend, Rooms
  <2>4. QED
    BY <1>1, <2>1, <2>2, <2>3 DEF Rooms
<1>4. QED
  BY <1>2, <1>3 DEF SimStep

LEMMA NetRooms == TypeInv /\ NetStep => Rooms'
<1> SUFFICES ASSUME TypeInv, NetStep PROVE Rooms'
  OBVIOUS
<1>1. /\ Rooms /\ UNCHANGED <<running, simpc, tick, snap>>
      /\ slots \in [Slots -> SlotType] /\ neti \in Slots
  BY DEF TypeInv, FdInv, FdTypes, NetStep, NetTop, NetSelect, NetWake, NetIdle, NetLock,
     NetAccept, NetSkip, NetRecvFails, NetFrame, NetJoin, NetExit, sim
<1>2. /\ lock' \in {"free", "net", "sim"}
      /\ netpc' \in {"top", "select", "blocked", "want", "accept", "serve", "join", "done"}
  BY <1>1 DEF Rooms, NetStep, NetTop, NetSelect, NetWake, NetIdle, NetLock, NetAccept,
     NetSkip, NetRecvFails, NetFrame, NetJoin, NetExit, NextServe
<1>3. rfds' \subseteq Fds \cup {ListenFd}
  <2>1. CASE NetTop
    <3>1. \A i \in Slots \ Free : slots[i].fd \in Fds
      BY <2>1, Parts DEF NetTop, TypeInv, FdInv, Sole, OpenFds
    <3>2. QED
      BY <2>1, <3>1 DEF NetTop, SlotFds
  <2>2. CASE ~NetTop
    BY <1>1, <2>2 DEF Rooms, NetStep, NetSelect, NetWake, NetIdle, NetLock, NetAccept,
       NetSkip, NetRecvFails, NetFrame, NetJoin, NetExit, NextServe
  <2>3. QED
    BY <2>1, <2>2
<1>4. SUFFICES /\ \A j \in Slots : slots'[j].age <= Timeout + 1
               /\ players' \in Seq(Ids) /\ Len(players') <= MaxPlayers
  BY <1>1, <1>2, <1>3 DEF Rooms
<1>5. CASE UNCHANGED <<slots, players>>
  BY <1>1, <1>5 DEF Rooms
<1>6. CASE NetAccept
  <2>1. UNCHANGED players
    BY <1>6 DEF NetAccept
  <2>2. \A j \in Slots : slots'[j].age = slots[j].age \/ slots'[j].age = 0
    BY <1>1, <1>6 DEF NetAccept, EmptySlot
  <2>3. QED
    BY <1>1, <2>1, <2>2, TimesAssumption DEF Rooms
<1>7. ASSUME slots[neti].state # "EMPTY", Drop(neti), netpc # "done"
      PROVE  /\ \A j \in Slots : slots'[j].age <= Timeout + 1
             /\ players' \in Seq(Ids) /\ Len(players') <= MaxPlayers
  BY <1>1, <1>7, DropRooms
<1>8. CASE NetFrame
  <2>1. UNCHANGED players /\ slots' = [slots EXCEPT ![neti].age = 0]
    BY <1>8 DEF NetFrame
  <2>2. \A j \in Slots : slots'[j].age = slots[j].age \/ slots'[j].age = 0
    BY <1>1, <2>1 DEF SlotType
  <2>3. QED
    BY <1>1, <2>1, <2>2, TimesAssumption DEF Rooms
<1>9. ASSUME NEW id \in Ids, NetJoin(id), ~Drop(neti)
      PROVE  /\ \A j \in Slots : slots'[j].age <= Timeout + 1
             /\ players' \in Seq(Ids) /\ Len(players') <= MaxPlayers
  <2>1. Len(players) < MaxPlayers /\ Len(players) \in Nat /\ players \in Seq(Ids)
    BY <1>1, <1>9 DEF NetJoin, Rooms
  <2>2. Append(players, id) \in Seq(Ids) /\ Len(Append(players, id)) = Len(players) + 1
    BY <2>1
  <2>3. /\ RemovePlayer(Append(players, id), id) \in Seq(Ids)
        /\ Len(RemovePlayer(Append(players, id), id)) <= Len(Append(players, id))
    BY <2>2, RemoveType
  <2>4. Len(RemovePlayer(Append(players, id), id)) \in Nat
    BY <2>3
  <2>5. players' \in Seq(Ids) /\ Len(players') <= MaxPlayers
    <3>1. players' = Append(players, id) \/ players' = RemovePlayer(Append(players, id), id)
      BY <1>9 DEF NetJoin
    <3>2. QED
      <4>1. MaxPlayers \in Nat
        BY PlacesAssumption
      <4>2. QED
        BY <2>1, <2>2, <2>3, <2>4, <3>1, <4>1
  <2>6. \A j \in Slots : slots'[j].age = slots[j].age \/ slots'[j].age = 0
    <3>1. \/ slots' = [slots EXCEPT ![neti] = EmptySlot]
          \/ slots' = [slots EXCEPT ![neti] =
               [slots[neti] EXCEPT !.state = "ACTIVE", !.id = id, !.age = 0]]
      BY <1>9 DEF NetJoin
    <3>2. CASE slots' = [slots EXCEPT ![neti] = EmptySlot]
      BY <1>1, <3>2 DEF EmptySlot
    <3>3. CASE slots' = [slots EXCEPT ![neti] =
                 [slots[neti] EXCEPT !.state = "ACTIVE", !.id = id, !.age = 0]]
      BY <1>1, <3>3 DEF SlotType
    <3>4. QED
      BY <3>1, <3>2, <3>3
  <2>7. QED
    BY <1>1, <2>5, <2>6, TimesAssumption DEF Rooms
<1>10. CASE NetRecvFails \/ \E id \in Ids : NetJoin(id)
  <2>1. slots[neti].state # "EMPTY" /\ netpc # "done"
    BY <1>10 DEF NetRecvFails, NetJoin, Selected
  <2>2. QED
    BY <1>7, <1>9, <1>10, <2>1 DEF NetRecvFails
<1>11. QED
  BY <1>5, <1>6, <1>8, <1>10 DEF NetStep, NetTop, NetSelect, NetWake, NetIdle, NetLock,
     NetSkip, NetExit

LEMMA TypeKeeps == TypeInv /\ [Next]_vars => TypeInv'
<1> SUFFICES ASSUME TypeInv, [Next]_vars PROVE TypeInv'
  OBVIOUS
<1>1. FdInv'
  BY FdKeeps DEF TypeInv
<1>2. CASE (SimStep \/ NetStep) /\ UNCHANGED client
  <2>1. Links' /\ Rooms'
    BY <1>2, SimLinks, NetLinks, SimRooms, NetRooms
  <2>2. QED
    BY <1>1, <1>2, <2>1 DEF TypeInv, Persons, client
<1>3. CASE Second /\ UNCHANGED client
  <2>1. /\ UNCHANGED <<backlog, cend, up, down, cl, myid, players, lock, running, netpc,
                       rfds, simpc, tick, snap>>
        /\ slots' = [i \in Slots |->
             IF slots[i].state = "ACTIVE" /\ slots[i].age <= Timeout
             THEN [slots[i] EXCEPT !.age = @ + 1] ELSE slots[i]]
    BY <1>3 DEF Second, sockets, net, sim, client
  <2>2. \A i \in Slots : slots'[i].age <= Timeout + 1
    <3>1. \A e \in SlotType : [e EXCEPT !.age = @ + 1].age = e.age + 1 /\ e.age \in Nat
      BY DEF SlotType
    <3>2. \A i \in Slots : slots[i] \in SlotType /\ slots[i].age <= Timeout + 1
      BY DEF TypeInv, FdInv, FdTypes, Rooms
    <3>3. QED
      BY <2>1, <3>1, <3>2, TimesAssumption
  <2>3. QED
    BY <1>1, <2>1, <2>2 DEF TypeInv, Links, Persons, Rooms
<1>4. CASE \/ ShutdownSignal /\ UNCHANGED client
           \/ UNCHANGED vars
  <2>1. UNCHANGED <<sockets, client, slots, players, lock, net, sim>>
    BY <1>4 DEF ShutdownSignal, vars, server, net, sim
  <2>0. running' \in BOOLEAN
    BY <1>4 DEF ShutdownSignal, vars, server, TypeInv, Rooms
  <2>2. QED
    BY <1>1, <2>0, <2>1 DEF TypeInv, Links, Persons, Rooms, sockets, client, net, sim
<1>5. CASE \E c \in Clients : (Connect(c) \/ ClientStep(c)) /\ UNCHANGED server
  <2>1. Links' /\ Persons'
    BY <1>5, ClientTypes
  <2>2. QED
    BY <1>1, <1>5, <2>1 DEF TypeInv, Rooms, server, net, sim
<1>6. QED
  BY <1>2, <1>3, <1>4, <1>5 DEF Next, Done

LEMMA TypeInvariance == Spec => []TypeInv
<1>1. QED
  BY TypeInit, TypeKeeps, PTL DEF Spec

(* Types, and every bound: no list, stream or slot outgrows its place.     *)
THEOREM TypeCorrect == Spec => []TypeOK
<1>1. TypeInv => TypeOK
  <2> SUFFICES ASSUME TypeInv PROVE TypeOK
    OBVIOUS
  <2>1. slots \in [Slots -> [state : {"EMPTY", "PENDING", "ACTIVE"},
                             fd : Fds \cup {NoFd}, id : Ids \cup {NoId},
                             age : 0..Timeout + 1]]
    <3>1. \A e \in SlotType : e.age <= Timeout + 1 =>
             e \in [state : {"EMPTY", "PENDING", "ACTIVE"}, fd : Fds \cup {NoFd},
                    id : Ids \cup {NoId}, age : 0..Timeout + 1]
      BY TimesAssumption DEF SlotType
    <3>2. QED
      BY <3>1 DEF TypeInv, FdInv, FdTypes, Rooms
  <2>2. QED
    BY <2>1 DEF TypeInv, FdInv, FdTypes, Links, Persons, Rooms, TypeOK
<1>2. QED
  BY <1>1, TypeInvariance, PTL

-----------------------------------------------------------------------------
(* WELCOME first *)

Fresh(c) == down[c] = <<>> /\ myid[c] = NoId
Greeted(c) == down[c] # <<>> \/ myid[c] # NoId

(* A client has one connection at most: accepted, or in the backlog.       *)
Lonely ==
  /\ \A f, g \in OpenFds : owner[f] = owner[g] => f = g
  /\ \A f \in OpenFds : owner[f] \notin Range(backlog)
  /\ \A k, l \in DOMAIN backlog : backlog[k] = backlog[l] => k = l

Phases ==
  /\ \A c \in Clients : cl[c] = "idle" <=> c \notin cend
  /\ \A c \in Clients \ cend : Fresh(c)
  /\ \A c \in Clients : cl[c] \in {"connected", "joining"} => myid[c] = NoId
  /\ \A c \in Clients : cl[c] = "playing" => myid[c] # NoId

(* The server's view of a connection agrees with what the client was sent. *)
Served ==
  /\ \A c \in Range(backlog) : Fresh(c)
  /\ \A i \in Slots :
       slots[i].fd \in OpenFds =>
         /\ slots[i].state = "PENDING" => Fresh(Peer(i))
         /\ slots[i].state = "ACTIVE" /\ Peer(i) \in cend => Greeted(Peer(i))

WelcomeInv == TypeInv /\ Lonely /\ Phases /\ Served /\ WelcomeFirst

LEMMA WelcomeInit == Init => WelcomeInv
<1> SUFFICES ASSUME Init PROVE WelcomeInv
  OBVIOUS
<1>1. /\ owner = [f \in Fds |-> NoClient] /\ backlog = <<>> /\ cend = {}
      /\ down = [c \in Clients |-> <<>>] /\ cl = [c \in Clients |-> "idle"]
      /\ myid = [c \in Clients |-> NoId]
  BY DEF Init, ConnectionsInit, ClientInit
<1>2. OpenFds = {} /\ Range(backlog) = {} /\ DOMAIN backlog = {}
  BY <1>1 DEF OpenFds, Range
<1>3. Lonely /\ Served
  BY <1>2 DEF Lonely, Served
<1>4. Phases /\ WelcomeFirst
  BY <1>1 DEF Phases, Fresh, WelcomeFirst
<1>5. QED
  BY <1>3, <1>4, TypeInit DEF WelcomeInv

LEMMA LonelyDrop ==
  ASSUME TypeInv, Lonely, NEW f \in Fds,
         owner' = [owner EXCEPT ![f] = NoClient], UNCHANGED backlog
  PROVE  Lonely'
<1>1. OpenFds' \subseteq OpenFds /\ \A g \in OpenFds' : owner'[g] = owner[g]
  BY DEF TypeInv, FdInv, FdTypes, OpenFds
<1>2. QED
  BY <1>1 DEF Lonely

(* accept() moves the oldest of the backlog.                               *)
LEMMA LonelyAccept ==
  ASSUME TypeInv, Lonely, backlog # <<>>, backlog' = Tail(backlog),
         \/ UNCHANGED owner
         \/ \E f \in Fds \ OpenFds : owner' = [owner EXCEPT ![f] = Head(backlog)]
  PROVE  Lonely'
<1>1. /\ backlog \in Seq(Clients) /\ owner \in [Fds -> Clients \cup {NoClient}]
      /\ Tail(backlog) \in Seq(Clients) /\ Len(Tail(backlog)) = Len(backlog) - 1
      /\ Len(backlog) \in Nat \ {0} /\ Head(backlog) = backlog[1]
  BY DEF TypeInv, FdInv, FdTypes
<1>2. \A k \in DOMAIN backlog' : k + 1 \in DOMAIN backlog /\ backlog'[k] = backlog[k + 1]
                                 /\ k \in Nat \ {0}
  BY <1>1
<1>3. \A k, l \in DOMAIN backlog' : backlog'[k] = backlog'[l] => k = l
  BY <1>2 DEF Lonely
<1>4. Range(backlog') \subseteq Range(backlog)
  BY <1>2 DEF Range
<1>5. 1 \in DOMAIN backlog /\ Head(backlog) \in Range(backlog)
  BY <1>1 DEF Range
<1>6. Head(backlog) \notin Range(backlog')
  <2> SUFFICES ASSUME NEW k \in DOMAIN backlog', backlog'[k] = backlog[1] PROVE FALSE
    BY <1>1 DEF Range
  <2>1. k + 1 = 1
    BY <1>2, <1>5 DEF Lonely
  <2>2. QED
    BY <1>2, <2>1
<1>7. CASE UNCHANGED owner
  BY <1>3, <1>4, <1>7 DEF Lonely, OpenFds
<1>8. ASSUME NEW f \in Fds \ OpenFds, owner' = [owner EXCEPT ![f] = Head(backlog)]
      PROVE  Lonely'
  <2>1. OpenFds' \subseteq OpenFds \cup {f}
        /\ owner'[f] = Head(backlog) /\ \A g \in OpenFds : owner'[g] = owner[g]
    BY <1>1, <1>8 DEF OpenFds
  <2>2. \A g \in OpenFds : owner[g] \notin Range(backlog)
    BY DEF Lonely
  <2>3. QED
    BY <1>3, <1>4, <1>5, <1>6, <2>1, <2>2 DEF Lonely
<1>9. QED
  BY <1>7, <1>8

(* Steps that only change times, locks and fd sets.                        *)
LEMMA SameServed ==
  ASSUME Served, WelcomeFirst, UNCHANGED <<owner, backlog, down, cend, myid>>,
         \A i \in Slots : slots'[i].fd = slots[i].fd /\ slots'[i].state = slots[i].state
  PROVE  Served' /\ WelcomeFirst'
<1>1. OpenFds' = OpenFds /\ \A i \in Slots : Peer(i)' = Peer(i)
  BY DEF OpenFds, Peer
<1>2. Served'
  BY <1>1 DEF Served, Fresh, Greeted
<1>3. QED
  BY <1>2 DEF WelcomeFirst, Welcomes

LEMMA DropServed ==
  ASSUME WelcomeInv, NEW i \in Slots, slots[i].fd \in OpenFds,
         slots' = [slots EXCEPT ![i] = EmptySlot],
         owner' = [owner EXCEPT ![slots[i].fd] = NoClient],
         UNCHANGED <<backlog, down, cend, myid>>
  PROVE  Served' /\ WelcomeFirst'
<1>1. /\ OpenFds' \subseteq OpenFds /\ \A f \in OpenFds' : owner'[f] = owner[f]
      /\ slots'[i].state = "EMPTY" /\ \A j \in Slots \ {i} : slots'[j] = slots[j]
  BY DEF WelcomeInv, TypeInv, FdInv, FdTypes, OpenFds, EmptySlot
<1>2. \A j \in Slots \ {i} : slots'[j].fd \in OpenFds' => Peer(j)' = Peer(j)
  BY <1>1 DEF Peer
<1>3. Served'
  BY <1>1, <1>2 DEF WelcomeInv, Served, Fresh, Greeted
<1>4. QED
  BY <1>3 DEF WelcomeInv, WelcomeFirst, Welcomes

(* A frame goes out on slot i: WELCOME if it is pending, else another.     *)
LEMMA SendServed ==
  ASSUME WelcomeInv, netpc # "done", NEW i \in Slots, slots[i].state # "EMPTY",
         NEW frame \in DownFrames, SendWorks(Peer(i)), down' = Sent(Peer(i), frame),
         frame.type = "WELCOME" <=> slots[i].state = "PENDING",
         slots'[i].state = "ACTIVE", slots'[i].fd = slots[i].fd,
         \A j \in Slots \ {i} : slots'[j] = slots[j],
         UNCHANGED <<owner, backlog, cend, myid>>
  PROVE  Served' /\ WelcomeFirst'
<1> DEFINE c == Peer(i)
<1>1. slots[i].fd \in OpenFds /\ c \in Clients /\ Links
  BY PeerType DEF WelcomeInv, TypeInv
<1>2. OpenFds' = OpenFds /\ \A j \in Slots : Peer(j)' = Peer(j)
  BY DEF OpenFds, Peer
<1>3. c \notin Range(backlog)
  BY <1>1 DEF WelcomeInv, Lonely, Peer
<1>4. \A j \in Slots \ {i} :
        slots[j].fd \in OpenFds /\ slots[j].state # "EMPTY" => Peer(j) # c
  <2>1. \A j, k \in Slots : slots[j].state # "EMPTY" /\ slots[k].state # "EMPTY"
                            /\ slots[j].fd = slots[k].fd => j = k
    BY Parts DEF WelcomeInv, TypeInv, FdInv, Sole, Free
  <2>2. \A f, g \in OpenFds : owner[f] = owner[g] => f = g
    BY DEF WelcomeInv, Lonely
  <2>3. QED
    BY <1>1, <2>1, <2>2 DEF Peer
<1>5. \A d \in Clients \ {c} : down'[d] = down[d]
  BY <1>1 DEF Sent, Links
<1>6. c \in cend => down'[c] = Append(down[c], frame)
  BY <1>1 DEF Sent, Links
<1>7. c \notin cend => down' = down
  BY DEF Sent
<1>8. down[c] \in Seq(DownFrames)
  BY <1>1 DEF Links
<1>9. Served'
  <2>1. \A d \in Range(backlog) : Fresh(d)'
    <3>1. \A d \in Range(backlog) : d \in Clients
      BY DEF WelcomeInv, TypeInv, FdInv, FdTypes, Range
    <3>2. QED
      BY <1>3, <1>5, <3>1 DEF WelcomeInv, Served, Fresh
  <2>2. ASSUME NEW j \in Slots \ {i}, slots[j].fd \in OpenFds, slots[j].state # "EMPTY"
        PROVE  /\ slots[j].state = "PENDING" => Fresh(Peer(j))'
               /\ slots[j].state = "ACTIVE" /\ Peer(j) \in cend => Greeted(Peer(j))'
    <3>1. Peer(j) # c /\ Peer(j)' = Peer(j)
      BY <1>2, <1>4, <2>2
    <3>2. Peer(j) \in Clients
      BY <2>2, PeerType DEF WelcomeInv, TypeInv
    <3>3. down'[Peer(j)] = down[Peer(j)]
      BY <1>5, <3>1, <3>2
    <3>4. QED
      BY <2>2, <3>1, <3>3 DEF WelcomeInv, Served, Fresh, Greeted
  <2>3. c \in cend => Greeted(c)'
    <3>1. Len(Append(down[c], frame)) = Len(down[c]) + 1 /\ Len(down[c]) \in Nat
      BY <1>8
    <3>2. Append(down[c], frame) # <<>>
      BY <3>1
    <3>3. QED
      BY <1>2, <1>6, <3>2 DEF Greeted
  <2>4. QED
    BY <1>2, <2>1, <2>2, <2>3 DEF Served
<1>10. WelcomeFirst'
  <2> SUFFICES ASSUME NEW d \in cend
               PROVE  Welcomes(d)' = IF myid[d] = NoId /\ down'[d] # <<>> THEN {1} ELSE {}
    BY DEF WelcomeFirst
  <2>1. Welcomes(d) = IF myid[d] = NoId /\ down[d] # <<>> THEN {1} ELSE {}
    BY DEF WelcomeInv, WelcomeFirst
  <2>2. CASE d # c
    BY <1>1, <1>5, <2>1, <2>2 DEF Welcomes, Links
  <2>3. CASE d = c
    <3>1. /\ down'[c] = Append(down[c], frame) /\ down'[c] # <<>>
          /\ Len(down[c]) \in Nat /\ DOMAIN down[c] = 1..Len(down[c])
          /\ DOMAIN down'[c] = 1..Len(down[c]) + 1
          /\ \A k \in 1..Len(down[c]) : down'[c][k] = down[c][k]
          /\ down'[c][Len(down[c]) + 1] = frame
      BY <1>6, <1>8, <2>3
    <3>2. CASE slots[i].state = "PENDING"
      <4>1. down[c] = <<>> /\ myid[c] = NoId
        BY <1>1, <3>2 DEF WelcomeInv, Served, Fresh
      <4>2. DOMAIN down'[c] = {1} /\ down'[c][1] = frame
        BY <3>1, <4>1
      <4>3. QED
        BY <2>3, <3>1, <3>2, <4>1, <4>2 DEF Welcomes
    <3>3. CASE slots[i].state = "ACTIVE"
      <4>1. down[c] # <<>> \/ myid[c] # NoId
        BY <1>1, <2>3, <3>3 DEF WelcomeInv, Served, Greeted
      <4>2. \A k \in DOMAIN down'[c] :
              down'[c][k].type = "WELCOME" <=> k \in DOMAIN down[c] /\ down[c][k].type = "WELCOME"
        BY <3>1, <3>3
      <4>3. DOMAIN down[c] \subseteq DOMAIN down'[c]
        BY <3>1
      <4>4. Welcomes(d)' = Welcomes(d)
        BY <2>3, <4>2, <4>3 DEF Welcomes
      <4>5. QED
        BY <2>1, <2>3, <3>1, <4>1, <4>4
    <3>4. QED
      BY <3>2, <3>3 DEF WelcomeInv, TypeInv, FdInv, FdTypes, SlotType
  <2>4. QED
    BY <2>2, <2>3
<1>11. QED
  BY <1>9, <1>10

LEMMA AcceptServed ==
  ASSUME WelcomeInv, NetAccept, UNCHANGED client
  PROVE  Lonely' /\ Served' /\ WelcomeFirst'
<1>1. /\ Sole /\ FdTypes /\ UNCHANGED <<cend, down, myid>>
  BY Parts DEF WelcomeInv, TypeInv, FdInv, NetAccept, client
<1>2. WelcomeFirst'
  BY <1>1 DEF WelcomeInv, WelcomeFirst, Welcomes
<1>3. CASE UNCHANGED <<owner, backlog, slots>>
  <2>1. Lonely'
    BY <1>3 DEF WelcomeInv, Lonely, OpenFds
  <2>2. QED
    BY <1>1, <1>2, <1>3, <2>1, SameServed DEF WelcomeInv
<1>4. ASSUME backlog # <<>>, backlog' = Tail(backlog)
      PROVE  Range(backlog') \subseteq Range(backlog) /\ Head(backlog) \in Range(backlog)
  <2>1. /\ Tail(backlog) \in Seq(Clients) /\ Len(Tail(backlog)) = Len(backlog) - 1
        /\ Len(backlog) \in Nat \ {0} /\ Head(backlog) = backlog[1]
    BY <1>1, <1>4 DEF FdTypes
  <2>2. \A k \in DOMAIN backlog' : k + 1 \in DOMAIN backlog /\ backlog'[k] = backlog[k + 1]
    BY <1>1, <1>4, <2>1 DEF FdTypes
  <2>3. 1 \in DOMAIN backlog
    BY <1>1, <2>1 DEF FdTypes
  <2>4. QED
    BY <2>1, <2>2, <2>3 DEF Range
<1>5. CASE /\ backlog # <<>> /\ backlog' = Tail(backlog) /\ Free = {}
           /\ UNCHANGED <<owner, slots>>
  <2>1. Lonely'
    BY <1>5, LonelyAccept DEF WelcomeInv
  <2>2. Served'
    BY <1>1, <1>4, <1>5 DEF WelcomeInv, Served, Fresh, Greeted, OpenFds, Peer
  <2>3. QED
    BY <1>2, <2>1, <2>2
<1>6. CASE /\ backlog # <<>> /\ backlog' = Tail(backlog) /\ Free # {}
           /\ owner' = [owner EXCEPT ![LowestFree] = Head(backlog)]
           /\ slots' = [slots EXCEPT ![Min(Free)] =
                [EmptySlot EXCEPT !.state = "PENDING", !.fd = LowestFree]]
  <2>1. LowestFree \in Fds \ OpenFds /\ Min(Free) \in Free
    BY <1>1, <1>6, FdLeft
  <2>2. Lonely'
    BY <1>6, <2>1, LonelyAccept DEF WelcomeInv
  <2>3. PICK m \in Slots : m = Min(Free)
    BY <2>1 DEF Free
  <2>4. /\ slots'[m].fd = LowestFree /\ slots'[m].state = "PENDING"
        /\ \A j \in Slots \ {m} : slots'[j] = slots[j]
    BY <1>1, <1>6, <2>3 DEF FdTypes, EmptySlot
  <2>5. /\ owner'[LowestFree] = Head(backlog)
        /\ OpenFds' \subseteq OpenFds \cup {LowestFree}
        /\ \A f \in OpenFds : owner'[f] = owner[f]
    BY <1>1, <1>6, <2>1 DEF FdTypes, OpenFds
  <2>6. \A d \in Range(backlog) : Fresh(d)'
    BY <1>1 DEF WelcomeInv, Served, Fresh
  <2>7. Fresh(Peer(m))'
    <3>1. Peer(m)' = Head(backlog) /\ Head(backlog) \in Range(backlog)
      BY <1>4, <1>6, <2>4, <2>5 DEF Peer
    <3>2. QED
      BY <2>6, <3>1 DEF Fresh
  <2>8. ASSUME NEW j \in Slots \ {m}, slots'[j].fd \in OpenFds',
               slots'[j].state # "EMPTY"
        PROVE  /\ slots'[j].state = "PENDING" => Fresh(Peer(j))'
               /\ slots'[j].state = "ACTIVE" /\ Peer(j)' \in cend' => Greeted(Peer(j))'
    <3>1. slots'[j] = slots[j] /\ slots[j].fd \in OpenFds
      BY <1>1, <2>4, <2>8 DEF Sole, Free
    <3>2. Peer(j)' = Peer(j)
      BY <2>5, <3>1 DEF Peer
    <3>3. QED
      BY <1>1, <3>1, <3>2 DEF WelcomeInv, Served, Fresh, Greeted
  <2>9. Served'
    <3>1. \A d \in Range(backlog') : Fresh(d)'
      BY <1>4, <1>6, <2>6
    <3>2. QED
      BY <2>4, <2>7, <2>8, <3>1 DEF Served
  <2>10. QED
    BY <1>2, <2>2, <2>9
<1>7. QED
  BY <1>3, <1>5, <1>6 DEF NetAccept

(* The server's steps leave the clients' own state alone.                  *)
LEMMA PhasesServer ==
  ASSUME Phases, UNCHANGED <<cend, cl, myid>>, \A c \in Clients \ cend : down'[c] = down[c]
  PROVE  Phases'
  BY DEF Phases, Fresh

LEMMA SimWelcome ==
  ASSUME WelcomeInv, SimStep, UNCHANGED client
  PROVE  Lonely' /\ Phases' /\ Served' /\ WelcomeFirst'
<1>1. UNCHANGED <<backlog, cend, cl, myid>> /\ Phases
  BY DEF SimStep, SimCheck, SimLock, SimBeat, SimBuild, SimSend, sockets, client, WelcomeInv
<1>2. CASE UNCHANGED <<owner, down, slots>>
  <2>1. Lonely' /\ Phases'
    BY <1>1, <1>2, PhasesServer DEF WelcomeInv, Lonely, OpenFds
  <2>2. QED
    BY <1>1, <1>2, <2>1, SameServed DEF WelcomeInv
<1>3. CASE SimBeat \/ SimSend
  <2>1. simi \in Slots /\ netpc # "done" /\ slots \in [Slots -> SlotType]
    BY <1>3 DEF WelcomeInv, TypeInv, FdInv, FdTypes, FdOwnership, SimBeat, SimSend
  <2>2. CASE slots[simi].state = "ACTIVE" /\ Drop(simi) /\ UNCHANGED down
    <3>1. slots[simi].fd \in OpenFds
      BY <2>1, <2>2, PeerType DEF WelcomeInv, TypeInv
    <3>2. Served' /\ WelcomeFirst'
      BY <1>1, <2>1, <2>2, <3>1, DropServed DEF Drop
    <3>3. Lonely'
      BY <1>1, <2>2, <3>1, LonelyDrop DEF WelcomeInv, Drop, OpenFds
    <3>4. QED
      BY <1>1, <2>2, <3>2, <3>3, PhasesServer
  <2>3. CASE \E frame \in DownFrames :
               /\ frame.type # "WELCOME"
               /\ slots[simi].state = "ACTIVE" /\ SendWorks(Peer(simi))
               /\ down' = Sent(Peer(simi), frame) /\ UNCHANGED <<owner, slots>>
    <3>1. Served' /\ WelcomeFirst'
      BY <1>1, <2>1, <2>3, SendServed
    <3>2. Lonely'
      BY <1>1, <2>3 DEF WelcomeInv, Lonely, OpenFds
    <3>3. \A c \in Clients \ cend : down'[c] = down[c]
      BY <2>3 DEF Sent, WelcomeInv, TypeInv, Links
    <3>4. QED
      BY <1>1, <3>1, <3>2, <3>3, PhasesServer
  <2>4. CASE SimBeat
    BY <1>2, <2>2, <2>3, <2>4, FrameTypes DEF SimBeat
  <2>5. CASE SimSend
    BY <1>2, <2>2, <2>3, <2>5, FrameTypes DEF SimSend, WelcomeInv, TypeInv, Rooms
  <2>6. QED
    BY <1>3, <2>4, <2>5
<1>4. QED
  BY <1>2, <1>3 DEF SimStep, SimCheck, SimLock, SimBuild, sockets

LEMMA NetWelcome ==
  ASSUME WelcomeInv, NetStep, UNCHANGED client, FdInv'
  PROVE  Lonely' /\ Phases' /\ Served' /\ WelcomeFirst'
<1>1. UNCHANGED <<cend, cl, myid>> /\ Phases /\ slots \in [Slots -> SlotType]
      /\ neti \in Slots
  BY DEF NetStep, NetTop, NetSelect, NetWake, NetIdle, NetLock, NetAccept, NetSkip,
     NetRecvFails, NetFrame, NetJoin, NetExit, sockets, client, WelcomeInv, TypeInv,
     FdInv, FdTypes
<1>2. CASE /\ UNCHANGED <<owner, backlog, down>>
           /\ \A i \in Slots : /\ slots'[i].fd = slots[i].fd
                               /\ slots'[i].state = slots[i].state
  <2>1. Lonely' /\ Phases'
    BY <1>1, <1>2, PhasesServer DEF WelcomeInv, Lonely, OpenFds
  <2>2. QED
    BY <1>1, <1>2, <2>1, SameServed DEF WelcomeInv
<1>3. CASE NetAccept
  BY <1>1, <1>3, AcceptServed, PhasesServer DEF NetAccept
<1>4. ASSUME netpc # "done", slots[neti].state # "EMPTY",
             slots' = [slots EXCEPT ![neti] = EmptySlot],
             owner' = [owner EXCEPT ![slots[neti].fd] = NoClient],
             UNCHANGED <<backlog, down>>
      PROVE  Lonely' /\ Phases' /\ Served' /\ WelcomeFirst'
  <2>1. slots[neti].fd \in OpenFds
    BY <1>1, <1>4, PeerType DEF WelcomeInv, TypeInv
  <2>2. Served' /\ WelcomeFirst'
    BY <1>1, <1>4, <2>1, DropServed
  <2>3. Lonely'
    BY <1>4, <2>1, LonelyDrop DEF WelcomeInv, OpenFds
  <2>4. QED
    BY <1>1, <1>4, <2>2, <2>3, PhasesServer
<1>5. CASE NetRecvFails
  BY <1>4, <1>5 DEF NetRecvFails, Selected, Drop
<1>6. CASE NetFrame
  <2>1. UNCHANGED <<owner, backlog, down>> /\ slots' = [slots EXCEPT ![neti].age = 0]
    BY <1>6 DEF NetFrame
  <2>2. \A i \in Slots : slots'[i].fd = slots[i].fd /\ slots'[i].state = slots[i].state
    BY <1>1, <2>1 DEF SlotType
  <2>3. QED
    BY <1>2, <2>1, <2>2
<1>7. ASSUME NEW id \in Ids, NetJoin(id)
      PROVE  Lonely' /\ Phases' /\ Served' /\ WelcomeFirst'
  <2>1. netpc # "done" /\ slots[neti].state = "PENDING" /\ UNCHANGED backlog
    BY <1>7 DEF NetJoin
  <2>2. \/ /\ slots' = [slots EXCEPT ![neti] = EmptySlot]
           /\ owner' = [owner EXCEPT ![slots[neti].fd] = NoClient]
           /\ UNCHANGED down
        \/ /\ SendWorks(Peer(neti)) /\ UNCHANGED owner
           /\ slots' = [slots EXCEPT ![neti] =
                [slots[neti] EXCEPT !.state = "ACTIVE", !.id = id, !.age = 0]]
           /\ down' = Sent(Peer(neti), [type |-> "WELCOME", id |-> id])
    BY <1>7 DEF NetJoin, Drop
  <2>3. CASE /\ SendWorks(Peer(neti)) /\ UNCHANGED owner
             /\ slots' = [slots EXCEPT ![neti] =
                  [slots[neti] EXCEPT !.state = "ACTIVE", !.id = id, !.age = 0]]
             /\ down' = Sent(Peer(neti), [type |-> "WELCOME", id |-> id])
    <3>1. /\ slots'[neti].state = "ACTIVE" /\ slots'[neti].fd = slots[neti].fd
          /\ \A j \in Slots \ {neti} : slots'[j] = slots[j]
      BY <1>1, <2>3 DEF SlotType
    <3>2. Served' /\ WelcomeFirst'
      BY <1>1, <2>1, <2>3, <3>1, FrameTypes, SendServed
    <3>3. Lonely'
      BY <2>1, <2>3 DEF WelcomeInv, Lonely, OpenFds
    <3>4. \A c \in Clients \ cend : down'[c] = down[c]
      BY <2>3 DEF Sent, WelcomeInv, TypeInv, Links
    <3>5. QED
      BY <1>1, <3>2, <3>3, <3>4, PhasesServer
  <2>4. QED
    BY <1>4, <2>1, <2>2, <2>3
<1>8. CASE NetExit
  <2>1. UNCHANGED down /\ backlog' = <<>> /\ netpc' = "done"
    BY <1>8 DEF NetExit
  <2>2. OpenFds' = {} /\ Range(backlog') = {} /\ DOMAIN backlog' = {}
    BY <2>1 DEF FdInv, FdOwnership, Range
  <2>3. Lonely' /\ Served'
    BY <2>2 DEF Lonely, Served
  <2>4. WelcomeFirst' /\ Phases'
    BY <1>1, <2>1, PhasesServer DEF WelcomeInv, WelcomeFirst, Welcomes
  <2>5. QED
    BY <2>3, <2>4
<1>9. CASE NetTop \/ NetSelect \/ NetWake \/ NetIdle \/ NetLock \/ NetSkip
  BY <1>2, <1>9 DEF NetTop, NetSelect, NetWake, NetIdle, NetLock, NetSkip, sockets
<1>10. QED
  BY <1>3, <1>5, <1>6, <1>7, <1>8, <1>9 DEF NetStep

(* A step of client c leaves the mail of all others alone.                 *)
LEMMA OthersServed ==
  ASSUME WelcomeInv, NEW c \in Clients,
         UNCHANGED <<owner, slots>>, cend' \subseteq Clients,
         Range(backlog') \subseteq Range(backlog) \cup {c},
         \A d \in Clients \ {c} : /\ down'[d] = down[d] /\ myid'[d] = myid[d]
                                  /\ d \in cend' <=> d \in cend,
         c \in Range(backlog') => Fresh(c)',
         \A i \in Slots : slots[i].fd \in OpenFds /\ Peer(i) = c =>
           /\ slots[i].state = "PENDING" => Fresh(c)'
           /\ slots[i].state = "ACTIVE" /\ c \in cend' => Greeted(c)',
         c \in cend' => Welcomes(c)' = IF myid'[c] = NoId /\ down'[c] # <<>> THEN {1} ELSE {}
  PROVE  Served' /\ WelcomeFirst'
<1>1. OpenFds' = OpenFds /\ \A i \in Slots : Peer(i)' = Peer(i)
  BY DEF OpenFds, Peer
<1>2. /\ \A d \in Range(backlog) : d \in Clients
      /\ \A f \in OpenFds : owner[f] \in Clients
      /\ cend \subseteq Clients
  BY DEF WelcomeInv, TypeInv, FdInv, FdTypes, Links, Range, OpenFds
<1>3. Served'
  <2>1. \A d \in Range(backlog') : Fresh(d)'
    BY <1>2 DEF WelcomeInv, Served, Fresh
  <2>2. ASSUME NEW i \in Slots, slots[i].fd \in OpenFds, Peer(i) # c
        PROVE  /\ slots[i].state = "PENDING" => Fresh(Peer(i))'
               /\ slots[i].state = "ACTIVE" /\ Peer(i) \in cend' => Greeted(Peer(i))'
    <3>1. Peer(i) \in Clients \ {c} /\ Peer(i)' = Peer(i)
      BY <1>1, <1>2, <2>2 DEF Peer
    <3>2. QED
      BY <2>2, <3>1 DEF WelcomeInv, Served, Fresh, Greeted
  <2>3. \A i \in Slots : Peer(i) = c =>
          /\ Fresh(c)' => Fresh(Peer(i))'
          /\ Greeted(c)' => Greeted(Peer(i))'
    BY <1>1 DEF Fresh, Greeted
  <2>4. QED
    BY <1>1, <2>1, <2>2, <2>3 DEF Served
<1>4. WelcomeFirst'
  <2>1. ASSUME NEW d \in cend', d # c
        PROVE  Welcomes(d)' = IF myid'[d] = NoId /\ down'[d] # <<>> THEN {1} ELSE {}
    <3>1. d \in Clients \ {c} /\ d \in cend
      BY <2>1
    <3>2. QED
      BY <3>1 DEF WelcomeInv, WelcomeFirst, Welcomes
  <2>2. QED
    BY <2>1 DEF WelcomeFirst
<1>5. QED
  BY <1>3, <1>4

LEMMA ClientWelcome ==
  ASSUME WelcomeInv, NEW c \in Clients, UNCHANGED server,
         (Connect(c) /\ netpc # "done") \/ ClientStep(c)
  PROVE  Lonely' /\ Phases' /\ Served' /\ WelcomeFirst'
<1>1. /\ Links /\ Persons /\ backlog \in Seq(Clients) /\ UNCHANGED <<owner, slots>>
  BY DEF WelcomeInv, TypeInv, FdInv, FdTypes, server, Connect, ClientStep, ClientProgress,
     SendJoin, Handshake, ReadFrame, EndOfStream, PressKey, Quit, Killed, Hang, Exit
<1>2. CASE Connect(c)
  <2>1. /\ cl[c] = "idle" /\ backlog' = Append(backlog, c) /\ cend' = cend \cup {c}
        /\ cl' = [cl EXCEPT ![c] = "connected"] /\ UNCHANGED <<down, myid>>
        /\ c \notin Range(backlog) /\ \A f \in Fds : owner[f] # c
    BY <1>2 DEF Connect, ServerEnd
  <2>2. Fresh(c) /\ Fresh(c)'
    BY <2>1 DEF WelcomeInv, Phases, Fresh
  <2>3. /\ Len(backlog) \in Nat /\ DOMAIN backlog = 1..Len(backlog)
        /\ DOMAIN backlog' = 1..Len(backlog) + 1
        /\ \A k \in 1..Len(backlog) : backlog'[k] = backlog[k]
        /\ backlog'[Len(backlog) + 1] = c
    BY <1>1, <2>1
  <2>4. Range(backlog') = Range(backlog) \cup {c}
    BY <2>3 DEF Range
  <2>5. Lonely'
    <3>1. \A k \in DOMAIN backlog : backlog[k] # c
      BY <2>1 DEF Range
    <3>2. \A k, l \in DOMAIN backlog' : backlog'[k] = backlog'[l] => k = l
      BY <2>3, <3>1 DEF WelcomeInv, Lonely
    <3>3. QED
      BY <1>1, <2>1, <2>4, <3>2 DEF WelcomeInv, Lonely, OpenFds
  <2>6. Phases'
    BY <1>1, <2>1, <2>2 DEF WelcomeInv, Phases, Persons, Fresh
  <2>7. Served' /\ WelcomeFirst'
    <3>1. \A i \in Slots : slots[i].fd \in OpenFds => Peer(i) # c
      BY <2>1 DEF OpenFds, Peer
    <3>2. Welcomes(c)' = {} /\ down'[c] = <<>>
      BY <2>2 DEF Welcomes, Fresh
    <3>3. QED
      BY <1>1, <2>1, <2>2, <2>4, <3>1, <3>2, OthersServed DEF Links
  <2>8. QED
    BY <2>5, <2>6, <2>7
<1>3. CASE ~Connect(c)
  <2>1. UNCHANGED backlog /\ Lonely'
    <3>1. UNCHANGED backlog
      BY <1>3 DEF ClientStep, ClientProgress, SendJoin, Handshake, ReadFrame, EndOfStream,
         PressKey, Quit, Killed, Hang, Exit
    <3>2. QED
      BY <1>1, <3>1 DEF WelcomeInv, Lonely, OpenFds
  <2>2. CASE Exit(c)
    <3>1. /\ cl' = [cl EXCEPT ![c] = "idle"] /\ myid' = [myid EXCEPT ![c] = NoId]
          /\ cend' = cend \ {c} /\ down' = [down EXCEPT ![c] = <<>>]
      BY <2>2 DEF Exit, CloseClientEnd
    <3>2. Fresh(c)' /\ c \notin cend'
      BY <1>1, <3>1 DEF Fresh, Links, Persons
    <3>3. Phases'
      BY <1>1, <3>1, <3>2 DEF WelcomeInv, Phases, Links, Persons, Fresh
    <3>4. Served' /\ WelcomeFirst'
      BY <1>1, <2>1, <3>1, <3>2, OthersServed DEF Links, Persons
    <3>5. QED
      BY <2>1, <3>3, <3>4
  <2>3. CASE SendJoin(c) \/ PressKey(c) \/ Hang(c)
    <3>1. UNCHANGED <<cend, down, myid>> /\ \A d \in Clients \ {c} : cl'[d] = cl[d]
      BY <1>1, <2>3 DEF SendJoin, PressKey, Hang, client, Persons
    <3>2. /\ cl[c] # "idle" /\ cl'[c] # "idle"
          /\ cl'[c] \in {"connected", "joining"} => cl[c] \in {"connected", "joining"}
          /\ cl'[c] = "playing" => cl[c] = "playing"
      BY <1>1, <2>3 DEF SendJoin, PressKey, Hang, Running, client, Persons
    <3>3. Phases'
      BY <3>1, <3>2 DEF WelcomeInv, Phases, Fresh
    <3>4. Served' /\ WelcomeFirst'
      BY <1>1, <2>1, <3>1, SameServed DEF WelcomeInv
    <3>5. QED
      BY <2>1, <3>3, <3>4
  <2>4. CASE (ReadFrame(c) \/ Handshake(c)) /\ ~Exit(c)
    <3>1. /\ cl[c] \in {"joining", "playing"} /\ down[c] # <<>> /\ UNCHANGED cend
          /\ down' = [down EXCEPT ![c] = Tail(down[c])]
          /\ \/ cl[c] = "playing" /\ UNCHANGED <<cl, myid>>
             \/ /\ cl[c] = "joining" /\ Head(down[c]).type = "WELCOME"
                /\ cl' = [cl EXCEPT ![c] = "playing"]
                /\ myid' = [myid EXCEPT ![c] = Head(down[c]).id]
      BY <2>4 DEF ReadFrame, Handshake, client
    <3>2. c \in cend
      BY <3>1 DEF WelcomeInv, Phases
    <3>3. /\ down[c] \in Seq(DownFrames) /\ Head(down[c]) = down[c][1]
          /\ Head(down[c]) \in DownFrames /\ Tail(down[c]) \in Seq(DownFrames)
          /\ Len(Tail(down[c])) = Len(down[c]) - 1 /\ Len(down[c]) \in Nat \ {0}
      BY <1>1, <3>1 DEF Links
    <3>4. myid'[c] # NoId /\ cl'[c] = "playing"
          /\ \A d \in Clients \ {c} : cl'[d] = cl[d] /\ myid'[d] = myid[d]
                                      /\ down'[d] = down[d]
      <4>1. Head(down[c]).type = "WELCOME" => Head(down[c]).id \in Ids
        BY <3>3 DEF DownFrames
      <4>2. cl[c] = "playing" => myid[c] # NoId
        BY DEF WelcomeInv, Phases
      <4>3. QED
        BY <1>1, <3>1, <4>1, <4>2, NamesAssumption DEF Links, Persons
    <3>5. Phases'
      BY <3>1, <3>2, <3>4 DEF WelcomeInv, Phases, Fresh
    <3>6. Welcomes(c) \subseteq {1}
      BY <3>2 DEF WelcomeInv, WelcomeFirst
    <3>7. Welcomes(c)' = {}
      <4>1. down'[c] = Tail(down[c])
        BY <1>1, <3>1 DEF Links
      <4>2. \A k \in DOMAIN down'[c] : k + 1 \in DOMAIN down[c]
                                       /\ down'[c][k] = down[c][k + 1] /\ k + 1 # 1
        BY <3>3, <4>1
      <4>3. QED
        BY <3>6, <4>2 DEF Welcomes
    <3>8. Greeted(c)' /\ ~Fresh(c)
      BY <3>1, <3>4 DEF Greeted, Fresh
    <3>9. /\ c \notin Range(backlog)
          /\ \A i \in Slots : slots[i].fd \in OpenFds /\ Peer(i) = c =>
               slots[i].state # "PENDING"
      BY <3>8 DEF WelcomeInv, Served
    <3>10. Served' /\ WelcomeFirst'
      BY <1>1, <2>1, <3>1, <3>4, <3>7, <3>8, <3>9, OthersServed DEF Links
    <3>11. QED
      BY <2>1, <3>5, <3>10
  <2>5. QED
    BY <1>3, <2>2, <2>3, <2>4 DEF ClientStep, ClientProgress, EndOfStream, Quit, Killed
<1>4. QED
  BY <1>2, <1>3

LEMMA WelcomeKeeps == WelcomeInv /\ [Next]_vars => WelcomeInv'
<1> SUFFICES ASSUME WelcomeInv, [Next]_vars PROVE WelcomeInv'
  OBVIOUS
<1>1. TypeInv'
  BY TypeKeeps DEF WelcomeInv
<1>2. SUFFICES Lonely' /\ Phases' /\ Served' /\ WelcomeFirst'
  BY <1>1 DEF WelcomeInv
<1>3. CASE (SimStep \/ NetStep) /\ UNCHANGED client
  BY <1>1, <1>3, SimWelcome, NetWelcome DEF TypeInv
<1>4. CASE (Second \/ ShutdownSignal \/ UNCHANGED vars) /\ UNCHANGED client
  <2>1. UNCHANGED <<owner, backlog, cend, down, cl, myid>>
    BY <1>4 DEF Second, ShutdownSignal, vars, sockets, client
  <2>2. \A i \in Slots : slots'[i].fd = slots[i].fd /\ slots'[i].state = slots[i].state
    <3>1. CASE UNCHANGED slots
      BY <3>1
    <3>2. CASE Second
      <4>1. \A e \in SlotType : /\ [e EXCEPT !.age = @ + 1].fd = e.fd
                                /\ [e EXCEPT !.age = @ + 1].state = e.state
        BY DEF SlotType
      <4>2. \A i \in Slots : slots[i] \in SlotType
        BY DEF WelcomeInv, TypeInv, FdInv, FdTypes
      <4>3. QED
        BY <3>2, <4>1, <4>2 DEF Second
    <3>3. QED
      BY <1>4, <3>1, <3>2 DEF ShutdownSignal, vars, server
  <2>3. Lonely' /\ Phases'
    BY <2>1, PhasesServer DEF WelcomeInv, Lonely, OpenFds
  <2>4. QED
    BY <2>1, <2>2, <2>3, SameServed DEF WelcomeInv
<1>5. CASE \E c \in Clients : /\ (Connect(c) /\ Listening) \/ ClientStep(c)
                              /\ UNCHANGED server
  BY <1>5, ClientWelcome DEF Listening
<1>6. CASE UNCHANGED vars
  <2>1. UNCHANGED client
    BY <1>6 DEF vars, client
  <2>2. QED
    BY <1>4, <1>6, <2>1
<1>7. QED
  BY <1>3, <1>4, <1>5, <1>6 DEF Next, Done

(* A client's first frame is WELCOME, and it is welcomed once: the other   *)
(* thread cannot get a PING or a snapshot in before it.                    *)
THEOREM WelcomesFirst == Spec => []WelcomeFirst
<1>1. WelcomeInv => WelcomeFirst
  BY DEF WelcomeInv
<1>2. QED
  BY <1>1, WelcomeInit, WelcomeKeeps, PTL DEF Spec

-----------------------------------------------------------------------------
(* The two registries *)

Places(s, e) == {k \in DOMAIN s : s[k] = e}
Holders(id) == {i \in Active : slots[i].id = id}

LEMMA PlacesFinite ==
  ASSUME NEW S, NEW s \in Seq(S), NEW e
  PROVE  IsFiniteSet(Places(s, e))
<1>1. IsFiniteSet(1..Len(s)) /\ DOMAIN s = 1..Len(s)
  BY FS_Interval
<1>2. QED
  BY <1>1, FS_Subset DEF Places

(* Taking out the entry at n moves the later ones one place down.          *)
LEMMA PlacesRemove ==
  ASSUME NEW S, NEW s \in Seq(S), NEW d, NEW e, \E i \in 1..Len(s) : s[i] = d
  PROVE  \E n \in 1..Len(s) : /\ s[n] = d
           /\ Cardinality(Places(RemovePlayer(s, d), e)) = Cardinality(Places(s, e) \ {n})
<1>1. PICK n \in 1..Len(s) : /\ s[n] = d
        /\ RemovePlayer(s, d) = SubSeq(s, 1, n - 1) \o SubSeq(s, n + 1, Len(s))
  BY RemovesOne
<1>2. PICK r : r = RemovePlayer(s, d)
  OBVIOUS
<1> DEFINE f == [k \in Places(r, e) |-> IF k < n THEN k ELSE k + 1]
           T == Places(s, e) \ {n}
<1>3. PICK a \in Seq(S), c \in Seq(S) :
        /\ r = a \o c /\ Len(a) = n - 1 /\ Len(c) = Len(s) - n
        /\ \A k \in 1..n - 1 : a[k] = s[k]
        /\ \A k \in 1..Len(s) - n : c[k] = s[n + k]
  <2>1. /\ SubSeq(s, 1, n - 1) \in Seq(S) /\ Len(SubSeq(s, 1, n - 1)) = n - 1
        /\ SubSeq(s, n + 1, Len(s)) \in Seq(S)
        /\ Len(SubSeq(s, n + 1, Len(s))) = Len(s) - n
        /\ \A k \in 1..n - 1 : SubSeq(s, 1, n - 1)[k] = s[k]
        /\ \A k \in 1..Len(s) - n : SubSeq(s, n + 1, Len(s))[k] = s[n + k]
    BY <1>1
  <2>2. QED
    BY <1>1, <1>2, <2>1
<1>4. PICK m \in Nat : m = Len(s) /\ n \in 1..m /\ DOMAIN s = 1..m
  BY <1>1
<1>5. Len(a) + Len(c) = m - 1 /\ Len(a) = n - 1
  BY <1>3, <1>4
<1>6. /\ DOMAIN (a \o c) = 1..Len(a) + Len(c)
      /\ \A k \in 1..Len(a) : (a \o c)[k] = a[k]
      /\ \A k \in Len(a) + 1..Len(a) + Len(c) : (a \o c)[k] = c[k - Len(a)]
  OBVIOUS
<1>7. DOMAIN r = 1..m - 1
  BY <1>3, <1>5, <1>6
<1>8. \A k \in 1..n - 1 : r[k] = s[k]
  BY <1>3, <1>5, <1>6
<1>9. ASSUME NEW k \in n..m - 1 PROVE r[k] = s[k + 1]
  <2>1. k \in Len(a) + 1..Len(a) + Len(c) /\ k - Len(a) = k + 1 - n
        /\ k + 1 - n \in 1..m - n /\ n + (k + 1 - n) = k + 1
    BY <1>4, <1>5
  <2>2. r[k] = c[k + 1 - n]
    BY <1>3, <1>6, <2>1
  <2>3. QED
    BY <1>3, <1>4, <2>1, <2>2
<1>10. ASSUME NEW k \in Places(r, e)
      PROVE  k \in 1..m - 1 /\ f[k] \in 1..m /\ s[f[k]] = e /\ f[k] # n
  <2>1. k \in 1..m - 1 /\ r[k] = e
    BY <1>7 DEF Places
  <2>2. CASE k < n
    <3>1. k \in 1..n - 1 /\ k \in 1..m /\ k # n
      BY <1>4, <2>1, <2>2
    <3>2. QED
      BY <1>8, <2>1, <2>2, <3>1
  <2>3. CASE ~(k < n)
    <3>1. k \in n..m - 1 /\ k + 1 \in 1..m /\ k + 1 # n
      BY <1>4, <2>1, <2>3
    <3>2. QED
      BY <1>9, <2>1, <2>3, <3>1
  <2>4. QED
    BY <2>2, <2>3
<1>11. \A k, l \in Places(r, e) : f[k] = f[l] => k = l
  BY <1>4, <1>10
<1>12. ASSUME NEW t \in T PROVE \E k \in Places(r, e) : f[k] = t
  <2>1. t \in 1..m /\ s[t] = e /\ t # n
    BY <1>4 DEF Places
  <2>2. CASE t < n
    <3>1. t \in 1..n - 1 /\ t \in 1..m - 1
      BY <1>4, <2>1, <2>2
    <3>2. t \in Places(r, e)
      BY <1>7, <1>8, <2>1, <3>1 DEF Places
    <3>3. QED
      BY <2>2, <3>2
  <2>3. CASE ~(t < n)
    <3>1. t - 1 \in n..m - 1 /\ (t - 1) + 1 = t /\ ~(t - 1 < n) /\ t - 1 \in 1..m - 1
      BY <1>4, <2>1, <2>3
    <3>2. r[t - 1] = e
      BY <1>9, <2>1, <3>1
    <3>3. t - 1 \in Places(r, e)
      BY <1>7, <3>1, <3>2 DEF Places
    <3>4. QED
      BY <3>1, <3>3
  <2>4. QED
    BY <2>2, <2>3
<1>13. f \in [Places(r, e) -> T]
  BY <1>4, <1>10 DEF Places
<1>14. IsFiniteSet(T)
  BY PlacesFinite, FS_Subset
<1> HIDE DEF f, T
<1>15. f \in Injection(Places(r, e), T) /\ f \in Surjection(Places(r, e), T)
  <2>1. f \in Injection(Places(r, e), T)
    BY <1>11, <1>13 DEF Injection, IsInjective
  <2>2. \A t \in T : \E k \in Places(r, e) : f[k] = t
    BY <1>12
  <2>3. QED
    BY <1>13, <2>1, <2>2 DEF Surjection
<1>16. Cardinality(Places(r, e)) = Cardinality(T)
  BY <1>14, <1>15, FS_Injection
<1>17. QED
  BY <1>1, <1>2, <1>16 DEF T

LEMMA RemoveCount ==
  ASSUME NEW S, NEW s \in Seq(S), NEW d, Places(s, d) # {}
  PROVE  \A e : Cardinality(Places(RemovePlayer(s, d), e))
                 = Cardinality(Places(s, e)) - (IF e = d THEN 1 ELSE 0)
<1> TAKE e
<1>1. DOMAIN s = 1..Len(s)
  OBVIOUS
<1>2. PICK n \in 1..Len(s) : /\ s[n] = d
        /\ Cardinality(Places(RemovePlayer(s, d), e)) = Cardinality(Places(s, e) \ {n})
  <2>1. \E i \in 1..Len(s) : s[i] = d
    BY <1>1 DEF Places
  <2>2. QED
    BY <2>1, PlacesRemove, SMTT(60)
<1>4. n \in Places(s, e) <=> e = d
  BY <1>1, <1>2 DEF Places
<1>5. IsFiniteSet(Places(s, e)) /\ Cardinality(Places(s, e)) \in Nat
  BY PlacesFinite, FS_CardinalityType
<1>6. Cardinality(Places(s, e) \ {n})
        = IF n \in Places(s, e) THEN Cardinality(Places(s, e)) - 1 ELSE Cardinality(Places(s, e))
  BY <1>5, FS_RemoveElement
<1>7. QED
  BY <1>2, <1>4, <1>5, <1>6

LEMMA AppendCount ==
  ASSUME NEW S, NEW s \in Seq(S), NEW d \in S, NEW e
  PROVE  Cardinality(Places(Append(s, d), e))
           = Cardinality(Places(s, e)) + (IF e = d THEN 1 ELSE 0)
<1>1. PICK m \in Nat : m = Len(s) /\ DOMAIN s = 1..m
  OBVIOUS
<1>2. /\ DOMAIN Append(s, d) = 1..m + 1 /\ Append(s, d)[m + 1] = d
      /\ \A k \in 1..m : Append(s, d)[k] = s[k]
  BY <1>1
<1>3. IsFiniteSet(Places(s, e)) /\ Cardinality(Places(s, e)) \in Nat
  BY PlacesFinite, FS_CardinalityType
<1>4. m + 1 \notin Places(s, e)
  BY <1>1 DEF Places
<1>5. CASE e = d
  <2>1. Places(Append(s, d), e) = Places(s, e) \cup {m + 1}
    BY <1>1, <1>2, <1>5 DEF Places
  <2>2. QED
    BY <1>3, <1>4, <1>5, <2>1, FS_AddElement
<1>6. CASE e # d
  <2>1. Places(Append(s, d), e) = Places(s, e)
    BY <1>1, <1>2, <1>6 DEF Places
  <2>2. QED
    BY <1>3, <1>6, <2>1
<1>7. QED
  BY <1>5, <1>6

LEMMA RegistryParts ==
  Registry <=> \A id \in Ids : Cardinality(Places(players, id)) = Cardinality(Holders(id))
  BY DEF Registry, Places, Holders

LEMMA HoldersFinite == ASSUME NEW id PROVE IsFiniteSet(Holders(id))
<1>1. IsFiniteSet(Slots) /\ Holders(id) \in SUBSET Slots
  BY FS_Interval, PlacesAssumption DEF Slots, Holders, Active
<1>2. QED
  BY <1>1, FS_Subset

(* Steps that change no ACTIVE slot's id and not the players.              *)
LEMMA SameRegistry ==
  ASSUME Registry, UNCHANGED players,
         \A i \in Slots : /\ slots'[i].state = "ACTIVE" <=> slots[i].state = "ACTIVE"
                          /\ slots[i].state = "ACTIVE" => slots'[i].id = slots[i].id
  PROVE  Registry'
<1>1. \A id \in Ids : {i \in Active' : slots'[i].id = id} = {i \in Active : slots[i].id = id}
  BY DEF Active
<1>2. QED
  BY <1>1 DEF Registry

(* A player leaves both registries at once.                                *)
LEMMA DropRegistry ==
  ASSUME TypeInv, Registry, NEW i \in Slots, slots[i].state # "EMPTY", Drop(i)
  PROVE  Registry'
<1>1. /\ slots' = [slots EXCEPT ![i] = EmptySlot] /\ slots \in [Slots -> SlotType]
      /\ players \in Seq(Ids) /\ slots[i].id \in Ids \cup {NoId}
      /\ slots'[i].state = "EMPTY" /\ \A j \in Slots \ {i} : slots'[j] = slots[j]
  BY DEF Drop, TypeInv, FdInv, FdTypes, Rooms, SlotType, EmptySlot
<1>2. CASE slots[i].state # "ACTIVE"
  <2>1. UNCHANGED players
    BY <1>2 DEF Drop
  <2>2. QED
    BY <1>1, <1>2, <2>1, SameRegistry
<1>3. CASE slots[i].state = "ACTIVE"
  <2> DEFINE d == slots[i].id
  <2>1. players' = RemovePlayer(players, d) /\ i \in Holders(d)
    BY <1>3 DEF Drop, Holders, Active
  <2>2. \A id : Holders(id)' = Holders(id) \ {i}
    BY <1>1 DEF Holders, Active
  <2> HIDE DEF d
  <2>3. CASE d \in Ids
    <3>1. Places(players, d) # {}
      <4>1. Cardinality(Places(players, d)) = Cardinality(Holders(d))
        BY <2>3, RegistryParts
      <4>2. Cardinality(Holders(d)) # 0
        BY <2>1, HoldersFinite, FS_EmptySet
      <4>3. QED
        BY <4>1, <4>2, FS_EmptySet
    <3>2. ASSUME NEW id \in Ids
          PROVE  Cardinality(Places(players', id)) = Cardinality(Holders(id)')
      <4>1. Cardinality(Places(players', id))
              = Cardinality(Places(players, id)) - (IF id = d THEN 1 ELSE 0)
        BY <1>1, <2>1, <3>1, RemoveCount
      <4>2. IsFiniteSet(Holders(id)) /\ Cardinality(Holders(id)) \in Nat
        BY HoldersFinite, FS_CardinalityType
      <4>3. Cardinality(Holders(id) \ {i})
              = IF i \in Holders(id) THEN Cardinality(Holders(id)) - 1 ELSE Cardinality(Holders(id))
        BY <4>2, FS_RemoveElement
      <4>4. i \in Holders(id) <=> id = d
        BY <2>1 DEF Holders
      <4>5. Cardinality(Places(players, id)) = Cardinality(Holders(id))
        BY RegistryParts
      <4>6. QED
        BY <2>2, <4>1, <4>2, <4>3, <4>4, <4>5
    <3>3. QED
      BY <3>2 DEF Registry, Places, Holders
  <2>4. CASE d \notin Ids
    <3>1. \A k \in 1..Len(players) : players[k] # d
      BY <1>1, <2>4
    <3>2. players' = players
      BY <2>1, <3>1 DEF RemovePlayer, RemoveFirst
    <3>3. \A id \in Ids : Holders(id)' = Holders(id)
      <4>1. \A id \in Ids : i \notin Holders(id)
        BY <2>4 DEF Holders, d
      <4>2. QED
        BY <2>2, <4>1
    <3>4. QED
      BY <3>2, <3>3 DEF Registry, Holders
  <2>5. QED
    BY <2>3, <2>4
<1>4. QED
  BY <1>2, <1>3

(* A player who joins enters both; if WELCOME fails, neither.              *)
LEMMA JoinRegistry ==
  ASSUME TypeInv, Registry, NEW id \in Ids, NetJoin(id)
  PROVE  Registry'
<1>1. /\ slots \in [Slots -> SlotType] /\ players \in Seq(Ids) /\ neti \in Slots
      /\ slots[neti].state = "PENDING"
  BY DEF NetJoin, TypeInv, FdInv, FdTypes, Rooms
<1>2. CASE Drop(neti)
  BY <1>1, <1>2, DropRegistry
<1>3. CASE /\ players' = Append(players, id)
           /\ slots' = [slots EXCEPT ![neti] =
                [slots[neti] EXCEPT !.state = "ACTIVE", !.id = id, !.age = 0]]
  <2>1. /\ slots'[neti].state = "ACTIVE" /\ slots'[neti].id = id
        /\ \A j \in Slots \ {neti} : slots'[j] = slots[j]
    BY <1>1, <1>3 DEF SlotType
  <2>2. ASSUME NEW e \in Ids
        PROVE  Cardinality(Places(players', e)) = Cardinality(Holders(e)')
    <3>1. Holders(e)' = IF e = id THEN Holders(e) \cup {neti} ELSE Holders(e)
      BY <1>1, <2>1 DEF Holders, Active
    <3>2. neti \notin Holders(e)
      BY <1>1 DEF Holders, Active
    <3>3. Cardinality(Places(players', e))
            = Cardinality(Places(players, e)) + (IF e = id THEN 1 ELSE 0)
      BY <1>1, <1>3, AppendCount
    <3>4. IsFiniteSet(Holders(e)) /\ Cardinality(Holders(e)) \in Nat
      BY HoldersFinite, FS_CardinalityType
    <3>5. Cardinality(Holders(e) \cup {neti}) = Cardinality(Holders(e)) + 1
      BY <3>2, <3>4, FS_AddElement
    <3>6. Cardinality(Places(players, e)) = Cardinality(Holders(e))
      BY RegistryParts
    <3>7. QED
      BY <3>1, <3>3, <3>4, <3>5, <3>6
  <2>3. QED
    BY <2>2 DEF Registry, Places, Holders
<1>4. CASE /\ players' = RemovePlayer(Append(players, id), id)
           /\ slots' = [slots EXCEPT ![neti] = EmptySlot]
  <2>1. /\ slots'[neti].state = "EMPTY" /\ \A j \in Slots \ {neti} : slots'[j] = slots[j]
    BY <1>1, <1>4 DEF EmptySlot
  <2>2. Append(players, id) \in Seq(Ids)
    BY <1>1
  <2>3. Places(Append(players, id), id) # {}
    <3>1. Len(players) + 1 \in DOMAIN Append(players, id)
          /\ Append(players, id)[Len(players) + 1] = id
      BY <1>1
    <3>2. QED
      BY <3>1 DEF Places
  <2>4. ASSUME NEW e \in Ids
        PROVE  Cardinality(Places(players', e)) = Cardinality(Holders(e)')
    <3>1. Holders(e)' = Holders(e)
      BY <1>1, <2>1 DEF Holders, Active
    <3>2. Cardinality(Places(players', e))
            = Cardinality(Places(Append(players, id), e)) - (IF e = id THEN 1 ELSE 0)
      <4>1. PICK s \in Seq(Ids) : s = Append(players, id)
        BY <2>2
      <4>2. s \in Seq(Ids) /\ Places(s, id) # {}
        BY <2>3, <4>1
      <4>3. Cardinality(Places(RemovePlayer(s, id), e))
              = Cardinality(Places(s, e)) - (IF e = id THEN 1 ELSE 0)
        BY <4>2, RemoveCount
      <4>4. QED
        BY <1>4, <4>1, <4>3
    <3>3. Cardinality(Places(Append(players, id), e))
            = Cardinality(Places(players, e)) + (IF e = id THEN 1 ELSE 0)
      BY <1>1, AppendCount
    <3>4. Cardinality(Places(players, e)) \in Nat
      BY <1>1, PlacesFinite, FS_CardinalityType
    <3>5. Cardinality(Places(players, e)) = Cardinality(Holders(e))
      BY RegistryParts
    <3>6. QED
      BY <3>1, <3>2, <3>3, <3>4, <3>5
  <2>5. QED
    BY <2>4 DEF Registry, Places, Holders
<1>5. QED
  BY <1>2, <1>3, <1>4 DEF NetJoin

LEMMA RegistryInit == Init => Registry
<1> SUFFICES ASSUME Init PROVE Registry
  OBVIOUS
<1>1. players = <<>> /\ slots = [i \in Slots |-> EmptySlot]
  BY DEF Init, ServerInit
<1>2. DOMAIN players = {} /\ Active = {}
  BY <1>1 DEF Active, EmptySlot
<1>3. QED
  BY <1>2 DEF Registry

LEMMA RegistryKeeps == TypeInv /\ Registry /\ [Next]_vars => Registry'
<1> SUFFICES ASSUME TypeInv, Registry, [Next]_vars PROVE Registry'
  OBVIOUS
<1>1. /\ slots \in [Slots -> SlotType] /\ neti \in Slots /\ simi \in Slots /\ FdTypes
      /\ Free # {} => Min(Free) \in Free
  <2>1. slots \in [Slots -> SlotType] /\ neti \in Slots /\ simi \in Slots /\ FdTypes
    BY DEF TypeInv, FdInv, FdTypes
  <2>2. Free \in SUBSET Nat
    BY DEF Free, Slots
  <2>3. Free # {} => Min(Free) \in Free
    BY <2>2, LeastExists DEF Min
  <2>4. QED
    BY <2>1, <2>3
<1>2. CASE UNCHANGED <<slots, players>>
  BY <1>2, SameRegistry
<1>3. CASE SimBeat \/ SimSend
  <2>1. UNCHANGED <<slots, players>> \/ (slots[simi].state = "ACTIVE" /\ Drop(simi))
    BY <1>3 DEF SimBeat, SimSend
  <2>2. QED
    BY <1>1, <1>2, <2>1, DropRegistry
<1>4. CASE NetRecvFails
  <2>1. slots[neti].state # "EMPTY" /\ Drop(neti)
    BY <1>4 DEF NetRecvFails, Selected
  <2>2. QED
    BY <1>1, <2>1, DropRegistry
<1>5. CASE NetFrame
  <2>1. UNCHANGED players /\ slots' = [slots EXCEPT ![neti].age = 0]
    BY <1>5 DEF NetFrame
  <2>2. \A i \in Slots : slots'[i].state = slots[i].state /\ slots'[i].id = slots[i].id
    BY <1>1, <2>1 DEF SlotType
  <2>3. QED
    BY <2>1, <2>2, SameRegistry
<1>6. CASE NetAccept
  <2>1. CASE /\ Free # {}
             /\ slots' = [slots EXCEPT ![Min(Free)] =
                  [EmptySlot EXCEPT !.state = "PENDING", !.fd = LowestFree]]
    <3>1. PICK m \in Slots : m = Min(Free) /\ slots[m].state = "EMPTY"
      BY <1>1, <2>1 DEF Free
    <3>2. slots'[m].state = "PENDING" /\ \A j \in Slots \ {m} : slots'[j] = slots[j]
      BY <1>1, <2>1, <3>1 DEF EmptySlot
    <3>3. UNCHANGED players
      BY <1>6 DEF NetAccept
    <3>4. QED
      BY <3>1, <3>2, <3>3, SameRegistry
  <2>2. QED
    BY <1>2, <1>6, <2>1 DEF NetAccept
<1>7. CASE Second
  <2>1. UNCHANGED players
    BY <1>7 DEF Second
  <2>2. \A e \in SlotType : /\ [e EXCEPT !.age = @ + 1].state = e.state
                            /\ [e EXCEPT !.age = @ + 1].id = e.id
    BY DEF SlotType
  <2>3. \A i \in Slots : slots'[i].state = slots[i].state /\ slots'[i].id = slots[i].id
    BY <1>1, <1>7, <2>2 DEF Second
  <2>4. QED
    BY <2>1, <2>3, SameRegistry
<1>8. CASE \E id \in Ids : NetJoin(id)
  BY <1>8, JoinRegistry
<1>9. CASE \/ SimCheck \/ SimLock \/ SimBuild \/ ShutdownSignal
           \/ NetTop \/ NetSelect \/ NetWake \/ NetIdle \/ NetLock \/ NetSkip \/ NetExit
  BY <1>2, <1>9 DEF SimCheck, SimLock, SimBuild, ShutdownSignal, NetTop, NetSelect,
     NetWake, NetIdle, NetLock, NetSkip, NetExit
<1>10. CASE UNCHANGED server \/ UNCHANGED vars
  BY <1>2, <1>10 DEF server, vars
<1>11. QED
  BY <1>3, <1>4, <1>5, <1>6, <1>7, <1>8, <1>9, <1>10 DEF Next, SimStep, NetStep, Done

(* The slots of main.c and the players of game.c agree, after any joins,   *)
(* leaves and failed sends, even if rand() gives one id to several.        *)
THEOREM RegistriesAgree == Spec => []Registry
<1>1. QED
  BY RegistryInit, RegistryKeeps, TypeInvariance, PTL DEF Spec

-----------------------------------------------------------------------------
(* Own sessions *)

Locks ==
  /\ lock = "sim" <=> simpc \in {"beat", "build", "send"}
  /\ lock = "net" <=> netpc \in {"accept", "serve"}

(* The snapshot being sent has every player it is sent to: nobody joins    *)
(* while the simulation thread holds the mutex.                            *)
Snapped ==
  /\ \A i \in Active : slots[i].id \in Ids
  /\ simpc = "send" => \A i \in Active : slots[i].id \in snap

SessionInv == WelcomeInv /\ Registry /\ Locks /\ Snapped /\ OwnSession

LEMMA LocksKeep == TypeInv /\ Locks /\ [Next]_vars => Locks'
<1> SUFFICES ASSUME TypeInv, Locks, [Next]_vars PROVE Locks'
  OBVIOUS
<1>1. CASE SimStep
  <2>1. UNCHANGED netpc
    BY <1>1 DEF SimStep, SimCheck, SimLock, SimBeat, SimBuild, SimSend, net
  <2>2. QED
    BY <1>1, <2>1 DEF Locks, SimStep, SimCheck, SimLock, SimBeat, SimBuild, SimSend, NextSim
<1>2. CASE NetStep
  <2>1. UNCHANGED simpc
    BY <1>2 DEF NetStep, NetTop, NetSelect, NetWake, NetIdle, NetLock, NetAccept, NetSkip,
       NetRecvFails, NetFrame, NetJoin, NetExit, sim
  <2>2. QED
    BY <1>2, <2>1 DEF Locks, NetStep, NetTop, NetSelect, NetWake, NetIdle, NetLock,
       NetAccept, NetSkip, NetRecvFails, NetFrame, NetJoin, NetExit, NextServe
<1>3. CASE Second \/ ShutdownSignal \/ UNCHANGED server \/ UNCHANGED vars
  <2>1. UNCHANGED <<lock, netpc, simpc>>
    BY <1>3 DEF Second, ShutdownSignal, vars, server, net, sim
  <2>2. QED
    BY <2>1 DEF Locks
<1>4. QED
  BY <1>1, <1>2, <1>3 DEF Next, Done

(* Every slot that is ACTIVE after the step was so before, as the same     *)
(* player.                                                                 *)
SamePlayers == \A i \in Active' : i \in Active /\ slots'[i].id = slots[i].id

LEMMA SamePlayersSteps ==
  ASSUME TypeInv, [Next]_vars, ~\E id \in Ids : NetJoin(id)
  PROVE  SamePlayers
<1>1. /\ slots \in [Slots -> SlotType] /\ neti \in Slots /\ simi \in Slots
      /\ Free # {} => Min(Free) \in Free
  <2>1. slots \in [Slots -> SlotType] /\ neti \in Slots /\ simi \in Slots
    BY DEF TypeInv, FdInv, FdTypes
  <2>2. Free \in SUBSET Nat
    BY DEF Free, Slots
  <2>3. Free # {} => Min(Free) \in Free
    BY <2>2, LeastExists DEF Min
  <2>4. QED
    BY <2>1, <2>3
<1>2. CASE UNCHANGED slots
  BY <1>2 DEF SamePlayers, Active
<1>3. ASSUME NEW i \in Slots, slots' = [slots EXCEPT ![i] = EmptySlot] PROVE SamePlayers
  BY <1>1, <1>3 DEF SamePlayers, Active, EmptySlot
<1>4. CASE SimBeat \/ SimSend \/ NetRecvFails
  <2>1. UNCHANGED slots \/ Drop(simi) \/ Drop(neti)
    BY <1>4 DEF SimBeat, SimSend, NetRecvFails
  <2>2. QED
    BY <1>1, <1>2, <1>3, <2>1 DEF Drop
<1>5. CASE NetFrame
  <2>1. slots' = [slots EXCEPT ![neti].age = 0]
    BY <1>5 DEF NetFrame
  <2>2. QED
    BY <1>1, <2>1 DEF SamePlayers, Active, SlotType
<1>6. CASE NetAccept
  <2>1. CASE /\ Free # {}
             /\ slots' = [slots EXCEPT ![Min(Free)] =
                  [EmptySlot EXCEPT !.state = "PENDING", !.fd = LowestFree]]
    BY <1>1, <2>1 DEF SamePlayers, Active, EmptySlot
  <2>2. QED
    BY <1>2, <1>6, <2>1 DEF NetAccept
<1>7. CASE Second
  <2>1. \A e \in SlotType : /\ [e EXCEPT !.age = @ + 1].state = e.state
                            /\ [e EXCEPT !.age = @ + 1].id = e.id
    BY DEF SlotType
  <2>2. \A i \in Slots : slots'[i].state = slots[i].state /\ slots'[i].id = slots[i].id
    BY <1>1, <1>7, <2>1 DEF Second
  <2>3. QED
    BY <2>2 DEF SamePlayers, Active
<1>8. CASE \/ SimCheck \/ SimLock \/ SimBuild \/ ShutdownSignal
           \/ NetTop \/ NetSelect \/ NetWake \/ NetIdle \/ NetLock \/ NetSkip \/ NetExit
           \/ UNCHANGED server \/ UNCHANGED vars
  BY <1>2, <1>8 DEF SimCheck, SimLock, SimBuild, ShutdownSignal, NetTop, NetSelect,
     NetWake, NetIdle, NetLock, NetSkip, NetExit, server, vars
<1>9. QED
  BY <1>4, <1>5, <1>6, <1>7, <1>8 DEF Next, SimStep, NetStep, Done

LEMMA SnappedKeeps == TypeInv /\ Registry /\ Locks /\ Snapped /\ [Next]_vars => Snapped'
<1> SUFFICES ASSUME TypeInv, Registry, Locks, Snapped, [Next]_vars PROVE Snapped'
  OBVIOUS
<1>1. CASE \E id \in Ids : NetJoin(id)
  <2>1. PICK id \in Ids : NetJoin(id)
    BY <1>1
  <2>2. simpc # "send" /\ UNCHANGED simpc
    BY <2>1 DEF NetJoin, Locks, sim
  <2>3. slots \in [Slots -> SlotType] /\ neti \in Slots
    BY DEF TypeInv, FdInv, FdTypes
  <2>4. \/ slots' = [slots EXCEPT ![neti] = EmptySlot]
        \/ slots' = [slots EXCEPT ![neti] =
             [slots[neti] EXCEPT !.state = "ACTIVE", !.id = id, !.age = 0]]
    BY <2>1 DEF NetJoin, Drop
  <2>5. \A i \in Active' : slots'[i].id \in Ids
    <3>1. CASE slots' = [slots EXCEPT ![neti] = EmptySlot]
      BY <2>3, <3>1 DEF Snapped, Active, EmptySlot
    <3>2. CASE slots' = [slots EXCEPT ![neti] =
                 [slots[neti] EXCEPT !.state = "ACTIVE", !.id = id, !.age = 0]]
      BY <2>3, <3>2 DEF Snapped, Active, SlotType
    <3>3. QED
      BY <2>4, <3>1, <3>2
  <2>6. QED
    BY <2>2, <2>5 DEF Snapped
<1>2. CASE ~\E id \in Ids : NetJoin(id)
  <2>1. SamePlayers
    BY <1>2, SamePlayersSteps
  <2>2. \A i \in Active' : slots'[i].id \in Ids
    BY <2>1 DEF SamePlayers, Snapped
  <2>3. CASE SimBuild
    <3>1. snap' = Range(players) /\ UNCHANGED slots
      BY <2>3 DEF SimBuild
    <3>2. ASSUME NEW i \in Active PROVE slots[i].id \in Range(players)
      <4>1. PICK d \in Ids : d = slots[i].id
        BY DEF Snapped
      <4>2. i \in Holders(d)
        BY <4>1 DEF Holders
      <4>3. Cardinality(Holders(d)) # 0
        BY <4>2, HoldersFinite, FS_EmptySet
      <4>4. Places(players, d) # {}
        BY <4>3, RegistryParts, FS_EmptySet
      <4>5. QED
        BY <4>1, <4>4 DEF Places, Range
    <3>3. QED
      BY <2>2, <3>1, <3>2 DEF Snapped, Active
  <2>4. CASE ~SimBuild
    <3>1. simpc' = "send" => simpc = "send" /\ UNCHANGED snap
      <4>1. CASE SimStep
        BY <2>4, <4>1, PlacesAssumption DEF SimStep, SimCheck, SimLock, SimBeat, SimSend, NextSim,
           TypeInv, FdInv, FdTypes, Slots
      <4>2. CASE NetStep \/ Second \/ ShutdownSignal \/ UNCHANGED server \/ UNCHANGED vars
        <5>1. UNCHANGED <<simpc, snap>>
          BY <4>2 DEF NetStep, NetTop, NetSelect, NetWake, NetIdle, NetLock, NetAccept,
             NetSkip, NetRecvFails, NetFrame, NetJoin, NetExit, Second, ShutdownSignal,
             server, vars, sim
        <5>2. QED
          BY <5>1
      <4>3. QED
        BY <4>1, <4>2 DEF Next, Done
    <3>2. QED
      BY <2>1, <2>2, <3>1 DEF SamePlayers, Snapped
  <2>5. QED
    BY <2>3, <2>4
<1>3. QED
  BY <1>1, <1>2

LEMMA SessionSame ==
  ASSUME OwnSession, SamePlayers, UNCHANGED <<cend, down, myid>>,
         netpc' # "done" => netpc # "done" /\ \A i \in Active' : Peer(i)' = Peer(i)
  PROVE  OwnSession'
<1>1. \A c \in cend : IdGiven(c)' = IdGiven(c)
  BY DEF IdGiven
<1> SUFFICES ASSUME NEW c \in cend
             PROVE  /\ \A i \in Active' : Peer(i)' = c /\ netpc' # "done" => slots'[i].id = IdGiven(c)
                    /\ \A k \in DOMAIN down[c] :
                         down[c][k].type = "SNAPSHOT" => IdGiven(c) \in down[c][k].ids
  BY <1>1 DEF OwnSession
<1>2. QED
  BY DEF OwnSession, SamePlayers

LEMMA DropSession ==
  ASSUME TypeInv, OwnSession, SamePlayers, netpc # "done",
         NEW j \in Slots, slots[j].state # "EMPTY",
         slots' = [slots EXCEPT ![j] = EmptySlot],
         owner' = [owner EXCEPT ![slots[j].fd] = NoClient],
         UNCHANGED <<cend, down, myid>>
  PROVE  OwnSession'
<1>1. /\ slots \in [Slots -> SlotType] /\ owner \in [Fds -> Clients \cup {NoClient}]
      /\ Sole
  BY Parts DEF TypeInv, FdInv, FdTypes
<1>2. ASSUME NEW i \in Active' PROVE Peer(i)' = Peer(i)
  <2>1. i \in Slots /\ i # j /\ slots'[i] = slots[i] /\ slots[i].state = "ACTIVE"
    BY <1>1 DEF Active, EmptySlot
  <2>2. slots[i].fd # slots[j].fd
    BY <1>1, <2>1 DEF Sole, Free
  <2>3. QED
    BY <1>1, <2>1, <2>2 DEF Peer
<1>3. QED
  BY <1>2, SessionSame

LEMMA AcceptSession ==
  ASSUME TypeInv, OwnSession, SamePlayers, NetAccept, UNCHANGED client
  PROVE  OwnSession'
<1>1. /\ FdTypes /\ Sole /\ netpc # "done" /\ UNCHANGED <<cend, down, myid>>
  BY Parts DEF TypeInv, FdInv, NetAccept, client
<1>2. CASE UNCHANGED <<owner, slots>>
  BY <1>1, <1>2, SessionSame DEF Peer
<1>3. CASE /\ Free # {}
           /\ owner' = [owner EXCEPT ![LowestFree] = Head(backlog)]
           /\ slots' = [slots EXCEPT ![Min(Free)] =
                [EmptySlot EXCEPT !.state = "PENDING", !.fd = LowestFree]]
  <2>1. LowestFree \in Fds \ OpenFds /\ Min(Free) \in Free
    BY <1>1, <1>3, FdLeft
  <2>2. ASSUME NEW i \in Active' PROVE Peer(i)' = Peer(i)
    <3>1. i \in Slots /\ i # Min(Free) /\ slots'[i] = slots[i] /\ slots[i].state = "ACTIVE"
      BY <1>1, <1>3, <2>1 DEF Active, Free, FdTypes, EmptySlot
    <3>2. slots[i].fd \in OpenFds
      BY <1>1, <3>1 DEF Sole, Free
    <3>3. QED
      BY <1>1, <1>3, <2>1, <3>1, <3>2 DEF Peer, FdTypes, OpenFds
  <2>3. QED
    BY <1>1, <2>2, SessionSame
<1>4. QED
  BY <1>2, <1>3 DEF NetAccept

(* A frame goes out on slot i, as in SendServed; a snapshot has the player *)
(* in it, WELCOME has his new id.                                          *)
LEMMA SendSession ==
  ASSUME WelcomeInv, OwnSession, netpc # "done", NEW i \in Slots, slots[i].state # "EMPTY",
         NEW frame \in DownFrames, down' = Sent(Peer(i), frame),
         frame.type = "WELCOME" <=> slots[i].state = "PENDING",
         frame.type = "WELCOME" => frame.id = slots'[i].id,
         frame.type # "WELCOME" => slots'[i].id = slots[i].id,
         frame.type = "SNAPSHOT" => slots[i].id \in frame.ids,
         slots'[i].state = "ACTIVE", slots'[i].fd = slots[i].fd,
         \A j \in Slots \ {i} : slots'[j] = slots[j],
         UNCHANGED <<owner, cend, myid>>
  PROVE  OwnSession'
<1>1. slots[i].fd \in OpenFds /\ Peer(i) \in Clients /\ Links /\ Peer(i)' = Peer(i)
  BY PeerType DEF WelcomeInv, TypeInv, Peer
<1>2. \A j \in Slots \ {i} : Peer(j)' = Peer(j) /\ (slots'[j].state = "ACTIVE" => Peer(j) # Peer(i))
  <2>1. \A j, k \in Slots : slots[j].state # "EMPTY" /\ slots[k].state # "EMPTY"
                            /\ slots[j].fd = slots[k].fd => j = k
    BY Parts DEF WelcomeInv, TypeInv, FdInv, Sole, Free
  <2>2. \A f, g \in OpenFds : owner[f] = owner[g] => f = g
    BY DEF WelcomeInv, Lonely
  <2>3. \A j \in Slots : slots[j].state # "EMPTY" => slots[j].fd \in OpenFds
    BY Parts DEF WelcomeInv, TypeInv, FdInv, Sole, Free
  <2>4. QED
    BY <1>1, <2>1, <2>2, <2>3 DEF Peer
<1>3. Active' = Active \cup {i}
  BY DEF Active
<1> SUFFICES ASSUME NEW c \in cend
             PROVE  /\ \A j \in Active' : Peer(j)' = c => slots'[j].id = IdGiven(c)'
                    /\ \A k \in DOMAIN down'[c] :
                         down'[c][k].type = "SNAPSHOT" => IdGiven(c)' \in down'[c][k].ids
  BY DEF OwnSession
<1>4. /\ \A j \in Active : Peer(j) = c => slots[j].id = IdGiven(c)
      /\ \A k \in DOMAIN down[c] :
           down[c][k].type = "SNAPSHOT" => IdGiven(c) \in down[c][k].ids
  BY DEF OwnSession
<1>5. CASE c # Peer(i)
  <2>1. down'[c] = down[c]
    BY <1>1, <1>5 DEF Sent, Links
  <2>2. IdGiven(c)' = IdGiven(c)
    BY <2>1 DEF IdGiven
  <2>3. \A j \in Active' : Peer(j)' = c => slots'[j].id = IdGiven(c)'
    BY <1>1, <1>2, <1>4, <1>5, <2>2 DEF Active
  <2>4. QED
    BY <1>4, <2>1, <2>2, <2>3
<1>6. CASE c = Peer(i)
  <2>1. PICK m \in Nat : m = Len(down[c]) /\ DOMAIN down[c] = 1..m
    BY <1>1, <1>6 DEF Links
  <2>2. /\ DOMAIN down'[c] = 1..m + 1 /\ down'[c][m + 1] = frame
        /\ \A k \in 1..m : down'[c][k] = down[c][k]
    BY <1>1, <1>6, <2>1 DEF Sent, Links
  <2>3. CASE slots[i].state = "PENDING"
    <3>1. down[c] = <<>> /\ myid[c] = NoId
      BY <1>1, <1>6, <2>3 DEF WelcomeInv, Served, Fresh
    <3>2. m = 0
      BY <2>1, <3>1
    <3>3. frame.type = "WELCOME" /\ frame.id = slots'[i].id
      BY <2>3
    <3>4. DOMAIN down'[c] = {1} /\ down'[c][1] = frame /\ IdGiven(c)' = slots'[i].id
      BY <2>2, <3>1, <3>2, <3>3 DEF IdGiven
    <3>5. QED
      BY <1>2, <1>6, <3>3, <3>4 DEF Active
  <2>4. CASE slots[i].state = "ACTIVE"
    <3>1. down[c] # <<>> \/ myid[c] # NoId
      BY <1>1, <1>6, <2>4 DEF WelcomeInv, Served, Greeted
    <3>2. IdGiven(c)' = IdGiven(c)
      <4>1. CASE myid[c] # NoId
        BY <4>1 DEF IdGiven
      <4>2. CASE myid[c] = NoId
        <5>1. 1 \in 1..m
          BY <1>1, <1>6, <2>1, <3>1, <4>2 DEF Links
        <5>2. QED
          BY <2>2, <5>1 DEF IdGiven
      <4>3. QED
        BY <4>1, <4>2
    <3>3. slots'[i].id = slots[i].id /\ slots[i].id = IdGiven(c)
      BY <1>4, <1>6, <2>4 DEF Active
    <3>4. \A j \in Active' : Peer(j)' = c => slots'[j].id = IdGiven(c)'
      BY <1>2, <1>6, <3>2, <3>3 DEF Active
    <3>5. ASSUME NEW k \in DOMAIN down'[c], down'[c][k].type = "SNAPSHOT"
          PROVE  IdGiven(c)' \in down'[c][k].ids
      <4>1. k \in 1..m \/ k = m + 1
        BY <2>2
      <4>2. QED
        BY <1>4, <2>1, <2>2, <3>2, <3>3, <3>5, <4>1
    <3>6. QED
      BY <3>4, <3>5
  <2>5. QED
    BY <2>3, <2>4 DEF WelcomeInv, TypeInv, FdInv, FdTypes, SlotType
<1>7. QED
  BY <1>5, <1>6

LEMMA SimSession ==
  ASSUME SessionInv, SamePlayers, SimStep, UNCHANGED client
  PROVE  OwnSession'
<1>1. UNCHANGED <<cend, myid, netpc>> /\ TypeInv /\ WelcomeInv /\ OwnSession
  BY DEF SimStep, SimCheck, SimLock, SimBeat, SimBuild, SimSend, sockets, client, net,
     SessionInv, WelcomeInv
<1>2. CASE UNCHANGED <<owner, down, slots>>
  BY <1>1, <1>2, SessionSame DEF Peer
<1>3. CASE SimBeat \/ SimSend
  <2>1. simi \in Slots /\ netpc # "done"
    BY <1>1, <1>3 DEF TypeInv, FdInv, FdTypes, FdOwnership, SimBeat, SimSend
  <2>2. CASE slots[simi].state = "ACTIVE" /\ Drop(simi) /\ UNCHANGED down
    BY <1>1, <2>1, <2>2, DropSession DEF Drop
  <2>3. CASE \E frame \in DownFrames :
               /\ frame.type # "WELCOME"
               /\ frame.type = "SNAPSHOT" => slots[simi].id \in frame.ids
               /\ slots[simi].state = "ACTIVE"
               /\ down' = Sent(Peer(simi), frame) /\ UNCHANGED <<owner, slots>>
    BY <1>1, <2>1, <2>3, SendSession
  <2>4. CASE SimBeat
    BY <1>2, <2>2, <2>3, <2>4, FrameTypes DEF SimBeat
  <2>5. CASE SimSend
    <3>1. slots[simi].state = "ACTIVE" => slots[simi].id \in snap
      BY <2>1, <2>5 DEF SimSend, SessionInv, Snapped, Active
    <3>2. snap \in SUBSET Ids
      BY <1>1 DEF TypeInv, Rooms
    <3>3. QED
      BY <1>2, <2>2, <2>3, <2>5, <3>1, <3>2, FrameTypes DEF SimSend
  <2>6. QED
    BY <1>3, <2>4, <2>5
<1>4. QED
  BY <1>2, <1>3 DEF SimStep, SimCheck, SimLock, SimBuild, sockets

LEMMA NetSession ==
  ASSUME SessionInv, NetStep, UNCHANGED client,
         SamePlayers \/ \E id \in Ids : NetJoin(id)
  PROVE  OwnSession'
<1>1. /\ UNCHANGED <<cend, myid>> /\ TypeInv /\ WelcomeInv /\ OwnSession
      /\ slots \in [Slots -> SlotType] /\ neti \in Slots
  BY DEF NetStep, NetTop, NetSelect, NetWake, NetIdle, NetLock, NetAccept, NetSkip,
     NetRecvFails, NetFrame, NetJoin, NetExit, sockets, client, SessionInv, WelcomeInv,
     TypeInv, FdInv, FdTypes
<1>2. CASE \E id \in Ids : NetJoin(id)
  <2>1. PICK id \in Ids : NetJoin(id)
    BY <1>2
  <2>2. netpc # "done" /\ slots[neti].state = "PENDING"
    BY <2>1 DEF NetJoin
  <2>3. CASE /\ UNCHANGED down
             /\ slots' = [slots EXCEPT ![neti] = EmptySlot]
             /\ owner' = [owner EXCEPT ![slots[neti].fd] = NoClient]
    <3>1. SamePlayers
      BY <1>1, <2>3 DEF SamePlayers, Active, EmptySlot
    <3>2. QED
      BY <1>1, <2>2, <2>3, <3>1, DropSession
  <2>4. CASE /\ UNCHANGED owner
             /\ slots' = [slots EXCEPT ![neti] =
                  [slots[neti] EXCEPT !.state = "ACTIVE", !.id = id, !.age = 0]]
             /\ down' = Sent(Peer(neti), [type |-> "WELCOME", id |-> id])
    <3>1. /\ slots'[neti].state = "ACTIVE" /\ slots'[neti].fd = slots[neti].fd
          /\ slots'[neti].id = id /\ \A j \in Slots \ {neti} : slots'[j] = slots[j]
      BY <1>1, <2>4 DEF SlotType
    <3>2. QED
      BY <1>1, <2>2, <2>4, <3>1, FrameTypes, SendSession
  <2>5. QED
    BY <2>1, <2>3, <2>4 DEF NetJoin, Drop
<1>3. CASE SamePlayers
  <2>1. CASE NetRecvFails
    <3>1. /\ slots[neti].state # "EMPTY" /\ netpc # "done" /\ Drop(neti) /\ UNCHANGED down
      BY <2>1 DEF NetRecvFails, Selected
    <3>2. QED
      BY <1>1, <1>3, <3>1, DropSession DEF Drop
  <2>2. CASE NetAccept
    BY <1>1, <1>3, <2>2, AcceptSession
  <2>3. CASE NetFrame
    <3>1. /\ UNCHANGED <<owner, down>> /\ netpc # "done"
          /\ slots' = [slots EXCEPT ![neti].age = 0]
      BY <2>3 DEF NetFrame
    <3>2. \A i \in Active' : Peer(i)' = Peer(i)
      BY <1>1, <3>1 DEF Active, Peer, SlotType
    <3>3. QED
      BY <1>1, <1>3, <3>1, <3>2, SessionSame
  <2>4. CASE NetTop \/ NetSelect \/ NetWake \/ NetIdle \/ NetLock \/ NetSkip
    <3>1. UNCHANGED <<owner, down, slots>> /\ netpc # "done"
      BY <2>4 DEF NetTop, NetSelect, NetWake, NetIdle, NetLock, NetSkip, sockets
    <3>2. QED
      BY <1>1, <1>3, <3>1, SessionSame DEF Peer
  <2>5. CASE NetExit
    BY <1>1, <1>3, <2>5, SessionSame DEF NetExit
  <2>6. QED
    BY <1>2, <2>1, <2>2, <2>3, <2>4, <2>5 DEF NetStep
<1>4. QED
  BY <1>2, <1>3

LEMMA ClientSession ==
  ASSUME SessionInv, NEW c \in Clients, UNCHANGED server,
         (Connect(c) /\ netpc # "done") \/ ClientStep(c)
  PROVE  OwnSession'
<1>1. /\ Links /\ Persons /\ WelcomeInv /\ OwnSession /\ cend \subseteq Clients
      /\ UNCHANGED <<owner, slots, netpc>>
  BY DEF SessionInv, WelcomeInv, TypeInv, Links, server, net, Connect, ClientStep,
     ClientProgress, SendJoin, Handshake, ReadFrame, EndOfStream, PressKey, Quit, Killed,
     Hang, Exit
<1>2. Active' = Active /\ \A i \in Active : Peer(i)' = Peer(i) /\ slots'[i] = slots[i]
  BY <1>1 DEF Active, Peer
<1>3. SUFFICES
        /\ cend' \subseteq cend \cup {c}
        /\ \A d \in Clients \ {c} : down'[d] = down[d] /\ myid'[d] = myid[d]
        /\ c \in cend' =>
             /\ \A i \in Active : Peer(i) = c /\ netpc # "done" => slots[i].id = IdGiven(c)'
             /\ \A k \in DOMAIN down'[c] :
                  down'[c][k].type = "SNAPSHOT" => IdGiven(c)' \in down'[c][k].ids
  <2>1. ASSUME NEW d \in cend, d # c
        PROVE  /\ IdGiven(d)' = IdGiven(d) /\ down'[d] = down[d]
               /\ \A i \in Active : Peer(i) = d /\ netpc # "done" => slots[i].id = IdGiven(d)
               /\ \A k \in DOMAIN down[d] :
                    down[d][k].type = "SNAPSHOT" => IdGiven(d) \in down[d][k].ids
    BY <1>1, <1>3, <2>1 DEF OwnSession, IdGiven
  <2>2. ASSUME NEW d \in cend'
        PROVE  /\ \A i \in Active' : Peer(i)' = d /\ netpc' # "done" => slots'[i].id = IdGiven(d)'
               /\ \A k \in DOMAIN down'[d] :
                    down'[d][k].type = "SNAPSHOT" => IdGiven(d)' \in down'[d][k].ids
    BY <1>1, <1>2, <1>3, <2>1
  <2>3. QED
    BY <2>2 DEF OwnSession
<1>4. CASE Connect(c)
  <2>1. /\ cl[c] = "idle" /\ cend' = cend \cup {c} /\ UNCHANGED <<down, myid>>
        /\ \A f \in Fds : owner[f] # c /\ netpc # "done"
    BY <1>4 DEF Connect, ServerEnd, ClientStep, ClientProgress, SendJoin, Handshake,
       ReadFrame, EndOfStream, PressKey, Quit, Killed, Hang, Running
  <2>2. down'[c] = <<>>
    BY <1>1, <2>1 DEF WelcomeInv, Phases, Fresh
  <2>3. ASSUME NEW i \in Active, netpc # "done" PROVE Peer(i) # c
    <3>1. slots[i].fd \in Fds
      BY <1>1, <2>3, PeerType DEF Active, WelcomeInv, TypeInv, OpenFds
    <3>2. QED
      BY <2>1, <3>1 DEF Peer
  <2>4. QED
    BY <2>1, <2>2, <2>3
<1>5. CASE Exit(c)
  <2>1. /\ myid' = [myid EXCEPT ![c] = NoId] /\ cend' = cend \ {c}
        /\ down' = [down EXCEPT ![c] = <<>>]
    BY <1>5 DEF Exit, CloseClientEnd
  <2>2. QED
    BY <1>1, <2>1 DEF Links, Persons
<1>6. CASE SendJoin(c) \/ PressKey(c) \/ Hang(c)
  <2>1. UNCHANGED <<cend, down, myid>>
    BY <1>6 DEF SendJoin, PressKey, Hang, client
  <2>2. IdGiven(c)' = IdGiven(c)
    BY <2>1 DEF IdGiven
  <2>3. QED
    BY <1>1, <2>1, <2>2 DEF OwnSession
<1>7. CASE (ReadFrame(c) \/ Handshake(c)) /\ ~Exit(c)
  <2>1. /\ cl[c] \in {"joining", "playing"} /\ down[c] # <<>> /\ UNCHANGED cend
        /\ down' = [down EXCEPT ![c] = Tail(down[c])]
        /\ \/ cl[c] = "playing" /\ UNCHANGED myid
           \/ /\ cl[c] = "joining" /\ Head(down[c]).type = "WELCOME"
              /\ myid' = [myid EXCEPT ![c] = Head(down[c]).id]
    BY <1>7 DEF ReadFrame, Handshake, client
  <2>2. c \in cend
    BY <1>1, <2>1 DEF WelcomeInv, Phases
  <2>3. /\ down[c] \in Seq(DownFrames) /\ Head(down[c]) = down[c][1]
        /\ Head(down[c]) \in DownFrames /\ down'[c] = Tail(down[c])
        /\ Len(Tail(down[c])) = Len(down[c]) - 1 /\ Len(down[c]) \in Nat \ {0}
    BY <1>1, <2>1 DEF Links
  <2>4. IdGiven(c)' = IdGiven(c)
    <3>1. CASE cl[c] = "playing" /\ UNCHANGED myid
      BY <1>1, <3>1 DEF WelcomeInv, Phases, IdGiven
    <3>2. CASE /\ cl[c] = "joining" /\ Head(down[c]).type = "WELCOME"
               /\ myid' = [myid EXCEPT ![c] = Head(down[c]).id]
      <4>1. Head(down[c]).id \in Ids
        BY <2>3, <3>2 DEF DownFrames
      <4>2. myid'[c] = down[c][1].id /\ myid'[c] # NoId /\ myid[c] = NoId
        BY <1>1, <2>3, <3>2, <4>1, NamesAssumption DEF Persons, WelcomeInv, Phases
      <4>3. QED
        BY <4>2 DEF IdGiven
    <3>3. QED
      BY <2>1, <3>1, <3>2
  <2>5. \A k \in DOMAIN down'[c] : k + 1 \in DOMAIN down[c] /\ down'[c][k] = down[c][k + 1]
    BY <2>3
  <2>6. \A d \in Clients \ {c} : down'[d] = down[d] /\ myid'[d] = myid[d]
    BY <1>1, <2>1 DEF Links, Persons
  <2>7. QED
    BY <1>1, <2>1, <2>2, <2>4, <2>5, <2>6 DEF OwnSession
<1>8. QED
  BY <1>4, <1>5, <1>6, <1>7
  DEF ClientStep, ClientProgress, EndOfStream, Quit, Killed

LEMMA SessionInit == Init => SessionInv
<1> SUFFICES ASSUME Init PROVE SessionInv
  OBVIOUS
<1>1. /\ slots = [i \in Slots |-> EmptySlot] /\ cend = {}
      /\ lock = "free" /\ netpc = "top" /\ simpc = "check"
  BY DEF Init, ConnectionsInit, ServerInit
<1>2. Locks /\ Snapped /\ OwnSession
  BY <1>1 DEF Locks, Snapped, OwnSession, Active, EmptySlot
<1>3. QED
  BY <1>2, WelcomeInit, RegistryInit DEF SessionInv

LEMMA SessionKeeps == SessionInv /\ [Next]_vars => SessionInv'
<1> SUFFICES ASSUME SessionInv, [Next]_vars PROVE SessionInv'
  OBVIOUS
<1>1. WelcomeInv' /\ Registry' /\ Locks' /\ Snapped' /\ TypeInv /\ OwnSession
  BY WelcomeKeeps, RegistryKeeps, LocksKeep, SnappedKeeps DEF SessionInv, WelcomeInv
<1>2. SUFFICES OwnSession'
  BY <1>1 DEF SessionInv
<1>3. SamePlayers \/ \E id \in Ids : NetJoin(id)
  BY <1>1, SamePlayersSteps
<1>4. CASE SimStep /\ UNCHANGED client
  <2>1. SamePlayers
    <3>1. ~\E id \in Ids : NetJoin(id)
      <4>1. UNCHANGED <<netpc, neti>> /\ neti \in Nat
        BY <1>1, <1>4 DEF SimStep, SimCheck, SimLock, SimBeat, SimBuild, SimSend, net,
           TypeInv, FdInv, FdTypes, Slots
      <4>2. \A id : NetJoin(id) => netpc = "serve" /\ (neti' = neti + 1 \/ netpc' = "top")
        BY DEF NetJoin, NextServe
      <4>3. QED
        BY <4>1, <4>2
    <3>2. QED
      BY <1>3, <3>1
  <2>2. QED
    BY <1>4, <2>1, SimSession
<1>5. CASE NetStep /\ UNCHANGED client
  BY <1>3, <1>5, NetSession
<1>6. CASE (Second \/ ShutdownSignal) /\ UNCHANGED client
  <2>1. UNCHANGED <<owner, cend, down, myid, netpc>>
    BY <1>6 DEF Second, ShutdownSignal, sockets, net, client
  <2>2. SamePlayers /\ \A i \in Slots : slots'[i].fd = slots[i].fd
    <3>1. slots \in [Slots -> SlotType]
      BY <1>1 DEF TypeInv, FdInv, FdTypes
    <3>2. \A e \in SlotType : /\ [e EXCEPT !.age = @ + 1].state = e.state
                              /\ [e EXCEPT !.age = @ + 1].id = e.id
                              /\ [e EXCEPT !.age = @ + 1].fd = e.fd
      BY DEF SlotType
    <3>3. \A i \in Slots : slots'[i].state = slots[i].state /\ slots'[i].id = slots[i].id
                           /\ slots'[i].fd = slots[i].fd
      BY <1>6, <3>1, <3>2 DEF Second, ShutdownSignal
    <3>4. QED
      BY <3>3 DEF SamePlayers, Active
  <2>3. \A i \in Active' : Peer(i)' = Peer(i)
    BY <2>1, <2>2 DEF Peer, Active
  <2>4. QED
    BY <1>1, <2>1, <2>2, <2>3, SessionSame
<1>7. CASE \E c \in Clients : /\ (Connect(c) /\ Listening) \/ ClientStep(c)
                              /\ UNCHANGED server
  BY <1>7, ClientSession DEF Listening
<1>8. CASE UNCHANGED vars
  <2>1. UNCHANGED <<owner, cend, down, myid, netpc, slots>>
    BY <1>8 DEF vars, sockets, client, server, net
  <2>2. SamePlayers
    BY <2>1 DEF SamePlayers, Active
  <2>3. QED
    BY <1>1, <2>1, <2>2, SessionSame DEF Peer
<1>9. QED
  BY <1>4, <1>5, <1>6, <1>7, <1>8 DEF Next, Done

(* A client plays as the slot that serves it, and finds itself in every    *)
(* snapshot.                                                               *)
THEOREM SessionsOwn == Spec => []OwnSession
<1>1. SessionInv => OwnSession
  BY DEF SessionInv
<1>2. QED
  BY <1>1, SessionInit, SessionKeeps, PTL DEF Spec

-----------------------------------------------------------------------------
(* Causes *)

(* What select() reported of a player is still true when he is served: the *)
(* fd set is out of date only for descriptors that pending connections got *)
(* in the meantime.                                                        *)
Serving == {"want", "accept", "serve"}
Heard(i) == Readable(slots[i].fd)
Reported ==
  netpc \in Serving =>
    \A i \in Active : (netpc = "serve" => i >= neti) /\ slots[i].fd \in rfds => Heard(i)

CauseInv == WelcomeInv /\ Reported

(* The connections of other slots, and of the backlog, are other clients'. *)
LEMMA OtherPeers ==
  ASSUME WelcomeInv, netpc # "done", NEW i \in Slots, slots[i].state # "EMPTY"
  PROVE  /\ slots[i].fd \in OpenFds /\ Peer(i) \in Clients
         /\ \A j \in Slots : slots[j].state # "EMPTY" /\ j # i => Peer(j) # Peer(i)
         /\ \A k \in DOMAIN backlog : backlog[k] # Peer(i)
<1>1. slots[i].fd \in OpenFds /\ Peer(i) \in Clients
  BY PeerType DEF WelcomeInv, TypeInv
<1>2. Sole
  BY Parts DEF WelcomeInv, TypeInv, FdInv
<1>3. /\ \A f, g \in OpenFds : owner[f] = owner[g] => f = g
      /\ \A f \in OpenFds : owner[f] \notin Range(backlog)
  BY DEF WelcomeInv, Lonely
<1>4. \A j \in Slots : slots[j].state # "EMPTY" /\ j # i => Peer(j) # Peer(i)
  BY <1>1, <1>2, <1>3 DEF Sole, Free, Peer
<1>5. QED
  BY <1>1, <1>3, <1>4 DEF Peer, Range

(* Steps that leave a player still to be served his connection, and his    *)
(* frames.                                                                 *)
LEMMA ReportedSame ==
  ASSUME WelcomeInv, Reported,
         netpc' \in Serving => /\ netpc \in Serving /\ rfds' = rfds
                               /\ netpc = "serve" => netpc' = "serve" /\ neti' >= neti,
         neti \in Int, neti' \in Int,
         \A i \in Active' :
           netpc' \in Serving /\ (netpc' = "serve" => i >= neti') =>
             /\ i \in Active /\ slots'[i].fd = slots[i].fd /\ Peer(i)' = Peer(i)
             /\ up[Peer(i)] # <<>> => up'[Peer(i)] # <<>>
             /\ Peer(i) \in cend' => Peer(i) \in cend
  PROVE  Reported'
<1> SUFFICES ASSUME netpc' \in Serving, NEW i \in Active', netpc' = "serve" => i >= neti',
                    slots'[i].fd \in rfds'
             PROVE  Heard(i)'
  BY DEF Reported
<1>1. /\ i \in Active /\ slots'[i].fd = slots[i].fd /\ Peer(i)' = Peer(i)
      /\ up[Peer(i)] # <<>> => up'[Peer(i)] # <<>>
      /\ Peer(i) \in cend' => Peer(i) \in cend
  OBVIOUS
<1>2. i \in Slots /\ i \in Int /\ (netpc = "serve" => i >= neti)
  BY <1>1 DEF Active, Slots
<1>3. Heard(i)
  BY <1>1, <1>2 DEF Reported
<1>4. QED
  BY <1>1, <1>3 DEF Heard, Readable, Peer

LEMMA ReportedNext ==
  ASSUME NextServe, neti \in Slots
  PROVE  /\ neti' \in Int
         /\ netpc = "serve" /\ netpc' \in Serving =>
              netpc' = "serve" /\ neti' = neti + 1 /\ rfds' = rfds
  BY PlacesAssumption DEF NextServe, Serving, Slots

LEMMA ReportedKeeps == WelcomeInv /\ Reported /\ [Next]_vars => Reported'
<1> SUFFICES ASSUME WelcomeInv, Reported, [Next]_vars PROVE Reported'
  OBVIOUS
<1>1. /\ slots \in [Slots -> SlotType] /\ neti \in Slots /\ neti \in Int /\ simi \in Slots
      /\ FdTypes /\ Links
  BY DEF WelcomeInv, TypeInv, FdInv, FdTypes, Slots
<1>2. CASE SimStep
  <2>1. UNCHANGED <<netpc, neti, rfds, cend>>
    BY <1>2 DEF SimStep, SimCheck, SimLock, SimBeat, SimBuild, SimSend, net, sockets
  <2>2. CASE UNCHANGED <<slots, owner, up>>
    BY <1>1, <2>1, <2>2, ReportedSame DEF Active, Peer
  <2>3. CASE slots[simi].state = "ACTIVE" /\ Drop(simi)
    <3>1. CASE netpc = "done"
      BY <2>1, <3>1 DEF Reported, Serving
    <3>2. ASSUME netpc # "done", NEW i \in Active'
          PROVE  /\ i \in Active /\ slots'[i].fd = slots[i].fd /\ Peer(i)' = Peer(i)
                 /\ up'[Peer(i)] = up[Peer(i)]
      <4>1. i \in Slots /\ i # simi /\ slots'[i] = slots[i] /\ slots[i].state = "ACTIVE"
        BY <1>1, <2>3 DEF Drop, Active, EmptySlot
      <4>2. Peer(i) # Peer(simi) /\ slots[i].fd # slots[simi].fd
        BY <1>1, <2>3, <3>2, <4>1, OtherPeers DEF Peer
      <4>3. QED
        BY <1>1, <2>3, <4>1, <4>2 DEF Drop, Peer, Active, FdTypes, Links
    <3>3. QED
      BY <1>1, <2>1, <3>1, <3>2, ReportedSame
  <2>4. QED
    BY <1>2, <2>2, <2>3 DEF SimStep, SimCheck, SimLock, SimBeat, SimBuild, SimSend, sockets
<1>3. CASE NetRecvFails \/ NetFrame \/ \E id \in Ids : NetJoin(id)
  <2>1. /\ netpc = "serve" /\ slots[neti].state # "EMPTY" /\ NextServe /\ UNCHANGED cend
        /\ \A i \in Slots \ {neti} : slots'[i] = slots[i]
        /\ \/ UNCHANGED owner
           \/ owner' = [owner EXCEPT ![slots[neti].fd] = NoClient]
        /\ \/ up' = [up EXCEPT ![Peer(neti)] = <<>>]
           \/ up' = [up EXCEPT ![Peer(neti)] = Tail(up[Peer(neti)])]
    BY <1>1, <1>3 DEF NetRecvFails, NetFrame, NetJoin, Selected, Drop, Consume
  <2>2. ASSUME NEW i \in Active', netpc' \in Serving, netpc' = "serve" => i >= neti'
        PROVE  /\ i \in Active /\ slots'[i].fd = slots[i].fd /\ Peer(i)' = Peer(i)
               /\ up'[Peer(i)] = up[Peer(i)]
    <3>1. i >= neti + 1 /\ i \in Slots /\ i \in Int
      BY <1>1, <2>1, <2>2, ReportedNext DEF Active, Slots
    <3>2. i # neti /\ slots'[i] = slots[i] /\ slots[i].state = "ACTIVE"
      BY <1>1, <2>1, <2>2, <3>1 DEF Active
    <3>3. /\ Peer(i) # Peer(neti) /\ slots[i].fd # slots[neti].fd
          /\ Peer(i) \in Clients /\ slots[i].fd \in Fds
      BY <1>1, <2>1, <3>1, <3>2, OtherPeers DEF Peer, OpenFds
    <3>4. i \in Active /\ slots'[i].fd = slots[i].fd
      BY <3>1, <3>2 DEF Active
    <3>5. owner'[slots[i].fd] = owner[slots[i].fd]
      BY <1>1, <2>1, <3>3 DEF FdTypes
    <3>6. up'[Peer(i)] = up[Peer(i)]
      BY <1>1, <2>1, <3>3 DEF Links
    <3>7. QED
      BY <3>4, <3>5, <3>6 DEF Peer
  <2>3. netpc \in Serving /\ neti' \in Int
        /\ (netpc' \in Serving => netpc' = "serve" /\ neti' >= neti /\ rfds' = rfds)
    BY <1>1, <2>1, ReportedNext DEF Serving
  <2>4. QED
    BY <1>1, <2>1, <2>2, <2>3, ReportedSame
<1>4. CASE NetAccept
  <2>1. /\ netpc = "accept" /\ netpc' = "serve" /\ UNCHANGED <<cend, neti, rfds>>
        /\ FdTypes /\ Sole
    BY <1>1, <1>4, Parts DEF NetAccept, WelcomeInv, TypeInv, FdInv
  <2>2. ASSUME NEW i \in Active'
        PROVE  /\ i \in Active /\ slots'[i].fd = slots[i].fd /\ Peer(i)' = Peer(i)
               /\ up'[Peer(i)] = up[Peer(i)]
    <3>1. CASE UNCHANGED <<owner, up, slots>>
      BY <2>2, <3>1 DEF Active, Peer
    <3>2. CASE /\ backlog # <<>> /\ UNCHANGED <<owner, slots>>
               /\ up' = [up EXCEPT ![Head(backlog)] = <<>>]
      <4>1. i \in Active /\ i \in Slots /\ slots[i].state = "ACTIVE" /\ Peer(i)' = Peer(i)
        BY <2>2, <3>2 DEF Active, Peer
      <4>2. Head(backlog) = backlog[1] /\ 1 \in DOMAIN backlog
        BY <2>1, <3>2 DEF FdTypes
      <4>3. Peer(i) # Head(backlog) /\ Peer(i) \in Clients
        BY <2>1, <4>1, <4>2, OtherPeers
      <4>4. QED
        BY <1>1, <3>2, <4>1, <4>3 DEF Links
    <3>3. CASE /\ Free # {} /\ UNCHANGED up
               /\ owner' = [owner EXCEPT ![LowestFree] = Head(backlog)]
               /\ slots' = [slots EXCEPT ![Min(Free)] =
                    [EmptySlot EXCEPT !.state = "PENDING", !.fd = LowestFree]]
      <4>1. LowestFree \in Fds \ OpenFds /\ Min(Free) \in Free
        BY <2>1, <3>3, FdLeft
      <4>2. i \in Slots /\ i # Min(Free) /\ slots'[i] = slots[i] /\ slots[i].state = "ACTIVE"
        BY <2>1, <2>2, <3>3, <4>1 DEF Active, Free, FdTypes, EmptySlot
      <4>3. slots[i].fd \in OpenFds
        BY <2>1, <4>2 DEF Sole, Free
      <4>4. QED
        BY <2>1, <3>3, <4>1, <4>2, <4>3 DEF Peer, Active, FdTypes, OpenFds
    <3>4. QED
      BY <1>4, <3>1, <3>2, <3>3 DEF NetAccept
  <2>3. QED
    BY <1>1, <2>1, <2>2, ReportedSame DEF Serving
<1>5. CASE NetWake
  <2>1. /\ rfds' \subseteq {f \in rfds : f \in OpenFds \cup {ListenFd} => Ready(f)}
        /\ netpc' = "want" /\ netpc = "blocked" /\ UNCHANGED <<slots, owner, up, cend>>
    BY <1>5 DEF NetWake, sockets
  <2>2. ASSUME NEW i \in Active, slots[i].fd \in rfds' PROVE Readable(slots[i].fd)
    <3>1. slots[i].fd \in OpenFds /\ slots[i].fd # ListenFd
      BY <2>1, PeerType, PlacesAssumption DEF Active, OpenFds, WelcomeInv, TypeInv
    <3>2. QED
      BY <2>1, <2>2, <3>1 DEF Ready
  <2>3. QED
    BY <2>1, <2>2 DEF Reported, Active, Heard, Readable
<1>6. CASE Second
  <2>1. UNCHANGED <<netpc, neti, rfds, cend, owner, up>>
    BY <1>6 DEF Second, net, sockets
  <2>2. \A e \in SlotType : /\ [e EXCEPT !.age = @ + 1].state = e.state
                            /\ [e EXCEPT !.age = @ + 1].fd = e.fd
    BY DEF SlotType
  <2>3. \A i \in Slots : slots'[i].state = slots[i].state /\ slots'[i].fd = slots[i].fd
    BY <1>1, <1>6, <2>2 DEF Second
  <2>4. \A i \in Active' : i \in Active /\ slots'[i].fd = slots[i].fd /\ Peer(i)' = Peer(i)
    BY <2>1, <2>3 DEF Active, Peer
  <2>5. QED
    BY <1>1, <2>1, <2>4, ReportedSame
<1>7. CASE \E c \in Clients : /\ (Connect(c) /\ Listening) \/ ClientStep(c)
                              /\ UNCHANGED server
  <2>1. PICK c \in Clients : (Connect(c) /\ Listening) \/ ClientStep(c)
    BY <1>7
  <2>2. UNCHANGED <<netpc, neti, rfds, slots, owner>>
    BY <1>7, <2>1 DEF server, net, Connect, ClientStep, ClientProgress, SendJoin, Handshake,
       ReadFrame, EndOfStream, PressKey, Quit, Killed, Hang, Exit
  <2>3. CASE netpc = "done"
    BY <2>2, <2>3 DEF Reported, Serving
  <2>4. ASSUME netpc # "done", NEW i \in Active
        PROVE  /\ up[Peer(i)] # <<>> => up'[Peer(i)] # <<>>
               /\ Peer(i) \in cend' => Peer(i) \in cend
    <3>1. slots[i].fd \in Fds /\ Peer(i) \in Clients
      BY <2>4, OtherPeers DEF Active, OpenFds
    <3>2. CASE Connect(c)
      <4>1. Peer(i) # c /\ cend' = cend \cup {c} /\ up' = [up EXCEPT ![c] = <<>>]
        BY <3>1, <3>2 DEF Connect, ServerEnd, Peer
      <4>2. QED
        BY <1>1, <3>1, <4>1 DEF Links
    <3>3. CASE ~Connect(c)
      <4>1. cend' \subseteq cend
        BY <2>1, <3>3 DEF ClientStep, ClientProgress, SendJoin, Handshake, ReadFrame,
           EndOfStream, PressKey, Quit, Killed, Hang, Exit, CloseClientEnd
      <4>2. UNCHANGED up \/ \E frame : SendUp(c, frame)
        BY <2>1, <3>3 DEF ClientStep, ClientProgress, SendJoin, Handshake, ReadFrame,
           EndOfStream, PressKey, Quit, Killed, Hang, Exit
      <4>3. ASSUME NEW frame, SendUp(c, frame), up[Peer(i)] # <<>> PROVE up'[Peer(i)] # <<>>
        <5>1. up' = [up EXCEPT ![c] = Append(up[c], frame)]
          BY <4>3 DEF SendUp
        <5>2. CASE Peer(i) = c
          <6>1. up'[c] = Append(up[c], frame) /\ up[c] \in Seq(UpFrames)
            BY <1>1, <5>1 DEF Links
          <6>2. Len(Append(up[c], frame)) = Len(up[c]) + 1 /\ Len(up[c]) \in Nat
            BY <6>1
          <6>3. QED
            BY <5>2, <6>1, <6>2
        <5>3. CASE Peer(i) # c
          BY <1>1, <4>3, <5>1, <5>3, <3>1 DEF Links
        <5>4. QED
          BY <5>2, <5>3
      <4>4. QED
        BY <4>1, <4>2, <4>3
    <3>4. QED
      BY <3>2, <3>3
  <2>5. QED
    BY <1>1, <2>2, <2>3, <2>4, ReportedSame DEF Active, Peer
<1>8. CASE NetLock \/ NetSkip
  <2>1. UNCHANGED <<slots, owner, up, cend>>
    BY <1>8 DEF NetLock, NetSkip, sockets
  <2>2. /\ netpc \in Serving /\ neti' \in Int
        /\ netpc' \in Serving => /\ rfds' = rfds
                                 /\ netpc = "serve" => netpc' = "serve" /\ neti' >= neti
    BY <1>1, <1>8, ReportedNext DEF NetLock, NetSkip, Serving
  <2>3. QED
    BY <1>1, <2>1, <2>2, ReportedSame DEF Active, Peer
<1>9. CASE NetTop \/ NetSelect \/ NetIdle \/ NetExit
  BY <1>9 DEF NetTop, NetSelect, NetIdle, NetExit, Reported, Serving
<1>10. CASE ShutdownSignal \/ UNCHANGED vars
  <2>1. UNCHANGED <<netpc, neti, rfds, slots, owner, up, cend>>
    BY <1>10 DEF ShutdownSignal, vars, server, net, sockets
  <2>2. QED
    BY <1>1, <2>1, ReportedSame DEF Active, Peer
<1>11. QED
  BY <1>2, <1>3, <1>4, <1>5, <1>6, <1>7, <1>8, <1>9, <1>10 DEF Next, NetStep, Done

LEMMA CauseInvariance == Spec => []CauseInv
<1>1. Init => CauseInv
  <2>1. Init => Reported
    BY DEF Init, ServerInit, Reported, Serving
  <2>2. QED
    BY <2>1, WelcomeInit DEF CauseInv
<1>2. CauseInv /\ [Next]_vars => CauseInv'
  BY WelcomeKeeps, ReportedKeeps DEF CauseInv
<1>3. QED
  BY <1>1, <1>2, PTL DEF Spec

(* The server throws a player out for a cause only, although it acts on an *)
(* fd set that select() filled before the mutex changed hands.             *)
THEOREM CausedDrops == Spec => DropsHaveCause
<1>1. CauseInv /\ [Next]_vars =>
        [\A i \in Active :
           slots'[i].state = "EMPTY" =>
             LET c == Peer(i) IN
             \/ slots[i].age > Timeout
             \/ c \notin cend
             \/ Len(down[c]) = DownCap
             \/ up[c] # <<>> /\ Head(up[c]) = "Partial"]_vars
  <2> SUFFICES ASSUME CauseInv, Next, NEW i \in Active, slots'[i].state = "EMPTY"
               PROVE  LET c == Peer(i) IN
                      \/ slots[i].age > Timeout
                      \/ c \notin cend
                      \/ Len(down[c]) = DownCap
                      \/ up[c] # <<>> /\ Head(up[c]) = "Partial"
    OBVIOUS
  <2>1. /\ i \in Slots /\ slots[i].state = "ACTIVE" /\ slots \in [Slots -> SlotType]
        /\ neti \in Slots /\ simi \in Slots /\ neti \in Int
    BY DEF Active, CauseInv, WelcomeInv, TypeInv, FdInv, FdTypes, Slots
  <2>2. CASE SimBeat \/ SimSend
    <3>1. i = simi
      BY <2>1, <2>2 DEF SimBeat, SimSend, Drop
    <3>2. QED
      BY <2>1, <2>2, <3>1 DEF SimBeat, SimSend, Expired, SendFails
  <2>3. CASE NetRecvFails
    <3>1. i = neti /\ netpc = "serve" /\ slots[i].fd \in rfds /\ RecvFails(Peer(i))
      BY <2>1, <2>3 DEF NetRecvFails, Drop, Selected
    <3>2. Readable(slots[i].fd)
      BY <2>1, <3>1 DEF CauseInv, Reported, Serving, Heard
    <3>3. QED
      BY <3>1, <3>2 DEF Readable, RecvFails, Received, Peer
  <2>4. CASE ~(SimBeat \/ SimSend \/ NetRecvFails)
    <3>1. \A e \in SlotType : [e EXCEPT !.age = @ + 1].state = e.state
      BY DEF SlotType
    <3>2. CASE Second
      BY <2>1, <3>1, <3>2 DEF Second
    <3>3. CASE NetFrame
      BY <2>1, <3>3 DEF NetFrame, SlotType
    <3>4. CASE \E id \in Ids : NetJoin(id)
      <4>1. slots[neti].state = "PENDING" /\ \A j \in Slots \ {neti} : slots'[j] = slots[j]
        BY <2>1, <3>4 DEF NetJoin, Drop
      <4>2. QED
        BY <2>1, <4>1
    <3>5. CASE NetAccept
      BY <2>1, <3>5 DEF NetAccept, EmptySlot
    <3>6. CASE UNCHANGED slots
      BY <2>1, <3>6
    <3>7. QED
      BY <2>4, <3>2, <3>3, <3>4, <3>5, <3>6 DEF Next, SimStep, NetStep, Done, SimCheck,
         SimLock, SimBuild, ShutdownSignal, NetTop, NetSelect, NetWake, NetIdle, NetLock,
         NetSkip, NetExit, server, vars
  <2>5. QED
    BY <2>2, <2>3, <2>4
<1>2. QED
  BY <1>1, CauseInvariance, PTL DEF Spec, DropsHaveCause
=============================================================================
