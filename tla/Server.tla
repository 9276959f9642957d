------------------------------- MODULE Server -------------------------------
(***************************************************************************)
(* The multiplayer server (multiplayer/server/src/main.c): a network       *)
(* thread (accept, JOIN/WELCOME, input) and a simulation thread (tick,     *)
(* heartbeat, snapshots) that share the client slots and the game under    *)
(* one mutex.  The network thread waits in select() WITHOUT the mutex.     *)
(* Of the game only the list of players (server/src/game.c) is kept: the   *)
(* world is the subject of another module.                                 *)
(***************************************************************************)
EXTENDS Sockets

CONSTANTS MaxPlayers,      \* MAX_PLAYERS
          HeartbeatEvery,  \* HEARTBEAT_EVERY_TICKS
          Timeout,         \* CLIENT_TIMEOUT_SEC
          ListenFd         \* the listening socket's member of rfds

ASSUME PlacesAssumption ==  \* there are descriptors for all slots
  /\ MaxPlayers \in Nat \ {0}
  /\ Fds \subseteq Nat /\ IsFiniteSet(Fds) /\ Cardinality(Fds) >= MaxPlayers
  /\ ListenFd \notin Fds
ASSUME TimesAssumption == HeartbeatEvery \in Nat \ {0} /\ Timeout \in Nat

VARIABLES
  slots,    \* shared->clients: state, fd, id, and seconds since last_seen
  players,  \* the ids in game.players, in order
  lock,     \* who holds shared->lock
  running,  \* g_running
  netpc, neti, rfds,       \* the network thread, its loop index and fd set
  simpc, simi, tick, snap  \* the simulation thread, its loop index,
                           \* tick_count modulo HeartbeatEvery, the snapshot

server == <<slots, players, lock, running, netpc, neti, rfds, simpc, simi, tick, snap>>
net == <<netpc, neti, rfds>>
sim == <<simpc, simi, tick, snap>>

Slots == 1..MaxPlayers
NoFd == -1
Mut_EmptySlot == [state |-> "EMPTY", fd |-> ListenFd, id |-> NoId, age |-> 0]
EmptySlot == [state |-> "EMPTY", fd |-> NoFd, id |-> NoId, age |-> 0]

ServerInit ==
  /\ slots = [i \in Slots |-> EmptySlot]
  /\ players = <<>>
  /\ lock = "free"
  /\ running = TRUE
  /\ netpc = "top" /\ neti = 1 /\ rfds = {}
  /\ simpc = "check" /\ simi = 1 /\ tick = 0 /\ snap = {}

Free == {i \in Slots : slots[i].state = "EMPTY"}
SlotFds == {slots[i].fd : i \in Slots \ Free}
Peer(i) == owner[slots[i].fd]

-----------------------------------------------------------------------------
(* Shared by the two threads *)

Mut_RemovePlayer(ps, id) == Front(ps)
(* game_remove_player removes the first player with that id. *)
RemovePlayer(ps, id) == RemoveFirst(ps, id)

Mut_Drop(i) ==
  /\ UNCHANGED <<owner, up>>
  /\ slots' = [slots EXCEPT ![i] = EmptySlot]
  /\ players' = IF slots[i].state = "ACTIVE"
                THEN RemovePlayer(players, slots[i].id) ELSE players

(* drop_client_locked, of a slot that is not empty. *)
Drop(i) ==
  /\ owner' = [owner EXCEPT ![slots[i].fd] = NoClient]
  /\ up' = [up EXCEPT ![Peer(i)] = <<>>]
  /\ slots' = [slots EXCEPT ![i] = EmptySlot]
  /\ players' = IF slots[i].state = "ACTIVE"
                THEN RemovePlayer(players, slots[i].id) ELSE players

(* SIGINT or SIGTERM. *)
ShutdownSignal ==
  /\ running
  /\ running' = FALSE
  /\ UNCHANGED <<sockets, slots, players, lock, net, sim>>

(* The clock.  A tick reads it once, under the lock, so a second that passes
   during a tick counts from the next one.  Ages stop one past Timeout, and
   only those of ACTIVE slots are ever read. *)
Second ==
  /\ lock # "sim" /\ netpc # "done"
  /\ slots' = [i \in Slots |->
       IF slots[i].state = "ACTIVE" /\ slots[i].age <= Timeout
       THEN [slots[i] EXCEPT !.age = @ + 1] ELSE slots[i]]
  /\ slots' # slots
  /\ UNCHANGED <<sockets, players, lock, running, net, sim>>

-----------------------------------------------------------------------------
(* The simulation thread *)

SimCheck ==
  /\ simpc = "check"
  /\ simpc' = IF running THEN "want" ELSE "exited"
  /\ UNCHANGED <<sockets, slots, players, lock, running, net, simi, tick, snap>>

SimLock ==
  /\ simpc = "want" /\ lock = "free"
  /\ lock' = "sim"
  /\ simpc' = "beat" /\ simi' = 1
  /\ UNCHANGED <<sockets, slots, players, running, net, tick, snap>>

NextSim(from, to) ==
  IF simi < MaxPlayers THEN simpc' = from /\ simi' = simi + 1
  ELSE simpc' = to /\ simi' = 1

Mut_Expired(i) == slots[i].age >= Timeout
Expired(i) == slots[i].age > Timeout

(* The heartbeat loop, one slot a step. *)
SimBeat ==
  LET i == simi
      ping == slots[i].state = "ACTIVE" /\ ~Expired(i) /\ tick = 0
  IN
  /\ simpc = "beat"
  /\ \/ /\ slots[i].state # "ACTIVE" \/ (~Expired(i) /\ ~ping)
        /\ UNCHANGED <<owner, up, down, slots, players>>
     \/ /\ ping /\ SendWorks(Peer(i))
        /\ down' = Sent(Peer(i), [type |-> "PING"])
        /\ UNCHANGED <<owner, up, slots, players>>
     \/ /\ slots[i].state = "ACTIVE"
        /\ Expired(i) \/ (ping /\ SendFails(Peer(i)))
        /\ Drop(i)
        /\ UNCHANGED down
  /\ NextSim("beat", "build")
  /\ UNCHANGED <<backlog, cend, lock, running, net, tick, snap>>

Mut_SimBuild ==
  /\ simpc = "build"
  /\ snap' = {players[k] : k \in 1..Len(players) - 1}
  /\ simpc' = "send"
  /\ UNCHANGED <<sockets, slots, players, lock, running, net, simi, tick>>

SimBuild ==
  /\ simpc = "build"
  /\ snap' = Range(players)
  /\ simpc' = "send"
  /\ UNCHANGED <<sockets, slots, players, lock, running, net, simi, tick>>

Mut_SimSend ==
  LET i == simi IN
  /\ simpc = "send"
  /\ \/ /\ slots[i].state = "EMPTY"
        /\ UNCHANGED <<owner, up, down, slots, players>>
     \/ /\ slots[i].state # "EMPTY" /\ SendWorks(Peer(i))
        /\ down' = Sent(Peer(i), [type |-> "SNAPSHOT", ids |-> snap])
        /\ UNCHANGED <<owner, up, slots, players>>
     \/ /\ slots[i].state # "EMPTY" /\ SendFails(Peer(i))
        /\ Drop(i)
        /\ UNCHANGED down
  /\ NextSim("send", "check")
  /\ IF simi < MaxPlayers
     THEN UNCHANGED <<lock, tick, snap>>
     ELSE lock' = "free" /\ tick' = (tick + 1) % HeartbeatEvery /\ snap' = {}
  /\ UNCHANGED <<backlog, cend, running, net>>

(* The snapshot loop; after the last slot the thread unlocks and sleeps. *)
SimSend ==
  LET i == simi IN
  /\ simpc = "send"
  /\ \/ /\ slots[i].state # "ACTIVE"
        /\ UNCHANGED <<owner, up, down, slots, players>>
     \/ /\ slots[i].state = "ACTIVE" /\ SendWorks(Peer(i))
        /\ down' = Sent(Peer(i), [type |-> "SNAPSHOT", ids |-> snap])
        /\ UNCHANGED <<owner, up, slots, players>>
     \/ /\ slots[i].state = "ACTIVE" /\ SendFails(Peer(i))
        /\ Drop(i)
        /\ UNCHANGED down
  /\ NextSim("send", "check")
  /\ IF simi < MaxPlayers
     THEN UNCHANGED <<lock, tick, snap>>
     ELSE lock' = "free" /\ tick' = (tick + 1) % HeartbeatEvery /\ snap' = {}
  /\ UNCHANGED <<backlog, cend, running, net>>

SimStep == SimCheck \/ SimLock \/ SimBeat \/ SimBuild \/ SimSend

-----------------------------------------------------------------------------
(* The network thread *)

Mut_NetTop ==
  /\ netpc = "top" /\ lock = "free"
  /\ netpc' = "select" /\ rfds' = SlotFds \cup {ListenFd}
  /\ UNCHANGED <<sockets, slots, players, lock, running, neti, sim>>

(* Under the lock: leave, or collect the descriptors to wait for. *)
NetTop ==
  /\ netpc = "top" /\ lock = "free"
  /\ IF running
     THEN netpc' = "select" /\ rfds' = SlotFds \cup {ListenFd}
     ELSE netpc' = "join" /\ rfds' = {}
  /\ UNCHANGED <<sockets, slots, players, lock, running, neti, sim>>

(* select() fails with EBADF when the simulation thread has closed one of
   them meanwhile, and any error but EINTR leaves the loop. *)
NetSelect ==
  /\ netpc = "select"
  /\ IF rfds \ {ListenFd} \subseteq OpenFds
     THEN netpc' = "blocked" /\ UNCHANGED rfds
     ELSE netpc' = "join" /\ rfds' = {}
  /\ UNCHANGED <<sockets, slots, players, lock, running, neti, sim>>

Ready(f) == IF f = ListenFd THEN backlog # <<>> ELSE Readable(f)

(* select() returns: every open descriptor that is ready, and perhaps one
   that was closed while it waited. *)
NetWake ==
  /\ netpc = "blocked"
  /\ \E gone \in SUBSET (rfds \ (OpenFds \cup {ListenFd})) :
       rfds' = {f \in rfds \ gone : f \in OpenFds \cup {ListenFd} => Ready(f)}
  /\ rfds' # {}
  /\ netpc' = "want"
  /\ UNCHANGED <<sockets, slots, players, lock, running, neti, sim>>

(* It times out, or a signal interrupts it. *)
NetIdle ==
  /\ netpc = "blocked"
  /\ (\A f \in rfds \cap (OpenFds \cup {ListenFd}) : ~Ready(f)) \/ ~running
  /\ netpc' = "top" /\ rfds' = {}
  /\ UNCHANGED <<sockets, slots, players, lock, running, neti, sim>>

NetLock ==
  /\ netpc = "want" /\ lock = "free"
  /\ lock' = "net"
  /\ netpc' = "accept"
  /\ UNCHANGED <<sockets, slots, players, running, neti, rfds, sim>>

(* accept(), into the first empty slot; with none the connection is closed. *)
NetAccept ==
  /\ netpc = "accept"
  /\ \/ ListenFd \notin rfds /\ UNCHANGED <<owner, backlog, up, slots>>
     \/ /\ ListenFd \in rfds /\ backlog # <<>>
        /\ backlog' = Tail(backlog)
        /\ IF Free = {}
           THEN up' = [up EXCEPT ![Head(backlog)] = <<>>] /\ UNCHANGED <<owner, slots>>
           ELSE /\ owner' = [owner EXCEPT ![LowestFree] = Head(backlog)]
                /\ slots' = [slots EXCEPT ![Min(Free)] =
                     [EmptySlot EXCEPT !.state = "PENDING", !.fd = LowestFree]]
                /\ UNCHANGED up
  /\ netpc' = "serve"
  /\ UNCHANGED <<cend, down, players, lock, running, neti, rfds, sim>>

(* On to the next slot; after the last one the thread unlocks. *)
NextServe ==
  IF neti < MaxPlayers
  THEN neti' = neti + 1 /\ UNCHANGED <<netpc, rfds, lock>>
  ELSE neti' = 1 /\ netpc' = "top" /\ rfds' = {} /\ lock' = "free"

Selected(i) == slots[i].state # "EMPTY" /\ slots[i].fd \in rfds

NetSkip ==
  /\ netpc = "serve" /\ ~Selected(neti)
  /\ NextServe
  /\ UNCHANGED <<sockets, slots, players, running, sim>>

Received(c, frame) == up[c] # <<>> /\ Head(up[c]) = frame

Mut_RecvFails(c) == c \notin cend /\ up[c] = <<>>
(* recv_frame fails: the stream has ended or was reset, or the rest of a
   frame, or all of one that select() never reported for this connection,
   does not come within SO_RCVTIMEO. *)
RecvFails(c) == c \notin cend \/ up[c] = <<>> \/ Received(c, "Partial")

NetRecvFails ==
  LET i == neti IN
  /\ netpc = "serve" /\ Selected(i)
  /\ RecvFails(Peer(i))
  /\ Drop(i)
  /\ NextServe
  /\ UNCHANGED <<backlog, cend, down, running, sim>>

Consume(c) == up' = [up EXCEPT ![c] = Tail(up[c])]

(* A frame that changes no slot: input and PONG of a player (the world is
   not modelled here), and all but JOIN of a pending connection. *)
NetFrame ==
  LET i == neti
      c == Peer(i)
  IN
  /\ netpc = "serve" /\ Selected(i)
  /\ \E frame \in {"JOIN", "INPUT", "PONG"} :
       /\ Received(c, frame)
       /\ frame # "JOIN" \/ slots[i].state = "ACTIVE"
  /\ Consume(c)
  /\ slots' = [slots EXCEPT ![i].age = 0]
  /\ NextServe
  /\ UNCHANGED <<owner, backlog, cend, down, players, running, sim>>

(* JOIN of a pending connection.  rand() may repeat an id. *)
NetJoin(id) ==
  LET i == neti
      c == Peer(i)
  IN
  /\ netpc = "serve" /\ Selected(i)
  /\ slots[i].state = "PENDING" /\ Received(c, "JOIN")
  /\ \/ /\ Len(players) >= MaxPlayers
        /\ Drop(i)
        /\ UNCHANGED down
     \/ /\ Len(players) < MaxPlayers /\ SendWorks(c)
        /\ players' = Append(players, id)
        /\ slots' = [slots EXCEPT ![i] =
             [slots[i] EXCEPT !.state = "ACTIVE", !.id = id, !.age = 0]]
        /\ down' = Sent(c, [type |-> "WELCOME", id |-> id])
        /\ Consume(c)
        /\ UNCHANGED owner
     \/ /\ Len(players) < MaxPlayers /\ SendFails(c)
        /\ slots' = [slots EXCEPT ![i] = EmptySlot]
        /\ players' = RemovePlayer(Append(players, id), id)
        /\ owner' = [owner EXCEPT ![slots[i].fd] = NoClient]
        /\ up' = [up EXCEPT ![c] = <<>>]
        /\ UNCHANGED down
  /\ NextServe
  /\ UNCHANGED <<backlog, cend, running, sim>>

(* main after the loop: join the simulation thread, close everything. *)
NetExit ==
  /\ netpc = "join" /\ simpc = "exited" /\ lock = "free"
  /\ netpc' = "done"
  /\ owner' = [f \in Fds |-> IF f \in SlotFds THEN NoClient ELSE owner[f]]
  /\ backlog' = <<>>
  /\ up' = [c \in Clients |-> <<>>]
  /\ UNCHANGED <<cend, down, slots, players, lock, running, neti, rfds, sim>>

NetStep ==
  \/ NetTop \/ NetSelect \/ NetWake \/ NetIdle \/ NetLock \/ NetAccept
  \/ NetSkip \/ NetRecvFails \/ NetFrame \/ (\E id \in Ids : NetJoin(id))
  \/ NetExit
=============================================================================
