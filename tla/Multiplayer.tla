---------------------------- MODULE Multiplayer -----------------------------
(***************************************************************************)
(* The multiplayer game: the server's two threads, the client processes    *)
(* and the connections between them.                                       *)
(***************************************************************************)
EXTENDS Client, Server

vars == <<sockets, client, server>>

Init == ConnectionsInit /\ ClientInit /\ ServerInit

Listening == netpc # "done"

Done ==
  /\ netpc = "done" /\ \A c \in Clients : cl[c] = "idle"
  /\ UNCHANGED vars

Next ==
  \/ /\ SimStep \/ NetStep \/ Second \/ ShutdownSignal
     /\ UNCHANGED client
  \/ /\ \E c \in Clients : Connect(c) /\ Listening
     /\ UNCHANGED server
  \/ /\ \E c \in Clients : ClientStep(c)
     /\ UNCHANGED server
  \/ Done

Spec == Init /\ [][Next]_vars

(* Both threads win the mutex in the end (each releases it before it sleeps
   or selects), the clock goes on whoever holds it, and a client that is not
   stalled reads its stream.  Nobody has to connect, press a key, quit, stall
   or be killed, and no signal has to come. *)
Fairness ==
  /\ SF_vars(NetStep /\ UNCHANGED client)
  /\ SF_vars(SimStep /\ UNCHANGED client)
  /\ SF_vars(Second /\ UNCHANGED client)
  /\ \A c \in Clients : WF_vars(ClientProgress(c) /\ UNCHANGED server)

FairSpec == Spec /\ Fairness

-----------------------------------------------------------------------------
(* Properties *)

DownFrames ==
  [type : {"PING"}] \cup [type : {"WELCOME"}, id : Ids]
    \cup [type : {"SNAPSHOT"}, ids : SUBSET Ids]

TypeOK ==
  /\ owner \in [Fds -> Clients \cup {NoClient}]
  /\ backlog \in Seq(Clients) /\ Len(backlog) <= Backlog
  /\ cend \subseteq Clients
  /\ \A c \in Clients : up[c] \in Seq(UpFrames) /\ Len(up[c]) <= UpCap
  /\ \A c \in Clients : down[c] \in Seq(DownFrames) /\ Len(down[c]) <= DownCap
  /\ cl \in [Clients -> ClientStates]
  /\ myid \in [Clients -> Ids \cup {NoId}]
  /\ slots \in [Slots -> [state : {"EMPTY", "PENDING", "ACTIVE"},
                          fd : Fds \cup {NoFd}, id : Ids \cup {NoId},
                          age : 0..Timeout + 1]]
  /\ players \in Seq(Ids) /\ Len(players) <= MaxPlayers
  /\ lock \in {"free", "net", "sim"}
  /\ running \in BOOLEAN
  /\ netpc \in {"top", "select", "blocked", "want", "accept", "serve", "join", "done"}
  /\ neti \in Slots /\ rfds \subseteq Fds \cup {ListenFd}
  /\ simpc \in {"check", "want", "beat", "build", "send", "exited"}
  /\ simi \in Slots /\ tick \in 0..HeartbeatEvery - 1 /\ snap \subseteq Ids

Active == {i \in Slots : slots[i].state = "ACTIVE"}
Pending == {i \in Slots : slots[i].state = "PENDING"}
HasSlot(c, S) == \E i \in S : slots[i].fd \in OpenFds /\ Peer(i) = c

(* The two registries of main.c (slots) and game.c (players) agree, through
   joins, leaves, timeouts and failed sends of both threads, even when rand()
   repeats an id: as many players have an id as ACTIVE slots have it. *)
Registry ==
  \A id \in Ids :
    Cardinality({k \in DOMAIN players : players[k] = id})
      = Cardinality({i \in Active : slots[i].id = id})

(* Every open descriptor belongs to exactly one slot and every slot in use
   has an open descriptor, although both threads close descriptors and the
   kernel reuses their numbers; the server leaves none open. *)
FdOwnership ==
  /\ netpc # "done" =>
       /\ \A i \in Slots \ Free : slots[i].fd \in OpenFds
       /\ \A f \in OpenFds : \E i \in Slots \ Free : slots[i].fd = f
       /\ \A i, j \in Slots \ Free : slots[i].fd = slots[j].fd => i = j
  /\ netpc = "done" => OpenFds = {} /\ simpc = "exited"

Welcomes(c) == {k \in DOMAIN down[c] : down[c][k].type = "WELCOME"}

(* Until it has been welcomed a client is sent nothing else, and then never
   welcomed again: WELCOME goes out under the lock that made the slot ACTIVE,
   before any PING or SNAPSHOT of the other thread.  The client gives up
   (main.c of the client, line 49) when its first frame is another one. *)
WelcomeFirst ==
  \A c \in cend :
    Welcomes(c) = IF myid[c] = NoId /\ down[c] # <<>> THEN {1} ELSE {}

IdGiven(c) == IF myid[c] # NoId THEN myid[c] ELSE down[c][1].id

(* The id a client was given is the id of the slot that serves it, and every
   snapshot sent to it contains its own player: descriptor numbers, slots and
   players move independently, and the client looks itself up by that id. *)
OwnSession ==
  \A c \in cend :
    /\ \A i \in Active : Peer(i) = c /\ netpc # "done" => slots[i].id = IdGiven(c)
    /\ \A k \in DOMAIN down[c] :
         down[c][k].type = "SNAPSHOT" => IdGiven(c) \in down[c][k].ids

(* A player is thrown out for a cause only: it was silent for longer than
   CLIENT_TIMEOUT_SEC, its end is closed, its stream is full, or it left a
   frame unfinished.  The fd set that select() filled is used after the lock
   was released and taken again, when a descriptor may be another
   connection's: that can only hit a connection that is still pending. *)
DropsHaveCause ==
  [][\A i \in Active :
       slots'[i].state = "EMPTY" =>
         LET c == Peer(i) IN
         \/ slots[i].age > Timeout
         \/ c \notin cend
         \/ Len(down[c]) = DownCap
         \/ up[c] # <<>> /\ Head(up[c]) = "Partial"]_vars

(* After SIGINT or SIGTERM the server ends, whatever the clients do. *)
ShutdownCompletes == ~running ~> netpc = "done"

(* A player whose process stalls is disconnected (main.c lines 92-95). *)
StalledPlayerDropped ==
  \A c \in Clients :
    cl[c] = "hung" /\ HasSlot(c, Active) ~> ~HasSlot(c, Active)

(* A client that has sent JOIN is welcomed or disconnected, as long as the
   network thread runs. *)
JoinAnswered ==
  \A c \in Clients : cl[c] = "joining" ~> cl[c] # "joining" \/ netpc = "join"

(* main.c lines 92-95 and 142-146: the network thread serves the clients
   until a shutdown is requested; a client that misbehaves does not stop it. *)
NetworkThreadServes == netpc \in {"join", "done"} => ~running
=============================================================================
