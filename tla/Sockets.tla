------------------------------ MODULE Sockets -------------------------------
(***************************************************************************)
(* The TCP connections between the multiplayer clients and the server, as  *)
(* multiplayer/server/src/main.c, client/src/main.c and                    *)
(* shared/src/protocol.c use them.  A client process has at most one       *)
(* connection.  A stream carries whole frames: send_frame and recv_frame   *)
(* loop until a frame is complete, and one left unfinished is Partial.     *)
(***************************************************************************)
EXTENDS Integers, Sequences, FiniteSets, SequencesExt, FiniteSetsExt

CONSTANTS Clients,    \* the client processes
          Fds,        \* the numbers the server's descriptors can have
          Backlog,    \* bound: connections waiting to be accepted
          UpCap,      \* bound: frames a stream to the server holds
          DownCap,    \* bound: frames a stream to a client holds
          NoClient,   \* owner of a descriptor that is not open
          Ids,        \* the player ids in the frames: what rand() returns
          NoId        \* no player id

ASSUME NamesAssumption == NoClient \notin Clients /\ NoId \notin Ids
ASSUME CapsAssumption == {Backlog, UpCap, DownCap} \subseteq Nat

VARIABLES
  owner,    \* owner[fd]: the client at the other end of the server's fd
  backlog,  \* connections established and not accepted yet, oldest first
  cend,     \* the clients whose own end is open
  up,       \* up[c]: frames on their way from c to the server
  down      \* down[c]: frames on their way from the server to c

sockets == <<owner, backlog, cend, up, down>>

(* Frames from a client, and the rest of a frame that never comes. *)
UpFrames == {"JOIN", "INPUT", "PONG", "Partial"}

ConnectionsInit ==
  /\ owner = [f \in Fds |-> NoClient]
  /\ backlog = <<>>
  /\ cend = {}
  /\ up = [c \in Clients |-> <<>>]
  /\ down = [c \in Clients |-> <<>>]

OpenFds == {f \in Fds : owner[f] # NoClient}

(* The server holds an end of c's connection, accepted or not. *)
ServerEnd(c) == c \in Range(backlog) \/ \E f \in Fds : owner[f] = c

(* close() frees a number and accept() takes the lowest free one, so that a
   new connection often gets the number of the last one dropped. *)
LowestFree == Min(Fds \ OpenFds)

(* recv on fd would not block: a byte or the end of the stream is there. *)
Readable(f) == owner[f] # NoClient /\ (up[owner[f]] # <<>> \/ owner[f] \notin cend)

(* write() to c fails or times out (SO_SNDTIMEO); to a closed peer it may
   also succeed and the frame is lost. *)
Mut_SendFails(c) == c \notin cend
SendFails(c) == c \notin cend \/ Len(down[c]) = DownCap
SendWorks(c) == c \notin cend \/ Len(down[c]) < DownCap
Sent(c, frame) ==
  IF c \in cend THEN [down EXCEPT ![c] = Append(down[c], frame)] ELSE down

(* The client's end closes: what it had not read is gone. *)
CloseClientEnd(c) ==
  /\ cend' = cend \ {c}
  /\ down' = [down EXCEPT ![c] = <<>>]
=============================================================================
