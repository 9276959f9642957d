------------------------------- MODULE Client -------------------------------
(***************************************************************************)
(* The client processes (multiplayer/client/src/main.c): connect, JOIN,    *)
(* wait for WELCOME, then read keys and frames from the server until 'q'   *)
(* or the end of the stream.  A process may also stall for ever (a stopped *)
(* process, a dead link) or be killed, at any point, even inside a frame.  *)
(***************************************************************************)
EXTENDS Sockets

VARIABLES
  cl,    \* cl[c]: where client c is in main
  myid   \* myid[c]: local_player_id

client == <<cl, myid>>

ClientStates == {"idle", "connected", "joining", "playing", "hung"}

ClientInit ==
  /\ cl = [c \in Clients |-> "idle"]
  /\ myid = [c \in Clients |-> NoId]

Room(c) == Len(up[c]) < UpCap

Running(c) == cl[c] \in {"connected", "joining", "playing"}

(* The process ends; the kernel closes its socket. *)
Exit(c) ==
  /\ cl' = [cl EXCEPT ![c] = "idle"]
  /\ myid' = [myid EXCEPT ![c] = NoId]
  /\ CloseClientEnd(c)
  /\ UNCHANGED <<owner, backlog, up>>

(* connect() succeeds as soon as the kernel has queued the connection. *)
Connect(c) ==
  /\ cl[c] = "idle" /\ ~ServerEnd(c)
  /\ Len(backlog) < Backlog
  /\ cl' = [cl EXCEPT ![c] = "connected"]
  /\ cend' = cend \cup {c}
  /\ backlog' = Append(backlog, c)
  /\ up' = [up EXCEPT ![c] = <<>>]
  /\ UNCHANGED <<owner, down, myid>>

SendUp(c, frame) == up' = [up EXCEPT ![c] = Append(up[c], frame)]

SendJoin(c) ==
  /\ cl[c] = "connected" /\ ServerEnd(c) /\ Room(c)
  /\ cl' = [cl EXCEPT ![c] = "joining"]
  /\ SendUp(c, "JOIN")
  /\ UNCHANGED <<owner, backlog, cend, down, myid>>

(* The first frame has to be WELCOME, anything else ends the program. *)
Handshake(c) ==
  /\ cl[c] = "joining" /\ down[c] # <<>>
  /\ \/ /\ Head(down[c]).type = "WELCOME"
        /\ cl' = [cl EXCEPT ![c] = "playing"]
        /\ myid' = [myid EXCEPT ![c] = Head(down[c]).id]
        /\ down' = [down EXCEPT ![c] = Tail(down[c])]
        /\ UNCHANGED <<owner, backlog, cend, up>>
     \/ /\ Head(down[c]).type # "WELCOME"
        /\ Exit(c)

(* A key press: send_frame blocks while the stream has no room. *)
PressKey(c) ==
  /\ cl[c] = "playing" /\ ServerEnd(c) /\ Room(c)
  /\ SendUp(c, "INPUT")
  /\ UNCHANGED <<owner, backlog, cend, down, client>>

(* The loop reads one frame: PING is answered, a snapshot only drawn. *)
ReadFrame(c) ==
  /\ cl[c] = "playing" /\ down[c] # <<>>
  /\ down' = [down EXCEPT ![c] = Tail(down[c])]
  /\ IF Head(down[c]).type = "PING" /\ ServerEnd(c)
     THEN Room(c) /\ SendUp(c, "PONG")
     ELSE UNCHANGED up
  /\ UNCHANGED <<owner, backlog, cend, client>>

(* recv_frame fails: the server's end is closed (a reset may overtake the
   frames still in the stream).  So does a write, by SIGPIPE. *)
EndOfStream(c) ==
  /\ Running(c) /\ ~ServerEnd(c)
  /\ Exit(c)

Quit(c) == cl[c] = "playing" /\ Exit(c)

Killed(c) == cl[c] # "idle" /\ Exit(c)

(* The process stalls, perhaps between the writes of one frame. *)
Hang(c) ==
  /\ Running(c)
  /\ cl' = [cl EXCEPT ![c] = "hung"]
  /\ \/ UNCHANGED up
     \/ cl[c] # "joining" /\ ServerEnd(c) /\ Room(c) /\ SendUp(c, "Partial")
  /\ UNCHANGED <<owner, backlog, cend, down, myid>>

ClientProgress(c) ==
  SendJoin(c) \/ Handshake(c) \/ ReadFrame(c) \/ EndOfStream(c)

ClientStep(c) ==
  ClientProgress(c) \/ PressKey(c) \/ Quit(c) \/ Killed(c) \/ Hang(c)
=============================================================================
