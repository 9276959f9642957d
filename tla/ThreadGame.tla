----------------------------- MODULE ThreadGame -----------------------------
(***************************************************************************)
(* A game of singleplayer/ver_thread: its threads together, and run_game   *)
(* (src/main.c), which waits for the game loop and then cancels the rest.  *)
(***************************************************************************)
EXTENDS GameLoop, PlayerThread, CrocodileThread, BulletThread

CONSTANT Shots  \* the bullets that OpenSpec shoots: column, row, direction, side

ASSUME ShotsAssumption ==
  Shots \subseteq [x : Int, y : 0..StartRow, dir : {-1, 1}, enemy : BOOLEAN]

(* SIGINT and SIGTERM: cleanup_handler. *)
Signal ==
  /\ "SIGINT" \in Keys
  /\ over' = TRUE
  /\ UNCHANGED <<world, orig, vite, tane, time, paused, queue, lock, pc, locals, turn, m>>

(***************************************************************************)
(* pthread_cancel takes effect where a thread sleeps, or waits in          *)
(* buffer_put for room.  There pthread_cond_wait takes the mutex of the    *)
(* buffer again first, and nobody gives it back: m.stuck.                  *)
(***************************************************************************)
Putting(t) == pc[t] \in {"publish", "announce", "tell", "tellOut", "tellLast"}
Ended(t) == pc[t] \in {"end", "none"}

Cancelled(t) ==
  /\ t = m.target
  /\ \/ pc[t] \in {"read", "loop"} /\ UNCHANGED m
     \/ Putting(t) /\ ~Room /\ ~m.stuck /\ m' = [m EXCEPT !.stuck = TRUE]
  /\ Go(t, "end")
  /\ UNCHANGED <<world, orig, status, queue, lock, locals, turn>>

CancelNext(i) ==
  m' = IF i <= NumCrocs
       THEN [m EXCEPT !.at = "croc", !.i = i, !.target = Croc(i)]
       ELSE [m EXCEPT !.at = "player", !.i = 0, !.target = Player]

JoinGame ==
  /\ m.at = "game"
  /\ At(Game, "end")
  /\ CancelNext(1)
  /\ UNCHANGED <<world, orig, status, queue, lock, pc, locals, turn>>

JoinCroc ==
  /\ m.at = "croc"
  /\ Ended(m.target)
  /\ CancelNext(m.i + 1)
  /\ UNCHANGED <<world, orig, status, queue, lock, pc, locals, turn>>

JoinPlayer ==
  /\ m.at = "player"
  /\ Ended(Player)
  /\ m' = [m EXCEPT !.at = "slot", !.i = 1, !.target = Nobody]
  /\ UNCHANGED <<world, orig, status, queue, lock, pc, locals, turn>>

(* Only the threads of slots that are active are cancelled and joined. *)
CancelBullet ==
  /\ m.at = "slot"
  /\ m.i <= NumSlots
  /\ m' = IF slots[m.i].pos.active
          THEN [m EXCEPT !.at = "bullet", !.target = Bullet(slots[m.i].thread)]
          ELSE [m EXCEPT !.i = @ + 1]
  /\ UNCHANGED <<world, orig, status, queue, lock, pc, locals, turn>>

JoinBullet ==
  /\ m.at = "bullet"
  /\ Ended(m.target)
  /\ m' = [m EXCEPT !.at = "slot", !.i = @ + 1, !.target = Nobody]
  /\ UNCHANGED <<world, orig, status, queue, lock, pc, locals, turn>>

(* destroy_game_state, which needs the mutex of the buffer.  What it       *)
(* destroys is not used again by this thread; CircularBuffer shows what    *)
(* becomes of the buffer.                                                  *)
Destroy ==
  /\ m.at = "slot"
  /\ m.i > NumSlots
  /\ ~m.stuck
  /\ over' = TRUE
  /\ m' = [m EXCEPT !.at = "done", !.i = 0]
  /\ UNCHANGED <<world, orig, vite, tane, time, paused, queue, lock, pc, locals, turn>>

RunGame ==
  \/ JoinGame \/ JoinCroc \/ JoinPlayer \/ CancelBullet \/ JoinBullet
  \/ Destroy

(* The memory of a game that has been destroyed is not used any more: what *)
(* a thread that is left would do with it is not defined.                  *)
Playing ==
  \/ GameStep
  \/ PlayerStep
  \/ \E key \in Keys \ {"SIGINT"} : ReadKey(key)
  \/ \E i \in CrocIds : CrocStep(i)
  \/ \E k \in BulletIds : BulletStep(k)
  \/ \E t \in Producers : Cancelled(t)
  \/ RunGame
  \/ Signal

Finished == m.at = "done" /\ UNCHANGED vars

Next == (m.at # "done" /\ Playing) \/ Finished

Spec == Init /\ [][Next]_vars

(* The scheduler lets every thread go on, and nobody presses keys for ever *)
(* once the game is over: ReadKey needs a game that goes on.               *)
FairSpec ==
  /\ Spec
  /\ WF_vars(GameStep)
  /\ WF_vars(PlayerStep)
  /\ \A i \in CrocIds : WF_vars(CrocStep(i))
  /\ \A k \in BulletIds : WF_vars(BulletStep(k))
  /\ WF_vars(m.at # "done" /\ RunGame)

(***************************************************************************)
(* An instance without crocodiles and without the key that shoots, but     *)
(* with bullets: anybody may shoot, at any time.  This is more than the    *)
(* threads that were left out can do.                                      *)
(***************************************************************************)
Shot ==
  /\ m.at # "done"
  /\ \E s \in Shots : CreateBullet(Cell(s.x, s.y), s.dir, s.enemy, pc)
  /\ UNCHANGED <<frog, on, croc, orig, status, queue, lock, g, p, turn, m>>

OpenSpec == Init /\ [][Next \/ Shot]_vars

(***************************************************************************)
(* Properties                                                              *)
(***************************************************************************)
(* Where things are and who can own a mutex; and a bullet on the screen has *)
(* had a thread, so that the handle run_game joins (main.c 98) is one.      *)
TypeOK ==
  /\ frog.x \in Int /\ frog.y \in 0..StartRow
  /\ on \in 0..NumCrocs
  /\ \A i \in CrocIds : croc[i].x \in 0..Width /\ croc[i].w \in 1..orig[i]
  /\ \A s \in SlotIds :
       /\ slots[s].pos.x \in Int /\ slots[s].pos.y \in 0..StartRow
       /\ slots[s].pos.active => slots[s].thread \in BulletIds
  /\ tane \subseteq Dens
  /\ Len(queue) <= Capacity
  /\ \A mu \in Mutexes : lock[mu] \in Threads \cup {Nobody}

(* A den is taken only by a frog that is in it at that moment, although    *)
(* the test and the taking are two steps and the frog has two drivers      *)
(* (game.c 296-340 keeps player.mutex between them).                       *)
DenTakenByFrog ==
  [][\A i \in tane' \ tane : frog.y = 0 /\ i \in DenAt(frog)]_vars

(* No zombie: an active bullet has a thread that still works on its slot,  *)
(* or the last message about the slot clears it; a late position of a      *)
(* bullet that has ended does not leave it on the screen for ever          *)
(* (projectiles.c 78-88 sends a last message for that).                    *)
Pending == IF At(Game, "MSG_BULLET") THEN g.out \o queue ELSE queue
LastClears(s) ==
  LET about == {n \in DOMAIN Pending :
                  Pending[n].type = "MSG_BULLET" /\ Pending[n].id = s}
  IN \E n \in about : /\ \A o \in about : o <= n
                      /\ ~Pending[n].pos.active
Served(s) == \E k \in BulletIds : ~Ended(Bullet(k)) /\ b[k].slot = s
NoZombieBullet ==
  \A s \in SlotIds :
    (slots[s].pos.active /\ m.at = "game") => Served(s) \/ LastClears(s)

(***************************************************************************)
(* A thread waits for the owner of the mutex its next step takes, or, with *)
(* a message in hand and no room for it, for the game loop, the only one   *)
(* that takes messages.                                                    *)
(***************************************************************************)
Wants(t) ==
  LET l == pc[t] IN
  CASE l \in {"pause", "shootLeft", "shootRight", "quit", "drop", "fire",
              "timer", "resetTime", "boarded", "drown", "takeDen", "noDen",
              "over", "hurt", "crash"} -> GameMutex
    [] l \in {"lockFrog", "shift", "look", "resetFrog", "den", "hit",
              "MSG_PLAYER", "carry"} -> FrogMutex
    [] l \in {"pauseText", "draw", "won"} -> ScreenMutex
    [] l = "scan" -> CrocMutex(g.i)
    [] l = "MSG_CROCODILE" -> CrocMutex(Msg.id)
    [] l = "drawCroc" ->
         LET i == IF t = Game THEN g.i ELSE p.i
         IN IF i <= NumCrocs THEN CrocMutex(i) ELSE FrogMutex
    [] OTHER -> Nobody
AwaitsRoom(t) ==
  /\ ~Room
  /\ Putting(t) \/ pc[t] = "resetPut" \/ (pc[t] = "killPut" /\ g.out # <<>>)
WaitsFor(t) ==
  IF Wants(t) # Nobody THEN lock[Wants(t)]
  ELSE IF AwaitsRoom(t) THEN Game ELSE Nobody
Circle(S) == S # {} /\ \A t \in S : WaitsFor(t) \in S

(* No threads wait for each other in a circle, and none for itself.  The   *)
(* code takes its mutexes in no fixed order and is careful in one place,   *)
(* game.c 339: the player's mutex is released before operations that could *)
(* block.                                                                  *)
NoCircularWait == \A S \in SUBSET Threads : ~Circle(S)

(***************************************************************************)
(* The circles there are: one of the threads in it waits for room in the   *)
(* full buffer (player.c 121, crocodile.c 149), or it goes through the game *)
(* loop in the reset of the timer (game.c 228), or through the player's    *)
(* thread, which keeps game_mutex while it shows the pause or the resumed  *)
(* game (player.c 31).  No other order of the mutexes, of any threads,     *)
(* closes one.                                                             *)
(***************************************************************************)
TimerReset ==
  /\ lock[GameMutex] = Game
  /\ pc[Game] \in {"resetFlags", "resetFrog", "resetPut", "resetTime"}
PauseShown ==
  /\ lock[GameMutex] = Player
  /\ pc[Player] \in {"pauseText", "draw", "drawCroc"}
CirclesHaveCause ==
  \A S \in SUBSET Threads : Circle(S) =>
    \/ \E t \in S : AwaitsRoom(t)
    \/ Game \in S /\ TimerReset
    \/ Player \in S /\ PauseShown

(* Once the game is over, by the user, a signal, a victory or the last     *)
(* life, run_game gets to its end (main.c 85-111): no thread it joins is    *)
(* left waiting for another one or for room in a buffer that nobody empties *)
(* any more.                                                               *)
GameCompletes == over ~> m.at = "done"

(* A thread that goes to sleep between two rounds has given back every     *)
(* mutex, whatever way it took through its round.                          *)
SleepersHoldNothing ==
  \A mu \in Mutexes : ~Free(mu) => pc[lock[mu]] \notin {"top", "read", "loop"}
=============================================================================
