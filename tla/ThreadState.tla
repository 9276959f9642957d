---------------------------- MODULE ThreadState -----------------------------
(***************************************************************************)
(* The state the threads of singleplayer/ver_thread share (game_state,     *)
(* include/game.h) and what they all use: mutexes, the event buffer as the *)
(* bounded queue that CircularBuffer implements, and the drawing of a      *)
(* frame.  The mutex of a bullet slot protects sections in which nothing   *)
(* else is locked: such a section is one step and needs no owner.  Rows    *)
(* are counted in units of LANE_HEIGHT: 0 has the dens, 2..Lanes+1 are     *)
(* water, Lanes+3 is the start.  Scores are left out.                      *)
(***************************************************************************)
EXTENDS Integers, Sequences, FiniteSets

CONSTANTS Width,                \* GAME_WIDTH
          FrogW, HStep,         \* width of the frog, cells of a step aside
          Lanes,                \* LANES
          NumCrocs, Lane,       \* MAX_CROCODILES, (i/2) % LANES for each
          CrocWidths,           \* the widths rand() chooses from
          NumDens, DenW,        \* NUM_TANE, TANA_WIDTH
          NumSlots,             \* MAX_BULLETS
          Capacity,             \* BUFFER_SIZE
          Lives, MaxTime,       \* vite and max_time at the start
          Clock,                \* bound: FALSE for games too short for a second
                                \* to pass
          Keys,                 \* the keys the user may press
          NumBulletThreads,     \* bound: bullets in a game; for one more,
                                \* malloc fails (projectiles.c:100)
          Burst                 \* bound: iterations of a producer in a frame

VARIABLES
  frog,      \* state->player: column and row
  on,        \* player_on_crocodile and player_crocodile_id, 0 for neither
  croc,      \* state->crocodiles: column and width
  orig,      \* original_width of a crocodile thread
  slots,     \* state->bullets
  vite, tane, time, paused, over,  \* lives, dens taken, seconds, flags
  queue,     \* the messages in event_buffer
  lock,      \* the owner of each mutex
  pc,        \* where each thread is
  g,         \* local variables of game_thread
  p,         \* local variables of player_thread
  b,         \* the slot of a bullet thread and its message
  turn,      \* iterations a producer may still make in this frame
  m          \* what run_game is about to cancel or join

world == <<frog, on, croc, slots>>
status == <<vite, tane, time, paused, over>>
locals == <<g, p, b>>
vars == <<world, orig, status, queue, lock, pc, locals, turn, m>>

CrocIds == 1..NumCrocs
SlotIds == 1..NumSlots
Dens == 1..NumDens
BulletIds == 1..NumBulletThreads

Game == <<"game", 0>>
Player == <<"player", 0>>
Croc(i) == <<"croc", i>>
Bullet(k) == <<"bullet", k>>
Producers == {Player} \cup {Croc(i) : i \in CrocIds}
                      \cup {Bullet(k) : k \in BulletIds}
Threads == {Game} \cup Producers
Nobody == <<"nobody", 0>>

GameMutex == <<"game_mutex", 0>>
ScreenMutex == <<"screen_mutex", 0>>
FrogMutex == <<"player.mutex", 0>>
CrocMutex(i) == <<"crocodile.mutex", i>>
Mutexes == {GameMutex, ScreenMutex, FrogMutex}
             \cup {CrocMutex(i) : i \in CrocIds}

At(t, l) == pc[t] = l
Go(t, l) == pc' = [pc EXCEPT ![t] = l]
Free(mu) == lock[mu] = Nobody
Lock(mu, t) == Free(mu) /\ lock' = [lock EXCEPT ![mu] = t]
Unlock(mu) == lock' = [lock EXCEPT ![mu] = Nobody]
Room == Len(queue) < Capacity
Put(msg) == Room /\ queue' = Append(queue, msg)

StartRow == Lanes + 3
Start == [x |-> Width \div 2, y |-> StartRow]
InWater(f) == f.y \in 2..(Lanes + 1)
Dir(i) == IF Lane[i] % 2 = 0 THEN 1 ELSE -1
CrocRow(i) == 2 + Lane[i]
OnCroc(f, c, i) ==
  f.y = CrocRow(i) /\ f.x >= c.x /\ f.x + FrogW <= c.x + c.w

Centre(f) == f.x + FrogW \div 2
DenX(i) ==
  LET space == (Width - 2 - NumDens * DenW) \div (NumDens + 1)
  IN 1 + space + (i - 1) * (DenW + space)
DenAt(f) == {i \in Dens : Centre(f) \in DenX(i)..(DenX(i) + DenW - 1)}

(* The sizes of the screen and of the things on it, and how many there are. *)
ASSUME ScreenAssumption ==
  Width \in Nat /\ Width > 1 /\ {FrogW, HStep, Lanes} \subseteq Nat
ASSUME CountAssumption ==
  {NumCrocs, NumDens, NumSlots, NumBulletThreads, Capacity} \subseteq Nat
ASSUME CrocAssumption ==
  Lane \in [CrocIds -> 0..(Lanes - 1)] /\ CrocWidths \subseteq Nat \ {0}

FrogMsg(f) == [type |-> "MSG_PLAYER", id |-> 0, pos |-> f]
CrocMsg(i, c) == [type |-> "MSG_CROCODILE", id |-> i, pos |-> c]
BulletMsg(s, q) == [type |-> "MSG_BULLET", id |-> s, pos |-> q]

Cell(x, y) == [x |-> x, y |-> y, active |-> FALSE, collision |-> FALSE]
NoBullet == Cell(0, 0)

(* init_game_state. *)
Init ==
  /\ frog = Start
  /\ on = 0
  /\ orig \in [CrocIds -> CrocWidths]
  /\ croc \in [CrocIds -> [x : 0..Width, w : CrocWidths]]
  /\ \A i \in CrocIds :
       /\ croc[i].w = orig[i]
       /\ croc[i].x \in IF i % 2 = 1 THEN 0..(Width \div 4 - 1)
                        ELSE Width \div 2..(Width \div 2 + Width \div 4 - 1)
  /\ slots = [s \in SlotIds |->
                [pos |-> NoBullet, dir |-> 1, enemy |-> FALSE, thread |-> 0]]
  /\ vite = Lives /\ tane = {} /\ time = MaxTime
  /\ paused = FALSE /\ over = FALSE
  /\ queue = <<>>
  /\ lock = [mu \in Mutexes |-> Nobody]
  /\ pc = [t \in Threads |-> CASE t = Game -> "top"
                               [] t = Player -> "read"
                               [] t[1] = "croc" -> "loop"
                               [] OTHER -> "none"]
  /\ g = [copy |-> Start, i |-> 0, j |-> 0, den |-> {}, ret |-> "", bul |-> NoBullet,
          out |-> <<>>]
  /\ p = [key |-> "", wasOn |-> FALSE, i |-> 0]
  /\ b = [k \in BulletIds |-> [slot |-> 0, out |-> NoBullet]]
  /\ turn = [t \in Producers |-> Burst]
  /\ m = [at |-> "game", i |-> 0, target |-> Nobody, stuck |-> FALSE]

(***************************************************************************)
(* create_bullet at the cell of q.  Whatever it does it does under         *)
(* game_mutex, which it gives back; next is where the threads are when the *)
(* caller has gone on.  Without an idle thread malloc fails, before the    *)
(* slot is touched; a pthread_create that fails, after it, is left out, as *)
(* is what others do to the slots between the search and the filling.      *)
(***************************************************************************)
FreeSlots == {s \in SlotIds : ~slots[s].pos.active}
IdleThreads == {k \in BulletIds : At(Bullet(k), "none")}
First(S) == CHOOSE n \in S : \A o \in S : n <= o


CreateBullet(q, dir, enemy, next) ==
  /\ Free(GameMutex)
  /\ IF FreeSlots = {} \/ IdleThreads = {}
     THEN pc' = next /\ UNCHANGED <<slots, b>>
     ELSE LET s == First(FreeSlots)
              k == First(IdleThreads)
          IN /\ slots' = [slots EXCEPT ![s] =
                   [pos |-> [q EXCEPT !.active = TRUE], dir |-> dir,
                    enemy |-> enemy, thread |-> k]]
             /\ b' = [b EXCEPT ![k].slot = s]
             /\ pc' = [next EXCEPT ![Bullet(k)] = "loop"]

(***************************************************************************)
(* draw_game_state by thread t: the screen is locked throughout, the       *)
(* objects one after the other.  i is the crocodile being drawn, NextDrawn *)
(* the one after it, Done what t does when the screen is free again.       *)
(***************************************************************************)
NextDrawn(t, i) ==
  IF At(t, "draw") THEN 1 ELSE IF i <= NumCrocs THEN i + 1 ELSE 0

Draw(t, i, Done) ==
  \/ /\ At(t, "draw")
     /\ Lock(ScreenMutex, t)
     /\ Go(t, "drawCroc")
  \/ /\ At(t, "drawCroc")
     /\ i <= NumCrocs
     /\ Free(CrocMutex(i))
     /\ UNCHANGED <<pc, lock>>
  \/ /\ At(t, "drawCroc")
     /\ i > NumCrocs
     /\ Free(FrogMutex)
     /\ Done
=============================================================================
