---------------------------- MODULE ProcessState ----------------------------
(***************************************************************************)
(* The single-player game made of processes (singleplayer/ver_processi):   *)
(* what the processes have in common.  The main process runs the game and  *)
(* forks a frog and the crocodiles; those fork the bullets.  All of them   *)
(* write their positions into one pipe that the game reads; the game sends *)
(* positions back to the frog, and the frog the pause commands, by two     *)
(* more.  Rows are counted in units of LANE_HEIGHT: 0 has the dens,        *)
(* 2..Lanes+1 are water, Lanes+3 is the start.  Scores are left out.       *)
(***************************************************************************)
EXTENDS Integers, Sequences, FiniteSets

CONSTANTS Width,                \* GAME_WIDTH
          FrogW, HStep,         \* width of the frog, cells of a step aside
          FirstW,               \* the width game() starts the frog with
          Lanes,                \* LANES
          NumCrocs, Lane,       \* num_coccodrilli, (id/2) % LANES for each
          CrocWidths,           \* the widths rand() chooses from
          NumDens, DenW,        \* NUM_TANE, TANA_WIDTH
          NumSlots,             \* MAX_BULLETS
          PipeCap,              \* messages the pipe of positions holds
          EchoCap,              \* positions the pipe to the frog holds
          Drift,                \* bound: cells beyond a border that the frog
                                \* may believe it is; more is the same
          Lives, MaxTime,       \* vite and max_time at the start
          Clock,                \* bound: FALSE for games too short for a
                                \* second to pass
          Keys,                 \* the keys the user may press
          PauseCap,             \* bound: pause commands that wait
          NumBullets            \* bound: bullets forked in a game; for one
                                \* more, fork() fails

CrocIds == 1..NumCrocs

ASSUME ScreenAssumption ==  \* room for the frog and for its two widths
  /\ Width \in Nat /\ Width >= 4
  /\ {FrogW, FirstW} \subseteq 1..Width - 2
  /\ HStep \in 0..FrogW + 1 + Drift /\ Drift \in Nat
ASSUME CrocAssumption ==
  /\ NumCrocs \in Nat /\ Lanes \in Nat
  /\ Lane \in [CrocIds -> 0..Lanes - 1]
  /\ CrocWidths \subseteq Nat \ {0}
ASSUME BoundsAssumption ==
  /\ {PipeCap, EchoCap, NumSlots, NumBullets, NumDens, MaxTime} \subseteq Nat
  /\ Lives \in Nat \ {0}

VARIABLES
  pipe,     \* pipefd: the positions not read yet
  echo,     \* pipeToFrog
  presses,  \* pausePipe: the number of commands in it
  frog,     \* position of the process rana: column and row
  croc,     \* position of each process coccodrillo: column and width
  orig,     \* its original_width
  bullet,   \* position and direction of each process bullet, and whether
            \* the game it was shot in is over
  at,       \* where each process is in its code
  stopped,  \* the processes that SIGSTOP has stopped
  term,     \* the processes with a SIGTERM pending
  g,        \* local variables of game()
  main      \* where main and game() are, their loop index, the answer of
            \* the user, and whether the music keeps the pipe

pipes == <<pipe, echo, presses>>
children == <<frog, croc, orig, bullet>>
signals == <<stopped, term>>
vars == <<pipes, children, at, signals, g, main>>

BulletIds == 1..NumBullets
SlotIds == 1..NumSlots
Dens == 1..NumDens

Game == <<"game", 0>>
Frog == <<"frog", 0>>
Croc(i) == <<"croc", i>>
Bullet(k) == <<"bullet", k>>
Family == {Frog} \cup {Croc(i) : i \in CrocIds}  \* the children main waits for
Bullets == {Bullet(k) : k \in BulletIds}
Processes == Family \cup Bullets

Alive(t) == at[t] \notin {"none", "dead"}
Runs(t) == Alive(t) /\ t \notin stopped
At(t, l) == at[t] = l /\ t \notin stopped
Go(t, l) == at' = [at EXCEPT ![t] = l]
GameAt(l) == main.at = l /\ Game \notin stopped

(* write() waits for room.  When the game process has ended nobody has the *)
(* reading end any more and SIGPIPE ends the writer; but the player of the *)
(* music, forked by the first game() and never stopped, keeps that of the  *)
(* first game's pipe.                                                      *)
Broken == main.at = "done" /\ ~main.kept
Room == Len(pipe) < PipeCap
Write(msg) == ~Broken /\ Room /\ pipe' = Append(pipe, msg)

StartRow == Lanes + 3
Start == [x |-> Width \div 2, y |-> StartRow]
Dir(i) == IF Lane[i] % 2 = 0 THEN 1 ELSE -1
CrocRow(i) == 2 + Lane[i]

NoCroc == [x |-> 0, w |-> 0]  \* no process, or nothing heard of it yet
NoShot == [c |-> "", x |-> 0, y |-> 0, dir |-> 1, old |-> FALSE]

(* Process t has ended, and its memory with it.                            *)
Gone(t) ==
  /\ Go(t, "dead")
  /\ frog' = IF t = Frog THEN Start ELSE frog
  /\ croc' = [i \in CrocIds |-> IF t = Croc(i) THEN NoCroc ELSE croc[i]]
  /\ bullet' = [k \in BulletIds |-> IF t = Bullet(k) THEN NoShot ELSE bullet[k]]
  /\ UNCHANGED orig

(* fork() of a bullet at the cell (x, y); without a process left it fails. *)
(* sts says where the other processes are then.                            *)
Unborn(sts) == {k \in BulletIds : sts[Bullet(k)] = "none"}
First(S) == CHOOSE n \in S : \A o \in S : n <= o

Forked(w, c, x, y, dir) ==  \* w: the bullets and where the processes are
  IF Unborn(w.at) = {} THEN w
  ELSE LET k == First(Unborn(w.at)) IN
       [bullet |-> [w.bullet EXCEPT ![k] =
                      [c |-> c, x |-> x, y |-> y, dir |-> dir, old |-> FALSE]],
        at |-> [w.at EXCEPT ![Bullet(k)] = "fly"]]

FrogMsg(f) == [c |-> "$", id |-> 0, x |-> f.x, y |-> f.y, w |-> FrogW, active |-> FALSE]
CrocMsg(i, q) ==
  [c |-> "C", id |-> i, x |-> q.x, y |-> CrocRow(i), w |-> q.w, active |-> FALSE]
BulletMsg(k, q, active) ==
  [c |-> q.c, id |-> k, x |-> q.x, y |-> q.y, w |-> 1, active |-> active]
=============================================================================
