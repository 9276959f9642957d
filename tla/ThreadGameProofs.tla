-------------------------- MODULE ThreadGameProofs ---------------------------
(***************************************************************************)
(* Theorems about ThreadGame, for any number of crocodiles, bullets and    *)
(* slots, any buffer and any keys.                                         *)
(***************************************************************************)
EXTENDS ThreadGame, Minima

(* Whom a mutex can belong to, and where its owner is then: the reset of   *)
(* the timer, which waits for a mutex of its own, and a thread that was    *)
(* cancelled while it waited for room are the two that never give it back. *)
Owners ==
  /\ lock[GameMutex] \in {Nobody, Game, Player}
  /\ lock[ScreenMutex] \in {Nobody, Game, Player}
  /\ lock[FrogMutex] \in {Nobody, Game, Player}
  /\ \A i \in CrocIds : lock[CrocMutex(i)] \in {Nobody, Croc(i)}

Steering == {"shootLeft", "shootRight", "quit", "move", "publish"}
Swimming == {"drop", "shift", "aim", "fire", "announce"}
Resetting == {"resetFlags", "resetFrog", "resetPut", "resetTime"}

Whereabouts ==
  /\ lock[GameMutex] = Game => pc[Game] \in Resetting
  /\ lock[GameMutex] = Player => pc[Player] \in {"pauseText", "draw", "drawCroc"}
  /\ lock[ScreenMutex] = Game => pc[Game] = "drawCroc"
  /\ lock[ScreenMutex] = Player => pc[Player] = "drawCroc"
  /\ lock[FrogMutex] = Game => pc[Game] = "takeDen"
  /\ lock[FrogMutex] = Player => pc[Player] \in Steering \cup {"end"}
  /\ \A i \in CrocIds :
       lock[CrocMutex(i)] = Croc(i) => pc[Croc(i)] \in Swimming \cup {"end"}

HoldInv ==
  /\ DOMAIN pc = Threads /\ DOMAIN lock = Mutexes
  /\ Owners
  /\ Whereabouts

(* The threads and the mutexes are different from each other.              *)
LEMMA ThreadNames ==
  /\ Game \in Threads /\ Player \in Threads /\ Game # Player
  /\ Game # Nobody /\ Player # Nobody
  /\ \A i \in CrocIds :
       /\ Croc(i) \in Threads /\ Croc(i) \notin {Game, Player, Nobody}
       /\ \A j \in CrocIds : i # j => Croc(i) # Croc(j)
  /\ \A k \in BulletIds :
       /\ Bullet(k) \in Threads /\ Bullet(k) \notin {Game, Player}
       /\ \A i \in CrocIds : Bullet(k) # Croc(i)
  BY DEF Threads, Producers, Game, Player, Croc, Bullet, Nobody

LEMMA MutexNames ==
  /\ GameMutex \in Mutexes /\ ScreenMutex \in Mutexes /\ FrogMutex \in Mutexes
  /\ GameMutex # ScreenMutex /\ GameMutex # FrogMutex /\ ScreenMutex # FrogMutex
  /\ \A i \in CrocIds :
       /\ CrocMutex(i) \in Mutexes
       /\ CrocMutex(i) \notin {GameMutex, ScreenMutex, FrogMutex}
       /\ \A j \in CrocIds : i # j => CrocMutex(i) # CrocMutex(j)
  BY DEF Mutexes, GameMutex, ScreenMutex, FrogMutex, CrocMutex

LEMMA HoldInit == Init => HoldInv
<1> SUFFICES ASSUME Init PROVE HoldInv
  OBVIOUS
<1>1. DOMAIN pc = Threads /\ DOMAIN lock = Mutexes
  BY DEF Init
<1>2. \A mu \in Mutexes : lock[mu] = Nobody
  BY DEF Init
<1>3. QED
  BY <1>1, <1>2, ThreadNames, MutexNames DEF HoldInv, Owners, Whereabouts

(* A thread moves on and no mutex changes hands: it has to stay where its  *)
(* mutexes allow it, or hold none.                                         *)
LEMMA MovedOn ==
  ASSUME HoldInv, UNCHANGED lock, NEW t \in Threads, NEW l, Go(t, l),
         \A mu \in Mutexes : lock[mu] # t
  PROVE  HoldInv'
  BY ThreadNames, MutexNames DEF HoldInv, Owners, Whereabouts, Go

LEMMA StayedOn ==
  ASSUME HoldInv, UNCHANGED <<pc, lock>>
  PROVE  HoldInv'
  BY DEF HoldInv, Owners, Whereabouts

LEMMA GameHoldsNothing ==
  ASSUME HoldInv, pc[Game] \notin Resetting \cup {"takeDen", "drawCroc"}
  PROVE  \A mu \in Mutexes : lock[mu] # Game
  BY ThreadNames, MutexNames DEF HoldInv, Owners, Whereabouts, Mutexes

(* The steps of the game loop that hold nothing from one to the next.      *)
LEMMA FreeStepsHold ==
  ASSUME HoldInv,
         \/ FrameStart \/ GameEnds \/ Look \/ Ride \/ Scan \/ Attach \/ Boarded
         \/ Water \/ Drown \/ NoDen \/ Won \/ GameOver
         \/ BulletsDone \/ TestBullet \/ CopyBullet \/ Hit \/ Hurt
         \/ Pairs \/ Crash \/ KillBoth \/ KillMsgs \/ KillPut
         \/ TakeMessage \/ ApplyFrog \/ ApplyCroc \/ Aboard \/ Carry \/ ApplyBullet
  PROVE  HoldInv'
<1>1. UNCHANGED lock
  BY DEF FrameStart, GameEnds, Look, Ride, Scan, Attach, Boarded, Water, Drown, NoDen,
         Won, GameOver, BulletsDone, TestBullet, CopyBullet, Hit, Hurt, Pairs, Crash,
         KillBoth, KillMsgs, KillPut, TakeMessage, ApplyFrog, ApplyCroc, Aboard, Carry,
         ApplyBullet
<1>2. pc[Game] \notin Resetting \cup {"takeDen", "drawCroc"}
  BY DEF FrameStart, GameEnds, Look, Ride, Scan, Attach, Boarded, Water, Drown, NoDen,
         Won, GameOver, BulletsDone, TestBullet, CopyBullet, Hit, Hurt, Pairs, Crash,
         KillBoth, KillMsgs, KillPut, TakeMessage, ApplyFrog, ApplyCroc, Aboard, Carry,
         ApplyBullet, At, Resetting
<1>3. UNCHANGED pc \/ \E l : Go(Game, l)
  <2>1. CASE FrameStart \/ GameEnds \/ Look \/ Ride \/ Scan \/ Attach \/ Boarded
               \/ Water \/ Won \/ GameOver
    BY <2>1 DEF FrameStart, GameEnds, Look, Ride, Scan, Attach, Boarded, Water, Won,
                GameOver
  <2>2. CASE Drown \/ NoDen \/ Hurt
    BY <2>2 DEF Drown, NoDen, Hurt, LoseLife, CallReset
  <2>3. CASE BulletsDone \/ TestBullet \/ CopyBullet \/ Hit \/ Pairs \/ Crash \/ KillBoth
               \/ KillMsgs \/ KillPut
    BY <2>3 DEF BulletsDone, TestBullet, CopyBullet, Hit, Pairs, Crash, KillBoth,
                KillMsgs, KillPut, NextBullet
  <2>4. CASE TakeMessage \/ ApplyFrog \/ ApplyCroc \/ Aboard \/ Carry \/ ApplyBullet
    BY <2>4 DEF TakeMessage, ApplyFrog, ApplyCroc, Aboard, Carry, ApplyBullet, Applied
  <2>5. QED
    BY <2>1, <2>2, <2>3, <2>4
<1>4. QED
  BY <1>1, <1>2, <1>3, GameHoldsNothing, MovedOn, StayedOn, ThreadNames

(* reset_player_safely may run with game_mutex held; then it does not get  *)
(* past ResetTime.                                                         *)
LEMMA ResetHolds ==
  ASSUME HoldInv, ResetFlags \/ ResetFrog \/ ResetPut \/ ResetTime
  PROVE  HoldInv'
<1>1. CASE ResetFlags \/ ResetFrog \/ ResetPut
  <2>1. UNCHANGED lock /\ pc[Game] \in Resetting
    BY <1>1 DEF ResetFlags, ResetFrog, ResetPut, At, Resetting
  <2>2. \E l \in Resetting : Go(Game, l)
    BY <1>1 DEF ResetFlags, ResetFrog, ResetPut, Resetting
  <2>3. PICK l \in Resetting : pc' = [pc EXCEPT ![Game] = l]
    BY <2>2 DEF Go
  <2>4. /\ pc'[Game] \in Resetting /\ DOMAIN pc' = Threads
        /\ \A t \in Threads : t # Game => pc'[t] = pc[t]
    BY <2>3, ThreadNames DEF HoldInv
  <2>5. lock[ScreenMutex] # Game /\ lock[FrogMutex] # Game
    BY <2>1 DEF HoldInv, Whereabouts, Resetting
  <2>6. QED
    BY <2>1, <2>4, <2>5, ThreadNames DEF HoldInv, Owners, Whereabouts
<1>2. CASE ResetTime
  <2>1. \A mu \in Mutexes : lock[mu] # Game
    <3>1. pc[Game] = "resetTime" /\ lock[GameMutex] = Nobody
      BY <1>2 DEF ResetTime, At, Free
    <3>2. lock[GameMutex] # Game /\ lock[ScreenMutex] # Game /\ lock[FrogMutex] # Game
      BY <3>1, ThreadNames DEF HoldInv, Whereabouts
    <3>3. \A i \in CrocIds : lock[CrocMutex(i)] # Game
      BY ThreadNames DEF HoldInv, Owners
    <3>4. QED
      BY <3>2, <3>3 DEF Mutexes
  <2>2. UNCHANGED lock /\ Go(Game, g.ret)
    BY <1>2 DEF ResetTime
  <2>3. QED
    BY <2>1, <2>2, MovedOn, ThreadNames
<1>3. QED
  BY <1>1, <1>2

(* The steps of the game loop that take or give back a mutex.              *)
LEMMA LockStepsHold ==
  ASSUME HoldInv, Tick \/ Den \/ TakeDen \/ DrawFrame
  PROVE  HoldInv'
<1>1. CASE Tick
  <2>1. pc[Game] = "timer" /\ lock[GameMutex] = Nobody
    BY <1>1 DEF Tick, At, Free
  <2>2. \A mu \in Mutexes : lock[mu] # Game
    BY <2>1, GameHoldsNothing DEF Resetting
  <2>3. CASE UNCHANGED lock
    <3>1. \E l : Go(Game, l)
      BY <1>1, <2>3 DEF Tick, LoseLife, CallReset
    <3>2. QED
      BY <2>2, <2>3, <3>1, MovedOn, ThreadNames
  <2>4. CASE Lock(GameMutex, Game) /\ Go(Game, "resetFlags")
    <3>1. lock' = [lock EXCEPT ![GameMutex] = Game]
          /\ pc' = [pc EXCEPT ![Game] = "resetFlags"]
      BY <2>4 DEF Lock, Go
    <3>2. QED
      BY <2>1, <2>2, <3>1, ThreadNames, MutexNames
      DEF HoldInv, Owners, Whereabouts, Resetting
  <2>5. QED
    BY <1>1, <2>3, <2>4 DEF Tick, LoseLife, CallReset
<1>2. CASE Den
  <2>1. pc[Game] = "den" /\ lock[FrogMutex] = Nobody /\ Go(Game, AfterDen(frog))
    BY <1>2 DEF Den, At, Free
  <2>2. \A mu \in Mutexes : lock[mu] # Game
    BY <2>1, GameHoldsNothing DEF Resetting
  <2>3. CASE UNCHANGED lock
    BY <2>1, <2>2, <2>3, MovedOn, ThreadNames
  <2>4. CASE FreeDen(frog) # {} /\ Lock(FrogMutex, Game)
    <3>1. AfterDen(frog) = "takeDen"
      <4>1. ~(frog.y > 0)
        BY <2>4 DEF FreeDen
      <4>2. QED
        BY <2>4, <4>1 DEF AfterDen
    <3>2. lock' = [lock EXCEPT ![FrogMutex] = Game]
          /\ pc' = [pc EXCEPT ![Game] = "takeDen"]
      BY <2>1, <2>4, <3>1 DEF Lock, Go
    <3>3. QED
      BY <2>1, <2>2, <3>2, ThreadNames, MutexNames DEF HoldInv, Owners, Whereabouts
  <2>5. QED
    BY <1>2, <2>3, <2>4 DEF Den
<1>3. CASE TakeDen
  <2>1. /\ pc[Game] = "takeDen" /\ lock[GameMutex] = Nobody
        /\ lock' = [lock EXCEPT ![FrogMutex] = Nobody]
    BY <1>3 DEF TakeDen, At, Free, Unlock
  <2>2. PICK l : pc' = [pc EXCEPT ![Game] = l]
    BY <1>3 DEF TakeDen, Go
  <2>3. QED
    BY <2>1, <2>2, ThreadNames, MutexNames DEF HoldInv, Owners, Whereabouts, Resetting
<1>4. CASE DrawFrame
  <2>1. CASE pc[Game] = "draw" /\ Lock(ScreenMutex, Game) /\ Go(Game, "drawCroc")
    <3>1. \A mu \in Mutexes : lock[mu] # Game
      BY <2>1, GameHoldsNothing DEF Resetting
    <3>2. lock' = [lock EXCEPT ![ScreenMutex] = Game]
          /\ pc' = [pc EXCEPT ![Game] = "drawCroc"] /\ lock[ScreenMutex] = Nobody
      BY <2>1 DEF Lock, Go, Free
    <3>3. QED
      BY <3>1, <3>2, ThreadNames, MutexNames DEF HoldInv, Owners, Whereabouts
  <2>2. CASE UNCHANGED <<pc, lock>>
    BY <2>2, StayedOn
  <2>3. CASE pc[Game] = "drawCroc" /\ GameDrawn
    <3>1. lock' = [lock EXCEPT ![ScreenMutex] = Nobody]
          /\ pc' = [pc EXCEPT ![Game] = "top"] /\ pc[Game] = "drawCroc"
      BY <2>3 DEF GameDrawn, Go, Unlock
    <3>2. QED
      BY <3>1, ThreadNames, MutexNames DEF HoldInv, Owners, Whereabouts, Resetting
  <2>4. QED
    BY <1>4, <2>1, <2>2, <2>3 DEF DrawFrame, Draw, At
<1>5. QED
  BY <1>1, <1>2, <1>3, <1>4

(* The thread of the player.                                               *)
LEMMA PlayerHoldsNothing ==
  ASSUME HoldInv, pc[Player] \notin Steering \cup {"end", "pauseText", "draw", "drawCroc"}
  PROVE  \A mu \in Mutexes : lock[mu] # Player
  BY ThreadNames, MutexNames DEF HoldInv, Owners, Whereabouts, Mutexes

LEMMA CreateMoves ==
  ASSUME NEW q, NEW dir, NEW enemy, NEW next, CreateBullet(q, dir, enemy, next)
  PROVE  \/ pc' = next
         \/ /\ IdleThreads # {}
            /\ pc' = [next EXCEPT ![Bullet(First(IdleThreads))] = "loop"]
  BY DEF CreateBullet

(* create_bullet moves its caller t on, and starts a thread that holds     *)
(* nothing.                                                                *)
LEMMA CreateHolds ==
  ASSUME HoldInv, UNCHANGED lock, NEW t \in {Player} \cup {Croc(i) : i \in CrocIds},
         NEW l, NEW q, NEW dir, NEW enemy,
         CreateBullet(q, dir, enemy, [pc EXCEPT ![t] = l])
  PROVE  /\ DOMAIN pc' = Threads /\ pc'[t] = l
         /\ \A o \in Threads \ {t} : pc'[o] = pc[o] \/ \E k \in BulletIds : o = Bullet(k)
<1>1. DOMAIN pc = Threads /\ t \in Threads /\ \A k \in BulletIds : Bullet(k) # t
  BY ThreadNames DEF HoldInv
<1>2. CASE pc' = [pc EXCEPT ![t] = l]
  BY <1>1, <1>2
<1>3. CASE /\ IdleThreads # {}
           /\ pc' = [[pc EXCEPT ![t] = l] EXCEPT ![Bullet(First(IdleThreads))] = "loop"]
  <2>1. IdleThreads \in SUBSET Nat
    BY DEF IdleThreads, BulletIds
  <2>2. First(IdleThreads) \in BulletIds
    BY <1>3, <2>1, LeastExists DEF First, IdleThreads
  <2>3. QED
    BY <1>1, <1>3, <2>2
<1>4. QED
  BY <1>2, <1>3, CreateMoves

LEMMA PlayerStepsHold ==
  ASSUME HoldInv, (\E key : ReadKey(key)) \/ PlayerStep
  PROVE  HoldInv'
<1>1. CASE (\E key : ReadKey(key)) \/ PlayerEnds
  <2>1. pc[Player] = "read" /\ UNCHANGED lock /\ \E l : Go(Player, l)
    BY <1>1 DEF ReadKey, PlayerEnds, At
  <2>2. \A mu \in Mutexes : lock[mu] # Player
    BY <2>1, PlayerHoldsNothing DEF Steering
  <2>3. QED
    BY <2>1, <2>2, MovedOn, ThreadNames
<1>2. CASE TogglePause
  <2>1. /\ pc[Player] = "pause" /\ lock[GameMutex] = Nobody
        /\ lock' = [lock EXCEPT ![GameMutex] = Player]
        /\ \E l \in {"draw", "pauseText"} : pc' = [pc EXCEPT ![Player] = l]
    BY <1>2 DEF TogglePause, At, Lock, Free, Go
  <2>2. \A mu \in Mutexes : lock[mu] # Player
    BY <2>1, PlayerHoldsNothing DEF Steering
  <2>3. QED
    BY <2>1, <2>2, ThreadNames, MutexNames DEF HoldInv, Owners, Whereabouts
<1>3. CASE PauseText
  <2>1. /\ pc[Player] = "pauseText" /\ lock' = [lock EXCEPT ![GameMutex] = Nobody]
        /\ pc' = [pc EXCEPT ![Player] = "read"]
    BY <1>3 DEF PauseText, At, Unlock, Go
  <2>2. QED
    BY <2>1, ThreadNames, MutexNames DEF HoldInv, Owners, Whereabouts, Steering
<1>4. CASE DrawResumed
  <2>1. CASE /\ pc[Player] = "draw" /\ lock' = [lock EXCEPT ![ScreenMutex] = Player]
             /\ pc' = [pc EXCEPT ![Player] = "drawCroc"]
    BY <2>1, ThreadNames, MutexNames DEF HoldInv, Owners, Whereabouts, Steering
  <2>2. CASE UNCHANGED <<pc, lock>>
    BY <2>2, StayedOn
  <2>3. CASE /\ pc[Player] = "drawCroc"
             /\ lock' = [lock EXCEPT ![ScreenMutex] = Nobody, ![GameMutex] = Nobody]
             /\ pc' = [pc EXCEPT ![Player] = "read"]
    BY <2>3, ThreadNames, MutexNames DEF HoldInv, Owners, Whereabouts, Steering
  <2>4. QED
    BY <1>4, <2>1, <2>2, <2>3 DEF DrawResumed, Draw, At, Lock, Go, PlayerDrawn
<1>5. CASE LockFrog
  <2>1. /\ pc[Player] = "lockFrog" /\ lock[FrogMutex] = Nobody
        /\ lock' = [lock EXCEPT ![FrogMutex] = Player]
        /\ \E l \in {"shootLeft", "quit", "move"} : pc' = [pc EXCEPT ![Player] = l]
    BY <1>5 DEF LockFrog, At, Lock, Free, Go
  <2>2. \A mu \in Mutexes : lock[mu] # Player
    BY <2>1, PlayerHoldsNothing DEF Steering
  <2>3. QED
    BY <2>1, <2>2, ThreadNames, MutexNames DEF HoldInv, Owners, Whereabouts, Steering
<1>6. CASE ShootLeft \/ ShootRight
  <2>1. UNCHANGED lock /\ pc[Player] \in {"shootLeft", "shootRight"}
    BY <1>6 DEF ShootLeft, ShootRight, At
  <2>2. PICK l \in {"shootRight", "move"} :
          \E q, dir : CreateBullet(q, dir, FALSE, [pc EXCEPT ![Player] = l])
    <3>1. CASE ShootLeft
      BY <3>1, Zenon DEF ShootLeft
    <3>2. CASE ShootRight
      BY <3>2, Zenon DEF ShootRight
    <3>3. QED
      BY <1>6, <3>1, <3>2
  <2>3. /\ DOMAIN pc' = Threads /\ pc'[Player] = l
        /\ \A o \in Threads \ {Player} : pc'[o] = pc[o] \/ \E k \in BulletIds : o = Bullet(k)
    BY <2>1, <2>2, CreateHolds
  <2>4. pc'[Game] = pc[Game] /\ \A i \in CrocIds : pc'[Croc(i)] = pc[Croc(i)]
    BY <2>3, ThreadNames
  <2>5. QED
    BY <2>1, <2>3, <2>4, ThreadNames, MutexNames DEF HoldInv, Owners, Whereabouts, Steering
<1>7. CASE Quit \/ Move
  <2>1. /\ UNCHANGED lock /\ pc[Player] \in {"quit", "move"}
        /\ \E l \in {"move", "publish"} : pc' = [pc EXCEPT ![Player] = l]
    BY <1>7 DEF Quit, Move, At, Go
  <2>2. QED
    BY <2>1, ThreadNames, MutexNames DEF HoldInv, Owners, Whereabouts, Steering
<1>8. CASE Publish
  <2>1. /\ pc[Player] = "publish" /\ lock' = [lock EXCEPT ![FrogMutex] = Nobody]
        /\ pc' = [pc EXCEPT ![Player] = "read"]
    BY <1>8 DEF Publish, At, Unlock, Go
  <2>2. QED
    BY <2>1, ThreadNames, MutexNames DEF HoldInv, Owners, Whereabouts, Steering
<1>9. QED
  BY <1>1, <1>2, <1>3, <1>4, <1>5, <1>6, <1>7, <1>8 DEF PlayerStep

(* A crocodile keeps its own mutex from Swim to Announce, and takes others *)
(* only for a moment.                                                      *)
LEMMA CrocStepsHold ==
  ASSUME HoldInv, NEW i \in CrocIds, CrocStep(i)
  PROVE  HoldInv'
<1>1. CASE Swim(i)
  <2>1. pc[Croc(i)] = "loop" /\ lock' = [lock EXCEPT ![CrocMutex(i)] = Croc(i)]
    BY <1>1 DEF Swim, At, Lock
  <2>2. PICK l \in {"drop", "shift", "aim"} : pc' = [pc EXCEPT ![Croc(i)] = l]
    <3> DEFINE l == CASE on = i /\ Vanishes(i, croc[i]) -> "drop"
                      [] on = i /\ GrowsLeft(i, croc[i]) -> "shift"
                      [] OTHER -> "aim"
    <3>1. l \in {"drop", "shift", "aim"}
      OBVIOUS
    <3>2. pc' = [pc EXCEPT ![Croc(i)] = l]
      BY <1>1, Zenon DEF Swim, Go
    <3> HIDE DEF l
    <3>3. QED
      BY <3>1, <3>2
  <2>3. QED
    BY <2>1, <2>2, ThreadNames, MutexNames DEF HoldInv, Owners, Whereabouts, Swimming
<1>2. CASE DropFrog(i) \/ ShiftFrog(i) \/ Aim(i)
  <2>1. /\ UNCHANGED lock /\ pc[Croc(i)] \in {"drop", "shift", "aim"}
        /\ \E l \in {"aim", "announce", "fire"} : pc' = [pc EXCEPT ![Croc(i)] = l]
    BY <1>2 DEF DropFrog, ShiftFrog, Aim, At, Go
  <2>2. QED
    BY <2>1, ThreadNames, MutexNames DEF HoldInv, Owners, Whereabouts, Swimming
<1>3. CASE Fire(i)
  <2>1. UNCHANGED lock /\ pc[Croc(i)] = "fire"
    BY <1>3 DEF Fire, At
  <2>2. \E q, dir : CreateBullet(q, dir, TRUE, [pc EXCEPT ![Croc(i)] = "announce"])
    BY <1>3 DEF Fire
  <2>3. /\ DOMAIN pc' = Threads /\ pc'[Croc(i)] = "announce"
        /\ \A o \in Threads \ {Croc(i)} :
             pc'[o] = pc[o] \/ \E k \in BulletIds : o = Bullet(k)
    <3>1. Croc(i) \in {Player} \cup {Croc(j) : j \in CrocIds}
      OBVIOUS
    <3>2. QED
      BY <2>1, <2>2, <3>1, CreateHolds
  <2>4. /\ pc'[Game] = pc[Game] /\ pc'[Player] = pc[Player]
        /\ \A j \in CrocIds : j # i => pc'[Croc(j)] = pc[Croc(j)]
    BY <2>3, ThreadNames
  <2>5. QED
    BY <2>1, <2>3, <2>4, ThreadNames, MutexNames DEF HoldInv, Owners, Whereabouts, Swimming
<1>4. CASE Announce(i)
  <2>1. /\ lock' = [lock EXCEPT ![CrocMutex(i)] = Nobody]
        /\ pc' = [pc EXCEPT ![Croc(i)] = "loop"]
    BY <1>4 DEF Announce, Unlock, Go
  <2>2. QED
    BY <2>1, ThreadNames, MutexNames DEF HoldInv, Owners, Whereabouts
<1>5. CASE CrocEnds(i)
  <2>1. /\ UNCHANGED lock /\ pc[Croc(i)] = "loop" /\ pc' = [pc EXCEPT ![Croc(i)] = "end"]
    BY <1>5 DEF CrocEnds, At, Go
  <2>2. QED
    BY <2>1, ThreadNames, MutexNames DEF HoldInv, Owners, Whereabouts, Swimming
<1>6. QED
  BY <1>1, <1>2, <1>3, <1>4, <1>5 DEF CrocStep

(* Bullets hold no mutex that other threads wait for.                      *)
LEMMA BulletStepsHold ==
  ASSUME HoldInv, NEW k \in BulletIds, BulletStep(k)
  PROVE  HoldInv'
<1>1. UNCHANGED lock /\ \E l : Go(Bullet(k), l)
  BY DEF BulletStep, FlyOver, FlyStop, Fly, Tell, ClearSlot, LastMessage, Me
<1>2. \A mu \in Mutexes : lock[mu] # Bullet(k)
  BY ThreadNames, MutexNames DEF HoldInv, Owners, Mutexes, Bullet, Nobody
<1>3. QED
  BY <1>1, <1>2, MovedOn, ThreadNames

(* A cancelled thread keeps what it has locked.                            *)
LEMMA CancelHolds ==
  ASSUME HoldInv, NEW t \in Producers, Cancelled(t)
  PROVE  HoldInv'
<1>1. UNCHANGED lock /\ pc' = [pc EXCEPT ![t] = "end"]
      /\ pc[t] \notin {"pauseText", "draw", "drawCroc"}
  BY DEF Cancelled, Go, Putting
<1>2. t # Game /\ t \in Threads
  BY ThreadNames DEF Producers, Threads
<1>3. /\ DOMAIN pc' = Threads /\ pc'[Game] = pc[Game]
      /\ \A o \in Threads : pc'[o] = pc[o] \/ (o = t /\ pc'[o] = "end")
  BY <1>1, <1>2, ThreadNames DEF HoldInv
<1>4. QED
  BY <1>1, <1>3, ThreadNames, MutexNames DEF HoldInv, Owners, Whereabouts

LEMMA NextHolds == HoldInv /\ [Next \/ Shot]_vars => HoldInv'
<1> SUFFICES ASSUME HoldInv, [Next \/ Shot]_vars PROVE HoldInv'
  OBVIOUS
<1>1. CASE GameStep
  BY <1>1, FreeStepsHold, ResetHolds, LockStepsHold DEF GameStep
<1>2. CASE PlayerStep \/ \E key : ReadKey(key)
  BY <1>2, PlayerStepsHold
<1>3. CASE \E i \in CrocIds : CrocStep(i)
  BY <1>3, CrocStepsHold
<1>4. CASE \E k \in BulletIds : BulletStep(k)
  BY <1>4, BulletStepsHold
<1>5. CASE \E t \in Producers : Cancelled(t)
  BY <1>5, CancelHolds
<1>6. CASE RunGame \/ Signal \/ UNCHANGED vars
  <2>1. UNCHANGED <<pc, lock>>
    BY <1>6 DEF RunGame, JoinGame, JoinCroc, JoinPlayer, CancelBullet, JoinBullet, Destroy,
                Signal, vars
  <2>2. QED
    BY <2>1, StayedOn
<1>7. CASE Shot
  <2>1. PICK q, dir, enemy : CreateBullet(q, dir, enemy, pc)
    BY <1>7, Zenon DEF Shot
  <2>2. UNCHANGED lock /\ DOMAIN pc = Threads
    BY <1>7 DEF Shot, HoldInv
  <2>3. UNCHANGED pc \/ (IdleThreads # {} /\ Go(Bullet(First(IdleThreads)), "loop"))
    <3>1. \/ pc' = pc
          \/ /\ IdleThreads # {}
             /\ pc' = [pc EXCEPT ![Bullet(First(IdleThreads))] = "loop"]
      BY <2>1, CreateMoves, Zenon
    <3>2. QED
      BY <3>1 DEF Go
  <2>4. IdleThreads # {} => First(IdleThreads) \in BulletIds
    <3>1. IdleThreads \in SUBSET Nat
      BY DEF IdleThreads, BulletIds
    <3>2. QED
      BY <3>1, LeastExists DEF First, IdleThreads
  <2>5. \A k \in BulletIds, mu \in Mutexes : lock[mu] # Bullet(k)
    BY ThreadNames, MutexNames DEF HoldInv, Owners, Mutexes, Bullet, Nobody
  <2>6. QED
    BY <2>2, <2>3, <2>4, <2>5, MovedOn, StayedOn, ThreadNames
<1>8. QED
  BY <1>1, <1>2, <1>3, <1>4, <1>5, <1>6, <1>7 DEF Next, Playing, Finished

LEMMA HoldInvariance == OpenSpec => []HoldInv
<1>1. QED
  BY HoldInit, NextHolds, PTL DEF OpenSpec

LEMMA SpecOpens == Spec => OpenSpec
<1>1. [Next]_vars => [Next \/ Shot]_vars
  OBVIOUS
<1>2. QED
  BY <1>1, PTL DEF Spec, OpenSpec

(* No path through a round of the game loop, the player's thread or a      *)
(* crocodile's ends without giving back the mutexes it took: early         *)
(* returns, the pause key and create_bullet's error paths included.        *)
THEOREM SleepersFree == Spec => []SleepersHoldNothing
<1>1. HoldInv => SleepersHoldNothing
  <2> SUFFICES ASSUME HoldInv, NEW mu \in Mutexes, ~Free(mu)
               PROVE  pc[lock[mu]] \notin {"top", "read", "loop"}
    BY DEF SleepersHoldNothing
  <2>1. CASE mu \in {GameMutex, ScreenMutex, FrogMutex}
    BY <2>1, ThreadNames
    DEF HoldInv, Owners, Whereabouts, Free, Resetting, Steering
  <2>2. CASE mu \in {CrocMutex(i) : i \in CrocIds}
    BY <2>2, ThreadNames DEF HoldInv, Owners, Whereabouts, Free, Swimming
  <2>3. QED
    BY <2>1, <2>2 DEF Mutexes
<1>2. QED
  BY <1>1, HoldInvariance, SpecOpens, PTL

-----------------------------------------------------------------------------
(* The den                                                                 *)

(* The place the game loop goes on at can be in a message or in g.ret, so  *)
(* these have to be known before anything can be said of "takeDen".        *)
MsgTypes == {"MSG_PLAYER", "MSG_CROCODILE", "MSG_BULLET"}
Mail(s) == \E S : s \in Seq(S) /\ \A e \in S : e.type \in MsgTypes
Fields == {"copy", "i", "j", "den", "ret", "bul", "out"}

MailInv ==
  /\ DOMAIN g = Fields
  /\ Mail(queue) /\ Mail(g.out)
  /\ g.ret \in {"", "look", "den", "bullets", "pairs"}

(* The player's mutex is kept by whom the frog relies on.                  *)
DenInv ==
  /\ pc[Player] \in Steering => lock[FrogMutex] = Player
  /\ pc[Game] = "takeDen" =>
       lock[FrogMutex] = Game /\ frog.y = 0 /\ g.den \subseteq DenAt(frog)

LEMMA MailOf ==
  ASSUME NEW S, NEW s \in Seq(S), \A e \in S : e.type \in MsgTypes
  PROVE  Mail(s)
  BY DEF Mail

LEMMA MailEmpty == Mail(<<>>)
<1> DEFINE S == {}
<1>1. <<>> \in Seq(S) /\ \A e \in S : e.type \in MsgTypes
  OBVIOUS
<1> HIDE DEF S
<1>2. QED
  BY <1>1, MailOf

LEMMA MailAppend ==
  ASSUME NEW s, Mail(s), NEW e, e.type \in MsgTypes
  PROVE  Mail(Append(s, e))
<1>1. PICK S : s \in Seq(S) /\ \A o \in S : o.type \in MsgTypes
  BY DEF Mail
<1>2. Append(s, e) \in Seq(S \cup {e})
  <2>1. s \in Seq(S \cup {e})
    BY <1>1
  <2>2. QED
    BY <2>1
<1>3. QED
  BY <1>1, <1>2 DEF Mail

LEMMA MailRead ==
  ASSUME NEW s, Mail(s), s # <<>>
  PROVE  Head(s).type \in MsgTypes /\ Mail(Tail(s)) /\ Mail(<<Head(s)>>)
<1>1. PICK S : s \in Seq(S) /\ \A o \in S : o.type \in MsgTypes
  BY DEF Mail
<1>2. Head(s) \in S /\ Tail(s) \in Seq(S) /\ <<Head(s)>> \in Seq(S)
  BY <1>1
<1>3. QED
  BY <1>1, <1>2 DEF Mail

LEMMA MailPair ==
  ASSUME NEW e, NEW f, {e.type, f.type} \subseteq MsgTypes
  PROVE  Mail(<<e, f>>)
<1> DEFINE S == {e, f}
<1>1. <<e, f>> \in Seq(S) /\ \A o \in S : o.type \in MsgTypes
  OBVIOUS
<1> HIDE DEF S
<1>2. QED
  BY <1>1, MailOf

LEMMA MailInit == Init => MailInv
<1> SUFFICES ASSUME Init PROVE MailInv
  OBVIOUS
<1>1. g = [copy |-> Start, i |-> 0, j |-> 0, den |-> {}, ret |-> "", bul |-> NoBullet,
           out |-> <<>>] /\ queue = <<>>
  BY DEF Init
<1>2. QED
  BY <1>1, MailEmpty DEF MailInv, Fields

(* What is put into the buffer is a message of one of the three types.     *)
LEMMA QueueMail ==
  ASSUME MailInv, [Next \/ Shot]_vars
  PROVE  Mail(queue')
<1>1. CASE UNCHANGED queue
  BY <1>1 DEF MailInv
<1>2. CASE \E msg : msg.type \in MsgTypes /\ queue' = Append(queue, msg)
  BY <1>2, MailAppend DEF MailInv
<1>3. CASE queue # <<>> /\ queue' = Tail(queue)
  BY <1>3, MailRead DEF MailInv
<1>4. ASSUME NEW msg, Put(msg), msg.type \in MsgTypes PROVE Mail(queue')
  BY <1>2, <1>4 DEF Put
<1>5. CASE GameStep
  <2>1. CASE ResetPut
    <3>1. FrogMsg(Start).type \in MsgTypes
      BY DEF FrogMsg, MsgTypes
    <3>2. QED
      BY <1>4, <2>1, <3>1 DEF ResetPut
  <2>2. CASE KillPut
    <3>1. CASE g.out # <<>> /\ Put(Head(g.out))
      BY <1>4, <3>1, MailRead DEF MailInv
    <3>2. QED
      BY <1>1, <2>2, <3>1 DEF KillPut
  <2>3. CASE TakeMessage
    BY <1>1, <1>3, <2>3 DEF TakeMessage
  <2>4. CASE ~(ResetPut \/ KillPut \/ TakeMessage)
    <3>1. UNCHANGED queue
      BY <1>5, <2>4
      DEF GameStep, FrameStart, GameEnds, Tick, ResetFlags, ResetFrog, ResetTime, Look,
          Ride, Scan, Attach, Boarded, Water, Drown, Den, TakeDen, NoDen, Won, GameOver,
          BulletsDone, TestBullet, CopyBullet, Hit, Hurt, Pairs, Crash, KillBoth,
          KillMsgs, ApplyFrog, ApplyCroc, Aboard, Carry, ApplyBullet, DrawFrame
    <3>2. QED
      BY <1>1, <3>1
  <2>5. QED
    BY <2>1, <2>2, <2>3, <2>4
<1>6. CASE PlayerStep \/ \E key : ReadKey(key)
  <2>1. FrogMsg(frog).type \in MsgTypes
    BY DEF FrogMsg, MsgTypes
  <2>2. CASE Publish
    BY <1>4, <2>1, <2>2 DEF Publish
  <2>3. CASE ~Publish
    <3>1. UNCHANGED queue
      BY <1>6, <2>3 DEF PlayerStep, ReadKey, PlayerEnds, TogglePause, PauseText,
         DrawResumed, LockFrog, ShootLeft, ShootRight, Quit, Move
    <3>2. QED
      BY <1>1, <3>1
  <2>4. QED
    BY <2>2, <2>3
<1>7. CASE \E i \in CrocIds : CrocStep(i)
  <2>1. PICK i \in CrocIds : CrocStep(i)
    BY <1>7
  <2>2. CrocMsg(i, croc[i]).type \in MsgTypes
    BY DEF CrocMsg, MsgTypes
  <2>3. CASE Announce(i)
    BY <1>4, <2>2, <2>3 DEF Announce
  <2>4. CASE ~Announce(i)
    <3>1. UNCHANGED queue
      BY <2>1, <2>4 DEF CrocStep, Swim, DropFrog, ShiftFrog, Aim, Fire, CrocEnds
    <3>2. QED
      BY <1>1, <3>1
  <2>5. QED
    BY <2>3, <2>4
<1>8. CASE \E k \in BulletIds : BulletStep(k)
  <2>1. PICK k \in BulletIds : BulletStep(k)
    BY <1>8
  <2>2. BulletMsg(b[k].slot, b[k].out).type \in MsgTypes
    BY DEF BulletMsg, MsgTypes
  <2>3. CASE Tell(k)
    BY <1>4, <2>2, <2>3 DEF Tell
  <2>4. CASE ~Tell(k)
    <3>1. UNCHANGED queue
      BY <2>1, <2>4 DEF BulletStep, FlyOver, FlyStop, Fly, ClearSlot, LastMessage
    <3>2. QED
      BY <1>1, <3>1
  <2>5. QED
    BY <2>3, <2>4
<1>9. CASE (\E t \in Producers : Cancelled(t)) \/ RunGame \/ Signal \/ Shot \/ UNCHANGED vars
  <2>1. UNCHANGED queue
    BY <1>9 DEF Cancelled, RunGame, JoinGame, JoinCroc, JoinPlayer, CancelBullet,
       JoinBullet, Destroy, Signal, Shot, vars
  <2>2. QED
    BY <1>1, <2>1
<1>10. QED
  BY <1>5, <1>6, <1>7, <1>8, <1>9 DEF Next, Playing, Finished

(* A step of the game loop leaves g a record, with messages in g.out.      *)
LEMMA GameMail ==
  ASSUME MailInv, GameStep
  PROVE  /\ DOMAIN g' = Fields /\ Mail(g'.out)
         /\ g'.ret \in {"", "look", "den", "bullets", "pairs"}
<1> USE DEF MailInv, Fields
<1>1. CASE UNCHANGED g
  BY <1>1
<1>2. CASE FrameStart \/ GameEnds \/ ResetFlags \/ ResetFrog \/ ResetPut \/ Boarded \/ Won
             \/ GameOver \/ Hit \/ Crash \/ KillBoth
  BY <1>1, <1>2 DEF FrameStart, GameEnds, ResetFlags, ResetFrog, ResetPut, Boarded, Won,
     GameOver, Hit, Crash, KillBoth, locals
<1>3. CASE Tick \/ Drown \/ NoDen \/ Hurt
  <2>1. \E l \in {"look", "den", "bullets", "pairs"} : UNCHANGED g \/ g' = [g EXCEPT !.ret = l]
    BY <1>3 DEF Tick, Drown, NoDen, Hurt, LoseLife, CallReset
  <2>2. QED
    BY <2>1
<1>4. CASE ResetTime \/ TakeDen
  <2>1. CASE ResetTime
    BY <2>1 DEF ResetTime
  <2>2. CASE TakeDen
    <3> DEFINE l == IF tane' = Dens THEN "" ELSE "bullets"
    <3>1. g' = [g EXCEPT !.den = {}, !.ret = l] /\ l \in {"", "bullets"}
      BY <2>2 DEF TakeDen
    <3> HIDE DEF l
    <3>2. QED
      BY <3>1
  <2>3. QED
    BY <1>4, <2>1, <2>2
<1>5. CASE Look \/ Ride \/ Scan \/ Attach \/ Water \/ Den
  <2>1. UNCHANGED g \/ \E v, d : \/ g' = [g EXCEPT !.copy = v] \/ g' = [g EXCEPT !.i = v]
                                 \/ g' = [g EXCEPT !.i = v, !.den = d]
    BY <1>5 DEF Look, Ride, Scan, Attach, Water, Den
  <2>2. QED
    BY <2>1
<1>6. CASE BulletsDone \/ TestBullet \/ CopyBullet \/ Pairs \/ DrawFrame
  <2>1. UNCHANGED g \/ \E v, w, u : \/ g' = [g EXCEPT !.i = v] \/ g' = [g EXCEPT !.j = v]
                                    \/ g' = [g EXCEPT !.i = v, !.j = w, !.bul = u]
                                    \/ g' = [g EXCEPT !.bul = v, !.j = w]
    BY <1>6 DEF BulletsDone, TestBullet, CopyBullet, Pairs, DrawFrame, NextBullet
  <2>2. QED
    BY <2>1
<1>7. CASE KillMsgs
  <2>1. {BulletMsg(g.i, Dead(Slot(g.i))).type, BulletMsg(g.j, Dead(Slot(g.j))).type} \subseteq MsgTypes
    BY DEF BulletMsg, MsgTypes
  <2> DEFINE o == <<BulletMsg(g.i, Dead(Slot(g.i))), BulletMsg(g.j, Dead(Slot(g.j)))>>
  <2>2. g' = [g EXCEPT !.out = o] /\ Mail(o)
    BY <1>7, <2>1, MailPair DEF KillMsgs
  <2> HIDE DEF o
  <2>3. QED
    BY <2>2
<1>8. CASE KillPut
  <2>1. CASE g.out # <<>> /\ g' = [g EXCEPT !.out = Tail(@)]
    BY <2>1, MailRead
  <2>2. CASE NextBullet
    BY <2>2 DEF NextBullet
  <2>3. QED
    BY <1>8, <2>1, <2>2 DEF KillPut
<1>9. CASE TakeMessage
  <2>1. CASE queue # <<>> /\ g' = [g EXCEPT !.out = <<Head(queue)>>]
    BY <2>1, MailRead
  <2>2. QED
    BY <1>1, <1>9, <2>1 DEF TakeMessage
<1>10. CASE ApplyFrog \/ ApplyCroc \/ Aboard \/ Carry \/ ApplyBullet
  <2>1. \E l : g' = [g EXCEPT !.out = IF l = "messages" THEN <<>> ELSE @]
    BY <1>10, Zenon DEF ApplyFrog, ApplyCroc, Aboard, Carry, ApplyBullet, Applied
  <2>2. QED
    BY <2>1, MailEmpty
<1>11. QED
  BY <1>2, <1>3, <1>4, <1>5, <1>6, <1>7, <1>8, <1>9, <1>10 DEF GameStep

LEMMA MailKeeps == MailInv /\ [Next \/ Shot]_vars => MailInv'
<1> SUFFICES ASSUME MailInv, [Next \/ Shot]_vars PROVE MailInv'
  OBVIOUS
<1>1. CASE GameStep
  BY <1>1, GameMail, QueueMail DEF MailInv
<1>2. CASE ~GameStep
  <2>1. UNCHANGED g
    <3>1. CASE PlayerStep \/ \E key : ReadKey(key)
      BY <3>1 DEF PlayerStep, ReadKey, PlayerEnds, TogglePause, PauseText,
         DrawResumed, LockFrog, ShootLeft, ShootRight, Quit, Move, Publish, locals
    <3>2. CASE \E i \in CrocIds : CrocStep(i)
      BY <3>2 DEF CrocStep, Swim, DropFrog, ShiftFrog, Aim, Fire, Announce, CrocEnds, locals
    <3>3. CASE \E k \in BulletIds : BulletStep(k)
      BY <3>3 DEF BulletStep, FlyOver, FlyStop, Fly, Tell, ClearSlot, LastMessage, locals
    <3>4. CASE (\E t \in Producers : Cancelled(t)) \/ RunGame \/ Signal \/ Shot
                 \/ UNCHANGED vars
      BY <3>4 DEF Cancelled, RunGame, JoinGame, JoinCroc, JoinPlayer, CancelBullet,
         JoinBullet, Destroy, Signal, Shot, vars, locals
    <3>5. QED
      BY <1>2, <3>1, <3>2, <3>3, <3>4 DEF Next, Playing, Finished
  <2>2. QED
    BY <2>1, QueueMail DEF MailInv
<1>3. QED
  BY <1>1, <1>2

LEMMA DenInit == Init => DenInv
<1> SUFFICES ASSUME Init PROVE DenInv
  OBVIOUS
<1>1. pc[Game] = "top" /\ pc[Player] = "read"
  BY ThreadNames DEF Init, Game, Player
<1>2. QED
  BY <1>1 DEF DenInv, Steering

(* The game loop gets to a den only by Den.                                *)
LEMMA ToTheDen ==
  ASSUME HoldInv, MailInv, GameStep, pc'[Game] = "takeDen"
  PROVE  Den
<1> USE DEF At, Go
<1>1. DOMAIN pc = Threads /\ Game \in Threads
  BY ThreadNames DEF HoldInv
<1>2. ASSUME NEW l, pc' = [pc EXCEPT ![Game] = l], l # "takeDen" PROVE FALSE
  BY <1>1, <1>2
<1>3. CASE FrameStart \/ GameEnds \/ ResetFlags \/ ResetFrog \/ ResetPut \/ Boarded \/ Won
             \/ GameOver \/ Crash \/ KillBoth \/ KillMsgs \/ BulletsDone \/ Look
             \/ Attach
  BY <1>1, <1>3 DEF FrameStart, GameEnds, ResetFlags, ResetFrog, ResetPut, Boarded, Won,
     GameOver, Crash, KillBoth, KillMsgs, BulletsDone, Look, Attach
<1>4. CASE Tick \/ Drown \/ NoDen \/ Hurt
  BY <1>1, <1>4 DEF Tick, Drown, NoDen, Hurt, LoseLife, CallReset
<1>5. CASE ResetTime
  BY <1>2, <1>5 DEF ResetTime, MailInv
<1>6. CASE TakeDen
  BY <1>1, <1>6 DEF TakeDen
<1>7. CASE Ride \/ Scan \/ Water \/ Hit
  BY <1>1, <1>7 DEF Ride, Scan, Water, Hit
<1>8. CASE TestBullet \/ CopyBullet \/ Pairs \/ KillPut
  BY <1>1, <1>8 DEF TestBullet, CopyBullet, Pairs, KillPut, NextBullet
<1>9. CASE TakeMessage
  <2>1. CASE queue # <<>> /\ pc' = [pc EXCEPT ![Game] = Head(queue).type]
    BY <1>2, <2>1, MailRead DEF MailInv, MsgTypes
  <2>2. QED
    BY <1>1, <1>9, <2>1 DEF TakeMessage
<1>10. CASE ApplyFrog \/ ApplyCroc \/ Carry \/ ApplyBullet
  BY <1>1, <1>10 DEF ApplyFrog, ApplyCroc, Carry, ApplyBullet, Applied
<1>11. CASE Aboard
  BY <1>1, <1>11 DEF Aboard, Applied
<1>12. CASE DrawFrame
  BY <1>1, <1>12 DEF DrawFrame, Draw, GameDrawn
<1>13. QED
  BY <1>3, <1>4, <1>5, <1>6, <1>7, <1>8, <1>9, <1>10, <1>11, <1>12 DEF GameStep

LEMMA GameMovesItself ==
  ASSUME DOMAIN pc = Threads, GameStep
  PROVE  \A t \in Threads \ {Game} : pc'[t] = pc[t]
<1> USE DEF Go
<1>1. CASE FrameStart \/ GameEnds \/ ResetFlags \/ ResetFrog \/ ResetPut \/ ResetTime
             \/ Boarded \/ Won \/ GameOver \/ Crash \/ KillBoth \/ KillMsgs
             \/ BulletsDone \/ Look \/ Attach \/ Den \/ TakeDen
  BY <1>1 DEF FrameStart, GameEnds, ResetFlags, ResetFrog, ResetPut, ResetTime, Boarded,
     Won, GameOver, Crash, KillBoth, KillMsgs, BulletsDone, Look, Attach, Den, TakeDen
<1>2. CASE Tick \/ Drown \/ NoDen \/ Hurt
  BY <1>2 DEF Tick, Drown, NoDen, Hurt, LoseLife, CallReset
<1>3. CASE Ride \/ Scan \/ Water \/ Hit
  BY <1>3 DEF Ride, Scan, Water, Hit
<1>4. CASE TestBullet \/ CopyBullet \/ Pairs \/ KillPut
  BY <1>4 DEF TestBullet, CopyBullet, Pairs, KillPut, NextBullet
<1>5. CASE TakeMessage \/ ApplyFrog \/ ApplyCroc \/ Carry \/ ApplyBullet \/ Aboard
  BY <1>5 DEF TakeMessage, ApplyFrog, ApplyCroc, Carry, ApplyBullet, Aboard, Applied
<1>6. CASE DrawFrame
  BY <1>6 DEF DrawFrame, Draw, GameDrawn
<1>7. QED
  BY <1>1, <1>2, <1>3, <1>4, <1>5, <1>6 DEF GameStep

LEMMA GameKeepsFrogMutex ==
  ASSUME DOMAIN lock = Mutexes, GameStep, ~Den, ~TakeDen
  PROVE  lock'[FrogMutex] = lock[FrogMutex]
<1>1. CASE Tick \/ DrawFrame
  BY <1>1, MutexNames DEF Tick, DrawFrame, Draw, GameDrawn, Lock, Unlock
<1>2. CASE ~Tick /\ ~DrawFrame
  <2>1. UNCHANGED lock
    BY <1>2 DEF GameStep, FrameStart, GameEnds, ResetFlags, ResetFrog, ResetPut, ResetTime,
       Look, Ride, Scan, Attach, Boarded, Water, Drown, NoDen, Won, GameOver, BulletsDone,
       TestBullet, CopyBullet, Hit, Hurt, Pairs, Crash, KillBoth, KillMsgs, KillPut,
       TakeMessage, ApplyFrog, ApplyCroc, Aboard, Carry, ApplyBullet
  <2>2. QED
    BY <2>1
<1>3. QED
  BY <1>1, <1>2

(* What the threads other than the game loop do to the player's mutex, and *)
(* to the frog, is done with it or when it is free.                        *)
DenSafe ==
  /\ UNCHANGED g /\ pc'[Game] = pc[Game]
  /\ pc'[Player] \in Steering => lock'[FrogMutex] = Player
  /\ lock[FrogMutex] = Game => frog' = frog /\ lock'[FrogMutex] = Game

LEMMA PlayerAndDen ==
  ASSUME HoldInv, DenInv, PlayerStep \/ \E key : ReadKey(key)
  PROVE  DenSafe
<1>1. DOMAIN pc = Threads /\ DOMAIN lock = Mutexes
  BY DEF HoldInv
<1> USE <1>1, ThreadNames, MutexNames DEF DenSafe, Steering
<1>2. CASE (\E key : ReadKey(key)) \/ PlayerEnds
  BY <1>2 DEF ReadKey, PlayerEnds, Go, world, locals
<1>3. CASE TogglePause \/ PauseText
  BY <1>3 DEF TogglePause, PauseText, Go, Lock, Unlock, world, locals
<1>4. CASE DrawResumed
  BY <1>4 DEF DrawResumed, Draw, PlayerDrawn, At, Go, Lock, world
<1>5. CASE LockFrog
  BY <1>5 DEF LockFrog, At, Go, Lock, Free, world
<1>6. CASE ShootLeft \/ ShootRight
  <2>1. PICK l, q, dir : CreateBullet(q, dir, FALSE, [pc EXCEPT ![Player] = l])
    BY <1>6 DEF ShootLeft, ShootRight
  <2>2. pc[Player] \in Steering /\ UNCHANGED <<frog, g, lock>>
    BY <1>6 DEF ShootLeft, ShootRight, At
  <2>3. pc'[Game] = pc[Game]
    BY <2>1, <2>2, CreateHolds
  <2>4. QED
    BY <2>2, <2>3 DEF DenInv
<1>7. CASE Quit
  BY <1>7 DEF Quit, At, Go, world, locals, DenInv
<1>8. CASE Move
  BY <1>8 DEF Move, At, Go, locals, DenInv
<1>9. CASE Publish
  BY <1>9 DEF Publish, At, Go, Unlock, world, DenInv
<1>10. QED
  BY <1>2, <1>3, <1>4, <1>5, <1>6, <1>7, <1>8, <1>9 DEF PlayerStep

LEMMA CrocAndDen ==
  ASSUME HoldInv, DenInv, \E i \in CrocIds : CrocStep(i)
  PROVE  DenSafe
<1>1. DOMAIN pc = Threads /\ DOMAIN lock = Mutexes
  BY DEF HoldInv
<1>2. PICK i \in CrocIds : CrocStep(i)
  OBVIOUS
<1>3. ASSUME UNCHANGED g, NEW l, Go(Croc(i), l),
             lock'[FrogMutex] = lock[FrogMutex],
             UNCHANGED frog \/ lock[FrogMutex] = Nobody
      PROVE  DenSafe
  <2>1. pc'[Game] = pc[Game] /\ pc'[Player] = pc[Player]
    BY <1>1, <1>3, ThreadNames DEF Go
  <2>2. QED
    BY <1>3, <2>1, ThreadNames DEF DenSafe, DenInv
<1>4. CASE Swim(i)
  <2>1. UNCHANGED <<frog, g>> /\ lock' = [lock EXCEPT ![CrocMutex(i)] = Croc(i)]
    BY <1>4 DEF Swim, Lock
  <2>2. PICK l : Go(Croc(i), l)
    BY <1>4, Zenon DEF Swim
  <2>3. QED
    BY <1>1, <1>3, <2>1, <2>2, MutexNames
<1>5. CASE DropFrog(i) \/ Aim(i) \/ CrocEnds(i) \/ ShiftFrog(i)
  <2>1. UNCHANGED <<g, lock>> /\ (UNCHANGED frog \/ lock[FrogMutex] = Nobody)
    BY <1>5 DEF DropFrog, Aim, CrocEnds, ShiftFrog, Free, world, locals
  <2>2. PICK l : Go(Croc(i), l)
    BY <1>5 DEF DropFrog, Aim, CrocEnds, ShiftFrog
  <2>3. QED
    BY <1>3, <2>1, <2>2
<1>6. CASE Announce(i)
  <2>1. UNCHANGED <<frog, g>> /\ lock' = [lock EXCEPT ![CrocMutex(i)] = Nobody]
    BY <1>6 DEF Announce, Unlock, world, locals
  <2>2. QED
    BY <1>1, <1>3, <1>6, <2>1, MutexNames DEF Announce
<1>7. CASE Fire(i)
  <2>1. UNCHANGED <<frog, g, lock>>
    BY <1>7 DEF Fire
  <2>2. PICK q, dir : CreateBullet(q, dir, TRUE, [pc EXCEPT ![Croc(i)] = "announce"])
    BY <1>7 DEF Fire
  <2>3. \A o \in Threads \ {Croc(i)} : pc'[o] = pc[o] \/ \E k \in BulletIds : o = Bullet(k)
    <3>1. Croc(i) \in {Player} \cup {Croc(j) : j \in CrocIds}
      OBVIOUS
    <3>2. QED
      BY <2>1, <2>2, <3>1, CreateHolds
  <2>4. pc'[Game] = pc[Game] /\ pc'[Player] = pc[Player]
    BY <2>3, ThreadNames
  <2>5. QED
    BY <2>1, <2>4 DEF DenSafe, DenInv
<1>8. QED
  BY <1>2, <1>4, <1>5, <1>6, <1>7 DEF CrocStep

LEMMA OthersAndDen ==
  ASSUME HoldInv, DenInv,
         \/ \E k \in BulletIds : BulletStep(k)
         \/ \E t \in Producers : Cancelled(t)
         \/ RunGame \/ Signal \/ Shot \/ UNCHANGED vars
  PROVE  DenSafe
<1>1. DOMAIN pc = Threads
  BY DEF HoldInv
<1>2. UNCHANGED <<frog, g, lock>>
  BY DEF BulletStep, FlyOver, FlyStop, Fly, Tell, ClearSlot, LastMessage, Cancelled,
     RunGame, JoinGame, JoinCroc, JoinPlayer, CancelBullet, JoinBullet, Destroy,
     Signal, Shot, vars, world, locals
<1>3. pc'[Game] = pc[Game] /\ (pc'[Player] = pc[Player] \/ pc'[Player] = "end")
  <2>1. CASE \E k \in BulletIds : BulletStep(k)
    <3>1. \E k \in BulletIds : \E l : Go(Bullet(k), l)
      BY <2>1 DEF BulletStep, FlyOver, FlyStop, Fly, Tell, ClearSlot, LastMessage, Me
    <3>2. QED
      BY <1>1, <3>1, ThreadNames DEF Go
  <2>2. CASE \E t \in Producers : Cancelled(t)
    <3>1. PICK t \in Producers : Go(t, "end")
      BY <2>2 DEF Cancelled
    <3>2. Game \notin Producers /\ Producers \subseteq Threads
      BY ThreadNames DEF Producers, Threads
    <3>3. QED
      BY <1>1, <3>1, <3>2, ThreadNames DEF Go
  <2>3. CASE Shot
    <3>1. PICK q, dir, enemy : CreateBullet(q, dir, enemy, pc)
      BY <2>3, Zenon DEF Shot
    <3>2. \/ pc' = pc
          \/ /\ IdleThreads # {}
             /\ pc' = [pc EXCEPT ![Bullet(First(IdleThreads))] = "loop"]
      BY <3>1, CreateMoves, Zenon
    <3>3. IdleThreads # {} => First(IdleThreads) \in BulletIds
      <4>1. IdleThreads \in SUBSET Nat
        BY DEF IdleThreads, BulletIds
      <4>2. QED
        BY <4>1, LeastExists DEF First, IdleThreads
    <3>4. QED
      BY <1>1, <3>2, <3>3, ThreadNames
  <2>4. CASE RunGame \/ Signal \/ UNCHANGED vars
    BY <2>4 DEF RunGame, JoinGame, JoinCroc, JoinPlayer, CancelBullet, JoinBullet, Destroy,
       Signal, vars
  <2>5. QED
    BY <2>1, <2>2, <2>3, <2>4
<1>4. QED
  BY <1>2, <1>3 DEF DenSafe, DenInv, Steering

(* While the player's mutex is held for a den the frog stays in it.        *)
LEMMA DenKeeps ==
  HoldInv /\ HoldInv' /\ MailInv /\ DenInv /\ [Next \/ Shot]_vars => DenInv'
<1> SUFFICES ASSUME HoldInv, HoldInv', MailInv, DenInv, [Next \/ Shot]_vars
             PROVE  DenInv'
  OBVIOUS
<1>1. DOMAIN pc = Threads /\ DOMAIN lock = Mutexes
  BY DEF HoldInv
<1>2. CASE GameStep
  <2>1. pc'[Player] = pc[Player]
    BY <1>1, <1>2, GameMovesItself, ThreadNames
  <2>2. CASE Den
    <3>1. /\ pc' = [pc EXCEPT ![Game] = AfterDen(frog)] /\ UNCHANGED frog
          /\ lock[FrogMutex] = Nobody
          /\ lock' = IF FreeDen(frog) = {} THEN lock ELSE [lock EXCEPT ![FrogMutex] = Game]
      BY <2>2 DEF Den, Go, Free, Lock, world
    <3>2. g' = [g EXCEPT !.i = 1, !.den = FreeDen(frog)]
      BY <2>2 DEF Den
    <3>3. g'.den = FreeDen(frog)
      BY <3>2 DEF MailInv, Fields
    <3>4. pc'[Game] = AfterDen(frog)
      BY <1>1, <3>1, ThreadNames
    <3>5. ASSUME AfterDen(frog) = "takeDen"
          PROVE  FreeDen(frog) # {} /\ frog.y = 0 /\ FreeDen(frog) \subseteq DenAt(frog)
      <4>1. FreeDen(frog) # {}
        BY <3>5 DEF AfterDen
      <4>2. QED
        BY <4>1 DEF FreeDen
    <3>6. pc[Player] \notin Steering
      BY <3>1, ThreadNames DEF DenInv
    <3>7. QED
      BY <1>1, <2>1, <3>1, <3>3, <3>4, <3>5, <3>6, MutexNames DEF DenInv
  <2>3. CASE TakeDen
    <3>1. lock[FrogMutex] = Game
      BY <2>3 DEF TakeDen, At, DenInv
    <3>2. pc[Player] \notin Steering
      BY <3>1, ThreadNames DEF DenInv
    <3>3. pc'[Game] # "takeDen"
      BY <1>1, <2>3, ThreadNames DEF TakeDen, Go
    <3>4. QED
      BY <2>1, <3>2, <3>3 DEF DenInv
  <2>4. CASE ~Den /\ ~TakeDen
    <3>1. pc'[Game] # "takeDen"
      BY <1>2, <2>4, ToTheDen
    <3>2. lock'[FrogMutex] = lock[FrogMutex]
      BY <1>1, <1>2, <2>4, GameKeepsFrogMutex
    <3>3. QED
      BY <2>1, <3>1, <3>2 DEF DenInv
  <2>5. QED
    BY <2>2, <2>3, <2>4
<1>3. ASSUME DenSafe
      PROVE  DenInv'
  <2> SUFFICES ASSUME pc[Game] = "takeDen"
               PROVE  lock'[FrogMutex] = Game /\ frog'.y = 0 /\ g'.den \subseteq DenAt(frog')
    BY <1>3 DEF DenInv, DenSafe
  <2>1. lock[FrogMutex] = Game /\ frog.y = 0 /\ g.den \subseteq DenAt(frog)
    BY DEF DenInv
  <2>2. QED
    BY <1>3, <2>1 DEF DenSafe
<1>4. CASE PlayerStep \/ \E key : ReadKey(key)
  BY <1>3, <1>4, PlayerAndDen
<1>5. CASE \E i \in CrocIds : CrocStep(i)
  BY <1>3, <1>5, CrocAndDen
<1>6. CASE \/ \E k \in BulletIds : BulletStep(k)
           \/ \E t \in Producers : Cancelled(t)
           \/ RunGame \/ Signal \/ Shot \/ UNCHANGED vars
  BY <1>3, <1>6, OthersAndDen
<1>7. QED
  BY <1>2, <1>4, <1>5, <1>6 DEF Next, Playing, Finished

LEMMA DenInvariance == OpenSpec => [](HoldInv /\ MailInv /\ DenInv)
<1>1. Init => HoldInv /\ MailInv /\ DenInv
  BY HoldInit, MailInit, DenInit
<1>2. HoldInv /\ MailInv /\ DenInv /\ [Next \/ Shot]_vars
        => (HoldInv /\ MailInv /\ DenInv)'
  BY NextHolds, MailKeeps, DenKeeps
<1>3. QED
  BY <1>1, <1>2, PTL DEF OpenSpec

(* A den is taken only by a frog that is in it at that moment: between the *)
(* test and the taking nobody else can have the player's mutex, and who    *)
(* moves the frog has it.                                                  *)
THEOREM DenTaken == Spec => DenTakenByFrog
<1> DEFINE Taken == [\A i \in tane' \ tane : frog.y = 0 /\ i \in DenAt(frog)]_vars
<1>1. DenInv /\ [Next]_vars => Taken
  <2> SUFFICES ASSUME DenInv, Next, NEW i \in tane' \ tane
               PROVE  frog.y = 0 /\ i \in DenAt(frog)
    OBVIOUS
  <2>1. TakeDen
    <3>1. CASE GameStep /\ ~TakeDen
      BY <3>1 DEF GameStep, FrameStart, GameEnds, Tick, ResetFlags, ResetFrog, ResetPut,
         ResetTime, Look, Ride, Scan, Attach, Boarded, Water, Drown, Den, NoDen, Won,
         GameOver, BulletsDone, TestBullet, CopyBullet, Hit, Hurt, Pairs, Crash, KillBoth,
         KillMsgs, KillPut, TakeMessage, ApplyFrog, ApplyCroc, Aboard, Carry, ApplyBullet,
         DrawFrame, status
    <3>2. CASE PlayerStep \/ \E key : ReadKey(key)
      BY <3>2 DEF PlayerStep, ReadKey, PlayerEnds, TogglePause, PauseText, DrawResumed,
         LockFrog, ShootLeft, ShootRight, Quit, Move, Publish, status
    <3>3. CASE \E j \in CrocIds : CrocStep(j)
      BY <3>3 DEF CrocStep, Swim, DropFrog, ShiftFrog, Aim, Fire, Announce, CrocEnds, status
    <3>4. CASE \E k \in BulletIds : BulletStep(k)
      BY <3>4 DEF BulletStep, FlyOver, FlyStop, Fly, Tell, ClearSlot, LastMessage, status
    <3>5. CASE (\E t \in Producers : Cancelled(t)) \/ RunGame \/ Signal \/ UNCHANGED vars
      BY <3>5 DEF Cancelled, RunGame, JoinGame, JoinCroc, JoinPlayer, CancelBullet,
         JoinBullet, Destroy, Signal, vars, status
    <3>6. QED
      BY <3>1, <3>2, <3>3, <3>4, <3>5 DEF Next, Playing, Finished
  <2>2. QED
    BY <2>1 DEF TakeDen, At, DenInv
<1>2. Spec => []DenInv
  BY DenInvariance, SpecOpens, PTL
<1>3. QED
  BY <1>1, <1>2, PTL DEF Spec, DenTakenByFrog
=============================================================================
