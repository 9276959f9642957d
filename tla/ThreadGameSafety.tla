--------------------------- MODULE ThreadGameSafety --------------------------
(***************************************************************************)
(* Who waits for whom, and what becomes of a bullet: the safety properties *)
(* of ThreadGame that need its types.                                      *)
(***************************************************************************)
EXTENDS ThreadTypeProofs, SequenceTheorems

PlayerLabels == {"read", "pause", "pauseText", "draw", "drawCroc", "lockFrog",
                 "shootLeft", "shootRight", "quit", "move", "publish", "end"}
CrocLabels == {"loop", "drop", "shift", "aim", "fire", "announce", "end"}
BulletLabels == {"none", "loop", "tell", "tellOut", "tellLast", "clear", "last", "end"}

(* Where the threads can be; and game_mutex is kept from the pause key to  *)
(* the end of what it starts.                                              *)
Labels ==
  /\ pc[Player] \in PlayerLabels
  /\ pc[Player] \in {"pauseText", "draw", "drawCroc"} => lock[GameMutex] = Player
  /\ \A i \in CrocIds : pc[Croc(i)] \in CrocLabels
  /\ \A k \in BulletIds : pc[Bullet(k)] \in BulletLabels

SafeInv == TypeInv /\ Labels

(* create_bullet moves its caller on and perhaps an idle thread.           *)
LEMMA CreateStarts ==
  ASSUME DOMAIN pc = Threads, NEW q, NEW dir, NEW enemy, NEW next,
         DOMAIN next = Threads, \A k \in BulletIds : next[Bullet(k)] = pc[Bullet(k)],
         CreateBullet(q, dir, enemy, next)
  PROVE  /\ DOMAIN pc' = Threads
         /\ \A t \in Threads : \/ pc'[t] = next[t]
                               \/ \E k \in BulletIds : /\ t = Bullet(k) /\ pc[t] = "none"
                                                       /\ pc'[t] = "loop"
<1>1. CASE pc' = next
  BY <1>1
<1>2. CASE /\ IdleThreads # {}
           /\ pc' = [next EXCEPT ![Bullet(First(IdleThreads))] = "loop"]
  <2>1. First(IdleThreads) \in IdleThreads
    <3>1. IdleThreads \in SUBSET Nat
      BY DEF IdleThreads, BulletIds
    <3>2. QED
      BY <1>2, <3>1, LeastExists DEF First
  <2>2. PICK k \in BulletIds : k = First(IdleThreads) /\ pc[Bullet(k)] = "none"
    BY <2>1 DEF IdleThreads, At
  <2>3. pc' = [next EXCEPT ![Bullet(k)] = "loop"]
    BY <1>2, <2>2
  <2>4. QED
    BY <2>2, <2>3, ThreadNames
<1>3. QED
  BY <1>1, <1>2, CreateMoves, Zenon

LEMMA LabelsInit == Init => Labels
<1> SUFFICES ASSUME Init PROVE Labels
  OBVIOUS
<1>1. /\ pc[Player] = "read"
      /\ \A i \in CrocIds : pc[Croc(i)] = "loop"
      /\ \A k \in BulletIds : pc[Bullet(k)] = "none"
  BY ThreadNames DEF Init, Game, Player, Croc, Bullet
<1>2. QED
  BY <1>1 DEF Labels, PlayerLabels, CrocLabels, BulletLabels

(* The player's thread moves itself; a shot starts a bullet.               *)
LEMMA PlayerLabelled ==
  ASSUME HoldInv, Labels, PlayerStep \/ \E key : ReadKey(key)
  PROVE  /\ pc'[Player] \in PlayerLabels
         /\ pc'[Player] \in {"pauseText", "draw", "drawCroc"} => lock'[GameMutex] = Player
         /\ \A t \in Threads \ {Player} :
              \/ pc'[t] = pc[t]
              \/ \E k \in BulletIds : t = Bullet(k) /\ pc[t] = "none" /\ pc'[t] = "loop"
<1>1. DOMAIN pc = Threads /\ DOMAIN lock = Mutexes /\ Player \in Threads
  BY ThreadNames DEF HoldInv
<1> USE DEF Go, PlayerLabels
<1>2. CASE (\E key : ReadKey(key)) \/ PlayerEnds
  BY <1>1, <1>2 DEF ReadKey, PlayerEnds
<1>3. CASE TogglePause \/ PauseText
  BY <1>1, <1>3, MutexNames DEF TogglePause, PauseText, Lock
<1>4. CASE DrawResumed
  <2>1. CASE At(Player, "draw") /\ Lock(ScreenMutex, Player) /\ Go(Player, "drawCroc")
    BY <1>1, <2>1, MutexNames DEF At, Lock, Labels
  <2>2. CASE UNCHANGED <<pc, lock>>
    BY <2>2 DEF Labels
  <2>3. CASE PlayerDrawn
    BY <1>1, <2>3 DEF PlayerDrawn
  <2>4. QED
    BY <1>4, <2>1, <2>2, <2>3 DEF DrawResumed, Draw
<1>5. CASE LockFrog \/ Quit \/ Move \/ Publish
  BY <1>1, <1>5 DEF LockFrog, Quit, Move, Publish
<1>6. CASE ShootLeft \/ ShootRight
  <2>1. PICK l \in {"shootRight", "move"} :
          \E q, dir : CreateBullet(q, dir, FALSE, [pc EXCEPT ![Player] = l])
    <3>1. CASE ShootLeft
      BY <3>1, Zenon DEF ShootLeft
    <3>2. CASE ShootRight
      BY <3>2, Zenon DEF ShootRight
    <3>3. QED
      BY <1>6, <3>1, <3>2
  <2> DEFINE next == [pc EXCEPT ![Player] = l]
  <2>2. /\ DOMAIN next = Threads /\ \A k \in BulletIds : next[Bullet(k)] = pc[Bullet(k)]
        /\ next[Player] = l /\ \A t \in Threads \ {Player} : next[t] = pc[t]
    BY <1>1, ThreadNames
  <2>3. PICK q, dir : CreateBullet(q, dir, FALSE, next)
    BY <2>1
  <2> HIDE DEF next
  <2>4. \A t \in Threads : \/ pc'[t] = next[t]
                           \/ \E k \in BulletIds : /\ t = Bullet(k) /\ pc[t] = "none"
                                                   /\ pc'[t] = "loop"
    <3>1. DOMAIN pc = Threads /\ DOMAIN next = Threads
      BY <1>1, <2>2
    <3>2. \A k \in BulletIds : next[Bullet(k)] = pc[Bullet(k)]
      BY <2>2
    <3>3. QED
      BY <2>3, <3>1, <3>2, CreateStarts, Zenon
  <2>5. pc'[Player] = l
    BY <1>1, <2>2, <2>4, ThreadNames
  <2>6. QED
    BY <2>1, <2>2, <2>4, <2>5
<1>7. QED
  BY <1>2, <1>3, <1>4, <1>5, <1>6 DEF PlayerStep

LEMMA CrocLabelled ==
  ASSUME HoldInv, Labels, NEW i \in CrocIds, CrocStep(i)
  PROVE  /\ pc'[Croc(i)] \in CrocLabels
         /\ \A t \in Threads \ {Croc(i)} :
              \/ pc'[t] = pc[t]
              \/ \E k \in BulletIds : t = Bullet(k) /\ pc[t] = "none" /\ pc'[t] = "loop"
<1>1. DOMAIN pc = Threads /\ Croc(i) \in Threads
  BY ThreadNames DEF HoldInv
<1>2. CASE Swim(i)
  <2> DEFINE l == CASE on = i /\ Vanishes(i, croc[i]) -> "drop"
                    [] on = i /\ GrowsLeft(i, croc[i]) -> "shift"
                    [] OTHER -> "aim"
  <2>1. l \in CrocLabels
    BY DEF CrocLabels
  <2>2. pc' = [pc EXCEPT ![Croc(i)] = l]
    BY <1>2, Zenon DEF Swim, Go
  <2> HIDE DEF l
  <2>3. QED
    BY <1>1, <2>1, <2>2
<1>3. CASE DropFrog(i) \/ ShiftFrog(i) \/ Aim(i) \/ Announce(i) \/ CrocEnds(i)
  BY <1>1, <1>3 DEF DropFrog, ShiftFrog, Aim, Announce, CrocEnds, Go, CrocLabels
<1>4. CASE Fire(i)
  <2> DEFINE next == [pc EXCEPT ![Croc(i)] = "announce"]
  <2>1. /\ DOMAIN next = Threads /\ \A k \in BulletIds : next[Bullet(k)] = pc[Bullet(k)]
        /\ next[Croc(i)] = "announce" /\ \A t \in Threads \ {Croc(i)} : next[t] = pc[t]
    BY <1>1, ThreadNames
  <2>2. PICK q, dir : CreateBullet(q, dir, TRUE, next)
    BY <1>4 DEF Fire
  <2> HIDE DEF next
  <2>3. \A t \in Threads : \/ pc'[t] = next[t]
                           \/ \E k \in BulletIds : /\ t = Bullet(k) /\ pc[t] = "none"
                                                   /\ pc'[t] = "loop"
    BY <1>1, <2>1, <2>2, CreateStarts
  <2>4. pc'[Croc(i)] = "announce"
    BY <1>1, <2>1, <2>3, ThreadNames
  <2>5. QED
    BY <2>1, <2>3, <2>4 DEF CrocLabels
<1>5. QED
  BY <1>2, <1>3, <1>4 DEF CrocStep

LEMMA BulletLabelled ==
  ASSUME HoldInv, NEW k \in BulletIds, BulletStep(k)
  PROVE  /\ pc'[Bullet(k)] \in BulletLabels
         /\ \A t \in Threads \ {Bullet(k)} : pc'[t] = pc[t]
<1>1. DOMAIN pc = Threads /\ Bullet(k) \in Threads
  BY ThreadNames DEF HoldInv
<1>2. \E l \in BulletLabels : Go(Bullet(k), l)
  <2>1. CASE Tell(k)
    BY <2>1 DEF Tell, Me, BulletLabels
  <2>2. CASE ~Tell(k)
    BY <2>2 DEF BulletStep, FlyOver, FlyStop, Fly, ClearSlot, LastMessage, Me, BulletLabels
  <2>3. QED
    BY <2>1, <2>2
<1>3. QED
  BY <1>1, <1>2 DEF Go

LEMMA ShotStarts ==
  ASSUME HoldInv, Shot
  PROVE  \A t \in Threads :
           \/ pc'[t] = pc[t]
           \/ \E k \in BulletIds : t = Bullet(k) /\ pc[t] = "none" /\ pc'[t] = "loop"
<1>1. DOMAIN pc = Threads
  BY DEF HoldInv
<1>2. PICK q, dir, enemy : CreateBullet(q, dir, enemy, pc)
  BY Zenon DEF Shot
<1>3. QED
  BY <1>1, <1>2, CreateStarts

(* What the other threads do to game_mutex.                                *)
LEMMA PlayersMutex ==
  ASSUME HoldInv, lock[GameMutex] = Player,
         \/ GameStep \/ Shot \/ RunGame \/ Signal \/ UNCHANGED vars
         \/ \E i \in CrocIds : CrocStep(i)
         \/ \E k \in BulletIds : BulletStep(k)
         \/ \E t \in Producers : Cancelled(t)
  PROVE  lock'[GameMutex] = Player
<1>1. DOMAIN lock = Mutexes
  BY DEF HoldInv
<1>2. CASE Tick \/ Den \/ TakeDen \/ DrawFrame
  <2>1. ~Tick
    BY ThreadNames DEF Tick, Free
  <2>2. QED
    BY <1>1, <1>2, <2>1, MutexNames DEF Den, TakeDen, DrawFrame, Draw, GameDrawn, Lock, Unlock
<1>3. CASE \E i \in CrocIds : CrocStep(i)
  <2>1. PICK i \in CrocIds : CrocStep(i)
    BY <1>3
  <2>2. CASE Swim(i) \/ Announce(i)
    BY <1>1, <2>2, MutexNames DEF Swim, Announce, Lock, Unlock
  <2>3. CASE ~(Swim(i) \/ Announce(i))
    BY <2>1, <2>3 DEF CrocStep, DropFrog, ShiftFrog, Aim, Fire, CrocEnds
  <2>4. QED
    BY <2>2, <2>3
<1>4. CASE GameStep /\ ~(Tick \/ Den \/ TakeDen \/ DrawFrame)
  BY <1>4 DEF GameStep, FrameStart, GameEnds, ResetFlags, ResetFrog, ResetPut, ResetTime,
     Look, Ride, Scan, Attach, Boarded, Water, Drown, NoDen, Won, GameOver, BulletsDone,
     TestBullet, CopyBullet, Hit, Hurt, Pairs, Crash, KillBoth, KillMsgs, KillPut,
     TakeMessage, ApplyFrog, ApplyCroc, Aboard, Carry, ApplyBullet
<1>5. CASE \/ Shot \/ RunGame \/ Signal \/ UNCHANGED vars
           \/ \E k \in BulletIds : BulletStep(k)
           \/ \E t \in Producers : Cancelled(t)
  BY <1>5 DEF Shot, RunGame, JoinGame, JoinCroc, JoinPlayer, CancelBullet, JoinBullet,
     Destroy, Signal, vars, BulletStep, FlyOver, FlyStop, Fly, Tell, ClearSlot, LastMessage,
     Cancelled
<1>6. QED
  BY <1>2, <1>3, <1>4, <1>5

LEMMA LabelsKeep == HoldInv /\ Labels /\ [Next \/ Shot]_vars => Labels'
<1> SUFFICES ASSUME HoldInv, Labels, [Next \/ Shot]_vars PROVE Labels'
  OBVIOUS
<1> USE DEF Labels
<1>1. DOMAIN pc = Threads /\ "loop" \in BulletLabels
  BY DEF HoldInv, BulletLabels
<1>2. CASE GameStep
  BY <1>1, <1>2, GameMovesItself, PlayersMutex, ThreadNames
<1>3. CASE PlayerStep \/ \E key : ReadKey(key)
  BY <1>1, <1>3, PlayerLabelled, ThreadNames
<1>4. CASE \E i \in CrocIds : CrocStep(i)
  <2>1. PICK i \in CrocIds : CrocStep(i)
    BY <1>4
  <2>2. pc'[Player] = pc[Player]
    BY <2>1, CrocLabelled, ThreadNames
  <2>3. QED
    BY <1>1, <1>4, <2>1, <2>2, CrocLabelled, PlayersMutex, ThreadNames
<1>5. CASE \E k \in BulletIds : BulletStep(k)
  <2>1. PICK k \in BulletIds : BulletStep(k)
    BY <1>5
  <2>2. pc'[Player] = pc[Player] /\ \A i \in CrocIds : pc'[Croc(i)] = pc[Croc(i)]
    BY <2>1, BulletLabelled, ThreadNames
  <2>3. QED
    BY <1>1, <1>5, <2>1, <2>2, BulletLabelled, PlayersMutex, ThreadNames
<1>6. CASE \E t \in Producers : Cancelled(t)
  <2>1. PICK t \in Producers : /\ pc' = [pc EXCEPT ![t] = "end"]
                               /\ pc[t] \notin {"pauseText", "draw", "drawCroc"}
    BY <1>6 DEF Cancelled, Go, Putting
  <2>2. \A o \in Threads : pc'[o] = pc[o] \/ pc'[o] = "end"
    BY <1>1, <2>1
  <2>3. QED
    BY <1>6, <2>2, PlayersMutex, ThreadNames DEF PlayerLabels, CrocLabels, BulletLabels
<1>7. CASE Shot
  BY <1>1, <1>7, ShotStarts, PlayersMutex, ThreadNames
<1>8. CASE RunGame \/ Signal \/ UNCHANGED vars
  <2>1. UNCHANGED pc
    BY <1>8 DEF RunGame, JoinGame, JoinCroc, JoinPlayer, CancelBullet, JoinBullet, Destroy,
       Signal, vars
  <2>2. QED
    BY <1>8, <2>1, PlayersMutex
<1>9. QED
  BY <1>2, <1>3, <1>4, <1>5, <1>6, <1>7, <1>8 DEF Next, Playing, Finished

LEMMA SafeInvariance == OpenSpec => []SafeInv
<1>1. Init => SafeInv
  BY HoldInit, MailInit, TypesInit, LabelsInit DEF SafeInv, TypeInv
<1>2. SafeInv /\ [Next \/ Shot]_vars => SafeInv'
  BY NextHolds, MailKeeps, TypesKeep, LabelsKeep DEF SafeInv, TypeInv
<1>3. QED
  BY <1>1, <1>2, PTL DEF OpenSpec

-----------------------------------------------------------------------------
(* Who waits for whom                                                      *)

(* What a thread that waits is in front of.                                *)
LEMMA WantedMutex ==
  ASSUME NEW t, Wants(t) # Nobody
  PROVE  \/ /\ Wants(t) = GameMutex
            /\ pc[t] \in {"pause", "shootLeft", "shootRight", "quit", "drop", "fire",
                          "timer", "resetTime", "boarded", "drown", "takeDen", "noDen",
                          "over", "hurt", "crash"}
         \/ /\ Wants(t) = FrogMutex
            /\ pc[t] \in {"lockFrog", "shift", "look", "resetFrog", "den", "hit",
                          "MSG_PLAYER", "carry"}
         \/ Wants(t) = ScreenMutex /\ pc[t] \in {"pauseText", "draw", "won"}
         \/ Wants(t) = CrocMutex(g.i) /\ pc[t] = "scan"
         \/ Wants(t) = CrocMutex(Msg.id) /\ pc[t] = "MSG_CROCODILE"
         \/ /\ pc[t] = "drawCroc"
            /\ LET i == IF t = Game THEN g.i ELSE p.i
               IN Wants(t) = IF i <= NumCrocs THEN CrocMutex(i) ELSE FrogMutex
  BY DEF Wants

(* The owner of the frog's mutex waits for game_mutex alone, a crocodile   *)
(* with its own for game_mutex or the frog's: a set of threads that has    *)
(* nobody who waits for room and not the owner of game_mutex has one that  *)
(* waits for nobody in it.                                                 *)
LEMMA ChainsEnd ==
  ASSUME SafeInv, NEW S \in SUBSET Threads, Circle(S),
         lock[GameMutex] \notin S, \A t \in S : ~AwaitsRoom(t)
  PROVE  FALSE
<1>1. /\ HoldInv /\ Labels /\ S # {} /\ lock[GameMutex] \notin S /\ Nobody \notin S
      /\ \A t \in S : Wants(t) # Nobody /\ lock[Wants(t)] \in S
  <2>1. Nobody \notin Threads
    BY DEF Threads, Producers, Nobody, Game, Player, Croc, Bullet
  <2>2. QED
    BY <2>1 DEF SafeInv, TypeInv, Circle, WaitsFor
<1>2. \A t \in S : pc[t] \notin {"move", "publish", "end", "aim", "announce"} /\ Wants(t) # GameMutex
  <2> SUFFICES ASSUME NEW t \in S
               PROVE pc[t] \notin {"move", "publish", "end", "aim", "announce"} /\ Wants(t) # GameMutex
    OBVIOUS
  <2>1. Wants(t) # Nobody /\ lock[Wants(t)] # Nobody
    BY <1>1
  <2>2. QED
    BY <1>1, <2>1, WantedMutex
<1>3. pc[Player] \notin Steering \/ Player \notin S
  BY <1>1, <1>2 DEF Steering, Wants
<1>4. pc[Game] # "takeDen" \/ Game \notin S
  BY <1>1, <1>2 DEF Wants
<1>5. \A t \in S : Wants(t) # FrogMutex
  <2> SUFFICES ASSUME NEW t \in S, Wants(t) = FrogMutex PROVE FALSE
    OBVIOUS
  <2>1. lock[FrogMutex] \in {Game, Player} /\ lock[FrogMutex] \in S
    BY <1>1 DEF HoldInv, Owners
  <2>2. QED
    BY <1>1, <1>2, <1>3, <1>4, <2>1 DEF HoldInv, Whereabouts
<1>6. \A i \in CrocIds : Croc(i) \in S => pc[Croc(i)] \notin Swimming \cup {"end"}
  <2> SUFFICES ASSUME NEW i \in CrocIds, Croc(i) \in S, pc[Croc(i)] \in Swimming \cup {"end"}
               PROVE  FALSE
    OBVIOUS
  <2>1. CASE pc[Croc(i)] \in {"drop", "fire"}
    BY <1>2, <2>1 DEF Wants
  <2>2. CASE pc[Croc(i)] = "shift"
    BY <1>5, <2>2 DEF Wants
  <2>3. QED
    BY <1>2, <2>1, <2>2 DEF Swimming
<1>7. \A t \in S, i \in CrocIds : Wants(t) # CrocMutex(i)
  <2> SUFFICES ASSUME NEW t \in S, NEW i \in CrocIds, Wants(t) = CrocMutex(i) PROVE FALSE
    OBVIOUS
  <2>1. lock[CrocMutex(i)] = Croc(i) /\ Croc(i) \in S
    BY <1>1 DEF HoldInv, Owners
  <2>2. QED
    BY <1>1, <1>6, <2>1 DEF HoldInv, Whereabouts
<1>8. Player \in S => pc[Player] \notin {"pauseText", "draw", "drawCroc"}
  BY <1>1 DEF Labels
<1>9. \A t \in S : pc[t] \in {"scan", "MSG_CROCODILE", "drawCroc"} => t = Game
  BY <1>1, <1>8 DEF Threads, Producers, Labels, PlayerLabels, CrocLabels, BulletLabels
<1>10. Game \in S => pc[Game] \notin {"scan", "MSG_CROCODILE", "drawCroc"}
  <2> SUFFICES ASSUME Game \in S, pc[Game] \in {"scan", "MSG_CROCODILE", "drawCroc"}
               PROVE  FALSE
    OBVIOUS
  <2>1. Ready(pc[Game])
    BY DEF SafeInv, TypeInv, Typed, LoopTypes
  <2>2. CASE pc[Game] = "scan"
    BY <1>7, <2>1, <2>2 DEF Wants, Ready
  <2>3. CASE pc[Game] = "MSG_CROCODILE"
    <3>1. Msg.id \in CrocIds
      BY <2>3, Applying, MessageKinds DEF SafeInv, MsgTypes
    <3>2. QED
      BY <1>7, <2>3, <3>1 DEF Wants
  <2>4. CASE pc[Game] = "drawCroc"
    <3>1. Wants(Game) = IF g.i <= NumCrocs THEN CrocMutex(g.i) ELSE FrogMutex
      BY <2>4 DEF Wants
    <3>2. g.i <= NumCrocs => g.i \in CrocIds
      BY <2>1, <2>4, Sizes DEF Ready, CrocIds
    <3>3. QED
      BY <1>5, <1>7, <3>1, <3>2
  <2>5. QED
    BY <2>2, <2>3, <2>4
<1>11. \A t \in S : Wants(t) = ScreenMutex
  BY <1>1, <1>2, <1>5, <1>9, <1>10, WantedMutex
<1>12. lock[ScreenMutex] \in {Game, Player} /\ lock[ScreenMutex] \in S
  BY <1>1, <1>11 DEF HoldInv, Owners
<1>13. QED
  BY <1>1, <1>8, <1>10, <1>12 DEF HoldInv, Whereabouts

(* Every circle has one of the three causes, whatever the clock and the    *)
(* keys do, and whatever the buffer holds: somebody in it waits for room,  *)
(* or it goes through the owner of game_mutex, and that is the game loop   *)
(* in the reset of the timer or the player's thread in a pause.            *)
THEOREM CircleCauses == OpenSpec => []CirclesHaveCause
<1>1. SafeInv => CirclesHaveCause
  <2> SUFFICES ASSUME SafeInv, NEW S \in SUBSET Threads, Circle(S),
                      \A t \in S : ~AwaitsRoom(t)
               PROVE  (Game \in S /\ TimerReset) \/ (Player \in S /\ PauseShown)
    BY DEF CirclesHaveCause
  <2>1. lock[GameMutex] \in S
    BY ChainsEnd
  <2>2. HoldInv /\ lock[GameMutex] \in {Game, Player}
    <3>1. Nobody \notin Threads
      BY DEF Threads, Producers, Nobody, Game, Player, Croc, Bullet
    <3>2. QED
      BY <2>1, <3>1 DEF SafeInv, TypeInv, HoldInv, Owners
  <2>3. CASE lock[GameMutex] = Game
    BY <2>1, <2>2, <2>3 DEF TimerReset, HoldInv, Whereabouts, Resetting
  <2>4. CASE lock[GameMutex] = Player
    BY <2>1, <2>2, <2>4 DEF PauseShown, HoldInv, Whereabouts
  <2>5. QED
    BY <2>2, <2>3, <2>4
<1>2. QED
  BY <1>1, SafeInvariance, PTL

(* So while nobody keeps game_mutex from one step to the next, and there   *)
(* is room, no threads wait in a circle at all, although the mutexes are   *)
(* taken in no fixed order.                                                *)
THEOREM CirclesNeedGameMutex == OpenSpec => [](Free(GameMutex) /\ Room => NoCircularWait)
<1>1. CirclesHaveCause => (Free(GameMutex) /\ Room => NoCircularWait)
  BY ThreadNames DEF CirclesHaveCause, NoCircularWait, AwaitsRoom, TimerReset, PauseShown, Free
<1>2. QED
  BY <1>1, CircleCauses, PTL

-----------------------------------------------------------------------------
(* What becomes of a bullet                                                *)

(* Of a sequence of messages q: the message at n is about slot s; the last *)
(* one about s clears it; one about s would put a bullet into it.          *)
Names(q, n, s) == q[n].type = "MSG_BULLET" /\ q[n].id = s
Clears(q, s) ==
  \E n \in 1..Len(q) : /\ Names(q, n, s) /\ ~q[n].pos.active
                       /\ \A o \in 1..Len(q) : Names(q, o, s) => o <= n
Recalls(q, s) == \E n \in 1..Len(q) : Names(q, n, s) /\ q[n].pos.active

(* Every slot that has a bullet, or may get one back by a late message, is *)
(* served by a thread or cleared by the last message about it.             *)
Cared(s) ==
  slots[s].pos.active \/ Recalls(Pending, s) => Served(s) \/ Clears(Pending, s)

(* The messages that clear a slot say so; the message that is applied is   *)
(* alone in g.out; and nobody is cancelled before the game loop has ended. *)
LastWords ==
  /\ \A k \in BulletIds : pc[Bullet(k)] = "tellLast" => ~b[k].out.active
  /\ pc[Game] = "killPut" => \A n \in 1..Len(g.out) : ~g.out[n].pos.active
  /\ pc[Game] \in MsgTypes => Len(g.out) = 1
  /\ DOMAIN m = {"at", "i", "target", "stuck"}
  /\ m.at = "game" => m.target = Nobody

BulletInv ==
  /\ LastWords
  /\ m.at = "game" => \A s \in SlotIds : Cared(s)

LEMMA Appended ==
  ASSUME NEW S, NEW q \in Seq(S), NEW e \in S, NEW s
  PROVE  /\ ~(e.type = "MSG_BULLET" /\ e.id = s) =>
              /\ Clears(Append(q, e), s) <=> Clears(q, s)
              /\ Recalls(Append(q, e), s) <=> Recalls(q, s)
         /\ e.type = "MSG_BULLET" /\ e.id = s /\ ~e.pos.active => Clears(Append(q, e), s)
<1> DEFINE r == Append(q, e)
<1>1. /\ Len(q) \in Nat /\ Len(r) = Len(q) + 1 /\ r[Len(q) + 1] = e
      /\ \A n \in 1..Len(q) : r[n] = q[n]
  OBVIOUS
<1> HIDE DEF r
<1>2. ASSUME ~(e.type = "MSG_BULLET" /\ e.id = s)
      PROVE  (Clears(r, s) <=> Clears(q, s)) /\ (Recalls(r, s) <=> Recalls(q, s))
  <2>1. \A n \in 1..Len(r) : Names(r, n, s) => n \in 1..Len(q) /\ r[n] = q[n] /\ Names(q, n, s)
    BY <1>1, <1>2 DEF Names
  <2>2. \A n \in 1..Len(q) : n \in 1..Len(r) /\ r[n] = q[n] /\ (Names(q, n, s) <=> Names(r, n, s))
    BY <1>1 DEF Names
  <2>3. Clears(r, s) => Clears(q, s)
    BY <2>1, <2>2 DEF Clears
  <2>4. Clears(q, s) => Clears(r, s)
    BY <2>1, <2>2 DEF Clears
  <2>5. Recalls(r, s) <=> Recalls(q, s)
    BY <2>1, <2>2 DEF Recalls
  <2>6. QED
    BY <2>3, <2>4, <2>5
<1>3. ASSUME e.type = "MSG_BULLET" /\ e.id = s /\ ~e.pos.active
      PROVE  Clears(r, s)
  <2>1. Names(r, Len(r), s) /\ ~r[Len(r)].pos.active /\ Len(r) \in 1..Len(r)
    BY <1>1, <1>3 DEF Names
  <2>2. \A o \in 1..Len(r) : o <= Len(r)
    BY <1>1
  <2>3. QED
    BY <2>1, <2>2 DEF Clears
<1>4. QED
  BY <1>2, <1>3 DEF r

LEMMA Taken ==
  ASSUME NEW S, NEW q \in Seq(S), q # <<>>, NEW s
  PROVE  /\ ~(Head(q).type = "MSG_BULLET" /\ Head(q).id = s) =>
              /\ Clears(Tail(q), s) <=> Clears(q, s)
              /\ Recalls(Tail(q), s) <=> Recalls(q, s)
         /\ Recalls(Tail(q), s) => Recalls(q, s)
         /\ Clears(q, s) /\ Recalls(Tail(q), s) => Clears(Tail(q), s)
         /\ /\ Head(q).type = "MSG_BULLET" /\ Head(q).id = s /\ Head(q).pos.active
            => Recalls(q, s) /\ (Clears(q, s) => Clears(Tail(q), s))
<1> DEFINE r == Tail(q)
<1>1. /\ Len(r) \in Nat /\ Len(q) = Len(r) + 1 /\ q[1] = Head(q)
      /\ \A n \in 1..Len(r) : r[n] = q[n + 1]
  OBVIOUS
<1> HIDE DEF r
<1>2. \A n \in 1..Len(r) : n + 1 \in 1..Len(q) /\ (Names(q, n + 1, s) <=> Names(r, n, s))
  BY <1>1 DEF Names
<1>3. \A n \in 1..Len(q) : n # 1 => /\ n - 1 \in 1..Len(r) /\ q[n] = r[n - 1]
                                    /\ Names(r, n - 1, s) <=> Names(q, n, s)
  BY <1>1 DEF Names
<1>4. Recalls(r, s) => Recalls(q, s)
  BY <1>1, <1>2 DEF Recalls
<1>5. Names(q, 1, s) <=> Head(q).type = "MSG_BULLET" /\ Head(q).id = s
  BY <1>1 DEF Names
<1>6. ASSUME NEW n \in 2..Len(q), Names(q, n, s), ~q[n].pos.active,
             \A o \in 1..Len(q) : Names(q, o, s) => o <= n
      PROVE  Clears(r, s)
  <2>1. n - 1 \in 1..Len(r) /\ Names(r, n - 1, s) /\ ~r[n - 1].pos.active
    BY <1>1, <1>3, <1>6
  <2>2. \A o \in 1..Len(r) : Names(r, o, s) => o <= n - 1
    <3> SUFFICES ASSUME NEW o \in 1..Len(r), Names(r, o, s) PROVE o <= n - 1
      OBVIOUS
    <3>1. o + 1 <= n
      BY <1>2, <1>6
    <3>2. QED
      BY <1>1, <3>1
  <2>3. QED
    BY <2>1, <2>2 DEF Clears
<1>7. Clears(q, s) => Clears(r, s) \/ (Names(q, 1, s) /\ ~q[1].pos.active
                                        /\ \A o \in 1..Len(q) : Names(q, o, s) => o <= 1)
  <2> SUFFICES ASSUME Clears(q, s) PROVE Clears(r, s) \/ (Names(q, 1, s) /\ ~q[1].pos.active
                                        /\ \A o \in 1..Len(q) : Names(q, o, s) => o <= 1)
    OBVIOUS
  <2>1. PICK n \in 1..Len(q) : /\ Names(q, n, s) /\ ~q[n].pos.active
                               /\ \A o \in 1..Len(q) : Names(q, o, s) => o <= n
    BY DEF Clears
  <2>2. CASE n = 1
    BY <2>1, <2>2
  <2>3. CASE n # 1
    <3>1. n \in 2..Len(q)
      BY <1>1, <2>3
    <3>2. QED
      BY <1>6, <2>1, <3>1
  <2>4. QED
    BY <2>2, <2>3
<1>8. Recalls(r, s) => \E o \in 1..Len(q) : Names(q, o, s) /\ ~(o <= 1)
  <2> SUFFICES ASSUME NEW n \in 1..Len(r), Names(r, n, s)
               PROVE  \E o \in 1..Len(q) : Names(q, o, s) /\ ~(o <= 1)
    BY DEF Recalls
  <2>1. n + 1 \in 1..Len(q) /\ Names(q, n + 1, s) /\ ~(n + 1 <= 1)
    BY <1>1, <1>2
  <2>2. QED
    BY <2>1
<1>9. ~Names(q, 1, s) => (Clears(r, s) => Clears(q, s))
  <2> SUFFICES ASSUME ~Names(q, 1, s), Clears(r, s) PROVE Clears(q, s)
    OBVIOUS
  <2>1. PICK n \in 1..Len(r) : /\ Names(r, n, s) /\ ~r[n].pos.active
                               /\ \A o \in 1..Len(r) : Names(r, o, s) => o <= n
    BY DEF Clears
  <2>2. n + 1 \in 1..Len(q) /\ Names(q, n + 1, s) /\ ~q[n + 1].pos.active
    BY <1>1, <1>2, <2>1
  <2>3. \A o \in 1..Len(q) : Names(q, o, s) => o <= n + 1
    <3> SUFFICES ASSUME NEW o \in 1..Len(q), Names(q, o, s) PROVE o <= n + 1
      OBVIOUS
    <3>1. o # 1 /\ o - 1 \in 1..Len(r) /\ Names(r, o - 1, s)
      BY <1>3
    <3>2. o - 1 <= n
      BY <2>1, <3>1
    <3>3. QED
      BY <1>1, <3>2
  <2>4. QED
    BY <2>2, <2>3 DEF Clears
<1>10. ~Names(q, 1, s) => (Recalls(q, s) => Recalls(r, s))
  BY <1>1, <1>3 DEF Recalls
<1>11. Names(q, 1, s) /\ q[1].pos.active => Recalls(q, s)
  BY <1>1 DEF Recalls
<1>12. QED
  BY <1>1, <1>4, <1>5, <1>7, <1>8, <1>9, <1>10, <1>11 DEF r

LEMMA PendingTyped ==
  ASSUME TypeInv
  PROVE  Pending \in Seq(Messages)
<1> DEFINE A == Messages
<1>1. queue \in Seq(A) /\ g.out \in Seq(A)
  BY DEF TypeInv, Typed, MailTypes
<1> HIDE DEF A
<1>2. g.out \o queue \in Seq(A)
  BY <1>1
<1>3. Pending \in Seq(A)
  BY <1>1, <1>2 DEF Pending
<1>4. QED
  BY <1>3 DEF A

(* A step that sends nothing and gives a bullet only to a slot that is     *)
(* served.                                                                 *)
LEMMA CareStays ==
  ASSUME NEW s, Cared(s), Pending' = Pending, Served(s) => Served(s)',
         slots'[s].pos.active => slots[s].pos.active \/ Served(s)'
  PROVE  Cared(s)'
  BY DEF Cared

(* A message appended leaves the slot to a thread or clears it.            *)
LEMMA CareSends ==
  ASSUME TypeInv, NEW s, Cared(s), NEW e \in Messages, Pending' = Append(Pending, e),
         \/ Served(s) => Served(s)'
         \/ e.type = "MSG_BULLET" /\ e.id = s /\ ~e.pos.active,
         e.type = "MSG_BULLET" /\ e.id = s => ~e.pos.active \/ Served(s)',
         slots'[s].pos.active => slots[s].pos.active
  PROVE  Cared(s)'
<1>1. Pending \in Seq(Messages)
  BY PendingTyped
<1>2. CASE ~(e.type = "MSG_BULLET" /\ e.id = s)
  <2>1. /\ Clears(Append(Pending, e), s) <=> Clears(Pending, s)
        /\ Recalls(Append(Pending, e), s) <=> Recalls(Pending, s)
    BY <1>1, <1>2, Appended
  <2>2. QED
    BY <1>2, <2>1 DEF Cared
<1>3. CASE e.type = "MSG_BULLET" /\ e.id = s /\ ~e.pos.active
  <2>1. Clears(Append(Pending, e), s)
    BY <1>1, <1>3, Appended
  <2>2. QED
    BY <2>1 DEF Cared
<1>4. CASE Served(s)'
  BY <1>4 DEF Cared
<1>5. QED
  BY <1>2, <1>3, <1>4

(* A message that is not about the slot leaves the buffer.                 *)
LEMMA CareTakes ==
  ASSUME TypeInv, NEW s, Cared(s), Pending # <<>>, Pending' = Tail(Pending),
         ~(Head(Pending).type = "MSG_BULLET" /\ Head(Pending).id = s),
         Served(s) => Served(s)', slots'[s].pos.active => slots[s].pos.active
  PROVE  Cared(s)'
<1>1. Pending \in Seq(Messages)
  BY PendingTyped
<1>2. /\ Clears(Tail(Pending), s) <=> Clears(Pending, s)
      /\ Recalls(Tail(Pending), s) <=> Recalls(Pending, s)
  BY <1>1, Taken
<1>3. QED
  BY <1>2 DEF Cared

(* A message about the slot is applied: the last one is what is seen.      *)
LEMMA CareApplies ==
  ASSUME TypeInv, NEW s, Cared(s), Pending # <<>>, Pending' = Tail(Pending),
         Head(Pending).type = "MSG_BULLET", Head(Pending).id = s,
         Served(s) => Served(s)', slots'[s].pos.active => Head(Pending).pos.active
  PROVE  Cared(s)'
<1>1. Pending \in Seq(Messages)
  BY PendingTyped
<1>2. /\ Recalls(Tail(Pending), s) => Recalls(Pending, s)
      /\ Clears(Pending, s) /\ Recalls(Tail(Pending), s) => Clears(Tail(Pending), s)
      /\ Head(Pending).pos.active =>
           Recalls(Pending, s) /\ (Clears(Pending, s) => Clears(Tail(Pending), s))
  BY <1>1, Taken
<1>3. QED
  BY <1>2 DEF Cared

LEMMA ServedKeeps ==
  ASSUME NEW s,
         \A k \in BulletIds : ~Ended(Bullet(k)) =>
           pc'[Bullet(k)] \notin {"end", "none"} /\ b'[k].slot = b[k].slot
  PROVE  Served(s) => Served(s)'
  BY DEF Served, Ended

LEMMA GameServed ==
  ASSUME HoldInv, GameStep, NEW s
  PROVE  UNCHANGED b /\ (Served(s) => Served(s)')
<1>1. \A k \in BulletIds : pc'[Bullet(k)] = pc[Bullet(k)]
  BY GameMovesItself, ThreadNames DEF HoldInv
<1>2. UNCHANGED b
  BY DEF GameStep, FrameStart, GameEnds, Tick, ResetFlags, ResetFrog, ResetPut,
     ResetTime, Look, Ride, Scan, Attach, Boarded, Water, Drown, Den, TakeDen, NoDen, Won,
     GameOver, BulletsDone, TestBullet, CopyBullet, Hit, Hurt, Pairs, Crash, KillBoth,
     KillMsgs, KillPut, TakeMessage, ApplyFrog, ApplyCroc, Aboard, Carry, ApplyBullet,
     DrawFrame, locals
<1>3. QED
  BY <1>1, <1>2, ServedKeeps DEF Ended

(* Where the game loop turns to a message.                                 *)
LEMMA OpensLetters ==
  ASSUME HoldInv, MailInv, GameStep, ~TakeMessage
  PROVE  pc'[Game] \notin MsgTypes /\ (pc'[Game] = "killPut" => KillMsgs \/ KillPut)
<1>1. DOMAIN pc = Threads /\ Game \in Threads
  BY ThreadNames DEF HoldInv
<1> USE DEF At, Go, MsgTypes
<1>2. ASSUME NEW l, pc' = [pc EXCEPT ![Game] = l], l \notin MsgTypes, l # "killPut"
      PROVE  pc'[Game] \notin MsgTypes /\ pc'[Game] # "killPut"
  BY <1>1, <1>2
<1>3. CASE FrameStart \/ GameEnds \/ ResetFlags \/ ResetFrog \/ ResetPut \/ Boarded
             \/ Won \/ GameOver \/ Crash \/ KillBoth \/ KillMsgs \/ BulletsDone \/ Look
             \/ Attach
  BY <1>1, <1>3 DEF FrameStart, GameEnds, ResetFlags, ResetFrog, ResetPut, Boarded, Won,
     GameOver, Crash, KillBoth, KillMsgs, BulletsDone, Look, Attach
<1>4. CASE Tick \/ Drown \/ NoDen \/ Hurt
  BY <1>1, <1>4 DEF Tick, Drown, NoDen, Hurt, LoseLife, CallReset
<1>5. CASE ResetTime
  BY <1>2, <1>5 DEF ResetTime, MailInv
<1>6. CASE Den
  <2>1. pc' = [pc EXCEPT ![Game] = AfterDen(frog)]
    BY <1>6 DEF Den
  <2>2. AfterDen(frog) \in {"bullets", "takeDen", "noDen"}
    BY DEF AfterDen
  <2>3. QED
    BY <1>2, <2>1, <2>2
<1>7. CASE TakeDen \/ Ride \/ Scan \/ Water \/ Hit
  BY <1>1, <1>7 DEF TakeDen, Ride, Scan, Water, Hit
<1>8. CASE TestBullet \/ CopyBullet \/ Pairs \/ KillPut
  BY <1>1, <1>8 DEF TestBullet, CopyBullet, Pairs, KillPut, NextBullet
<1>9. CASE ApplyFrog \/ ApplyCroc \/ Carry \/ ApplyBullet \/ Aboard
  BY <1>1, <1>9 DEF ApplyFrog, ApplyCroc, Carry, ApplyBullet, Aboard, Applied
<1>10. CASE DrawFrame
  BY <1>1, <1>10 DEF DrawFrame, Draw, GameDrawn
<1>11. QED
  BY <1>3, <1>4, <1>5, <1>6, <1>7, <1>8, <1>9, <1>10 DEF GameStep

LEMMA GameCares ==
  ASSUME SafeInv, BulletInv, GameStep, NEW s \in SlotIds, Cared(s)
  PROVE  Cared(s)'
<1>1. /\ HoldInv /\ MailInv /\ TypeInv /\ SlotTypes /\ LastWords /\ DOMAIN g = Fields
      /\ Ready(pc[Game])
  BY DEF SafeInv, TypeInv, BulletInv, MailInv, Typed, LoopTypes
<1>2. Served(s) => Served(s)'
  BY <1>1, GameServed
<1>3. g.out \in Seq(Messages) /\ queue \in Seq(Messages)
  BY <1>1 DEF TypeInv, Typed, MailTypes
<1>4. CASE KillBoth \/ Hurt
  <2>1. Pending' = Pending
    <3>1. pc[Game] # "MSG_BULLET" /\ pc'[Game] # "MSG_BULLET" /\ UNCHANGED queue
      BY <1>1, <1>4, OpensLetters DEF KillBoth, Hurt, At, MsgTypes, TakeMessage
    <3>2. QED
      BY <3>1 DEF Pending, At
  <2>2. {g.i, g.j} \subseteq SlotIds \/ (Hurt /\ g.i \in SlotIds)
    BY <1>1, <1>4, UsedSlots DEF KillBoth, Hurt, At, Ready
  <2>3. slots \in [SlotIds -> Slots]
    BY <1>1 DEF SlotTypes
  <2>4. slots'[s].pos.active => slots[s].pos.active
    <3>1. \A t \in SlotIds : [slots[t].pos EXCEPT !.collision = TRUE].active = slots[t].pos.active
      BY <2>3 DEF Slots, Cells
    <3>2. \A q \in Cells : ~Dead(q).active /\ Dead(q) \in Cells
      BY DEF Dead, Cells
    <3>3. CASE Hurt
      <4> DEFINE q == [slots[g.i].pos EXCEPT !.collision = TRUE]
      <4>1. slots' = [slots EXCEPT ![g.i].pos = q] /\ g.i \in SlotIds
        BY <2>2, <3>3 DEF Hurt
      <4>2. q.active = slots[g.i].pos.active
        BY <3>1, <4>1
      <4> HIDE DEF q
      <4>3. slots'[s].pos = IF s = g.i THEN q ELSE slots[s].pos
        BY <2>3, <4>1 DEF Slots
      <4>4. QED
        BY <4>2, <4>3
    <3>4. CASE KillBoth
      <4>1. {g.i, g.j} \subseteq SlotIds
        BY <1>1, <3>4, UsedSlots DEF KillBoth, At, Ready
      <4>2. slots' = [slots EXCEPT ![g.i].pos = Dead(@), ![g.j].pos = Dead(@)]
        BY <3>4 DEF KillBoth
      <4>3. \A t \in SlotIds : slots[t].pos \in Cells
        BY <1>1, SlotCell
      <4>4. s \notin {g.i, g.j} => slots'[s] = slots[s]
        BY <2>3, <4>2
      <4>5. s \in {g.i, g.j} => ~slots'[s].pos.active
        BY <2>3, <3>2, <4>1, <4>2, <4>3 DEF Slots
      <4>6. QED
        BY <4>4, <4>5
    <3>5. QED
      BY <1>4, <3>3, <3>4
  <2>5. QED
    BY <1>2, <2>1, <2>4, CareStays
<1>5. CASE TakeMessage
  <2>1. pc[Game] = "messages" /\ UNCHANGED slots /\ Pending = queue
    BY <1>5 DEF TakeMessage, At, Pending, world
  <2>2. CASE queue = <<>>
    <3>1. pc'[Game] = "draw" /\ UNCHANGED queue
      BY <1>1, <1>5, <2>2, ThreadNames DEF TakeMessage, Go, HoldInv
    <3>2. Pending' = Pending
      BY <2>1, <3>1 DEF Pending, At
    <3>3. QED
      BY <1>2, <2>1, <3>2, CareStays
  <2>3. CASE queue # <<>>
    <3>1. pc'[Game] = Head(queue).type /\ queue' = Tail(queue) /\ g'.out = <<Head(queue)>>
      BY <1>1, <1>5, <2>3, ThreadNames DEF TakeMessage, Go, HoldInv, Fields
    <3>2. CASE Head(queue).type = "MSG_BULLET"
      <4>1. Pending' = <<Head(queue)>> \o Tail(queue)
        BY <3>1, <3>2 DEF Pending, At
      <4>2. Pending' = Pending
        <5> DEFINE A == Messages
        <5>1. queue \in Seq(A)
          BY <1>3
        <5> HIDE DEF A
        <5>2. <<Head(queue)>> \o Tail(queue) = queue
          BY <2>3, <5>1
        <5>3. QED
          BY <2>1, <4>1, <5>2
      <4>3. QED
        BY <1>2, <2>1, <4>2, CareStays
    <3>3. CASE Head(queue).type # "MSG_BULLET"
      <4>1. Pending' = Tail(Pending)
        BY <2>1, <3>1, <3>3 DEF Pending, At
      <4>2. QED
        BY <1>1, <1>2, <2>1, <2>3, <3>3, <4>1, CareTakes
    <3>4. QED
      BY <3>2, <3>3
  <2>4. QED
    BY <2>2, <2>3
<1>6. CASE ApplyBullet
  <2>1. /\ pc[Game] = "MSG_BULLET" /\ pc'[Game] = "messages" /\ UNCHANGED queue
        /\ Len(g.out) = 1
    BY <1>1, <1>6, ThreadNames
    DEF ApplyBullet, At, Applied, Go, HoldInv, LastWords, MsgTypes
  <2>2. Pending # <<>> /\ Tail(Pending) = queue /\ Head(Pending) = Msg
    <3> DEFINE A == Messages
    <3>1. queue \in Seq(A) /\ g.out \in Seq(A)
      BY <1>3
    <3> HIDE DEF A
    <3>2. Pending = g.out \o queue
      BY <2>1 DEF Pending, At
    <3>3. g.out \o queue # <<>> /\ Tail(g.out \o queue) = queue
          /\ Head(g.out \o queue) = Head(g.out)
      <4> DEFINE q == g.out \o queue
      <4>1. /\ q \in Seq(A) /\ Len(q) = Len(queue) + 1 /\ q[1] = g.out[1]
            /\ \A n \in 1..Len(queue) : q[n + 1] = queue[n]
        <5>1. /\ q \in Seq(A) /\ Len(q) = Len(g.out) + Len(queue)
              /\ \A n \in 1..Len(g.out) + Len(queue) :
                   q[n] = IF n <= Len(g.out) THEN g.out[n] ELSE queue[n - Len(g.out)]
          BY <3>1, ConcatProperties, Zenon
        <5> HIDE DEF q
        <5>2. Len(queue) \in Nat /\ \A n \in 1..Len(queue) : n + 1 \in 1..Len(g.out) + Len(queue)
          BY <2>1, <3>1
        <5>3. ASSUME NEW n \in 1..Len(queue) PROVE q[n + 1] = queue[n]
          <6>1. ~(n + 1 <= Len(g.out)) /\ (n + 1) - Len(g.out) = n
            BY <2>1, <5>2
          <6>2. QED
            BY <5>1, <5>2, <6>1
        <5>4. q[1] = g.out[1] /\ Len(q) = Len(queue) + 1
          <6>1. 1 \in 1..Len(g.out) + Len(queue) /\ 1 <= Len(g.out)
            BY <2>1, <5>2
          <6>2. QED
            BY <2>1, <5>1, <5>2, <6>1
        <5>5. QED
          BY <5>1, <5>3, <5>4
      <4>2. Head(g.out) = g.out[1]
        BY <2>1, <3>1
      <4> HIDE DEF q
      <4>3. q # <<>> /\ Head(q) = Head(g.out)
        BY <3>1, <4>1, <4>2
      <4>4. Tail(q) = queue
        <5>1. /\ Tail(q) \in Seq(A) /\ Len(Tail(q)) = Len(queue)
              /\ \A n \in 1..Len(queue) : Tail(q)[n] = q[n + 1]
          BY <3>1, <4>1, <4>3
        <5>2. QED
          BY <3>1, <4>1, <5>1
      <4>5. QED
        BY <4>3, <4>4 DEF q
    <3>4. QED
      BY <3>2, <3>3 DEF Msg
  <2>3. Pending' = Tail(Pending)
    BY <2>1, <2>2 DEF Pending, At
  <2>4. Msg.type = "MSG_BULLET" /\ Msg.id \in SlotIds
    BY <1>1, <2>1, Applying, MessageKinds, UsedSlots DEF MsgTypes
  <2>5. slots' = [slots EXCEPT ![Msg.id].pos = Msg.pos] /\ slots \in [SlotIds -> Slots]
    BY <1>1, <1>6 DEF ApplyBullet, SlotTypes
  <2>6. CASE Msg.id = s
    <3>1. slots'[s].pos = Msg.pos
      BY <2>4, <2>5, <2>6 DEF Slots
    <3>2. QED
      BY <1>1, <1>2, <2>2, <2>3, <2>4, <2>6, <3>1, CareApplies
  <2>7. CASE Msg.id # s
    <3>1. slots'[s].pos = slots[s].pos
      BY <2>5, <2>7 DEF Slots
    <3>2. QED
      BY <1>1, <1>2, <2>2, <2>3, <2>7, <3>1, CareTakes
  <2>8. QED
    BY <2>6, <2>7
<1>7. CASE KillPut /\ g.out # <<>>
  <2>1. pc[Game] = "killPut" /\ pc'[Game] # "MSG_BULLET" /\ UNCHANGED slots
    BY <1>1, <1>7, OpensLetters DEF KillPut, TakeMessage, At, MsgTypes, world
  <2>2. queue' = Append(queue, Head(g.out))
    BY <1>7 DEF KillPut, Put
  <2>3. Head(g.out) \in Messages /\ ~Head(g.out).pos.active
    <3>1. Head(g.out) \in Messages
      BY <1>3, <1>7, HeadMessage
    <3> DEFINE A == Messages
    <3>2. g.out \in Seq(A)
      BY <1>3
    <3> HIDE DEF A
    <3>3. Head(g.out) = g.out[1] /\ 1 \in 1..Len(g.out)
      BY <1>7, <3>2
    <3>4. QED
      BY <1>1, <2>1, <3>1, <3>3 DEF LastWords
  <2>4. Pending' = Append(Pending, Head(g.out))
    BY <2>1, <2>2 DEF Pending, At
  <2>5. QED
    BY <1>1, <1>2, <2>1, <2>3, <2>4, CareSends
<1>8. CASE ResetPut
  <2>1. pc[Game] = "resetPut" /\ pc'[Game] # "MSG_BULLET" /\ UNCHANGED slots
    BY <1>1, <1>8, OpensLetters DEF ResetPut, TakeMessage, At, MsgTypes, world
  <2>2. queue' = Append(queue, FrogMsg(Start))
    BY <1>8 DEF ResetPut, Put
  <2>3. FrogMsg(Start) \in Messages /\ FrogMsg(Start).type # "MSG_BULLET"
    BY StartTyped, ThreeKinds DEF FrogMsg
  <2>4. Pending' = Append(Pending, FrogMsg(Start))
    BY <2>1, <2>2 DEF Pending, At
  <2>5. QED
    BY <1>1, <1>2, <2>1, <2>3, <2>4, CareSends
<1>9. CASE ~(KillBoth \/ Hurt \/ TakeMessage \/ ApplyBullet \/ ResetPut)
             /\ ~(KillPut /\ g.out # <<>>)
  <2>1. UNCHANGED <<slots, queue>> /\ pc[Game] # "MSG_BULLET"
    BY <1>9 DEF GameStep, FrameStart, GameEnds, Tick, ResetFlags, ResetFrog,
       ResetTime, Look, Ride, Scan, Attach, Boarded, Water, Drown, Den, TakeDen, NoDen, Won,
       GameOver, BulletsDone, TestBullet, CopyBullet, Hit, Pairs, Crash, KillMsgs, KillPut,
       ApplyFrog, ApplyCroc, Aboard, Carry, DrawFrame, Draw, world, At
  <2>2. pc'[Game] # "MSG_BULLET"
    BY <1>1, <1>9, OpensLetters DEF MsgTypes
  <2>3. Pending' = Pending
    BY <2>1, <2>2 DEF Pending, At
  <2>4. QED
    BY <1>2, <2>1, <2>3, CareStays
<1>10. QED
  BY <1>4, <1>5, <1>6, <1>7, <1>8, <1>9

LEMMA SentBehind ==
  ASSUME NEW S, NEW q \in Seq(S), NEW r \in Seq(S), NEW e \in S
  PROVE  q \o Append(r, e) = Append(q \o r, e)
  OBVIOUS

(* What the other threads send goes behind what is there.                  *)
LEMMA PendingSent ==
  ASSUME TypeInv, UNCHANGED g, pc'[Game] = pc[Game]
  PROVE  /\ UNCHANGED queue => Pending' = Pending
         /\ \A e \in Messages : queue' = Append(queue, e) => Pending' = Append(Pending, e)
<1>1. UNCHANGED queue => Pending' = Pending
  BY DEF Pending, At
<1>2. ASSUME NEW e \in Messages, queue' = Append(queue, e)
      PROVE  Pending' = Append(Pending, e)
  <2> DEFINE A == Messages
  <2>1. queue \in Seq(A) /\ g.out \in Seq(A) /\ e \in A
    BY DEF TypeInv, Typed, MailTypes
  <2> HIDE DEF A
  <2>2. PICK q \in Seq(A), r \in Seq(A) : q = g.out /\ r = queue
    BY <2>1
  <2>3. q \o Append(r, e) = Append(q \o r, e)
    BY <2>1, SentBehind
  <2>4. QED
    BY <1>2, <2>2, <2>3, Zenon DEF Pending, At
<1>3. QED
  BY <1>1, <1>2

(* A bullet that is shot has a thread.                                     *)
LEMMA CreateServes ==
  ASSUME SlotTypes, BulletTypes, DOMAIN pc = Threads, NEW q, NEW dir, NEW enemy, NEW next,
         DOMAIN next = Threads, \A k \in BulletIds : next[Bullet(k)] = pc[Bullet(k)],
         CreateBullet(q, dir, enemy, next), NEW s \in SlotIds
  PROVE  /\ Served(s) => Served(s)'
         /\ slots'[s].pos.active => slots[s].pos.active \/ Served(s)'
<1>1. CASE pc' = next /\ UNCHANGED <<slots, b>>
  BY <1>1 DEF Served, Ended
<1>2. CASE FreeSlots # {} /\ IdleThreads # {}
  <2> DEFINE n == First(FreeSlots)
             k == First(IdleThreads)
  <2>1. /\ slots' = [slots EXCEPT ![n] = [pos |-> [q EXCEPT !.active = TRUE], dir |-> dir,
                                          enemy |-> enemy, thread |-> k]]
        /\ b' = [b EXCEPT ![k].slot = n]
        /\ pc' = [next EXCEPT ![Bullet(k)] = "loop"]
    BY <1>2 DEF CreateBullet
  <2>2. n \in SlotIds /\ k \in IdleThreads
    <3>1. FreeSlots \in SUBSET Nat /\ IdleThreads \in SUBSET Nat
      BY DEF FreeSlots, SlotIds, IdleThreads, BulletIds
    <3>2. QED
      BY <1>2, <3>1, LeastExists DEF First, FreeSlots
  <2> HIDE DEF n, k
  <2>3. k \in BulletIds /\ pc[Bullet(k)] = "none"
    BY <2>2 DEF IdleThreads, At
  <2>4. b \in [BulletIds -> [slot : 0..NumSlots, out : Cells]] /\ slots \in [SlotIds -> Slots]
    BY DEF BulletTypes, SlotTypes
  <2>5. ASSUME NEW o \in BulletIds, ~Ended(Bullet(o))
        PROVE  pc'[Bullet(o)] \notin {"end", "none"} /\ b'[o].slot = b[o].slot
    <3>1. o # k /\ Bullet(o) # Bullet(k) /\ Bullet(o) \in Threads
      BY <2>3, <2>5, ThreadNames DEF Ended, Bullet
    <3>2. pc'[Bullet(o)] = pc[Bullet(o)] /\ b'[o] = b[o]
      BY <2>1, <2>4, <3>1
    <3>3. QED
      BY <2>5, <3>2 DEF Ended
  <2>6. Served(s) => Served(s)'
    BY <2>5, ServedKeeps
  <2>7. s # n => slots'[s] = slots[s]
    BY <2>1, <2>4
  <2>8. s = n => Served(s)'
    <3>1. pc'[Bullet(k)] = "loop" /\ b'[k].slot = n
      BY <2>1, <2>3, <2>4, ThreadNames
    <3>2. QED
      BY <2>3, <3>1 DEF Served, Ended
  <2>9. QED
    BY <2>6, <2>7, <2>8
<1>3. QED
  BY <1>1, <1>2 DEF CreateBullet

LEMMA BulletCares ==
  ASSUME SafeInv, BulletInv, NEW k \in BulletIds, BulletStep(k), NEW s \in SlotIds, Cared(s)
  PROVE  Cared(s)'
<1>1. /\ TypeInv /\ LastWords /\ DOMAIN pc = Threads /\ Bullet(k) \in Threads
      /\ Bullet(k) # Game /\ slots \in [SlotIds -> Slots]
      /\ b \in [BulletIds -> [slot : 0..NumSlots, out : Cells]]
  BY ThreadNames DEF SafeInv, BulletInv, TypeInv, Typed, BulletTypes, SlotTypes, HoldInv
<1>2. /\ \A o \in BulletIds : o # k => pc'[Bullet(o)] = pc[Bullet(o)] /\ b'[o] = b[o]
      /\ pc'[Game] = pc[Game] /\ UNCHANGED g
  <2>1. \A t \in Threads \ {Bullet(k)} : pc'[t] = pc[t]
    BY BulletLabelled DEF SafeInv, TypeInv
  <2>2. \A o \in BulletIds : o # k => b'[o] = b[o]
    BY <1>1 DEF BulletStep, FlyOver, FlyStop, Fly, Tell, ClearSlot, LastMessage, locals
  <2>3. UNCHANGED g
    BY DEF BulletStep, FlyOver, FlyStop, Fly, Tell, ClearSlot, LastMessage, locals
  <2>4. \A o \in BulletIds : o # k => Bullet(o) # Bullet(k)
    BY DEF Bullet
  <2>5. QED
    BY <1>1, <2>1, <2>2, <2>3, <2>4, ThreadNames
<1>3. pc[Bullet(k)] \notin {"none", "end"} /\ b[k].slot \in SlotIds
  <2>1. pc[Bullet(k)] \notin {"none", "end"}
    BY DEF BulletStep, FlyOver, FlyStop, Fly, Tell, ClearSlot, LastMessage, At, Me
  <2>2. QED
    BY <2>1, UsedSlots DEF SafeInv, TypeInv, Typed, BulletTypes
<1>4. b'[k].slot = b[k].slot
  BY <1>1 DEF BulletStep, FlyOver, FlyStop, Fly, Tell, ClearSlot, LastMessage, locals
<1>5. ASSUME pc'[Bullet(k)] \notin {"none", "end"}
      PROVE  (Served(s) => Served(s)') /\ (s = b[k].slot => Served(s)')
  <2>1. Served(s) => Served(s)'
    BY <1>2, <1>4, <1>5, ServedKeeps DEF Ended
  <2>2. s = b[k].slot => Served(s)'
    BY <1>4, <1>5 DEF Served, Ended
  <2>3. QED
    BY <2>1, <2>2
<1>6. CASE ~Tell(k)
  <2>1. pc'[Bullet(k)] \notin {"none", "end"} /\ UNCHANGED queue
    BY <1>1, <1>6 DEF BulletStep, FlyOver, FlyStop, Fly, ClearSlot, LastMessage, Go, Me
  <2>2. s # b[k].slot => slots'[s] = slots[s]
    BY <1>1, <1>6
    DEF BulletStep, FlyOver, FlyStop, Fly, ClearSlot, LastMessage, SetMine, world
  <2>3. Pending' = Pending
    BY <1>1, <1>2, <2>1, PendingSent
  <2>4. QED
    BY <1>5, <2>1, <2>2, <2>3, CareStays
<1>7. CASE Tell(k)
  <2> DEFINE e == BulletMsg(b[k].slot, b[k].out)
  <2>1. queue' = Append(queue, e) /\ UNCHANGED slots
    BY <1>7 DEF Tell, Put, world
  <2>2. e \in Messages /\ e.type = "MSG_BULLET" /\ e.id = b[k].slot /\ e.pos = b[k].out
    <3>1. b[k].slot \in Used /\ b[k].out \in Cells
      BY <1>1, <1>3 DEF SafeInv, TypeInv, Typed, BulletTypes
    <3>2. QED
      BY <3>1, ThreeKinds DEF BulletMsg
  <2> HIDE DEF e
  <2>3. Pending' = Append(Pending, e)
    BY <1>1, <1>2, <2>1, <2>2, PendingSent
  <2>4. CASE pc[Bullet(k)] = "tellLast"
    <3>1. ~e.pos.active
      BY <1>1, <2>2, <2>4 DEF LastWords
    <3>2. (Served(s) => Served(s)') \/ s = b[k].slot
      <4>1. ASSUME s # b[k].slot, NEW o \in BulletIds, ~Ended(Bullet(o)), b[o].slot = s
            PROVE  Served(s)'
        <5>1. o # k
          BY <4>1
        <5>2. pc'[Bullet(o)] = pc[Bullet(o)] /\ b'[o] = b[o]
          BY <1>2, <5>1
        <5>3. QED
          BY <4>1, <5>2 DEF Served, Ended
      <4>2. QED
        BY <4>1 DEF Served
    <3>3. QED
      BY <1>1, <2>1, <2>2, <2>3, <3>1, <3>2, CareSends
  <2>5. CASE pc[Bullet(k)] \in {"tell", "tellOut"}
    <3>1. pc'[Bullet(k)] \notin {"none", "end"}
      BY <1>1, <1>7, <2>5 DEF Tell, Go, Me, At
    <3>2. QED
      BY <1>1, <1>5, <2>1, <2>2, <2>3, <3>1, CareSends
  <2>6. QED
    BY <1>7, <2>4, <2>5 DEF Tell, Me
<1>8. QED
  BY <1>6, <1>7

(* A thread that shoots sends nothing.                                     *)
LEMMA ShooterCares ==
  ASSUME SafeInv, NEW s \in SlotIds, Cared(s), NEW q, NEW dir, NEW enemy, NEW next,
         DOMAIN next = Threads, \A k \in BulletIds : next[Bullet(k)] = pc[Bullet(k)],
         CreateBullet(q, dir, enemy, next), pc'[Game] = pc[Game], UNCHANGED <<g, queue>>
  PROVE  Cared(s)'
<1>1. TypeInv /\ SlotTypes /\ BulletTypes /\ DOMAIN pc = Threads
  BY DEF SafeInv, TypeInv, Typed, HoldInv
<1>2. Pending' = Pending
  BY <1>1, PendingSent
<1>3. Served(s) => Served(s)'
  BY <1>1, CreateServes
<1>4. slots'[s].pos.active => slots[s].pos.active \/ Served(s)'
  BY <1>1, CreateServes
<1>5. QED
  BY <1>2, <1>3, <1>4, CareStays

(* A thread that sends, if anything, a message about something else.       *)
LEMMA OtherCares ==
  ASSUME SafeInv, NEW s \in SlotIds, Cared(s), UNCHANGED <<slots, b, g>>,
         pc'[Game] = pc[Game],
         \A k \in BulletIds :
           ~Ended(Bullet(k)) => pc'[Bullet(k)] = pc[Bullet(k)],
         \/ UNCHANGED queue
         \/ \E e \in Messages : e.type # "MSG_BULLET" /\ queue' = Append(queue, e)
  PROVE  Cared(s)'
<1>1. TypeInv
  BY DEF SafeInv
<1>2. Served(s) => Served(s)'
  <2>1. \A k \in BulletIds : ~Ended(Bullet(k)) =>
           pc'[Bullet(k)] \notin {"end", "none"} /\ b'[k].slot = b[k].slot
    BY DEF Ended
  <2>2. QED
    BY <2>1, ServedKeeps
<1>3. CASE UNCHANGED queue
  BY <1>1, <1>2, <1>3, PendingSent, CareStays
<1>4. CASE \E e \in Messages : e.type # "MSG_BULLET" /\ queue' = Append(queue, e)
  <2>1. PICK e \in Messages : e.type # "MSG_BULLET" /\ queue' = Append(queue, e)
    BY <1>4
  <2>2. Pending' = Append(Pending, e)
    BY <1>1, <2>1, PendingSent
  <2>3. QED
    BY <1>1, <1>2, <2>1, <2>2, CareSends
<1>5. QED
  BY <1>3, <1>4

LEMMA PlayerCares ==
  ASSUME SafeInv, PlayerStep \/ \E key : ReadKey(key), NEW s \in SlotIds, Cared(s)
  PROVE  Cared(s)'
<1>1. DOMAIN pc = Threads /\ HoldInv /\ Labels
  BY DEF SafeInv, TypeInv, HoldInv
<1>2. /\ pc'[Game] = pc[Game]
      /\ \A k \in BulletIds : ~Ended(Bullet(k)) => pc'[Bullet(k)] = pc[Bullet(k)]
  BY <1>1, PlayerLabelled, ThreadNames DEF Ended
<1>3. UNCHANGED g
  BY DEF PlayerStep, ReadKey, PlayerEnds, TogglePause, PauseText, DrawResumed, LockFrog,
     ShootLeft, ShootRight, Quit, Move, Publish, locals
<1>4. CASE ShootLeft \/ ShootRight
  <2>1. PICK l \in {"shootRight", "move"} :
          \E q, dir : CreateBullet(q, dir, FALSE, [pc EXCEPT ![Player] = l])
    <3>1. CASE ShootLeft
      BY <3>1, Zenon DEF ShootLeft
    <3>2. CASE ShootRight
      BY <3>2, Zenon DEF ShootRight
    <3>3. QED
      BY <1>4, <3>1, <3>2
  <2> DEFINE next == [pc EXCEPT ![Player] = l]
  <2>2. DOMAIN next = Threads /\ \A k \in BulletIds : next[Bullet(k)] = pc[Bullet(k)]
    BY <1>1, ThreadNames
  <2>3. PICK q, dir : CreateBullet(q, dir, FALSE, next)
    BY <2>1
  <2>4. UNCHANGED queue
    BY <1>4 DEF ShootLeft, ShootRight
  <2> HIDE DEF next
  <2>5. QED
    BY <1>2, <1>3, <2>2, <2>3, <2>4, ShooterCares
<1>5. CASE Publish
  <2>1. FrogMsg(frog) \in Messages /\ FrogMsg(frog).type # "MSG_BULLET"
    BY ThreeKinds DEF FrogMsg, SafeInv, TypeInv, Typed, WorldTypes
  <2>2. queue' = Append(queue, FrogMsg(frog)) /\ UNCHANGED <<slots, b>>
    BY <1>5 DEF Publish, Put, world
  <2>3. QED
    BY <1>2, <1>3, <2>1, <2>2, OtherCares
<1>6. CASE ~(ShootLeft \/ ShootRight \/ Publish)
  <2>1. UNCHANGED <<slots, b, queue>>
    BY <1>6 DEF PlayerStep, ReadKey, PlayerEnds, TogglePause, PauseText, DrawResumed,
       LockFrog, Quit, Move, locals, world
  <2>2. QED
    BY <1>2, <1>3, <2>1, OtherCares
<1>7. QED
  BY <1>4, <1>5, <1>6

LEMMA CrocCares ==
  ASSUME SafeInv, NEW i \in CrocIds, CrocStep(i), NEW s \in SlotIds, Cared(s)
  PROVE  Cared(s)'
<1>1. DOMAIN pc = Threads /\ HoldInv /\ Labels
  BY DEF SafeInv, TypeInv, HoldInv
<1>2. /\ pc'[Game] = pc[Game]
      /\ \A k \in BulletIds : ~Ended(Bullet(k)) => pc'[Bullet(k)] = pc[Bullet(k)]
  BY <1>1, CrocLabelled, ThreadNames DEF Ended
<1>3. UNCHANGED g
  BY DEF CrocStep, Swim, DropFrog, ShiftFrog, Aim, Fire, Announce, CrocEnds, locals
<1>4. CASE Fire(i)
  <2> DEFINE next == [pc EXCEPT ![Croc(i)] = "announce"]
  <2>1. DOMAIN next = Threads /\ \A k \in BulletIds : next[Bullet(k)] = pc[Bullet(k)]
    BY <1>1, ThreadNames
  <2>2. PICK q, dir : CreateBullet(q, dir, TRUE, next)
    BY <1>4, Zenon DEF Fire
  <2>3. UNCHANGED queue
    BY <1>4 DEF Fire
  <2> HIDE DEF next
  <2>4. QED
    BY <1>2, <1>3, <2>1, <2>2, <2>3, ShooterCares
<1>5. CASE Announce(i)
  <2>1. CrocMsg(i, croc[i]) \in Messages /\ CrocMsg(i, croc[i]).type # "MSG_BULLET"
    BY ThreeKinds DEF CrocMsg, SafeInv, TypeInv, Typed, WorldTypes
  <2>2. queue' = Append(queue, CrocMsg(i, croc[i])) /\ UNCHANGED <<slots, b>>
    BY <1>5 DEF Announce, Put, world, locals
  <2>3. QED
    BY <1>2, <1>3, <2>1, <2>2, OtherCares
<1>6. CASE ~(Fire(i) \/ Announce(i))
  <2>1. UNCHANGED <<slots, b, queue>>
    BY <1>6 DEF CrocStep, Swim, DropFrog, ShiftFrog, Aim, CrocEnds, locals, world
  <2>2. QED
    BY <1>2, <1>3, <2>1, OtherCares
<1>7. QED
  BY <1>4, <1>5, <1>6

LEMMA ShotCares ==
  ASSUME SafeInv, Shot, NEW s \in SlotIds, Cared(s)
  PROVE  Cared(s)'
<1>1. DOMAIN pc = Threads /\ HoldInv
  BY DEF SafeInv, TypeInv, HoldInv
<1>2. PICK q, dir, enemy : CreateBullet(q, dir, enemy, pc)
  BY Zenon DEF Shot
<1>3. UNCHANGED <<g, queue>>
  BY DEF Shot
<1>4. pc'[Game] = pc[Game]
  BY <1>1, ShotStarts, ThreadNames
<1>5. QED
  BY <1>1, <1>2, <1>3, <1>4, ShooterCares

(* What run_game is about to join changes with run_game alone.             *)
LEMMA OthersLeaveM ==
  ASSUME \/ GameStep \/ PlayerStep \/ Signal \/ Shot \/ UNCHANGED vars
         \/ \E key : ReadKey(key)
         \/ \E i \in CrocIds : CrocStep(i)
         \/ \E k \in BulletIds : BulletStep(k)
  PROVE  UNCHANGED m
<1>1. CASE GameStep
  BY <1>1 DEF GameStep, FrameStart, GameEnds, Tick, ResetFlags, ResetFrog,
     ResetPut, ResetTime, Look, Ride, Scan, Attach, Boarded, Water, Drown, Den, TakeDen,
     NoDen, Won, GameOver, BulletsDone, TestBullet, CopyBullet, Hit, Hurt, Pairs, Crash,
     KillBoth, KillMsgs, KillPut, TakeMessage, ApplyFrog, ApplyCroc, Aboard, Carry,
     ApplyBullet, DrawFrame
<1>2. CASE PlayerStep \/ \E key : ReadKey(key)
  BY <1>2 DEF PlayerStep, ReadKey, PlayerEnds, TogglePause, PauseText, DrawResumed,
     LockFrog, ShootLeft, ShootRight, Quit, Move, Publish
<1>3. CASE \E i \in CrocIds : CrocStep(i)
  BY <1>3 DEF CrocStep, Swim, DropFrog, ShiftFrog, Aim, Fire, Announce, CrocEnds
<1>4. CASE \E k \in BulletIds : BulletStep(k)
  BY <1>4 DEF BulletStep, FlyOver, FlyStop, Fly, Tell, ClearSlot, LastMessage
<1>5. CASE Signal \/ Shot \/ UNCHANGED vars
  BY <1>5 DEF Signal, Shot, vars
<1>6. QED
  BY <1>1, <1>2, <1>3, <1>4, <1>5

LEMMA RunGameRecord ==
  ASSUME LastWords, [Next \/ Shot]_vars
  PROVE  DOMAIN m' = {"at", "i", "target", "stuck"}
<1>1. CASE RunGame
  BY <1>1 DEF RunGame, JoinGame, JoinCroc, JoinPlayer, CancelBullet, JoinBullet, Destroy,
     CancelNext, LastWords
<1>2. CASE \E t \in Producers : Cancelled(t)
  BY <1>2 DEF Cancelled, LastWords
<1>3. CASE ~RunGame /\ ~\E t \in Producers : Cancelled(t)
  <2>1. UNCHANGED m
    BY <1>3, OthersLeaveM DEF Next, Playing, Finished
  <2>2. QED
    BY <2>1 DEF LastWords
<1>4. QED
  BY <1>1, <1>2, <1>3

(* Nobody is cancelled while the game loop runs, and then the run is over. *)
LEMMA CareKeeps ==
  ASSUME SafeInv, BulletInv, [Next \/ Shot]_vars, m'.at = "game"
  PROVE  \A s \in SlotIds : Cared(s)'
<1>1. HoldInv /\ LastWords
  BY DEF SafeInv, TypeInv, BulletInv
<1>2. m.at = "game"
  <2>1. CASE RunGame
    BY <1>1, <2>1 DEF RunGame, JoinGame, JoinCroc, JoinPlayer, CancelBullet, JoinBullet,
       Destroy, CancelNext, LastWords
  <2>2. CASE \E t \in Producers : Cancelled(t)
    BY <1>1, <2>2 DEF Cancelled, LastWords
  <2>3. CASE ~RunGame /\ ~\E t \in Producers : Cancelled(t)
    <3>1. UNCHANGED m
      BY <2>3, OthersLeaveM DEF Next, Playing, Finished
    <3>2. QED
      BY <3>1
  <2>4. QED
    BY <2>1, <2>2, <2>3
<1> SUFFICES ASSUME NEW s \in SlotIds PROVE Cared(s)'
  OBVIOUS
<1>3. Cared(s)
  BY <1>2 DEF BulletInv
<1>4. CASE GameStep
  BY <1>3, <1>4, GameCares
<1>5. CASE PlayerStep \/ \E key : ReadKey(key)
  BY <1>3, <1>5, PlayerCares
<1>6. CASE \E i \in CrocIds : CrocStep(i)
  BY <1>3, <1>6, CrocCares
<1>7. CASE \E k \in BulletIds : BulletStep(k)
  BY <1>3, <1>7, BulletCares
<1>8. CASE Shot
  BY <1>3, <1>8, ShotCares
<1>9. CASE \E t \in Producers : Cancelled(t)
  <2>1. Nobody \notin Producers
    BY DEF Producers, Nobody, Player, Croc, Bullet
  <2>2. QED
    BY <1>1, <1>2, <1>9, <2>1 DEF Cancelled, LastWords
<1>10. CASE RunGame \/ Signal \/ UNCHANGED vars
  <2>1. UNCHANGED <<slots, b, g, queue, pc>>
    BY <1>10 DEF RunGame, JoinGame, JoinCroc, JoinPlayer, CancelBullet, JoinBullet, Destroy,
       Signal, vars, locals, world
  <2>2. QED
    BY <1>3, <2>1, OtherCares
<1>11. QED
  BY <1>4, <1>5, <1>6, <1>7, <1>8, <1>9, <1>10 DEF Next, Playing, Finished

LEMMA RunGameTargets ==
  ASSUME SafeInv, LastWords, [Next \/ Shot]_vars, m'.at = "game"
  PROVE  m'.target = Nobody
<1>1. CASE RunGame
  BY <1>1 DEF RunGame, JoinGame, JoinCroc, JoinPlayer, CancelBullet, JoinBullet, Destroy,
     CancelNext, LastWords
<1>2. CASE \E t \in Producers : Cancelled(t)
  BY <1>2 DEF Cancelled, LastWords
<1>3. CASE GameStep \/ PlayerStep \/ (\E key : ReadKey(key))
             \/ (\E i \in CrocIds : CrocStep(i)) \/ (\E k \in BulletIds : BulletStep(k))
             \/ Signal \/ Shot \/ UNCHANGED vars
  BY <1>3, OthersLeaveM DEF LastWords
<1>4. QED
  BY <1>1, <1>2, <1>3 DEF Next, Playing, Finished

(* The bullet threads' last messages clear their slots.                    *)
LEMMA LastMessages ==
  ASSUME SafeInv, LastWords, [Next \/ Shot]_vars, NEW k \in BulletIds,
         pc'[Bullet(k)] = "tellLast"
  PROVE  ~b'[k].out.active
<1>1. /\ HoldInv /\ Labels /\ DOMAIN pc = Threads /\ BulletTypes /\ Bullet(k) \in Threads
      /\ b \in [BulletIds -> [slot : 0..NumSlots, out : Cells]]
      /\ Bullet(k) # Game /\ Bullet(k) # Player /\ \A i \in CrocIds : Bullet(k) # Croc(i)
  BY ThreadNames DEF SafeInv, TypeInv, Typed, HoldInv, BulletTypes
<1>2. CASE \E o \in BulletIds : BulletStep(o)
  <2>1. PICK o \in BulletIds : BulletStep(o)
    BY <1>2
  <2>2. CASE o = k
    <3>1. LastMessage(k)
      BY <1>1, <2>1, <2>2, <1>2
      DEF BulletStep, FlyOver, FlyStop, Fly, Tell, ClearSlot, Go, Me, At
    <3> DEFINE q == [Mine(k) EXCEPT !.active = FALSE]
    <3>2. ~q.active
      <4>1. b[k].slot \in SlotIds
        BY <1>1, <3>1, UsedSlots DEF BulletTypes, LastMessage, At, Me
      <4>2. Mine(k) \in Cells
        BY <4>1, SlotCell DEF Mine, SafeInv, TypeInv, Typed
      <4>3. QED
        BY <4>2 DEF Cells
    <3>3. b' = [b EXCEPT ![k].out = q]
      BY <3>1 DEF LastMessage
    <3> HIDE DEF q
    <3>4. QED
      BY <1>1, <3>2, <3>3
  <2>3. CASE o # k
    <3>1. b'[k] = b[k]
      BY <1>1, <2>1, <2>3
      DEF BulletStep, FlyOver, FlyStop, Fly, Tell, ClearSlot, LastMessage, locals
    <3>2. pc'[Bullet(k)] = pc[Bullet(k)]
      <4>1. Bullet(o) # Bullet(k)
        BY <2>3 DEF Bullet
      <4>2. QED
        BY <1>1, <2>1, <4>1, BulletLabelled
    <3>3. QED
      BY <3>1, <3>2 DEF LastWords
  <2>4. QED
    BY <2>2, <2>3
<1>3. ASSUME NEW q, NEW dir, NEW enemy, NEW next, CreateBullet(q, dir, enemy, next)
      PROVE  b'[k].out = b[k].out
  BY <1>1, <1>3 DEF CreateBullet
<1>4. CASE PlayerStep \/ \E key : ReadKey(key)
  <2>1. pc'[Bullet(k)] = pc[Bullet(k)]
    BY <1>1, <1>4, PlayerLabelled
  <2>2. CASE ShootLeft \/ ShootRight
    <3>1. \E q, dir, next : CreateBullet(q, dir, FALSE, next)
      <4>1. CASE ShootLeft
        BY <4>1, Zenon DEF ShootLeft
      <4>2. CASE ShootRight
        BY <4>2, Zenon DEF ShootRight
      <4>3. QED
        BY <2>2, <4>1, <4>2
    <3>2. QED
      BY <1>3, <2>1, <3>1 DEF LastWords
  <2>3. CASE ~(ShootLeft \/ ShootRight)
    <3>1. UNCHANGED b
      BY <1>4, <2>3 DEF PlayerStep, ReadKey, PlayerEnds, TogglePause, PauseText, DrawResumed,
         LockFrog, Quit, Move, Publish, locals
    <3>2. QED
      BY <2>1, <3>1 DEF LastWords
  <2>4. QED
    BY <2>2, <2>3
<1>5. CASE \E i \in CrocIds : CrocStep(i)
  <2>1. PICK i \in CrocIds : CrocStep(i)
    BY <1>5
  <2>2. pc'[Bullet(k)] = pc[Bullet(k)]
    BY <1>1, <2>1, CrocLabelled
  <2>3. CASE Fire(i)
    <3>1. \E q, dir, next : CreateBullet(q, dir, TRUE, next)
      BY <2>3, Zenon DEF Fire
    <3>2. QED
      BY <1>3, <2>2, <3>1 DEF LastWords
  <2>4. CASE ~Fire(i)
    <3>1. UNCHANGED b
      BY <2>1, <2>4 DEF CrocStep, Swim, DropFrog, ShiftFrog, Aim, Announce, CrocEnds, locals
    <3>2. QED
      BY <2>2, <3>1 DEF LastWords
  <2>5. QED
    BY <2>3, <2>4
<1>6. CASE Shot
  <2>1. pc'[Bullet(k)] = pc[Bullet(k)]
    BY <1>1, <1>6, ShotStarts
  <2>2. \E q, dir, enemy, next : CreateBullet(q, dir, enemy, next)
    BY <1>6, Zenon DEF Shot
  <2>3. QED
    BY <1>3, <2>1, <2>2 DEF LastWords
<1>7. CASE GameStep
  <2>1. pc'[Bullet(k)] = pc[Bullet(k)] /\ UNCHANGED b
    BY <1>1, <1>7, GameMovesItself, GameServed
  <2>2. QED
    BY <2>1 DEF LastWords
<1>8. CASE \E t \in Producers : Cancelled(t)
  <2>1. PICK t \in Producers : Cancelled(t)
    BY <1>8
  <2>2. pc' = [pc EXCEPT ![t] = "end"] /\ UNCHANGED b
    BY <2>1 DEF Cancelled, Go, locals
  <2>3. pc'[Bullet(k)] = pc[Bullet(k)]
    BY <1>1, <2>2
  <2>4. QED
    BY <2>2, <2>3 DEF LastWords
<1>9. CASE RunGame \/ Signal \/ UNCHANGED vars
  <2>1. UNCHANGED <<pc, b>>
    BY <1>9 DEF RunGame, JoinGame, JoinCroc, JoinPlayer, CancelBullet, JoinBullet, Destroy,
       Signal, vars, locals
  <2>2. QED
    BY <2>1 DEF LastWords
<1>10. QED
  BY <1>2, <1>4, <1>5, <1>6, <1>7, <1>8, <1>9 DEF Next, Playing, Finished

(* The letters in the hands of the game loop.                              *)
LEMMA LoopLetters ==
  ASSUME SafeInv, LastWords, [Next \/ Shot]_vars
  PROVE  /\ pc'[Game] = "killPut" => \A n \in 1..Len(g'.out) : ~g'.out[n].pos.active
         /\ pc'[Game] \in MsgTypes => Len(g'.out) = 1
<1>1. /\ HoldInv /\ MailInv /\ Labels /\ DOMAIN pc = Threads /\ Game \in Threads
      /\ DOMAIN g = Fields /\ SlotTypes /\ Ready(pc[Game])
  BY ThreadNames DEF SafeInv, TypeInv, Typed, HoldInv, MailInv, LoopTypes
<1>2. CASE GameStep
  <2>1. CASE TakeMessage
    <3>1. CASE queue = <<>>
      <4>1. pc'[Game] = "draw"
        BY <1>1, <2>1, <3>1 DEF TakeMessage, Go
      <4>2. QED
        BY <4>1 DEF MsgTypes
    <3>2. CASE queue # <<>>
      <4>1. pc'[Game] = Head(queue).type /\ g'.out = <<Head(queue)>>
        BY <1>1, <2>1, <3>2 DEF TakeMessage, Go, Fields
      <4>2. Head(queue).type \in MsgTypes
        BY <1>1, <3>2, MailRead DEF MailInv
      <4>3. QED
        BY <4>1, <4>2 DEF MsgTypes
    <3>3. QED
      BY <3>1, <3>2
  <2>2. CASE KillMsgs
    <3>1. pc'[Game] = "killPut"
      BY <1>1, <2>2 DEF KillMsgs, Go
    <3> DEFINE e == BulletMsg(g.i, Dead(Slot(g.i)))
               f == BulletMsg(g.j, Dead(Slot(g.j)))
    <3>2. g'.out = <<e, f>>
      BY <1>1, <2>2 DEF KillMsgs, Fields
    <3>3. ~e.pos.active /\ ~f.pos.active
      <4>1. \A q \in Cells : ~Dead(q).active
        BY DEF Dead, Cells
      <4>2. {g.i, g.j} \subseteq SlotIds
        BY <1>1, <2>2, UsedSlots DEF KillMsgs, At, Ready
      <4>3. Slot(g.i) \in Cells /\ Slot(g.j) \in Cells
        BY <1>1, <4>2, SlotCell DEF Slot
      <4>4. QED
        BY <4>1, <4>3 DEF BulletMsg
    <3> HIDE DEF e, f
    <3>4. QED
      BY <3>1, <3>2, <3>3 DEF MsgTypes
  <2>3. CASE KillPut
    <3>1. pc'[Game] \notin MsgTypes
      BY <1>1, <1>2, <2>3, OpensLetters DEF KillPut, TakeMessage, At
    <3>2. ASSUME pc'[Game] = "killPut"
          PROVE  \A n \in 1..Len(g'.out) : ~g'.out[n].pos.active
      <4>1. g.out # <<>> /\ pc[Game] = "killPut"
        BY <1>1, <2>3, <3>2 DEF KillPut, NextBullet, Go, At
      <4>2. g'.out = Tail(g.out)
        BY <1>1, <2>3, <4>1 DEF KillPut, Fields
      <4> DEFINE A == Messages
      <4>3. g.out \in Seq(A)
        BY DEF SafeInv, TypeInv, Typed, MailTypes
      <4> HIDE DEF A
      <4>4. \A n \in 1..Len(Tail(g.out)) : n + 1 \in 1..Len(g.out) /\ Tail(g.out)[n] = g.out[n + 1]
        BY <4>1, <4>3
      <4>5. QED
        BY <4>1, <4>2, <4>4 DEF LastWords
    <3>3. QED
      BY <3>1, <3>2
  <2>4. CASE ~(TakeMessage \/ KillMsgs \/ KillPut)
    BY <1>1, <1>2, <2>4, OpensLetters
  <2>5. QED
    BY <2>1, <2>2, <2>3, <2>4
<1>3. CASE ~GameStep
  <2>1. pc'[Game] = pc[Game]
    <3>1. CASE PlayerStep \/ \E key : ReadKey(key)
      BY <1>1, <3>1, PlayerLabelled, ThreadNames
    <3>2. CASE \E i \in CrocIds : CrocStep(i)
      BY <1>1, <3>2, CrocLabelled, ThreadNames
    <3>3. CASE \E k \in BulletIds : BulletStep(k)
      BY <1>1, <3>3, BulletLabelled, ThreadNames
    <3>4. CASE Shot
      BY <1>1, <3>4, ShotStarts, ThreadNames
    <3>5. CASE \E t \in Producers : Cancelled(t)
      BY <1>1, <3>5, ThreadNames DEF Cancelled, Go, Producers
    <3>6. CASE RunGame \/ Signal \/ UNCHANGED vars
      BY <3>6 DEF RunGame, JoinGame, JoinCroc, JoinPlayer, CancelBullet, JoinBullet, Destroy,
         Signal, vars
    <3>7. QED
      BY <1>3, <3>1, <3>2, <3>3, <3>4, <3>5, <3>6 DEF Next, Playing, Finished
  <2>2. UNCHANGED g
    <3>1. CASE PlayerStep \/ \E key : ReadKey(key)
      BY <3>1 DEF PlayerStep, ReadKey, PlayerEnds, TogglePause, PauseText, DrawResumed,
         LockFrog, ShootLeft, ShootRight, Quit, Move, Publish, locals
    <3>2. CASE \E i \in CrocIds : CrocStep(i)
      BY <3>2 DEF CrocStep, Swim, DropFrog, ShiftFrog, Aim, Fire, Announce, CrocEnds, locals
    <3>3. CASE \E k \in BulletIds : BulletStep(k)
      BY <3>3 DEF BulletStep, FlyOver, FlyStop, Fly, Tell, ClearSlot, LastMessage, locals
    <3>4. CASE Shot \/ RunGame \/ Signal \/ UNCHANGED vars \/ \E t \in Producers : Cancelled(t)
      BY <3>4 DEF Shot, RunGame, JoinGame, JoinCroc, JoinPlayer, CancelBullet, JoinBullet,
         Destroy, Signal, vars, Cancelled, locals
    <3>5. QED
      BY <1>3, <3>1, <3>2, <3>3, <3>4 DEF Next, Playing, Finished
  <2>3. QED
    BY <2>1, <2>2 DEF LastWords
<1>4. QED
  BY <1>2, <1>3

LEMMA BulletsInit == Init => BulletInv
<1> SUFFICES ASSUME Init PROVE BulletInv
  OBVIOUS
<1>1. /\ pc[Game] = "top" /\ \A k \in BulletIds : pc[Bullet(k)] = "none"
      /\ DOMAIN m = {"at", "i", "target", "stuck"} /\ m.target = Nobody
  BY ThreadNames DEF Init, Game, Player, Croc, Bullet
<1>2. Pending = <<>> /\ \A s \in SlotIds : ~slots[s].pos.active
  <2>1. queue = <<>>
    BY DEF Init
  <2>2. \A s \in SlotIds : slots[s].pos = NoBullet
    BY DEF Init
  <2>3. QED
    BY <1>1, <2>1, <2>2 DEF Pending, At, NoBullet, Cell
<1>3. \A s : ~Recalls(Pending, s)
  BY <1>2 DEF Recalls
<1>4. QED
  BY <1>1, <1>2, <1>3 DEF BulletInv, LastWords, Cared, MsgTypes

LEMMA BulletsLast ==
  ASSUME TypeInv, NEW s
  PROVE  Clears(Pending, s) => LastClears(s)
<1> DEFINE A == Messages
<1>1. Pending \in Seq(A)
  BY PendingTyped
<1> HIDE DEF A
<1>2. DOMAIN Pending = 1..Len(Pending)
  BY <1>1
<1>3. QED
  BY <1>2 DEF Clears, Names, LastClears

(* A bullet on the screen has a thread that still works on its slot, or    *)
(* the last message about the slot, which is still to be applied, takes it *)
(* away: no late position of a bullet leaves it there for ever             *)
(* (projectiles.c 78-88).                                                  *)
THEOREM NoZombie == OpenSpec => []NoZombieBullet
<1>1. Init => BulletInv
  BY BulletsInit
<1>2. SafeInv /\ BulletInv /\ [Next \/ Shot]_vars => BulletInv'
  <2> SUFFICES ASSUME SafeInv, BulletInv, [Next \/ Shot]_vars PROVE BulletInv'
    OBVIOUS
  <2>1. LastWords
    BY DEF BulletInv
  <2>2. LastWords'
    BY <2>1, RunGameTargets, LastMessages, LoopLetters, RunGameRecord DEF LastWords
  <2>3. QED
    BY <2>2, CareKeeps DEF BulletInv
<1>3. SafeInv /\ BulletInv => NoZombieBullet
  BY BulletsLast DEF BulletInv, Cared, NoZombieBullet, SafeInv
<1>4. QED
  BY <1>1, <1>2, <1>3, SafeInvariance, PTL DEF OpenSpec
=============================================================================
