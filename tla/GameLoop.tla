------------------------------ MODULE GameLoop ------------------------------
(***************************************************************************)
(* game_thread (ver_thread/src/game.c): one frame goes through the timer,  *)
(* the crocodile under the frog, the water, the dens, the bullets and the  *)
(* messages, and is drawn.  A local variable that is no longer needed is   *)
(* given its first value back.                                             *)
(***************************************************************************)
EXTENDS ThreadState

(* time(NULL) may have advanced since the last frame, or not. *)
FrameStart ==
  /\ At(Game, "top")
  /\ ~over /\ vite > 0 /\ ~paused
  /\ \/ Clock /\ Go(Game, "timer")
     \/ Go(Game, "look")
  /\ turn' = [t \in Producers |-> Burst]
  /\ UNCHANGED <<world, orig, status, queue, lock, locals, m>>

GameEnds ==
  /\ At(Game, "top")
  /\ over \/ vite <= 0
  /\ Go(Game, "end")
  /\ UNCHANGED <<world, orig, status, queue, lock, locals, turn, m>>

(* reset_player_safely, going on at l. *)
CallReset(l) ==
  /\ Go(Game, "resetFlags")
  /\ g' = [g EXCEPT !.ret = l]

(* One life less.  The last one ends the game, else reset_player_safely is *)
(* called and the thread goes on at l.                                     *)
LoseLife(l) ==
  /\ vite' = vite - 1
  /\ IF vite > 1 THEN CallReset(l) /\ UNCHANGED over
                 ELSE Go(Game, l) /\ over' = TRUE /\ UNCHANGED g

(* The second runs down under game_mutex, and the reset is called with it: *)
(* ResetTime waits for the mutex its own thread holds, so the unlock after *)
(* the call is never reached.                                              *)
Tick ==
  /\ At(Game, "timer")
  /\ Free(GameMutex)
  /\ time' = time - 1
  /\ \/ /\ time > 1
        /\ Go(Game, "look")
        /\ UNCHANGED <<vite, over, lock, g>>
     \/ /\ time <= 1
        /\ LoseLife("look")
        /\ IF vite > 1 THEN Lock(GameMutex, Game) ELSE UNCHANGED lock
  /\ UNCHANGED <<world, orig, tane, paused, queue, p, b, turn, m>>

ResetFlags ==
  /\ At(Game, "resetFlags")
  /\ on' = 0
  /\ Go(Game, "resetFrog")
  /\ UNCHANGED <<frog, croc, slots, orig, status, queue, lock, locals, turn, m>>

ResetFrog ==
  /\ At(Game, "resetFrog")
  /\ Free(FrogMutex)
  /\ frog' = Start
  /\ Go(Game, "resetPut")
  /\ UNCHANGED <<on, croc, slots, orig, status, queue, lock, locals, turn, m>>

ResetPut ==
  /\ At(Game, "resetPut")
  /\ Put(FrogMsg(Start))
  /\ Go(Game, "resetTime")
  /\ UNCHANGED <<world, orig, status, lock, locals, turn, m>>

ResetTime ==
  /\ At(Game, "resetTime")
  /\ Free(GameMutex)
  /\ time' = MaxTime
  /\ Go(Game, g.ret)
  /\ g' = [g EXCEPT !.ret = ""]
  /\ UNCHANGED <<world, orig, vite, tane, paused, over, queue, lock, p, b, turn, m>>

(* player_copy, what the next steps judge the frog by. *)
Look ==
  /\ At(Game, "look")
  /\ Free(FrogMutex)
  /\ g' = [g EXCEPT !.copy = frog]
  /\ Go(Game, "ride")
  /\ UNCHANGED <<world, orig, status, queue, lock, p, b, turn, m>>

Ride ==
  /\ At(Game, "ride")
  /\ IF on # 0 \/ NumCrocs = 0
     THEN Go(Game, "water") /\ UNCHANGED g
     ELSE Go(Game, "scan") /\ g' = [g EXCEPT !.i = 1]
  /\ UNCHANGED <<world, orig, status, queue, lock, p, b, turn, m>>

Scan ==
  /\ At(Game, "scan")
  /\ Free(CrocMutex(g.i))
  /\ IF OnCroc(g.copy, croc[g.i], g.i) THEN Go(Game, "attach") /\ UNCHANGED g
     ELSE IF g.i = NumCrocs
     THEN Go(Game, "water") /\ g' = [g EXCEPT !.i = 0]
     ELSE g' = [g EXCEPT !.i = @ + 1] /\ UNCHANGED pc
  /\ UNCHANGED <<world, orig, status, queue, lock, p, b, turn, m>>

(* By now the crocodile or the frog may be elsewhere. *)
Attach ==
  /\ At(Game, "attach")
  /\ on' = g.i
  /\ Go(Game, "boarded")
  /\ g' = [g EXCEPT !.i = 0]
  /\ UNCHANGED <<frog, croc, slots, orig, status, queue, lock, p, b, turn, m>>

(* The score of a new row, under game_mutex. *)
Boarded ==
  /\ At(Game, "boarded")
  /\ Free(GameMutex)
  /\ Go(Game, "water")
  /\ UNCHANGED <<world, orig, status, queue, lock, locals, turn, m>>

Water ==
  /\ At(Game, "water")
  /\ Go(Game, IF on = 0 /\ InWater(g.copy) THEN "drown" ELSE "den")
  /\ g' = [g EXCEPT !.copy = Start]
  /\ UNCHANGED <<world, orig, status, queue, lock, p, b, turn, m>>

Drown ==
  /\ At(Game, "drown")
  /\ Free(GameMutex)
  /\ LoseLife("den")
  /\ UNCHANGED <<world, orig, tane, time, paused, queue, lock, p, b, turn, m>>

FreeDen(f) == IF f.y = 0 THEN DenAt(f) \ tane ELSE {}
AfterDen(f) ==
  CASE f.y > 0 -> "bullets" [] FreeDen(f) # {} -> "takeDen" [] OTHER -> "noDen"

Mut_Den ==  \* gives player.mutex back between the test and the den
  /\ At(Game, "den")
  /\ Free(FrogMutex)
  /\ Go(Game, AfterDen(frog))
  /\ g' = [g EXCEPT !.i = 1, !.den = FreeDen(frog)]
  /\ UNCHANGED <<world, orig, status, queue, lock, p, b, turn, m>>

(* The frog is looked at again; in front of a free den its mutex is kept.  *)
Den ==
  /\ At(Game, "den")
  /\ Free(FrogMutex)
  /\ IF FreeDen(frog) = {} THEN UNCHANGED lock ELSE Lock(FrogMutex, Game)
  /\ Go(Game, AfterDen(frog))
  /\ g' = [g EXCEPT !.i = 1, !.den = FreeDen(frog)]
  /\ UNCHANGED <<world, orig, status, queue, p, b, turn, m>>

Mut_TakeDen ==  \* keeps player.mutex for the reset
  /\ At(Game, "takeDen")
  /\ Free(GameMutex)
  /\ tane' = tane \cup g.den
  /\ time' = MaxTime
  /\ g' = [g EXCEPT !.den = {}, !.ret = IF tane' = Dens THEN "" ELSE "bullets"]
  /\ Go(Game, IF tane' = Dens THEN "won" ELSE "resetFlags")
  /\ UNCHANGED <<world, orig, vite, paused, over, queue, lock, p, b, turn, m>>

TakeDen ==
  /\ At(Game, "takeDen")
  /\ Free(GameMutex)
  /\ tane' = tane \cup g.den
  /\ time' = MaxTime
  /\ Unlock(FrogMutex)
  /\ g' = [g EXCEPT !.den = {}, !.ret = IF tane' = Dens THEN "" ELSE "bullets"]
  /\ Go(Game, IF tane' = Dens THEN "won" ELSE "resetFlags")
  /\ UNCHANGED <<world, orig, vite, paused, over, queue, p, b, turn, m>>

NoDen ==
  /\ At(Game, "noDen")
  /\ Free(GameMutex)
  /\ vite' = vite - 1
  /\ IF vite > 1 THEN CallReset("bullets") ELSE Go(Game, "over") /\ UNCHANGED g
  /\ UNCHANGED <<world, orig, tane, time, paused, over, queue, lock, p, b, turn, m>>

Won ==
  /\ At(Game, "won")
  /\ Free(ScreenMutex)
  /\ Go(Game, "over")
  /\ UNCHANGED <<world, orig, status, queue, lock, locals, turn, m>>

GameOver ==
  /\ At(Game, "over")
  /\ Free(GameMutex)
  /\ over' = TRUE
  /\ Go(Game, "bullets")
  /\ UNCHANGED <<world, orig, vite, tane, time, paused, queue, lock, locals, turn, m>>

(* The loop over the bullets: g.i is the slot, the next one is tried with  *)
(* NextBullet.                                                             *)
Slot(i) == slots[i].pos
NextBullet ==
  /\ Go(Game, "bullets")
  /\ g' = [g EXCEPT !.i = @ + 1, !.j = 0, !.bul = NoBullet]

BulletsDone ==
  /\ At(Game, "bullets")
  /\ g.i > NumSlots
  /\ Go(Game, "messages")
  /\ g' = [g EXCEPT !.i = 0]
  /\ UNCHANGED <<world, orig, status, queue, lock, p, b, turn, m>>

TestBullet ==
  /\ At(Game, "bullets")
  /\ g.i <= NumSlots
  /\ IF Slot(g.i).active /\ ~Slot(g.i).collision
     THEN Go(Game, "copyBullet") /\ UNCHANGED g
     ELSE NextBullet
  /\ UNCHANGED <<world, orig, status, queue, lock, p, b, turn, m>>

(* The slot is read again, in a section of its own. *)
CopyBullet ==
  /\ At(Game, "copyBullet")
  /\ IF slots[g.i].enemy
     THEN Go(Game, "hit") /\ g' = [g EXCEPT !.bul = Slot(g.i), !.j = 1]
     ELSE NextBullet
  /\ UNCHANGED <<world, orig, status, queue, lock, p, b, turn, m>>

(* In the upper row of the frog's sprite only the middle is not a blank.   *)
Hit ==
  /\ At(Game, "hit")
  /\ Free(FrogMutex)
  /\ Go(Game, IF g.bul.y = frog.y /\ g.bul.x = Centre(frog)
              THEN "hurt" ELSE "pairs")
  /\ UNCHANGED <<world, orig, status, queue, lock, locals, turn, m>>

Hurt ==
  /\ At(Game, "hurt")
  /\ Free(GameMutex)
  /\ slots' = [slots EXCEPT ![g.i].pos.collision = TRUE]
  /\ LoseLife("pairs")
  /\ UNCHANGED <<frog, on, croc, orig, tane, time, paused, queue, lock, p, b, turn, m>>

(* Same cell, crossed, about to cross. *)
Collide(q, d, r, e) ==
  /\ q.y = r.y
  /\ \/ q.x = r.x
     \/ /\ d # e
        /\ \/ q.x = r.x - e /\ r.x = q.x - d
           \/ q.x + d = r.x
           \/ q.x = r.x + e

Opponent(j) == j # g.i /\ Slot(j).active /\ ~slots[j].enemy /\ ~Slot(j).collision

Pairs ==
  /\ At(Game, "pairs")
  /\ \/ /\ g.j > NumSlots
        /\ NextBullet
     \/ /\ g.j <= NumSlots
        /\ IF Opponent(g.j) /\ Collide(g.bul, slots[g.i].dir, Slot(g.j), slots[g.j].dir)
           THEN Go(Game, "crash") /\ UNCHANGED g
           ELSE g' = [g EXCEPT !.j = @ + 1] /\ UNCHANGED pc
  /\ UNCHANGED <<world, orig, status, queue, lock, p, b, turn, m>>

(* Fifty points, under game_mutex. *)
Crash ==
  /\ At(Game, "crash")
  /\ Free(GameMutex)
  /\ Go(Game, "kill")
  /\ UNCHANGED <<world, orig, status, queue, lock, locals, turn, m>>

Dead(q) == [q EXCEPT !.active = FALSE, !.collision = TRUE]

KillBoth ==
  /\ At(Game, "kill")
  /\ slots' = [slots EXCEPT ![g.i].pos = Dead(@), ![g.j].pos = Dead(@)]
  /\ Go(Game, "killMsgs")
  /\ UNCHANGED <<frog, on, croc, orig, status, queue, lock, locals, turn, m>>

KillMsgs ==
  /\ At(Game, "killMsgs")
  /\ g' = [g EXCEPT !.out = <<BulletMsg(g.i, Dead(Slot(g.i))),
                              BulletMsg(g.j, Dead(Slot(g.j)))>>]
  /\ Go(Game, "killPut")
  /\ UNCHANGED <<world, orig, status, queue, lock, p, b, turn, m>>

KillPut ==
  /\ At(Game, "killPut")
  /\ \/ /\ g.out # <<>>
        /\ Put(Head(g.out))
        /\ g' = [g EXCEPT !.out = Tail(@)]
        /\ UNCHANGED pc
     \/ /\ g.out = <<>>
        /\ NextBullet
        /\ UNCHANGED queue
  /\ UNCHANGED <<world, orig, status, lock, p, b, turn, m>>

(* The messages: taken one by one with buffer_try_get, applied under the   *)
(* mutex of the object they are about.                                     *)
TakeMessage ==
  /\ At(Game, "messages")
  /\ \/ /\ queue = <<>>
        /\ Go(Game, "draw")
        /\ UNCHANGED <<queue, g>>
     \/ /\ queue # <<>>
        /\ g' = [g EXCEPT !.out = <<Head(queue)>>]
        /\ queue' = Tail(queue)
        /\ Go(Game, Head(queue).type)
  /\ UNCHANGED <<world, orig, status, lock, p, b, turn, m>>

Msg == Head(g.out)
Applied(l) == Go(Game, l) /\ g' = [g EXCEPT !.out = IF l = "messages" THEN <<>> ELSE @]

ApplyFrog ==
  /\ At(Game, "MSG_PLAYER")
  /\ Free(FrogMutex)
  /\ frog' = Msg.pos
  /\ Applied("messages")
  /\ UNCHANGED <<on, croc, slots, orig, status, queue, lock, p, b, turn, m>>

ApplyCroc ==
  /\ At(Game, "MSG_CROCODILE")
  /\ Free(CrocMutex(Msg.id))
  /\ croc' = [croc EXCEPT ![Msg.id] = Msg.pos]
  /\ Applied("aboard")
  /\ UNCHANGED <<frog, on, slots, orig, status, queue, lock, p, b, turn, m>>

Aboard ==
  /\ At(Game, "aboard")
  /\ Applied(IF on = Msg.id THEN "carry" ELSE "messages")
  /\ UNCHANGED <<world, orig, status, queue, lock, p, b, turn, m>>

Carry ==
  /\ At(Game, "carry")
  /\ Free(FrogMutex)
  /\ frog' = [frog EXCEPT !.x = @ + Dir(Msg.id)]
  /\ Applied("messages")
  /\ UNCHANGED <<on, croc, slots, orig, status, queue, lock, p, b, turn, m>>

ApplyBullet ==
  /\ At(Game, "MSG_BULLET")
  /\ slots' = [slots EXCEPT ![Msg.id].pos = Msg.pos]
  /\ Applied("messages")
  /\ UNCHANGED <<frog, on, croc, orig, status, queue, lock, p, b, turn, m>>

GameDrawn == Unlock(ScreenMutex) /\ Go(Game, "top")
DrawFrame ==
  /\ Draw(Game, g.i, GameDrawn)
  /\ g' = [g EXCEPT !.i = NextDrawn(Game, @)]
  /\ UNCHANGED <<world, orig, status, queue, p, b, turn, m>>

GameStep ==
  \/ FrameStart \/ GameEnds \/ Tick
  \/ ResetFlags \/ ResetFrog \/ ResetPut \/ ResetTime
  \/ Look \/ Ride \/ Scan \/ Attach \/ Boarded \/ Water \/ Drown
  \/ Den \/ TakeDen \/ NoDen \/ Won \/ GameOver
  \/ BulletsDone \/ TestBullet \/ CopyBullet \/ Hit \/ Hurt
  \/ Pairs \/ Crash \/ KillBoth \/ KillMsgs \/ KillPut
  \/ TakeMessage \/ ApplyFrog \/ ApplyCroc \/ Aboard \/ Carry \/ ApplyBullet
  \/ DrawFrame
=============================================================================
