---------------------------- MODULE BulletThread ----------------------------
(***************************************************************************)
(* bullet_thread (ver_thread/src/projectiles.c).  Thread k works on the    *)
(* slot it was created for until it ends; one at "none" is not created yet. *)
(***************************************************************************)
EXTENDS ThreadState

Me(k) == Bullet(k)
Mine(k) == slots[b[k].slot].pos
SetMine(k, q) == slots' = [slots EXCEPT ![b[k].slot].pos = q]

Stopped(k) == ~Mine(k).active \/ Mine(k).collision
Flown(k) == [Mine(k) EXCEPT !.x = @ + slots[b[k].slot].dir]
Outside(q) == q.x <= 0 \/ q.x >= Width - 1

FlyOver(k) ==
  /\ At(Me(k), "loop")
  /\ over
  /\ SetMine(k, [Mine(k) EXCEPT !.active = FALSE])
  /\ Go(Me(k), "clear")
  /\ UNCHANGED <<frog, on, croc, orig, status, queue, lock, locals, turn, m>>

FlyStop(k) ==
  /\ At(Me(k), "loop")
  /\ ~over /\ ~paused
  /\ Stopped(k)
  /\ Go(Me(k), "clear")
  /\ UNCHANGED <<world, orig, status, queue, lock, locals, turn, m>>

(* One cell further; at the border the bullet is inactive. *)
Fly(k) ==
  /\ At(Me(k), "loop")
  /\ ~over /\ ~paused
  /\ ~Stopped(k)
  /\ turn[Me(k)] > 0
  /\ turn' = [turn EXCEPT ![Me(k)] = @ - 1]
  /\ LET q == [Flown(k) EXCEPT !.active = ~Outside(Flown(k))]
     IN /\ SetMine(k, q)
        /\ b' = [b EXCEPT ![k].out = q]
        /\ Go(Me(k), IF q.active THEN "tell" ELSE "tellOut")
  /\ UNCHANGED <<frog, on, croc, orig, status, queue, lock, g, p, m>>

Tell(k) ==
  /\ pc[Me(k)] \in {"tell", "tellOut", "tellLast"}
  /\ Put(BulletMsg(b[k].slot, b[k].out))
  /\ Go(Me(k), CASE At(Me(k), "tell") -> "loop"
                 [] At(Me(k), "tellOut") -> "clear"
                 [] OTHER -> "end")
  /\ b' = [b EXCEPT ![k].out = NoBullet]
  /\ UNCHANGED <<world, orig, status, lock, g, p, turn, m>>

(* After the loop: the slot is cleared, whoever has it by now. *)
ClearSlot(k) ==
  /\ At(Me(k), "clear")
  /\ SetMine(k, [Mine(k) EXCEPT !.active = FALSE])
  /\ Go(Me(k), "last")
  /\ UNCHANGED <<frog, on, croc, orig, status, queue, lock, locals, turn, m>>

Mut_LastMessage(k) ==  \* sends the slot as it finds it
  /\ At(Me(k), "last")
  /\ b' = [b EXCEPT ![k].out = Mine(k)]
  /\ Go(Me(k), "tellLast")
  /\ UNCHANGED <<world, orig, status, queue, lock, g, p, turn, m>>

LastMessage(k) ==
  /\ At(Me(k), "last")
  /\ b' = [b EXCEPT ![k].out = [Mine(k) EXCEPT !.active = FALSE]]
  /\ Go(Me(k), "tellLast")
  /\ UNCHANGED <<world, orig, status, queue, lock, g, p, turn, m>>

BulletStep(k) ==
  \/ FlyOver(k)
  \/ FlyStop(k)
  \/ Fly(k)
  \/ Tell(k)
  \/ ClearSlot(k)
  \/ LastMessage(k)
=============================================================================
