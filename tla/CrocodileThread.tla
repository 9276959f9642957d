-------------------------- MODULE CrocodileThread ---------------------------
(***************************************************************************)
(* crocodile_thread (ver_thread/src/crocodile.c).  Thread i keeps its own  *)
(* mutex from Swim to Announce.                                            *)
(***************************************************************************)
EXTENDS ThreadState

(* A crocodile going right shrinks against the border and starts again on  *)
(* the left when nothing of it is left; one that is too short grows.       *)
SwimRight(c, w) ==
  LET x == c.x + 1
      rest == Width - 1 - x
  IN IF x + c.w <= Width - 1
     THEN [x |-> x, w |-> IF c.w < w THEN c.w + 1 ELSE c.w]
     ELSE IF rest > 0 THEN [x |-> x, w |-> rest] ELSE [x |-> 1, w |-> 1]

Mut_SwimLeft(c, w) ==  \* goes on shrinking when nothing is left
  LET x == c.x - 1
  IN IF x <= 0 THEN [x |-> 1, w |-> c.w - 1]
     ELSE IF c.w < w THEN [x |-> x - 1, w |-> c.w + 1] ELSE [x |-> x, w |-> c.w]

SwimLeft(c, w) ==
  LET x == c.x - 1
  IN IF x <= 0
     THEN IF c.w > 1 THEN [x |-> 1, w |-> c.w - 1] ELSE [x |-> Width - 2, w |-> 1]
     ELSE IF c.w < w THEN [x |-> x - 1, w |-> c.w + 1] ELSE [x |-> x, w |-> c.w]

Swum(i, c) == IF Dir(i) = 1 THEN SwimRight(c, orig[i]) ELSE SwimLeft(c, orig[i])
Vanishes(i, c) ==
  IF Dir(i) = 1 THEN c.x + 1 >= Width - 1 ELSE c.x <= 1 /\ c.w <= 1
GrowsLeft(i, c) == Dir(i) = -1 /\ c.x > 1 /\ c.w < orig[i]

Swim(i) ==
  /\ At(Croc(i), "loop")
  /\ ~over /\ ~paused
  /\ turn[Croc(i)] > 0
  /\ turn' = [turn EXCEPT ![Croc(i)] = @ - 1]
  /\ Lock(CrocMutex(i), Croc(i))
  /\ croc' = [croc EXCEPT ![i] = Swum(i, @)]
  /\ Go(Croc(i), CASE on = i /\ Vanishes(i, croc[i]) -> "drop"
                   [] on = i /\ GrowsLeft(i, croc[i]) -> "shift"
                   [] OTHER -> "aim")
  /\ UNCHANGED <<frog, on, slots, orig, status, queue, g, p, b, m>>

(* The crocodile has vanished under the frog. *)
DropFrog(i) ==
  /\ At(Croc(i), "drop")
  /\ Free(GameMutex)
  /\ on' = 0
  /\ Go(Croc(i), "aim")
  /\ UNCHANGED <<frog, croc, slots, orig, status, queue, lock, locals, turn, m>>

ShiftFrog(i) ==
  /\ At(Croc(i), "shift")
  /\ Free(FrogMutex)
  /\ frog' = [frog EXCEPT !.x = @ - 1]
  /\ Go(Croc(i), "aim")
  /\ UNCHANGED <<on, croc, slots, orig, status, queue, lock, locals, turn, m>>

(* rand() decides whether it shoots, unless the game is paused by now. *)
Aim(i) ==
  /\ At(Croc(i), "aim")
  /\ \/ Go(Croc(i), "announce")
     \/ ~paused /\ Go(Croc(i), "fire")
  /\ UNCHANGED <<world, orig, status, queue, lock, locals, turn, m>>

Fire(i) ==
  /\ At(Croc(i), "fire")
  /\ LET nose == IF Dir(i) = 1 THEN croc[i].x + croc[i].w - 1 ELSE croc[i].x
     IN CreateBullet(Cell(nose, CrocRow(i)), Dir(i), TRUE,
                     [pc EXCEPT ![Croc(i)] = "announce"])
  /\ UNCHANGED <<frog, on, croc, orig, status, queue, lock, g, p, turn, m>>

Announce(i) ==
  /\ At(Croc(i), "announce")
  /\ Put(CrocMsg(i, croc[i]))
  /\ Unlock(CrocMutex(i))
  /\ Go(Croc(i), "loop")
  /\ UNCHANGED <<world, orig, status, locals, turn, m>>

CrocEnds(i) ==
  /\ At(Croc(i), "loop")
  /\ over
  /\ Go(Croc(i), "end")
  /\ UNCHANGED <<world, orig, status, queue, lock, locals, turn, m>>

CrocStep(i) ==
  \/ Swim(i)
  \/ DropFrog(i)
  \/ ShiftFrog(i)
  \/ Aim(i)
  \/ Fire(i)
  \/ Announce(i)
  \/ CrocEnds(i)
=============================================================================
