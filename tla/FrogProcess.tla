---------------------------- MODULE FrogProcess -----------------------------
(***************************************************************************)
(* The process of the frog: rana (ver_processi/src/player.c).              *)
(***************************************************************************)
EXTENDS ProcessState

(* At the top of a round: the oldest position the game has sent, if any.   *)
Updated == IF echo = <<>> THEN frog ELSE Head(echo)
Rest(s) == IF s = <<>> THEN s ELSE Tail(s)

Mut_FrogMoved(f, key) == IF key = "up" THEN [f EXCEPT !.y = @ - 1] ELSE f

(* The frog after a key ("" for none); q takes it in front of the dens.    *)
FrogMoved(f, key) ==
  CASE key = "up" /\ f.y > 0 -> [f EXCEPT !.y = @ - 1]
    [] key = "down" /\ f.y < StartRow -> [f EXCEPT !.y = @ + 1]
    [] key = "left" /\ f.x > 1 -> [f EXCEPT !.x = @ - HStep]
    [] key = "right" /\ f.x < Width - FrogW - 1 -> [f EXCEPT !.x = @ + HStep]
    [] key = "q" -> [x |-> Width \div 2, y |-> 1]
    [] OTHER -> f

(* The space bar forks a bullet to the right and one to the left.          *)
Shots(f, key, w) ==
  IF key # "space" THEN w
  ELSE Forked(Forked(w, "*", f.x + FrogW, f.y, 1), "*", f.x - 1, f.y, -1)

FrogRound ==
  /\ At(Frog, "loop")
  /\ \E key \in (Keys \ {"p", "signal"}) \cup {""} :
       LET f == FrogMoved(Updated, key)
           w == Shots(Updated, key,
                      [bullet |-> bullet, at |-> [at EXCEPT ![Frog] = "write"]])
       IN /\ frog' = f
          /\ bullet' = w.bullet
          /\ at' = w.at
  /\ echo' = Rest(echo)
  /\ UNCHANGED <<pipe, presses, croc, orig, signals, g, main>>

FrogWrite ==
  /\ At(Frog, "write")
  /\ Write(FrogMsg(frog))
  /\ Go(Frog, "loop")
  /\ UNCHANGED <<echo, presses, children, signals, g, main>>

(* p sends a pause command; the round has no position.                     *)
FrogPause ==
  /\ At(Frog, "loop")
  /\ "p" \in Keys
  /\ presses < PauseCap
  /\ presses' = presses + 1
  /\ frog' = Updated
  /\ echo' = Rest(echo)
  /\ UNCHANGED <<pipe, croc, orig, bullet, at, signals, g, main>>
=============================================================================
