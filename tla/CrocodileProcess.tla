------------------------- MODULE CrocodileProcess ---------------------------
(***************************************************************************)
(* A process coccodrillo (ver_processi/src/crocodile.c) and the process of *)
(* a bullet (projectiles.c).                                               *)
(***************************************************************************)
EXTENDS ProcessState

(* handle_border_collision, for a crocodile of original width w: against a *)
(* border it shrinks, and when nothing is left it is whole again on the    *)
(* other side.                                                             *)
Bordered(q, w) ==
  CASE q.x <= 1 -> IF q.w > 1 THEN [x |-> 2, w |-> q.w - 1]
                   ELSE [x |-> Width - 2, w |-> w]
    [] q.x >= Width - 3 -> IF q.w > 1 THEN [x |-> Width - 3, w |-> q.w - 1]
                           ELSE [x |-> 1, w |-> w]
    [] OTHER -> q

(* update_position.                                                        *)
Swum(i) ==
  LET q == Bordered(croc[i], orig[i]) IN [q EXCEPT !.x = @ + Dir(i)]

(* A round: move, now and then shoot from the head, tell the game.         *)
CrocRound(i) ==
  /\ At(Croc(i), "loop")
  /\ croc' = [croc EXCEPT ![i] = Swum(i)]
  /\ \E shoots \in BOOLEAN :
       LET head == IF Dir(i) = 1 THEN Swum(i).x + Swum(i).w - 1 ELSE Swum(i).x
           quiet == [bullet |-> bullet, at |-> [at EXCEPT ![Croc(i)] = "write"]]
           w == IF shoots THEN Forked(quiet, "@", head, CrocRow(i), Dir(i))
                ELSE quiet
       IN bullet' = w.bullet /\ at' = w.at
  /\ UNCHANGED <<pipes, frog, orig, signals, g, main>>

CrocWrite(i) ==
  /\ At(Croc(i), "write")
  /\ Write(CrocMsg(i, croc[i]))
  /\ Go(Croc(i), "loop")
  /\ UNCHANGED <<echo, presses, children, signals, g, main>>

(* A bullet moves and tells the game; beyond a border it tells so and      *)
(* ends.  Nobody waits for it, so it stays a zombie while its parent lives. *)
Beyond(q) == q.x >= Width - 2 \/ q.x <= 1
Flown(k) == [bullet[k] EXCEPT !.x = @ + bullet[k].dir]

Mut_BulletRound(k) ==  \* ends without a last message
  /\ At(Bullet(k), "fly")
  /\ ~bullet[k].old
  /\ IF Beyond(Flown(k))
     THEN Gone(Bullet(k)) /\ UNCHANGED pipe
     ELSE /\ Write(BulletMsg(k, Flown(k), TRUE))
          /\ bullet' = [bullet EXCEPT ![k] = Flown(k)]
          /\ UNCHANGED <<frog, croc, orig, at>>
  /\ UNCHANGED <<echo, presses, signals, g, main>>

BulletRound(k) ==
  /\ At(Bullet(k), "fly")
  /\ ~bullet[k].old
  /\ Write(BulletMsg(k, Flown(k), ~Beyond(Flown(k))))
  /\ IF Beyond(Flown(k))
     THEN Gone(Bullet(k))
     ELSE /\ bullet' = [bullet EXCEPT ![k] = Flown(k)]
          /\ UNCHANGED <<frog, croc, orig, at>>
  /\ UNCHANGED <<echo, presses, signals, g, main>>

(* A bullet of a game that is over has the pipe of that game.  It ends by  *)
(* SIGPIPE or, where the music keeps the pipe, beyond the border, or waits *)
(* for room for ever.                                                      *)
OldBulletEnds(k) ==
  /\ At(Bullet(k), "fly")
  /\ bullet[k].old
  /\ Go(Bullet(k), "none")
  /\ bullet' = [bullet EXCEPT ![k] = NoShot]
  /\ UNCHANGED <<pipes, frog, croc, orig, signals, g, main>>
=============================================================================
