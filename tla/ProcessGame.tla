---------------------------- MODULE ProcessGame -----------------------------
(***************************************************************************)
(* The process game: main (ver_processi/src/main.c), which forks the       *)
(* processes, runs one game after another and ends, with the signals and   *)
(* all the processes together.                                             *)
(***************************************************************************)
EXTENDS GameProcess, FrogProcess, CrocodileProcess

Init ==
  /\ pipe = <<>> /\ echo = <<>> /\ presses = 0
  /\ frog = Start
  /\ croc = [i \in CrocIds |-> NoCroc]
  /\ orig = [i \in CrocIds |-> 0]
  /\ bullet = [k \in BulletIds |-> NoShot]
  /\ at = [t \in Processes |-> "none"]
  /\ stopped = {} /\ term = {}
  /\ main = [at |-> "fork", i |-> 0, again |-> FALSE, kept |-> FALSE]
  /\ g = Locals(Lives, [n \in SlotIds |-> NoBullet])

(* The children are forked one after the other, the frog first; the frog   *)
(* and a crocodile are at once on their way.                               *)
ForkFrog ==
  /\ GameAt("fork") /\ main.i = 0
  /\ frog' = Start
  /\ Go(Frog, "loop")
  /\ main' = [main EXCEPT !.i = 1]
  /\ UNCHANGED <<pipes, croc, orig, bullet, signals, g>>

FirstX(i) == IF i % 2 = 1 THEN 0..(Width \div 4 - 1)
             ELSE Width \div 2..(Width \div 2 + Width \div 4 - 1)

ForkCroc ==
  LET i == main.i IN
  /\ GameAt("fork") /\ i \in CrocIds
  /\ \E x \in FirstX(i), w \in CrocWidths :
       /\ croc' = [croc EXCEPT ![i] = [x |-> x, w |-> w]]
       /\ orig' = [orig EXCEPT ![i] = w]
  /\ Go(Croc(i), "loop")
  /\ main' = [main EXCEPT !.i = @ + 1]
  /\ UNCHANGED <<pipes, frog, bullet, signals, g>>

(* game() is called.  c, x and y of its bullets are not initialised: they  *)
(* are what the memory held, after another game what that left there.      *)
StartGame ==
  /\ GameAt("fork") /\ main.i = NumCrocs + 1
  /\ \E left \in {{}, SlotIds} :
       g' = Locals(g.vite, [n \in SlotIds |->
              IF n \in left
              THEN [g.table[n] EXCEPT !.active = FALSE, !.hit = FALSE, !.pid = 0]
              ELSE NoBullet])
  /\ main' = [main EXCEPT !.at = "top", !.i = 0]
  /\ UNCHANGED <<pipes, children, at, signals>>

(* handle_game_end: the answer, and SIGTERM for the children.              *)
Answer ==
  /\ GameAt("ask")
  /\ \E again \in BOOLEAN :
       /\ main' = [main EXCEPT !.at = "reap", !.again = again]
       /\ g' = IF again THEN [g EXCEPT !.vite = Lives] ELSE g
  /\ term' = {t \in Family : Alive(t)}
  /\ UNCHANGED <<pipes, children, at, stopped>>

(* waitpid for all of them.  A new game has new pipes; the bullets that    *)
(* still fly keep the old ones.                                            *)
Mut_Again ==
  /\ presses' = 0
  /\ bullet' = [k \in BulletIds |-> [NoShot EXCEPT !.old = Alive(Bullet(k))]]
  /\ at' = [t \in Processes |-> IF Alive(t) THEN at[t] ELSE "none"]
  /\ UNCHANGED <<pipe, echo>>
Again ==
  /\ pipe' = <<>> /\ echo' = <<>> /\ presses' = 0
  /\ bullet' = [k \in BulletIds |-> [NoShot EXCEPT !.old = Alive(Bullet(k))]]
  /\ at' = [t \in Processes |-> IF Alive(t) THEN at[t] ELSE "none"]

(* The main process ends, in its first game or in a later one.             *)
Ended == \E first \in {main.at # "fork", FALSE} :
           main' = [main EXCEPT !.at = "done", !.kept = first]

Reap ==
  /\ GameAt("reap")
  /\ \A t \in Family : ~Alive(t)
  /\ IF main.again
     THEN Again /\ main' = [main EXCEPT !.at = "fork", !.i = 0, !.again = FALSE]
     ELSE Ended /\ UNCHANGED <<pipes, at, bullet>>
  /\ UNCHANGED <<frog, croc, orig, signals, g>>

-----------------------------------------------------------------------------
(* Signals                                                                 *)

Die(t) ==
  /\ t \in term
  /\ Runs(t)
  /\ Gone(t)
  /\ term' = term \ {t}
  /\ UNCHANGED <<pipes, stopped, g, main>>

BrokenPipe(t) ==
  /\ Broken /\ Runs(t)
  /\ Gone(t)
  /\ term' = term \ {t}
  /\ UNCHANGED <<pipes, stopped, g, main>>

(* handle_termination_signal, on a SIGTERM: SIGTERM for the frog and, as   *)
(* soon as all of them have been forked, the crocodiles.  Ctrl+C reaches   *)
(* the whole group, whose processes have inherited the handler.  When the  *)
(* main process ends, the kernel hangs up the stopped ones of its group.   *)
Known == IF main.at = "fork" THEN {Frog} ELSE Family

Mut_Terminate ==  \* the frog is forgotten
  /\ "signal" \in Keys
  /\ Game \notin stopped /\ main.at # "done"
  /\ Ended
  /\ \E signalled \in {Known \ {Frog}, Processes} :
       term' = {t \in stopped \cup signalled : Alive(t)}
  /\ stopped' = {}
  /\ echo' = <<>> /\ presses' = 0  \* of no use any more
  /\ g' = Locals(Lives, [n \in SlotIds |-> NoBullet])
  /\ UNCHANGED <<pipe, children, at>>

Terminate ==
  /\ "signal" \in Keys
  /\ Game \notin stopped /\ main.at # "done"
  /\ Ended
  /\ \E signalled \in {Known, Processes} :
       term' = {t \in stopped \cup signalled : Alive(t)}
  /\ stopped' = {}
  /\ echo' = <<>> /\ presses' = 0  \* of no use any more
  /\ g' = Locals(Lives, [n \in SlotIds |-> NoBullet])
  /\ UNCHANGED <<pipe, children, at>>

(* The shell continues the group that it has seen stop.                    *)
Foreground ==
  /\ Game \in stopped
  /\ stopped' = {}
  /\ UNCHANGED <<pipes, children, at, term, g, main>>

-----------------------------------------------------------------------------
MainStep == ForkFrog \/ ForkCroc \/ StartGame \/ GameCheck \/ StopFamily
              \/ GameRead \/ Reap
FrogStep == FrogRound \/ FrogWrite
CrocStep(i) == CrocRound(i) \/ CrocWrite(i)
BulletStep(k) == BulletRound(k) \/ OldBulletEnds(k)
Dies(t) == Die(t) \/ BrokenPipe(t)

(* What is left then may wait for room for ever.                           *)
Finished == main.at = "done" /\ UNCHANGED vars

Next ==
  \/ MainStep \/ Answer
  \/ FrogStep \/ FrogPause
  \/ \E i \in CrocIds : CrocStep(i)
  \/ \E k \in BulletIds : BulletStep(k)
  \/ \E t \in Processes : Dies(t)
  \/ Terminate \/ Foreground
  \/ Finished

Spec == Init /\ [][Next]_vars

(* A signal is delivered in the end, and a write() to the pipe is made.    *)
FairSpec == Spec /\ WF_vars(\E t \in Family : Dies(t))

-----------------------------------------------------------------------------
(* Properties *)

Cells == [x : -Drift - HStep..Width - 1 + Drift, y : 0..StartRow]
TypeOK ==
  /\ Len(pipe) <= PipeCap
  /\ Len(echo) <= EchoCap
  /\ \A n \in DOMAIN echo : echo[n] \in Cells
  /\ frog \in Cells
  /\ \A i \in CrocIds : croc[i].w \in 0..orig[i] /\ croc[i].x \in 0..Width
  /\ g.rana \in [x : 1..Width - 2, y : 0..StartRow, w : {FirstW, FrogW}]
  /\ g.vite \in 0..Lives /\ g.time \in 0..MaxTime /\ g.dens \subseteq Dens
  /\ stopped \subseteq Processes \cup {Game} /\ term \subseteq Family \cup Bullets

(* No process is left stopped when the game goes on, is over or restarts:  *)
(* a SIGTERM to a stopped child stays pending and the waitpid that follows *)
(* would wait for ever.                                                    *)
NobodyLeftStopped == g.paused \/ stopped = {}

(* Bullets of an earlier game, still flying when the next one starts, are  *)
(* not in its table or its pipe: what the game before left in either is    *)
(* gone when it starts (main.c 156-202; the bullets that fly on write to   *)
(* the old pipe).                                                          *)
OwnBullets ==
  main.at \in {"top", "read", "stopping"} =>
    /\ \A n \in SlotIds : g.table[n].active => ~bullet[g.table[n].pid].old
    /\ \A n \in DOMAIN pipe : pipe[n].c \in {"*", "@"} => ~bullet[pipe[n].id].old

(* A slot in use whose process has ended is given back by the last message *)
(* of that process; only the resumed game, which drops what the pipe       *)
(* holds, can lose that and keep the slot for ever.                        *)
Ghosts ==
  {n \in SlotIds :
     /\ main.at \in {"top", "read", "stopping"}
     /\ g.table[n].active
     /\ ~Alive(Bullet(g.table[n].pid))
     /\ \A k \in DOMAIN pipe :
          ~(pipe[k].c \in {"*", "@"} /\ pipe[k].id = g.table[n].pid)}
GhostsByResumeOnly ==
  [][(g.paused => g'.paused) => Ghosts' \subseteq Ghosts]_vars

(* However the game ends, no frog or crocodile outlives it.                *)
ChildrenEnd == main.at \in {"reap", "done"} ~> \A t \in Family : ~Alive(t)

(* A paused game can be continued (game.c:127, "Premi 'p' per continuare"): *)
(* the frog, which reads that key, does not wait for room in the pipe that *)
(* the paused game does not read.                                          *)
PauseCanEnd == g.paused /\ main.at = "top" /\ at[Frog] = "write" => Room
=============================================================================
