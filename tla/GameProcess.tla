---------------------------- MODULE GameProcess -----------------------------
(***************************************************************************)
(* The loop of the game: game() (ver_processi/src/game.c).  One iteration  *)
(* looks for a pause command (GameCheck), waits for a position and handles *)
(* it (GameRead).                                                          *)
(***************************************************************************)
EXTENDS ProcessState

NoBullet ==
  [c |-> "", x |-> 0, y |-> 0, active |-> FALSE, hit |-> FALSE, pid |-> 0]

(* The locals of game() when it starts with these lives and this memory of *)
(* the bullets.                                                            *)
Locals(vite, table) ==
  [rana |-> [x |-> Start.x, y |-> Start.y, w |-> FirstW],
   known |-> [i \in CrocIds |-> NoCroc],
   table |-> table,
   vite |-> vite, dens |-> {}, time |-> MaxTime,
   paused |-> FALSE, nonblock |-> FALSE]

Heard(i) == g.known[i].w # 0
ActiveBullets == {Bullet(g.table[s].pid) : s \in {n \in SlotIds : g.table[n].active}}

-----------------------------------------------------------------------------
(* Pause: SIGSTOP and SIGCONT                                              *)

(* Pause begins with the crocodiles, in the order of their ids; a resumed  *)
(* game continues the processes, and drops what has been written since.    *)
(* A process not heard of has pid 0: that signals the whole group.         *)
Mut_Continued ==  \* only the crocodiles
  stopped \ {Croc(i) : i \in {n \in CrocIds : Heard(n)}}

Continued ==
  IF \E i \in CrocIds : ~Heard(i) THEN {}
  ELSE stopped \ (ActiveBullets \cup {Croc(i) : i \in CrocIds})

GameCheck ==
  /\ GameAt("top")
  /\ presses' = IF presses > 0 THEN presses - 1 ELSE 0
  /\ \/ /\ presses > 0 /\ ~g.paused
        /\ g' = [g EXCEPT !.paused = TRUE]
        /\ main' = [main EXCEPT !.at = "stopping", !.i = 1]
        /\ UNCHANGED <<pipe, stopped>>
     \/ /\ presses > 0 /\ g.paused
        /\ g' = [g EXCEPT !.paused = FALSE]
        /\ main' = [main EXCEPT !.at = "read"]
        /\ stopped' = Continued
        /\ pipe' = <<>>
     \/ /\ presses = 0 /\ ~g.paused
        /\ main' = [main EXCEPT !.at = "read"]
        /\ UNCHANGED <<pipe, stopped, g>>
  /\ UNCHANGED <<echo, children, at, term>>

(* kill(0, SIGSTOP) stops this process too: the rest of the loop runs when *)
(* the shell has continued it.                                             *)
StopFamily ==
  LET unheard == {i \in CrocIds : i >= main.i /\ ~Heard(i)} IN
  /\ GameAt("stopping")
  /\ IF unheard = {}
     THEN /\ stopped' = stopped \cup {t \in ActiveBullets : Alive(t)}
                          \cup {Croc(i) : i \in {n \in CrocIds : n >= main.i}}
          /\ main' = [main EXCEPT !.at = "top", !.i = 0]
     ELSE /\ stopped' = {Game} \cup {t \in Processes : Alive(t)}
          /\ main' = [main EXCEPT !.i = First(unheard) + 1]
  /\ UNCHANGED <<pipes, children, at, term, g>>

-----------------------------------------------------------------------------
(* A position: s is g with the pipe to the frog, and where the game goes   *)
(* when it is not on through the iteration.                                *)

Clamped(r) ==
  LET right == Width - r.w - 1
  IN [r EXCEPT !.x = IF @ > right THEN right ELSE IF @ < 1 THEN 1 ELSE @]

(* write() to the frog: without O_NONBLOCK it waits for room (GameRead).   *)
Send(s, x, y) ==
  [s EXCEPT !.echo = IF s.nonblock /\ Len(@) >= EchoCap THEN @
                     ELSE Append(@, [x |-> x, y |-> y])]

Home(s) == Send([s EXCEPT !.rana.x = Start.x, !.rana.y = Start.y], Start.x, Start.y)

Ends(s) == [s EXCEPT !.to = "ask"]

(* One life less; with none left the game is over.                         *)
LifeLost(s, next) ==
  IF s.vite <= 1 THEN Ends([s EXCEPT !.vite = 0])
  ELSE [Home(s) EXCEPT !.vite = @ - 1, !.time = MaxTime, !.to = next]

(* rana_coccodrillo and frog_on_the_water.                                 *)
Under(s) ==
  {i \in CrocIds :
     /\ Heard(i)
     /\ s.rana.y = CrocRow(i)
     /\ s.rana.x \in s.known[i].x..(s.known[i].x + s.known[i].w - s.rana.w)}
InWater(r) == r.y \in 2..(Lanes + 1)

(* A position of the frog: it is judged where it was before.  A frog on a  *)
(* crocodile is carried a cell and told so, also beyond a border, where    *)
(* the game itself does not follow; one in the water loses a life.  Further *)
(* out than Drift the frog is not followed.                                *)
Carried(x) ==
  LET far == Width - 1 + Drift
  IN IF x < -Drift THEN -Drift ELSE IF x > far THEN far ELSE x

FrogHeard(s, m) ==
  IF Under(s) # {}
  THEN LET x == Carried(m.x + Dir(First(Under(s)))) IN
       [Send([s EXCEPT !.nonblock = TRUE], x, m.y) EXCEPT
          !.rana = Clamped([@ EXCEPT !.x = x, !.y = m.y])]
  ELSE IF InWater(s.rana) THEN LifeLost(s, "top")
  ELSE [s EXCEPT !.rana = Clamped([x |-> m.x, y |-> m.y, w |-> m.w])]

CrocHeard(s, m) == [s EXCEPT !.known[m.id] = [x |-> m.x, w |-> m.w]]

(* A position of a bullet: the slots whose process is gone are cleared (a  *)
(* zombie is not gone), the slot of its process follows it, or else it     *)
(* takes the first free one.                                               *)
SlotOf(s, k) == {n \in SlotIds : s.table[n].active /\ s.table[n].pid = k}
Vacant(s) == {n \in SlotIds : ~s.table[n].active}
Reaped(s) ==
  [s EXCEPT !.table = [n \in SlotIds |->
     IF @[n].active /\ at[Bullet(@[n].pid)] = "none"
     THEN [@[n] EXCEPT !.active = FALSE] ELSE @[n]]]

Taken(m) == [c |-> m.c, x |-> m.x, y |-> m.y, active |-> TRUE, hit |-> FALSE,
             pid |-> m.id]

BulletHeard(s, m) ==
  IF SlotOf(s, m.id) # {}
  THEN [s EXCEPT !.table[First(SlotOf(s, m.id))] =
          [@ EXCEPT !.x = m.x, !.y = m.y, !.active = m.active]]
  ELSE IF m.active /\ Vacant(s) # {}
  THEN [s EXCEPT !.table[First(Vacant(s))] = Taken(m)]
  ELSE s

Handled(s, m) ==
  CASE m.c = "$" -> FrogHeard(s, m)
    [] m.c = "C" -> CrocHeard(s, m)
    [] OTHER -> BulletHeard(Reaped(s), m)

(* The top row: the first free den the frog is in, or a life.              *)
DenX(i) ==
  LET space == (Width - 2 - NumDens * DenW) \div (NumDens + 1)
  IN 1 + space + (i - 1) * (DenW + space)
FreeDensAt(s) ==
  LET centre == s.rana.x + s.rana.w \div 2
  IN {i \in Dens \ s.dens : centre \in DenX(i)..(DenX(i) + DenW)}

Topped(s) ==
  IF s.rana.y > 0 THEN s
  ELSE IF FreeDensAt(s) = {} THEN LifeLost(s, "top")
  ELSE LET t == [Home(s) EXCEPT !.dens = @ \cup {First(FreeDensAt(s))},
                                !.time = MaxTime]
       IN IF t.dens = Dens THEN Ends(t) ELSE t

(* A bullet of a crocodile hits the frog, be its slot in use or not.       *)
Hits(s) ==
  {n \in SlotIds : LET e == s.table[n] IN
     e.c = "@" /\ e.x = s.rana.x /\ e.y = s.rana.y /\ ~e.hit}
Struck(s) ==
  IF Hits(s) = {} THEN s
  ELSE [LifeLost(s, "on") EXCEPT !.table[First(Hits(s))].hit = (s.vite > 1)]

(* Two bullets that meet are out: a shot of the frog with the first of the *)
(* crocodiles' in its cell.                                                *)
Flying(s, c) == {n \in SlotIds : LET e == s.table[n] IN e.active /\ ~e.hit /\ e.c = c}
SameCell(d, e) == d.x = e.x /\ d.y = e.y
Clashed(s) ==
  LET In(n, c) == {o \in Flying(s, c) : SameCell(s.table[o], s.table[n])}
      out == {n \in Flying(s, "*") : In(n, "@") # {}}
               \cup {n \in Flying(s, "@") : In(n, "*") # {} /\ n = First(In(n, "@"))}
  IN [s EXCEPT !.table = [n \in SlotIds |->
        IF n \in out THEN [@[n] EXCEPT !.hit = TRUE] ELSE @[n]]]

Ticked(s) ==
  IF s.time <= 1 THEN Ends([s EXCEPT !.time = 0]) ELSE [s EXCEPT !.time = @ - 1]

On(s) == s.to = "on"

(* One position, through the stages of the iteration: what it says, the top *)
(* row, the bullets, the clock.  While a write to the frog waits for room  *)
(* the position is still in the pipe here, where the code has taken it out: *)
(* the pipe has one place less then.                                       *)
GameRead ==
  /\ GameAt("read")
  /\ pipe # <<>>
  /\ pipe' = Tail(pipe)
  /\ \E second \in {FALSE, Clock} :
     \E s0 \in {[f \in DOMAIN g \cup {"echo", "to"} |->
                  IF f = "echo" THEN echo ELSE IF f = "to" THEN "on" ELSE g[f]]} :
     \E s1 \in {Handled(s0, Head(pipe))} :
     \E s2 \in {IF On(s1) THEN Topped(s1) ELSE s1} :
     \E s3 \in {IF On(s2) THEN Struck(s2) ELSE s2} :
     \E s4 \in {IF On(s3) THEN Clashed(s3) ELSE s3} :
     \E s5 \in {IF On(s4) /\ second THEN Ticked(s4) ELSE s4} :
       /\ s5.nonblock \/ Len(s5.echo) <= EchoCap
       /\ echo' = s5.echo
       /\ g' = IF s5.to = "ask" THEN Locals(s5.vite, s5.table)
               ELSE [f \in DOMAIN g |-> s5[f]]
       /\ main' = [main EXCEPT !.at = IF s5.to = "ask" THEN "ask" ELSE "top"]
  /\ UNCHANGED <<presses, children, at, signals>>
=============================================================================
