------------------------- MODULE ProcessGameProofs --------------------------
(***************************************************************************)
(* Theorems about ProcessGame, for any number of crocodiles, bullets and   *)
(* slots, any pipes and any screen.                                        *)
(***************************************************************************)
EXTENDS ProcessGame, Minima

USE DEF GameAt

-----------------------------------------------------------------------------
(* Pause and resume *)

(* Who may be stopped, and where the game is then.  That the resume wakes  *)
(* everybody needs the last conjunct: the pause has stopped nobody that    *)
(* the table does not name, and while it lasts the table does not change.  *)
PauseInv ==
  /\ "at" \in DOMAIN main /\ "paused" \in DOMAIN g
  /\ NobodyLeftStopped
  /\ g.paused => main.at \in {"top", "stopping"}
  /\ main.at = "stopping" => g.paused /\ (stopped = {} \/ Game \in stopped)
  /\ main.at = "top" =>
       stopped \subseteq ActiveBullets \cup {Croc(i) : i \in CrocIds}

LEMMA LocalsPause ==
  ASSUME NEW lives, NEW table
  PROVE  "paused" \in DOMAIN Locals(lives, table) /\ ~Locals(lives, table).paused
  BY DEF Locals

LEMMA PauseInit == Init => PauseInv
  BY DEF Init, PauseInv, NobodyLeftStopped, Locals

(* A pause command: it begins the pause, or wakes all that are stopped.    *)
LEMMA CheckKeepsPause == PauseInv /\ GameCheck => PauseInv'
<1> SUFFICES ASSUME PauseInv, GameCheck PROVE PauseInv'
  OBVIOUS
<1> USE DEF PauseInv, NobodyLeftStopped
<1>1. CASE presses > 0 /\ ~g.paused
  BY <1>1 DEF GameCheck
<1>2. CASE presses > 0 /\ g.paused
  <2>1. Continued = {}
    BY <1>2 DEF GameCheck, Continued
  <2>2. QED
    BY <1>2, <2>1 DEF GameCheck
<1>3. CASE presses = 0 /\ ~g.paused
  BY <1>3 DEF GameCheck
<1>4. QED
  BY <1>1, <1>2, <1>3 DEF GameCheck

(* The signals of the pause, to the whole group or to those it names.      *)
LEMMA StopKeepsPause == PauseInv /\ StopFamily => PauseInv'
<1> SUFFICES ASSUME PauseInv, StopFamily PROVE PauseInv'
  OBVIOUS
<1> USE DEF PauseInv, NobodyLeftStopped, StopFamily
<1> DEFINE unheard == {i \in CrocIds : i >= main.i /\ ~Heard(i)}
<1>1. g' = g /\ g.paused /\ stopped = {}
  OBVIOUS
<1>2. CASE unheard = {}
  <2>1. /\ main'.at = "top" /\ "at" \in DOMAIN main'
        /\ stopped' = {t \in ActiveBullets : Alive(t)}
                        \cup {Croc(i) : i \in {n \in CrocIds : n >= main.i}}
    BY <1>1, <1>2
  <2>2. ActiveBullets' = ActiveBullets
    BY <1>1 DEF ActiveBullets
  <2>3. QED
    BY <1>1, <2>1, <2>2
<1>3. CASE unheard # {}
  BY <1>1, <1>3
<1>4. QED
  BY <1>2, <1>3

(* A position is only read when the game is not paused, so nobody is       *)
(* stopped, whatever it does to the table.                                 *)
LEMMA ReadKeepsPause == PauseInv /\ GameRead => PauseInv'
<1> SUFFICES ASSUME PauseInv, GameRead PROVE PauseInv'
  OBVIOUS
<1>1. stopped = {} /\ stopped' = {}
  BY DEF PauseInv, NobodyLeftStopped, GameRead, signals
<1>2. main'.at \in {"ask", "top"} /\ "at" \in DOMAIN main'
  BY DEF PauseInv, GameRead
<1>3. "paused" \in DOMAIN g' /\ (main'.at = "ask" => ~g'.paused)
  BY DEF PauseInv, GameRead, Locals
<1>4. QED
  BY <1>1, <1>2, <1>3 DEF PauseInv, NobodyLeftStopped

(* The other steps of main and game().                                     *)
LEMMA MainKeepsPause ==
  PauseInv /\ (ForkFrog \/ ForkCroc \/ StartGame \/ Answer \/ Reap) => PauseInv'
<1> SUFFICES ASSUME PauseInv, ForkFrog \/ ForkCroc \/ StartGame \/ Answer \/ Reap
             PROVE PauseInv'
  OBVIOUS
<1>1. ~g.paused /\ stopped = {} /\ stopped' = {}
  BY DEF PauseInv, NobodyLeftStopped, ForkFrog, ForkCroc, StartGame, Answer, Reap,
         signals
<1>2. "at" \in DOMAIN main' /\ main'.at # "stopping"
  BY DEF PauseInv, ForkFrog, ForkCroc, StartGame, Answer, Reap, Ended
<1>3. "paused" \in DOMAIN g' /\ ~g'.paused
  <2>1. CASE Answer
    <3>1. g' = g \/ g' = [g EXCEPT !.vite = Lives]
      BY <2>1 DEF Answer
    <3>2. QED
      BY <1>1, <3>1 DEF PauseInv
  <2>2. CASE StartGame
    <3>1. \E table : g' = Locals(g.vite, table)
      BY <2>2 DEF StartGame
    <3>2. QED
      BY <3>1, LocalsPause
  <2>3. CASE ForkFrog \/ ForkCroc \/ Reap
    BY <1>1, <2>3 DEF PauseInv, ForkFrog, ForkCroc, Reap
  <2>4. QED
    BY <2>1, <2>2, <2>3
<1>4. QED
  BY <1>1, <1>2, <1>3 DEF PauseInv, NobodyLeftStopped

(* The children do not touch what the pause is about.                      *)
LEMMA ChildrenKeepPause ==
  ASSUME PauseInv,
         \/ FrogStep \/ FrogPause
         \/ \E i \in CrocIds : CrocStep(i)
         \/ \E k \in BulletIds : BulletStep(k)
         \/ \E t \in Processes : Dies(t)
         \/ UNCHANGED vars
  PROVE  PauseInv'
<1>1. UNCHANGED <<g, main, stopped>>
  BY DEF FrogStep, FrogRound, FrogWrite, FrogPause, CrocStep, CrocRound, CrocWrite,
         BulletStep, BulletRound, OldBulletEnds, Dies, Die, BrokenPipe, signals, vars
<1>2. QED
  BY <1>1 DEF PauseInv, NobodyLeftStopped, ActiveBullets

LEMMA PauseInvariance == Spec => []PauseInv
<1>1. PauseInv /\ [Next]_vars => PauseInv'
  <2> SUFFICES ASSUME PauseInv, [Next]_vars PROVE PauseInv'
    OBVIOUS
  <2>1. CASE GameCheck
    BY <2>1, CheckKeepsPause
  <2>2. CASE StopFamily
    BY <2>2, StopKeepsPause
  <2>3. CASE GameRead
    BY <2>3, ReadKeepsPause
  <2>4. CASE ForkFrog \/ ForkCroc \/ StartGame \/ Answer \/ Reap
    BY <2>4, MainKeepsPause
  <2>5. CASE Terminate
    BY <2>5 DEF PauseInv, NobodyLeftStopped, Terminate, Ended, Locals
  <2>6. CASE Foreground
    BY <2>6 DEF PauseInv, NobodyLeftStopped, Foreground, ActiveBullets
  <2>7. QED
    BY <2>1, <2>2, <2>3, <2>4, <2>5, <2>6, ChildrenKeepPause
    DEF Next, MainStep, Finished
<1>2. QED
  BY <1>1, PauseInit, PTL DEF Spec

(* A process that SIGSTOP has stopped belongs to a game that is paused now *)
(* (game.c 127-175): the resume and every end of the game leave nobody     *)
(* stopped, whatever the game had heard of when the pause began.           *)
THEOREM StoppedOnlyInPause == Spec => []NobodyLeftStopped
<1>1. PauseInv => NobodyLeftStopped
  BY DEF PauseInv
<1>2. QED
  BY <1>1, PauseInvariance, PTL

-----------------------------------------------------------------------------
(* Types *)

Entries == [c : {"", "*", "@"}, x : Int, y : Int, active : BOOLEAN,
            hit : BOOLEAN, pid : 0..NumBullets]
Ranas == [x : 1..Width - 2, y : 0..StartRow, w : {FirstW, FrogW}]
Crocs == [x : 0..Width, w : Nat]

States ==  \* of game()
  [rana : Ranas, known : [CrocIds -> Crocs], table : [SlotIds -> Entries],
   vite : 0..Lives, dens : SUBSET Dens, time : 0..MaxTime,
   paused : BOOLEAN, nonblock : BOOLEAN]
Stages ==  \* of one iteration
  [rana : Ranas, known : [CrocIds -> Crocs], table : [SlotIds -> Entries],
   vite : 0..Lives, dens : SUBSET Dens, time : 0..MaxTime,
   paused : BOOLEAN, nonblock : BOOLEAN,
   echo : Seq(Cells), to : {"on", "top", "ask"}]

FrogMsgs == [c : {"$"}, id : {0}, x : -Drift - HStep..Width - 1 + Drift,
             y : 0..StartRow, w : {FrogW}, active : {FALSE}]
CrocMsgs == [c : {"C"}, id : CrocIds, x : 0..Width, y : Int, w : Nat,
             active : {FALSE}]
BulletMsgs == [c : {"*", "@"}, id : BulletIds, x : Int, y : Int, w : {1},
               active : BOOLEAN]

(* A stage fits: with O_NONBLOCK the pipe to the frog is never overfull.   *)
Fits(s) == s \in Stages /\ (s.nonblock => Len(s.echo) <= EchoCap)

(* From s to t no entry of the table comes into use.                       *)
Fewer(s, t) ==
  \A n \in SlotIds : t.table[n].active => s.table[n].active
                                        /\ t.table[n].pid = s.table[n].pid

LEMMA FirstIn ==
  ASSUME NEW S \in SUBSET Nat, S # {}
  PROVE  First(S) \in S
  BY LeastExists DEF First

(* One field of a stage is given a value of its own.                       *)
LEMMA Assigned ==
  ASSUME NEW s \in Stages
  PROVE  /\ \A v \in Ranas : [s EXCEPT !.rana = v] \in Stages
         /\ \A v \in [CrocIds -> Crocs] : [s EXCEPT !.known = v] \in Stages
         /\ \A v \in [SlotIds -> Entries] : [s EXCEPT !.table = v] \in Stages
         /\ \A v \in 0..Lives : [s EXCEPT !.vite = v] \in Stages
         /\ \A v \in SUBSET Dens : [s EXCEPT !.dens = v] \in Stages
         /\ \A v \in 0..MaxTime : [s EXCEPT !.time = v] \in Stages
         /\ \A v \in BOOLEAN : [s EXCEPT !.nonblock = v] \in Stages
         /\ \A v \in Seq(Cells) : [s EXCEPT !.echo = v] \in Stages
         /\ \A v \in {"on", "top", "ask"} : [s EXCEPT !.to = v] \in Stages
  BY DEF Stages

LEMMA SendFits ==
  ASSUME NEW s, Fits(s), NEW x, NEW y, [x |-> x, y |-> y] \in Cells
  PROVE  Fits(Send(s, x, y)) /\ Send(s, x, y).table = s.table
<1> DEFINE e == Send(s, x, y).echo
<1>1. s \in Stages /\ EchoCap \in Nat
  BY BoundsAssumption DEF Fits
<1>2. Send(s, x, y) = [s EXCEPT !.echo = e]
  BY <1>1 DEF Send, Stages
<1>3. e = IF s.nonblock /\ Len(s.echo) >= EchoCap THEN s.echo
          ELSE Append(s.echo, [x |-> x, y |-> y])
  BY <1>1 DEF Send, Stages
<1>4. e \in Seq(Cells)
  BY <1>1, <1>3 DEF Stages
<1>5. s.nonblock => Len(e) <= EchoCap
  BY <1>1, <1>3 DEF Fits, Stages
<1>6. QED
  <2> HIDE DEF e
  <2>1. [s EXCEPT !.echo = e] \in Stages
    BY <1>1, <1>4, Assigned
  <2>2. QED
    BY <1>1, <1>2, <1>5, <2>1 DEF Fits, Stages

LEMMA HomeFits ==
  ASSUME NEW s, Fits(s)
  PROVE  Fits(Home(s)) /\ Home(s).table = s.table
<1> DEFINE t == [s EXCEPT !.rana.x = Start.x, !.rana.y = Start.y]
<1>1. Start.x \in 1..Width - 2 /\ Start.y \in 0..StartRow /\ Start \in Cells
  BY ScreenAssumption, CrocAssumption DEF Start, StartRow, Cells
<1>2. Fits(t) /\ t.table = s.table
  BY <1>1 DEF Fits, Stages, Ranas
<1>3. [x |-> Start.x, y |-> Start.y] \in Cells
  BY <1>1 DEF Start
<1>4. QED
  BY <1>2, <1>3, SendFits DEF Home

LEMMA LifeLostFits ==
  ASSUME NEW s, Fits(s), NEW next \in {"on", "top"}
  PROVE  Fits(LifeLost(s, next)) /\ LifeLost(s, next).table = s.table
<1>1. s \in Stages /\ 0 \in 0..Lives
  BY BoundsAssumption DEF Fits
<1>2. CASE s.vite <= 1
  <2> DEFINE t == [[s EXCEPT !.vite = 0] EXCEPT !.to = "ask"]
  <2>1. [s EXCEPT !.vite = 0] \in Stages
    BY <1>1, Assigned
  <2>2. t \in Stages
    BY <2>1, Assigned
  <2>3. t.nonblock = s.nonblock /\ t.echo = s.echo /\ t.table = s.table
    BY <1>1 DEF Stages
  <2>4. LifeLost(s, next) = t
    BY <1>2 DEF LifeLost, Ends
  <2>5. QED
    BY <2>2, <2>3, <2>4 DEF Fits
<1>3. CASE ~(s.vite <= 1)
  <2> DEFINE h == Home(s)
             t == [h EXCEPT !.vite = @ - 1, !.time = MaxTime, !.to = next]
  <2>1. h \in Stages /\ h.table = s.table /\ (h.nonblock => Len(h.echo) <= EchoCap)
    BY HomeFits DEF Fits
  <2>2. h.vite - 1 \in 0..Lives
    BY <1>1, <1>3, BoundsAssumption DEF Home, Send, Stages
  <2>3. LifeLost(s, next) = t
    BY <1>3 DEF LifeLost
  <2> HIDE DEF h
  <2>4. t \in Stages
    <3> DEFINE u == [h EXCEPT !.vite = @ - 1]
    <3>1. u \in Stages
      BY <2>1, <2>2, Assigned
    <3>2. MaxTime \in 0..MaxTime
      BY BoundsAssumption
    <3> HIDE DEF u
    <3>3. [u EXCEPT !.time = MaxTime] \in Stages
      BY <3>1, <3>2, Assigned
    <3>4. [[u EXCEPT !.time = MaxTime] EXCEPT !.to = next] \in Stages
      BY <3>3, Assigned
    <3>5. QED
      BY <3>4 DEF u
  <2>5. t.nonblock = h.nonblock /\ t.echo = h.echo /\ t.table = h.table
    BY <2>1 DEF Stages
  <2>6. QED
    BY <2>1, <2>3, <2>4, <2>5 DEF Fits
<1>4. QED
  BY <1>2, <1>3

(* The stages of an iteration, one by one.                                 *)
LEMMA ClampedFits ==
  ASSUME NEW r \in [x : Int, y : 0..StartRow, w : {FirstW, FrogW}]
  PROVE  Clamped(r) \in Ranas
  BY ScreenAssumption DEF Clamped, Ranas

LEMMA DirType == ASSUME NEW i PROVE Dir(i) \in {-1, 1}
  BY DEF Dir

LEMMA FrogHeardFits ==
  ASSUME NEW s, Fits(s), Len(s.echo) <= EchoCap, NEW m \in FrogMsgs
  PROVE  Fits(FrogHeard(s, m)) /\ FrogHeard(s, m).table = s.table
<1>1. s \in Stages /\ s.nonblock \in BOOLEAN
  BY DEF Fits, Stages
<1>2. CASE Under(s) # {}
  <2> DEFINE x == Carried(m.x + Dir(First(Under(s))))
             u == Send([s EXCEPT !.nonblock = TRUE], x, m.y)
  <2>1. x \in Int /\ [x |-> x, y |-> m.y] \in Cells
    BY DirType, ScreenAssumption DEF Carried, FrogMsgs, Cells
  <2> HIDE DEF x
  <2>2. Fits([s EXCEPT !.nonblock = TRUE])
    <3>1. [s EXCEPT !.nonblock = TRUE] \in Stages
      BY <1>1, Assigned
    <3>2. [s EXCEPT !.nonblock = TRUE].echo = s.echo
      BY <1>1 DEF Stages
    <3>3. QED
      BY <3>1, <3>2 DEF Fits
  <2>3. Fits(u) /\ u.table = s.table
    BY <1>1, <2>1, <2>2, SendFits DEF Stages
  <2> HIDE DEF u
  <2> DEFINE r == Clamped([u.rana EXCEPT !.x = x, !.y = m.y])
  <2>4. r \in Ranas
    <3>1. u.rana \in Ranas /\ m.y \in 0..StartRow
      BY <2>3 DEF Fits, Stages, FrogMsgs
    <3>2. [u.rana EXCEPT !.x = x, !.y = m.y] \in [x : Int, y : 0..StartRow, w : {FirstW, FrogW}]
      BY <2>1, <3>1 DEF Ranas
    <3>3. QED
      BY <3>2, ClampedFits
  <2>5. FrogHeard(s, m) = [u EXCEPT !.rana = r]
    BY <1>2 DEF FrogHeard, u, x
  <2> HIDE DEF r
  <2>6. [u EXCEPT !.rana = r] \in Stages
    BY <2>3, <2>4, Assigned DEF Fits
  <2>7. QED
    BY <2>3, <2>5, <2>6 DEF Fits, Stages
<1>3. CASE Under(s) = {} /\ InWater(s.rana)
  BY <1>3, LifeLostFits DEF FrogHeard
<1>4. CASE Under(s) = {} /\ ~InWater(s.rana)
  <2>1. [x |-> m.x, y |-> m.y, w |-> m.w] \in [x : Int, y : 0..StartRow, w : {FirstW, FrogW}]
    BY ScreenAssumption DEF FrogMsgs
  <2>2. FrogHeard(s, m) = [s EXCEPT !.rana = Clamped([x |-> m.x, y |-> m.y, w |-> m.w])]
    BY <1>4 DEF FrogHeard
  <2> DEFINE r == Clamped([x |-> m.x, y |-> m.y, w |-> m.w])
  <2>3. r \in Ranas
    BY <2>1, ClampedFits
  <2> HIDE DEF r
  <2>4. [s EXCEPT !.rana = r] \in Stages
    BY <1>1, <2>3, Assigned
  <2>5. QED
    BY <1>1, <2>2, <2>4 DEF Fits, Stages, r
<1>5. QED
  BY <1>2, <1>3, <1>4

LEMMA CrocHeardFits ==
  ASSUME NEW s, Fits(s), NEW m \in CrocMsgs
  PROVE  Fits(CrocHeard(s, m)) /\ CrocHeard(s, m).table = s.table
<1>1. [s.known EXCEPT ![m.id] = [x |-> m.x, w |-> m.w]] \in [CrocIds -> Crocs]
  BY DEF Fits, Stages, CrocMsgs, Crocs
<1> DEFINE k == [s.known EXCEPT ![m.id] = [x |-> m.x, w |-> m.w]]
<1>2. CrocHeard(s, m) = [s EXCEPT !.known = k]
  BY DEF CrocHeard
<1> HIDE DEF k
<1>3. [s EXCEPT !.known = k] \in Stages
  BY <1>1, Assigned DEF Fits, k
<1>4. QED
  BY <1>2, <1>3 DEF Fits, Stages

(* A new table of entries is put into a stage.                             *)
LEMMA TableFits ==
  ASSUME NEW s, Fits(s), NEW t \in [SlotIds -> Entries]
  PROVE  Fits([s EXCEPT !.table = t]) /\ [s EXCEPT !.table = t].table = t
<1>1. [s EXCEPT !.table = t] \in Stages
  BY Assigned DEF Fits
<1>2. QED
  BY <1>1 DEF Fits, Stages

LEMMA ReapedFits ==
  ASSUME NEW s, Fits(s)
  PROVE  Fits(Reaped(s)) /\ Fewer(s, Reaped(s))
<1> DEFINE t == [n \in SlotIds |->
     IF s.table[n].active /\ at[Bullet(s.table[n].pid)] = "none"
     THEN [s.table[n] EXCEPT !.active = FALSE] ELSE s.table[n]]
<1>1. t \in [SlotIds -> Entries]
  BY DEF Fits, Stages, Entries
<1>2. \A n \in SlotIds : t[n].active => s.table[n].active /\ t[n].pid = s.table[n].pid
  BY DEF Fits, Stages, Entries
<1>3. Reaped(s) = [s EXCEPT !.table = t]
  BY DEF Reaped
<1> HIDE DEF t
<1>4. QED
  BY <1>1, <1>2, <1>3, TableFits DEF Fewer

(* Only a message that says so puts an entry into use, for its process.    *)
LEMMA BulletHeardFits ==
  ASSUME NEW s, Fits(s), NEW m \in BulletMsgs
  PROVE  /\ Fits(BulletHeard(s, m))
         /\ \A n \in SlotIds : BulletHeard(s, m).table[n].active =>
              \/ s.table[n].active /\ BulletHeard(s, m).table[n].pid = s.table[n].pid
              \/ BulletHeard(s, m).table[n].pid = m.id
<1>1. s \in Stages /\ s.table \in [SlotIds -> Entries]
  BY DEF Fits, Stages
<1>2. CASE SlotOf(s, m.id) # {}
  <2> DEFINE f == First(SlotOf(s, m.id))
             t == [s.table EXCEPT ![f] =
                     [@ EXCEPT !.x = m.x, !.y = m.y, !.active = m.active]]
  <2>1. f \in SlotIds /\ s.table[f].active
    <3>1. SlotOf(s, m.id) \in SUBSET Nat
      BY DEF SlotOf, SlotIds
    <3>2. f \in SlotOf(s, m.id)
      BY <1>2, <3>1, FirstIn
    <3>3. QED
      BY <3>2 DEF SlotOf
  <2>2. t \in [SlotIds -> Entries]
    <3> DEFINE e == [s.table[f] EXCEPT !.x = m.x, !.y = m.y, !.active = m.active]
    <3>1. e \in Entries
      BY <1>1, <2>1 DEF BulletMsgs, Entries
    <3> HIDE DEF e
    <3>2. t = [s.table EXCEPT ![f] = e]
      BY DEF e
    <3>3. QED
      BY <1>1, <3>1, <3>2
  <2>3. \A n \in SlotIds : t[n].active => s.table[n].active /\ t[n].pid = s.table[n].pid
    BY <1>1, <2>1 DEF Entries
  <2>4. BulletHeard(s, m) = [s EXCEPT !.table = t]
    BY <1>2 DEF BulletHeard
  <2> HIDE DEF t
  <2>5. QED
    BY <2>2, <2>3, <2>4, TableFits
<1>3. CASE SlotOf(s, m.id) = {} /\ m.active /\ Vacant(s) # {}
  <2> DEFINE t == [s.table EXCEPT ![First(Vacant(s))] = Taken(m)]
  <2>1. t \in [SlotIds -> Entries]
    <3>1. m.id \in BulletIds /\ m.c \in {"*", "@"} /\ m.x \in Int /\ m.y \in Int
      BY DEF BulletMsgs
    <3>2. m.id \in 0..NumBullets
      BY <3>1, BoundsAssumption DEF BulletIds
    <3>3. Taken(m) \in Entries
      BY <3>1, <3>2 DEF Entries, Taken
    <3>4. QED
      BY <1>1, <3>3
  <2>2. \A n \in SlotIds : t[n].active =>
          \/ s.table[n].active /\ t[n].pid = s.table[n].pid
          \/ t[n].pid = m.id
    BY <1>1 DEF Taken
  <2>3. BulletHeard(s, m) = [s EXCEPT !.table = t]
    BY <1>3 DEF BulletHeard
  <2> HIDE DEF t
  <2>4. QED
    BY <2>1, <2>2, <2>3, TableFits
<1>4. CASE SlotOf(s, m.id) = {} /\ ~(m.active /\ Vacant(s) # {})
  BY <1>4 DEF BulletHeard
<1>5. QED
  BY <1>2, <1>3, <1>4

(* A bullet has one entry at most, and its message decides: an entry of    *)
(* its process is in use after an active one only.                         *)
From(m, k) == m.c \in {"*", "@"} /\ m.id = k
Distinct(table) ==
  \A n, o \in SlotIds :
    table[n].active /\ table[o].active /\ table[n].pid = table[o].pid => n = o
Follows(old, new, m) ==
  /\ Distinct(new)
  /\ \A n \in SlotIds : new[n].active =>
       \/ From(m, new[n].pid) /\ m.active
       \/ old[n].active /\ new[n].pid = old[n].pid /\ ~From(m, new[n].pid)

LEMMA BulletHeardFollows ==
  ASSUME NEW s, Fits(s), Distinct(s.table), NEW m \in BulletMsgs
  PROVE  Follows(s.table, BulletHeard(s, m).table, m)
<1>1. s \in Stages /\ s.table \in [SlotIds -> Entries] /\ m.c \in {"*", "@"}
  BY DEF Fits, Stages, BulletMsgs
<1>2. CASE SlotOf(s, m.id) # {}
  <2> DEFINE f == First(SlotOf(s, m.id))
             t == [s.table EXCEPT ![f] =
                     [@ EXCEPT !.x = m.x, !.y = m.y, !.active = m.active]]
  <2>1. f \in SlotIds /\ s.table[f].active /\ s.table[f].pid = m.id
    <3>1. SlotOf(s, m.id) \in SUBSET Nat
      BY DEF SlotOf, SlotIds
    <3>2. f \in SlotOf(s, m.id)
      BY <1>2, <3>1, FirstIn
    <3>3. QED
      BY <3>2 DEF SlotOf
  <2>2. \A n \in SlotIds : n # f => t[n] = s.table[n]
    BY <1>1
  <2>3. t[f].active = m.active /\ t[f].pid = m.id
    BY <1>1, <2>1 DEF Entries
  <2>4. BulletHeard(s, m) = [s EXCEPT !.table = t]
    BY <1>2 DEF BulletHeard
  <2> HIDE DEF t, f
  <2>5. BulletHeard(s, m).table = t
    BY <1>1, <2>4 DEF Stages
  <2>6. QED
    BY <1>1, <2>1, <2>2, <2>3, <2>5 DEF Distinct, Follows, From
<1>3. CASE SlotOf(s, m.id) = {} /\ m.active /\ Vacant(s) # {}
  <2> DEFINE f == First(Vacant(s))
             t == [s.table EXCEPT ![f] = Taken(m)]
  <2>1. \A n \in SlotIds : n # f => t[n] = s.table[n]
    BY <1>1
  <2>2. f \in SlotIds
    <3>1. Vacant(s) \in SUBSET Nat /\ Vacant(s) \subseteq SlotIds
      BY DEF Vacant, SlotIds
    <3>2. QED
      BY <1>3, <3>1, FirstIn
  <2>3. t[f].active /\ t[f].pid = m.id
    BY <1>1, <2>2 DEF Taken
  <2>4. BulletHeard(s, m) = [s EXCEPT !.table = t]
    BY <1>3 DEF BulletHeard
  <2> HIDE DEF t, f
  <2>5. BulletHeard(s, m).table = t
    BY <1>1, <2>4 DEF Stages
  <2>6. \A n \in SlotIds : s.table[n].active => s.table[n].pid # m.id
    BY <1>3 DEF SlotOf
  <2>7. QED
    BY <1>1, <1>3, <2>1, <2>2, <2>3, <2>5, <2>6 DEF Distinct, Follows, From
<1>4. CASE SlotOf(s, m.id) = {} /\ ~(m.active /\ Vacant(s) # {})
  <2>1. BulletHeard(s, m) = s
    BY <1>4 DEF BulletHeard
  <2>2. \A n \in SlotIds : s.table[n].active => s.table[n].pid # m.id
    BY <1>4 DEF SlotOf
  <2>3. QED
    BY <2>1, <2>2 DEF Distinct, Follows, From
<1>5. QED
  BY <1>2, <1>3, <1>4

(* What only clears entries before the message or after it changes nothing *)
(* of that.                                                                *)
LEMMA FewerFollow ==
  ASSUME NEW s, NEW t, Fewer(s, t)
  PROVE  /\ Distinct(s.table) => Distinct(t.table)
         /\ \A m, old : Follows(old, s.table, m) => Follows(old, t.table, m)
         /\ \A m, new : Follows(t.table, new, m) => Follows(s.table, new, m)
  BY DEF Fewer, Distinct, Follows

(* The stages after the message only clear entries, or mark them.          *)
LEMMA ToppedFits ==
  ASSUME NEW s, Fits(s)
  PROVE  Fits(Topped(s)) /\ Topped(s).table = s.table
<1>1. CASE s.rana.y > 0
  BY <1>1 DEF Topped
<1>2. CASE ~(s.rana.y > 0) /\ FreeDensAt(s) = {}
  BY <1>2, LifeLostFits DEF Topped
<1>3. CASE ~(s.rana.y > 0) /\ FreeDensAt(s) # {}
  <2> DEFINE d == s.dens \cup {First(FreeDensAt(s))}
             h == Home(s)
             t == [[h EXCEPT !.dens = d] EXCEPT !.time = MaxTime]
  <2>1. s \in Stages /\ d \in SUBSET Dens
    <3>1. FreeDensAt(s) \in SUBSET Nat /\ FreeDensAt(s) \subseteq Dens
      BY DEF FreeDensAt, Dens
    <3>2. First(FreeDensAt(s)) \in Dens
      BY <1>3, <3>1, FirstIn
    <3>3. QED
      BY <3>2 DEF Fits, Stages
  <2>2. Fits(h) /\ h.table = s.table /\ h.dens = s.dens
    BY <2>1, HomeFits DEF Home, Send, Stages
  <2>3. Topped(s) = IF t.dens = Dens THEN [t EXCEPT !.to = "ask"] ELSE t
    BY <1>3, <2>2 DEF Topped, Ends
  <2> HIDE DEF d, h
  <2>4. [h EXCEPT !.dens = d] \in Stages
    BY <2>1, <2>2, Assigned DEF Fits
  <2>5. t \in Stages
    <3>1. MaxTime \in 0..MaxTime
      BY BoundsAssumption
    <3>2. QED
      BY <2>4, <3>1, Assigned
  <2>6. [t EXCEPT !.to = "ask"] \in Stages
    BY <2>5, Assigned
  <2>7. /\ t.table = h.table /\ t.nonblock = h.nonblock /\ t.echo = h.echo
        /\ [t EXCEPT !.to = "ask"].table = h.table
        /\ [t EXCEPT !.to = "ask"].nonblock = h.nonblock
        /\ [t EXCEPT !.to = "ask"].echo = h.echo
    BY <2>2 DEF Fits, Stages
  <2> HIDE DEF t
  <2>8. QED
    BY <2>2, <2>3, <2>5, <2>6, <2>7 DEF Fits
<1>4. QED
  BY <1>1, <1>2, <1>3

LEMMA StruckFits ==
  ASSUME NEW s, Fits(s)
  PROVE  Fits(Struck(s)) /\ Fewer(s, Struck(s))
<1>1. CASE Hits(s) = {}
  BY <1>1 DEF Struck, Fewer
<1>2. CASE Hits(s) # {}
  <2> DEFINE l == LifeLost(s, "on")
             f == First(Hits(s))
             t == [l.table EXCEPT ![f] = [@ EXCEPT !.hit = (s.vite > 1)]]
  <2>1. Fits(l) /\ l.table = s.table /\ s.table \in [SlotIds -> Entries]
    BY LifeLostFits DEF Fits, Stages
  <2>2. Struck(s) = [l EXCEPT !.table = t]
    BY <1>2 DEF Struck
  <2> HIDE DEF l
  <2>3. f \in SlotIds
    <3>1. Hits(s) \in SUBSET Nat /\ Hits(s) \subseteq SlotIds
      BY DEF Hits, SlotIds
    <3>2. QED
      BY <1>2, <3>1, FirstIn
  <2> HIDE DEF f
  <2>4. t \in [SlotIds -> Entries]
    <3>1. \A e \in Entries, v \in BOOLEAN : [e EXCEPT !.hit = v] \in Entries
      BY DEF Entries
    <3>2. (s.vite > 1) \in BOOLEAN
      OBVIOUS
    <3>3. QED
      BY <2>1, <2>3, <3>1, <3>2
  <2>5. \A n \in SlotIds : t[n].active => s.table[n].active /\ t[n].pid = s.table[n].pid
    BY <2>1, <2>3 DEF Entries
  <2> HIDE DEF t
  <2>6. QED
    BY <2>1, <2>2, <2>4, <2>5, TableFits DEF Fewer
<1>3. QED
  BY <1>1, <1>2

LEMMA ClashedFits ==
  ASSUME NEW s, Fits(s)
  PROVE  Fits(Clashed(s)) /\ Fewer(s, Clashed(s))
<1>1. ASSUME NEW out
      PROVE  LET t == [n \in SlotIds |-> IF n \in out
                         THEN [s.table[n] EXCEPT !.hit = TRUE] ELSE s.table[n]]
             IN Fits([s EXCEPT !.table = t]) /\ Fewer(s, [s EXCEPT !.table = t])
  <2> DEFINE t == [n \in SlotIds |-> IF n \in out
                     THEN [s.table[n] EXCEPT !.hit = TRUE] ELSE s.table[n]]
  <2>1. t \in [SlotIds -> Entries]
    <3>1. \A n \in SlotIds : s.table[n] \in Entries
      BY DEF Fits, Stages
    <3>2. \A e \in Entries : [e EXCEPT !.hit = TRUE] \in Entries
      BY DEF Entries
    <3>3. QED
      BY <3>1, <3>2
  <2>2. \A n \in SlotIds : t[n].active => s.table[n].active /\ t[n].pid = s.table[n].pid
    BY DEF Fits, Stages, Entries
  <2> HIDE DEF t
  <2>3. Fits([s EXCEPT !.table = t]) /\ Fewer(s, [s EXCEPT !.table = t])
    BY <2>1, <2>2, TableFits DEF Fewer
  <2>4. QED
    BY <2>3 DEF t
<1>2. QED
  BY <1>1 DEF Clashed

LEMMA TickedFits ==
  ASSUME NEW s, Fits(s)
  PROVE  Fits(Ticked(s)) /\ Ticked(s).table = s.table
<1>1. s \in Stages /\ 0 \in 0..MaxTime
  BY BoundsAssumption DEF Fits
<1>2. CASE s.time <= 1
  <2> DEFINE u == [s EXCEPT !.time = 0]
             t == [u EXCEPT !.to = "ask"]
  <2>1. u \in Stages
    BY <1>1, Assigned
  <2>2. t \in Stages
    BY <2>1, Assigned
  <2>3. t.table = s.table /\ t.nonblock = s.nonblock /\ t.echo = s.echo
    BY <1>1 DEF Stages
  <2>4. Ticked(s) = t
    BY <1>2 DEF Ticked, Ends
  <2>5. QED
    BY <2>2, <2>3, <2>4 DEF Fits
<1>3. CASE ~(s.time <= 1)
  <2> DEFINE t == [s EXCEPT !.time = @ - 1]
  <2>1. s.time - 1 \in 0..MaxTime
    BY <1>1, <1>3, BoundsAssumption DEF Stages
  <2>2. t \in Stages
    BY <1>1, <2>1, Assigned
  <2>3. t.table = s.table /\ t.nonblock = s.nonblock /\ t.echo = s.echo
    BY <1>1 DEF Stages
  <2>4. Ticked(s) = t
    BY <1>3 DEF Ticked
  <2>5. QED
    BY <2>2, <2>3, <2>4 DEF Fits
<1>4. QED
  BY <1>2, <1>3

-----------------------------------------------------------------------------
(* Type correctness, and whose bullets the game has                        *)

Msgs == FrogMsgs \cup CrocMsgs \cup BulletMsgs
BulletStates == [c : {"", "*", "@"}, x : Int, y : Int, dir : Int, old : BOOLEAN]
Places == {"none", "loop", "write", "fly", "dead"}
Flights ==  \* the bullets and where the processes are: what flies was shot
  {w \in [bullet : [BulletIds -> BulletStates], at : [Processes -> Places]] :
     \A k \in BulletIds : w.at[Bullet(k)] = "fly" /\ ~w.bullet[k].old =>
                           w.bullet[k].c \in {"*", "@"}}

ProcessType ==
  /\ pipe \in Seq(Msgs) /\ Len(pipe) <= PipeCap
  /\ echo \in Seq(Cells) /\ Len(echo) <= EchoCap
  /\ frog \in Cells
  /\ croc \in [CrocIds -> Crocs] /\ orig \in [CrocIds -> Nat]
  /\ \A i \in CrocIds : croc[i].w <= orig[i]
  /\ [bullet |-> bullet, at |-> at] \in Flights
  /\ stopped \subseteq Processes \cup {Game} /\ term \subseteq Processes
  /\ g \in States

(* The stages of GameRead.                                                 *)
LEMMA ReadStages ==
  ASSUME ProcessType, GameRead
  PROVE  \E s \in Stages :
           /\ Fits(s) /\ Len(s.echo) <= EchoCap
           /\ echo' = s.echo
           /\ \/ g' = Locals(s.vite, s.table)
              \/ g' = [f \in DOMAIN g |-> s[f]]
           /\ \A n \in SlotIds : s.table[n].active =>
                \/ g.table[n].active /\ s.table[n].pid = g.table[n].pid
                \/ Head(pipe).c \in {"*", "@"} /\ s.table[n].pid = Head(pipe).id
           /\ Distinct(g.table) => Follows(g.table, s.table, Head(pipe))
<1> DEFINE s0 == [f \in DOMAIN g \cup {"echo", "to"} |->
                    IF f = "echo" THEN echo ELSE IF f = "to" THEN "on" ELSE g[f]]
           m == Head(pipe)
           s1 == Handled(s0, m)
           s2 == IF On(s1) THEN Topped(s1) ELSE s1
           s3 == IF On(s2) THEN Struck(s2) ELSE s2
           s4 == IF On(s3) THEN Clashed(s3) ELSE s3
           Out(t) ==
             /\ t.nonblock \/ Len(t.echo) <= EchoCap
             /\ echo' = t.echo
             /\ g' = IF t.to = "ask" THEN Locals(t.vite, t.table)
                     ELSE [f \in DOMAIN g |-> t[f]]
             /\ main' = [main EXCEPT !.at = IF t.to = "ask" THEN "ask" ELSE "top"]
<1>1. PICK second \in {FALSE, Clock} :
        \E t0 \in {[f \in DOMAIN g \cup {"echo", "to"} |->
                      IF f = "echo" THEN echo ELSE IF f = "to" THEN "on" ELSE g[f]]} :
        \E t1 \in {Handled(t0, Head(pipe))} :
        \E t2 \in {IF On(t1) THEN Topped(t1) ELSE t1} :
        \E t3 \in {IF On(t2) THEN Struck(t2) ELSE t2} :
        \E t4 \in {IF On(t3) THEN Clashed(t3) ELSE t3} :
        \E t5 \in {IF On(t4) /\ second THEN Ticked(t4) ELSE t4} :
          Out(t5)
  BY Zenon DEF GameRead
<1> HIDE DEF Out
<1> DEFINE s5 == IF On(s4) /\ second THEN Ticked(s4) ELSE s4
<1>2. m \in Msgs
  BY DEF ProcessType, GameRead
<1>3. Fits(s0) /\ Len(s0.echo) <= EchoCap /\ s0.table = g.table
  BY DEF ProcessType, States, Stages, Fits
<1>4. Fits(s1) /\ \A n \in SlotIds : s1.table[n].active =>
        \/ g.table[n].active /\ s1.table[n].pid = g.table[n].pid
        \/ m.c \in {"*", "@"} /\ s1.table[n].pid = m.id
  <2> HIDE DEF s0, m
  <2>1. CASE m \in FrogMsgs
    <3>1. s1 = FrogHeard(s0, m)
      BY <2>1 DEF Handled, FrogMsgs
    <3>2. QED
      BY <1>3, <2>1, <3>1, FrogHeardFits
  <2>2. CASE m \in CrocMsgs
    <3>1. s1 = CrocHeard(s0, m)
      BY <2>2 DEF Handled, CrocMsgs
    <3>2. QED
      BY <1>3, <2>2, <3>1, CrocHeardFits
  <2>3. CASE m \in BulletMsgs
    <3>1. s1 = BulletHeard(Reaped(s0), m) /\ m.c \in {"*", "@"}
      BY <2>3 DEF Handled, BulletMsgs
    <3>2. Fits(Reaped(s0)) /\ Fewer(s0, Reaped(s0))
      BY <1>3, ReapedFits
    <3>3. QED
      BY <1>3, <2>3, <3>1, <3>2, BulletHeardFits DEF Fewer
  <2>4. QED
    BY <1>2, <2>1, <2>2, <2>3 DEF Msgs
<1>4a. ASSUME Distinct(g.table) PROVE Follows(g.table, s1.table, m)
  <2> HIDE DEF s0, m
  <2>1. CASE m \in FrogMsgs
    <3>1. s1 = FrogHeard(s0, m)
      BY <2>1 DEF Handled, FrogMsgs
    <3>2. s1.table = g.table /\ m.c = "$"
      BY <1>3, <2>1, <3>1, FrogHeardFits DEF FrogMsgs
    <3>3. QED
      BY <1>4a, <3>2 DEF Follows, From
  <2>2. CASE m \in CrocMsgs
    <3>1. s1 = CrocHeard(s0, m)
      BY <2>2 DEF Handled, CrocMsgs
    <3>2. s1.table = g.table /\ m.c = "C"
      BY <1>3, <2>2, <3>1, CrocHeardFits DEF CrocMsgs
    <3>3. QED
      BY <1>4a, <3>2 DEF Follows, From
  <2>3. CASE m \in BulletMsgs
    <3>1. s1 = BulletHeard(Reaped(s0), m)
      BY <2>3 DEF Handled, BulletMsgs
    <3>2. Fits(Reaped(s0)) /\ Fewer(s0, Reaped(s0))
      BY <1>3, ReapedFits
    <3>3. Distinct(Reaped(s0).table)
      BY <1>3, <1>4a, <3>2, FewerFollow
    <3>4. Follows(Reaped(s0).table, s1.table, m)
      BY <2>3, <3>1, <3>2, <3>3, BulletHeardFollows
    <3>5. QED
      BY <1>3, <3>2, <3>4, FewerFollow
  <2>4. QED
    BY <1>2, <2>1, <2>2, <2>3 DEF Msgs
<1> HIDE DEF s1
<1>5. Fits(s2) /\ s2.table = s1.table
  BY <1>4, ToppedFits
<1> HIDE DEF s2
<1>6. Fits(s3) /\ Fewer(s2, s3)
  BY <1>5, StruckFits DEF Fewer
<1> HIDE DEF s3
<1>7. Fits(s4) /\ Fewer(s3, s4)
  BY <1>6, ClashedFits DEF Fewer
<1> HIDE DEF s4
<1>8. Fits(s5) /\ s5.table = s4.table
  BY <1>7, TickedFits
<1>9. Fewer(s1, s5)
  BY <1>5, <1>6, <1>7, <1>8 DEF Fewer
<1>10. /\ s5.nonblock \/ Len(s5.echo) <= EchoCap
       /\ echo' = s5.echo
       /\ g' = IF s5.to = "ask" THEN Locals(s5.vite, s5.table)
               ELSE [f \in DOMAIN g |-> s5[f]]
  <2>1. \E t1 \in {Handled(s0, m)} :
        \E t2 \in {IF On(t1) THEN Topped(t1) ELSE t1} :
        \E t3 \in {IF On(t2) THEN Struck(t2) ELSE t2} :
        \E t4 \in {IF On(t3) THEN Clashed(t3) ELSE t3} :
        \E t5 \in {IF On(t4) /\ second THEN Ticked(t4) ELSE t4} : Out(t5)
    BY <1>1, Zenon
  <2> HIDE DEF s0, m
  <2>2. \E t2 \in {IF On(s1) THEN Topped(s1) ELSE s1} :
        \E t3 \in {IF On(t2) THEN Struck(t2) ELSE t2} :
        \E t4 \in {IF On(t3) THEN Clashed(t3) ELSE t3} :
        \E t5 \in {IF On(t4) /\ second THEN Ticked(t4) ELSE t4} : Out(t5)
    BY <2>1, Zenon DEF s1
  <2>3. \E t3 \in {IF On(s2) THEN Struck(s2) ELSE s2} :
        \E t4 \in {IF On(t3) THEN Clashed(t3) ELSE t3} :
        \E t5 \in {IF On(t4) /\ second THEN Ticked(t4) ELSE t4} : Out(t5)
    BY <2>2, Zenon DEF s2
  <2>4. \E t4 \in {IF On(s3) THEN Clashed(s3) ELSE s3} :
        \E t5 \in {IF On(t4) /\ second THEN Ticked(t4) ELSE t4} : Out(t5)
    BY <2>3, Zenon DEF s3
  <2>5. \E t5 \in {IF On(s4) /\ second THEN Ticked(s4) ELSE s4} : Out(t5)
    BY <2>4, Zenon DEF s4
  <2>6. Out(s5)
    BY <2>5, Zenon
  <2>7. QED
    BY <2>6 DEF Out
<1> HIDE DEF s0, m, s5
<1>11. \A n \in SlotIds : s5.table[n].active =>
         \/ g.table[n].active /\ s5.table[n].pid = g.table[n].pid
         \/ m.c \in {"*", "@"} /\ s5.table[n].pid = m.id
  BY <1>4, <1>9 DEF Fewer
<1>12. Len(s5.echo) <= EchoCap
  BY <1>8, <1>10 DEF Fits
<1>13. Distinct(g.table) => Follows(g.table, s5.table, m)
  BY <1>9, <1>4a, FewerFollow
<1>14. QED
  BY <1>8, <1>10, <1>11, <1>12, <1>13 DEF Fits, m

LEMMA LocalsType ==
  ASSUME NEW v \in 0..Lives, NEW t \in [SlotIds -> Entries]
  PROVE  Locals(v, t) \in States /\ Locals(v, t).table = t
<1>1. Start.x \in 1..Width - 2 /\ Start.y \in 0..StartRow
  BY ScreenAssumption, CrocAssumption DEF Start, StartRow
<1>2. [x |-> Start.x, y |-> Start.y, w |-> FirstW] \in Ranas
  BY <1>1 DEF Ranas
<1>3. [i \in CrocIds |-> NoCroc] \in [CrocIds -> Crocs]
  BY ScreenAssumption DEF NoCroc, Crocs
<1>4. MaxTime \in 0..MaxTime
  BY BoundsAssumption
<1>5. QED
  BY <1>2, <1>3, <1>4 DEF Locals, States

(* A fork adds a bullet of this game, and touches no other one.            *)
LEMMA ForkedType ==
  ASSUME NEW w \in Flights,
         NEW c \in {"*", "@"}, NEW x \in Int, NEW y \in Int, NEW d \in Int
  PROVE  /\ Forked(w, c, x, y, d) \in Flights
         /\ \A k \in BulletIds : Forked(w, c, x, y, d).bullet[k].old => w.bullet[k].old
<1>1. CASE Unborn(w.at) = {}
  BY <1>1 DEF Forked
<1>2. CASE Unborn(w.at) # {}
  <2> DEFINE k == First(Unborn(w.at))
             e == [c |-> c, x |-> x, y |-> y, dir |-> d, old |-> FALSE]
             b == [w.bullet EXCEPT ![k] = e]
             a == [w.at EXCEPT ![Bullet(k)] = "fly"]
  <2>1. Forked(w, c, x, y, d) = [bullet |-> b, at |-> a]
    BY <1>2 DEF Forked
  <2>2. e \in BulletStates /\ e.old = FALSE /\ e.c \in {"*", "@"}
    BY DEF BulletStates
  <2>3. w.bullet \in [BulletIds -> BulletStates] /\ w.at \in [Processes -> Places]
    BY DEF Flights
  <2> HIDE DEF k, e
  <2>4. b \in [BulletIds -> BulletStates]
    BY <2>2, <2>3
  <2>5. a \in [Processes -> Places]
    BY <2>3 DEF Places
  <2>6. \A n \in BulletIds : b[n].old => w.bullet[n].old
    BY <2>2, <2>3
  <2>7. ASSUME NEW n \in BulletIds, a[Bullet(n)] = "fly", ~b[n].old
        PROVE  b[n].c \in {"*", "@"}
    <3>1. CASE n = k
      BY <2>2, <2>3, <3>1
    <3>2. CASE n # k
      <4>1. b[n] = w.bullet[n] /\ a[Bullet(n)] = w.at[Bullet(n)]
        BY <2>3, <3>2 DEF Bullet, Processes, Bullets
      <4>2. QED
        BY <2>7, <4>1 DEF Flights
    <3>3. QED
      BY <3>1, <3>2
  <2> HIDE DEF a, b
  <2>8. [bullet |-> b, at |-> a] \in Flights
    BY <2>4, <2>5, <2>7 DEF Flights
  <2>9. QED
    BY <2>1, <2>6, <2>8
<1>3. QED
  BY <1>1, <1>2

(* A process that is no bullet goes on to another place.                   *)
LEMMA WentType ==
  ASSUME [bullet |-> bullet, at |-> at] \in Flights, NEW t \in Family,
         NEW l \in Places
  PROVE  [bullet |-> bullet, at |-> [at EXCEPT ![t] = l]] \in Flights
<1>1. bullet \in [BulletIds -> BulletStates] /\ at \in [Processes -> Places]
  BY DEF Flights
<1>2. [at EXCEPT ![t] = l] \in [Processes -> Places]
  BY <1>1
<1>3. \A k \in BulletIds : Bullet(k) # t
  BY DEF Family, Frog, Croc, Bullet
<1>4. \A k \in BulletIds : [at EXCEPT ![t] = l][Bullet(k)] = at[Bullet(k)]
  BY <1>1, <1>3 DEF Processes, Bullets
<1>5. QED
  BY <1>1, <1>2, <1>4 DEF Flights

(* The messages in the pipe, and the entries in use while game() runs, are *)
(* those of bullets of this game.                                          *)
OwnInv ==
  /\ \A n \in DOMAIN pipe : pipe[n].c \in {"*", "@"} => ~bullet[pipe[n].id].old
  /\ main.at \in {"top", "read", "stopping"} =>
       \A n \in SlotIds : g.table[n].active =>
         g.table[n].pid \in BulletIds /\ ~bullet[g.table[n].pid].old

TypeInv == PauseInv /\ ProcessType /\ OwnInv

LEMMA TypeInit == Init => TypeInv
<1> SUFFICES ASSUME Init PROVE TypeInv
  OBVIOUS
<1>1. Start \in Cells
  BY ScreenAssumption, CrocAssumption DEF Start, StartRow, Cells
<1>2. [n \in SlotIds |-> NoBullet] \in [SlotIds -> Entries]
  BY BoundsAssumption DEF NoBullet, Entries
<1>3. g \in States
  BY <1>2, LocalsType, BoundsAssumption DEF Init
<1>4. croc \in [CrocIds -> Crocs] /\ orig \in [CrocIds -> Nat]
  BY ScreenAssumption DEF Init, NoCroc, Crocs
<1>5. \A i \in CrocIds : croc[i].w <= orig[i]
  BY DEF Init, NoCroc
<1>6. [bullet |-> bullet, at |-> at] \in Flights
  <2>1. NoShot \in BulletStates
    BY DEF NoShot, BulletStates
  <2>2. bullet \in [BulletIds -> BulletStates]
    BY <2>1 DEF Init
  <2>3. at \in [Processes -> Places] /\ \A k \in BulletIds : at[Bullet(k)] = "none"
    BY DEF Init, Places, Processes, Bullets
  <2>4. QED
    BY <2>2, <2>3 DEF Flights
<1>7. pipe = <<>> /\ echo = <<>> /\ stopped = {} /\ term = {} /\ frog = Start
      /\ main.at = "fork"
  BY DEF Init
<1>8. QED
  BY <1>1, <1>3, <1>4, <1>5, <1>6, <1>7, PauseInit, BoundsAssumption
  DEF TypeInv, ProcessType, OwnInv

(* The game reads a position: the lemma about its stages.                  *)
LEMMA ReadKeepsType == TypeInv /\ GameRead => ProcessType' /\ OwnInv'
<1> SUFFICES ASSUME TypeInv, GameRead PROVE ProcessType' /\ OwnInv'
  OBVIOUS
<1>1. PICK s \in Stages :
        /\ Fits(s) /\ Len(s.echo) <= EchoCap
        /\ echo' = s.echo
        /\ \/ g' = Locals(s.vite, s.table)
           \/ g' = [f \in DOMAIN g |-> s[f]]
        /\ \A n \in SlotIds : s.table[n].active =>
             \/ g.table[n].active /\ s.table[n].pid = g.table[n].pid
             \/ Head(pipe).c \in {"*", "@"} /\ s.table[n].pid = Head(pipe).id
  BY ReadStages DEF TypeInv
<1>2. /\ pipe # <<>> /\ pipe' = Tail(pipe) /\ main.at = "read"
      /\ UNCHANGED <<frog, croc, orig, bullet, at, stopped, term>>
  BY DEF GameRead, children, signals
<1>3. g' \in States /\ g'.table = s.table
  <2>1. CASE g' = Locals(s.vite, s.table)
    BY <2>1, LocalsType DEF Stages
  <2>2. CASE g' = [f \in DOMAIN g |-> s[f]]
    BY <2>2 DEF Stages, States, TypeInv, ProcessType
  <2>3. QED
    BY <1>1, <2>1, <2>2
<1>4. pipe' \in Seq(Msgs) /\ Len(pipe') <= PipeCap
  BY <1>2, BoundsAssumption DEF TypeInv, ProcessType
<1>5. ProcessType'
  BY <1>1, <1>2, <1>3, <1>4 DEF TypeInv, ProcessType, Stages, Fits
<1>6. \A n \in DOMAIN pipe' : n + 1 \in DOMAIN pipe /\ pipe'[n] = pipe[n + 1]
  BY <1>2 DEF TypeInv, ProcessType
<1>7. Head(pipe) \in Msgs /\ Head(pipe) = pipe[1] /\ 1 \in DOMAIN pipe
  BY <1>2 DEF TypeInv, ProcessType
<1>8. ASSUME NEW n \in SlotIds, g'.table[n].active
      PROVE  g'.table[n].pid \in BulletIds /\ ~bullet[g'.table[n].pid].old
  <2>1. CASE g.table[n].active /\ s.table[n].pid = g.table[n].pid
    BY <1>2, <1>3, <2>1 DEF TypeInv, OwnInv
  <2>2. CASE Head(pipe).c \in {"*", "@"} /\ s.table[n].pid = Head(pipe).id
    <3>1. Head(pipe) \in BulletMsgs
      BY <1>7, <2>2 DEF Msgs, FrogMsgs, CrocMsgs
    <3>2. Head(pipe).id \in BulletIds
      BY <3>1 DEF BulletMsgs
    <3>3. QED
      BY <1>3, <1>7, <2>2, <3>2 DEF TypeInv, OwnInv
  <2>3. QED
    BY <1>1, <1>3, <1>8, <2>1, <2>2
<1>9. OwnInv'
  BY <1>2, <1>6, <1>8 DEF TypeInv, OwnInv
<1>10. QED
  BY <1>5, <1>9

(* Writing a message of the right shape keeps the pipe in shape.           *)
LEMMA WriteKeeps ==
  ASSUME ProcessType, NEW m \in Msgs, Write(m)
  PROVE  /\ pipe' \in Seq(Msgs) /\ Len(pipe') <= PipeCap
         /\ \A n \in DOMAIN pipe' :
              (n \in DOMAIN pipe /\ pipe'[n] = pipe[n]) \/ pipe'[n] = m
<1>1. pipe' = Append(pipe, m) /\ Len(pipe) < PipeCap
  BY DEF Write, Room
<1>2. QED
  BY <1>1, BoundsAssumption DEF ProcessType

LEMMA PipeIds ==
  ASSUME ProcessType, NEW n \in DOMAIN pipe, pipe[n].c \in {"*", "@"}
  PROVE  pipe[n].id \in BulletIds
<1>1. pipe[n] \in Msgs
  BY DEF ProcessType
<1>2. pipe[n] \in BulletMsgs
  BY <1>1 DEF Msgs, FrogMsgs, CrocMsgs
<1>3. QED
  BY <1>2 DEF BulletMsgs

(* A key takes the frog to a cell, the step aside included.                *)
LEMMA MovedType ==
  ASSUME NEW f \in Cells, NEW key
  PROVE  FrogMoved(f, key) \in Cells
<1>1. /\ Width \in Nat /\ Width >= 4 /\ FrogW \in 1..Width - 2
      /\ Drift \in Nat /\ HStep \in 0..FrogW + 1 + Drift
  BY ScreenAssumption
<1>2. StartRow \in Nat /\ StartRow >= 3
  BY CrocAssumption DEF StartRow
<1>3. f.x \in -Drift - HStep..Width - 1 + Drift /\ f.y \in 0..StartRow
      /\ f = [x |-> f.x, y |-> f.y]
  BY DEF Cells
<1>4. \A x \in -Drift - HStep..Width - 1 + Drift, y \in 0..StartRow :
        [x |-> x, y |-> y] \in Cells
  BY DEF Cells
<1>5. CASE key = "up" /\ f.y > 0
  <2>1. FrogMoved(f, key) = [x |-> f.x, y |-> f.y - 1]
    BY <1>3, <1>5 DEF FrogMoved
  <2>2. f.y - 1 \in 0..StartRow
    BY <1>2, <1>3, <1>5
  <2>3. QED
    BY <1>3, <1>4, <2>1, <2>2
<1>6. CASE key = "down" /\ f.y < StartRow
  <2>1. FrogMoved(f, key) = [x |-> f.x, y |-> f.y + 1]
    BY <1>3, <1>6 DEF FrogMoved
  <2>2. f.y + 1 \in 0..StartRow
    BY <1>2, <1>3, <1>6
  <2>3. QED
    BY <1>3, <1>4, <2>1, <2>2
<1>7. CASE key = "left" /\ f.x > 1
  <2>1. FrogMoved(f, key) = [x |-> f.x - HStep, y |-> f.y]
    BY <1>3, <1>7 DEF FrogMoved
  <2>2. f.x - HStep \in -Drift - HStep..Width - 1 + Drift
    BY <1>1, <1>3, <1>7
  <2>3. QED
    BY <1>3, <1>4, <2>1, <2>2
<1>8. CASE key = "right" /\ f.x < Width - FrogW - 1
  <2>1. FrogMoved(f, key) = [x |-> f.x + HStep, y |-> f.y]
    BY <1>3, <1>8 DEF FrogMoved
  <2>2. f.x + HStep \in -Drift - HStep..Width - 1 + Drift
    BY <1>1, <1>3, <1>8
  <2>3. QED
    BY <1>3, <1>4, <2>1, <2>2
<1>9. CASE key = "q"
  <2>1. FrogMoved(f, key) = [x |-> Width \div 2, y |-> 1]
    BY <1>9 DEF FrogMoved
  <2>2. Width \div 2 \in -Drift - HStep..Width - 1 + Drift /\ 1 \in 0..StartRow
    BY <1>1, <1>2
  <2>3. QED
    BY <1>4, <2>1, <2>2
<1>10. CASE /\ ~(key = "up" /\ f.y > 0) /\ ~(key = "down" /\ f.y < StartRow)
            /\ ~(key = "left" /\ f.x > 1) /\ ~(key = "right" /\ f.x < Width - FrogW - 1)
            /\ key # "q"
  <2>1. FrogMoved(f, key) = f
    BY <1>10 DEF FrogMoved
  <2>2. QED
    BY <2>1
<1>11. QED
  BY <1>5, <1>6, <1>7, <1>8, <1>9, <1>10

LEMMA ShotType ==
  ASSUME NEW f \in Cells
  PROVE  /\ f.x + FrogW \in Int /\ f.x - 1 \in Int /\ f.y \in Int
         /\ 1 \in Int /\ -1 \in Int
<1>1. f.x \in Int /\ f.y \in Int
  BY DEF Cells
<1>2. FrogW \in Int
  BY ScreenAssumption
<1>3. QED
  BY <1>1, <1>2

LEMMA FrogKeepsType == TypeInv /\ (FrogStep \/ FrogPause) => ProcessType' /\ OwnInv'
<1> SUFFICES ASSUME TypeInv, FrogStep \/ FrogPause PROVE ProcessType' /\ OwnInv'
  OBVIOUS
<1> USE DEF TypeInv
<1>1. Updated \in Cells /\ Rest(echo) \in Seq(Cells) /\ Len(Rest(echo)) <= EchoCap
  BY BoundsAssumption DEF ProcessType, Updated, Rest
<1>2. CASE FrogRound
  <2>1. PICK key \in (Keys \ {"p", "signal"}) \cup {""} :
          LET f == FrogMoved(Updated, key)
              w == Shots(Updated, key,
                         [bullet |-> bullet, at |-> [at EXCEPT ![Frog] = "write"]])
          IN frog' = f /\ bullet' = w.bullet /\ at' = w.at
    BY <1>2 DEF FrogRound
  <2>2. frog' \in Cells
    <3>1. frog' = FrogMoved(Updated, key)
      BY <2>1
    <3>2. QED
      BY <1>1, <3>1, MovedType
  <2> DEFINE w0 == [bullet |-> bullet, at |-> [at EXCEPT ![Frog] = "write"]]
  <2>3. w0 \in Flights
    BY WentType DEF ProcessType, Places, Family
  <2>4. /\ Shots(Updated, key, w0) \in Flights
        /\ \A k \in BulletIds : Shots(Updated, key, w0).bullet[k].old => bullet[k].old
    <3>1. /\ Updated.x + FrogW \in Int /\ Updated.x - 1 \in Int /\ Updated.y \in Int
          /\ 1 \in Int /\ -1 \in Int
      BY <1>1, ShotType
    <3> DEFINE w1 == Forked(w0, "*", Updated.x + FrogW, Updated.y, 1)
               w2 == Forked(w1, "*", Updated.x - 1, Updated.y, -1)
    <3>2. w0.bullet = bullet
      OBVIOUS
    <3> HIDE DEF w0
    <3>3. w1 \in Flights /\ \A k \in BulletIds : w1.bullet[k].old => w0.bullet[k].old
      BY <2>3, <3>1, ForkedType
    <3> HIDE DEF w1
    <3>4. w2 \in Flights /\ \A k \in BulletIds : w2.bullet[k].old => w1.bullet[k].old
      BY <3>1, <3>3, ForkedType
    <3>5. Shots(Updated, key, w0) = IF key # "space" THEN w0 ELSE w2
      BY DEF Shots, w1
    <3> HIDE DEF w2
    <3>6. QED
      BY <2>3, <3>2, <3>3, <3>4, <3>5
  <2>5. /\ [bullet |-> bullet', at |-> at'] \in Flights
        /\ \A k \in BulletIds : bullet'[k].old => bullet[k].old
    <3> DEFINE w == Shots(Updated, key, w0)
    <3>1. bullet' = w.bullet /\ at' = w.at
      BY <2>1
    <3>2. w \in Flights /\ \A k \in BulletIds : w.bullet[k].old => bullet[k].old
      BY <2>4
    <3> HIDE DEF w
    <3>3. w = [bullet |-> w.bullet, at |-> w.at]
      BY <3>2 DEF Flights
    <3>4. QED
      BY <3>1, <3>2, <3>3
  <2>6. echo' = Rest(echo) /\ UNCHANGED <<pipe, croc, orig, stopped, term, g, main>>
    BY <1>2 DEF FrogRound, signals
  <2>7. ProcessType'
    BY <1>1, <2>2, <2>5, <2>6 DEF ProcessType
  <2>8. OwnInv'
    <3>1. QED
      BY <2>5, <2>6, PipeIds DEF OwnInv
  <2>9. QED
    BY <2>7, <2>8
<1>3. CASE FrogWrite
  <2>1. FrogMsg(frog) \in FrogMsgs
    BY DEF ProcessType, Cells, FrogMsg, FrogMsgs
  <2>2. UNCHANGED <<echo, frog, croc, orig, bullet, stopped, term, g, main>>
    BY <1>3 DEF FrogWrite, children, signals
  <2>3. /\ pipe' \in Seq(Msgs) /\ Len(pipe') <= PipeCap
        /\ \A n \in DOMAIN pipe' :
             (n \in DOMAIN pipe /\ pipe'[n] = pipe[n]) \/ pipe'[n] = FrogMsg(frog)
    BY <1>3, <2>1, WriteKeeps DEF FrogWrite, Msgs
  <2>4. [bullet |-> bullet', at |-> at'] \in Flights
    BY <1>3, <2>2, WentType DEF FrogWrite, Go, ProcessType, Places, Family
  <2>5. ProcessType'
    BY <2>2, <2>3, <2>4 DEF ProcessType
  <2>6. FrogMsg(frog).c = "$"
    BY DEF FrogMsg
  <2>7. OwnInv'
    BY <2>2, <2>3, <2>6 DEF OwnInv
  <2>8. QED
    BY <2>5, <2>7
<1>4. CASE FrogPause
  BY <1>1, <1>4 DEF FrogPause, signals, ProcessType, OwnInv
<1>5. QED
  BY <1>2, <1>3, <1>4 DEF FrogStep

(* Swimming never makes a crocodile longer than it was, nor leads it out   *)
(* of the screen.                                                          *)
LEMMA SwumType ==
  ASSUME NEW i \in CrocIds, croc[i] \in Crocs, orig[i] \in Nat, croc[i].w <= orig[i]
  PROVE  Swum(i) \in Crocs /\ Swum(i).w <= orig[i]
<1> DEFINE q == Bordered(croc[i], orig[i])
<1>1. Width \in Nat /\ Width >= 4
  BY ScreenAssumption
<1>2. croc[i].x \in 0..Width /\ croc[i].w \in Nat
  BY DEF Crocs
<1>3. q \in [x : 1..Width - 1, w : Nat] /\ q.w <= orig[i]
  <2>1. CASE croc[i].x <= 1 /\ croc[i].w > 1
    BY <1>1, <1>2, <2>1 DEF Bordered
  <2>2. CASE croc[i].x <= 1 /\ ~(croc[i].w > 1)
    BY <1>1, <1>2, <2>2 DEF Bordered
  <2>3. CASE ~(croc[i].x <= 1) /\ croc[i].x >= Width - 3 /\ croc[i].w > 1
    BY <1>1, <1>2, <2>3 DEF Bordered
  <2>4. CASE ~(croc[i].x <= 1) /\ croc[i].x >= Width - 3 /\ ~(croc[i].w > 1)
    BY <1>1, <1>2, <2>4 DEF Bordered
  <2>5. CASE ~(croc[i].x <= 1) /\ ~(croc[i].x >= Width - 3)
    BY <1>1, <1>2, <2>5 DEF Bordered, Crocs
  <2>6. QED
    BY <1>1, <1>2, <2>1, <2>2, <2>3, <2>4, <2>5
<1> HIDE DEF q
<1>4. Dir(i) \in {-1, 1}
  BY DirType
<1>5. Swum(i) = [q EXCEPT !.x = @ + Dir(i)]
  BY DEF Swum, q
<1>6. QED
  BY <1>1, <1>3, <1>4, <1>5 DEF Crocs

LEMMA CrocKeepsType ==
  ASSUME TypeInv, NEW i \in CrocIds, CrocStep(i)
  PROVE  ProcessType' /\ OwnInv'
<1> USE DEF TypeInv
<1>1. croc[i] \in Crocs /\ orig[i] \in Nat /\ croc[i].w <= orig[i]
  BY DEF ProcessType
<1>2. Croc(i) \in Family /\ CrocRow(i) \in Int /\ Dir(i) \in Int
  BY CrocAssumption, DirType DEF Family, CrocRow
<1>3. CASE CrocRound(i)
  <2> DEFINE head == IF Dir(i) = 1 THEN Swum(i).x + Swum(i).w - 1 ELSE Swum(i).x
             quiet == [bullet |-> bullet, at |-> [at EXCEPT ![Croc(i)] = "write"]]
             shot == Forked(quiet, "@", head, CrocRow(i), Dir(i))
  <2>1. PICK shoots \in BOOLEAN :
          LET w == IF shoots THEN shot ELSE quiet
          IN bullet' = w.bullet /\ at' = w.at
    BY <1>3 DEF CrocRound
  <2>2. Swum(i) \in Crocs /\ Swum(i).w <= orig[i]
    BY <1>1, SwumType
  <2>3. head \in Int
    BY <2>2, ScreenAssumption DEF Crocs
  <2>4. quiet \in Flights /\ quiet.bullet = bullet
    BY <1>2, WentType DEF ProcessType, Places
  <2> HIDE DEF head, quiet
  <2>5. shot \in Flights /\ \A k \in BulletIds : shot.bullet[k].old => quiet.bullet[k].old
    BY <1>2, <2>3, <2>4, ForkedType
  <2> HIDE DEF shot
  <2>6. \A w \in Flights : w = [bullet |-> w.bullet, at |-> w.at]
    BY DEF Flights
  <2>7. /\ [bullet |-> bullet', at |-> at'] \in Flights
        /\ \A k \in BulletIds : bullet'[k].old => bullet[k].old
    BY <2>1, <2>4, <2>5, <2>6
  <2>8. UNCHANGED <<pipe, echo, frog, orig, stopped, term, g, main>>
        /\ croc' = [croc EXCEPT ![i] = Swum(i)]
    BY <1>3 DEF CrocRound, pipes, signals
  <2>9. /\ croc' \in [CrocIds -> Crocs]
        /\ \A n \in CrocIds : croc'[n].w <= orig[n]
    BY <2>2, <2>8 DEF ProcessType
  <2>10. ProcessType'
    BY <2>7, <2>8, <2>9 DEF ProcessType
  <2>11. OwnInv'
    BY <2>7, <2>8, PipeIds DEF OwnInv
  <2>12. QED
    BY <2>10, <2>11
<1>4. CASE CrocWrite(i)
  <2> DEFINE m == CrocMsg(i, croc[i])
  <2>1. m \in Msgs /\ m.c = "C"
    BY <1>1, <1>2 DEF CrocMsg, CrocMsgs, Msgs, Crocs
  <2>2. UNCHANGED <<echo, frog, croc, orig, bullet, stopped, term, g, main>>
        /\ Write(m)
    BY <1>4 DEF CrocWrite, children, signals
  <2> HIDE DEF m
  <2>3. /\ pipe' \in Seq(Msgs) /\ Len(pipe') <= PipeCap
        /\ \A n \in DOMAIN pipe' :
             (n \in DOMAIN pipe /\ pipe'[n] = pipe[n]) \/ pipe'[n] = m
    BY <2>1, <2>2, WriteKeeps
  <2>4. [bullet |-> bullet', at |-> at'] \in Flights
    BY <1>2, <1>4, <2>2, WentType DEF CrocWrite, Go, ProcessType, Places
  <2>5. ProcessType'
    BY <2>2, <2>3, <2>4 DEF ProcessType
  <2>6. OwnInv'
    BY <2>1, <2>2, <2>3 DEF OwnInv
  <2>7. QED
    BY <2>5, <2>6
<1>5. QED
  BY <1>3, <1>4 DEF CrocStep

(* A process ends: its memory is gone, and nobody else's is touched.       *)
LEMMA GoneType ==
  ASSUME ProcessType, NEW t \in Processes, Gone(t)
  PROVE  /\ frog' \in Cells /\ croc' \in [CrocIds -> Crocs]
         /\ orig' \in [CrocIds -> Nat]
         /\ \A i \in CrocIds : croc'[i].w <= orig'[i]
         /\ [bullet |-> bullet', at |-> at'] \in Flights
         /\ \A k \in BulletIds : bullet'[k].old => bullet[k].old
<1>1. Start \in Cells
  BY ScreenAssumption, CrocAssumption DEF Start, StartRow, Cells
<1>2. frog' \in Cells
  BY <1>1 DEF Gone, ProcessType
<1>3. NoCroc \in Crocs /\ NoCroc.w = 0
  BY ScreenAssumption DEF NoCroc, Crocs
<1>4. orig' = orig /\ orig \in [CrocIds -> Nat]
  BY DEF Gone, ProcessType
<1>5. croc' \in [CrocIds -> Crocs]
  BY <1>3 DEF Gone, ProcessType
<1>6. \A i \in CrocIds : croc'[i].w <= orig'[i]
  BY <1>3, <1>4 DEF Gone, ProcessType
<1>7. bullet \in [BulletIds -> BulletStates] /\ at \in [Processes -> Places]
      /\ at' = [at EXCEPT ![t] = "dead"]
  BY DEF ProcessType, Flights, Gone, Go
<1>8. NoShot \in BulletStates /\ NoShot.old = FALSE
  BY DEF NoShot, BulletStates
<1>9. /\ bullet' = [k \in BulletIds |-> IF t = Bullet(k) THEN NoShot ELSE bullet[k]]
      /\ bullet' \in [BulletIds -> BulletStates]
  BY <1>7, <1>8 DEF Gone
<1>10. \A k \in BulletIds : bullet'[k].old => bullet[k].old
  BY <1>8, <1>9
<1>11. at' \in [Processes -> Places]
  BY <1>7 DEF Places
<1>12. ASSUME NEW k \in BulletIds, at'[Bullet(k)] = "fly", ~bullet'[k].old
       PROVE  bullet'[k].c \in {"*", "@"}
  <2>1. Bullet(k) # t /\ at[Bullet(k)] = "fly"
    BY <1>7, <1>12 DEF Processes, Bullets
  <2>2. bullet'[k] = bullet[k]
    BY <1>9, <2>1
  <2>3. QED
    BY <1>12, <2>1, <2>2 DEF ProcessType, Flights
<1>13. [bullet |-> bullet', at |-> at'] \in Flights
  BY <1>9, <1>11, <1>12 DEF Flights
<1>14. QED
  BY <1>2, <1>4, <1>5, <1>6, <1>10, <1>13

LEMMA BulletKeepsType ==
  ASSUME TypeInv, NEW k \in BulletIds, BulletStep(k)
  PROVE  ProcessType' /\ OwnInv'
<1> USE DEF TypeInv
<1>1. Bullet(k) \in Processes
  BY DEF Processes, Bullets
<1>2. bullet \in [BulletIds -> BulletStates] /\ at \in [Processes -> Places]
  BY DEF ProcessType, Flights
<1>3. CASE BulletRound(k)
  <2> DEFINE m == BulletMsg(k, Flown(k), ~Beyond(Flown(k)))
  <2>1. /\ at[Bullet(k)] = "fly" /\ ~bullet[k].old /\ Write(m)
        /\ UNCHANGED <<echo, stopped, term, g, main>>
    BY <1>3 DEF BulletRound, At, signals
  <2>2. bullet[k] \in BulletStates /\ bullet[k].c \in {"*", "@"}
    BY <1>2, <2>1 DEF ProcessType, Flights
  <2>3. Flown(k) \in BulletStates /\ Flown(k).c = bullet[k].c
        /\ Flown(k).old = bullet[k].old
    <3>1. \A q \in BulletStates, x \in Int :
            /\ [q EXCEPT !.x = x] \in BulletStates
            /\ [q EXCEPT !.x = x].c = q.c /\ [q EXCEPT !.x = x].old = q.old
      BY DEF BulletStates
    <3>2. bullet[k].x + bullet[k].dir \in Int
      <4>1. bullet[k].x \in Int /\ bullet[k].dir \in Int
        BY <2>2 DEF BulletStates
      <4>2. QED
        BY <4>1
    <3>3. QED
      BY <2>2, <3>1, <3>2 DEF Flown
  <2>4. (~Beyond(Flown(k))) \in BOOLEAN
    OBVIOUS
  <2>5. m \in Msgs /\ m.id = k
    BY <2>2, <2>3, <2>4 DEF BulletMsg, BulletMsgs, Msgs, BulletStates
  <2> HIDE DEF m
  <2>6. /\ pipe' \in Seq(Msgs) /\ Len(pipe') <= PipeCap
        /\ \A n \in DOMAIN pipe' :
             (n \in DOMAIN pipe /\ pipe'[n] = pipe[n]) \/ pipe'[n] = m
    BY <2>1, <2>5, WriteKeeps
  <2>7. /\ frog' \in Cells /\ croc' \in [CrocIds -> Crocs]
        /\ orig' \in [CrocIds -> Nat]
        /\ \A i \in CrocIds : croc'[i].w <= orig'[i]
        /\ [bullet |-> bullet', at |-> at'] \in Flights
        /\ \A n \in BulletIds : bullet'[n].old => bullet[n].old
    <3>1. CASE Gone(Bullet(k))
      BY <1>1, <3>1, GoneType
    <3>2. CASE /\ bullet' = [bullet EXCEPT ![k] = Flown(k)]
               /\ UNCHANGED <<frog, croc, orig, at>>
      <4>1. bullet' \in [BulletIds -> BulletStates]
        BY <1>2, <2>3, <3>2
      <4>2. \A n \in BulletIds : bullet'[n].old = bullet[n].old
                                 /\ bullet'[n].c = bullet[n].c
        BY <1>2, <2>3, <3>2
      <4>3. [bullet |-> bullet', at |-> at'] \in Flights
        BY <1>2, <3>2, <4>1, <4>2 DEF ProcessType, Flights
      <4>4. QED
        BY <3>2, <4>2, <4>3 DEF ProcessType
    <3>3. QED
      BY <1>3, <3>1, <3>2 DEF BulletRound
  <2>8. ProcessType'
    BY <2>1, <2>6, <2>7 DEF ProcessType
  <2>9. OwnInv'
    <3>1. ~bullet'[k].old
      BY <2>1, <2>7
    <3>2. \A n \in DOMAIN pipe' :
            pipe'[n].c \in {"*", "@"} => ~bullet'[pipe'[n].id].old
      BY <2>5, <2>6, <2>7, <3>1, PipeIds DEF OwnInv
    <3>3. QED
      BY <2>1, <2>7, <3>2 DEF OwnInv
  <2>10. QED
    BY <2>8, <2>9
<1>4. CASE OldBulletEnds(k)
  <2>1. /\ UNCHANGED <<pipe, echo, frog, croc, orig, stopped, term, g, main>>
        /\ at' = [at EXCEPT ![Bullet(k)] = "none"]
        /\ bullet' = [bullet EXCEPT ![k] = NoShot]
    BY <1>4 DEF OldBulletEnds, Go, pipes, signals
  <2>2. NoShot \in BulletStates /\ NoShot.old = FALSE
    BY DEF NoShot, BulletStates
  <2>3. bullet' \in [BulletIds -> BulletStates] /\ at' \in [Processes -> Places]
    BY <1>2, <2>1, <2>2 DEF Places
  <2>4. \A n \in BulletIds : bullet'[n].old => bullet[n].old
    BY <1>2, <2>1, <2>2
  <2>5. ASSUME NEW n \in BulletIds, at'[Bullet(n)] = "fly", ~bullet'[n].old
        PROVE  bullet'[n].c \in {"*", "@"}
    <3>1. Bullet(n) \in Processes /\ Bullet(n) # Bullet(k)
      BY <1>1, <1>2, <2>1, <2>5 DEF Processes, Bullets
    <3>2. at[Bullet(n)] = "fly" /\ bullet'[n] = bullet[n]
      BY <1>2, <2>1, <2>5, <3>1
    <3>3. QED
      BY <2>5, <3>2 DEF ProcessType, Flights
  <2>6. [bullet |-> bullet', at |-> at'] \in Flights
    BY <2>3, <2>5 DEF Flights
  <2>7. ProcessType'
    BY <2>1, <2>6 DEF ProcessType
  <2>8. OwnInv'
    BY <2>1, <2>4, PipeIds DEF OwnInv
  <2>9. QED
    BY <2>7, <2>8
<1>5. QED
  BY <1>3, <1>4 DEF BulletStep

LEMMA DieKeepsType ==
  ASSUME TypeInv, NEW t \in Processes, Dies(t)
  PROVE  ProcessType' /\ OwnInv'
<1> USE DEF TypeInv
<1>1. Gone(t) /\ UNCHANGED <<pipe, echo, stopped, g, main>> /\ term' = term \ {t}
  BY DEF Dies, Die, BrokenPipe, pipes
<1>2. /\ frog' \in Cells /\ croc' \in [CrocIds -> Crocs]
      /\ orig' \in [CrocIds -> Nat]
      /\ \A i \in CrocIds : croc'[i].w <= orig'[i]
      /\ [bullet |-> bullet', at |-> at'] \in Flights
      /\ \A k \in BulletIds : bullet'[k].old => bullet[k].old
  BY <1>1, GoneType
<1>3. ProcessType'
  BY <1>1, <1>2 DEF ProcessType
<1>4. OwnInv'
  BY <1>1, <1>2, PipeIds DEF OwnInv
<1>5. QED
  BY <1>3, <1>4

(* main forks the children.                                                *)
LEMMA ForksKeepType == TypeInv /\ (ForkFrog \/ ForkCroc) => ProcessType' /\ OwnInv'
<1> SUFFICES ASSUME TypeInv, ForkFrog \/ ForkCroc PROVE ProcessType' /\ OwnInv'
  OBVIOUS
<1> USE DEF TypeInv
<1>1. Start \in Cells
  BY ScreenAssumption, CrocAssumption DEF Start, StartRow, Cells
<1>2. UNCHANGED <<pipe, echo, bullet, stopped, term, g>> /\ main'.at = "fork"
  BY DEF PauseInv, ForkFrog, ForkCroc, pipes, signals
<1>3. [bullet |-> bullet', at |-> at'] \in Flights
  <2>1. \A t \in Family : [bullet |-> bullet, at |-> [at EXCEPT ![t] = "loop"]] \in Flights
    BY WentType DEF ProcessType, Places
  <2>2. PICK t \in Family : at' = [at EXCEPT ![t] = "loop"]
    BY DEF ForkFrog, ForkCroc, Go, Family
  <2>3. QED
    BY <1>2, <2>1, <2>2
<1>4. frog' \in Cells
  BY <1>1 DEF ForkFrog, ForkCroc, ProcessType
<1>5. /\ croc' \in [CrocIds -> Crocs] /\ orig' \in [CrocIds -> Nat]
      /\ \A i \in CrocIds : croc'[i].w <= orig'[i]
  <2>1. CASE ForkFrog
    BY <2>1 DEF ForkFrog, ProcessType
  <2>2. CASE ForkCroc
    <3>1. PICK x \in FirstX(main.i), w \in CrocWidths :
            /\ croc' = [croc EXCEPT ![main.i] = [x |-> x, w |-> w]]
            /\ orig' = [orig EXCEPT ![main.i] = w]
      BY <2>2 DEF ForkCroc
    <3>2. x \in 0..Width /\ w \in Nat
      BY ScreenAssumption, CrocAssumption DEF FirstX
    <3>3. [x |-> x, w |-> w] \in Crocs
      BY <3>2 DEF Crocs
    <3>4. croc \in [CrocIds -> Crocs] /\ orig \in [CrocIds -> Nat]
          /\ \A i \in CrocIds : croc[i].w <= orig[i]
      BY DEF ProcessType
    <3>5. croc' \in [CrocIds -> Crocs] /\ orig' \in [CrocIds -> Nat]
      BY <3>1, <3>2, <3>3, <3>4
    <3>6. ASSUME NEW i \in CrocIds PROVE croc'[i].w <= orig'[i]
      <4>1. CASE i = main.i
        BY <3>1, <3>2, <3>4, <4>1
      <4>2. CASE i # main.i
        BY <3>1, <3>4, <4>2
      <4>3. QED
        BY <4>1, <4>2
    <3>7. QED
      BY <3>5, <3>6
  <2>3. QED
    BY <2>1, <2>2
<1>6. ProcessType'
  BY <1>2, <1>3, <1>4, <1>5 DEF ProcessType
<1>7. OwnInv'
  BY <1>2 DEF OwnInv
<1>8. QED
  BY <1>6, <1>7

(* A new game clears the table, whatever the memory held.                  *)
LEMMA StartKeepsType == TypeInv /\ StartGame => ProcessType' /\ OwnInv'
<1> SUFFICES ASSUME TypeInv, StartGame PROVE ProcessType' /\ OwnInv'
  OBVIOUS
<1> USE DEF TypeInv
<1>1. PICK left \in {{}, SlotIds} :
        g' = Locals(g.vite, [n \in SlotIds |->
               IF n \in left
               THEN [g.table[n] EXCEPT !.active = FALSE, !.hit = FALSE, !.pid = 0]
               ELSE NoBullet])
  BY DEF StartGame
<1> DEFINE t == [n \in SlotIds |->
                   IF n \in left
                   THEN [g.table[n] EXCEPT !.active = FALSE, !.hit = FALSE, !.pid = 0]
                   ELSE NoBullet]
<1>2. t \in [SlotIds -> Entries] /\ \A n \in SlotIds : t[n].active = FALSE
  <2>1. NoBullet \in Entries /\ NoBullet.active = FALSE /\ 0 \in 0..NumBullets
    BY BoundsAssumption DEF NoBullet, Entries
  <2>2. \A n \in SlotIds : g.table[n] \in Entries
    BY DEF ProcessType, States
  <2>3. \A e \in Entries :
          /\ [e EXCEPT !.active = FALSE, !.hit = FALSE, !.pid = 0] \in Entries
          /\ [e EXCEPT !.active = FALSE, !.hit = FALSE, !.pid = 0].active = FALSE
    BY <2>1 DEF Entries
  <2>4. QED
    BY <2>1, <2>2, <2>3
<1> HIDE DEF t
<1>3. g' \in States /\ g'.table = t
  <2>1. g.vite \in 0..Lives
    BY DEF ProcessType, States
  <2>2. g' = Locals(g.vite, t)
    BY <1>1 DEF t
  <2>3. QED
    BY <1>2, <2>1, <2>2, LocalsType
<1>4. UNCHANGED <<pipe, echo, frog, croc, orig, bullet, at, stopped, term>>
  BY DEF StartGame, pipes, children, signals
<1>5. ProcessType'
  BY <1>3, <1>4 DEF ProcessType
<1>6. OwnInv'
  BY <1>2, <1>3, <1>4 DEF OwnInv
<1>7. QED
  BY <1>5, <1>6

(* The pause: its beginning and its end.                                   *)
LEMMA PausesKeepType == TypeInv /\ (GameCheck \/ StopFamily) => ProcessType' /\ OwnInv'
<1> SUFFICES ASSUME TypeInv, GameCheck \/ StopFamily PROVE ProcessType' /\ OwnInv'
  OBVIOUS
<1> USE DEF TypeInv
<1>1. UNCHANGED <<echo, frog, croc, orig, bullet, at, term>>
  BY DEF GameCheck, StopFamily, pipes, children, signals
<1>2. main.at \in {"top", "stopping"}
  BY DEF GameCheck, StopFamily
<1>3. pipe' = pipe \/ pipe' = <<>>
  BY DEF GameCheck, StopFamily, pipes
<1>4. g' \in States /\ g'.table = g.table
  <2>1. \A b \in BOOLEAN : [g EXCEPT !.paused = b] \in States
                           /\ [g EXCEPT !.paused = b].table = g.table
    BY DEF ProcessType, States
  <2>2. g' = g \/ g' = [g EXCEPT !.paused = TRUE] \/ g' = [g EXCEPT !.paused = FALSE]
    BY DEF GameCheck, StopFamily
  <2>3. QED
    BY <2>1, <2>2 DEF ProcessType
<1>5. stopped' \subseteq Processes \cup {Game}
  <2>1. CASE GameCheck
    BY <2>1 DEF GameCheck, Continued, ProcessType
  <2>2. CASE StopFamily
    <3>1. ActiveBullets \subseteq Processes
      BY <1>2 DEF ActiveBullets, OwnInv, Processes, Bullets
    <3>2. \A i \in CrocIds : Croc(i) \in Processes
      BY DEF Processes, Family
    <3>3. QED
      BY <2>2, <3>1, <3>2 DEF StopFamily, ProcessType
  <2>3. QED
    BY <2>1, <2>2
<1>6. pipe' \in Seq(Msgs) /\ Len(pipe') <= PipeCap
  <2>1. <<>> \in Seq(Msgs) /\ Len(<<>>) = 0 /\ PipeCap \in Nat
    BY BoundsAssumption
  <2>2. pipe \in Seq(Msgs) /\ Len(pipe) <= PipeCap
    BY DEF ProcessType
  <2> HIDE DEF TypeInv
  <2>3. CASE pipe' = pipe
    BY <2>2, <2>3
  <2>4. CASE pipe' = <<>>
    BY <2>1, <2>4
  <2>5. QED
    BY <1>3, <2>3, <2>4
<1>7. ProcessType'
  BY <1>1, <1>4, <1>5, <1>6 DEF ProcessType
<1>8. OwnInv'
  BY <1>1, <1>2, <1>3, <1>4 DEF OwnInv
<1>9. QED
  BY <1>7, <1>8

(* The end of a game, and a restart: its pipe is new, and the bullets that *)
(* still fly are of an old game from now on.                               *)
LEMMA EndKeepsType == TypeInv /\ (Answer \/ Reap) => ProcessType' /\ OwnInv'
<1> SUFFICES ASSUME TypeInv, Answer \/ Reap PROVE ProcessType' /\ OwnInv'
  OBVIOUS
<1> USE DEF TypeInv
<1>1. main'.at \in {"reap", "fork", "done"}
  BY DEF PauseInv, Answer, Reap, Ended
<1>2. CASE Answer
  <2>1. UNCHANGED <<pipe, echo, frog, croc, orig, bullet, at, stopped>>
    BY <1>2 DEF Answer, pipes, children
  <2>2. g' \in States
    <3>1. Lives \in 0..Lives
      BY BoundsAssumption
    <3>2. \A v \in 0..Lives : [g EXCEPT !.vite = v] \in States
      BY DEF ProcessType, States
    <3>3. g' = g \/ g' = [g EXCEPT !.vite = Lives]
      BY <1>2 DEF Answer
    <3>4. QED
      BY <3>1, <3>2, <3>3 DEF ProcessType
  <2>3. term' \subseteq Processes
    BY <1>2 DEF Answer, Processes
  <2>4. ProcessType'
    BY <2>1, <2>2, <2>3 DEF ProcessType
  <2>5. QED
    BY <1>1, <2>1, <2>4 DEF OwnInv
<1>3. CASE Reap /\ Again
  <2>1. UNCHANGED <<frog, croc, orig, stopped, term, g>> /\ pipe' = <<>> /\ echo' = <<>>
    BY <1>3 DEF Reap, Again, signals
  <2>2. /\ bullet' = [k \in BulletIds |-> [NoShot EXCEPT !.old = Alive(Bullet(k))]]
        /\ at' = [t \in Processes |-> IF Alive(t) THEN at[t] ELSE "none"]
    BY <1>3 DEF Again
  <2>3. \A v \in BOOLEAN : [NoShot EXCEPT !.old = v] \in BulletStates
                           /\ [NoShot EXCEPT !.old = v].old = v
    <3>1. NoShot \in BulletStates
      BY DEF NoShot, BulletStates
    <3>2. \A e \in BulletStates, v \in BOOLEAN :
            [e EXCEPT !.old = v] \in BulletStates /\ [e EXCEPT !.old = v].old = v
      BY DEF BulletStates
    <3>3. QED
      BY <3>1, <3>2
  <2>4. \A k \in BulletIds : Alive(Bullet(k)) \in BOOLEAN
    BY DEF Alive
  <2>5. bullet' \in [BulletIds -> BulletStates]
    BY <2>2, <2>3, <2>4
  <2>6. at' \in [Processes -> Places]
    BY <2>2 DEF ProcessType, Flights, Places
  <2>7. \A k \in BulletIds : at'[Bullet(k)] = "fly" => bullet'[k].old
    <3>1. \A k \in BulletIds : at'[Bullet(k)] = "fly" => Alive(Bullet(k))
      BY <2>2 DEF Processes, Bullets
    <3>2. \A k \in BulletIds : Alive(Bullet(k)) => bullet'[k].old
      BY <2>2, <2>3
    <3>3. QED
      BY <3>1, <3>2
  <2>8. [bullet |-> bullet', at |-> at'] \in Flights
    BY <2>5, <2>6, <2>7 DEF Flights
  <2>9. ProcessType'
    BY <2>1, <2>8, BoundsAssumption DEF ProcessType
  <2>10. QED
    BY <1>1, <2>1, <2>9 DEF OwnInv
<1>4. CASE Reap /\ UNCHANGED <<pipes, at, bullet>>
  <2>1. UNCHANGED <<pipe, echo, frog, croc, orig, bullet, at, stopped, term, g>>
    BY <1>4 DEF Reap, pipes, signals
  <2>2. QED
    BY <1>1, <2>1 DEF OwnInv, ProcessType
<1>5. QED
  BY <1>2, <1>3, <1>4 DEF Reap

(* The signals that end the main process, and the shell's fg.              *)
LEMMA SignalsKeepType ==
  TypeInv /\ (Terminate \/ Foreground) => ProcessType' /\ OwnInv'
<1> SUFFICES ASSUME TypeInv, Terminate \/ Foreground PROVE ProcessType' /\ OwnInv'
  OBVIOUS
<1> USE DEF TypeInv
<1>1. CASE Terminate
  <2>1. UNCHANGED <<pipe, frog, croc, orig, bullet, at>> /\ echo' = <<>> /\ stopped' = {}
        /\ main'.at = "done"
    BY <1>1 DEF PauseInv, Terminate, Ended, children
  <2>2. g' \in States
    <3>1. [n \in SlotIds |-> NoBullet] \in [SlotIds -> Entries]
      BY BoundsAssumption DEF NoBullet, Entries
    <3>2. Lives \in 0..Lives
      BY BoundsAssumption
    <3>3. QED
      BY <1>1, <3>1, <3>2, LocalsType DEF Terminate
  <2>3. term' \subseteq Processes
    <3>1. Known \subseteq Processes
      BY DEF Known, Processes, Family
    <3>2. stopped \subseteq Processes
      BY <1>1 DEF Terminate, ProcessType
    <3>3. QED
      BY <1>1, <3>1, <3>2 DEF Terminate
  <2>4. ProcessType'
    BY <2>1, <2>2, <2>3, BoundsAssumption DEF ProcessType
  <2>5. QED
    BY <2>1, <2>4 DEF OwnInv
<1>2. CASE Foreground
  <2>1. UNCHANGED <<pipe, echo, frog, croc, orig, bullet, at, term, g, main>>
        /\ stopped' = {}
    BY <1>2 DEF Foreground, pipes, children
  <2>2. QED
    BY <2>1 DEF OwnInv, ProcessType
<1>3. QED
  BY <1>1, <1>2

LEMMA TypeInvariance == Spec => []TypeInv
<1>1. TypeInv /\ [Next]_vars => ProcessType' /\ OwnInv'
  <2> SUFFICES ASSUME TypeInv, [Next]_vars PROVE ProcessType' /\ OwnInv'
    OBVIOUS
  <2>1. CASE ForkFrog \/ ForkCroc
    BY <2>1, ForksKeepType
  <2>2. CASE StartGame
    BY <2>2, StartKeepsType
  <2>3. CASE GameCheck \/ StopFamily
    BY <2>3, PausesKeepType
  <2>4. CASE GameRead
    BY <2>4, ReadKeepsType
  <2>5. CASE Answer \/ Reap
    BY <2>5, EndKeepsType
  <2>6. CASE FrogStep \/ FrogPause
    BY <2>6, FrogKeepsType
  <2>7. CASE \E i \in CrocIds : CrocStep(i)
    BY <2>7, CrocKeepsType
  <2>8. CASE \E k \in BulletIds : BulletStep(k)
    BY <2>8, BulletKeepsType
  <2>9. CASE \E t \in Processes : Dies(t)
    BY <2>9, DieKeepsType
  <2>10. CASE Terminate \/ Foreground
    BY <2>10, SignalsKeepType
  <2>11. CASE UNCHANGED vars
    BY <2>11 DEF vars, pipes, children, signals, TypeInv, ProcessType, OwnInv
  <2>12. QED
    BY <2>1, <2>2, <2>3, <2>4, <2>5, <2>6, <2>7, <2>8, <2>9, <2>10, <2>11
    DEF Next, MainStep, Finished
<1>2. PauseInv /\ ProcessType /\ OwnInv <=> TypeInv
  BY DEF TypeInv
<1>3. Init => ProcessType /\ OwnInv
  BY TypeInit DEF TypeInv
<1>4. QED
  BY <1>1, <1>2, <1>3, PauseInvariance, PTL DEF Spec

(* Positions, lives, times and pipes stay in their bounds, for any screen, *)
(* any number of processes and any pipes: a frog that is carried, clamped  *)
(* or sent home (game.c 205-258), and a crocodile that shrinks at a border *)
(* (crocodile.c 105-125), never leave the screen of the game.              *)
THEOREM TypeCorrect == Spec => []TypeOK
<1>1. TypeInv => TypeOK
  <2> SUFFICES ASSUME TypeInv PROVE TypeOK
    OBVIOUS
  <2> USE DEF TypeInv, ProcessType
  <2>1. Len(pipe) <= PipeCap /\ Len(echo) <= EchoCap /\ frog \in Cells
        /\ \A n \in DOMAIN echo : echo[n] \in Cells
    OBVIOUS
  <2>2. \A i \in CrocIds : croc[i].w \in 0..orig[i] /\ croc[i].x \in 0..Width
    BY DEF Crocs
  <2>3. /\ g.rana \in [x : 1..Width - 2, y : 0..StartRow, w : {FirstW, FrogW}]
        /\ g.vite \in 0..Lives /\ g.time \in 0..MaxTime /\ g.dens \subseteq Dens
    BY DEF States, Ranas
  <2>4. stopped \subseteq Processes \cup {Game} /\ term \subseteq Family \cup Bullets
    BY DEF Processes
  <2>5. QED
    BY <2>1, <2>2, <2>3, <2>4 DEF TypeOK
<1>2. QED
  BY <1>1, TypeInvariance, PTL

(* A game knows only its own bullets, however many of the games before it  *)
(* still fly when it starts (main.c 156-202 waits for none of them).       *)
THEOREM GamesApart == Spec => []OwnBullets
<1>1. TypeInv => OwnBullets
  BY DEF TypeInv, OwnInv, OwnBullets
<1>2. QED
  BY <1>1, TypeInvariance, PTL

-----------------------------------------------------------------------------
(* Ghosts *)

(* The children that a signal ends are no bullets while main lives; what a *)
(* bullet that has ended wrote last is not that it flies; and no bullet    *)
(* has two entries, of which its last message would give back one.         *)
Playing == main.at \in {"top", "read", "stopping"}
GhostInv ==
  main.at # "done" =>
    /\ term \subseteq Family
    /\ \A k \in BulletIds : ~Alive(Bullet(k)) =>
         \A n \in DOMAIN pipe : From(pipe[n], k) /\ pipe[n].active =>
           \E o \in DOMAIN pipe : o > n /\ From(pipe[o], k)
    /\ Playing => Distinct(g.table)

Haunting(n) ==
  /\ g.table[n].active /\ ~Alive(Bullet(g.table[n].pid))
  /\ \A k \in DOMAIN pipe : ~From(pipe[k], g.table[n].pid)

LEMMA GhostsDef ==
  /\ Ghosts = {n \in SlotIds : Playing /\ Haunting(n)}
  /\ Ghosts' = {n \in SlotIds : Playing' /\ Haunting(n)'}
  BY DEF Ghosts, Playing, Haunting, From

LEMMA NoneDone ==
  ASSUME main'.at = "done"
  PROVE  GhostInv' /\ Ghosts' \subseteq Ghosts
  BY DEF GhostInv, Ghosts

(* A step of a child.  It may write a message, and a bullet ends with its  *)
(* last one, unless it is of an old game.                                  *)
LEMMA ChildStep ==
  ASSUME TypeInv, GhostInv, UNCHANGED <<g, main>>, main.at # "done",
         term' \subseteq term, NEW m,
         pipe' = pipe \/ pipe' = Append(pipe, m),
         \A k \in BulletIds :
           \/ Alive(Bullet(k))'
           \/ ~Alive(Bullet(k)) /\ (pipe' = pipe \/ ~From(m, k))
           \/ bullet[k].old /\ pipe' = pipe
           \/ pipe' = Append(pipe, m) /\ From(m, k) /\ ~m.active
  PROVE  GhostInv' /\ Ghosts' \subseteq Ghosts
<1> DEFINE M == Msgs \cup {m}
<1>1. pipe \in Seq(M) /\ m \in M
  BY DEF TypeInv, ProcessType
<1> HIDE DEF M
<1>2. ASSUME pipe' = Append(pipe, m)
      PROVE  /\ Len(pipe) + 1 \in DOMAIN pipe' /\ pipe'[Len(pipe) + 1] = m
             /\ \A n \in DOMAIN pipe' : n \in DOMAIN pipe \/ n = Len(pipe) + 1
             /\ \A n \in DOMAIN pipe : n < Len(pipe) + 1 /\ n \in DOMAIN pipe'
                                       /\ pipe'[n] = pipe[n]
  BY <1>1, <1>2
<1>3. /\ DOMAIN pipe \subseteq DOMAIN pipe'
      /\ \A n \in DOMAIN pipe : pipe'[n] = pipe[n]
  BY <1>2
<1>4. ASSUME NEW k \in BulletIds, ~Alive(Bullet(k))',
             NEW n \in DOMAIN pipe', From(pipe'[n], k), pipe'[n].active
      PROVE  \E o \in DOMAIN pipe' : o > n /\ From(pipe'[o], k)
  <2>1. CASE ~Alive(Bullet(k)) /\ (pipe' = pipe \/ ~From(m, k))
    <3>1. n \in DOMAIN pipe /\ pipe'[n] = pipe[n]
      BY <1>2, <1>4, <2>1
    <3>2. PICK o \in DOMAIN pipe : o > n /\ From(pipe[o], k)
      BY <1>4, <2>1, <3>1 DEF GhostInv
    <3>3. QED
      BY <1>3, <3>2
  <2>2. CASE bullet[k].old /\ pipe' = pipe
    BY <1>4, <2>2 DEF TypeInv, OwnInv, From
  <2>3. CASE pipe' = Append(pipe, m) /\ From(m, k) /\ ~m.active
    <3>1. /\ Len(pipe) + 1 \in DOMAIN pipe' /\ pipe'[Len(pipe) + 1] = m
          /\ \A i \in DOMAIN pipe' : i \in DOMAIN pipe \/ i = Len(pipe) + 1
          /\ \A i \in DOMAIN pipe : i < Len(pipe) + 1
      BY <1>2, <2>3
    <3>2. n # Len(pipe) + 1
      BY <1>4, <2>3, <3>1
    <3>3. Len(pipe) + 1 > n
      BY <3>1, <3>2
    <3>4. QED
      BY <2>3, <3>1, <3>3
  <2>4. QED
    BY <1>4, <2>1, <2>2, <2>3
<1>5. GhostInv'
  BY <1>4 DEF GhostInv, Playing
<1>6. ASSUME NEW n \in SlotIds, Playing, Haunting(n)' PROVE Haunting(n)
  <2>1. PICK k \in BulletIds : k = g.table[n].pid /\ g.table[n].active /\ ~bullet[k].old
    BY <1>6 DEF Haunting, Playing, TypeInv, OwnInv
  <2>2. ~Alive(Bullet(k))' /\ \A i \in DOMAIN pipe' : ~From(pipe'[i], k)
    BY <1>6, <2>1 DEF Haunting
  <2>3. \A i \in DOMAIN pipe : ~From(pipe[i], k)
    BY <1>3, <2>2
  <2>4. ~Alive(Bullet(k))
    BY <1>2, <2>1, <2>2
  <2>5. QED
    BY <2>1, <2>3, <2>4 DEF Haunting
<1>7. Playing' = Playing
  BY DEF Playing
<1>8. QED
  BY <1>5, <1>6, <1>7, GhostsDef

(* A step that writes and ends nothing.                                    *)
LEMMA StillStep ==
  ASSUME TypeInv, GhostInv, main.at # "done", term' \subseteq Family,
         pipe' = pipe \/ (pipe' = <<>> /\ (Playing => g.paused /\ ~g'.paused)),
         \A k \in BulletIds : Alive(Bullet(k))' <=> Alive(Bullet(k)),
         \/ ~Playing'
         \/ Playing' /\ \A n \in SlotIds : ~g'.table[n].active
         \/ Playing' /\ Playing /\ g'.table = g.table
  PROVE  GhostInv' /\ ((g.paused => g'.paused) => Ghosts' \subseteq Ghosts)
<1>1. GhostInv'
  <2>1. Playing' => Distinct(g'.table)
    BY DEF Distinct, GhostInv
  <2>2. CASE pipe' = <<>>
    BY <2>1, <2>2 DEF GhostInv
  <2>3. CASE pipe' = pipe
    BY <2>1, <2>3 DEF GhostInv
  <2>4. QED
    BY <2>2, <2>3
<1>2. ASSUME g.paused => g'.paused, NEW n \in Ghosts' PROVE n \in Ghosts
  <2>1. n \in SlotIds /\ Playing' /\ Haunting(n)'
    BY <1>2, GhostsDef
  <2>2. Playing /\ g'.table = g.table /\ pipe' = pipe
    BY <1>2, <2>1 DEF Haunting
  <2>3. g.table[n].pid \in BulletIds
    BY <2>1, <2>2 DEF Haunting, Playing, TypeInv, OwnInv
  <2>4. Haunting(n)
    BY <2>1, <2>2, <2>3 DEF Haunting
  <2>5. QED
    BY <2>1, <2>2, <2>4, GhostsDef
<1>3. QED
  BY <1>1, <1>2

(* A fork lets no bullet end.                                              *)
LEMMA ForkedLives ==
  ASSUME NEW w, w.at \in [Processes -> Places],
         NEW c, NEW x, NEW y, NEW d
  PROVE  /\ Forked(w, c, x, y, d).at \in [Processes -> Places]
         /\ \A k \in BulletIds :
              Forked(w, c, x, y, d).at[Bullet(k)] \in {w.at[Bullet(k)], "fly"}
<1>1. CASE Unborn(w.at) = {}
  BY <1>1 DEF Forked
<1>2. CASE Unborn(w.at) # {}
  <2> DEFINE a == [w.at EXCEPT ![Bullet(First(Unborn(w.at)))] = "fly"]
  <2>1. Forked(w, c, x, y, d).at = a
    BY <1>2 DEF Forked
  <2>2. a \in [Processes -> Places]
    BY DEF Places
  <2>3. \A k \in BulletIds : a[Bullet(k)] \in {w.at[Bullet(k)], "fly"}
    BY DEF Processes, Bullets
  <2>4. QED
    BY <2>1, <2>2, <2>3
<1>3. QED
  BY <1>1, <1>2

(* The frog and the crocodiles write no message of a bullet, and only add  *)
(* bullets.                                                                *)
LEMMA FamilyStep ==
  ASSUME TypeInv, GhostInv, main.at # "done",
         FrogStep \/ FrogPause \/ \E i \in CrocIds : CrocStep(i)
  PROVE  GhostInv' /\ Ghosts' \subseteq Ghosts
<1>1. at \in [Processes -> Places]
  BY DEF TypeInv, ProcessType, Flights
<1>2. \A t \in Family, l \in Places : [at EXCEPT ![t] = l] \in [Processes -> Places]
  BY <1>1
<1>3. \A t \in Family, l \in Places, k \in BulletIds :
        [at EXCEPT ![t] = l][Bullet(k)] = at[Bullet(k)]
  BY <1>1 DEF Family, Frog, Croc, Bullet, Processes, Bullets
<1>4. Frog \in Family /\ (\A i \in CrocIds : Croc(i) \in Family)
      /\ "write" \in Places /\ "loop" \in Places
  BY DEF Family, Places
<1>5. ASSUME NEW m, \A k \in BulletIds : ~From(m, k),
             UNCHANGED <<g, main, term>>, pipe' = pipe \/ pipe' = Append(pipe, m),
             \A k \in BulletIds : at'[Bullet(k)] \in {at[Bullet(k)], "fly"}
      PROVE  GhostInv' /\ Ghosts' \subseteq Ghosts
  <2>1. \A k \in BulletIds : Alive(Bullet(k))' \/ ~Alive(Bullet(k))
    BY <1>5 DEF Alive
  <2>2. QED
    BY <1>5, <2>1, ChildStep
<1>6. CASE FrogRound
  <2>1. PICK key \in (Keys \ {"p", "signal"}) \cup {""} :
          at' = Shots(Updated, key,
                      [bullet |-> bullet, at |-> [at EXCEPT ![Frog] = "write"]]).at
    BY <1>6 DEF FrogRound
  <2> DEFINE w0 == [bullet |-> bullet, at |-> [at EXCEPT ![Frog] = "write"]]
             w1 == Forked(w0, "*", Updated.x + FrogW, Updated.y, 1)
             w2 == Forked(w1, "*", Updated.x - 1, Updated.y, -1)
  <2>2. w0.at \in [Processes -> Places]
        /\ \A k \in BulletIds : w0.at[Bullet(k)] = at[Bullet(k)]
    BY <1>2, <1>3, <1>4
  <2>3. Shots(Updated, key, w0) = IF key # "space" THEN w0 ELSE w2
    BY DEF Shots
  <2> HIDE DEF w0
  <2>4. w1.at \in [Processes -> Places]
        /\ \A k \in BulletIds : w1.at[Bullet(k)] \in {w0.at[Bullet(k)], "fly"}
    BY <2>2, ForkedLives
  <2> HIDE DEF w1
  <2>5. \A k \in BulletIds : w2.at[Bullet(k)] \in {w1.at[Bullet(k)], "fly"}
    BY <2>4, ForkedLives
  <2> HIDE DEF w2
  <2>6. at' = Shots(Updated, key, w0).at
    BY <2>1 DEF w0
  <2>7. \A k \in BulletIds : at'[Bullet(k)] \in {at[Bullet(k)], "fly"}
    BY <2>2, <2>3, <2>4, <2>5, <2>6
  <2>8. UNCHANGED <<g, main, term, pipe>>
    BY <1>6 DEF FrogRound, signals
  <2>9. \A k \in BulletIds : ~From(FrogMsg(frog), k)
    BY DEF From, FrogMsg
  <2>10. QED
    BY <1>5, <2>7, <2>8, <2>9
<1>7. CASE FrogWrite
  <2>1. UNCHANGED <<g, main, term>> /\ pipe' = Append(pipe, FrogMsg(frog))
        /\ at' = [at EXCEPT ![Frog] = "loop"]
    BY <1>7 DEF FrogWrite, Write, Go, signals
  <2>2. \A k \in BulletIds : ~From(FrogMsg(frog), k)
    BY DEF From, FrogMsg
  <2>3. \A k \in BulletIds : at'[Bullet(k)] \in {at[Bullet(k)], "fly"}
    BY <1>3, <1>4, <2>1
  <2>4. QED
    BY <1>5, <2>1, <2>2, <2>3
<1>8. CASE FrogPause
  <2>1. UNCHANGED <<g, main, term, at, pipe>>
    BY <1>8 DEF FrogPause, signals
  <2>2. \A k \in BulletIds : ~From(FrogMsg(frog), k)
    BY DEF From, FrogMsg
  <2>3. QED
    BY <1>5, <2>1, <2>2
<1>9. ASSUME NEW i \in CrocIds, CrocRound(i)
      PROVE  GhostInv' /\ Ghosts' \subseteq Ghosts
  <2> DEFINE head == IF Dir(i) = 1 THEN Swum(i).x + Swum(i).w - 1 ELSE Swum(i).x
             quiet == [bullet |-> bullet, at |-> [at EXCEPT ![Croc(i)] = "write"]]
             shot == Forked(quiet, "@", head, CrocRow(i), Dir(i))
  <2>1. PICK shoots \in BOOLEAN : at' = (IF shoots THEN shot ELSE quiet).at
    BY <1>9 DEF CrocRound
  <2>2. quiet.at \in [Processes -> Places]
        /\ \A k \in BulletIds : quiet.at[Bullet(k)] = at[Bullet(k)]
    BY <1>2, <1>3, <1>4
  <2> HIDE DEF quiet, head
  <2>3. \A k \in BulletIds : shot.at[Bullet(k)] \in {quiet.at[Bullet(k)], "fly"}
    BY <2>2, ForkedLives
  <2> HIDE DEF shot
  <2>4. \A k \in BulletIds : at'[Bullet(k)] \in {at[Bullet(k)], "fly"}
    BY <2>1, <2>2, <2>3
  <2>5. UNCHANGED <<g, main, term, pipe>>
    BY <1>9 DEF CrocRound, pipes, signals
  <2>6. \A k \in BulletIds : ~From(FrogMsg(frog), k)
    BY DEF From, FrogMsg
  <2>7. QED
    BY <1>5, <2>4, <2>5, <2>6
<1>10. ASSUME NEW i \in CrocIds, CrocWrite(i)
       PROVE  GhostInv' /\ Ghosts' \subseteq Ghosts
  <2>1. UNCHANGED <<g, main, term>> /\ pipe' = Append(pipe, CrocMsg(i, croc[i]))
        /\ at' = [at EXCEPT ![Croc(i)] = "loop"]
    BY <1>10 DEF CrocWrite, Write, Go, signals
  <2>2. \A k \in BulletIds : ~From(CrocMsg(i, croc[i]), k)
    BY DEF From, CrocMsg
  <2>3. \A k \in BulletIds : at'[Bullet(k)] \in {at[Bullet(k)], "fly"}
    BY <1>3, <1>4, <2>1
  <2>4. QED
    BY <1>5, <2>1, <2>2, <2>3
<1>11. QED
  BY <1>6, <1>7, <1>8, <1>9, <1>10 DEF FrogStep, CrocStep

(* A bullet that ends says so, or is of an old game.                       *)
LEMMA BulletGhosts ==
  ASSUME TypeInv, GhostInv, main.at # "done", NEW k \in BulletIds, BulletStep(k)
  PROVE  GhostInv' /\ Ghosts' \subseteq Ghosts
<1>1. at \in [Processes -> Places] /\ Bullet(k) \in Processes
  BY DEF TypeInv, ProcessType, Flights, Processes, Bullets
<1>2. bullet \in [BulletIds -> BulletStates]
  BY DEF TypeInv, ProcessType, Flights
<1>3. ASSUME NEW l, at' = [at EXCEPT ![Bullet(k)] = l], NEW n \in BulletIds, n # k
      PROVE  Alive(Bullet(n))' <=> Alive(Bullet(n))
  <2>1. Bullet(n) # Bullet(k) /\ Bullet(n) \in Processes
    BY <1>3 DEF Bullet, Processes, Bullets
  <2>2. at'[Bullet(n)] = at[Bullet(n)]
    BY <1>1, <1>3, <2>1
  <2>3. QED
    BY <2>2 DEF Alive
<1>4. CASE BulletRound(k)
  <2> DEFINE m == BulletMsg(k, Flown(k), ~Beyond(Flown(k)))
  <2>1. /\ at[Bullet(k)] = "fly" /\ ~bullet[k].old /\ pipe' = Append(pipe, m)
        /\ UNCHANGED <<g, main, term>>
    BY <1>4 DEF BulletRound, Write, At, signals
  <2>2. Flown(k).c = bullet[k].c
    BY <1>2 DEF Flown, BulletStates
  <2>3. From(m, k) /\ m.active = ~Beyond(Flown(k))
        /\ \A n \in BulletIds : n # k => ~From(m, n)
    BY <2>1, <2>2 DEF From, BulletMsg, TypeInv, ProcessType, Flights
  <2>4. CASE Beyond(Flown(k))
    <3>1. at' = [at EXCEPT ![Bullet(k)] = "dead"] /\ ~m.active
      BY <1>4, <2>3, <2>4 DEF BulletRound, Gone, Go
    <3>2. \A n \in BulletIds : n # k => Alive(Bullet(n))' <=> Alive(Bullet(n))
      BY <1>3, <3>1
    <3> HIDE DEF m
    <3>3. \A n \in BulletIds :
            \/ Alive(Bullet(n))'
            \/ ~Alive(Bullet(n)) /\ (pipe' = pipe \/ ~From(m, n))
            \/ bullet[n].old /\ pipe' = pipe
            \/ pipe' = Append(pipe, m) /\ From(m, n) /\ ~m.active
      BY <2>1, <2>3, <3>1, <3>2
    <3>4. QED
      BY <2>1, <3>3, ChildStep
  <2>5. CASE ~Beyond(Flown(k))
    <3>1. at' = at
      BY <1>4, <2>5 DEF BulletRound
    <3> HIDE DEF m
    <3>2. Alive(Bullet(k))
      BY <2>1 DEF Alive
    <3>3. \A n \in BulletIds : Alive(Bullet(n))' <=> Alive(Bullet(n))
      BY <3>1 DEF Alive
    <3>4. \A n \in BulletIds : Alive(Bullet(n))' \/ (~Alive(Bullet(n)) /\ ~From(m, n))
      BY <2>3, <3>2, <3>3
    <3>5. QED
      BY <2>1, <3>4, ChildStep
  <2>6. QED
    BY <2>4, <2>5
<1>5. CASE OldBulletEnds(k)
  <2>1. /\ bullet[k].old /\ UNCHANGED <<pipe, g, main, term>>
        /\ at' = [at EXCEPT ![Bullet(k)] = "none"]
    BY <1>5 DEF OldBulletEnds, Go, pipes, signals
  <2>2. \A n \in BulletIds : n # k => Alive(Bullet(n))' <=> Alive(Bullet(n))
    BY <1>3, <2>1
  <2>3. QED
    BY <2>1, <2>2, ChildStep
<1>6. QED
  BY <1>4, <1>5 DEF BulletStep

LEMMA DieGhosts ==
  ASSUME TypeInv, GhostInv, main.at # "done", NEW t \in Processes, Dies(t)
  PROVE  GhostInv' /\ Ghosts' \subseteq Ghosts
<1>1. /\ t \in term /\ at' = [at EXCEPT ![t] = "dead"]
      /\ UNCHANGED <<g, main, pipe>> /\ term' = term \ {t}
  BY DEF Dies, Die, BrokenPipe, Broken, Gone, Go, pipes
<1>2. \A k \in BulletIds : Bullet(k) # t
  BY <1>1 DEF GhostInv, Family, Frog, Croc, Bullet
<1>3. at \in [Processes -> Places] /\ \A k \in BulletIds : Bullet(k) \in Processes
  BY DEF TypeInv, ProcessType, Flights, Processes, Bullets
<1>4. \A k \in BulletIds : at'[Bullet(k)] = at[Bullet(k)]
  BY <1>1, <1>2, <1>3
<1>5. \A k \in BulletIds : Alive(Bullet(k))' = Alive(Bullet(k))
  BY <1>4 DEF Alive
<1>6. \A k \in BulletIds : Alive(Bullet(k))' \/ ~Alive(Bullet(k))
  BY <1>5
<1>7. QED
  BY <1>1, <1>6, ChildStep

(* A message is taken out of the pipe, and the table follows it: an entry  *)
(* that it leaves in use is heard of again, if its process has ended.      *)
LEMMA ReadGhosts ==
  TypeInv /\ GhostInv /\ GameRead => GhostInv' /\ Ghosts' \subseteq Ghosts
<1> SUFFICES ASSUME TypeInv, GhostInv, GameRead
             PROVE  GhostInv' /\ Ghosts' \subseteq Ghosts
  OBVIOUS
<1>1. PICK s \in Stages :
        /\ \/ g' = Locals(s.vite, s.table)
           \/ g' = [f \in DOMAIN g |-> s[f]]
        /\ Distinct(g.table) => Follows(g.table, s.table, Head(pipe))
  BY ReadStages DEF TypeInv
<1>2. g'.table = s.table
  <2>1. "table" \in DOMAIN g
    BY DEF TypeInv, ProcessType, States
  <2>2. QED
    BY <1>1, <2>1 DEF Locals
<1>3. /\ pipe # <<>> /\ pipe' = Tail(pipe) /\ main.at = "read" /\ Playing
      /\ main'.at # "done" /\ UNCHANGED <<at, term>>
  BY DEF GameRead, signals, Playing, TypeInv, PauseInv
<1>4. Follows(g.table, g'.table, Head(pipe)) /\ Distinct(g'.table)
  BY <1>1, <1>2, <1>3 DEF GhostInv, Follows
<1>5. \A k : Alive(Bullet(k))' <=> Alive(Bullet(k))
  BY <1>3 DEF Alive
<1> DEFINE M == Msgs
<1>6. pipe \in Seq(M)
  BY DEF TypeInv, ProcessType
<1> HIDE DEF M
<1>7. /\ \A n \in DOMAIN pipe' : n + 1 \in DOMAIN pipe /\ pipe'[n] = pipe[n + 1]
      /\ \A n \in DOMAIN pipe : n # 1 => n - 1 \in DOMAIN pipe' /\ pipe'[n - 1] = pipe[n]
      /\ Head(pipe) = pipe[1] /\ 1 \in DOMAIN pipe
      /\ DOMAIN pipe \subseteq Nat \ {0} /\ DOMAIN pipe' \subseteq Nat \ {0}
  BY <1>3, <1>6
<1>8. ASSUME NEW k \in BulletIds, ~Alive(Bullet(k)),
             NEW n \in DOMAIN pipe, From(pipe[n], k), pipe[n].active
      PROVE  \E o \in DOMAIN pipe' : o > n - 1 /\ From(pipe'[o], k)
  <2>1. PICK o \in DOMAIN pipe : o > n /\ From(pipe[o], k)
    BY <1>3, <1>8 DEF GhostInv
  <2>2. o # 1 /\ o - 1 > n - 1
    BY <1>7, <2>1
  <2>3. QED
    BY <1>7, <2>1, <2>2
<1>9. GhostInv'
  <2>1. ASSUME NEW k \in BulletIds, ~Alive(Bullet(k))',
               NEW n \in DOMAIN pipe', From(pipe'[n], k), pipe'[n].active
        PROVE  \E o \in DOMAIN pipe' : o > n /\ From(pipe'[o], k)
    <3>1. n + 1 \in DOMAIN pipe /\ From(pipe[n + 1], k) /\ pipe[n + 1].active
      BY <1>7, <2>1
    <3>2. ~Alive(Bullet(k)) /\ (n + 1) - 1 = n
      BY <1>5, <1>7, <2>1
    <3>3. \E o \in DOMAIN pipe' : o > (n + 1) - 1 /\ From(pipe'[o], k)
      BY <1>8, <3>1, <3>2
    <3>4. QED
      BY <3>2, <3>3
  <2>2. QED
    BY <1>3, <1>4, <2>1 DEF GhostInv
<1>10. ASSUME NEW n \in SlotIds, Playing', Haunting(n)' PROVE Haunting(n)
  <2>1. CASE From(Head(pipe), g'.table[n].pid) /\ Head(pipe).active
    <3>1. PICK k \in BulletIds : k = g'.table[n].pid
      <4>1. Head(pipe) \in Msgs
        BY <1>3 DEF TypeInv, ProcessType
      <4>2. Head(pipe) \in BulletMsgs
        BY <2>1, <4>1 DEF Msgs, FrogMsgs, CrocMsgs, From
      <4>3. QED
        BY <2>1, <4>2 DEF BulletMsgs, From
    <3>2. ~Alive(Bullet(k)) /\ \A i \in DOMAIN pipe' : ~From(pipe'[i], k)
      BY <1>5, <1>10, <3>1 DEF Haunting
    <3>3. \E o \in DOMAIN pipe' : o > 1 - 1 /\ From(pipe'[o], k)
      BY <1>7, <1>8, <2>1, <3>1, <3>2
    <3>4. QED
      BY <3>2, <3>3
  <2>2. CASE /\ g.table[n].active /\ g'.table[n].pid = g.table[n].pid
             /\ ~From(Head(pipe), g'.table[n].pid)
    <3>1. PICK k \in {g.table[n].pid} : k = g'.table[n].pid
      BY <2>2
    <3>2. ~Alive(Bullet(k)) /\ \A i \in DOMAIN pipe' : ~From(pipe'[i], k)
      BY <1>5, <1>10, <3>1 DEF Haunting
    <3>3. \A i \in DOMAIN pipe : ~From(pipe[i], k)
      BY <1>7, <2>2, <3>1, <3>2
    <3>4. QED
      BY <2>2, <3>1, <3>2, <3>3 DEF Haunting
  <2>3. g'.table[n].active
    BY <1>10 DEF Haunting
  <2>4. QED
    BY <1>4, <2>1, <2>2, <2>3 DEF Follows
<1>11. QED
  BY <1>3, <1>9, <1>10, GhostsDef

(* The other steps of main and the game, the signals and the shell.        *)
LEMMA MainGhosts ==
  ASSUME TypeInv, GhostInv, main.at # "done",
         \/ ForkFrog \/ ForkCroc \/ StartGame \/ GameCheck \/ StopFamily
         \/ Answer \/ Reap \/ Terminate \/ Foreground
  PROVE  GhostInv' /\ ((g.paused => g'.paused) => Ghosts' \subseteq Ghosts)
<1> USE DEF TypeInv
<1>1. term \subseteq Family
  BY DEF GhostInv
<1>2. at \in [Processes -> Places] /\ "table" \in DOMAIN g /\ "paused" \in DOMAIN g
  BY DEF ProcessType, Flights, States
<1>3. CASE ForkFrog \/ ForkCroc
  <2>1. pipe' = pipe /\ term' = term /\ ~Playing'
    BY <1>3 DEF ForkFrog, ForkCroc, pipes, signals, Playing, PauseInv
  <2>2. PICK t \in Family : at' = [at EXCEPT ![t] = "loop"]
    BY <1>3 DEF ForkFrog, ForkCroc, Go, Family
  <2>3. \A k \in BulletIds : at'[Bullet(k)] = at[Bullet(k)]
    BY <1>2, <2>2 DEF Family, Frog, Croc, Bullet, Processes, Bullets
  <2>4. \A k \in BulletIds : Alive(Bullet(k))' <=> Alive(Bullet(k))
    BY <2>3 DEF Alive
  <2>5. QED
    BY <1>1, <2>1, <2>4, StillStep
<1>4. CASE pipe' = pipe /\ term' = term /\ at' = at /\ ~Playing'
  <2>1. \A k \in BulletIds : Alive(Bullet(k))' <=> Alive(Bullet(k))
    BY <1>4 DEF Alive
  <2>2. QED
    BY <1>1, <1>4, <2>1, StillStep
<1>5. CASE StartGame
  <2>1. pipe' = pipe /\ term' = term /\ at' = at /\ Playing'
    BY <1>5 DEF StartGame, pipes, signals, Playing, PauseInv
  <2>2. \A k \in BulletIds : Alive(Bullet(k))' <=> Alive(Bullet(k))
    BY <2>1 DEF Alive
  <2>3. \A n \in SlotIds : ~g'.table[n].active
    <3>1. PICK left \in {{}, SlotIds} :
            g' = Locals(g.vite, [n \in SlotIds |->
                   IF n \in left
                   THEN [g.table[n] EXCEPT !.active = FALSE, !.hit = FALSE, !.pid = 0]
                   ELSE NoBullet])
      BY <1>5 DEF StartGame
    <3>2. \A n \in SlotIds :
            [g.table[n] EXCEPT !.active = FALSE, !.hit = FALSE, !.pid = 0].active = FALSE
      BY DEF ProcessType, States, Entries
    <3>3. NoBullet.active = FALSE
      BY DEF NoBullet
    <3>4. QED
      BY <3>1, <3>2, <3>3 DEF Locals
  <2>4. QED
    BY <1>1, <2>1, <2>2, <2>3, StillStep
<1>6. CASE GameCheck
  <2>1. Playing /\ Playing' /\ g'.table = g.table /\ UNCHANGED <<at, term>>
    BY <1>2, <1>6 DEF GameCheck, Playing, PauseInv, ProcessType, States
  <2>2. pipe' = pipe \/ (pipe' = <<>> /\ g.paused /\ ~g'.paused)
    <3>1. [g EXCEPT !.paused = FALSE].paused = FALSE
      BY <1>2
    <3>2. QED
      BY <1>6, <3>1 DEF GameCheck
  <2>3. \A k \in BulletIds : Alive(Bullet(k))' <=> Alive(Bullet(k))
    BY <2>1 DEF Alive
  <2>4. QED
    BY <1>1, <2>1, <2>2, <2>3, StillStep
<1>7. CASE StopFamily \/ (Foreground /\ Playing)
  <2>1. Playing /\ Playing' /\ g'.table = g.table /\ pipe' = pipe /\ term' = term /\ at' = at
    BY <1>7 DEF StopFamily, Foreground, pipes, Playing, PauseInv
  <2>2. \A k \in BulletIds : Alive(Bullet(k))' <=> Alive(Bullet(k))
    BY <2>1 DEF Alive
  <2>3. QED
    BY <1>1, <2>1, <2>2, StillStep
<1>8. CASE Foreground /\ ~Playing
  BY <1>4, <1>8 DEF Foreground, pipes, Playing
<1>9. CASE Answer
  <2>1. pipe' = pipe /\ at' = at /\ ~Playing' /\ term' \subseteq Family
    BY <1>9 DEF Answer, pipes, Playing, PauseInv
  <2>2. \A k \in BulletIds : Alive(Bullet(k))' <=> Alive(Bullet(k))
    BY <2>1 DEF Alive
  <2>3. QED
    BY <2>1, <2>2, StillStep
<1>10. CASE Reap /\ Again
  <2>1. pipe' = <<>> /\ UNCHANGED term
    BY <1>10 DEF Reap, Again, signals
  <2>2. ~Playing /\ main'.at \in {"fork", "done"}
    BY <1>10 DEF Reap, Playing, PauseInv, Ended
  <2>3. ~Playing' /\ main'.at # "done" => GhostInv'
    BY <1>1, <2>1 DEF GhostInv
  <2>4. QED
    BY <2>2, <2>3, NoneDone DEF Playing, Ghosts
<1>11. CASE main'.at = "done"
  BY <1>11, NoneDone
<1>12. QED
  <2>1. Reap => Again \/ main'.at = "done"
    BY DEF Reap, Ended, PauseInv
  <2>2. Terminate => main'.at = "done"
    BY DEF Terminate, Ended, PauseInv
  <2>3. QED
    BY <1>3, <1>5, <1>6, <1>7, <1>8, <1>9, <1>10, <1>11, <2>1, <2>2

LEMMA GhostStep ==
  ASSUME TypeInv, GhostInv, [Next]_vars
  PROVE  GhostInv' /\ ((g.paused => g'.paused) => Ghosts' \subseteq Ghosts)
<1>1. CASE main.at = "done"
  <2>1. main'.at = "done"
    BY <1>1 DEF Next, MainStep, ForkFrog, ForkCroc, StartGame, GameCheck, StopFamily,
         GameRead, Reap, Answer, FrogStep, FrogRound, FrogWrite, FrogPause, CrocStep,
         CrocRound, CrocWrite, BulletStep, BulletRound, OldBulletEnds, Dies, Die,
         BrokenPipe, Terminate, Foreground, Finished, vars
  <2>2. QED
    BY <2>1, NoneDone
<1>2. CASE main.at # "done"
  <2>1. CASE UNCHANGED vars
    <3>1. UNCHANGED <<g, main, pipe, term, at>>
      BY <2>1 DEF vars, pipes, signals
    <3>2. GhostInv' /\ Ghosts' = Ghosts
      BY <3>1 DEF GhostInv, Playing, Alive, Ghosts
    <3>3. QED
      BY <3>2
  <2>2. CASE GameRead
    BY <2>2, ReadGhosts
  <2>3. QED
    BY <1>2, <2>1, <2>2, FamilyStep, BulletGhosts, DieGhosts, MainGhosts
    DEF Next, MainStep, Finished
<1>3. QED
  BY <1>1, <1>2

(* A slot in use whose process has ended is given back by what that        *)
(* process wrote last (projectiles.c 19-25, game.c 280-290).  Nothing but  *)
(* the resume, which drops what the pipe holds (game.c 170), leaves a slot *)
(* that nobody gives back, for any number of bullets, slots and places in  *)
(* the pipe.                                                               *)
THEOREM GhostsFromResume == Spec => GhostsByResumeOnly
<1>1. Init => GhostInv
  BY DEF Init, GhostInv, Playing
<1>2. TypeInv /\ GhostInv /\ [Next]_vars => GhostInv'
  BY GhostStep
<1>3. TypeInv /\ GhostInv /\ [Next]_vars
        => [(g.paused => g'.paused) => Ghosts' \subseteq Ghosts]_vars
  BY GhostStep
<1>4. QED
  BY <1>1, <1>2, <1>3, TypeInvariance, PTL DEF Spec, GhostsByResumeOnly
=============================================================================
