--------------------------- MODULE ThreadTypeProofs --------------------------
(***************************************************************************)
(* Type correctness of ThreadGame, for any constants that meet its         *)
(* assumptions.  Messages are what makes it more than bookkeeping: what a  *)
(* thread wrote when it had the mutex of an object is applied later, by    *)
(* another thread, to whatever is there then; so what is on its way has to *)
(* be typed like what it will become.                                      *)
(***************************************************************************)
EXTENDS ThreadGameProofs

Frogs == [x : Int, y : 0..StartRow]
Crocs(i) == [x : 0..Width, w : 1..orig[i]]
Cells == [x : Int, y : 0..StartRow, active : BOOLEAN, collision : BOOLEAN]
Slots == [pos : Cells, dir : {-1, 1}, enemy : BOOLEAN, thread : 0..NumBulletThreads]

(* The slots that have had a bullet: only they are shot at or written about. *)
Used == {s \in SlotIds : slots[s].thread # 0}

Messages ==
  {FrogMsg(f) : f \in Frogs}
    \cup {e \in {CrocMsg(i, c) : i \in CrocIds, c \in [x : 0..Width, w : Nat]} :
            e.pos \in Crocs(e.id)}
    \cup {BulletMsg(s, q) : s \in Used, q \in Cells}

WorldTypes ==
  /\ frog \in Frogs
  /\ on \in 0..NumCrocs
  /\ DOMAIN orig = CrocIds /\ \A i \in CrocIds : orig[i] \in CrocWidths
  /\ DOMAIN croc = CrocIds /\ \A i \in CrocIds : croc[i] \in Crocs(i)
  /\ tane \subseteq Dens /\ g.den \subseteq Dens

SlotTypes ==
  /\ slots \in [SlotIds -> Slots]
  /\ \A s \in SlotIds : slots[s].pos.active => s \in Used

MailTypes ==
  /\ queue \in Seq(Messages) /\ Len(queue) <= Capacity
  /\ g.out \in Seq(Messages)

BulletTypes ==
  /\ b \in [BulletIds -> [slot : 0..NumSlots, out : Cells]]
  /\ \A k \in BulletIds : pc[Bullet(k)] # "none" => b[k].slot \in Used

(* What the local variables of the game loop mean at l.                    *)
Ready(l) ==
  /\ l \in {"scan", "attach"} => g.i \in CrocIds
  /\ l \in {"takeDen", "noDen", "won", "over", "bullets", "drawCroc"} => g.i \in Nat \ {0}
  /\ l \in {"copyBullet", "hit", "hurt", "pairs", "crash", "kill", "killMsgs", "killPut"} =>
       g.i \in Used
  /\ l \in {"hit", "hurt", "pairs"} => g.j \in Nat \ {0}
  /\ l \in {"crash", "kill", "killMsgs"} => g.j \in Used
  /\ l \in MsgTypes => g.out # <<>> /\ Head(g.out).type = l

LoopTypes ==
  /\ Ready(pc[Game])
  /\ pc[Game] \in Resetting => Ready(g.ret)

Typed ==
  /\ WorldTypes
  /\ SlotTypes
  /\ MailTypes
  /\ BulletTypes
  /\ LoopTypes

TypeInv == HoldInv /\ MailInv /\ Typed

LEMMA Sizes ==
  /\ Width \in Int /\ Width > 1 /\ FrogW \in Int /\ HStep \in Int
  /\ Lanes \in Nat /\ NumCrocs \in Nat /\ NumSlots \in Nat /\ NumBulletThreads \in Nat
  /\ Capacity \in Nat /\ StartRow \in Nat
  BY ScreenAssumption, CountAssumption DEF StartRow

LEMMA ThreeKinds ==
  ASSUME NEW e
  PROVE  e \in Messages <=>
           \/ \E f \in Frogs : e = FrogMsg(f)
           \/ \E i \in CrocIds : \E c \in Crocs(i) : e = CrocMsg(i, c)
           \/ \E s \in Used, q \in Cells : e = BulletMsg(s, q)
<1>1. \A i : Crocs(i) \subseteq [x : 0..Width, w : Nat]
  BY DEF Crocs
<1>2. \A i, c : CrocMsg(i, c).id = i /\ CrocMsg(i, c).pos = c
  BY DEF CrocMsg
<1>3. QED
  BY <1>1, <1>2 DEF Messages

LEMMA ThreeKindsNext ==
  ASSUME NEW e
  PROVE  e \in Messages' <=>
           \/ \E f \in Frogs : e = FrogMsg(f)
           \/ \E i \in CrocIds : \E c \in Crocs(i)' : e = CrocMsg(i, c)
           \/ \E s \in Used', q \in Cells : e = BulletMsg(s, q)
<1>1. \A i : Crocs(i)' \subseteq [x : 0..Width, w : Nat]
  BY DEF Crocs
<1>2. \A i, c : CrocMsg(i, c).id = i /\ CrocMsg(i, c).pos = c
  BY DEF CrocMsg
<1>3. QED
  BY <1>1, <1>2 DEF Messages

(* A message is about something that is there, and brings what fits it.    *)
LEMMA MessageKinds ==
  ASSUME NEW e \in Messages
  PROVE  /\ e.type \in MsgTypes
         /\ e.type = "MSG_PLAYER" => e.pos \in Frogs
         /\ e.type = "MSG_CROCODILE" => e.id \in CrocIds /\ e.pos \in Crocs(e.id)
         /\ e.type = "MSG_BULLET" => e.id \in Used /\ e.pos \in Cells
<1>1. CASE \E f \in Frogs : e = FrogMsg(f)
  BY <1>1 DEF FrogMsg, MsgTypes
<1>2. CASE \E i \in CrocIds : \E c \in Crocs(i) : e = CrocMsg(i, c)
  BY <1>2 DEF CrocMsg, MsgTypes
<1>3. CASE \E s \in Used, q \in Cells : e = BulletMsg(s, q)
  BY <1>3 DEF BulletMsg, MsgTypes
<1>4. QED
  BY <1>1, <1>2, <1>3, ThreeKinds

(* No message loses its sense: the slots that have had a bullet only       *)
(* become more, and a crocodile keeps its original width.                  *)
LEMMA MessagesKeep ==
  ASSUME UNCHANGED orig, Used \subseteq Used'
  PROVE  Messages \subseteq Messages'
<1> SUFFICES ASSUME NEW e \in Messages PROVE e \in Messages'
  OBVIOUS
<1>1. \A i \in CrocIds : Crocs(i)' = Crocs(i)
  BY DEF Crocs
<1>2. QED
  BY <1>1, ThreeKinds, ThreeKindsNext

LEMMA LettersKeep ==
  ASSUME UNCHANGED orig, Used \subseteq Used', NEW s \in Seq(Messages)
  PROVE  s \in Seq(Messages')
<1> DEFINE A == Messages
           B == Messages'
<1>1. A \subseteq B
  BY MessagesKeep
<1>2. s \in Seq(A)
  OBVIOUS
<1> HIDE DEF A, B
<1>3. s \in Seq(B)
  BY <1>1, <1>2
<1>4. QED
  BY <1>3 DEF B

LEMMA SlotWritten ==
  ASSUME SlotTypes, NEW s \in SlotIds, NEW q \in Cells, q.active => s \in Used,
         slots' = [slots EXCEPT ![s].pos = q]
  PROVE  SlotTypes' /\ Used' = Used
<1>1. slots' \in [SlotIds -> Slots]
  BY DEF SlotTypes, Slots
<1>2. \A t \in SlotIds :
        slots'[t].thread = slots[t].thread
        /\ slots'[t].pos = IF t = s THEN q ELSE slots[t].pos
  BY DEF SlotTypes, Slots
<1>3. Used' = Used
  BY <1>2 DEF Used
<1>4. QED
  BY <1>1, <1>2, <1>3 DEF SlotTypes

LEMMA SlotCell ==
  ASSUME SlotTypes, NEW s \in SlotIds
  PROVE  /\ slots[s].pos \in Cells /\ slots[s].dir \in {-1, 1}
         /\ slots[s].pos.active => s \in Used
         /\ [slots[s].pos EXCEPT !.active = FALSE] \in Cells
         /\ [slots[s].pos EXCEPT !.active = FALSE].active = FALSE
  BY DEF SlotTypes, Slots, Cells

LEMMA UsedSlots == Used \subseteq SlotIds
  BY DEF Used

LEMMA SlotsUnchanged ==
  ASSUME SlotTypes, UNCHANGED slots
  PROVE  SlotTypes' /\ Used' = Used
  BY DEF SlotTypes, Used

(* create_bullet starts an unused thread on an inactive slot.              *)
LEMMA CreateTypes ==
  ASSUME SlotTypes, BulletTypes, DOMAIN pc = Threads, NEW q \in Cells, NEW dir \in {-1, 1},
         NEW enemy \in BOOLEAN, NEW next, DOMAIN next = Threads,
         \A k \in BulletIds : next[Bullet(k)] = pc[Bullet(k)],
         CreateBullet(q, dir, enemy, next)
  PROVE  SlotTypes' /\ BulletTypes' /\ Used \subseteq Used'
<1>1. CASE pc' = next /\ UNCHANGED <<slots, b>>
  BY <1>1, SlotsUnchanged DEF BulletTypes
<1>2. CASE FreeSlots # {} /\ IdleThreads # {}
  <2> DEFINE s == First(FreeSlots)
             k == First(IdleThreads)
  <2>1. /\ slots' = [slots EXCEPT ![s] = [pos |-> [q EXCEPT !.active = TRUE], dir |-> dir,
                                          enemy |-> enemy, thread |-> k]]
        /\ b' = [b EXCEPT ![k].slot = s]
        /\ pc' = [next EXCEPT ![Bullet(k)] = "loop"]
    BY <1>2 DEF CreateBullet
  <2>2. s \in SlotIds /\ k \in BulletIds
    <3>1. FreeSlots \in SUBSET Nat /\ IdleThreads \in SUBSET Nat
      BY DEF FreeSlots, SlotIds, IdleThreads, BulletIds
    <3>2. QED
      BY <1>2, <3>1, LeastExists DEF First, FreeSlots, IdleThreads
  <2> HIDE DEF s, k
  <2>3. [q EXCEPT !.active = TRUE] \in Cells
    BY DEF Cells
  <2>4. k \in 0..NumBulletThreads /\ k # 0
    BY <2>2, Sizes DEF BulletIds
  <2>5. slots' \in [SlotIds -> Slots]
    BY <2>1, <2>2, <2>3, <2>4 DEF SlotTypes, Slots
  <2>6. \A t \in SlotIds : IF t = s THEN slots'[t].thread = k ELSE slots'[t] = slots[t]
    BY <2>1, <2>2 DEF SlotTypes
  <2>7. Used' = Used \cup {s}
    BY <2>2, <2>4, <2>6 DEF Used
  <2>8. SlotTypes'
    BY <2>5, <2>6, <2>7 DEF SlotTypes
  <2>9. b' \in [BulletIds -> [slot : 0..NumSlots, out : Cells]]
    BY <2>1, <2>2, Sizes DEF BulletTypes, SlotIds
  <2>10. ASSUME NEW n \in BulletIds, pc'[Bullet(n)] # "none"
         PROVE  b'[n].slot \in Used'
    <3>1. CASE n = k
      BY <2>1, <2>2, <2>7, <3>1 DEF BulletTypes
    <3>2. CASE n # k
      <4>1. Bullet(n) # Bullet(k) /\ Bullet(n) \in Threads
        BY <3>2, ThreadNames DEF Bullet
      <4>2. pc[Bullet(n)] # "none" /\ b'[n] = b[n]
        BY <2>1, <2>2, <2>10, <3>2, <4>1 DEF BulletTypes
      <4>3. QED
        BY <2>7, <4>2 DEF BulletTypes
    <3>3. QED
      BY <3>1, <3>2
  <2>11. QED
    BY <2>7, <2>8, <2>9, <2>10 DEF BulletTypes
<1>3. QED
  BY <1>1, <1>2 DEF CreateBullet

-----------------------------------------------------------------------------
(* The game loop                                                           *)

LEMMA HeadMessage ==
  ASSUME NEW s \in Seq(Messages), s # <<>>
  PROVE  Head(s) \in Messages /\ Tail(s) \in Seq(Messages) /\ <<Head(s)>> \in Seq(Messages)
<1> DEFINE A == Messages
<1> HIDE DEF A
<1>1. s \in Seq(A)
  BY DEF A
<1>2. Head(s) \in A /\ Tail(s) \in Seq(A) /\ <<Head(s)>> \in Seq(A)
  BY <1>1
<1>3. QED
  BY <1>2 DEF A

(* The message the game loop applies is the one its label says.            *)
LEMMA Applying ==
  ASSUME TypeInv, pc[Game] \in MsgTypes
  PROVE  Msg \in Messages /\ Msg.type = pc[Game]
  BY HeadMessage DEF TypeInv, Typed, LoopTypes, Ready, MailTypes, Msg

(* What is written to a slot belongs to one that has had a bullet.         *)
LEMMA GameSlots ==
  ASSUME TypeInv, GameStep
  PROVE  SlotTypes' /\ Used' = Used
<1>1. SlotTypes /\ Ready(pc[Game])
  BY DEF TypeInv, Typed, LoopTypes
<1>2. CASE Hurt
  <2>1. g.i \in Used /\ g.i \in SlotIds
    BY <1>1, <1>2, UsedSlots DEF Hurt, At, Ready
  <2> DEFINE q == [slots[g.i].pos EXCEPT !.collision = TRUE]
  <2>2. q \in Cells
    BY <1>1, <2>1, SlotCell DEF Cells
  <2>3. slots' = [slots EXCEPT ![g.i].pos = q]
    BY <1>2 DEF Hurt
  <2> HIDE DEF q
  <2>4. QED
    BY <1>1, <2>1, <2>2, <2>3, SlotWritten
<1>3. CASE KillBoth
  <2>1. {g.i, g.j} \subseteq Used /\ {g.i, g.j} \subseteq SlotIds
    BY <1>1, <1>3, UsedSlots DEF KillBoth, At, Ready
  <2>2. \A q \in Cells : Dead(q) \in Cells
    BY DEF Dead, Cells
  <2>3. slots' = [slots EXCEPT ![g.i].pos = Dead(@), ![g.j].pos = Dead(@)]
    BY <1>3 DEF KillBoth
  <2>4. slots' \in [SlotIds -> Slots] /\ \A s \in SlotIds : slots'[s].thread = slots[s].thread
    BY <1>1, <2>1, <2>2, <2>3 DEF SlotTypes, Slots
  <2>5. Used' = Used
    BY <2>4 DEF Used
  <2>6. \A s \in SlotIds : s \notin {g.i, g.j} => slots'[s].pos = slots[s].pos
    BY <1>1, <2>1, <2>3 DEF SlotTypes
  <2>7. QED
    BY <1>1, <2>1, <2>4, <2>5, <2>6 DEF SlotTypes
<1>4. CASE ApplyBullet
  <2>1. Msg.id \in Used /\ Msg.pos \in Cells
    BY <1>4, Applying, MessageKinds DEF ApplyBullet, At, MsgTypes
  <2>2. slots' = [slots EXCEPT ![Msg.id].pos = Msg.pos]
    BY <1>4 DEF ApplyBullet
  <2>3. QED
    BY <1>1, <2>1, <2>2, SlotWritten, UsedSlots
<1>5. CASE ~(Hurt \/ KillBoth \/ ApplyBullet)
  <2>1. UNCHANGED slots
    BY <1>5 DEF GameStep, FrameStart, GameEnds, Tick, ResetFlags, ResetFrog, ResetPut,
       ResetTime, Look, Ride, Scan, Attach, Boarded, Water, Drown, Den, TakeDen, NoDen, Won,
       GameOver, BulletsDone, TestBullet, CopyBullet, Hit, Pairs, Crash, KillMsgs, KillPut,
       TakeMessage, ApplyFrog, ApplyCroc, Aboard, Carry, DrawFrame, world
  <2>2. QED
    BY <1>1, <2>1, SlotsUnchanged
<1>6. QED
  BY <1>2, <1>3, <1>4, <1>5

LEMMA GameOrig ==
  ASSUME GameStep
  PROVE  UNCHANGED orig
  BY DEF GameStep, FrameStart, GameEnds, Tick, ResetFlags, ResetFrog, ResetPut,
     ResetTime, Look, Ride, Scan, Attach, Boarded, Water, Drown, Den, TakeDen, NoDen, Won,
     GameOver, BulletsDone, TestBullet, CopyBullet, Hit, Hurt, Pairs, Crash, KillBoth,
     KillMsgs, KillPut, TakeMessage, ApplyFrog, ApplyCroc, Aboard, Carry, ApplyBullet,
     DrawFrame

LEMMA Moves == \A i : Dir(i) \in {-1, 1}
  BY DEF Dir

LEMMA StartTyped == Start \in Frogs
<1>1. Width \div 2 \in Int
  BY Sizes
<1>2. QED
  BY <1>1, Sizes DEF Start, Frogs

LEMMA FrogSteps == \A f \in Frogs : \A d \in Int : [f EXCEPT !.x = @ + d] \in Frogs
  BY DEF Frogs

(* Frog, crocodiles and dens.                                              *)
LEMMA GameWorld ==
  ASSUME TypeInv, GameStep
  PROVE  WorldTypes'
<1>1. WorldTypes /\ Ready(pc[Game]) /\ DOMAIN g = Fields
  BY DEF TypeInv, Typed, LoopTypes, MailInv
<1>2. UNCHANGED orig
  BY GameOrig
<1>3. frog' \in Frogs
  <2>1. CASE ResetFrog
    BY <2>1, StartTyped DEF ResetFrog
  <2>2. CASE ApplyFrog
    <3>1. Msg.pos \in Frogs
      BY <2>2, Applying, MessageKinds DEF ApplyFrog, At, MsgTypes
    <3>2. QED
      BY <2>2, <3>1 DEF ApplyFrog
  <2>3. CASE Carry
    <3>1. frog \in Frogs /\ Dir(Msg.id) \in Int
      BY <1>1, Moves DEF WorldTypes
    <3>2. frog' = [frog EXCEPT !.x = @ + Dir(Msg.id)]
      BY <2>3 DEF Carry
    <3>3. QED
      BY <3>1, <3>2, FrogSteps
  <2>4. CASE ~(ResetFrog \/ ApplyFrog \/ Carry)
    <3>1. UNCHANGED frog
      BY <2>4 DEF GameStep, FrameStart, GameEnds, Tick, ResetFlags, ResetPut, ResetTime,
         Look, Ride, Scan, Attach, Boarded, Water, Drown, Den, TakeDen, NoDen, Won,
         GameOver, BulletsDone, TestBullet, CopyBullet, Hit, Hurt, Pairs, Crash, KillBoth,
         KillMsgs, KillPut, TakeMessage, ApplyCroc, Aboard, ApplyBullet, DrawFrame, world
    <3>2. QED
      BY <1>1, <3>1 DEF WorldTypes
  <2>5. QED
    BY <2>1, <2>2, <2>3, <2>4
<1>4. on' \in 0..NumCrocs
  <2>1. CASE ResetFlags
    BY <2>1, Sizes DEF ResetFlags
  <2>2. CASE Attach
    BY <1>1, <2>2, Sizes DEF Attach, At, Ready, CrocIds
  <2>3. CASE ~(ResetFlags \/ Attach)
    <3>1. UNCHANGED on
      BY <2>3 DEF GameStep, FrameStart, GameEnds, Tick, ResetFrog, ResetPut, ResetTime,
         Look, Ride, Scan, Boarded, Water, Drown, Den, TakeDen, NoDen, Won,
         GameOver, BulletsDone, TestBullet, CopyBullet, Hit, Hurt, Pairs, Crash, KillBoth,
         KillMsgs, KillPut, TakeMessage, ApplyFrog, ApplyCroc, Aboard, Carry, ApplyBullet,
         DrawFrame, world
    <3>2. QED
      BY <1>1, <3>1 DEF WorldTypes
  <2>4. QED
    BY <2>1, <2>2, <2>3
<1>5. DOMAIN croc' = CrocIds /\ \A i \in CrocIds : croc'[i] \in Crocs(i)'
  <2>1. \A i \in CrocIds : Crocs(i)' = Crocs(i)
    BY <1>2 DEF Crocs
  <2>2. CASE ApplyCroc
    <3>1. Msg.id \in CrocIds /\ Msg.pos \in Crocs(Msg.id)
      BY <2>2, Applying, MessageKinds DEF ApplyCroc, At, MsgTypes
    <3>2. QED
      BY <1>1, <2>1, <2>2, <3>1 DEF ApplyCroc, WorldTypes
  <2>3. CASE ~ApplyCroc
    <3>1. UNCHANGED croc
      BY <2>3 DEF GameStep, FrameStart, GameEnds, Tick, ResetFlags, ResetFrog, ResetPut,
         ResetTime, Look, Ride, Scan, Attach, Boarded, Water, Drown, Den, TakeDen, NoDen,
         Won, GameOver, BulletsDone, TestBullet, CopyBullet, Hit, Hurt, Pairs, Crash,
         KillBoth, KillMsgs, KillPut, TakeMessage, ApplyFrog, Aboard, Carry, ApplyBullet,
         DrawFrame, world
    <3>2. QED
      BY <1>1, <2>1, <3>1 DEF WorldTypes
  <2>4. QED
    BY <2>2, <2>3
<1>6. tane' \subseteq Dens /\ g'.den \subseteq Dens
  <2>1. CASE Den
    <3>1. g' = [g EXCEPT !.i = 1, !.den = FreeDen(frog)] /\ UNCHANGED tane
      BY <2>1 DEF Den, status
    <3>2. FreeDen(frog) \subseteq Dens
      BY DEF FreeDen, DenAt
    <3>3. QED
      BY <1>1, <3>1, <3>2 DEF WorldTypes, Fields
  <2>2. CASE TakeDen
    <3> DEFINE l == IF tane' = Dens THEN "" ELSE "bullets"
    <3>1. tane' = tane \cup g.den /\ g' = [g EXCEPT !.den = {}, !.ret = l]
      BY <2>2 DEF TakeDen
    <3> HIDE DEF l
    <3>2. QED
      BY <1>1, <3>1 DEF WorldTypes, Fields
  <2>3. CASE ~(Den \/ TakeDen)
    <3>1. UNCHANGED tane
      BY <2>3 DEF GameStep, FrameStart, GameEnds, Tick, ResetFlags, ResetFrog, ResetPut,
         ResetTime, Look, Ride, Scan, Attach, Boarded, Water, Drown, NoDen, Won, GameOver,
         BulletsDone, TestBullet, CopyBullet, Hit, Hurt, Pairs, Crash, KillBoth, KillMsgs,
         KillPut, TakeMessage, ApplyFrog, ApplyCroc, Aboard, Carry, ApplyBullet, DrawFrame,
         status
    <3>2. \/ UNCHANGED g
          \/ \E v, w, u : \/ g' = [g EXCEPT !.ret = v]
                          \/ g' = [g EXCEPT !.copy = v]
                          \/ g' = [g EXCEPT !.i = v]
                          \/ g' = [g EXCEPT !.j = v]
                          \/ g' = [g EXCEPT !.out = v]
                          \/ g' = [g EXCEPT !.bul = v, !.j = w]
                          \/ g' = [g EXCEPT !.i = v, !.j = w, !.bul = u]
      <4>1. CASE FrameStart \/ GameEnds \/ ResetFlags \/ ResetFrog \/ ResetPut \/ Boarded
                   \/ Won \/ GameOver \/ Hit \/ Crash \/ KillBoth
        BY <4>1 DEF FrameStart, GameEnds, ResetFlags, ResetFrog, ResetPut, Boarded, Won,
           GameOver, Hit, Crash, KillBoth, locals
      <4>2. CASE Tick \/ Drown \/ NoDen \/ Hurt
        BY <4>2 DEF Tick, Drown, NoDen, Hurt, LoseLife, CallReset
      <4>3. CASE ResetTime \/ Look \/ Ride \/ Scan \/ Attach \/ Water
        BY <4>3 DEF ResetTime, Look, Ride, Scan, Attach, Water
      <4>4. CASE BulletsDone \/ TestBullet \/ CopyBullet \/ Pairs \/ DrawFrame
        BY <4>4 DEF BulletsDone, TestBullet, CopyBullet, Pairs, DrawFrame, NextBullet
      <4>5. CASE KillMsgs \/ KillPut \/ TakeMessage
        BY <4>5 DEF KillMsgs, KillPut, TakeMessage, NextBullet
      <4>6. CASE ApplyFrog \/ ApplyCroc \/ Aboard \/ Carry \/ ApplyBullet
        BY <4>6, Zenon DEF ApplyFrog, ApplyCroc, Aboard, Carry, ApplyBullet, Applied
      <4>7. QED
        BY <2>3, <4>1, <4>2, <4>3, <4>4, <4>5, <4>6 DEF GameStep
    <3>3. g'.den = g.den
      BY <1>1, <3>2 DEF Fields
    <3>4. QED
      BY <1>1, <3>1, <3>3 DEF WorldTypes
  <2>4. QED
    BY <2>1, <2>2, <2>3
<1>7. QED
  BY <1>1, <1>2, <1>3, <1>4, <1>5, <1>6 DEF WorldTypes

LEMMA BulletWord ==
  ASSUME NEW s \in Used, NEW q \in Cells
  PROVE  BulletMsg(s, q) \in Messages
  BY ThreeKinds

(* A message that is put into the buffer finds room there.                 *)
LEMMA PutTypes ==
  ASSUME MailTypes, UNCHANGED orig, Used \subseteq Used', NEW e \in Messages, Put(e)
  PROVE  queue' \in Seq(Messages') /\ Len(queue') <= Capacity
<1> DEFINE A == Messages
<1>1. queue \in Seq(A) /\ Len(queue) < Capacity /\ queue' = Append(queue, e) /\ e \in A
  BY DEF MailTypes, Put, Room
<1> HIDE DEF A
<1>2. queue' \in Seq(A) /\ Len(queue') = Len(queue) + 1 /\ Len(queue) \in Nat
  BY <1>1
<1>3. Len(queue') <= Capacity
  BY <1>1, <1>2, Sizes
<1>4. queue' \in Seq(Messages)
  BY <1>2 DEF A
<1>5. QED
  BY <1>3, <1>4, LettersKeep

LEMMA QueueRests ==
  ASSUME MailTypes, UNCHANGED <<orig, queue>>, Used \subseteq Used'
  PROVE  queue' \in Seq(Messages') /\ Len(queue') <= Capacity
<1>1. queue \in Seq(Messages)
  BY DEF MailTypes
<1>2. queue \in Seq(Messages')
  BY <1>1, LettersKeep
<1>3. QED
  BY <1>2 DEF MailTypes

LEMMA GameQueue ==
  ASSUME TypeInv, GameStep
  PROVE  queue' \in Seq(Messages') /\ Len(queue') <= Capacity
<1>1. MailTypes /\ UNCHANGED orig /\ Used \subseteq Used'
  BY GameOrig, GameSlots DEF TypeInv, Typed
<1>2. CASE ResetPut
  <2>1. FrogMsg(Start) \in Messages
    BY StartTyped, ThreeKinds
  <2>2. QED
    BY <1>1, <1>2, <2>1, PutTypes DEF ResetPut
<1>3. CASE KillPut /\ g.out # <<>>
  <2>1. Head(g.out) \in Messages
    BY <1>1, <1>3, HeadMessage DEF MailTypes
  <2>2. QED
    BY <1>1, <1>3, <2>1, PutTypes DEF KillPut
<1>4. CASE TakeMessage /\ queue # <<>>
  <2>1. queue' = Tail(queue) /\ queue \in Seq(Messages) /\ Len(queue) <= Capacity
    BY <1>1, <1>4 DEF TakeMessage, MailTypes
  <2>2. queue' \in Seq(Messages)
    BY <1>4, <2>1, HeadMessage
  <2>3. Len(queue') <= Capacity
    <3> DEFINE A == Messages
    <3>1. queue \in Seq(A)
      BY <2>1
    <3> HIDE DEF A
    <3>2. Len(queue') = Len(queue) - 1 /\ Len(queue) \in Nat
      BY <1>4, <2>1, <3>1
    <3>3. QED
      BY <2>1, <3>2, Sizes
  <2>4. QED
    BY <1>1, <2>2, <2>3, LettersKeep
<1>5. CASE ~(ResetPut \/ (KillPut /\ g.out # <<>>) \/ (TakeMessage /\ queue # <<>>))
  <2>1. UNCHANGED queue
    BY <1>5
    DEF GameStep, FrameStart, GameEnds, Tick, ResetFlags, ResetFrog, ResetTime, Look,
        Ride, Scan, Attach, Boarded, Water, Drown, Den, TakeDen, NoDen, Won, GameOver,
        BulletsDone, TestBullet, CopyBullet, Hit, Hurt, Pairs, Crash, KillBoth,
        KillMsgs, KillPut, TakeMessage, ApplyFrog, ApplyCroc, Aboard, Carry, ApplyBullet,
        DrawFrame
  <2>2. QED
    BY <1>1, <2>1, QueueRests
<1>6. QED
  BY <1>2, <1>3, <1>4, <1>5

LEMMA GameOut ==
  ASSUME TypeInv, GameStep
  PROVE  g'.out \in Seq(Messages)
<1>1. MailTypes /\ Ready(pc[Game]) /\ SlotTypes /\ DOMAIN g = Fields
  BY DEF TypeInv, Typed, MailInv, LoopTypes
<1>2. CASE KillMsgs
  <2>1. /\ g.i \in Used /\ g.j \in Used
    BY <1>1, <1>2 DEF KillMsgs, At, Ready
  <2>2. Dead(Slot(g.i)) \in Cells /\ Dead(Slot(g.j)) \in Cells
    BY <1>1, <2>1, SlotCell, UsedSlots DEF Dead, Slot, Cells
  <2> DEFINE e == BulletMsg(g.i, Dead(Slot(g.i)))
             f == BulletMsg(g.j, Dead(Slot(g.j)))
             A == Messages
  <2>3. e \in A /\ f \in A
    BY <2>1, <2>2, BulletWord
  <2>4. g' = [g EXCEPT !.out = <<e, f>>]
    BY <1>2 DEF KillMsgs
  <2> HIDE DEF e, f, A
  <2>5. g'.out = <<e, f>> /\ <<e, f>> \in Seq(A)
    BY <1>1, <2>3, <2>4 DEF Fields
  <2>6. QED
    BY <2>5 DEF A
<1>3. CASE KillPut /\ g.out # <<>>
  <2>1. g'.out = Tail(g.out)
    BY <1>1, <1>3 DEF KillPut, Fields
  <2>2. QED
    BY <1>1, <1>3, <2>1, HeadMessage DEF MailTypes
<1>4. CASE TakeMessage /\ queue # <<>>
  <2>1. g'.out = <<Head(queue)>>
    BY <1>1, <1>4 DEF TakeMessage, Fields
  <2>2. QED
    BY <1>1, <1>4, <2>1, HeadMessage DEF MailTypes
<1>5. CASE ApplyFrog \/ ApplyCroc \/ Aboard \/ Carry \/ ApplyBullet
  <2>1. \E l : g' = [g EXCEPT !.out = IF l = "messages" THEN <<>> ELSE @]
    BY <1>5, Zenon DEF ApplyFrog, ApplyCroc, Aboard, Carry, ApplyBullet, Applied
  <2>2. g'.out \in {<<>>, g.out}
    BY <1>1, <2>1 DEF Fields
  <2>3. <<>> \in Seq(Messages)
    OBVIOUS
  <2>4. QED
    BY <1>1, <2>2, <2>3 DEF MailTypes
<1>6. ASSUME ~(KillMsgs \/ (KillPut /\ g.out # <<>>) \/ (TakeMessage /\ queue # <<>>)),
             ~(ApplyFrog \/ ApplyCroc \/ Aboard \/ Carry \/ ApplyBullet)
      PROVE  g'.out = g.out
  <2>1. \/ UNCHANGED g
        \/ \E v, w, u : \/ g' = [g EXCEPT !.ret = v]
                        \/ g' = [g EXCEPT !.copy = v]
                        \/ g' = [g EXCEPT !.i = v]
                        \/ g' = [g EXCEPT !.j = v]
                        \/ g' = [g EXCEPT !.i = v, !.den = w]
                        \/ g' = [g EXCEPT !.den = v, !.ret = w]
                        \/ g' = [g EXCEPT !.bul = v, !.j = w]
                        \/ g' = [g EXCEPT !.i = v, !.j = w, !.bul = u]
    <3>1. CASE FrameStart \/ GameEnds \/ ResetFlags \/ ResetFrog \/ ResetPut \/ Boarded
                 \/ Won \/ GameOver \/ Hit \/ Crash \/ KillBoth
      BY <3>1 DEF FrameStart, GameEnds, ResetFlags, ResetFrog, ResetPut, Boarded, Won,
         GameOver, Hit, Crash, KillBoth, locals
    <3>2. CASE Tick \/ Drown \/ NoDen \/ Hurt
      BY <3>2 DEF Tick, Drown, NoDen, Hurt, LoseLife, CallReset
    <3>3. CASE ResetTime \/ Look \/ Ride \/ Scan \/ Attach \/ Water \/ Den \/ TakeDen
      BY <3>3 DEF ResetTime, Look, Ride, Scan, Attach, Water, Den, TakeDen
    <3>4. CASE BulletsDone \/ TestBullet \/ CopyBullet \/ Pairs \/ DrawFrame
      BY <3>4 DEF BulletsDone, TestBullet, CopyBullet, Pairs, DrawFrame, NextBullet
    <3>5. CASE KillPut \/ TakeMessage
      BY <1>6, <3>5 DEF KillPut, TakeMessage, NextBullet
    <3>6. QED
      BY <1>6, <3>1, <3>2, <3>3, <3>4, <3>5 DEF GameStep
  <2>2. QED
    BY <1>1, <2>1 DEF Fields
<1>7. QED
  BY <1>1, <1>2, <1>3, <1>4, <1>5, <1>6 DEF MailTypes

LEMMA GameMailTypes ==
  ASSUME TypeInv, GameStep
  PROVE  MailTypes'
<1>1. g'.out \in Seq(Messages) /\ UNCHANGED orig /\ Used \subseteq Used'
  BY GameOrig, GameSlots, GameOut
<1>2. g'.out \in Seq(Messages')
  BY <1>1, LettersKeep
<1>3. QED
  BY <1>2, GameQueue DEF MailTypes

LEMMA GameBullets ==
  ASSUME TypeInv, GameStep
  PROVE  BulletTypes'
<1>1. DOMAIN pc = Threads /\ BulletTypes /\ Used' = Used
  BY GameSlots DEF TypeInv, HoldInv, Typed
<1>2. \A k \in BulletIds : pc'[Bullet(k)] = pc[Bullet(k)]
  BY <1>1, GameMovesItself, ThreadNames
<1>3. UNCHANGED b
  BY DEF GameStep, FrameStart, GameEnds, Tick, ResetFlags, ResetFrog, ResetPut,
     ResetTime, Look, Ride, Scan, Attach, Boarded, Water, Drown, Den, TakeDen, NoDen, Won,
     GameOver, BulletsDone, TestBullet, CopyBullet, Hit, Hurt, Pairs, Crash, KillBoth,
     KillMsgs, KillPut, TakeMessage, ApplyFrog, ApplyCroc, Aboard, Carry, ApplyBullet,
     DrawFrame, locals
<1>4. QED
  BY <1>1, <1>2, <1>3 DEF BulletTypes

Plain == {"top", "end", "timer", "look", "ride", "boarded", "water", "drown", "den",
          "messages", "aboard", "carry", "draw"}

(* Wherever the game loop goes, its local variables are what they are used *)
(* for there.                                                              *)
LEMMA GameReady ==
  ASSUME TypeInv, GameStep
  PROVE  LoopTypes'
<1>1. /\ DOMAIN pc = Threads /\ Game \in Threads /\ Ready(pc[Game]) /\ DOMAIN g = Fields
      /\ pc[Game] \in Resetting => Ready(g.ret)
      /\ Used' = Used
  BY ThreadNames, GameSlots DEF TypeInv, HoldInv, Typed, LoopTypes, MailInv
<1>2. ASSUME NEW l, Go(Game, l) PROVE pc'[Game] = l
  BY <1>1, <1>2 DEF Go
<1>3. ASSUME pc'[Game] \in Plain PROVE LoopTypes'
  BY <1>3 DEF Plain, LoopTypes, Ready, Resetting, MsgTypes
<1>4. CASE FrameStart \/ GameEnds \/ Look \/ Attach \/ Boarded \/ Water \/ BulletsDone
  BY <1>2, <1>3, <1>4 DEF FrameStart, GameEnds, Look, Attach, Boarded, Water, BulletsDone,
     Plain
<1>5. ASSUME NEW l \in {"look", "den", "bullets", "pairs"}, Ready(l), LoseLife(l)
      PROVE  LoopTypes'
  <2>1. CASE CallReset(l)
    <3>1. pc'[Game] = "resetFlags" /\ g' = [g EXCEPT !.ret = l]
      BY <1>2, <2>1 DEF CallReset
    <3>2. g'.ret = l /\ g'.i = g.i /\ g'.j = g.j /\ g'.out = g.out
      BY <1>1, <3>1 DEF Fields
    <3>3. QED
      BY <1>1, <1>5, <3>1, <3>2 DEF LoopTypes, Ready, Resetting, MsgTypes
  <2>2. CASE Go(Game, l) /\ UNCHANGED g
    <3>1. pc'[Game] = l
      BY <1>2, <2>2
    <3>2. QED
      BY <1>1, <1>5, <2>2, <3>1 DEF LoopTypes, Ready, Resetting, MsgTypes
  <2>3. QED
    BY <1>5, <2>1, <2>2 DEF LoseLife
<1>6. CASE Tick
  <2>1. CASE Go(Game, "look")
    BY <1>2, <1>3, <2>1 DEF Plain
  <2>2. CASE LoseLife("look")
    BY <1>5, <2>2 DEF Ready, MsgTypes
  <2>3. QED
    BY <1>6, <2>1, <2>2 DEF Tick
<1>7. CASE Drown
  BY <1>5, <1>7 DEF Drown, Ready, MsgTypes
<1>8. CASE Hurt
  BY <1>1, <1>5, <1>8 DEF Hurt, At, Ready, MsgTypes
<1>9. CASE NoDen
  <2>1. g.i \in Nat \ {0}
    BY <1>1, <1>9 DEF NoDen, At, Ready
  <2>2. CASE CallReset("bullets")
    <3>1. pc'[Game] = "resetFlags" /\ g' = [g EXCEPT !.ret = "bullets"]
      BY <1>2, <2>2 DEF CallReset
    <3>2. g'.ret = "bullets" /\ g'.i = g.i
      BY <1>1, <3>1 DEF Fields
    <3>3. QED
      BY <2>1, <3>1, <3>2 DEF LoopTypes, Ready, Resetting, MsgTypes
  <2>3. CASE Go(Game, "over") /\ UNCHANGED g
    BY <1>2, <2>1, <2>3 DEF LoopTypes, Ready, Resetting, MsgTypes
  <2>4. QED
    BY <1>9, <2>2, <2>3 DEF NoDen
<1>10. CASE ResetFlags \/ ResetFrog \/ ResetPut
  <2>1. pc[Game] \in Resetting /\ pc'[Game] \in Resetting /\ UNCHANGED g
    BY <1>2, <1>10 DEF ResetFlags, ResetFrog, ResetPut, At, Resetting, locals
  <2>2. QED
    BY <1>1, <2>1 DEF LoopTypes, Ready, Resetting, MsgTypes
<1>11. CASE ResetTime
  <2>1. pc'[Game] = g.ret /\ pc[Game] \in Resetting /\ g' = [g EXCEPT !.ret = ""]
    BY <1>2, <1>11 DEF ResetTime, At, Resetting
  <2>2. g'.i = g.i /\ g'.j = g.j /\ g'.out = g.out /\ g'.ret = ""
    BY <1>1, <2>1 DEF Fields
  <2>3. g.ret \notin Resetting
    BY DEF TypeInv, MailInv, Resetting
  <2>4. PICK l : l = g.ret
    OBVIOUS
  <2>5. Ready(l)
    BY <1>1, <2>1, <2>4
  <2>6. pc'[Game] = l /\ l \notin Resetting
    BY <2>1, <2>3, <2>4
  <2>7. g'.i = g.i /\ g'.j = g.j /\ g'.out = g.out /\ Used' = Used
    BY <1>1, <2>2
  <2>8. Ready(l)'
    BY <2>5, <2>7 DEF Ready
  <2>9. Ready(pc[Game])'
    BY <2>6, <2>8 DEF Ready
  <2>10. QED
    BY <2>6, <2>9 DEF LoopTypes
<1>12. CASE Ride
  <2>1. CASE Go(Game, "water")
    BY <1>2, <1>3, <2>1 DEF Plain
  <2>2. CASE NumCrocs # 0 /\ Go(Game, "scan") /\ g' = [g EXCEPT !.i = 1]
    <3>1. g'.i = 1 /\ pc'[Game] = "scan"
      BY <1>1, <1>2, <2>2 DEF Fields
    <3>2. 1 \in CrocIds
      BY <2>2, Sizes DEF CrocIds
    <3>3. QED
      BY <3>1, <3>2 DEF LoopTypes, Ready, Resetting, MsgTypes
  <2>3. QED
    BY <1>12, <2>1, <2>2 DEF Ride
<1>13. CASE Scan
  <2>1. g.i \in CrocIds /\ pc[Game] = "scan"
    BY <1>1, <1>13 DEF Scan, At, Ready
  <2>2. CASE Go(Game, "attach") /\ UNCHANGED g
    BY <1>2, <2>1, <2>2 DEF LoopTypes, Ready, Resetting, MsgTypes
  <2>3. CASE Go(Game, "water")
    BY <1>2, <1>3, <2>3 DEF Plain
  <2>4. CASE g.i # NumCrocs /\ g' = [g EXCEPT !.i = @ + 1] /\ UNCHANGED pc
    <3>1. g'.i = g.i + 1
      BY <1>1, <2>4 DEF Fields
    <3>2. g'.i \in CrocIds
      BY <2>1, <2>4, <3>1, Sizes DEF CrocIds
    <3>3. QED
      BY <2>1, <2>4, <3>2 DEF LoopTypes, Ready, Resetting, MsgTypes
  <2>5. QED
    BY <1>13, <2>2, <2>3, <2>4 DEF Scan
<1>14. CASE Den
  <2>1. g'.i = 1
    BY <1>1, <1>14 DEF Den, Fields
  <2>2. pc'[Game] = AfterDen(frog)
    BY <1>2, <1>14 DEF Den
  <2>3. AfterDen(frog) \in {"bullets", "takeDen", "noDen"}
    BY DEF AfterDen
  <2>4. QED
    BY <2>1, <2>2, <2>3 DEF LoopTypes, Ready, Resetting, MsgTypes
<1>15. CASE TakeDen
  <2> DEFINE l == IF tane' = Dens THEN "" ELSE "bullets"
             n == IF tane' = Dens THEN "won" ELSE "resetFlags"
  <2>1. /\ g.i \in Nat \ {0} /\ g' = [g EXCEPT !.den = {}, !.ret = l] /\ Go(Game, n)
        /\ l \in {"", "bullets"} /\ n \in {"won", "resetFlags"}
    BY <1>1, <1>15 DEF TakeDen, At, Ready
  <2> HIDE DEF l, n
  <2>2. g'.i \in Nat \ {0} /\ g'.ret = l /\ pc'[Game] = n
    BY <1>1, <1>2, <2>1 DEF Fields
  <2>3. QED
    BY <2>1, <2>2 DEF LoopTypes, Ready, Resetting, MsgTypes
<1>16. CASE Won \/ GameOver
  <2>1. g.i \in Nat \ {0} /\ UNCHANGED g
    BY <1>1, <1>16 DEF Won, GameOver, At, Ready, locals
  <2>2. pc'[Game] \in {"over", "bullets"}
    BY <1>2, <1>16 DEF Won, GameOver
  <2>3. QED
    BY <2>1, <2>2 DEF LoopTypes, Ready, Resetting, MsgTypes
<1>17. ASSUME NextBullet, g.i \in Nat \ {0} PROVE LoopTypes'
  <2>1. pc'[Game] = "bullets" /\ g'.i = g.i + 1
    BY <1>1, <1>2, <1>17 DEF NextBullet, Fields
  <2>2. QED
    BY <1>17, <2>1 DEF LoopTypes, Ready, Resetting, MsgTypes
<1>18. Used \subseteq Nat \ {0}
  BY DEF Used, SlotIds
<1>19. CASE TestBullet
  <2>1. g.i \in Nat \ {0} /\ g.i <= NumSlots
    BY <1>1, <1>19 DEF TestBullet, At, Ready
  <2>2. CASE Slot(g.i).active /\ Go(Game, "copyBullet") /\ UNCHANGED g
    <3>1. g.i \in SlotIds
      BY <2>1, Sizes DEF SlotIds
    <3>2. g.i \in Used
      BY <2>2, <3>1 DEF TypeInv, Typed, SlotTypes, Slot
    <3>3. QED
      BY <1>1, <1>2, <2>2, <3>2 DEF LoopTypes, Ready, Resetting, MsgTypes
  <2>3. QED
    BY <1>17, <1>19, <2>1, <2>2 DEF TestBullet
<1>20. CASE CopyBullet
  <2>1. g.i \in Used
    BY <1>1, <1>20 DEF CopyBullet, At, Ready
  <2>2. CASE Go(Game, "hit") /\ g' = [g EXCEPT !.bul = Slot(g.i), !.j = 1]
    <3>1. pc'[Game] = "hit" /\ g'.i = g.i /\ g'.j = 1
      BY <1>1, <1>2, <2>2 DEF Fields
    <3>2. QED
      BY <1>1, <2>1, <3>1 DEF LoopTypes, Ready, Resetting, MsgTypes
  <2>3. QED
    BY <1>17, <1>18, <1>20, <2>1, <2>2 DEF CopyBullet
<1>21. CASE Hit
  <2>1. g.i \in Used /\ g.j \in Nat \ {0} /\ UNCHANGED g
    BY <1>1, <1>21 DEF Hit, At, Ready, locals
  <2>2. pc'[Game] \in {"hurt", "pairs"}
    BY <1>2, <1>21 DEF Hit
  <2>3. QED
    BY <1>1, <2>1, <2>2 DEF LoopTypes, Ready, Resetting, MsgTypes
<1>22. CASE Pairs
  <2>1. g.i \in Used /\ g.j \in Nat \ {0} /\ pc[Game] = "pairs"
    BY <1>1, <1>22 DEF Pairs, At, Ready
  <2>2. CASE g.j <= NumSlots /\ Opponent(g.j) /\ Go(Game, "crash") /\ UNCHANGED g
    <3>1. g.j \in SlotIds
      BY <2>1, <2>2, Sizes DEF SlotIds
    <3>2. g.j \in Used
      BY <2>2, <3>1 DEF TypeInv, Typed, SlotTypes, Opponent, Slot
    <3>3. QED
      BY <1>1, <1>2, <2>1, <2>2, <3>2 DEF LoopTypes, Ready, Resetting, MsgTypes
  <2>3. CASE g' = [g EXCEPT !.j = @ + 1] /\ UNCHANGED pc
    <3>1. g'.j = g.j + 1 /\ g'.i = g.i
      BY <1>1, <2>3 DEF Fields
    <3>2. QED
      BY <1>1, <2>1, <2>3, <3>1 DEF LoopTypes, Ready, Resetting, MsgTypes
  <2>4. QED
    BY <1>17, <1>18, <1>22, <2>1, <2>2, <2>3 DEF Pairs
<1>23. CASE Crash \/ KillBoth
  <2>1. g.i \in Used /\ g.j \in Used /\ UNCHANGED g
    BY <1>1, <1>23 DEF Crash, KillBoth, At, Ready, locals
  <2>2. pc'[Game] \in {"kill", "killMsgs"}
    BY <1>2, <1>23 DEF Crash, KillBoth
  <2>3. QED
    BY <1>1, <2>1, <2>2 DEF LoopTypes, Ready, Resetting, MsgTypes
<1>24. CASE KillMsgs
  <2>1. g.i \in Used
    BY <1>1, <1>24 DEF KillMsgs, At, Ready
  <2>2. pc'[Game] = "killPut" /\ g'.i = g.i
    BY <1>1, <1>2, <1>24 DEF KillMsgs, Fields
  <2>3. QED
    BY <1>1, <2>1, <2>2 DEF LoopTypes, Ready, Resetting, MsgTypes
<1>25. CASE KillPut
  <2>1. g.i \in Used /\ pc[Game] = "killPut"
    BY <1>1, <1>25 DEF KillPut, At, Ready
  <2>2. CASE g' = [g EXCEPT !.out = Tail(@)] /\ UNCHANGED pc
    <3>1. g'.i = g.i
      BY <1>1, <2>2 DEF Fields
    <3>2. QED
      BY <1>1, <2>1, <2>2, <3>1 DEF LoopTypes, Ready, Resetting, MsgTypes
  <2>3. QED
    BY <1>17, <1>18, <1>25, <2>1, <2>2 DEF KillPut
<1>26. CASE TakeMessage
  <2>1. CASE Go(Game, "draw")
    BY <1>2, <1>3, <2>1 DEF Plain
  <2>2. CASE queue # <<>> /\ g' = [g EXCEPT !.out = <<Head(queue)>>]
             /\ Go(Game, Head(queue).type)
    <3>1. pc'[Game] = Head(queue).type /\ g'.out = <<Head(queue)>>
      BY <1>1, <1>2, <2>2 DEF Fields
    <3>2. Head(queue).type \in MsgTypes
      BY <2>2, MailRead DEF TypeInv, MailInv
    <3>3. g'.out # <<>> /\ Head(g'.out) = Head(queue)
      BY <3>1
    <3>4. QED
      BY <3>1, <3>2, <3>3 DEF LoopTypes, Ready, Resetting, MsgTypes
  <2>3. QED
    BY <1>26, <2>1, <2>2 DEF TakeMessage
<1>27. CASE ApplyFrog \/ ApplyCroc \/ Aboard \/ Carry \/ ApplyBullet
  <2>1. \E l \in {"messages", "aboard", "carry"} : Go(Game, l)
    BY <1>27 DEF ApplyFrog, ApplyCroc, Aboard, Carry, ApplyBullet, Applied
  <2>2. QED
    BY <1>2, <1>3, <2>1 DEF Plain
<1>28. CASE DrawFrame
  <2>1. CASE pc[Game] = "draw" /\ Go(Game, "drawCroc")
    <3>1. g' = [g EXCEPT !.i = NextDrawn(Game, @)] /\ NextDrawn(Game, g.i) = 1
      BY <1>28, <2>1 DEF DrawFrame, NextDrawn, At
    <3>2. g'.i = 1 /\ pc'[Game] = "drawCroc"
      BY <1>1, <1>2, <2>1, <3>1 DEF Fields
    <3>3. QED
      BY <3>2 DEF LoopTypes, Ready, Resetting, MsgTypes
  <2>2. CASE pc[Game] = "drawCroc" /\ g.i <= NumCrocs /\ UNCHANGED pc
    <3>1. g' = [g EXCEPT !.i = NextDrawn(Game, @)] /\ NextDrawn(Game, g.i) = g.i + 1
      BY <1>28, <2>2 DEF DrawFrame, NextDrawn, At
    <3>2. g.i \in Nat \ {0} /\ g'.i = g.i + 1
      BY <1>1, <2>2, <3>1 DEF Fields, Ready
    <3>3. QED
      BY <2>2, <3>2 DEF LoopTypes, Ready, Resetting, MsgTypes
  <2>3. CASE GameDrawn
    BY <1>2, <1>3, <2>3 DEF GameDrawn, Plain
  <2>4. QED
    BY <1>28, <2>1, <2>2, <2>3 DEF DrawFrame, Draw, At
<1>29. QED
  BY <1>4, <1>6, <1>7, <1>8, <1>9, <1>10, <1>11, <1>12, <1>13, <1>14, <1>15, <1>16, <1>19,
     <1>20, <1>21, <1>22, <1>23, <1>24, <1>25, <1>26, <1>27, <1>28 DEF GameStep

LEMMA GameTypes ==
  ASSUME TypeInv, GameStep
  PROVE  Typed'
  BY GameWorld, GameSlots, GameMailTypes, GameBullets, GameReady DEF Typed

-----------------------------------------------------------------------------
(* The other threads                                                       *)

(* What they leave alone.                                                  *)
LoopRests == UNCHANGED g /\ pc'[Game] = pc[Game]

LEMMA LoopKeeps ==
  ASSUME LoopTypes, LoopRests, Used \subseteq Used'
  PROVE  LoopTypes'
  BY DEF LoopTypes, LoopRests, Ready

LEMMA OutKeeps ==
  ASSUME MailTypes, UNCHANGED <<orig, g>>, Used \subseteq Used',
         queue' \in Seq(Messages') /\ Len(queue') <= Capacity
  PROVE  MailTypes'
<1>1. g.out \in Seq(Messages)
  BY DEF MailTypes
<1>2. g.out \in Seq(Messages')
  BY <1>1, LettersKeep
<1>3. QED
  BY <1>2 DEF MailTypes

LEMMA BulletsKeep ==
  ASSUME BulletTypes, UNCHANGED b, Used \subseteq Used',
         \A k \in BulletIds : pc'[Bullet(k)] = pc[Bullet(k)]
                              \/ pc[Bullet(k)] # "none"
  PROVE  BulletTypes'
  BY DEF BulletTypes

(* The border pushes the frog back.                                        *)
LEMMA MoveTypes ==
  ASSUME frog \in Frogs, NEW key
  PROVE  Clamp(Moved(key)) \in Frogs
<1>1. Moved(key) \in Frogs
  <2>1. \A d \in Int : [frog EXCEPT !.x = @ + d] \in Frogs /\ [frog EXCEPT !.x = @ - d] \in Frogs
    BY DEF Frogs
  <2>2. frog.y > 0 => [frog EXCEPT !.y = @ - 1] \in Frogs
    BY Sizes DEF Frogs
  <2>3. frog.y < StartRow => [frog EXCEPT !.y = @ + 1] \in Frogs
    BY Sizes DEF Frogs
  <2>4. [x |-> Width \div 2, y |-> 1] \in Frogs
    <3>1. Width \div 2 \in Int
      BY Sizes
    <3>2. 1 \in 0..StartRow
      BY Sizes DEF StartRow
    <3>3. QED
      BY <3>1, <3>2 DEF Frogs
  <2> DEFINE A == [frog EXCEPT !.y = @ - 1]
             B == [frog EXCEPT !.y = @ + 1]
             C == [frog EXCEPT !.x = @ - HStep]
             D == [frog EXCEPT !.x = @ + HStep]
             E == [x |-> Width \div 2, y |-> 1]
  <2>5. C \in Frogs /\ D \in Frogs /\ E \in Frogs
    BY <2>1, <2>4, Sizes
  <2>6. \/ Moved(key) = A /\ frog.y > 0
        \/ Moved(key) = B /\ frog.y < StartRow
        \/ Moved(key) \in {C, D, E, frog}
    BY DEF Moved
  <2>7. QED
    BY <2>2, <2>3, <2>5, <2>6
<1>2. \A f \in Frogs : Clamp(f) \in Frogs
  BY Sizes DEF Clamp, Frogs
<1>3. QED
  BY <1>1, <1>2

LEMMA PlayerTypes ==
  ASSUME TypeInv, PlayerStep \/ \E key : ReadKey(key)
  PROVE  Typed'
<1>1. /\ DOMAIN pc = Threads /\ WorldTypes /\ SlotTypes /\ MailTypes /\ BulletTypes
      /\ LoopTypes /\ frog \in Frogs
  BY DEF TypeInv, HoldInv, Typed, WorldTypes
<1>2. UNCHANGED <<orig, croc, tane, g>>
  BY DEF PlayerStep, ReadKey, PlayerEnds, TogglePause, PauseText, DrawResumed, LockFrog,
     ShootLeft, ShootRight, Quit, Move, Publish, world, status, locals
<1>3. CASE ShootLeft \/ ShootRight
  <2>1. UNCHANGED <<frog, on, queue, lock>>
    BY <1>3 DEF ShootLeft, ShootRight
  <2> DEFINE Then(l) == [pc EXCEPT ![Player] = l]
  <2>2. \E l, q, dir :
          /\ q \in Cells /\ dir \in {-1, 1}
          /\ CreateBullet(q, dir, FALSE, Then(l))
    <3>1. \A x \in Int : Cell(x, frog.y) \in Cells
      BY <1>1 DEF Cell, Cells, Frogs
    <3>2. frog.x \in Int
      BY <1>1 DEF Frogs
    <3>3. Cell(frog.x - 1, frog.y) \in Cells /\ Cell(frog.x + FrogW, frog.y) \in Cells
      BY <3>1, <3>2, Sizes
    <3>4. CASE ShootLeft
      <4>1. CreateBullet(Cell(frog.x - 1, frog.y), -1, FALSE, Then("shootRight"))
        BY <3>4, Zenon DEF ShootLeft
      <4> HIDE DEF Then
      <4>2. QED
        BY <3>3, <4>1
    <3>5. CASE ShootRight
      <4>1. CreateBullet(Cell(frog.x + FrogW, frog.y), 1, FALSE, Then("move"))
        BY <3>5, Zenon DEF ShootRight
      <4> HIDE DEF Then
      <4>2. QED
        BY <3>3, <4>1
    <3>6. QED
      BY <1>3, <3>4, <3>5
  <2>3. PICK l, q, dir : /\ q \in Cells /\ dir \in {-1, 1}
                         /\ CreateBullet(q, dir, FALSE, Then(l))
    BY <2>2
  <2> DEFINE next == Then(l)
  <2>4. DOMAIN next = Threads /\ (\A k \in BulletIds : next[Bullet(k)] = pc[Bullet(k)])
        /\ CreateBullet(q, dir, FALSE, next)
    BY <1>1, <2>3, ThreadNames
  <2> HIDE DEF next
  <2>5. SlotTypes' /\ BulletTypes' /\ Used \subseteq Used'
    BY <1>1, <2>3, <2>4, CreateTypes
  <2>6. pc'[Game] = pc[Game]
    <3>1. HoldInv
      BY DEF TypeInv
    <3>2. CreateBullet(q, dir, FALSE, [pc EXCEPT ![Player] = l])
      BY <2>3
    <3>3. QED
      BY <2>1, <3>1, <3>2, CreateHolds, ThreadNames
  <2>7. LoopTypes'
    BY <1>1, <1>2, <2>5, <2>6, LoopKeeps DEF LoopRests
  <2>8. MailTypes'
    BY <1>1, <1>2, <2>1, <2>5, QueueRests, OutKeeps
  <2>9. WorldTypes'
    BY <1>1, <1>2, <2>1 DEF WorldTypes, Crocs
  <2>10. QED
    BY <2>5, <2>7, <2>8, <2>9 DEF Typed
<1>4. CASE ~(ShootLeft \/ ShootRight)
  <2>1. UNCHANGED <<slots, b>> /\ \E l : Go(Player, l) \/ UNCHANGED pc
    <3>1. CASE (\E key : ReadKey(key)) \/ PlayerEnds \/ TogglePause \/ PauseText \/ DrawResumed
      BY <3>1 DEF ReadKey, PlayerEnds, TogglePause, PauseText, DrawResumed, Draw, PlayerDrawn,
         world, locals
    <3>2. CASE LockFrog \/ Quit \/ Move \/ Publish
      BY <3>2 DEF LockFrog, Quit, Move, Publish, world, locals
    <3>3. QED
      BY <1>4, <3>1, <3>2 DEF PlayerStep
  <2>2. \A t \in Threads \ {Player} : pc'[t] = pc[t]
    BY <1>1, <2>1 DEF Go
  <2>3. SlotTypes' /\ Used' = Used
    BY <1>1, <2>1, SlotsUnchanged
  <2>4. LoopTypes' /\ BulletTypes'
    BY <1>1, <1>2, <2>1, <2>2, <2>3, LoopKeeps, BulletsKeep, ThreadNames DEF LoopRests
  <2>5. MailTypes'
    <3>1. CASE Publish
      <4>1. FrogMsg(frog) \in Messages
        BY <1>1, ThreeKinds
      <4>2. QED
        BY <1>1, <1>2, <2>3, <3>1, <4>1, PutTypes, OutKeeps DEF Publish
    <3>2. CASE ~Publish
      <4>1. UNCHANGED queue
        BY <1>4, <3>2 DEF PlayerStep, ReadKey, PlayerEnds, TogglePause, PauseText,
           DrawResumed, LockFrog, Quit, Move
      <4>2. QED
        BY <1>1, <1>2, <2>3, <4>1, QueueRests, OutKeeps
    <3>3. QED
      BY <3>1, <3>2
  <2>6. frog' \in Frogs /\ on' \in 0..NumCrocs
    <3>1. CASE Move
      <4>1. frog' = Clamp(Moved(p.key)) /\ on' \in {0, on}
        BY <3>1 DEF Move
      <4>2. QED
        BY <1>1, <4>1, MoveTypes, Sizes DEF WorldTypes
    <3>2. CASE ~Move
      <4>1. UNCHANGED <<frog, on>>
        BY <1>4, <3>2 DEF PlayerStep, ReadKey, PlayerEnds, TogglePause, PauseText,
           DrawResumed, LockFrog, Quit, Publish, world
      <4>2. QED
        BY <1>1, <4>1 DEF WorldTypes
    <3>3. QED
      BY <3>1, <3>2
  <2>7. WorldTypes'
    BY <1>1, <1>2, <2>6 DEF WorldTypes, Crocs
  <2>8. QED
    BY <2>3, <2>4, <2>5, <2>7 DEF Typed
<1>5. QED
  BY <1>3, <1>4

LEMMA SwimTypes ==
  ASSUME WorldTypes, NEW i \in CrocIds
  PROVE  Swum(i, croc[i]) \in Crocs(i)
<1>1. orig[i] \in Nat \ {0} /\ croc[i] \in Crocs(i) /\ Width \in Int /\ Width > 1
  BY CrocAssumption, Sizes DEF WorldTypes
<1>2. SwimRight(croc[i], orig[i]) \in Crocs(i)
  BY <1>1 DEF SwimRight, Crocs
<1>3. SwimLeft(croc[i], orig[i]) \in Crocs(i)
  BY <1>1 DEF SwimLeft, Crocs
<1>4. QED
  BY <1>2, <1>3 DEF Swum

LEMMA CrocTypes ==
  ASSUME TypeInv, NEW i \in CrocIds, CrocStep(i)
  PROVE  Typed'
<1>1. /\ HoldInv /\ DOMAIN pc = Threads /\ WorldTypes /\ SlotTypes /\ MailTypes
      /\ BulletTypes /\ LoopTypes /\ frog \in Frogs /\ croc[i] \in Crocs(i)
  BY DEF TypeInv, HoldInv, Typed, WorldTypes
<1>2. UNCHANGED <<orig, tane, g>>
  BY DEF CrocStep, Swim, DropFrog, ShiftFrog, Aim, Fire, Announce, CrocEnds, status, locals
<1>3. CASE Fire(i)
  <2>1. UNCHANGED <<frog, on, croc, queue, lock>>
    BY <1>3 DEF Fire
  <2> DEFINE next == [pc EXCEPT ![Croc(i)] = "announce"]
             nose == IF Dir(i) = 1 THEN croc[i].x + croc[i].w - 1 ELSE croc[i].x
             q == Cell(nose, CrocRow(i))
  <2>2. q \in Cells
    <3>1. nose \in Int
      <4>1. croc[i].x \in Int /\ croc[i].w \in Int
        BY <1>1 DEF Crocs
      <4>2. QED
        BY <4>1
    <3>2. CrocRow(i) \in 0..StartRow
      <4>1. Lane[i] \in 0..(Lanes - 1)
        BY CrocAssumption
      <4>2. QED
        BY <4>1, Sizes DEF CrocRow, StartRow
    <3> HIDE DEF nose
    <3>3. QED
      BY <3>1, <3>2 DEF Cell, Cells
  <2>3. CreateBullet(q, Dir(i), TRUE, next)
    BY <1>3, Zenon DEF Fire
  <2>4. pc'[Game] = pc[Game]
    <3>1. Croc(i) \in {Player} \cup {Croc(j) : j \in CrocIds}
      OBVIOUS
    <3>2. Game \in Threads \ {Croc(i)} /\ \A k \in BulletIds : Game # Bullet(k)
      BY ThreadNames
    <3> HIDE DEF q
    <3>3. QED
      BY <1>1, <2>1, <2>3, <3>1, <3>2, CreateHolds
  <2>5. DOMAIN next = Threads /\ \A k \in BulletIds : next[Bullet(k)] = pc[Bullet(k)]
    BY <1>1, ThreadNames
  <2> HIDE DEF q, next
  <2>6. SlotTypes' /\ BulletTypes' /\ Used \subseteq Used'
    BY <1>1, <2>2, <2>3, <2>5, Moves, CreateTypes
  <2>7. LoopTypes'
    BY <1>1, <1>2, <2>4, <2>6, LoopKeeps DEF LoopRests
  <2>8. MailTypes'
    BY <1>1, <1>2, <2>1, <2>6, QueueRests, OutKeeps
  <2>9. WorldTypes'
    BY <1>1, <1>2, <2>1 DEF WorldTypes, Crocs
  <2>10. QED
    BY <2>6, <2>7, <2>8, <2>9 DEF Typed
<1>4. CASE ~Fire(i)
  <2>1. UNCHANGED <<slots, b>>
    BY <1>4 DEF CrocStep, Swim, DropFrog, ShiftFrog, Aim, Announce, CrocEnds, world, locals
  <2>2. \E l : Go(Croc(i), l)
    <3>1. CASE Swim(i)
      BY <3>1, Zenon DEF Swim
    <3>2. CASE ~Swim(i)
      BY <1>4, <3>2 DEF CrocStep, DropFrog, ShiftFrog, Aim, Announce, CrocEnds
    <3>3. QED
      BY <3>1, <3>2
  <2>3. \A t \in Threads \ {Croc(i)} : pc'[t] = pc[t]
    BY <1>1, <2>2 DEF Go
  <2>4. SlotTypes' /\ Used' = Used
    BY <1>1, <2>1, SlotsUnchanged
  <2>5. LoopTypes' /\ BulletTypes'
    BY <1>1, <1>2, <2>1, <2>3, <2>4, LoopKeeps, BulletsKeep, ThreadNames DEF LoopRests
  <2>6. MailTypes'
    <3>1. CASE Announce(i)
      <4>1. CrocMsg(i, croc[i]) \in Messages
        BY <1>1, ThreeKinds
      <4>2. QED
        BY <1>1, <1>2, <2>4, <3>1, <4>1, PutTypes, OutKeeps DEF Announce
    <3>2. CASE ~Announce(i)
      <4>1. UNCHANGED queue
        BY <1>4, <3>2 DEF CrocStep, Swim, DropFrog, ShiftFrog, Aim, CrocEnds
      <4>2. QED
        BY <1>1, <1>2, <2>4, <4>1, QueueRests, OutKeeps
    <3>3. QED
      BY <3>1, <3>2
  <2>7. frog' \in Frogs /\ on' \in 0..NumCrocs
    <3>1. CASE DropFrog(i) \/ ShiftFrog(i)
      <4>1. [frog EXCEPT !.x = @ - 1] \in Frogs /\ 0 \in 0..NumCrocs
        BY <1>1, Sizes DEF Frogs
      <4>2. QED
        BY <1>1, <3>1, <4>1 DEF DropFrog, ShiftFrog, WorldTypes
    <3>2. CASE ~(DropFrog(i) \/ ShiftFrog(i))
      <4>1. UNCHANGED <<frog, on>>
        BY <1>4, <3>2 DEF CrocStep, Swim, Aim, Announce, CrocEnds, world
      <4>2. QED
        BY <1>1, <4>1 DEF WorldTypes
    <3>3. QED
      BY <3>1, <3>2
  <2>8. DOMAIN croc' = CrocIds /\ \A j \in CrocIds : croc'[j] \in Crocs(j)
    <3>1. CASE Swim(i)
      <4>1. croc' = [croc EXCEPT ![i] = Swum(i, croc[i])]
        BY <3>1 DEF Swim
      <4>2. QED
        BY <1>1, <4>1, SwimTypes DEF WorldTypes
    <3>2. CASE ~Swim(i)
      <4>1. UNCHANGED croc
        BY <1>4, <3>2 DEF CrocStep, DropFrog, ShiftFrog, Aim, Announce, CrocEnds, world
      <4>2. QED
        BY <1>1, <4>1 DEF WorldTypes
    <3>3. QED
      BY <3>1, <3>2
  <2>9. WorldTypes'
    BY <1>1, <1>2, <2>7, <2>8 DEF WorldTypes, Crocs
  <2>10. QED
    BY <2>4, <2>5, <2>6, <2>9 DEF Typed
<1>5. QED
  BY <1>3, <1>4

(* A bullet writes to the slot it was created for.                         *)
LEMMA BulletStepTypes ==
  ASSUME TypeInv, NEW k \in BulletIds, BulletStep(k)
  PROVE  Typed'
<1>1. /\ DOMAIN pc = Threads /\ WorldTypes /\ SlotTypes /\ MailTypes /\ BulletTypes
      /\ LoopTypes
  BY DEF TypeInv, HoldInv, Typed
<1>2. UNCHANGED <<frog, on, croc, orig, tane, g>>
  BY DEF BulletStep, FlyOver, FlyStop, Fly, Tell, ClearSlot, LastMessage, world, status, locals
<1>3. pc[Bullet(k)] # "none" /\ \E l : Go(Bullet(k), l)
  BY DEF BulletStep, FlyOver, FlyStop, Fly, Tell, ClearSlot, LastMessage, At, Me
<1>4. /\ pc'[Game] = pc[Game]
      /\ \A n \in BulletIds : pc'[Bullet(n)] = pc[Bullet(n)] \/ n = k
  <2>1. \A n \in BulletIds : n # k => Bullet(n) # Bullet(k)
    BY DEF Bullet
  <2>2. QED
    BY <1>1, <1>3, <2>1, ThreadNames DEF Go
<1>5. b[k].slot \in Used /\ b[k].slot \in SlotIds /\ b[k].out \in Cells
  BY <1>1, <1>3, UsedSlots DEF BulletTypes
<1>6. /\ Mine(k) \in Cells /\ slots[b[k].slot].dir \in {-1, 1}
      /\ [Mine(k) EXCEPT !.active = FALSE] \in Cells
  BY <1>1, <1>5, SlotCell DEF Mine
<1> DEFINE q == [Flown(k) EXCEPT !.active = ~Outside(Flown(k))]
<1>7. q \in Cells
  <2>1. Flown(k) \in Cells
    BY <1>6 DEF Flown, Cells
  <2>2. QED
    BY <2>1 DEF Cells, Outside
<1> HIDE DEF q
<1>8. SlotTypes' /\ Used' = Used
  <2>1. CASE FlyOver(k) \/ ClearSlot(k)
    BY <1>1, <1>5, <1>6, <2>1, SlotWritten DEF FlyOver, ClearSlot, SetMine
  <2>2. CASE Fly(k)
    <3>1. slots' = [slots EXCEPT ![b[k].slot].pos = q]
      BY <2>2 DEF Fly, SetMine, q
    <3>2. QED
      BY <1>1, <1>5, <1>7, <3>1, SlotWritten
  <2>3. CASE FlyStop(k) \/ Tell(k) \/ LastMessage(k)
    BY <1>1, <2>3, SlotsUnchanged DEF FlyStop, Tell, LastMessage, world
  <2>4. QED
    BY <2>1, <2>2, <2>3 DEF BulletStep
<1>9. b' = b \/ \E o \in Cells : b' = [b EXCEPT ![k].out = o]
  <2>1. CASE Fly(k)
    BY <1>7, <2>1 DEF Fly, q
  <2>2. CASE Tell(k)
    <3>1. NoBullet \in Cells
      BY Sizes DEF NoBullet, Cell, Cells
    <3>2. QED
      BY <2>2, <3>1 DEF Tell
  <2>3. CASE LastMessage(k)
    BY <1>6, <2>3 DEF LastMessage
  <2>4. CASE FlyOver(k) \/ FlyStop(k) \/ ClearSlot(k)
    BY <2>4 DEF FlyOver, FlyStop, ClearSlot, locals
  <2>5. QED
    BY <2>1, <2>2, <2>3, <2>4 DEF BulletStep
<1>10. BulletTypes'
  <2>1. /\ b' \in [BulletIds -> [slot : 0..NumSlots, out : Cells]]
        /\ \A n \in BulletIds : b'[n].slot = b[n].slot
    BY <1>1, <1>9 DEF BulletTypes
  <2>2. QED
    BY <1>1, <1>4, <1>5, <1>8, <2>1 DEF BulletTypes
<1>11. LoopTypes'
  BY <1>1, <1>2, <1>4, <1>8, LoopKeeps DEF LoopRests
<1>12. MailTypes'
  <2>1. CASE Tell(k)
    <3>1. BulletMsg(b[k].slot, b[k].out) \in Messages
      BY <1>5, BulletWord
    <3>2. QED
      BY <1>1, <1>2, <1>8, <2>1, <3>1, PutTypes, OutKeeps DEF Tell
  <2>2. CASE ~Tell(k)
    <3>1. UNCHANGED queue
      BY <2>2 DEF BulletStep, FlyOver, FlyStop, Fly, ClearSlot, LastMessage
    <3>2. QED
      BY <1>1, <1>2, <1>8, <3>1, QueueRests, OutKeeps
  <2>3. QED
    BY <2>1, <2>2
<1>13. WorldTypes'
  BY <1>1, <1>2 DEF WorldTypes, Crocs
<1>14. QED
  BY <1>8, <1>10, <1>11, <1>12, <1>13 DEF Typed

LEMMA OthersTypes ==
  ASSUME TypeInv,
         (\E t \in Producers : Cancelled(t)) \/ RunGame \/ Signal \/ UNCHANGED vars
  PROVE  Typed'
<1>1. /\ DOMAIN pc = Threads /\ WorldTypes /\ SlotTypes /\ MailTypes /\ BulletTypes
      /\ LoopTypes
  BY DEF TypeInv, HoldInv, Typed
<1>2. UNCHANGED <<frog, on, croc, orig, slots, tane, queue, g, b>>
  BY DEF Cancelled, RunGame, JoinGame, JoinCroc, JoinPlayer, CancelBullet, JoinBullet,
     Destroy, Signal, vars, world, status, locals
<1>3. pc'[Game] = pc[Game]
      /\ \A k \in BulletIds : pc'[Bullet(k)] = pc[Bullet(k)] \/ pc[Bullet(k)] # "none"
  <2>1. CASE \E t \in Producers : Cancelled(t)
    <3>1. PICK t \in Producers : pc[t] # "none" /\ pc' = [pc EXCEPT ![t] = "end"]
      BY <2>1 DEF Cancelled, Go, Putting
    <3>2. t # Game
      BY ThreadNames DEF Producers
    <3>3. QED
      BY <1>1, <3>1, <3>2, ThreadNames
  <2>2. CASE RunGame \/ Signal \/ UNCHANGED vars
    BY <2>2 DEF RunGame, JoinGame, JoinCroc, JoinPlayer, CancelBullet, JoinBullet, Destroy,
       Signal, vars
  <2>3. QED
    BY <2>1, <2>2
<1>4. SlotTypes' /\ Used' = Used
  BY <1>1, <1>2, SlotsUnchanged
<1>5. QED
  BY <1>1, <1>2, <1>3, <1>4, LoopKeeps, BulletsKeep, QueueRests, OutKeeps
  DEF Typed, LoopRests, WorldTypes, Crocs

LEMMA ShotTypes ==
  ASSUME TypeInv, Shot
  PROVE  Typed'
<1>1. /\ DOMAIN pc = Threads /\ WorldTypes /\ SlotTypes /\ MailTypes /\ BulletTypes
      /\ LoopTypes
  BY DEF TypeInv, HoldInv, Typed
<1>2. UNCHANGED <<frog, on, croc, orig, tane, queue, g>>
  BY DEF Shot, status
<1>3. PICK s \in Shots : CreateBullet(Cell(s.x, s.y), s.dir, s.enemy, pc)
  BY DEF Shot
<1>4. Cell(s.x, s.y) \in Cells /\ s.dir \in {-1, 1} /\ s.enemy \in BOOLEAN
  BY ShotsAssumption DEF Cell, Cells
<1>5. SlotTypes' /\ BulletTypes' /\ Used \subseteq Used'
  BY <1>1, <1>3, <1>4, CreateTypes
<1>6. pc'[Game] = pc[Game]
  <2>1. \/ pc' = pc
        \/ /\ IdleThreads # {}
           /\ pc' = [pc EXCEPT ![Bullet(First(IdleThreads))] = "loop"]
    BY <1>3, CreateMoves, Zenon
  <2>2. IdleThreads # {} => First(IdleThreads) \in BulletIds
    <3>1. IdleThreads \in SUBSET Nat
      BY DEF IdleThreads, BulletIds
    <3>2. QED
      BY <3>1, LeastExists DEF First, IdleThreads
  <2>3. QED
    BY <1>1, <2>1, <2>2, ThreadNames
<1>7. QED
  BY <1>1, <1>2, <1>5, <1>6, LoopKeeps, QueueRests, OutKeeps
  DEF Typed, LoopRests, WorldTypes, Crocs

LEMMA TypesKeep == TypeInv /\ [Next \/ Shot]_vars => Typed'
<1>1. TypeInv /\ GameStep => Typed'
  BY GameTypes
<1>2. TypeInv /\ (PlayerStep \/ \E key : ReadKey(key)) => Typed'
  BY PlayerTypes
<1>3. TypeInv /\ (\E i \in CrocIds : CrocStep(i)) => Typed'
  BY CrocTypes
<1>4. TypeInv /\ (\E k \in BulletIds : BulletStep(k)) => Typed'
  BY BulletStepTypes
<1>5. TypeInv /\ ((\E t \in Producers : Cancelled(t)) \/ RunGame \/ Signal \/ UNCHANGED vars)
        => Typed'
  BY OthersTypes
<1>6. TypeInv /\ Shot => Typed'
  BY ShotTypes
<1>7. QED
  BY <1>1, <1>2, <1>3, <1>4, <1>5, <1>6 DEF Next, Playing, Finished

LEMMA TypesInit == Init => Typed
<1> SUFFICES ASSUME Init PROVE Typed
  OBVIOUS
<1>1. /\ frog = Start /\ on = 0 /\ orig \in [CrocIds -> CrocWidths] /\ tane = {}
      /\ croc \in [CrocIds -> [x : 0..Width, w : CrocWidths]]
      /\ \A i \in CrocIds : croc[i].w = orig[i]
      /\ slots = [s \in SlotIds |-> [pos |-> NoBullet, dir |-> 1, enemy |-> FALSE, thread |-> 0]]
      /\ queue = <<>>
      /\ g = [copy |-> Start, i |-> 0, j |-> 0, den |-> {}, ret |-> "", bul |-> NoBullet,
              out |-> <<>>]
      /\ b = [k \in BulletIds |-> [slot |-> 0, out |-> NoBullet]]
  BY DEF Init
<1>2. pc[Game] = "top" /\ \A k \in BulletIds : pc[Bullet(k)] = "none"
  BY ThreadNames DEF Init, Game, Player, Bullet
<1>3. WorldTypes
  <2>1. \A i \in CrocIds : orig[i] \in CrocWidths /\ orig[i] \in Nat \ {0}
    BY <1>1, CrocAssumption
  <2>2. ASSUME NEW i \in CrocIds PROVE croc[i] \in Crocs(i)
    <3>1. croc[i] \in [x : 0..Width, w : CrocWidths] /\ croc[i].w = orig[i]
      BY <1>1
    <3>2. QED
      BY <2>1, <3>1 DEF Crocs
  <2>3. DOMAIN orig = CrocIds /\ DOMAIN croc = CrocIds
    BY <1>1
  <2>4. on \in 0..NumCrocs /\ tane \subseteq Dens
    <3>1. on = 0 /\ tane = {}
      BY <1>1
    <3>2. QED
      BY <3>1, Sizes
  <2>5. g.den = {}
    BY <1>1
  <2>6. QED
    BY <1>1, <2>1, <2>2, <2>3, <2>4, <2>5, StartTyped DEF WorldTypes
<1>4. NoBullet \in Cells /\ ~NoBullet.active
  BY Sizes DEF NoBullet, Cell, Cells
<1>5. SlotTypes
  <2>1. 1 \in {-1, 1} /\ 0 \in 0..NumBulletThreads
    BY Sizes
  <2>2. \A s \in SlotIds : slots[s] \in Slots /\ slots[s].pos = NoBullet
    BY <1>1, <1>4, <2>1 DEF Slots
  <2>3. DOMAIN slots = SlotIds /\ slots = [s \in DOMAIN slots |-> slots[s]]
    BY <1>1
  <2>4. QED
    BY <1>4, <2>2, <2>3 DEF SlotTypes
<1>6. MailTypes
  <2>1. <<>> \in Seq(Messages) /\ Len(<<>>) = 0
    OBVIOUS
  <2>2. g.out = <<>> /\ queue = <<>> /\ Capacity \in Nat
    BY <1>1, Sizes
  <2>3. QED
    BY <2>1, <2>2 DEF MailTypes
<1>7. BulletTypes
  <2>1. [slot |-> 0, out |-> NoBullet] \in [slot : 0..NumSlots, out : Cells]
    BY <1>4, Sizes
  <2>2. b \in [BulletIds -> [slot : 0..NumSlots, out : Cells]]
    BY <1>1, <2>1
  <2>3. QED
    BY <1>2, <2>2 DEF BulletTypes
<1>8. LoopTypes
  BY <1>2 DEF LoopTypes, Ready, Resetting, MsgTypes
<1>9. QED
  BY <1>3, <1>5, <1>6, <1>7, <1>8 DEF Typed

LEMMA TypeInvariance == OpenSpec => []TypeInv
<1>1. Init => TypeInv
  BY HoldInit, MailInit, TypesInit DEF TypeInv
<1>2. TypeInv /\ [Next \/ Shot]_vars => TypeInv'
  BY NextHolds, MailKeeps, TypesKeep DEF TypeInv
<1>3. QED
  BY <1>1, <1>2, PTL DEF OpenSpec

(* Whatever is applied late, to a slot or a crocodile that has changed in  *)
(* the meantime, everything stays where it can be drawn: a crocodile's     *)
(* width between 1 and that of its sprite, a row on the screen, the buffer *)
(* within its capacity; and run_game joins only threads that were created. *)
THEOREM TypesRight == OpenSpec => []TypeOK
<1>1. TypeInv => TypeOK
  <2> SUFFICES ASSUME TypeInv PROVE TypeOK
    OBVIOUS
  <2>1. \A mu \in Mutexes : lock[mu] \in Threads \cup {Nobody}
    BY ThreadNames DEF TypeInv, HoldInv, Owners, Mutexes
  <2>2. \A s \in SlotIds :
          /\ slots[s].pos.x \in Int /\ slots[s].pos.y \in 0..StartRow
          /\ slots[s].pos.active => slots[s].thread \in BulletIds
    BY Sizes DEF TypeInv, Typed, SlotTypes, Slots, Cells, Used, BulletIds
  <2>3. QED
    BY <2>1, <2>2 DEF TypeInv, Typed, WorldTypes, MailTypes, Frogs, Crocs, TypeOK
<1>2. QED
  BY <1>1, TypeInvariance, PTL
=============================================================================
