----------------------------- MODULE WorldProofs -----------------------------
(***************************************************************************)
(* Theorems about World, for any number of players, crocodiles and dens,   *)
(* any field and any speed: its invariants, and what a tick does to a frog *)
(* that is carried.                                                        *)
(***************************************************************************)
EXTENDS World, Minima, SequenceTheorems

Player == [id : Ids, x : Int, y : 1..MaxY, lives : 0..Lives]
CrocX == 1 - Max(CrocWidths)..Width - 2
Croc == [x : CrocX, w : CrocWidths]

(* Only a frog in the water is attached: one that stands on the bank and   *)
(* reaches over the first lane with its height is not.                     *)
RidersInWater == \A p \in Places : on[p] # 0 => InWater(players[p])

WorldInv == TypeOK /\ AttachedRides /\ InsideUnlessCarried /\ RidersInWater

-----------------------------------------------------------------------------
(* Minima, maxima and the loop over the players *)

LEMMA MinElement ==
  ASSUME NEW S \in SUBSET Nat, S # {}
  PROVE  Min(S) \in S
  BY LeastExists DEF Min

(* The greatest of some widths: the least of their upper bounds.           *)
LEMMA MaxElement ==
  ASSUME NEW n \in Nat, NEW S \in SUBSET (0..n), S # {}
  PROVE  Max(S) \in S /\ \A o \in S : o <= Max(S)
<1> DEFINE Bounds == {k \in Nat : \A o \in S : o <= k}
<1>1. PICK k \in Bounds : \A j \in Bounds : k <= j
  <2>1. n \in Bounds /\ Bounds \in SUBSET Nat
    OBVIOUS
  <2>2. QED
    BY <2>1, LeastExists
<1>2. k \in S
  <2> SUFFICES ASSUME k \notin S PROVE FALSE
    OBVIOUS
  <2>1. \A o \in S : o < k
    BY <1>1
  <2>2. k - 1 \in Nat /\ \A o \in S : o <= k - 1
    <3>1. PICK o \in S : TRUE
      OBVIOUS
    <3>2. k \in Nat /\ o \in 0..n /\ o < k
      BY <1>1, <2>1
    <3>3. k - 1 \in Nat
      BY <3>2
    <3>4. \A e \in S : e \in 0..n /\ e < k
      BY <2>1
    <3>5. QED
      BY <3>2, <3>3, <3>4
  <2>3. k - 1 \in Bounds
    BY <2>2
  <2>4. QED
    BY <1>1, <2>3
<1>3. \E m \in S : \A o \in S : m >= o
  BY <1>1, <1>2
<1>4. /\ (CHOOSE m \in S : \A o \in S : m >= o) \in S
      /\ \A o \in S : (CHOOSE m \in S : \A o2 \in S : m >= o2) >= o
  BY <1>3
<1>5. QED
  BY <1>4 DEF Max

LEMMA WidestCroc ==
  /\ Max(CrocWidths) \in CrocWidths /\ Max(CrocWidths) \in 1..Width
  /\ \A w \in CrocWidths : w \in 1..Max(CrocWidths)
<1>1. Width \in Nat /\ CrocWidths \in SUBSET (0..Width) /\ CrocWidths # {}
  BY CrocsAssumption, LayoutAssumption
<1>2. Max(CrocWidths) \in CrocWidths /\ \A w \in CrocWidths : w <= Max(CrocWidths)
  BY <1>1, MaxElement
<1>3. Max(CrocWidths) \in 1..Width /\ \A w \in CrocWidths : w \in 1..Width
  BY <1>2, CrocsAssumption
<1>4. QED
  BY <1>1, <1>2, <1>3

(* A property of the naturals up to n that starts at 0 and goes on from    *)
(* each to the next holds for all: G is the set of those that have it.     *)
LEMMA UpTo ==
  ASSUME NEW n \in Nat, NEW G, 0 \in G, \A k \in 0..n - 1 : k \in G => k + 1 \in G
  PROVE  \A k \in 0..n : k \in G
<1> SUFFICES ASSUME NEW k \in 0..n, k \notin G PROVE FALSE
  OBVIOUS
<1> DEFINE Bad == {j \in 0..n : j \notin G}
<1>1. Bad \in SUBSET Nat /\ Bad # {}
  OBVIOUS
<1>2. PICK j \in Bad : \A o \in Bad : j <= o
  BY <1>1, LeastExists
<1>3. j # 0 /\ j - 1 \in 0..n - 1
  BY <1>2
<1>4. j - 1 \in G
  BY <1>2, <1>3
<1>5. QED
  BY <1>2, <1>3, <1>4

(* The loop over the players does what it says.                            *)
LEMMA SettledDef ==
  ASSUME Len(players) \in Nat
  PROVE  \A n \in 0..Len(players) :
           Settled[n] = IF n = 0 THEN Drifted ELSE Settle(Settled[n - 1], n)
<1> DEFINE Step(f, n) == IF n = 0 THEN Drifted ELSE Settle(f[n - 1], n)
           Runs(f, k) == f = [n \in 0..k |-> Step(f, n)]
           G == {k \in 0..Len(players) : \E f : Runs(f, k)}
<1>1. 0 \in G
  <2>1. Runs([n \in 0..0 |-> Drifted], 0)
    OBVIOUS
  <2> HIDE DEF Runs
  <2>2. QED
    BY <2>1
<1>2. ASSUME NEW k \in 0..Len(players) - 1, k \in G PROVE k + 1 \in G
  <2>1. PICK f : Runs(f, k)
    BY <1>2
  <2> DEFINE h == [n \in 0..k + 1 |-> IF n <= k THEN f[n] ELSE Settle(f[k], k + 1)]
  <2>2. \A n \in 0..k + 1 : h[n] = Step(h, n)
    <3> SUFFICES ASSUME NEW n \in 0..k + 1 PROVE h[n] = Step(h, n)
      OBVIOUS
    <3>1. CASE n <= k
      <4>1. n \in 0..k /\ f[n] = Step(f, n) /\ h[n] = f[n]
        BY <2>1, <3>1
      <4>2. n # 0 => n - 1 \in 0..k + 1 /\ n - 1 <= k
        BY <3>1
      <4>3. n # 0 => h[n - 1] = f[n - 1]
        BY <4>2
      <4> HIDE DEF h
      <4>4. QED
        BY <4>1, <4>3
    <3>2. CASE ~(n <= k)
      <4>1. n = k + 1 /\ n # 0 /\ k \in 0..k + 1 /\ n - 1 = k
        BY <3>2
      <4>2. h[n] = Settle(f[k], k + 1) /\ h[k] = f[k]
        BY <4>1
      <4> HIDE DEF h
      <4>3. QED
        BY <4>1, <4>2
    <3>3. QED
      BY <3>1, <3>2
  <2>3. Runs(h, k + 1)
    BY <2>2
  <2> HIDE DEF h, Runs
  <2>4. k + 1 \in 0..Len(players)
    OBVIOUS
  <2>5. QED
    BY <2>3, <2>4
<1>3. \E f : Runs(f, Len(players))
  <2>1. \A k \in 0..Len(players) : k \in G
    <3> HIDE DEF G
    <3>1. QED
      BY <1>1, <1>2, UpTo
  <2>2. QED
    BY <2>1
<1>4. Runs(Settled, Len(players))
  BY <1>3, Zenon DEF Settled
<1>5. QED
  BY <1>4

-----------------------------------------------------------------------------
(* One frog in the loop *)

Loop == [players : [1..Len(players) -> Player], on : [Places -> 0..NumCrocs],
         crocs : [Crocs -> Croc], dens : SUBSET Dens, timer : 0..MaxTime]

(* Frog p of world w rides, or is inside the borders: what the carry leaves *)
(* and, when the frog has been settled, nobody is left on the water.       *)
Riding(w, p) ==
  /\ w.on[p] # 0 => /\ InWater(w.players[p])
                    /\ Overlaps(w.players[p], w.crocs, w.on[p])
  /\ w.on[p] = 0 => w.players[p].x \in 1..MaxX
Landed(w, p) == Riding(w, p) /\ (InWater(w.players[p]) => w.on[p] # 0)

Under(w, p) == {i \in Crocs : Overlaps(w.players[p], w.crocs, i)}
Drowns(w, p) == InWater(w.players[p]) /\ Under(w, p) = {}
Reached(w, p) == DenReached(w.players[p], w.dens)

LEMMA RespawnedType ==
  ASSUME NEW pl \in Player, NEW p \in Places
  PROVE  /\ Respawned(pl, p) \in Player
         /\ Respawned(pl, p).x \in 1..MaxX /\ ~InWater(Respawned(pl, p))
         /\ Respawned(pl, p).lives = pl.lives
<1>1. /\ SpawnX(p) \in 1..MaxX /\ SpawnX(p) \in Int /\ SpawnY \in 1..MaxY
      /\ SpawnY \in Int /\ FloorHeight <= SpawnY /\ FloorHeight \in Nat
  BY LayoutAssumption DEF MaxX, MaxY
<1>2. /\ Respawned(pl, p) \in Player
      /\ Respawned(pl, p).x = SpawnX(p) /\ Respawned(pl, p).y = SpawnY
      /\ Respawned(pl, p).lives = pl.lives
  BY <1>1 DEF Respawned, Player
<1>3. QED
  BY <1>1, <1>2 DEF InWater

LEMMA SettleParts ==
  ASSUME NEW w \in Loop, NEW p \in 1..Len(players)
  PROVE  /\ Settle(w, p).on = [w.on EXCEPT ![p] =
               IF ~InWater(w.players[p]) THEN 0
               ELSE IF Under(w, p) # {} THEN Min(Under(w, p)) ELSE @]
         /\ Settle(w, p).players = [w.players EXCEPT ![p] =
               IF Drowns(w, p)
               THEN [Respawned(w.players[p], p) EXCEPT !.lives = Max({@ - 1, 0})]
               ELSE IF Reached(w, p) # {} THEN Respawned(w.players[p], p)
               ELSE w.players[p]]
         /\ Settle(w, p).dens = IF Reached(w, p) # {} THEN w.dens \cup {Min(Reached(w, p))}
                                ELSE w.dens
         /\ Settle(w, p).timer = IF Drowns(w, p) \/ Reached(w, p) # {} THEN MaxTime
                                 ELSE w.timer
         /\ Settle(w, p).crocs = w.crocs
         /\ Settle(w, p) = [players |-> Settle(w, p).players, on |-> Settle(w, p).on,
                            crocs |-> w.crocs, dens |-> Settle(w, p).dens,
                            timer |-> Settle(w, p).timer]
  BY DEF Settle, Loop, Under, Drowns, Reached

LEMMA LivesLeft ==
  ASSUME NEW n \in 0..Lives
  PROVE  Max({n - 1, 0}) \in 0..Lives
<1>1. Lives \in Nat
  BY RulesAssumption
<1>2. \E m \in {n - 1, 0} : \A o \in {n - 1, 0} : m >= o
  <2>1. CASE n = 0
    BY <2>1
  <2>2. CASE n # 0
    BY <2>2, <1>1
  <2>3. QED
    BY <2>1, <2>2
<1>3. /\ Max({n - 1, 0}) \in {n - 1, 0}
      /\ \A o \in {n - 1, 0} : Max({n - 1, 0}) >= o
  BY <1>2 DEF Max
<1>4. QED
  BY <1>1, <1>3

(* What becomes of frog p: it lands, and the others are left alone.        *)
LEMMA SettlesOne ==
  ASSUME Len(players) \in 0..MaxPlayers,
         NEW w \in Loop, NEW p \in 1..Len(players), Riding(w, p)
  PROVE  /\ Settle(w, p) \in Loop
         /\ Settle(w, p).crocs = w.crocs
         /\ \A q \in Places \ {p} : Settle(w, p).on[q] = w.on[q]
         /\ \A q \in 1..Len(players) :
              q # p => Settle(w, p).players[q] = w.players[q]
         /\ Landed(Settle(w, p), p)
         /\ w.on[p] # 0 => Settle(w, p).players[p] = w.players[p]
<1> DEFINE v == Settle(w, p)
           pl == w.players[p]
<1>1. p \in Places /\ MaxPlayers \in Nat
  BY RulesAssumption DEF Places
<1>0. /\ v.on = [w.on EXCEPT ![p] =
            IF ~InWater(pl) THEN 0
            ELSE IF Under(w, p) # {} THEN Min(Under(w, p)) ELSE @]
      /\ v.players = [w.players EXCEPT ![p] =
            IF Drowns(w, p) THEN [Respawned(pl, p) EXCEPT !.lives = Max({@ - 1, 0})]
            ELSE IF Reached(w, p) # {} THEN Respawned(pl, p) ELSE pl]
      /\ v.dens = IF Reached(w, p) # {} THEN w.dens \cup {Min(Reached(w, p))}
                 ELSE w.dens
      /\ v.timer = IF Drowns(w, p) \/ Reached(w, p) # {} THEN MaxTime ELSE w.timer
      /\ v.crocs = w.crocs
      /\ v = [players |-> v.players, on |-> v.on, crocs |-> w.crocs, dens |-> v.dens,
              timer |-> v.timer]
  BY SettleParts
<1> HIDE DEF v
<1>2. /\ pl \in Player /\ w.on[p] \in 0..NumCrocs /\ w.on \in [Places -> 0..NumCrocs]
      /\ w.players \in [1..Len(players) -> Player]
      /\ w.dens \in SUBSET Dens /\ w.timer \in 0..MaxTime /\ w.crocs \in [Crocs -> Croc]
  BY <1>1 DEF Loop
<1>3. Under(w, p) \in SUBSET Nat /\ Under(w, p) \subseteq Crocs
  BY CrocsAssumption DEF Under, Crocs
<1>4. Under(w, p) # {} => Min(Under(w, p)) \in Crocs /\ Min(Under(w, p)) \in Under(w, p)
  BY <1>3, MinElement
<1>5. Reached(w, p) # {} => Min(Reached(w, p)) \in Dens
  <2>1. Reached(w, p) \in SUBSET Nat /\ Reached(w, p) \subseteq Dens
    BY RulesAssumption DEF Reached, DenReached, Dens
  <2>2. QED
    BY <2>1, MinElement
<1>6. Reached(w, p) # {} => ~InWater(pl)
  <2>1. Reached(w, p) # {} => pl.y <= 1
    BY Zenon DEF Reached, DenReached
  <2>2. pl.y \in Int
    BY <1>2 DEF Player
  <2>3. QED
    BY <2>1, <2>2, LayoutAssumption DEF InWater
<1>7. w.on[p] # 0 => ~Drowns(w, p) /\ Reached(w, p) = {}
  <2>1. w.on[p] # 0 => w.on[p] \in Crocs
    BY <1>2, CrocsAssumption DEF Crocs
  <2>2. QED
    BY <2>1, <1>6 DEF Riding, Drowns, Under
<1>8. v.on \in [Places -> 0..NumCrocs] /\ v.players \in [1..Len(players) -> Player]
  <2>1. v.on \in [Places -> 0..NumCrocs]
    BY <1>1, <1>2, <1>4, <1>0, CrocsAssumption DEF Crocs
  <2>2. Respawned(pl, p) \in Player
        /\ [Respawned(pl, p) EXCEPT !.lives = Max({@ - 1, 0})] \in Player
    <3>1. Respawned(pl, p) \in Player /\ Respawned(pl, p).lives \in 0..Lives
      BY <1>1, <1>2, RespawnedType DEF Player
    <3>2. QED
      BY <3>1, LivesLeft DEF Player
  <2>3. QED
    BY <2>1, <2>2, <1>2, <1>0
<1>9. v \in Loop
  <2>1. v.dens \in SUBSET Dens /\ v.timer \in 0..MaxTime
    BY <1>2, <1>5, <1>0, RulesAssumption
  <2>2. v = [players |-> v.players, on |-> v.on, crocs |-> w.crocs, dens |-> v.dens,
             timer |-> v.timer]
    BY <1>0
  <2>3. QED
    BY <2>1, <2>2, <1>2, <1>8 DEF Loop
<1>10. Landed(v, p)
  <2>1. CASE Drowns(w, p) \/ Reached(w, p) # {}
    <3>1. v.players[p].x \in 1..MaxX /\ ~InWater(v.players[p])
      BY <1>1, <1>2, <2>1, RespawnedType, <1>0 DEF InWater, Player
    <3>2. v.on[p] = 0
      BY <1>1, <1>2, <1>6, <1>7, <2>1, <1>0 DEF Drowns
    <3>3. QED
      BY <3>1, <3>2 DEF Landed, Riding
  <2>2. CASE ~Drowns(w, p) /\ Reached(w, p) = {}
    <3>1. v.players[p] = pl /\ v.crocs = w.crocs
      BY <1>2, <2>2, <1>0
    <3>2. CASE InWater(pl)
      <4>1. v.on[p] = Min(Under(w, p)) /\ Min(Under(w, p)) \in Under(w, p)
        BY <1>1, <1>2, <1>4, <2>2, <3>2, <1>0 DEF Drowns
      <4>2. v.on[p] # 0 /\ Overlaps(pl, w.crocs, v.on[p])
        BY <4>1 DEF Under, Crocs
      <4>3. QED
        BY <3>1, <3>2, <4>2 DEF Landed, Riding
    <3>3. CASE ~InWater(pl)
      <4>1. v.on[p] = 0 /\ w.on[p] = 0
        BY <1>1, <1>2, <3>3, <1>0 DEF Riding
      <4>2. QED
        BY <3>1, <3>3, <4>1 DEF Landed, Riding
    <3>4. QED
      BY <3>2, <3>3
  <2>3. QED
    BY <2>1, <2>2
<1>11. QED
  BY <1>1, <1>2, <1>7, <1>9, <1>10, <1>0 DEF v

-----------------------------------------------------------------------------
(* The carry, and the whole loop *)

LEMMA MovedType ==
  ASSUME TypeOK, NEW i \in Crocs
  PROVE  Moved(i) \in CrocX
<1>1. /\ crocs[i].x \in CrocX /\ crocs[i].w \in CrocWidths
      /\ crocs[i].w \in 1..Max(CrocWidths) /\ Max(CrocWidths) \in 1..Width
  BY WidestCroc DEF TypeOK, CrocX
<1>2. Width \in Nat /\ Width >= 4
  BY LayoutAssumption
<1>3. \/ Moved(i) = crocs[i].x
      \/ /\ crocs[i].x + 1 + crocs[i].w >= Width - 1
         /\ Moved(i) = 1 - crocs[i].w
      \/ /\ ~(crocs[i].x + 1 + crocs[i].w >= Width - 1)
         /\ Moved(i) = crocs[i].x + 1
      \/ crocs[i].x - 1 <= 0 /\ Moved(i) = Width - 2
      \/ ~(crocs[i].x - 1 <= 0) /\ Moved(i) = crocs[i].x - 1
  BY Zenon DEF Moved
<1>4. QED
  BY <1>1, <1>2, <1>3 DEF CrocX

LEMMA TypeParts ==
  ASSUME TypeOK
  PROVE  /\ Len(players) \in 0..MaxPlayers /\ DOMAIN players = 1..Len(players)
         /\ players \in [1..Len(players) -> Player]
         /\ on \in [Places -> 0..NumCrocs] /\ crocs \in [Crocs -> Croc]
         /\ dens \in SUBSET Dens /\ timer \in 0..MaxTime
         /\ 1..Len(players) \subseteq Places
<1>1. players \in Seq(Player) /\ Len(players) <= MaxPlayers /\ MaxPlayers \in Nat
  BY RulesAssumption DEF TypeOK, Player
<1>2. Len(players) \in Nat /\ DOMAIN players = 1..Len(players)
      /\ players \in [1..Len(players) -> Player]
  BY <1>1
<1>3. QED
  BY <1>1, <1>2 DEF TypeOK, Croc, CrocX, Places

LEMMA CarriedOn ==
  ASSUME TypeOK, NEW p \in 1..Len(players)
  PROVE  /\ Carried(p) \in Player
         /\ on[p] = 0 => Carried(p) = players[p]
         /\ on[p] # 0 => /\ on[p] \in Crocs
                         /\ Carried(p).x = players[p].x + Moved(on[p]) - crocs[on[p]].x
                         /\ Carried(p).y = players[p].y
                         /\ Carried(p).lives = players[p].lives
<1>1. players[p] \in Player /\ on[p] \in 0..NumCrocs
  BY TypeParts
<1>2. on[p] # 0 => on[p] \in Crocs
  BY <1>1, CrocsAssumption DEF Crocs
<1>3. on[p] # 0 => Moved(on[p]) \in Int /\ crocs[on[p]].x \in Int
  <2> SUFFICES ASSUME on[p] # 0 PROVE Moved(on[p]) \in Int /\ crocs[on[p]].x \in Int
    OBVIOUS
  <2>1. Moved(on[p]) \in CrocX /\ crocs[on[p]].x \in CrocX
    BY <1>2, MovedType, TypeParts DEF Croc
  <2>2. Max(CrocWidths) \in Int /\ Width \in Int
    BY WidestCroc, LayoutAssumption
  <2>3. QED
    BY <2>1, <2>2 DEF CrocX
<1>4. CASE on[p] = 0
  BY <1>1, <1>4 DEF Carried
<1>5. CASE on[p] # 0
  <2> DEFINE x == players[p].x + Moved(on[p]) - crocs[on[p]].x
  <2>1. Carried(p) = [players[p] EXCEPT !.x = x]
    BY <1>5 DEF Carried
  <2>2. x \in Int
    BY <1>1, <1>3, <1>5 DEF Player
  <2> HIDE DEF x
  <2>3. Carried(p) \in Player /\ Carried(p).x = x /\ Carried(p).y = players[p].y
        /\ Carried(p).lives = players[p].lives
    BY <1>1, <2>1, <2>2 DEF Player
  <2>4. QED
    BY <1>2, <1>5, <2>3 DEF x
<1>6. QED
  BY <1>4, <1>5

LEMMA DriftedRides ==
  ASSUME WorldInv
  PROVE  /\ Drifted \in Loop
         /\ \A p \in 1..Len(players) : Riding(Drifted, p)
<1>1. TypeOK
  BY DEF WorldInv
<1>2. Drifted \in Loop
  <2>1. \A p \in DOMAIN players : Carried(p) \in Player
    BY <1>1, CarriedOn, TypeParts
  <2>2. \A i \in Crocs : [crocs[i] EXCEPT !.x = Moved(i)] \in Croc
    BY <1>1, MovedType, TypeParts DEF Croc
  <2>3. (IF tick % TimerEvery = 0 /\ timer > 0 THEN timer - 1 ELSE timer) \in 0..MaxTime
    <3>1. timer \in 0..MaxTime /\ MaxTime \in Nat
      BY <1>1, RulesAssumption DEF TypeOK
    <3>2. QED
      BY <3>1
  <2>4. QED
    BY <1>1, <2>1, <2>2, <2>3, TypeParts DEF Drifted, Loop
<1>3. ASSUME NEW p \in 1..Len(players) PROVE Riding(Drifted, p)
  <2>1. /\ p \in Places /\ p \in DOMAIN players
        /\ Drifted.on[p] = on[p] /\ Drifted.players[p] = Carried(p)
    BY <1>1, TypeParts DEF Drifted
  <2>2. CASE on[p] = 0
    <3>1. Carried(p) = players[p] /\ players[p].x \in 1..MaxX
      BY <1>1, <2>1, <2>2, CarriedOn DEF WorldInv, InsideUnlessCarried
    <3>2. QED
      BY <2>1, <2>2, <3>1 DEF Riding
  <2>3. CASE on[p] # 0
    <3> DEFINE i == on[p]
               pl == players[p]
               q == Carried(p)
    <3>1. /\ i \in Crocs /\ q.x = pl.x + Moved(i) - crocs[i].x /\ q.y = pl.y
      BY <1>1, <2>3, CarriedOn
    <3>2. InWater(pl) /\ Overlaps(pl, crocs, i)
      BY <2>1, <2>3 DEF WorldInv, RidersInWater, AttachedRides
    <3>3. InWater(q)
      BY <3>1, <3>2 DEF InWater
    <3>4. Drifted.crocs[i].x = Moved(i) /\ Drifted.crocs[i].w = crocs[i].w
      BY <1>1, <3>1, TypeParts DEF Drifted, Croc
    <3>5. /\ pl.x \in Int /\ crocs[i].x \in Int /\ crocs[i].w \in Int
          /\ Moved(i) \in Int /\ FrogW \in Int
      <4>1. /\ pl.x \in Int /\ crocs[i].x \in CrocX /\ Moved(i) \in CrocX
            /\ crocs[i].w \in CrocWidths
        BY <1>1, <3>1, MovedType, TypeParts DEF Croc, Player
      <4>2. Max(CrocWidths) \in Int /\ Width \in Int /\ \A w \in CrocWidths : w \in Int
        BY WidestCroc, LayoutAssumption
      <4>3. QED
        BY <4>1, <4>2, LayoutAssumption DEF CrocX
    <3>6. /\ q.x < Drifted.crocs[i].x + Drifted.crocs[i].w
          /\ q.x + FrogW > Drifted.crocs[i].x
      <4>1. pl.x < crocs[i].x + crocs[i].w /\ pl.x + FrogW > crocs[i].x
        BY <3>2 DEF Overlaps
      <4> HIDE DEF q, i, pl
      <4>2. QED
        BY <4>1, <3>1, <3>4, <3>5
    <3>7. Overlaps(q, Drifted.crocs, i)
      BY <3>1, <3>2, <3>6 DEF Overlaps
    <3>8. QED
      BY <2>1, <2>3, <3>3, <3>7 DEF Riding
  <2>4. QED
    BY <2>2, <2>3
<1>4. QED
  BY <1>2, <1>3

(* After the first n frogs: they have landed, the others still ride, and   *)
(* whoever was carried is where the carry left it.                         *)
Through(n) ==
  /\ Settled[n] \in Loop
  /\ Settled[n].crocs = Drifted.crocs
  /\ \A p \in 1..Len(players) : Riding(Settled[n], p)
  /\ \A p \in 1..n : Landed(Settled[n], p)
  /\ \A p \in 1..Len(players) : on[p] # 0 => Settled[n].players[p] = Carried(p)
  /\ \A p \in n + 1..Len(players) : Settled[n].on[p] = on[p]
  /\ \A p \in Places : p > Len(players) => Settled[n].on[p] = on[p]

LEMMA LoopDone == WorldInv => Through(Len(players))
<1> SUFFICES ASSUME WorldInv PROVE Through(Len(players))
  OBVIOUS
<1>1. /\ TypeOK /\ Len(players) \in 0..MaxPlayers /\ Len(players) \in Nat
      /\ 1..Len(players) \subseteq Places /\ DOMAIN players = 1..Len(players)
  BY TypeParts, RulesAssumption DEF WorldInv
<1>2. \A n \in 0..Len(players) :
        Settled[n] = IF n = 0 THEN Drifted ELSE Settle(Settled[n - 1], n)
  BY <1>1, SettledDef
<1>3. Through(0)
  <2>1. Settled[0] = Drifted
    BY <1>1, <1>2
  <2>2. \A p \in 1..Len(players) : Drifted.players[p] = Carried(p)
    BY <1>1 DEF Drifted
  <2>3. Drifted.on = on
    BY DEF Drifted
  <2>4. QED
    BY <2>1, <2>2, <2>3, DriftedRides DEF Through
<1>4. ASSUME NEW n \in 0..Len(players) - 1, Through(n) PROVE Through(n + 1)
  <2> DEFINE w == Settled[n]
             v == Settle(w, n + 1)
  <2>1. Settled[n + 1] = v
    <3>1. n + 1 \in 0..Len(players) /\ n + 1 # 0 /\ (n + 1) - 1 = n
      BY <1>1
    <3>2. QED
      BY <1>2, <3>1
  <2>2. w \in Loop /\ n + 1 \in 1..Len(players) /\ n + 1 \in Places /\ Riding(w, n + 1)
    BY <1>1, <1>4 DEF Through
  <2>3. /\ v \in Loop /\ v.crocs = w.crocs
        /\ \A q \in Places \ {n + 1} : v.on[q] = w.on[q]
        /\ \A q \in 1..Len(players) : q # n + 1 => v.players[q] = w.players[q]
        /\ Landed(v, n + 1)
        /\ w.on[n + 1] # 0 => v.players[n + 1] = w.players[n + 1]
    <3> HIDE DEF w
    <3>1. QED
      BY <1>1, <2>2, SettlesOne
  <2>4. /\ w.crocs = Drifted.crocs
        /\ \A p \in 1..Len(players) : Riding(w, p)
        /\ \A p \in 1..n : Landed(w, p)
        /\ \A p \in 1..Len(players) : on[p] # 0 => w.players[p] = Carried(p)
        /\ \A p \in n + 1..Len(players) : w.on[p] = on[p]
        /\ \A p \in Places : p > Len(players) => w.on[p] = on[p]
    BY <1>4 DEF Through
  <2> HIDE DEF w, v
  <2>5. \A p \in 1..Len(players) : p # n + 1 =>
          (Riding(w, p) => Riding(v, p)) /\ (Landed(w, p) => Landed(v, p))
    BY <1>1, <2>3 DEF Landed, Riding
  <2>6. \A p \in 1..Len(players) : Riding(v, p)
    BY <2>3, <2>4, <2>5 DEF Landed
  <2>7. \A p \in 1..n + 1 : Landed(v, p)
    BY <1>1, <2>3, <2>4, <2>5
  <2>8. \A p \in 1..Len(players) : on[p] # 0 => v.players[p] = Carried(p)
    <3> SUFFICES ASSUME NEW p \in 1..Len(players), on[p] # 0
                 PROVE  v.players[p] = Carried(p)
      OBVIOUS
    <3>1. CASE p = n + 1
      BY <2>2, <2>3, <2>4, <3>1
    <3>2. CASE p # n + 1
      BY <2>3, <2>4, <3>2
    <3>3. QED
      BY <3>1, <3>2
  <2>9. \A p \in (n + 1) + 1..Len(players) : v.on[p] = on[p]
    BY <1>1, <2>3, <2>4
  <2>10. \A p \in Places : p > Len(players) => v.on[p] = on[p]
    BY <1>1, <2>2, <2>3, <2>4
  <2>11. QED
    BY <2>1, <2>3, <2>4, <2>6, <2>7, <2>8, <2>9, <2>10 DEF Through
<1>5. \A k \in 0..Len(players) : Through(k)
  <2> DEFINE G == {k \in 0..Len(players) : Through(k)}
  <2>1. 0 \in G
    BY <1>1, <1>3
  <2>2. ASSUME NEW k \in 0..Len(players) - 1, k \in G PROVE k + 1 \in G
    BY <1>1, <1>4, <2>2
  <2>3. \A k \in 0..Len(players) : k \in G
    <3> HIDE DEF G
    <3>1. QED
      BY <1>1, <2>1, <2>2, UpTo
  <2>4. QED
    BY <2>3
<1>6. QED
  BY <1>1, <1>5

-----------------------------------------------------------------------------
(* The actions *)

LEMMA WorldInit == Init => WorldInv
<1> SUFFICES ASSUME Init PROVE WorldInv
  OBVIOUS
<1>1. players = <<>> /\ Len(players) = 0 /\ DOMAIN players = {}
      /\ \A p \in Places : on[p] = 0
  BY DEF Init
<1>2. \A i \in Crocs : crocs[i] \in Croc
  <2> SUFFICES ASSUME NEW i \in Crocs PROVE crocs[i] \in Croc
    OBVIOUS
  <2>1. /\ crocs[i] \in [x : 0..(3 * Width) \div 4, w : CrocWidths]
        /\ crocs[i].x \in IF i % 2 = 1 THEN 0..(Width \div 4) - 1
                       ELSE Width \div 2..(Width \div 2) + (Width \div 4) - 1
    BY Zenon DEF Init
  <2>2. /\ Width \in Nat /\ Width >= 4
        /\ Width \div 2 \in Nat /\ Width \div 4 \in Nat
        /\ Width \div 4 <= Width - 1
        /\ Width \div 2 + Width \div 4 <= Width - 1
    BY LayoutAssumption
  <2>3. \/ crocs[i].x \in 0..(Width \div 4) - 1
        \/ crocs[i].x \in Width \div 2..(Width \div 2) + (Width \div 4) - 1
    BY <2>1, Zenon
  <2>4. crocs[i].x \in 0..Width - 2
    BY <2>2, <2>3
  <2>5. crocs[i].x \in CrocX
    BY <2>2, <2>4, WidestCroc DEF CrocX
  <2>6. QED
    BY <2>1, <2>5 DEF Croc
<1>3. crocs \in [Crocs -> Croc]
  <2>1. crocs \in [Crocs -> [x : 0..(3 * Width) \div 4, w : CrocWidths]]
    BY Zenon DEF Init
  <2>2. QED
    BY <1>2, <2>1
<1>4. TypeOK
  <2>1. tick \in 0..Period - 1 /\ timer \in 0..MaxTime /\ dens \subseteq Dens
    BY RulesAssumption DEF Init
  <2>2. on \in [Places -> 0..NumCrocs]
    BY CrocsAssumption DEF Init
  <2>3. players \in Seq(Player) /\ Len(players) <= MaxPlayers
    BY <1>1, RulesAssumption
  <2>4. QED
    BY <1>3, <2>1, <2>2, <2>3 DEF TypeOK, Player, Croc, CrocX
<1>5. QED
  BY <1>1, <1>4 DEF WorldInv, AttachedRides, InsideUnlessCarried, RidersInWater

LEMMA IndexRange ==
  ASSUME TypeOK, NEW id
  PROVE  IndexOf(id) \in 0..Len(players)
<1> DEFINE I == {i \in 1..Len(players) : players[i].id = id}
<1>1. IndexOf(id) = IF I # {} THEN Min(I) ELSE 0
  BY DEF IndexOf, SelectInSeq
<1>2. Len(players) \in Nat /\ I \in SUBSET Nat
  BY TypeParts
<1>3. I # {} => Min(I) \in I
  BY <1>2, MinElement
<1>4. QED
  BY <1>1, <1>2, <1>3

LEMMA AddKeeps ==
  ASSUME WorldInv, NEW id \in Ids, AddPlayer(id)
  PROVE  WorldInv'
<1> DEFINE n == Len(players)
           new == [id |-> id, x |-> SpawnX(n + 1), y |-> SpawnY, lives |-> Lives]
<1>1. /\ TypeOK /\ n \in Nat /\ n < MaxPlayers /\ n + 1 \in Places /\ MaxPlayers \in Nat
      /\ players' = Append(players, new) /\ on' = [on EXCEPT ![n + 1] = 0]
      /\ UNCHANGED <<tick, crocs, dens, timer>>
  BY TypeParts, RulesAssumption DEF WorldInv, AddPlayer, Places
<1>2. new \in Player /\ new.x \in 1..MaxX
  <2>1. SpawnX(n + 1) \in 1..MaxX /\ MaxX \in Int /\ SpawnY \in 1..MaxY /\ Lives \in Nat
    BY <1>1, LayoutAssumption, RulesAssumption DEF MaxX
  <2>2. SpawnX(n + 1) \in Int /\ Lives \in 0..Lives
    BY <2>1
  <2>3. QED
    BY <2>1, <2>2 DEF Player
<1> HIDE DEF new
<1>3. players \in Seq(Player)
  BY <1>1 DEF TypeOK, Player
<1>4. /\ players' \in Seq(Player) /\ Len(players') = n + 1
      /\ DOMAIN players' = 1..n + 1 /\ DOMAIN players = 1..n
      /\ players'[n + 1] = new /\ \A p \in 1..n : players'[p] = players[p]
  BY <1>1, <1>2, <1>3
<1>5. on' \in [Places -> 0..NumCrocs]
      /\ on'[n + 1] = 0 /\ \A p \in Places : p # n + 1 => on'[p] = on[p]
  BY <1>1, CrocsAssumption DEF TypeOK
<1>6. TypeOK'
  BY <1>1, <1>4, <1>5 DEF TypeOK, Player
<1>7. AttachedRides' /\ RidersInWater'
  <2> SUFFICES ASSUME NEW p \in Places, on'[p] # 0
               PROVE  /\ p <= Len(players') /\ Overlaps(players'[p], crocs', on'[p])
                      /\ InWater(players'[p])
    BY DEF AttachedRides, RidersInWater
  <2>1. p # n + 1 /\ on'[p] = on[p] /\ on[p] # 0
    BY <1>5
  <2>2. p <= n /\ p \in 1..n /\ Overlaps(players[p], crocs, on[p]) /\ InWater(players[p])
    BY <1>1, <2>1 DEF WorldInv, AttachedRides, RidersInWater, Places
  <2>3. QED
    BY <1>1, <1>4, <2>1, <2>2
<1>8. InsideUnlessCarried'
  <2> SUFFICES ASSUME NEW p \in DOMAIN players', on'[p] = 0
               PROVE  players'[p].x \in 1..MaxX
    BY DEF InsideUnlessCarried
  <2>1. CASE p = n + 1
    BY <1>2, <1>4, <2>1
  <2>2. CASE p # n + 1
    <3>1. p \in 1..n /\ p \in DOMAIN players /\ p \in Places
      BY <1>1, <1>4, <2>2 DEF Places
    <3>2. QED
      BY <1>4, <1>5, <2>2, <3>1 DEF WorldInv, InsideUnlessCarried
  <2>3. QED
    BY <2>1, <2>2
<1>9. QED
  BY <1>6, <1>7, <1>8 DEF WorldInv

(* The players behind the one that leaves move up, and their attachments   *)
(* with them.                                                              *)
LEMMA RemoveKeeps ==
  ASSUME WorldInv, NEW id \in Ids, RemovePlayer(id)
  PROVE  WorldInv'
<1> DEFINE n == Len(players)
           k == IndexOf(id)
<1>1. /\ TypeOK /\ n \in Nat /\ n <= MaxPlayers /\ MaxPlayers \in Nat /\ k \in 1..n
      /\ on' = Collapse(k)
      /\ UNCHANGED <<tick, crocs, dens, timer>>
  <2>1. TypeOK /\ k # 0
    BY DEF WorldInv, RemovePlayer
  <2>2. k \in 0..n
    BY <2>1, IndexRange
  <2>3. QED
    BY <2>1, <2>2, TypeParts, RulesAssumption DEF RemovePlayer, RemoveAt
<1>9. players' = SubSeq(players, 1, k - 1) \o SubSeq(players, k + 1, n)
  BY DEF RemovePlayer, RemoveAt
<1> HIDE DEF k
<1>2. players \in Seq(Player)
  BY <1>1 DEF TypeOK, Player
<1>3. /\ players' \in Seq(Player) /\ Len(players') = n - 1
      /\ DOMAIN players' = 1..n - 1 /\ DOMAIN players = 1..n
      /\ \A p \in 1..n - 1 : players'[p] = IF p < k THEN players[p] ELSE players[p + 1]
  <2> DEFINE s == SubSeq(players, 1, k - 1)
             t == SubSeq(players, k + 1, n)
  <2>1. /\ s \in Seq(Player) /\ Len(s) = k - 1 /\ \A p \in 1..k - 1 : s[p] = players[p]
        /\ t \in Seq(Player) /\ Len(t) = n - k
        /\ \A p \in 1..n - k : t[p] = players[p + k]
    BY <1>1, <1>2
  <2> HIDE DEF s, t
  <2>2. /\ s \o t \in Seq(Player) /\ Len(s \o t) = (k - 1) + (n - k)
        /\ \A p \in 1..(k - 1) + (n - k) :
             (s \o t)[p] = IF p <= k - 1 THEN s[p] ELSE t[p - (k - 1)]
    <3>1. /\ s \o t \in Seq(Player) /\ Len(s \o t) = Len(s) + Len(t)
          /\ \A p \in 1..Len(s) + Len(t) :
               (s \o t)[p] = IF p <= Len(s) THEN s[p] ELSE t[p - Len(s)]
      BY <2>1, ConcatProperties
    <3>2. QED
      BY <2>1, <3>1
  <2>3. players' = s \o t
    BY <1>9 DEF s, t
  <2>4. \A p \in 1..n - 1 : players'[p] = IF p < k THEN players[p] ELSE players[p + 1]
    <3> SUFFICES ASSUME NEW p \in 1..n - 1
                 PROVE  players'[p] = IF p < k THEN players[p] ELSE players[p + 1]
      OBVIOUS
    <3>1. CASE p < k
      BY <1>1, <2>1, <2>2, <2>3, <3>1
    <3>2. CASE ~(p < k)
      <4>1. p - (k - 1) \in 1..n - k /\ (p - (k - 1)) + k = p + 1 /\ ~(p <= k - 1)
            /\ p \in 1..(k - 1) + (n - k)
        BY <1>1, <3>2
      <4>2. QED
        BY <2>1, <2>2, <2>3, <3>2, <4>1
    <3>3. QED
      BY <3>1, <3>2
  <2>5. players' \in Seq(Player) /\ Len(players') = n - 1
    BY <1>1, <2>2, <2>3
  <2>6. DOMAIN players' = 1..n - 1 /\ DOMAIN players = 1..n
    BY <1>2, <2>5, LenProperties
  <2>7. QED
    BY <2>4, <2>5, <2>6
<1>4. /\ on' \in [Places -> 0..NumCrocs]
      /\ \A p \in Places : on'[p] # 0 =>
           /\ p \in 1..n - 1
           /\ on'[p] = IF p < k THEN on[p] ELSE on[p + 1]
  <2>1. on \in [Places -> 0..NumCrocs] /\ NumCrocs \in Nat
    BY <1>1, CrocsAssumption DEF TypeOK
  <2>2. \A p \in Places : on[p] # 0 => p <= n
    BY DEF WorldInv, AttachedRides
  <2>3. \A p \in Places : on'[p] = IF p = n THEN 0
                                   ELSE IF k <= p /\ p < MaxPlayers THEN on[p + 1]
                                   ELSE on[p]
    BY <1>1 DEF Collapse
  <2>4. \A p \in Places : p < MaxPlayers => p + 1 \in Places
    BY <1>1 DEF Places
  <2>5. ASSUME NEW p \in Places
        PROVE  /\ on'[p] \in 0..NumCrocs
               /\ on'[p] # 0 => /\ p \in 1..n - 1
                                /\ on'[p] = IF p < k THEN on[p] ELSE on[p + 1]
    <3>1. p \in Nat /\ 1 <= p /\ p <= MaxPlayers
      BY <1>1 DEF Places
    <3>2. CASE p = n
      BY <2>1, <2>3, <3>2
    <3>3. CASE p # n /\ k <= p /\ p < MaxPlayers
      BY <1>1, <2>1, <2>2, <2>3, <2>4, <3>1, <3>3
    <3>4. CASE p # n /\ ~(k <= p /\ p < MaxPlayers)
      BY <1>1, <2>1, <2>2, <2>3, <3>1, <3>4
    <3>5. QED
      BY <3>2, <3>3, <3>4
  <2>6. DOMAIN on' = Places /\ on' = [p \in Places |-> on'[p]]
    BY <1>1 DEF Collapse
  <2>7. QED
    BY <2>5, <2>6
<1>5. TypeOK'
  <2>1. Len(players') <= MaxPlayers /\ players' \in Seq(Player)
    BY <1>1, <1>3
  <2>2. on' \in [Places -> 0..NumCrocs]
    BY <1>4
  <2>3. QED
    BY <1>1, <2>1, <2>2 DEF TypeOK, Player
<1>6. AttachedRides' /\ RidersInWater'
  <2> SUFFICES ASSUME NEW p \in Places, on'[p] # 0
               PROVE  /\ p <= Len(players') /\ Overlaps(players'[p], crocs', on'[p])
                      /\ InWater(players'[p])
    BY DEF AttachedRides, RidersInWater
  <2> DEFINE q == IF p < k THEN p ELSE p + 1
  <2>1. p \in 1..n - 1 /\ q \in Places /\ on'[p] = on[q] /\ on[q] # 0
        /\ players'[p] = players[q]
    BY <1>1, <1>3, <1>4 DEF Places
  <2>2. Overlaps(players[q], crocs, on[q]) /\ InWater(players[q])
    BY <2>1 DEF WorldInv, AttachedRides, RidersInWater
  <2>3. QED
    BY <1>1, <1>3, <2>1, <2>2
<1>7. InsideUnlessCarried'
  <2> SUFFICES ASSUME NEW p \in DOMAIN players', on'[p] = 0
               PROVE  players'[p].x \in 1..MaxX
    BY DEF InsideUnlessCarried
  <2> DEFINE q == IF p < k THEN p ELSE p + 1
  <2>1. p \in 1..n - 1 /\ p \in Places /\ q \in DOMAIN players /\ q \in Places
        /\ players'[p] = players[q]
    BY <1>1, <1>3 DEF Places
  <2>2. on[q] = 0
    <3>1. on'[p] = IF k <= p /\ p < MaxPlayers THEN on[p + 1] ELSE on[p]
      BY <1>1, <2>1 DEF Collapse
    <3>2. QED
      BY <1>1, <2>1, <3>1
  <2>3. QED
    BY <2>1, <2>2 DEF WorldInv, InsideUnlessCarried
<1>8. QED
  BY <1>5, <1>6, <1>7 DEF WorldInv

LEMMA InputKeeps ==
  ASSUME WorldInv, NEW id \in Ids, NEW d \in Moves, ApplyInput(id, d)
  PROVE  WorldInv'
<1> DEFINE k == IndexOf(id)
           nx == Clamp(players[k].x + d[1], 1, MaxX)
           ny == Clamp(players[k].y + d[2], 1, MaxY)
<1>1. /\ TypeOK /\ k \in 1..Len(players) /\ Len(players) \in Nat /\ k \in Places
      /\ players' = [players EXCEPT ![k].x = nx, ![k].y = ny]
      /\ on' = [on EXCEPT ![k] = 0]
      /\ UNCHANGED <<tick, crocs, dens, timer>>
  <2>1. TypeOK /\ k # 0
    BY DEF WorldInv, ApplyInput
  <2>2. k \in 0..Len(players)
    BY <2>1, IndexRange
  <2>3. QED
    BY <2>1, <2>2, TypeParts DEF ApplyInput
<1>2. /\ players \in Seq(Player) /\ players[k] \in Player
      /\ on \in [Places -> 0..NumCrocs] /\ NumCrocs \in Nat
  BY <1>1, TypeParts, CrocsAssumption DEF TypeOK, Player
<1>3. nx \in 1..MaxX /\ nx \in Int /\ ny \in 1..MaxY
  <2>1. d[1] \in Int /\ d[2] \in Int
    BY DEF Moves
  <2>2. MaxX \in Int /\ MaxX >= 1 /\ MaxY \in Int /\ MaxY >= 1
    BY LayoutAssumption DEF MaxX, MaxY, SpawnY
  <2>3. players[k].x \in Int /\ players[k].y \in Int
    BY <1>2, <2>2 DEF Player
  <2>4. QED
    BY <2>1, <2>2, <2>3 DEF Clamp
<1> DEFINE moved == [players[k] EXCEPT !.x = nx, !.y = ny]
<1> HIDE DEF k, nx, ny
<1>4. moved \in Player /\ moved.x = nx
  BY <1>2, <1>3 DEF Player
<1>5. players' = [players EXCEPT ![k] = moved]
  BY <1>1, <1>2
<1> HIDE DEF moved
<1>6. /\ players' \in Seq(Player) /\ Len(players') = Len(players)
      /\ DOMAIN players' = DOMAIN players /\ DOMAIN players = 1..Len(players)
      /\ players'[k] = moved
      /\ \A p \in 1..Len(players) : p # k => players'[p] = players[p]
  <2>1. k \in 1..Len(players) /\ DOMAIN players = 1..Len(players)
    BY <1>1, <1>2, LenProperties
  <2>2. /\ players' \in Seq(Player) /\ Len(players') = Len(players)
        /\ \A p \in 1..Len(players) : players'[p] = IF p = k THEN moved ELSE players[p]
    BY <1>2, <1>4, <1>5, <2>1, ExceptSeq
  <2>3. DOMAIN players' = 1..Len(players)
    BY <2>2, LenProperties
  <2>4. QED
    BY <2>1, <2>2, <2>3
<1>7. /\ on' \in [Places -> 0..NumCrocs] /\ on'[k] = 0
      /\ \A p \in Places : p # k => on'[p] = on[p]
  BY <1>1, <1>2
<1>8. TypeOK'
  BY <1>1, <1>6, <1>7 DEF TypeOK, Player
<1>9. AttachedRides' /\ RidersInWater'
  <2> SUFFICES ASSUME NEW p \in Places, on'[p] # 0
               PROVE  /\ p <= Len(players') /\ Overlaps(players'[p], crocs', on'[p])
                      /\ InWater(players'[p])
    BY DEF AttachedRides, RidersInWater
  <2>1. p # k /\ on'[p] = on[p] /\ on[p] # 0
    BY <1>7
  <2>2. p <= Len(players) /\ p \in 1..Len(players)
        /\ Overlaps(players[p], crocs, on[p]) /\ InWater(players[p])
    BY <1>1, <2>1 DEF WorldInv, AttachedRides, RidersInWater, Places
  <2>3. QED
    BY <1>1, <1>6, <2>1, <2>2
<1>10. InsideUnlessCarried'
  <2> SUFFICES ASSUME NEW p \in DOMAIN players', on'[p] = 0
               PROVE  players'[p].x \in 1..MaxX
    BY DEF InsideUnlessCarried
  <2>1. CASE p = k
    BY <1>3, <1>4, <1>6, <2>1
  <2>2. CASE p # k
    <3>1. p \in 1..Len(players) /\ p \in DOMAIN players /\ p \in Places
      BY <1>1, <1>6, TypeParts
    <3>2. QED
      BY <1>6, <1>7, <2>2, <3>1 DEF WorldInv, InsideUnlessCarried
  <2>3. QED
    BY <2>1, <2>2
<1>11. QED
  BY <1>8, <1>9, <1>10 DEF WorldInv

LEMMA UpdateKeeps ==
  ASSUME WorldInv, Update
  PROVE  WorldInv'
<1> DEFINE n == Len(players)
           end == Settled[n]
<1>1. /\ TypeOK /\ n \in 0..MaxPlayers /\ n \in Nat /\ MaxPlayers \in Nat
      /\ 1..n \subseteq Places /\ DOMAIN players = 1..n
  BY TypeParts, RulesAssumption DEF WorldInv
<1>2. Through(n)
  BY LoopDone
<1>3. /\ players' = end.players /\ on' = end.on /\ crocs' = end.crocs
      /\ dens' = end.dens /\ timer' = end.timer /\ tick' = (tick + 1) % Period
  BY DEF Update
<1>4. end \in Loop
  BY <1>2 DEF Through
<1> HIDE DEF end
<1>5. /\ players' \in [1..n -> Player] /\ on' \in [Places -> 0..NumCrocs]
      /\ crocs' \in [Crocs -> Croc] /\ dens' \in SUBSET Dens /\ timer' \in 0..MaxTime
  BY <1>3, <1>4 DEF Loop
<1>6. players' \in Seq(Player) /\ Len(players') = n /\ DOMAIN players' = 1..n
  BY <1>1, <1>5
<1>7. TypeOK'
  <2>1. tick' \in 0..Period - 1
    BY <1>1, <1>3, RulesAssumption DEF TypeOK
  <2>2. QED
    BY <1>1, <1>5, <1>6, <2>1 DEF TypeOK, Player, Croc, CrocX
<1>8. \A p \in 1..n : /\ on'[p] # 0 => /\ InWater(players'[p])
                                       /\ Overlaps(players'[p], crocs', on'[p])
                      /\ on'[p] = 0 => players'[p].x \in 1..MaxX
  BY <1>2, <1>3 DEF Through, Riding, end
<1>9. \A p \in Places : p > n => on'[p] = 0
  <2> SUFFICES ASSUME NEW p \in Places, p > n PROVE on'[p] = 0
    OBVIOUS
  <2>1. on[p] = 0
    <3>1. p \in Nat
      BY <1>1 DEF Places
    <3>2. QED
      BY <1>1, <3>1 DEF WorldInv, AttachedRides
  <2>2. QED
    BY <1>2, <1>3, <2>1 DEF Through, end
<1>10. \A p \in Places : on'[p] # 0 => p \in 1..n
  BY <1>1, <1>9 DEF Places
<1>11. AttachedRides' /\ RidersInWater'
  BY <1>1, <1>6, <1>8, <1>10 DEF AttachedRides, RidersInWater
<1>12. InsideUnlessCarried'
  BY <1>6, <1>8 DEF InsideUnlessCarried
<1>13. QED
  BY <1>7, <1>11, <1>12 DEF WorldInv

LEMMA WorldKeeps == WorldInv /\ [Next]_vars => WorldInv'
<1> SUFFICES ASSUME WorldInv, [Next]_vars PROVE WorldInv'
  OBVIOUS
<1>1. CASE \E id \in Ids : AddPlayer(id)
  BY <1>1, AddKeeps
<1>2. CASE \E id \in Ids : RemovePlayer(id)
  BY <1>2, RemoveKeeps
<1>3. CASE \E id \in Ids, d \in Moves : ApplyInput(id, d)
  BY <1>3, InputKeeps
<1>4. CASE Update
  BY <1>4, UpdateKeeps
<1>5. CASE UNCHANGED vars
  BY <1>5 DEF vars, WorldInv, TypeOK, AttachedRides, InsideUnlessCarried, RidersInWater
<1>6. QED
  BY <1>1, <1>2, <1>3, <1>4, <1>5 DEF Next

LEMMA WorldInvariance == Spec => []WorldInv
<1>1. QED
  BY WorldInit, WorldKeeps, PTL DEF Spec

-----------------------------------------------------------------------------
(* The theorems *)

(* The world has its type, also when crocodiles wrap around the edges and  *)
(* lives and seconds run out.                                              *)
THEOREM TypeCorrect == Spec => []TypeOK
<1>1. WorldInv => TypeOK
  BY DEF WorldInv
<1>2. QED
  BY <1>1, WorldInvariance, PTL

(* A frog attached to a crocodile lies on that very crocodile, whoever has *)
(* left in front of it.                                                    *)
THEOREM RidersAboard == Spec => []AttachedRides
<1>1. WorldInv => AttachedRides
  BY DEF WorldInv
<1>2. QED
  BY <1>1, WorldInvariance, PTL

(* Only a crocodile takes a frog out of the field.                         *)
THEOREM StaysInside == Spec => []InsideUnlessCarried
<1>1. WorldInv => InsideUnlessCarried
  BY DEF WorldInv
<1>2. QED
  BY <1>1, WorldInvariance, PTL

LEMMA TickIsUpdate ==
  ASSUME [Next]_vars, tick' # tick
  PROVE  Update
  BY DEF Next, vars, AddPlayer, RemovePlayer, ApplyInput

(* After a tick whoever is in the water has a crocodile that takes it on,  *)
(* and nobody else has one.                                                *)
THEOREM WaterCarries == Spec => NobodyWalksOnWater
<1> DEFINE Dry == [tick' # tick =>
                     \A p \in DOMAIN players' :
                       InWater(players'[p]) <=> on'[p] # 0]_vars
<1>1. WorldInv /\ [Next]_vars => Dry
  <2> SUFFICES ASSUME WorldInv, [Next]_vars, tick' # tick, NEW p \in DOMAIN players'
               PROVE  InWater(players'[p]) <=> on'[p] # 0
    OBVIOUS
  <2>1. Update /\ Through(Len(players)) /\ Len(players) \in Nat
    BY LoopDone, TickIsUpdate, TypeParts DEF WorldInv
  <2>2. players' = Settled[Len(players)].players /\ on' = Settled[Len(players)].on
    BY <2>1 DEF Update
  <2>3. p \in 1..Len(players)
    <3>1. Settled[Len(players)].players \in [1..Len(players) -> Player]
      BY <2>1 DEF Through, Loop
    <3>2. QED
      BY <2>2, <3>1
  <2>4. Landed(Settled[Len(players)], p)
    BY <2>1, <2>3 DEF Through
  <2>5. QED
    BY <2>2, <2>4 DEF Landed, Riding
<1>2. QED
  BY <1>1, WorldInvariance, PTL DEF Spec, NobodyWalksOnWater

(* The carry takes a frog exactly as far as its crocodile, also around the *)
(* edge, and what the same tick does to it afterwards leaves it there.     *)
THEOREM PlaceKept == Spec => RidersKeepTheirPlace
<1> DEFINE Kept(p) == on[p] # 0 =>
             /\ players'[p].x - crocs'[on[p]].x = players[p].x - crocs[on[p]].x
             /\ players'[p].y = players[p].y
             /\ players'[p].lives = players[p].lives
<1>1. WorldInv /\ [Next]_vars
        => [tick' # tick => \A p \in DOMAIN players : Kept(p)]_vars
  <2> SUFFICES ASSUME WorldInv, [Next]_vars, tick' # tick, NEW p \in DOMAIN players,
                      on[p] # 0
               PROVE  Kept(p)
    OBVIOUS
  <2>1. Update /\ Through(Len(players)) /\ TypeOK /\ p \in 1..Len(players)
    BY LoopDone, TickIsUpdate, TypeParts DEF WorldInv
  <2>2. /\ players' = Settled[Len(players)].players
        /\ crocs' = Settled[Len(players)].crocs
    BY <2>1 DEF Update
  <2>3. players'[p] = Carried(p) /\ crocs' = Drifted.crocs
    BY <2>1, <2>2 DEF Through
  <2>4. /\ on[p] \in Crocs
        /\ Carried(p).x = players[p].x + Moved(on[p]) - crocs[on[p]].x
        /\ Carried(p).y = players[p].y /\ Carried(p).lives = players[p].lives
    BY <2>1, CarriedOn
  <2>5. crocs'[on[p]].x = Moved(on[p])
    BY <2>1, <2>3, <2>4, TypeParts DEF Drifted, Croc
  <2>6. players[p].x \in Int /\ Moved(on[p]) \in Int /\ crocs[on[p]].x \in Int
    <3>1. players[p].x \in Int /\ Moved(on[p]) \in CrocX /\ crocs[on[p]].x \in CrocX
      BY <2>1, <2>4, MovedType, TypeParts DEF Player, Croc
    <3>2. Max(CrocWidths) \in Int /\ Width \in Int
      BY WidestCroc, LayoutAssumption
    <3>3. QED
      BY <3>1, <3>2 DEF CrocX
  <2>7. QED
    BY <2>3, <2>4, <2>5, <2>6
<1>2. QED
  BY <1>1, WorldInvariance, PTL DEF Spec, RidersKeepTheirPlace
=============================================================================
