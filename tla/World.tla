------------------------------- MODULE World --------------------------------
(***************************************************************************)
(* The game the multiplayer server simulates (multiplayer/server/src/      *)
(* game.c): frogs, the crocodiles that carry them, the dens and the timer. *)
(* The dimensions of game_types.h are parameters.  Scores are left out.    *)
(***************************************************************************)
EXTENDS Integers, Sequences, FiniteSets, SequencesExt, FiniteSetsExt

CONSTANTS Ids,                   \* player ids
          MaxPlayers,            \* MAX_PLAYERS
          Width, Height,         \* GAME_WIDTH, GAME_HEIGHT
          WaterTop, FloorHeight, \* the water is rows WaterTop..FloorHeight-1
          LaneHeight,            \* LANE_HEIGHT, the height of a crocodile
          FrogW, FrogH,          \* the size of a frog
          NumCrocs, PerLane,     \* crocodiles, and crocodiles in a lane
          CrocWidths,            \* the widths rand() chooses from
          NumDens, DenW,         \* NUM_TANE, TANA_WIDTH
          Lives, MaxTime,        \* lives of a new player, seconds of the timer
          TimerEvery,            \* ticks in a second of the timer
          Period                 \* bound: ticks are counted modulo Period, a
                                 \* multiple of TimerEvery and all divisors

VARIABLES
  tick,
  players,  \* g->players: id, position and lives, in joining order
  on,       \* player_on_croc and player_croc_id: a crocodile, or 0
  crocs,    \* position and width
  dens,     \* the occupied dens
  timer     \* remaining_time

vars == <<tick, players, on, crocs, dens, timer>>

Crocs == 1..NumCrocs
Dens == 1..NumDens
Places == 1..MaxPlayers

Lane(i) == (i - 1) \div PerLane
Rightward(i) == Lane(i) % 2 = 0
CrocY(i) == WaterTop + Lane(i) * LaneHeight
SpeedDiv(lane) == CASE lane % 4 = 1 -> 3
                    [] lane % 4 = 2 -> 1
                    [] OTHER -> 2

(* game_init spreads the dens over the width between the borders. *)
DenX(i) ==
  LET space == (Width - 2 - NumDens * DenW) \div (NumDens + 1)
  IN 1 + i * space + (i - 1) * DenW

SpawnX(p) == IF p = 1 THEN Width \div 2 ELSE Width \div 2 - (FrogW + 1)
SpawnY == Height - 3

Clamp(v, lo, hi) == IF v < lo THEN lo ELSE IF v > hi THEN hi ELSE v
MaxX == Width - 1 - FrogW
MaxY == Height - 1 - FrogH

(* The layout of game_types.h: the start is on the bank below the water and
   inside the borders, and above the water there is a row for the dens. *)
ASSUME LayoutAssumption ==
  /\ Width \in Nat /\ Width >= 4
  /\ Height \in Nat /\ FrogW \in Nat /\ FrogH \in Nat
  /\ WaterTop \in Nat /\ WaterTop > 1
  /\ FloorHeight \in Nat /\ FloorHeight <= SpawnY
  /\ LaneHeight \in Nat
  /\ MaxX >= 1 /\ \A p \in Places : SpawnX(p) \in 1..MaxX
  /\ SpawnY \in 1..MaxY
ASSUME CrocsAssumption ==
  /\ NumCrocs \in Nat
  /\ PerLane \in Nat \ {0}
  /\ CrocWidths # {} /\ CrocWidths \subseteq 1..Width
ASSUME RulesAssumption ==
  /\ MaxPlayers \in Nat
  /\ NumDens \in Nat /\ DenW \in Nat
  /\ Lives \in Nat /\ MaxTime \in Nat
  /\ TimerEvery \in Nat \ {0} /\ Period \in Nat \ {0}

Init ==
  /\ tick = 0
  /\ players = <<>>
  /\ on = [p \in Places |-> 0]
  /\ crocs \in [Crocs -> [x : 0..(3 * Width) \div 4, w : CrocWidths]]
  /\ \A i \in Crocs :
       crocs[i].x \in IF i % 2 = 1 THEN 0..(Width \div 4) - 1
                      ELSE Width \div 2..(Width \div 2) + (Width \div 4) - 1
  /\ dens = {}
  /\ timer = MaxTime

(* find_player_index: the first player with the id, 0 if there is none. *)
IndexOf(id) == SelectInSeq(players, LAMBDA pl : pl.id = id)

-----------------------------------------------------------------------------
(* Joining, leaving and input: the network thread *)

AddPlayer(id) ==
  /\ Len(players) < MaxPlayers
  /\ LET p == Len(players) + 1 IN
     /\ players' = Append(players,
          [id |-> id, x |-> SpawnX(p), y |-> SpawnY, lives |-> Lives])
     /\ on' = [on EXCEPT ![p] = 0]
  /\ UNCHANGED <<tick, crocs, dens, timer>>

Mut_Collapse(k) == [on EXCEPT ![Len(players)] = 0]
(* The attachments move up with the players behind the one that leaves. *)
Collapse(k) ==
  [p \in Places |-> IF p = Len(players) THEN 0
                    ELSE IF k <= p /\ p < MaxPlayers THEN on[p + 1] ELSE on[p]]

RemovePlayer(id) ==
  /\ IndexOf(id) # 0
  /\ players' = RemoveAt(players, IndexOf(id))
  /\ on' = Collapse(IndexOf(id))
  /\ UNCHANGED <<tick, crocs, dens, timer>>

(* The moves one key of a client asks for. *)
Moves == {<<-1, 0>>, <<1, 0>>, <<0, -1>>, <<0, 1>>}

Mut_ApplyInput(id, d) ==
  LET p == IndexOf(id) IN
  /\ p # 0
  /\ players' = [players EXCEPT ![p].x = Clamp(@, 1, MaxX) + d[1],
                                ![p].y = Clamp(@, 1, MaxY) + d[2]]
  /\ on' = [on EXCEPT ![p] = 0]
  /\ UNCHANGED <<tick, crocs, dens, timer>>

ApplyInput(id, d) ==
  LET p == IndexOf(id) IN
  /\ p # 0
  /\ players' = [players EXCEPT ![p].x = Clamp(@ + d[1], 1, MaxX),
                                ![p].y = Clamp(@ + d[2], 1, MaxY)]
  /\ on' = [on EXCEPT ![p] = 0]
  /\ UNCHANGED <<tick, crocs, dens, timer>>

-----------------------------------------------------------------------------
(* One tick: the simulation thread *)

Mut_Moved(i) ==
  LET c == crocs[i]
      nx == IF Rightward(i) THEN c.x + 1 ELSE c.x - 1
  IN IF tick % SpeedDiv(Lane(i)) # 0 THEN c.x
     ELSE IF Rightward(i) THEN IF nx >= Width - 1 THEN 1 - c.w ELSE nx
     ELSE IF nx < 1 - c.w THEN Width - 1 ELSE nx

(* Crocodile i after the tick, back on the other side when it has left. *)
Moved(i) ==
  LET c == crocs[i]
      nx == IF Rightward(i) THEN c.x + 1 ELSE c.x - 1
  IN IF tick % SpeedDiv(Lane(i)) # 0 THEN c.x
     ELSE IF Rightward(i) THEN IF nx + c.w >= Width - 1 THEN 1 - c.w ELSE nx
     ELSE IF nx <= 0 THEN Width - 2 ELSE nx

InWater(pl) == WaterTop <= pl.y /\ pl.y < FloorHeight

Overlaps(pl, cs, i) ==
  /\ pl.y < CrocY(i) + LaneHeight /\ pl.y + FrogH > CrocY(i)
  /\ pl.x < cs[i].x + cs[i].w /\ pl.x + FrogW > cs[i].x

DenReached(pl, occupied) ==
  {i \in Dens \ occupied :
     LET centre == pl.x + FrogW \div 2
     IN pl.y <= 1 /\ DenX(i) <= centre /\ centre < DenX(i) + DenW}

Respawned(pl, p) == [pl EXCEPT !.x = SpawnX(p), !.y = SpawnY]

Mut_Settle(w, p) ==
  LET pl == w.players[p]
      under == {i \in Crocs : Overlaps(pl, w.crocs, i)}
      den == DenReached(pl, w.dens)
      drowns == InWater(pl) /\ pl.y > WaterTop /\ under = {}
  IN [on |-> [w.on EXCEPT ![p] =
        IF ~InWater(pl) THEN 0 ELSE IF under # {} THEN Min(under) ELSE @],
      players |-> [w.players EXCEPT ![p] =
        IF drowns THEN [Respawned(pl, p) EXCEPT !.lives = Max({@ - 1, 0})]
        ELSE IF den # {} THEN Respawned(pl, p) ELSE pl],
      crocs |-> w.crocs,
      dens |-> IF den # {} THEN w.dens \cup {Min(den)} ELSE w.dens,
      timer |-> IF drowns \/ den # {} THEN MaxTime ELSE w.timer]

(* What the tick does to player p of world w: it is carried, drowns or gets
   into a den.  One that drowns keeps its attachment, if it has any. *)
Settle(w, p) ==
  LET pl == w.players[p]
      under == {i \in Crocs : Overlaps(pl, w.crocs, i)}
      den == DenReached(pl, w.dens)
      drowns == InWater(pl) /\ under = {}
  IN [on |-> [w.on EXCEPT ![p] =
        IF ~InWater(pl) THEN 0 ELSE IF under # {} THEN Min(under) ELSE @],
      players |-> [w.players EXCEPT ![p] =
        IF drowns THEN [Respawned(pl, p) EXCEPT !.lives = Max({@ - 1, 0})]
        ELSE IF den # {} THEN Respawned(pl, p) ELSE pl],
      crocs |-> w.crocs,
      dens |-> IF den # {} THEN w.dens \cup {Min(den)} ELSE w.dens,
      timer |-> IF drowns \/ den # {} THEN MaxTime ELSE w.timer]

Mut_Carried(p) ==
  IF on[p] = 0 \/ Moved(on[p]) = crocs[on[p]].x THEN players[p]
  ELSE [players[p] EXCEPT !.x = IF Rightward(on[p]) THEN @ + 1 ELSE @ - 1]
(* Player p, moved along with the crocodile it is attached to. *)
Carried(p) ==
  IF on[p] = 0 THEN players[p]
  ELSE [players[p] EXCEPT !.x = @ + Moved(on[p]) - crocs[on[p]].x]

(* The world when the crocodiles have moved and the timer has run on. *)
Drifted ==
  [players |-> [p \in DOMAIN players |-> Carried(p)],
   on |-> on,
   crocs |-> [i \in Crocs |-> [crocs[i] EXCEPT !.x = Moved(i)]],
   dens |-> dens,
   timer |-> IF tick % TimerEvery = 0 /\ timer > 0 THEN timer - 1 ELSE timer]

(* The same when the loop over the players has come through the first n. *)
Settled[n \in 0..Len(players)] ==
  IF n = 0 THEN Drifted ELSE Settle(Settled[n - 1], n)

Update ==
  LET end == Settled[Len(players)]
  IN /\ tick' = (tick + 1) % Period
     /\ players' = end.players
     /\ on' = end.on
     /\ crocs' = end.crocs
     /\ dens' = end.dens
     /\ timer' = end.timer

Next ==
  \/ \E id \in Ids : AddPlayer(id)
  \/ \E id \in Ids : RemovePlayer(id)
  \/ \E id \in Ids, d \in Moves : ApplyInput(id, d)
  \/ Update

Spec == Init /\ [][Next]_vars

-----------------------------------------------------------------------------
(* Properties *)

TypeOK ==
  /\ tick \in 0..Period - 1
  /\ players \in Seq([id : Ids, x : Int, y : 1..MaxY, lives : 0..Lives])
  /\ Len(players) <= MaxPlayers
  /\ on \in [Places -> 0..NumCrocs]
  /\ crocs \in [Crocs -> [x : 1 - Max(CrocWidths)..Width - 2, w : CrocWidths]]
  /\ dens \subseteq Dens
  /\ timer \in 0..MaxTime

(* A frog attached to a crocodile lies on that very crocodile.  The positions
   (players), the attachments (two arrays shifted apart when a player leaves)
   and the crocodiles change in different handlers; where the tick of a frog
   that drowns leaves the attachment alone, only this keeps it from being
   dragged about at the start. *)
AttachedRides ==
  \A p \in Places :
    on[p] # 0 => p <= Len(players) /\ Overlaps(players[p], crocs, on[p])

(* A frog is inside the borders unless a crocodile carries it out: the carry
   and the wrap of the crocodiles do not clamp, only input does. *)
InsideUnlessCarried ==
  \A p \in DOMAIN players : on[p] = 0 => players[p].x \in 1..MaxX

(* After a tick no frog is in the water without a crocodile under it, that
   moves it from then on. *)
NobodyWalksOnWater ==
  [][tick' # tick =>
       \A p \in DOMAIN players' :
         InWater(players'[p]) <=> on'[p] # 0]_vars

(* A frog that is carried for a tick keeps its place on the crocodile's back,
   also when the crocodile wraps around. *)
RidersKeepTheirPlace ==
  [][tick' # tick =>
       \A p \in DOMAIN players :
         on[p] # 0 => /\ players'[p].x - crocs'[on[p]].x = players[p].x - crocs[on[p]].x
                      /\ players'[p].y = players[p].y
                      /\ players'[p].lives = players[p].lives]_vars
=============================================================================
