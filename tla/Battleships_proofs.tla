-------------------------- MODULE Battleships_proofs --------------------------
(***************************************************************************)
(* For boards of any size, any fleet and any hit ratios: boards, ships and *)
(* hits agree, and a session goes by the rules of Duel.                    *)
(***************************************************************************)
EXTENDS Battleships, SharedLemmas, FiniteSetTheorems

(* Ships of a board share no field; those not placed have none. *)
FleetDisjoint ==
  \A p \in Players :
    /\ \A i, j \in Ships : i # j => fleet[p][i] \cap fleet[p][j] = {}
    /\ \A i \in Ships : fleet[p][i] # {} <=> i <= placed[p]

Preparing == phase \in {"draw", "try"}

(* While boards are set up nothing is hit and a ship is missing; after it  *)
(* the fleets are complete; while a game goes on, both are alive.          *)
Stages ==
  /\ Preparing => /\ placed[Redbeard] < Len(ShipSizes)
                  /\ \A p \in Players : /\ hit[p] = {}
                                         /\ \A i \in Ships : alive[p][i]
  /\ phase \in {"play", "over"} => \A p \in Players : placed[p] = Len(ShipSizes)
  /\ phase = "play" => \A p \in Players : \E i \in Ships : alive[p][i]

BInv == TypeOK /\ FleetDisjoint /\ AliveExact /\ Stages

ShipsWhole == \A p \in Players : \A i \in 1..placed[p] :
                Cardinality(fleet[p][i]) = ShipSizes[i]

CounterBelow == counter < Ratio[2]

(* The invariant of a session *)
SInv == BInv /\ ShipsWhole /\ CounterBelow /\ ViewSound

(* The search for a place: the start of a try, told from the first one;    *)
(* all tries so far were refused in every orientation.                     *)
Try(s, t) == <<(s[1] + Walk(Size)[t][1]) % Size, (s[2] + Walk(Size)[t][2]) % Size>>
Refused(f) == \A o \in Orientations : ~ Fits(Builder, f, ShipSizes[NextShip], o)
TriesRefused ==
  phase = "try" =>
    /\ search.xOffset \in 0..Size * Size - 1
    /\ search.yOffset = search.xOffset \div Size
    /\ \E s \in Fields : /\ Moved = Try(s, search.xOffset)
                         /\ \A t \in 0..search.xOffset - 1 : Refused(Try(s, t))

(* How many fields the ships of a board have *)
FleetSizes == \A p \in Players : Cardinality(Taken(p)) = FieldsOf(ShipSizes)[placed[p]]

SetupInv == TriesRefused /\ FleetSizes /\ SetupSucceeds

------------------------------------------------------------------------------
(* Constants *)

LEMMA Constants ==
  /\ Size \in Nat /\ Size > 0
  /\ Len(ShipSizes) \in Nat /\ Len(ShipSizes) > 0
  /\ \A i \in Ships : ShipSizes[i] \in Nat /\ ShipSizes[i] > 0
  /\ Len(HitRatios) \in Nat /\ Len(HitRatios) > 0
  /\ \A r \in 1..Len(HitRatios) : /\ HitRatios[r][1] \in Nat \ {0}
                                  /\ HitRatios[r][2] \in Nat \ {0}
<1>1. /\ Size \in Nat /\ Size > 0
      /\ Len(ShipSizes) \in Nat /\ Len(ShipSizes) > 0
      /\ \A i \in 1..Len(ShipSizes) : ShipSizes[i] \in Nat /\ ShipSizes[i] > 0
  BY GameAssumption
<1>2. /\ Len(HitRatios) \in Nat /\ Len(HitRatios) > 0
      /\ \A r \in 1..Len(HitRatios) : HitRatios[r] \in (Nat \ {0}) \X (Nat \ {0})
  BY GameAssumption
<1> QED  BY <1>1, <1>2 DEF Ships

LEMMA PlayersFacts ==
  /\ Players = {0, 1} /\ Guest \in Players /\ Redbeard \in Players
  /\ \A p \in Players : Opponent(p) \in Players /\ Opponent(p) # p
                        /\ \A q \in Players : q # p => q = Opponent(p)
  BY DEF Players, Guest, Redbeard, Opponent

(* A ship covers at least the field it starts on. *)
LEMMA ShipNotEmpty ==
  ASSUME NEW s \in Int \X Int, NEW n \in Nat \ {0}, NEW o \in Orientations
  PROVE  ShipFields(s, n, o) # {}
<1>1. Direction[o][1] \in Int /\ Direction[o][2] \in Int
  BY DEF Direction, Orientations
<1>2. 0 \in 0..n - 1
  OBVIOUS
<1>3. <<s[1] + 0 * Direction[o][1], s[2] + 0 * Direction[o][2]>> \in ShipFields(s, n, o)
  BY <1>2 DEF ShipFields
<1> QED  BY <1>3

LEMMA MovedOnBoard ==
  ASSUME TypeOK
  PROVE  Moved \in Fields
<1>1. /\ search.start[1] \in Nat /\ search.start[2] \in Nat
      /\ search.xOffset \in Nat /\ search.yOffset \in Nat
  BY Constants DEF TypeOK, Fields
<1>2. ASSUME NEW a \in Nat
      PROVE  a % Size \in 0..Size - 1
  BY Constants
<1> QED  BY <1>1, <1>2 DEF Moved, Fields

LEMMA BuilderFacts ==
  ASSUME TypeOK
  PROVE  /\ Builder \in Players
         /\ placed[Builder] \in 0..Len(ShipSizes)
         /\ placed[Builder] < Len(ShipSizes) => NextShip \in Ships
<1>1. placed \in [Players -> 0..Len(ShipSizes)]  BY DEF TypeOK
<1>2. Builder \in Players  BY PlayersFacts DEF Builder
<1>3. placed[Builder] \in 0..Len(ShipSizes)  BY <1>1, <1>2
<1> QED  BY <1>2, <1>3, Constants DEF NextShip, Ships

------------------------------------------------------------------------------
(* Setting up *)

LEMMA StillBuilding ==
  ASSUME BInv, Preparing
  PROVE  placed[Builder] < Len(ShipSizes)
  BY Constants, PlayersFacts DEF BInv, TypeOK, Stages, Builder

(* What a ship that is placed looks like. *)
LEMMA PlacedShip ==
  ASSUME BInv, PlaceShip
  PROVE  \E S \in SUBSET Fields :
           /\ S # {}
           /\ S \cap Taken(Builder) = {}
           /\ fleet' = [fleet EXCEPT ![Builder][NextShip] = S]
           /\ NextShip \in Ships
           /\ \A i \in Ships : fleet'[Builder][i] = IF i = NextShip THEN S ELSE fleet[Builder][i]
           /\ \A p \in Players : p # Builder => fleet'[p] = fleet[p]
<1>1. /\ Builder \in Players /\ NextShip \in Ships
      /\ fleet \in [Players -> [Ships -> SUBSET Fields]]
  BY StillBuilding, BuilderFacts DEF BInv, TypeOK, PlaceShip, Preparing
<1>2. PICK k \in Turns : fleet' = [fleet EXCEPT ![Builder][NextShip] =
                      ShipFields(Moved, ShipSizes[NextShip], (search.oi + k) % 4)]
  BY DEF PlaceShip
<1> DEFINE o == (search.oi + k) % 4
           S == ShipFields(Moved, ShipSizes[NextShip], o)
<1>3. Fits(Builder, Moved, ShipSizes[NextShip], o)
  BY <1>2 DEF Turns
<1>4. o \in Orientations
  <2>1. search.oi \in 0..3 /\ k \in 0..3
    BY <1>2 DEF Turns, Orientations, BInv, TypeOK
  <2> QED  BY <2>1 DEF Orientations
<1>5. Moved \in Int \X Int
  BY MovedOnBoard, Constants DEF BInv, Fields
<1>6. S # {}
  <2>1. ShipSizes[NextShip] \in Nat \ {0}
    BY <1>1, Constants
  <2> HIDE DEF o
  <2> QED  BY <1>4, <1>5, <2>1, ShipNotEmpty
<1>7. S \subseteq Fields /\ S \cap Taken(Builder) = {}
  BY <1>3 DEF Fits
<1> HIDE DEF S
<1>8. fleet' = [fleet EXCEPT ![Builder][NextShip] = S]
  BY <1>2 DEF S
<1>9. /\ \A i \in Ships : fleet'[Builder][i] = IF i = NextShip THEN S ELSE fleet[Builder][i]
      /\ \A p \in Players : p # Builder => fleet'[p] = fleet[p]
  BY <1>1, <1>8
<1> QED  BY <1>1, <1>6, <1>7, <1>8, <1>9

LEMMA PlaceShipInv ==
  ASSUME BInv, PlaceShip
  PROVE  BInv'
<1> DEFINE b == Builder
           n == NextShip
<1>1. PICK S \in SUBSET Fields :
           /\ S # {}
           /\ S \cap Taken(b) = {}
           /\ fleet' = [fleet EXCEPT ![b][n] = S]
           /\ n \in Ships
           /\ \A i \in Ships : fleet'[b][i] = IF i = n THEN S ELSE fleet[b][i]
           /\ \A p \in Players : p # b => fleet'[p] = fleet[p]
  BY PlacedShip
<1>2. b \in Players /\ n = placed[b] + 1 /\ placed[b] < Len(ShipSizes)
  BY StillBuilding, BuilderFacts DEF BInv, PlaceShip, Preparing, NextShip
<1>3. /\ placed \in [Players -> 0..Len(ShipSizes)]
      /\ fleet \in [Players -> [Ships -> SUBSET Fields]]
      /\ placed' = [placed EXCEPT ![b] = n]
      /\ placed' \in [Players -> 0..Len(ShipSizes)]
  BY <1>1, <1>2 DEF BInv, TypeOK, PlaceShip, Ships
<1>4. /\ \A p \in Players : p # b => placed'[p] = placed[p]
      /\ placed'[b] = n
  BY <1>2, <1>3
<1>5. TypeOK'
  <2>1. fleet' \in [Players -> [Ships -> SUBSET Fields]]
    BY <1>1, <1>2, <1>3
  <2>2. NoSearch \in [oi : Orientations, start : Fields, xOffset : Nat, yOffset : Nat]
    BY Constants DEF NoSearch, Orientations, Fields
  <2>3. phase' \in {"draw", "play", "failed"}
    BY DEF PlaceShip
  <2> HIDE DEF b, n
  <2> QED  BY <1>3, <2>1, <2>2, <2>3 DEF TypeOK, PlaceShip, BInv
<1> HIDE DEF b, n
<1>6. FleetDisjoint'
  <2> SUFFICES ASSUME NEW p \in Players
               PROVE  /\ \A i, j \in Ships : i # j => fleet'[p][i] \cap fleet'[p][j] = {}
                      /\ \A i \in Ships : fleet'[p][i] # {} <=> i <= placed'[p]
    BY DEF FleetDisjoint
  <2>1. /\ \A i, j \in Ships : i # j => fleet[p][i] \cap fleet[p][j] = {}
        /\ \A i \in Ships : fleet[p][i] # {} <=> i <= placed[p]
    BY DEF BInv, FleetDisjoint
  <2>2. CASE p # b
    BY <1>1, <1>4, <2>1, <2>2
  <2>3. CASE p = b
    <3>1. \A i \in Ships : fleet[b][i] \cap S = {}
      BY <1>1 DEF Taken
    <3>2. \A i, j \in Ships : i # j => fleet'[b][i] \cap fleet'[b][j] = {}
      BY <1>1, <2>1, <2>3, <3>1
    <3>3. ASSUME NEW i \in Ships
          PROVE  fleet'[b][i] # {} <=> i <= placed'[b]
      <4>1. i \in Nat /\ placed[b] \in Nat
        BY <1>2, <1>3 DEF Ships
      <4>2. i <= n <=> i = n \/ i <= placed[b]
        BY <1>2, <4>1
      <4>3. fleet'[b][i] # {} <=> i = n \/ fleet[b][i] # {}
        BY <1>1
      <4> QED  BY <1>4, <2>1, <2>3, <4>2, <4>3
    <3> QED  BY <2>3, <3>2, <3>3
  <2> QED  BY <2>2, <2>3
<1>7. Preparing /\ \A p \in Players : hit[p] = {}
  BY DEF BInv, Stages, Preparing, PlaceShip
<1>10. /\ \A p \in Players : \A i \in Ships : alive[p][i]
       /\ placed[Redbeard] < Len(ShipSizes)
       /\ alive' = alive /\ hit' = hit
  BY <1>7 DEF BInv, Stages, PlaceShip
<1>8. AliveExact'
  <2> SUFFICES ASSUME NEW p \in Players, NEW i \in 1..placed'[p]
               PROVE  alive'[p][i] <=> ~ fleet'[p][i] \subseteq hit'[p]
    BY DEF AliveExact
  <2>1. alive' = alive /\ hit' = hit /\ hit[p] = {}
    BY <1>7 DEF PlaceShip
  <2>2. i \in Ships /\ i <= placed'[p]
    BY <1>3 DEF Ships
  <2>3. fleet'[p][i] # {}
    BY <1>6, <2>2 DEF FleetDisjoint
  <2>4. alive[p][i]
    BY <1>10, <2>2
  <2> QED  BY <2>1, <2>3, <2>4
<1>9. Stages'
  <2>1. CASE phase' = "draw"
    <3>1. placed'[Redbeard] # Len(ShipSizes)
      BY <2>1 DEF PlaceShip
    <3> QED  BY <1>3, <1>7, <1>10, <2>1, <3>1, PlayersFacts, Constants
             DEF Stages, Preparing
  <2>2. CASE phase' = "play"
    <3>1. placed'[Redbeard] = Len(ShipSizes)
      BY <2>2 DEF PlaceShip
    <3>2. b = Redbeard
      BY <1>3, <1>4, <1>10, <3>1, PlayersFacts
    <3>3. placed[Guest] = Len(ShipSizes)
      BY <1>3, <3>2, Constants, PlayersFacts DEF b, Builder, Guest, Redbeard
    <3>4. \A p \in Players : placed'[p] = Len(ShipSizes)
      BY <1>4, <3>1, <3>2, <3>3, PlayersFacts DEF Players, Guest, Redbeard
    <3>5. 1 \in Ships
      BY Constants DEF Ships
    <3> QED  BY <1>10, <2>2, <3>4, <3>5 DEF Stages, Preparing
  <2>3. CASE phase' = "failed"
    BY <2>3 DEF Stages, Preparing
  <2> QED  BY <2>1, <2>2, <2>3 DEF PlaceShip
<1> QED  BY <1>5, <1>6, <1>8, <1>9 DEF BInv

LEMMA DrawStartInv ==
  ASSUME BInv, DrawStart
  PROVE  BInv'
<1>1. search' \in [oi : Orientations, start : Fields, xOffset : Nat, yOffset : Nat]
  <2>1. NoSearch \in [oi : Orientations, start : Fields, xOffset : Nat, yOffset : Nat]
    BY Constants DEF NoSearch, Orientations, Fields
  <2> QED  BY <2>1 DEF DrawStart
<1>2. /\ phase = "draw" /\ phase' = "try"
      /\ UNCHANGED <<round, placed, fleet, alive, hit, view, active, counter>>
  BY DEF DrawStart
<1>3. TypeOK'
  BY <1>1, <1>2 DEF BInv, TypeOK
<1>4. FleetDisjoint' /\ AliveExact'
  BY <1>2 DEF BInv, FleetDisjoint, AliveExact
<1>5. Stages'
  BY <1>2 DEF BInv, Stages, Preparing
<1> QED  BY <1>3, <1>4, <1>5 DEF BInv

LEMMA TryNextInv ==
  ASSUME BInv, TryNext
  PROVE  BInv'
<1>1. search' \in [oi : Orientations, start : Fields, xOffset : Nat, yOffset : Nat]
  <2>1. NextX \in Nat /\ NextY \in Nat
    BY DEF NextX, NextY, BInv, TypeOK
  <2> QED  BY <2>1, MovedOnBoard DEF TryNext, BInv, TypeOK
<1>2. /\ phase = "try" /\ phase' \in {"try", "failed"}
      /\ UNCHANGED <<round, placed, fleet, alive, hit, view, active, counter>>
  BY DEF TryNext
<1>3. TypeOK'
  BY <1>1, <1>2 DEF BInv, TypeOK
<1>4. FleetDisjoint' /\ AliveExact'
  BY <1>2 DEF BInv, FleetDisjoint, AliveExact
<1>5. Stages'
  BY <1>2 DEF BInv, Stages, Preparing
<1> QED  BY <1>3, <1>4, <1>5 DEF BInv

------------------------------------------------------------------------------
(* Shots *)

(* The status of every ship is exact after a shot, although only that of   *)
(* a ship that was hit is updated.                                         *)
LEMMA StatusExact ==
  ASSUME BInv, phase = "play", NEW q \in Players, NEW f \in Fields
  PROVE  /\ UpdatedStatus(q, f) \in [Ships -> BOOLEAN]
         /\ \A i \in Ships :
              UpdatedStatus(q, f)[i] <=> ~ fleet[q][i] \subseteq hit[q] \cup {f}
<1>1. \A i \in Ships : alive[q][i] <=> ~ fleet[q][i] \subseteq hit[q]
  BY DEF BInv, Stages, AliveExact, Ships
<1>2. alive[q] \in [Ships -> BOOLEAN] /\ fleet[q] \in [Ships -> SUBSET Fields]
  BY DEF BInv, TypeOK
<1>3. ASSUME NEW i \in Ships
      PROVE  UpdatedStatus(q, f)[i] <=> ~ fleet[q][i] \subseteq hit[q] \cup {f}
  <2>1. CASE IsHit(q, f) /\ f \in fleet[q][i]
    BY <2>1 DEF UpdatedStatus
  <2>2. CASE ~ (IsHit(q, f) /\ f \in fleet[q][i])
    <3>1. f \in fleet[q][i] => f \in hit[q]
      BY <2>2 DEF IsHit, Taken
    <3>2. fleet[q][i] \subseteq hit[q] \cup {f} <=> fleet[q][i] \subseteq hit[q]
      BY <3>1
    <3> QED  BY <1>1, <2>2, <3>2 DEF UpdatedStatus
  <2> QED  BY <2>1, <2>2
<1> QED  BY <1>2, <1>3 DEF UpdatedStatus

(* What a shot leaves of a fleet: it is over when nothing is left. *)
LEMMA LostExact ==
  ASSUME BInv, phase = "play", NEW q \in Players, NEW f \in Fields
  PROVE  Lost(UpdatedStatus(q, f)) <=> Taken(q) \ (hit[q] \cup {f}) = {}
<1>1. \A i \in Ships : UpdatedStatus(q, f)[i] <=> ~ fleet[q][i] \subseteq hit[q] \cup {f}
  BY StatusExact
<1>2. Lost(UpdatedStatus(q, f)) <=> \A i \in Ships : fleet[q][i] \subseteq hit[q] \cup {f}
  BY <1>1 DEF Lost
<1> QED  BY <1>2 DEF Taken

LEMMA ShootInv ==
  ASSUME BInv, phase = "play", NEW f \in Fields, Shoot(f),
         UNCHANGED <<round, setupVars>>, counter' \in Nat
  PROVE  BInv'
<1> DEFINE q == Opponent(active)
<1>1. q \in Players /\ active \in Players /\ q # active
  BY PlayersFacts DEF BInv, TypeOK
<1>2. /\ hit' = [hit EXCEPT ![q] = @ \cup {f}]
      /\ alive' = [alive EXCEPT ![q] = UpdatedStatus(q, f)]
      /\ view' \in [Fields -> {"?", "S", "X"}]
      /\ phase' = IF Lost(UpdatedStatus(q, f)) THEN "over" ELSE "play"
      /\ active' \in Players
      /\ placed' = placed /\ fleet' = fleet /\ search' = search /\ round' = round
  BY <1>1 DEF Shoot, BInv, TypeOK, setupVars
<1>3. /\ UpdatedStatus(q, f) \in [Ships -> BOOLEAN]
      /\ \A i \in Ships :
              UpdatedStatus(q, f)[i] <=> ~ fleet[q][i] \subseteq hit[q] \cup {f}
  BY <1>1, StatusExact
<1> HIDE DEF q
<1>4. /\ hit'[q] = hit[q] \cup {f} /\ alive'[q] = UpdatedStatus(q, f)
      /\ \A p \in Players : p # q => hit'[p] = hit[p] /\ alive'[p] = alive[p]
      /\ hit' \in [Players -> SUBSET Fields]
      /\ alive' \in [Players -> [Ships -> BOOLEAN]]
  BY <1>1, <1>2, <1>3 DEF BInv, TypeOK
<1>5. TypeOK'
  BY <1>2, <1>4 DEF BInv, TypeOK
<1>6. FleetDisjoint'
  BY <1>2 DEF BInv, FleetDisjoint
<1>7. AliveExact'
  <2> SUFFICES ASSUME NEW p \in Players, NEW i \in 1..placed[p]
               PROVE  alive'[p][i] <=> ~ fleet[p][i] \subseteq hit'[p]
    BY <1>2 DEF AliveExact
  <2>1. i \in Ships
    BY DEF BInv, TypeOK, Ships
  <2>2. CASE p = q
    BY <1>3, <1>4, <2>1, <2>2
  <2>3. CASE p # q
    BY <1>4, <2>3 DEF BInv, AliveExact
  <2> QED  BY <2>2, <2>3
<1>8. Stages'
  <2>1. phase' \in {"play", "over"}
    BY <1>2
  <2>2. \A p \in Players : placed'[p] = Len(ShipSizes)
    BY <1>2 DEF BInv, Stages
  <2>3. ASSUME phase' = "play", NEW p \in Players
        PROVE  \E i \in Ships : alive'[p][i]
    <3>1. CASE p = q
      BY <1>2, <1>4, <2>3, <3>1 DEF Lost
    <3>2. CASE p # q
      BY <1>4, <3>2 DEF BInv, Stages
    <3> QED  BY <3>1, <3>2
  <2> QED  BY <2>1, <2>2, <2>3 DEF Stages, Preparing
<1> QED  BY <1>5, <1>6, <1>7, <1>8 DEF BInv

(* Redbeard aims at a field of the board. *)
LEMMA ShotsOnBoard ==
  ASSUME BInv
  PROVE  /\ GuestShoots => /\ \E f \in Fields : Shoot(f)
                           /\ counter' \in Nat
                           /\ phase = "play" /\ active = Guest
                           /\ UNCHANGED <<round, setupVars>>
         /\ RedbeardShoots => /\ \E f \in Fields : Shoot(f)
                              /\ counter' \in Nat
                              /\ phase = "play" /\ active = Redbeard
                              /\ UNCHANGED <<round, setupVars>>
<1>1. GuestShoots => counter' \in Nat
  BY DEF GuestShoots, BInv, TypeOK
<1>2. Counted \in Nat
  <2>1. round \in 1..Len(HitRatios) /\ counter \in Nat
    BY DEF BInv, TypeOK
  <2>2. Ratio[2] \in Nat \ {0}
    BY <2>1, Constants DEF Ratio
  <2>3. \A a \in Nat, c \in Nat \ {0} : a % c \in Nat
    OBVIOUS
  <2> QED  BY <2>1, <2>2, <2>3 DEF Counted
<1>3. \A i \in Targets : fleet[Guest][i] \subseteq Fields
  BY PlayersFacts DEF Targets, BInv, TypeOK
<1>4. RedbeardShoots => \E f \in Fields : Shoot(f)
  BY <1>3 DEF RedbeardShoots
<1> QED  BY <1>1, <1>2, <1>4 DEF GuestShoots, RedbeardShoots

------------------------------------------------------------------------------
(* Between games *)

LEMMA NextGameInv ==
  ASSUME BInv, NextGame
  PROVE  BInv'
<1>1. /\ placed' = [p \in Players |-> 0]
      /\ fleet' = [p \in Players |-> [i \in Ships |-> {}]]
      /\ alive' = [p \in Players |-> [i \in Ships |-> TRUE]]
      /\ hit' = [p \in Players |-> {}]
      /\ view' = [f \in Fields |-> "?"]
      /\ phase' = "draw" /\ round' = round + 1 /\ round < Len(HitRatios)
      /\ counter' = 0 /\ search' = search /\ active' = active
  BY DEF NextGame, NewBoards
<1>2. TypeOK'
  BY <1>1, Constants DEF BInv, TypeOK
<1>3. FleetDisjoint' /\ AliveExact'
  BY <1>1 DEF FleetDisjoint, AliveExact, Ships
<1>4. Stages'
  BY <1>1, PlayersFacts, Constants DEF Stages, Preparing
<1> QED  BY <1>2, <1>3, <1>4 DEF BInv

LEMMA EndInv ==
  ASSUME BInv, EndSession \/ Leave \/ UNCHANGED vars
  PROVE  BInv'
<1>1. /\ UNCHANGED <<round, setupVars, alive, hit, view, active, counter>>
      /\ phase' \in {"prize", "lost", "closed"} \/ phase' = phase
  BY DEF EndSession, Leave, vars
<1>2. TypeOK'
  BY <1>1 DEF BInv, TypeOK, setupVars
<1>3. FleetDisjoint' /\ AliveExact'
  BY <1>1 DEF BInv, FleetDisjoint, AliveExact, setupVars
<1>4. Stages'
  BY <1>1 DEF BInv, Stages, Preparing, setupVars
<1> QED  BY <1>2, <1>3, <1>4 DEF BInv

LEMMA InitInv ==
  ASSUME Init
  PROVE  BInv
<1>1. TypeOK
  <2>1. NoSearch \in [oi : Orientations, start : Fields, xOffset : Nat, yOffset : Nat]
    BY Constants DEF NoSearch, Orientations, Fields
  <2> QED  BY <2>1, Constants, PlayersFacts DEF Init, TypeOK
<1>2. FleetDisjoint /\ AliveExact
  BY DEF Init, FleetDisjoint, AliveExact, Ships
<1>3. Stages
  BY PlayersFacts, Constants DEF Init, Stages, Preparing
<1> QED  BY <1>1, <1>2, <1>3 DEF BInv

LEMMA NextInv ==
  ASSUME BInv, [Next]_vars
  PROVE  BInv'
<1>1. CASE DrawStart  BY <1>1, DrawStartInv
<1>2. CASE PlaceShip  BY <1>2, PlaceShipInv
<1>3. CASE TryNext  BY <1>3, TryNextInv
<1>4. CASE GuestShoots  BY <1>4, ShotsOnBoard, ShootInv
<1>5. CASE RedbeardShoots  BY <1>5, ShotsOnBoard, ShootInv
<1>6. CASE NextGame  BY <1>6, NextGameInv
<1>7. CASE EndSession \/ Leave \/ UNCHANGED vars  BY <1>7, EndInv
<1> QED  BY <1>1, <1>2, <1>3, <1>4, <1>5, <1>6, <1>7 DEF Next, Play

------------------------------------------------------------------------------
(* Sizes of ships *)

LEMMA ShipSize ==
  ASSUME NEW s \in Int \X Int, NEW n \in Nat, NEW o \in Orientations
  PROVE  Cardinality(ShipFields(s, n, o)) = n
<1> DEFINE F == [k \in 0..n - 1 |-> <<s[1] + k * Direction[o][1], s[2] + k * Direction[o][2]>>]
           S == ShipFields(s, n, o)
<1>1. /\ Direction[o][1] \in Int /\ Direction[o][2] \in Int
      /\ \/ Direction[o][1] \in {-1, 1}
         \/ Direction[o][2] \in {-1, 1}
  BY DEF Direction, Orientations
<1>2. ASSUME NEW d \in {-1, 1}, NEW a \in Int, NEW j \in Int, NEW k \in Int,
             a + j * d = a + k * d
      PROVE  j = k
  BY <1>2
<1>3. ASSUME NEW j \in 0..n - 1, NEW k \in 0..n - 1, F[j] = F[k]
      PROVE  j = k
  <2>1. /\ s[1] + j * Direction[o][1] = s[1] + k * Direction[o][1]
        /\ s[2] + j * Direction[o][2] = s[2] + k * Direction[o][2]
    BY <1>3
  <2>2. s[1] \in Int /\ s[2] \in Int /\ j \in Int /\ k \in Int
    OBVIOUS
  <2> HIDE DEF F
  <2> QED  BY <1>1, <1>2, <2>1, <2>2
<1>4. F \in Bijection(0..n - 1, S)
  <2>1. F \in [0..n - 1 -> S] /\ \A x \in S : \E k \in 0..n - 1 : F[k] = x
    BY DEF ShipFields
  <2> HIDE DEF F, S
  <2> QED  BY <1>3, <2>1 DEF Bijection, Injection, Surjection, IsInjective
<1>5. IsFiniteSet(0..n - 1) /\ Cardinality(0..n - 1) = n
  <2>1. /\ IsFiniteSet(0..n - 1)
        /\ Cardinality(0..n - 1) = IF 0 > n - 1 THEN 0 ELSE n - 1 - 0 + 1
    BY FS_Interval
  <2> QED  BY <2>1
<1> HIDE DEF F, S
<1>6. Cardinality(S) = n
  BY <1>4, <1>5, FS_Bijection DEF ExistsBijection
<1> QED  BY <1>6 DEF S

LEMMA ShipsWholeStep ==
  ASSUME BInv, ShipsWhole, [Next]_vars
  PROVE  ShipsWhole'
<1>1. CASE UNCHANGED <<placed, fleet>>
  BY <1>1 DEF ShipsWhole
<1>2. CASE PlaceShip
  <2>1. /\ Builder \in Players /\ NextShip \in Ships /\ NextShip = placed[Builder] + 1
        /\ placed[Builder] \in Nat
        /\ fleet \in [Players -> [Ships -> SUBSET Fields]]
        /\ placed \in [Players -> 0..Len(ShipSizes)]
    BY <1>2, StillBuilding, BuilderFacts DEF BInv, TypeOK, PlaceShip, Preparing, NextShip
  <2>2. PICK k \in Turns : fleet' = [fleet EXCEPT ![Builder][NextShip] =
                      ShipFields(Moved, ShipSizes[NextShip], (search.oi + k) % 4)]
    BY <1>2 DEF PlaceShip
  <2> DEFINE S == ShipFields(Moved, ShipSizes[NextShip], (search.oi + k) % 4)
  <2>3. Cardinality(S) = ShipSizes[NextShip]
    <3>1. (search.oi + k) % 4 \in Orientations
      <4>1. search.oi \in 0..3 /\ k \in 0..3
        BY DEF Turns, Orientations, BInv, TypeOK
      <4> QED  BY <4>1 DEF Orientations
    <3>2. Moved \in Int \X Int
      BY MovedOnBoard, Constants DEF BInv, Fields
    <3>3. ShipSizes[NextShip] \in Nat
      BY <2>1, Constants
    <3> QED  BY <3>1, <3>2, <3>3, ShipSize
  <2> HIDE DEF S
  <2>4. /\ fleet' = [fleet EXCEPT ![Builder][NextShip] = S]
        /\ placed' = [placed EXCEPT ![Builder] = NextShip]
    BY <1>2, <2>2 DEF S, PlaceShip
  <2> SUFFICES ASSUME NEW p \in Players, NEW i \in 1..placed'[p]
               PROVE  Cardinality(fleet'[p][i]) = ShipSizes[i]
    BY DEF ShipsWhole
  <2>5. CASE p = Builder /\ i = NextShip
    BY <2>1, <2>3, <2>4, <2>5
  <2>6. CASE ~ (p = Builder /\ i = NextShip)
    <3>1. i \in 1..placed[p] /\ i \in Ships
      BY <2>1, <2>4, <2>6 DEF Ships
    <3>2. fleet'[p][i] = fleet[p][i]
      BY <2>1, <2>4, <2>6, <3>1
    <3> QED  BY <3>1, <3>2 DEF ShipsWhole
  <2> QED  BY <2>5, <2>6
<1>3. CASE NextGame
  BY <1>3 DEF NextGame, NewBoards, ShipsWhole
<1> QED  BY <1>1, <1>2, <1>3 DEF Next, Play, vars, setupVars, DrawStart, TryNext,
            GuestShoots, RedbeardShoots, EndSession, Leave

LEMMA CounterStep ==
  ASSUME BInv, CounterBelow, [Next]_vars
  PROVE  CounterBelow'
<1>1. CASE UNCHANGED <<round, counter>>
  BY <1>1 DEF CounterBelow, Ratio
<1>2. CASE RedbeardShoots
  <2>1. round \in 1..Len(HitRatios) /\ counter \in Nat
    BY DEF BInv, TypeOK
  <2>2. Ratio[2] \in Nat \ {0}
    BY <2>1, Constants DEF Ratio
  <2>3. \A a \in Nat, c \in Nat \ {0} : a % c < c
    OBVIOUS
  <2>4. Counted < Ratio[2]
    BY <2>1, <2>2, <2>3 DEF Counted
  <2> QED  BY <1>2, <2>4 DEF CounterBelow, RedbeardShoots, Ratio
<1>3. CASE NextGame
  <2>1. round' \in 1..Len(HitRatios) /\ counter' = 0
    BY <1>3 DEF NextGame, BInv, TypeOK
  <2> QED  BY <2>1, Constants DEF CounterBelow, Ratio
<1> QED  BY <1>1, <1>2, <1>3 DEF Next, Play, vars, setupVars, DrawStart, PlaceShip, TryNext,
            GuestShoots, EndSession, Leave

------------------------------------------------------------------------------
(* The guest's view *)

LEMMA ViewStep ==
  ASSUME BInv, ViewSound, [Next]_vars
  PROVE  ViewSound'
<1>1. CASE UNCHANGED <<hit, view, fleet>>
  BY <1>1 DEF ViewSound, Taken
<1>2. CASE PlaceShip
  <2>1. /\ UNCHANGED <<hit, view>>
        /\ hit[Redbeard] = {}
    BY <1>2, PlayersFacts DEF PlaceShip, BInv, Stages, Preparing
  <2> QED  BY <2>1 DEF ViewSound
<1>3. ASSUME GuestShoots \/ RedbeardShoots
      PROVE  ViewSound'
  <2>1. PICK f \in Fields : Shoot(f)
    BY <1>3, ShotsOnBoard
  <2>2. /\ active \in Players /\ fleet' = fleet
        /\ hit \in [Players -> SUBSET Fields] /\ view \in [Fields -> {"?", "S", "X"}]
    BY <1>3 DEF BInv, TypeOK, GuestShoots, RedbeardShoots, setupVars
  <2>3. hit' = [hit EXCEPT ![Opponent(active)] = @ \cup {f}]
    BY <2>1 DEF Shoot
  <2>4. CASE active = Guest
    <3>1. Opponent(active) = Redbeard /\ Redbeard \in Players
      BY <2>4 DEF Opponent, Guest, Redbeard, Players
    <3>2. /\ view' = [view EXCEPT ![f] = IF IsHit(Redbeard, f) THEN "S" ELSE "X"]
          /\ hit'[Redbeard] = hit[Redbeard] \cup {f}
      BY <2>1, <2>2, <2>3, <2>4, <3>1 DEF Shoot
    <3>3. Taken(Redbeard)' = Taken(Redbeard)
      BY <2>2 DEF Taken
    <3> SUFFICES ASSUME NEW g \in Fields
                 PROVE  /\ view'[g] = "?" <=> g \notin hit'[Redbeard]
                        /\ view'[g] = "S" => g \in Taken(Redbeard)
      BY <3>3 DEF ViewSound
    <3>4. CASE g = f
      BY <2>2, <3>2, <3>4 DEF IsHit
    <3>5. CASE g # f
      BY <2>2, <3>2, <3>5 DEF ViewSound
    <3> QED  BY <3>4, <3>5
  <2>5. CASE active # Guest
    <3>1. /\ Opponent(active) # Redbeard /\ Redbeard \in Players /\ Opponent(active) \in Players
      BY <2>2, <2>5, PlayersFacts DEF Opponent, Guest, Redbeard, Players
    <3>2. hit'[Redbeard] = hit[Redbeard] /\ view' = view
      BY <2>1, <2>2, <2>3, <2>5, <3>1 DEF Shoot
    <3> QED  BY <2>2, <3>2 DEF ViewSound, Taken
  <2> QED  BY <2>4, <2>5
<1>4. CASE NextGame
  BY <1>4, PlayersFacts DEF NextGame, NewBoards, ViewSound
<1> QED  BY <1>1, <1>2, <1>3, <1>4 DEF Next, Play, vars, setupVars, DrawStart, TryNext,
            EndSession, Leave

------------------------------------------------------------------------------
(* The boards, ships, hits and the guest's view of the other board always  *)
(* fit together, in every game of the session.                             *)
THEOREM SessionInvariant == Spec => []SInv
<1>1. ASSUME Init
      PROVE  SInv
  <2>1. BInv
    BY <1>1, InitInv
  <2>2. ShipsWhole
    BY <1>1 DEF Init, ShipsWhole
  <2>3. CounterBelow
    BY <1>1, Constants DEF Init, CounterBelow, Ratio
  <2>4. ViewSound
    BY <1>1, PlayersFacts DEF Init, ViewSound
  <2> QED  BY <2>1, <2>2, <2>3, <2>4 DEF SInv
<1>2. ASSUME SInv, [Next]_vars
      PROVE  SInv'
  BY <1>2, NextInv, ShipsWholeStep, CounterStep, ViewStep DEF SInv
<1> QED  BY <1>1, <1>2, PTL DEF Spec

(* Every variable keeps its type. *)
THEOREM TypeCorrect == Spec => []TypeOK
<1>1. SInv => TypeOK
  BY DEF SInv, BInv
<1> QED  BY <1>1, SessionInvariant, PTL

(* A ship keeps its size and shares no field, and it is alive exactly      *)
(* while one of its fields has not been hit.                               *)
THEOREM BoardsAlwaysAgree == Spec => []BoardsAgree
<1>1. ASSUME SInv
      PROVE  BoardsAgree
  <2>1. \A p \in Players : placed[p] \in 0..Len(ShipSizes)
    BY <1>1 DEF SInv, BInv, TypeOK
  <2>2. \A p \in Players : 1..placed[p] \subseteq Ships
    BY <2>1, Constants DEF Ships
  <2> QED  BY <1>1, <2>2 DEF SInv, BInv, BoardsAgree, FleetWhole, ShipsWhole, FleetDisjoint
<1> QED  BY <1>1, SessionInvariant, PTL

(* The guest sees each field it has shot at, and no ship that is not there.*)
THEOREM ViewIsSound == Spec => []ViewSound
<1>1. SInv => ViewSound
  BY DEF SInv
<1> QED  BY <1>1, SessionInvariant, PTL

(* An aimed shot hits, so at a full ratio Redbeard keeps the turn.         *)
THEOREM RedbeardKeepsTurn == Spec => FullRatioKeepsTurn
<1>1. ASSUME SInv, [Next]_vars, phase = "play", active = Redbeard, Ratio[1] >= Ratio[2]
      PROVE  active' = Redbeard
  <2>1. CASE RedbeardShoots
    <3>1. counter < Ratio[1]
      <4>1. /\ counter \in Nat /\ round \in 1..Len(HitRatios)
            /\ counter < Ratio[2]
        BY <1>1 DEF SInv, CounterBelow, BInv, TypeOK
      <4>2. Ratio[1] \in Nat /\ Ratio[2] \in Nat
        BY <4>1, Constants DEF Ratio
      <4> QED  BY <1>1, <4>1, <4>2
    <3>2. PICK i \in Targets : \E f \in fleet[Guest][i] \ hit[Guest] : Shoot(f)
      BY <2>1, <3>1 DEF RedbeardShoots, Aims
    <3>3. PICK f \in fleet[Guest][i] \ hit[Guest] : Shoot(f)
      BY <3>2
    <3>4. Opponent(active) = Guest
      BY <1>1 DEF Opponent, Guest, Redbeard
    <3>5. IsHit(Guest, f)
      BY <3>2, <3>3 DEF IsHit, Taken, Targets
    <3> QED  BY <1>1, <3>3, <3>4, <3>5 DEF Shoot
  <2>2. CASE ~ RedbeardShoots
    BY <1>1, <2>2, PlayersFacts
       DEF Next, Play, vars, setupVars, DrawStart, PlaceShip, TryNext, GuestShoots,
           NextGame, EndSession, Leave, Guest, Redbeard
  <2> QED  BY <2>1, <2>2
<1> QED  BY <1>1, SessionInvariant, PTL DEF Spec, FullRatioKeepsTurn

(* Captain Redbeard picks his target from the cached states of the ships,  *)
(* without a test that there is one; while a game goes on there is, and    *)
(* the guest has a field left to hit as well.                              *)
AlwaysTargets == phase = "play" => /\ Targets # {}
                                   /\ Taken(Redbeard) \ hit[Redbeard] # {}

(* An aimed shot takes a field the guest has left: this is what ends a     *)
(* game whatever the other shots are.                                      *)
AimedShotsTake ==
  [][phase = "play" /\ active = Redbeard /\ Aims /\ phase' # "closed" =>
       \E f \in Taken(Guest) \ hit[Guest] :
         hit' = [hit EXCEPT ![Guest] = @ \union {f}]]_vars

(* CaptainRedbeard.shoot always finds a target. *)
THEOREM TargetIsFound == Spec => []AlwaysTargets
<1>1. SInv => AlwaysTargets
  <2> SUFFICES ASSUME SInv, phase = "play"
               PROVE  Targets # {} /\ Taken(Redbeard) \ hit[Redbeard] # {}
    BY DEF AlwaysTargets
  <2>1. ASSUME NEW p \in Players
        PROVE  \E i \in Ships : alive[p][i] /\ fleet[p][i] \ hit[p] # {}
    <3>1. PICK i \in Ships : alive[p][i]
      BY DEF SInv, BInv, Stages
    <3>2. placed[p] = Len(ShipSizes)
      BY DEF SInv, BInv, Stages
    <3>3. i \in 1..placed[p]  BY <3>2 DEF Ships
    <3>4. ~ fleet[p][i] \subseteq hit[p]
      BY <3>1, <3>3 DEF SInv, BInv, AliveExact
    <3> QED  BY <3>1, <3>4
  <2>2. Targets # {}
    BY <2>1, PlayersFacts DEF Targets
  <2>3. PICK i \in Ships : fleet[Redbeard][i] \ hit[Redbeard] # {}
    BY <2>1, PlayersFacts
  <2>4. fleet[Redbeard][i] \subseteq Taken(Redbeard)
    BY DEF Taken
  <2> QED  BY <2>2, <2>3, <2>4
<1> QED  BY <1>1, SessionInvariant, PTL

(* Every aimed shot counts. *)
THEOREM AimedShotsCount == Spec => AimedShotsTake
<1>1. ASSUME SInv, Next, phase = "play", active = Redbeard, Aims, phase' # "closed"
      PROVE  \E f \in Taken(Guest) \ hit[Guest] :
               hit' = [hit EXCEPT ![Guest] = @ \union {f}]
  <2>1. RedbeardShoots
    <3>1. ~DrawStart /\ ~PlaceShip /\ ~TryNext /\ ~NextGame /\ ~EndSession
      BY <1>1 DEF DrawStart, PlaceShip, TryNext, NextGame, EndSession
    <3>2. ~GuestShoots
      BY <1>1 DEF GuestShoots, Guest, Redbeard
    <3>3. ~Leave /\ ~Ended
      BY <1>1 DEF Leave, Ended
    <3> QED  BY <1>1, <3>1, <3>2, <3>3 DEF Next, Play
  <2>2. PICK i \in Targets : \E f \in fleet[Guest][i] \ hit[Guest] : Shoot(f)
    BY <1>1, <2>1 DEF RedbeardShoots
  <2>3. PICK f \in fleet[Guest][i] \ hit[Guest] : Shoot(f)
    BY <2>2
  <2>4. Opponent(active) = Guest
    BY <1>1 DEF Opponent, Guest, Redbeard
  <2>5. f \in Taken(Guest) \ hit[Guest]
    BY <2>2, <2>3 DEF Taken, Targets
  <2> QED  BY <2>3, <2>4, <2>5 DEF Shoot
<1>2. SInv /\ [Next]_vars =>
        [phase = "play" /\ active = Redbeard /\ Aims /\ phase' # "closed" =>
           \E f \in Taken(Guest) \ hit[Guest] :
             hit' = [hit EXCEPT ![Guest] = @ \union {f}]]_vars
  BY <1>1
<1> QED  BY <1>2, SessionInvariant, PTL DEF Spec, AimedShotsTake

------------------------------------------------------------------------------
(* The rules of Duel *)

Stage == IF Preparing THEN "arrange" ELSE phase
Left == [p \in Players |-> Taken(p) \ hit[p]]

LEMMA RulesPlayers ==
  /\ Rules!Players = Players
  /\ \A p \in Players : Rules!Opponent(p) = Opponent(p)
  BY DEF Rules!Players, Rules!Opponent, Players, Guest, Redbeard, Opponent

LEMMA RulesInit ==
  ASSUME Init
  PROVE  Rules!Init
<1>1. Left = [p \in Players |-> {}]
  BY DEF Init, Left, Taken
<1>2. Stage = "arrange" /\ round = 1 /\ active = 0
  BY DEF Init, Stage, Preparing, Guest
<1> QED  BY <1>1, <1>2, RulesPlayers DEF Rules!Init, Left, Stage, Preparing

LEMMA RulesPlaceShip ==
  ASSUME SInv, SInv', PlaceShip
  PROVE  Rules!Next
<1>1. PICK S \in SUBSET Fields :
           /\ S # {}
           /\ S \cap Taken(Builder) = {}
           /\ fleet' = [fleet EXCEPT ![Builder][NextShip] = S]
           /\ NextShip \in Ships
           /\ \A i \in Ships : fleet'[Builder][i] = IF i = NextShip THEN S ELSE fleet[Builder][i]
           /\ \A p \in Players : p # Builder => fleet'[p] = fleet[p]
  BY PlacedShip DEF SInv
<1>2. Builder \in Players /\ fleet[Builder][NextShip] = {}
  BY <1>1, StillBuilding, BuilderFacts
     DEF SInv, BInv, TypeOK, FleetDisjoint, PlaceShip, Preparing, NextShip
<1>3. /\ hit' = hit /\ \A p \in Players : hit[p] = {}
      /\ Preparing /\ round' = round /\ active' = active
      /\ phase' \in {"draw", "play", "failed"}
  BY DEF SInv, BInv, Stages, PlaceShip, Preparing
<1>4. \A p \in Players : Taken(p)' = IF p = Builder THEN Taken(p) \cup S ELSE Taken(p)
  BY <1>1, <1>2 DEF Taken
<1>5. Left' = [Left EXCEPT ![Builder] = @ \cup S]
  BY <1>2, <1>3, <1>4 DEF Left
<1>6. S \in SUBSET (Fields \ Left[Builder])
  BY <1>1, <1>2, <1>3 DEF Left
<1>7. Stage = "arrange"
  BY <1>3 DEF Stage
<1>8. CASE phase' = "failed"
  <2>1. Stage' = "failed"
    BY <1>8 DEF Stage, Preparing
  <2>2. \A p \in Players : Left[p] \subseteq Left'[p]
    BY <1>2, <1>5 DEF Left
  <2>3. Left' \in [Players -> SUBSET Fields]
    BY DEF SInv, BInv, TypeOK, Left, Taken
  <2> QED  BY <1>3, <1>7, <2>1, <2>2, <2>3, RulesPlayers
           DEF Rules!Next, Rules!GiveUp, Left, Stage, Preparing
<1>9. CASE phase' # "failed"
  <2>1. Stage' = "arrange" \/ (Stage' = "play" /\ \A p \in Players : Left'[p] # {})
    <3>1. CASE phase' = "draw"
      BY <3>1 DEF Stage, Preparing
    <3>2. CASE phase' = "play"
      <4>1. \A p \in Players : fleet'[p][1] # {}
        BY <3>2, Constants DEF SInv, BInv, Stages, FleetDisjoint, Ships
      <4>2. \A p \in Players : Taken(p)' # {}
        <5>1. 1 \in Ships  BY Constants DEF Ships
        <5> QED  BY <4>1, <5>1 DEF Taken
      <4> QED  BY <1>3, <3>2, <4>2 DEF Stage, Preparing, Left
    <3> QED  BY <1>3, <1>9, <3>1, <3>2
  <2>2. /\ Builder \in Rules!Players /\ S \in SUBSET (Fields \ Left[Builder])
        /\ S # {} /\ Left' = [Left EXCEPT ![Builder] = @ \cup S]
    BY <1>1, <1>2, <1>5, <1>6, RulesPlayers
  <2> QED  BY <1>3, <1>7, <2>1, <2>2, RulesPlayers
           DEF Rules!Next, Rules!Arrange, Left, Stage, Preparing
<1> QED  BY <1>8, <1>9

LEMMA RulesShot ==
  ASSUME SInv, phase = "play", NEW f \in Fields, Shoot(f), UNCHANGED <<round, setupVars>>
  PROVE  [Rules!Next]_(Rules!vars)
<1> DEFINE q == Opponent(active)
<1>1. active \in Players /\ q \in Players /\ Rules!Opponent(active) = q
  BY PlayersFacts, RulesPlayers DEF SInv, BInv, TypeOK
<1>2. /\ hit' = [hit EXCEPT ![q] = @ \cup {f}]
      /\ phase' = IF Lost(UpdatedStatus(q, f)) THEN "over" ELSE "play"
      /\ active' = IF Lost(UpdatedStatus(q, f)) \/ IsHit(q, f) THEN active ELSE q
      /\ round' = round /\ fleet' = fleet
      /\ hit \in [Players -> SUBSET Fields]
  BY DEF Shoot, setupVars, SInv, BInv, TypeOK
<1>3. Lost(UpdatedStatus(q, f)) <=> Taken(q) \ (hit[q] \cup {f}) = {}
  BY <1>1, LostExact DEF SInv
<1>4. Taken(q) \ hit[q] # {}
  BY <1>1, PlayersFacts DEF SInv, BInv, Stages, AliveExact, Taken, Ships
<1> HIDE DEF q
<1>5. Left' = [Left EXCEPT ![q] = @ \ {f}]
  <2>1. \A p : Taken(p)' = Taken(p)  BY <1>2 DEF Taken
  <2>2. \A p \in Players : hit'[p] = IF p = q THEN hit[q] \cup {f} ELSE hit[p]
    BY <1>1, <1>2
  <2> QED  BY <1>1, <2>1, <2>2 DEF Left
<1>6. Stage = "play" /\ Stage' = phase'
  BY <1>2 DEF Stage, Preparing
<1>7. Left[q] = Taken(q) \ hit[q]
  BY <1>1 DEF Left
<1>8. CASE IsHit(q, f)
  <2>1. f \in Left[q]
    BY <1>7, <1>8 DEF IsHit
  <2>2. Left'[q] = {} <=> Lost(UpdatedStatus(q, f))
    <3>1. Left'[q] = Taken(q) \ (hit[q] \cup {f})
      BY <1>1, <1>5, <1>7 DEF Left
    <3> QED  BY <1>3, <3>1
  <2>3. Stage' = IF Left'[q] = {} THEN "over" ELSE "play"
    BY <1>2, <1>6, <2>2
  <2> QED  BY <1>1, <1>2, <1>5, <1>6, <1>8, <2>1, <2>3
           DEF Rules!Next, Rules!Hit, Left, Stage, Preparing
<1>9. CASE ~ IsHit(q, f)
  <2>1. Taken(q) \ (hit[q] \cup {f}) = Taken(q) \ hit[q]
    BY <1>9 DEF IsHit
  <2>2. phase' = "play" /\ active' = q
    BY <1>2, <1>3, <1>4, <1>9, <2>1
  <2>3. Left' = Left
    <3>1. Left[q] \ {f} = Left[q]
      BY <1>7, <1>9 DEF IsHit
    <3> QED  BY <1>1, <1>5, <3>1 DEF Left
  <2> QED  BY <1>1, <1>2, <1>6, <2>2, <2>3
           DEF Rules!Next, Rules!Miss, Left, Stage, Preparing
<1> QED  BY <1>8, <1>9

LEMMA RulesStep ==
  ASSUME SInv, SInv', [Next]_vars
  PROVE  [Rules!Next]_(Rules!vars)
<1>1. CASE PlaceShip
  BY <1>1, RulesPlaceShip
<1>2. CASE GuestShoots \/ RedbeardShoots
  <2>1. PICK f \in Fields : Shoot(f)
    BY <1>2, ShotsOnBoard DEF SInv
  <2>2. phase = "play" /\ UNCHANGED <<round, setupVars>>
    BY <1>2, ShotsOnBoard DEF SInv
  <2> QED  BY <2>1, <2>2, RulesShot
<1>3. CASE DrawStart \/ (TryNext /\ phase' = "try")
  <2>1. /\ phase \in {"draw", "try"} /\ phase' = "try"
        /\ UNCHANGED <<round, fleet, hit, active>>
    BY <1>3 DEF DrawStart, TryNext
  <2>2. Left' = Left /\ Stage' = Stage
    BY <2>1 DEF Left, Taken, Stage, Preparing
  <2> QED  BY <2>1, <2>2 DEF Rules!vars, Left, Stage, Preparing
<1>4. CASE TryNext /\ phase' = "failed"
  <2>1. Left \in [Players -> SUBSET Fields] /\ Left' = Left
    BY <1>4 DEF SInv, BInv, TypeOK, Left, Taken, TryNext
  <2>2. Stage = "arrange" /\ Stage' = "failed"
    BY <1>4 DEF TryNext, Stage, Preparing
  <2> QED  BY <1>4, <2>1, <2>2, RulesPlayers
           DEF TryNext, Rules!Next, Rules!GiveUp, Left, Stage, Preparing
<1>5. CASE NextGame
  <2>1. Left' = [p \in Players |-> {}]
    BY <1>5 DEF NextGame, NewBoards, Left, Taken
  <2>2. Stage = "over" /\ Stage' = "arrange"
    BY <1>5 DEF NextGame, Stage, Preparing
  <2> QED  BY <1>5, <2>1, <2>2, RulesPlayers
           DEF NextGame, Rules!Next, Rules!NextRound, Left, Stage, Preparing, Guest
<1>6. CASE EndSession
  BY <1>6 DEF EndSession, setupVars, Rules!Next, Rules!Settle, Taken, Guest, Redbeard
<1>7. CASE Leave
  BY <1>7 DEF Leave, setupVars, Rules!Next, Rules!Leave, Taken
<1>8. CASE UNCHANGED vars
  BY <1>8 DEF vars, setupVars, Rules!vars, Taken
<1>9. TryNext => phase' \in {"try", "failed"}
  BY DEF TryNext
<1> QED  BY <1>1, <1>2, <1>3, <1>4, <1>5, <1>6, <1>7, <1>8, <1>9 DEF Next, Play

(* A session goes by the rules of Duel: hits keep the turn and misses pass *)
(* it, a game ends with the last field of a fleet, and the prize is for a  *)
(* victory in every game.                                                  *)
THEOREM GoesByTheRules == Spec => ImplementsDuel
<1>1. Init => Rules!Init
  BY RulesInit
<1>2. SInv /\ SInv' /\ [Next]_vars => [Rules!Next]_(Rules!vars)
  BY RulesStep
<1> QED  BY <1>1, <1>2, SessionInvariant, PTL DEF Spec, ImplementsDuel, Rules!Spec

------------------------------------------------------------------------------
(* The search for a place: its walk over the board *)

Coords == 0..Size - 1
LastTry == Size * Size - 1

LEMMA SquareFacts ==
  /\ LastTry \in Nat /\ Coords \X Coords = Fields
  /\ \A a \in Int : a % Size \in Coords
<1>1. Size * Size \in Nat /\ Size * Size > 0  BY Constants
<1>2. \A a \in Int : a % Size \in Coords  BY Constants DEF Coords
<1> QED  BY <1>1, <1>2 DEF LastTry, Coords, Fields

LEMMA WalkLoop ==
  /\ Walk(Size) \in [0..LastTry -> Fields]
  /\ Walk(Size)[0] = <<0, 0>>
  /\ \A t \in 1..LastTry :
       Walk(Size)[t] = <<(Walk(Size)[t - 1][1] + t) % Size,
                         (Walk(Size)[t - 1][2] + t \div Size) % Size>>
<1> DEFINE X == Coords \X Coords
           z == <<0, 0>>
           Round(t, p) == <<(p[1] + t) % Size, (p[2] + t \div Size) % Size>>
           G == [t \in 1..LastTry |-> [p \in X |-> Round(t, p)]]
           Body(f) == [t \in 0..LastTry |-> IF t = 0 THEN z ELSE Round(t, f[t - 1])]
           r == Walk(Size)
<1>1. z \in X /\ \A t \in 1..LastTry, p \in X : Round(t, p) \in X
  <2>1. 0 \in Coords  BY Constants DEF Coords
  <2>2. ASSUME NEW t \in 1..LastTry, NEW p \in X PROVE Round(t, p) \in X
    <3>1. p[1] \in Int /\ p[2] \in Int  BY DEF Coords
    <3>2. t \div Size \in Int  BY Constants
    <3>3. p[1] + t \in Int /\ p[2] + t \div Size \in Int  BY <3>1, <3>2
    <3> QED  BY <3>3, SquareFacts
  <2> QED  BY <2>1, <2>2
<1> HIDE DEF X, z, Round
<1>2. G \in [1..LastTry -> [X -> X]]  BY <1>1
<1>3. \A t \in 1..LastTry, p \in X : G[t][p] = Round(t, p)  OBVIOUS
<1> HIDE DEF G
<1>4. LastTry \in Nat  BY SquareFacts
<1>5. PICK f : f \in Runs(LastTry, X, z, G)
  BY <1>1, <1>2, <1>4, LoopExists
<1>6. ASSUME NEW t \in 1..LastTry
      PROVE  f[t - 1] \in X /\ f[t] = Round(t, f[t - 1])
  <2>1. f[t - 1] \in X /\ f[t] = G[t][f[t - 1]]  BY <1>4, <1>5 DEF Runs
  <2> QED  BY <1>3, <2>1
<1>7. f = Body(f)
  <2>1. f \in [0..LastTry -> X] /\ f[0] = z  BY <1>5 DEF Runs
  <2>2. \A t \in 0..LastTry : f[t] = IF t = 0 THEN z ELSE Round(t, f[t - 1])
    BY <1>4, <1>6, <2>1
  <2> QED  BY <2>1, <2>2
<1>8. r = CHOOSE g : g = Body(g)  BY DEF Walk, Round, LastTry, z
<1> HIDE DEF r
<1>9. r = Body(r)
  <2> HIDE DEF Body
  <2> QED  BY <1>7, <1>8
<1>10. r = [t \in 0..LastTry |-> r[t]] /\ r[0] = z  BY <1>4, <1>9
<1>11. \A t \in 1..LastTry : r[t] = Round(t, r[t - 1])  BY <1>4, <1>9
<1>12. r[0] \in X /\ \A t \in 1..LastTry : r[t - 1] \in X => r[t] \in X
  BY <1>1, <1>10, <1>11
<1>13. r \in [0..LastTry -> X]  BY <1>4, <1>10, <1>12, LoopValues, ZenonT(40)
<1> QED  BY <1>10, <1>11, <1>13, SquareFacts DEF r, X, z, Round

LEMMA FieldsOfLoop ==
  /\ FieldsOf(ShipSizes) \in [0..Len(ShipSizes) -> Nat]
  /\ FieldsOf(ShipSizes)[0] = 0
  /\ \A i \in Ships : FieldsOf(ShipSizes)[i] = FieldsOf(ShipSizes)[i - 1] + ShipSizes[i]
<1> DEFINE N == Len(ShipSizes)
           X == Nat
           Round(i, x) == x + ShipSizes[i]
           G == [i \in 1..N |-> [x \in X |-> Round(i, x)]]
           Body(f) == [i \in 0..N |-> IF i = 0 THEN 0 ELSE Round(i, f[i - 1])]
           r == FieldsOf(ShipSizes)
<1>1. 0 \in X /\ \A i \in 1..N, x \in X : Round(i, x) \in X
  BY Constants DEF Ships
<1>2. N \in Nat  BY Constants
<1>3. r = CHOOSE g : g = Body(g)  BY DEF FieldsOf
<1> HIDE DEF X, Round, N, r
<1>4. G \in [1..N -> [X -> X]]  BY <1>1
<1>5. \A i \in 1..N, x \in X : G[i][x] = Round(i, x)  OBVIOUS
<1> HIDE DEF G
<1>6. PICK f : f \in Runs(N, X, 0, G)
  BY <1>1, <1>2, <1>4, LoopExists
<1>7. ASSUME NEW i \in 1..N
      PROVE  f[i - 1] \in X /\ f[i] = Round(i, f[i - 1])
  <2>1. f[i - 1] \in X /\ f[i] = G[i][f[i - 1]]  BY <1>2, <1>6 DEF Runs
  <2> QED  BY <1>5, <2>1
<1>8. f = Body(f)
  <2>1. f \in [0..N -> X] /\ f[0] = 0  BY <1>6 DEF Runs
  <2>2. \A i \in 0..N : f[i] = IF i = 0 THEN 0 ELSE Round(i, f[i - 1])
    BY <1>2, <1>7, <2>1
  <2> QED  BY <2>1, <2>2
<1>9. r = Body(r)
  <2> HIDE DEF Body
  <2> QED  BY <1>3, <1>8
<1>10. r = [i \in 0..N |-> r[i]] /\ r[0] = 0  BY <1>2, <1>9
<1>11. \A i \in 1..N : r[i] = Round(i, r[i - 1])  BY <1>2, <1>9
<1>12. r[0] \in X /\ \A i \in 1..N : r[i - 1] \in X => r[i] \in X
  BY <1>1, <1>10, <1>11
<1>13. r \in [0..N -> X]  BY <1>2, <1>10, <1>12, LoopValues, ZenonT(40)
<1> QED  BY <1>10, <1>11, <1>13 DEF r, X, Round, N, Ships

(* Adding modulo n *)
LEMMA ModAdd ==
  ASSUME NEW n \in Nat \ {0}, NEW a \in Int, NEW b \in Int
  PROVE  ((a % n) + b) % n = (a + b) % n
<1> DEFINE k == a \div n
           r == a % n
           m == (r + b) \div n
           e == (r + b) % n
<1>1. k \in Int /\ r \in 0..n - 1 /\ a = n * k + r  BY DivMod
<1>2. r + b \in Int  BY <1>1
<1>3. m \in Int /\ e \in 0..n - 1 /\ r + b = n * m + e  BY <1>2, DivMod
<1> HIDE DEF k, r, m, e
<1>4. a + b = (k + m) * n + e  BY <1>1, <1>3
<1>5. k + m \in Int  BY <1>1, <1>3
<1>6. ((k + m) * n + e) % n = e  BY <1>3, <1>5, DivUnique
<1> QED  BY <1>4, <1>6 DEF e, r

LEMMA ModCancel ==
  ASSUME NEW n \in Nat \ {0}, NEW a \in Int, NEW b \in 0..n - 1, NEW c \in 0..n - 1,
         (a + b) % n = (a + c) % n
  PROVE  b = c
<1> DEFINE k == (a + b) \div n
           m == (a + c) \div n
           r == (a + b) % n
<1>1. k \in Int /\ r \in 0..n - 1 /\ a + b = n * k + r  BY DivMod
<1>2. m \in Int /\ a + c = n * m + r  BY DivMod
<1> HIDE DEF k, m, r
<1>3. b - c = (k - m) * n  BY <1>1, <1>2
<1>4. k - m \in Int /\ b - c < n /\ -n < b - c  BY <1>1, <1>2
<1>5. (k - m) * n < 0 * n + n /\ 0 * n < (k - m) * n + n  BY <1>3, <1>4
<1>6. k - m <= 0 /\ 0 <= k - m  BY <1>4, <1>5, MultipleOrder
<1>7. k - m = 0  BY <1>4, <1>6
<1> QED  BY <1>3, <1>7

(* The next number: its quotient grows when its remainder is zero. *)
LEMMA NextDiv ==
  ASSUME NEW n \in Nat \ {0}, NEW x \in Nat
  PROVE  (x + 1) \div n = IF (x + 1) % n = 0 THEN x \div n + 1 ELSE x \div n
<1> DEFINE k == x \div n
           r == x % n
<1>1. k \in Int /\ r \in 0..n - 1 /\ x = n * k + r  BY DivMod
<1> HIDE DEF k, r
<1>2. CASE r = n - 1
  <2>1. x + 1 = (k + 1) * n + 0 /\ k + 1 \in Int /\ 0 \in 0..n - 1  BY <1>1, <1>2
  <2>2. ((k + 1) * n + 0) \div n = k + 1 /\ ((k + 1) * n + 0) % n = 0
    BY <2>1, DivUnique
  <2>3. (x + 1) \div n = k + 1 /\ (x + 1) % n = 0  BY <2>1, <2>2
  <2> QED  BY <2>3 DEF k
<1>3. CASE r # n - 1
  <2>1. x + 1 = k * n + (r + 1) /\ r + 1 \in 0..n - 1 /\ r + 1 # 0  BY <1>1, <1>3
  <2>2. (k * n + (r + 1)) \div n = k /\ (k * n + (r + 1)) % n = r + 1
    BY <1>1, <2>1, DivUnique
  <2>3. (x + 1) \div n = k /\ (x + 1) % n # 0  BY <2>1, <2>2
  <2> QED  BY <2>3 DEF k
<1> QED  BY <1>2, <1>3

------------------------------------------------------------------------------
(* What can refuse a ship *)

(* How far along a column a field of another ship is in the way. *)
Reach(n) == (1 - n)..(n - 1)

(* A field refused in every orientation has a field of another ship close  *)
(* to it in its column: the board has room to its north or to its south.   *)
LEMMA InTheWay ==
  ASSUME NEW p, NEW f \in Fields, NEW n \in Nat \ {0}, 2 * n <= Size + 2,
         \A o \in Orientations : ~ Fits(p, f, n, o)
  PROVE  \E c \in Taken(p), d \in Reach(n) : f = <<c[1], c[2] + d>>
<1>1. f = <<f[1], f[2]>> /\ f[1] \in 0..Size - 1 /\ f[2] \in 0..Size - 1 /\ Size \in Nat
  BY Constants DEF Fields
<1>2. CASE n - 1 <= f[2]
  <2>1. ~ Fits(p, f, n, 0)  BY DEF Orientations
  <2>2. ShipFields(f, n, 0) = {<<f[1], f[2] - k>> : k \in 0..n - 1}
    <3>1. Direction[0] = <<0, -1>>  BY DEF Direction, Orientations
    <3>2. ShipFields(f, n, 0) = {<<f[1] + k * 0, f[2] + k * (-1)>> : k \in 0..n - 1}
      BY <3>1 DEF ShipFields
    <3>3. \A k \in 0..n - 1 : f[1] + k * 0 = f[1] /\ f[2] + k * (-1) = f[2] - k
      BY <1>1
    <3> QED  BY <3>2, <3>3
  <2>3. \A k \in 0..n - 1 : f[2] - k \in 0..Size - 1  BY <1>1, <1>2
  <2>4. ShipFields(f, n, 0) \subseteq Fields  BY <1>1, <2>2, <2>3 DEF Fields
  <2>5. PICK k \in 0..n - 1 : <<f[1], f[2] - k>> \in Taken(p)
    BY <2>1, <2>2, <2>4 DEF Fits
  <2> DEFINE c == <<f[1], f[2] - k>>
  <2>6. c \in Taken(p) /\ k \in Reach(n) /\ f = <<c[1], c[2] + k>>
    BY <1>1, <2>5 DEF Reach
  <2> QED  BY <2>6
<1>3. CASE ~ (n - 1 <= f[2])
  <2>1. ~ Fits(p, f, n, 2)  BY DEF Orientations
  <2>2. ShipFields(f, n, 2) = {<<f[1], f[2] + k>> : k \in 0..n - 1}
    <3>1. Direction[2] = <<0, 1>>  BY DEF Direction, Orientations
    <3>2. ShipFields(f, n, 2) = {<<f[1] + k * 0, f[2] + k * 1>> : k \in 0..n - 1}
      BY <3>1 DEF ShipFields
    <3>3. \A k \in 0..n - 1 : f[1] + k * 0 = f[1] /\ f[2] + k * 1 = f[2] + k
      BY <1>1
    <3> QED  BY <3>2, <3>3
  <2>3. \A k \in 0..n - 1 : f[2] + k \in 0..Size - 1  BY <1>1, <1>3
  <2>4. ShipFields(f, n, 2) \subseteq Fields  BY <1>1, <2>2, <2>3 DEF Fields
  <2>5. PICK k \in 0..n - 1 : <<f[1], f[2] + k>> \in Taken(p)
    BY <2>1, <2>2, <2>4 DEF Fits
  <2> DEFINE c == <<f[1], f[2] + k>>
  <2>6. c \in Taken(p) /\ -k \in Reach(n) /\ f = <<c[1], c[2] + (-k)>>
    BY <1>1, <2>5 DEF Reach
  <2> QED  BY <2>6
<1> QED  BY <1>2, <1>3

(* Fields at different distances from the first are different fields. *)
At(s, v) == <<(s[1] + v[1]) % Size, (s[2] + v[2]) % Size>>

LEMMA AtInjective ==
  ASSUME NEW s \in Fields, NEW v \in Fields, NEW w \in Fields, At(s, v) = At(s, w)
  PROVE  v = w
<1>1. Size \in Nat \ {0}  BY Constants
<1>2. /\ s[1] \in Int /\ s[2] \in Int
      /\ v = <<v[1], v[2]>> /\ w = <<w[1], w[2]>>
      /\ v[1] \in 0..Size - 1 /\ v[2] \in 0..Size - 1
      /\ w[1] \in 0..Size - 1 /\ w[2] \in 0..Size - 1
  BY DEF Fields
<1>3. /\ (s[1] + v[1]) % Size = (s[1] + w[1]) % Size
      /\ (s[2] + v[2]) % Size = (s[2] + w[2]) % Size
  BY DEF At
<1>4. v[1] = w[1] /\ v[2] = w[2]
  BY <1>1, <1>2, <1>3, ModCancel
<1> QED  BY <1>2, <1>4

(* So the fields of T are in the way of few distances. *)
LEMMA FewInTheWay ==
  ASSUME NEW s \in Fields, NEW T, IsFiniteSet(T), NEW n \in Nat \ {0},
         NEW V \in SUBSET Fields,
         \A v \in V : \E c \in T, d \in Reach(n) : At(s, v) = <<c[1], c[2] + d>>
  PROVE  Cardinality(V) <= Cardinality(T) * (2 * n - 1)
<1> DEFINE P == T \X Reach(n)
           Spot(z) == <<z[1][1], z[1][2] + z[2]>>
           F == [v \in V |-> CHOOSE z \in P : At(s, v) = Spot(z)]
<1>1. \A v \in V : \E z \in P : At(s, v) = Spot(z)
  <2> SUFFICES ASSUME NEW v \in V PROVE \E z \in P : At(s, v) = Spot(z)
    OBVIOUS
  <2>1. PICK c \in T, d \in Reach(n) : At(s, v) = <<c[1], c[2] + d>>
    OBVIOUS
  <2>2. <<c, d>> \in P /\ Spot(<<c, d>>) = <<c[1], c[2] + d>>
    OBVIOUS
  <2> HIDE DEF P, Spot
  <2> QED  BY <2>1, <2>2
<1>2. IsFiniteSet(P) /\ Cardinality(P) = Cardinality(T) * (2 * n - 1)
  <2>1. 1 - n \in Int /\ n - 1 \in Int /\ ~ (1 - n > n - 1) /\ n - 1 - (1 - n) + 1 = 2 * n - 1
    OBVIOUS
  <2>2. IsFiniteSet(Reach(n)) /\ Cardinality(Reach(n)) = 2 * n - 1
    BY <2>1, FS_Interval DEF Reach
  <2> QED  BY <2>2, FS_Product
<1> HIDE DEF P, Spot
<1>3. F \in [V -> P] /\ \A v \in V : At(s, v) = Spot(F[v])
  BY <1>1
<1> HIDE DEF F
<1>4. \A v, w \in V : F[v] = F[w] => v = w
  BY <1>3, AtInjective
<1>5. F \in Injection(V, P)
  BY <1>3, <1>4 DEF Injection, IsInjective
<1> QED  BY <1>2, <1>5, FS_Injection

LEMMA BoardFinite ==
  ASSUME NEW S \in SUBSET Fields
  PROVE  IsFiniteSet(S)
<1> DEFINE C == 0..Size - 1
<1>1. 0 \in Int /\ Size - 1 \in Int  BY Constants
<1>2. IsFiniteSet(C)  BY <1>1, FS_Interval
<1> HIDE DEF C
<1>3. IsFiniteSet(C \X C)  BY <1>2, FS_Product
<1>4. IsFiniteSet(Fields)  BY <1>3 DEF C, Fields
<1> QED  BY <1>4, FS_Subset

(* A search that gets to its last try has found the board too full. *)
LEMMA Blocked ==
  ASSUME Roomy(Size, ShipSizes), NEW p, NEW i \in Ships, NEW s \in Fields,
         Taken(p) \subseteq Fields,
         Cardinality(Taken(p)) = FieldsOf(ShipSizes)[i - 1],
         \A t \in 0..LastTry - 1 :
           \A o \in Orientations : ~ Fits(p, Try(s, t), ShipSizes[i], o)
  PROVE  FALSE
<1> DEFINE n == ShipSizes[i]
           k == FieldsOf(ShipSizes)[i - 1]
<1>1. n \in Nat \ {0} /\ 2 * n <= Size + 2
  BY Constants DEF Roomy, Ships
<1>2. (2 * n - 1) * k < Cardinality(Visited(Size))
  BY DEF Roomy, Ships
<1>3. k \in Nat
  <2>1. i - 1 \in 0..Len(ShipSizes)  BY Constants DEF Ships
  <2> QED  BY <2>1, FieldsOfLoop
<1>4. IsFiniteSet(Taken(p))
  BY BoardFinite
<1>5. ASSUME NEW v \in Visited(Size)
      PROVE  v \in Fields /\ \E c \in Taken(p), d \in Reach(n) : At(s, v) = <<c[1], c[2] + d>>
  <2>1. PICK t \in 0..LastTry - 1 : v = Walk(Size)[t]
    <3>1. Size * Size - 2 = LastTry - 1  BY Constants DEF LastTry
    <3> QED  BY <3>1 DEF Visited
  <2>2. v \in Fields  BY <2>1, WalkLoop, SquareFacts
  <2>3. Try(s, t) = At(s, v)  BY <2>1 DEF Try, At
  <2>4. At(s, v) \in Fields
    <3>1. /\ s[1] + v[1] \in Int /\ s[2] + v[2] \in Int  BY <2>2 DEF Fields
    <3> QED  BY <3>1, SquareFacts DEF At
  <2>5. \A o \in Orientations : ~ Fits(p, At(s, v), n, o)  BY <2>1, <2>3
  <2> HIDE DEF n
  <2>6. \E c \in Taken(p), d \in Reach(n) : At(s, v) = <<c[1], c[2] + d>>
    BY <1>1, <2>4, <2>5, InTheWay
  <2> QED  BY <2>2, <2>6
<1> HIDE DEF n, k
<1>6. Cardinality(Visited(Size)) <= Cardinality(Taken(p)) * (2 * n - 1)
  BY <1>1, <1>4, <1>5, FewInTheWay
<1>7. Cardinality(Taken(p)) * (2 * n - 1) = (2 * n - 1) * k
  BY <1>1, <1>3 DEF k
<1>8. Cardinality(Visited(Size)) \in Nat
  <2>1. IsFiniteSet(Visited(Size))
    <3>1. Visited(Size) \in SUBSET Fields  BY <1>5
    <3> QED  BY <3>1, BoardFinite
  <2> QED  BY <2>1, FS_CardinalityType
<1>9. (2 * n - 1) * k \in Nat
  BY <1>1, <1>3
<1> QED  BY <1>2, <1>6, <1>7, <1>8, <1>9

------------------------------------------------------------------------------
(* The search for a place succeeds *)

LEMMA Placing ==
  ASSUME BInv, Preparing
  PROVE  /\ Builder \in Players /\ NextShip \in Ships
         /\ placed[Builder] \in Nat /\ NextShip - 1 = placed[Builder]
         /\ Taken(Builder) \subseteq Fields
<1>1. /\ Builder \in Players /\ NextShip \in Ships /\ placed[Builder] \in Nat
      /\ fleet \in [Players -> [Ships -> SUBSET Fields]]
  BY StillBuilding, BuilderFacts DEF BInv, TypeOK
<1> QED  BY <1>1 DEF NextShip, Taken

LEMMA NotExhausted ==
  ASSUME Roomy(Size, ShipSizes), BInv, TriesRefused, FleetSizes, phase = "try"
  PROVE  /\ search.xOffset \in Nat /\ NextX \in 0..LastTry
         /\ NextY = NextX \div Size
         /\ ~ Exhausted
<1> DEFINE x == search.xOffset
<1>1. PICK s \in Fields : \A t \in 0..x - 1 : Refused(Try(s, t))
  BY DEF TriesRefused
<1>2. /\ Builder \in Players /\ NextShip \in Ships
      /\ Taken(Builder) \subseteq Fields
      /\ Cardinality(Taken(Builder)) = FieldsOf(ShipSizes)[NextShip - 1]
  BY Placing DEF Preparing, FleetSizes
<1>3. x \in 0..LastTry /\ search.yOffset = x \div Size /\ LastTry \in Nat
  BY SquareFacts DEF TriesRefused, LastTry
<1>4. x # LastTry
  <2> SUFFICES ASSUME x = LastTry PROVE FALSE
    OBVIOUS
  <2>1. \A t \in 0..LastTry - 1 :
           \A o \in Orientations : ~ Fits(Builder, Try(s, t), ShipSizes[NextShip], o)
    BY <1>1 DEF Refused
  <2> QED  BY <1>2, <2>1, Blocked
<1> HIDE DEF x
<1>5. Size \in Nat \ {0} /\ x \in Nat /\ x + 1 \in 0..LastTry
  BY <1>3, <1>4, Constants
<1>6. (x + 1) \div Size = IF (x + 1) % Size = 0 THEN x \div Size + 1 ELSE x \div Size
  BY <1>5, NextDiv
<1>7. NextX = x + 1 /\ NextY = (x + 1) \div Size
  BY <1>3, <1>6 DEF NextX, NextY, x
<1>8. ASSUME Exhausted PROVE FALSE
  <2>1. (x + 1) % Size = 0 /\ (x + 1) \div Size = Size
    BY <1>7, <1>8 DEF Exhausted
  <2>2. x + 1 = Size * ((x + 1) \div Size) + ((x + 1) % Size)
    BY <1>5, DivMod
  <2>3. x + 1 = Size * Size + 0
    BY <2>1, <2>2
  <2> QED  BY <1>4, <1>5, <2>3 DEF LastTry
<1> QED  BY <1>5, <1>7, <1>8 DEF x

(* Four turns try every orientation. *)
LEMMA AllTurns ==
  ASSUME BInv, Turns = {}
  PROVE  Refused(Moved)
<1>1. ASSUME NEW o \in Orientations
      PROVE  ~ Fits(Builder, Moved, ShipSizes[NextShip], o)
  <2>1. search.oi \in 0..3 /\ o \in 0..3  BY DEF BInv, TypeOK, Orientations
  <2>2. \A a \in 0..3, b \in 0..3 : \E k \in 0..3 : (a + k) % 4 = b
    <3> SUFFICES ASSUME NEW a \in 0..3, NEW b \in 0..3
                 PROVE  \E k \in 0..3 : (a + k) % 4 = b
      OBVIOUS
    <3>1. CASE a <= b
      <4>1. b - a \in 0..3 /\ (a + (b - a)) % 4 = b  BY <3>1
      <4> QED  BY <4>1
    <3>2. CASE b < a
      <4>1. b - a + 4 \in 0..3 /\ a + (b - a + 4) = 1 * 4 + b  BY <3>2
      <4>2. (1 * 4 + b) % 4 = b  BY DivUnique
      <4> QED  BY <4>1, <4>2
    <3> QED  BY <3>1, <3>2
  <2>3. PICK k \in 0..3 : (search.oi + k) % 4 = o  BY <2>1, <2>2
  <2>4. k \notin Turns /\ k \in Orientations  BY DEF Orientations
  <2> QED  BY <2>3, <2>4 DEF Turns
<1> QED  BY <1>1 DEF Refused

(* The start of the next try *)
LEMMA NextStart ==
  ASSUME NEW s \in Fields, NEW t \in Nat, t + 1 \in 0..LastTry
  PROVE  Try(s, t + 1) = <<(Try(s, t)[1] + (t + 1)) % Size,
                           (Try(s, t)[2] + (t + 1) \div Size) % Size>>
<1> DEFINE w == Walk(Size)[t]
           d == (t + 1) \div Size
<1>1. Size \in Nat \ {0} /\ t + 1 \in 1..LastTry /\ t \in 0..LastTry /\ (t + 1) - 1 = t
  BY Constants, SquareFacts
<1>2. w \in Fields  BY <1>1, WalkLoop
<1>3. s[1] \in Int /\ s[2] \in Int /\ w[1] \in Int /\ w[2] \in Int
  BY <1>2 DEF Fields
<1>4. d \in Int  BY <1>1, DivMod
<1>5. Walk(Size)[t + 1] = <<(w[1] + (t + 1)) % Size, (w[2] + d) % Size>>
  BY <1>1, WalkLoop
<1> HIDE DEF w, d
<1>6. ASSUME NEW a \in Int, NEW b \in Int, NEW c \in Int
      PROVE  (a + ((b + c) % Size)) % Size = (((a + b) % Size) + c) % Size
  <2> DEFINE bc == b + c
             ab == a + b
  <2>1. bc \in Int /\ ab \in Int /\ bc + a = ab + c  OBVIOUS
  <2> HIDE DEF bc, ab
  <2>2. ((bc % Size) + a) % Size = (bc + a) % Size  BY <1>1, <2>1, ModAdd, Zenon
  <2>3. ((ab % Size) + c) % Size = (ab + c) % Size  BY <1>1, <2>1, ModAdd, Zenon
  <2>4. bc % Size \in Int  BY <1>1, <2>1, DivMod
  <2>5. a + (bc % Size) = (bc % Size) + a  BY <2>4
  <2>6. (a + (bc % Size)) % Size = ((ab % Size) + c) % Size
    BY <2>1, <2>2, <2>3, <2>5
  <2> QED  BY <2>6 DEF bc, ab
<1>7. /\ (s[1] + ((w[1] + (t + 1)) % Size)) % Size = (((s[1] + w[1]) % Size) + (t + 1)) % Size
      /\ (s[2] + ((w[2] + d) % Size)) % Size = (((s[2] + w[2]) % Size) + d) % Size
  <2> DEFINE e == t + 1
             Shifts(a, b, c) == (a + ((b + c) % Size)) % Size = (((a + b) % Size) + c) % Size
  <2>1. \A a, b, c \in Int : Shifts(a, b, c)  BY <1>6
  <2>2. e \in Int  OBVIOUS
  <2> HIDE DEF Shifts, e
  <2>3. Shifts(s[1], w[1], e) /\ Shifts(s[2], w[2], d)  BY <1>3, <1>4, <2>1, <2>2
  <2> QED  BY <2>3 DEF Shifts, e
<1>8. Try(s, t + 1) = <<(((s[1] + w[1]) % Size) + (t + 1)) % Size,
                        (((s[2] + w[2]) % Size) + d) % Size>>
  BY <1>5, <1>7 DEF Try
<1>9. Try(s, t) = <<(s[1] + w[1]) % Size, (s[2] + w[2]) % Size>>
  BY DEF Try, w
<1> QED  BY <1>8, <1>9 DEF d

LEMMA TriesStep ==
  ASSUME Roomy(Size, ShipSizes), BInv, TriesRefused, FleetSizes, [Next]_vars
  PROVE  TriesRefused'
<1>1. CASE DrawStart
  <2>1. PICK o \in Orientations, f \in Fields :
           search' = [NoSearch EXCEPT !.oi = o, !.start = f]
    BY <1>1 DEF DrawStart
  <2>2. search'.start = f /\ search'.xOffset = 0 /\ search'.yOffset = 0
    BY <2>1 DEF NoSearch
  <2>3. Moved' = Try(f, 0)
    BY <2>2, WalkLoop DEF Moved, Try
  <2>4. 0 \in 0..Size * Size - 1 /\ 0 = 0 \div Size
    <3>1. Size \in Nat \ {0}  BY Constants
    <3>2. (0 * Size + 0) \div Size = 0  BY <3>1, DivUnique
    <3>3. LastTry \in Nat  BY SquareFacts
    <3> QED  BY <3>1, <3>2, <3>3 DEF LastTry
  <2>5. 0..0 - 1 = {}  OBVIOUS
  <2> QED  BY <2>2, <2>3, <2>4, <2>5 DEF TriesRefused
<1>2. CASE TryNext
  <2> DEFINE x == search.xOffset
  <2>1. phase = "try"  BY <1>2 DEF TryNext
  <2>2. x \in Nat /\ NextX \in 0..LastTry /\ NextY = NextX \div Size
    BY <2>1, NotExhausted
  <2>3. PICK s \in Fields : Moved = Try(s, x) /\ \A t \in 0..x - 1 : Refused(Try(s, t))
    BY <2>1 DEF TriesRefused
  <2>4. /\ search'.start = Moved /\ search'.xOffset = x + 1
        /\ search'.yOffset = (x + 1) \div Size
        /\ NextX = x + 1
        /\ UNCHANGED <<placed, fleet>>
    BY <1>2, <2>2 DEF TryNext, NextX, BInv, TypeOK
  <2> HIDE DEF x
  <2>5. Moved' = Try(s, x + 1)
    BY <2>2, <2>3, <2>4, NextStart DEF Moved
  <2>6. Refused(Moved)
    BY <1>2, AllTurns DEF TryNext
  <2>7. \A t \in 0..(x + 1) - 1 : Refused(Try(s, t))
    BY <2>2, <2>3, <2>6
  <2>8. \A f : Refused(f)' <=> Refused(f)
    BY <2>4 DEF Refused, Fits, Taken, Builder, NextShip
  <2>9. \A t \in 0..(x + 1) - 1 : Refused(Try(s, t))'
    BY <2>7, <2>8
  <2> QED  BY <2>2, <2>4, <2>5, <2>9 DEF TriesRefused, LastTry
<1>3. CASE UNCHANGED vars
  BY <1>3 DEF vars, setupVars, TriesRefused, Moved, Refused, Fits, Taken, Builder, NextShip
<1>4. CASE phase' # "try"
  BY <1>4 DEF TriesRefused
<1>5. PlaceShip \/ GuestShoots \/ RedbeardShoots \/ NextGame \/ EndSession \/ Leave
        => phase' # "try"
  BY DEF PlaceShip, GuestShoots, RedbeardShoots, Shoot, NextGame, EndSession, Leave
<1>6. Ended /\ UNCHANGED vars => UNCHANGED vars
  OBVIOUS
<1> QED  BY <1>1, <1>2, <1>3, <1>4, <1>5 DEF Next, Play

LEMMA FleetSizesStep ==
  ASSUME BInv, FleetSizes, ShipsWhole', [Next]_vars
  PROVE  FleetSizes'
<1>1. CASE UNCHANGED <<placed, fleet>>
  BY <1>1 DEF FleetSizes, Taken
<1>2. CASE PlaceShip
  <2>0. PICK b \in Players, i \in Ships : b = Builder /\ i = NextShip
    BY <1>2, Placing DEF PlaceShip, Preparing
  <2>1. PICK S \in SUBSET Fields :
           /\ S \cap Taken(b) = {}
           /\ \A j \in Ships : fleet'[b][j] = IF j = i THEN S ELSE fleet[b][j]
           /\ \A p \in Players : p # b => fleet'[p] = fleet[p]
    BY <1>2, <2>0, PlacedShip
  <2>2. /\ i \in Nat /\ i - 1 = placed[b] /\ placed[b] \in Nat
        /\ Taken(b) \subseteq Fields
    BY <1>2, <2>0, Constants, Placing DEF PlaceShip, Preparing, Ships
  <2>3. /\ placed' = [placed EXCEPT ![b] = i]
        /\ placed \in [Players -> 0..Len(ShipSizes)]
    BY <1>2, <2>0 DEF PlaceShip, BInv, TypeOK
  <2>4. fleet[b][i] = {}
    BY <2>1, <2>2 DEF BInv, FleetDisjoint
  <2>5. Taken(b)' = Taken(b) \cup S
    BY <2>1, <2>4 DEF Taken
  <2>6. Cardinality(S) = ShipSizes[i]
    <3>1. i \in 1..placed'[b] /\ fleet'[b][i] = S
      BY <2>1, <2>2, <2>3 DEF Ships
    <3> QED  BY <2>2, <3>1 DEF ShipsWhole
  <2>7. Cardinality(Taken(b)') = Cardinality(Taken(b)) + Cardinality(S)
    <3>1. IsFiniteSet(S) /\ IsFiniteSet(Taken(b))  BY <2>2, BoardFinite
    <3>2. Taken(b) \cap S = {} /\ Cardinality({}) = 0  BY <2>1, FS_EmptySet
    <3>3. Cardinality(Taken(b) \cup S)
            = Cardinality(Taken(b)) + Cardinality(S) - Cardinality(Taken(b) \cap S)
      BY <3>1, FS_Union
    <3>4. Cardinality(Taken(b)) \in Nat /\ Cardinality(S) \in Nat
      BY <3>1, FS_CardinalityType
    <3> QED  BY <2>5, <3>2, <3>3, <3>4
  <2>8. Cardinality(Taken(b)') = FieldsOf(ShipSizes)[i]
    BY <2>1, <2>2, <2>6, <2>7, FieldsOfLoop DEF FleetSizes
  <2>9. ASSUME NEW p \in Players
        PROVE  Cardinality(Taken(p)') = FieldsOf(ShipSizes)[placed'[p]]
    <3>1. CASE p = b
      BY <2>2, <2>3, <2>8, <3>1
    <3>2. CASE p # b
      <4>1. Taken(p)' = Taken(p) /\ placed'[p] = placed[p]
        BY <2>1, <2>2, <2>3, <3>2 DEF Taken
      <4> QED  BY <4>1 DEF FleetSizes
    <3> QED  BY <3>1, <3>2
  <2> QED  BY <2>9 DEF FleetSizes
<1>3. CASE NextGame
  <2>1. \A p \in Players : Taken(p)' = {} /\ placed'[p] = 0
    BY <1>3 DEF NextGame, NewBoards, Taken
  <2> QED  BY <2>1, FieldsOfLoop, FS_EmptySet DEF FleetSizes
<1> QED  BY <1>1, <1>2, <1>3 DEF Next, Play, vars, setupVars, DrawStart, TryNext,
            GuestShoots, RedbeardShoots, EndSession, Leave

LEMMA SucceedsStep ==
  ASSUME Roomy(Size, ShipSizes), BInv, TriesRefused, FleetSizes, SetupSucceeds, [Next]_vars
  PROVE  SetupSucceeds'
<1>1. CASE PlaceShip \/ TryNext
  <2>1. ~ Exhausted  BY <1>1, NotExhausted DEF PlaceShip, TryNext
  <2> QED  BY <1>1, <2>1 DEF PlaceShip, TryNext, SetupSucceeds
<1>2. CASE DrawStart \/ GuestShoots \/ RedbeardShoots \/ NextGame \/ EndSession \/ Leave
  BY <1>2 DEF DrawStart, GuestShoots, RedbeardShoots, Shoot, NextGame, EndSession, Leave,
              SetupSucceeds
<1>3. CASE UNCHANGED vars
  BY <1>3 DEF vars, SetupSucceeds
<1> QED  BY <1>1, <1>2, <1>3 DEF Next, Play

(* The search for a place on a random board never fails, whatever it       *)
(* draws, where there is room: while it goes on, all fields of its walk so *)
(* far are refused, and the ships on the board can refuse less than all of *)
(* them (the "this should never happen" of _createBoardRandom).            *)
THEOREM SetupNeverFails ==
  ASSUME Roomy(Size, ShipSizes)
  PROVE  Spec => []SetupSucceeds
<1>1. Init => SetupInv
  <2> SUFFICES ASSUME Init PROVE SetupInv
    OBVIOUS
  <2>1. \A p \in Players : Taken(p) = {} /\ placed[p] = 0
    BY DEF Init, Taken
  <2>2. FleetSizes
    BY <2>1, FieldsOfLoop, FS_EmptySet DEF FleetSizes
  <2> QED  BY <2>2 DEF Init, SetupInv, TriesRefused, SetupSucceeds
<1>2. SInv /\ SInv' /\ SetupInv /\ [Next]_vars => SetupInv'
  <2> SUFFICES ASSUME SInv, SInv', SetupInv, [Next]_vars PROVE SetupInv'
    OBVIOUS
  <2>1. BInv /\ ShipsWhole' /\ TriesRefused /\ FleetSizes /\ SetupSucceeds
    BY DEF SInv, SetupInv
  <2> QED  BY <2>1, TriesStep, FleetSizesStep, SucceedsStep DEF SetupInv
<1>3. SetupInv => SetupSucceeds
  BY DEF SetupInv
<1> QED  BY <1>1, <1>2, <1>3, SessionInvariant, PTL DEF Spec
==============================================================================
