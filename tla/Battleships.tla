----------------------------- MODULE Battleships -----------------------------
(***************************************************************************)
(* The battleships server: boards and ships (battleships.py), the two      *)
(* players, a game, and the session of several games a guest plays against *)
(* Captain Redbeard (redbeard.py).                                         *)
(*                                                                         *)
(* A connection has a thread, boards and players of its own, so one        *)
(* session is all there is to model.  Random draws are choices.            *)
(***************************************************************************)
EXTENDS Integers, Sequences, FiniteSets

CONSTANTS Size,       \* boardSize
          ShipSizes,  \* shipSizes
          HitRatios   \* one pair for each game of the session

ASSUME GameAssumption ==
  /\ Size \in Nat \ {0}
  /\ ShipSizes \in Seq(Nat \ {0}) /\ ShipSizes # <<>>
  /\ HitRatios \in Seq((Nat \ {0}) \X (Nat \ {0})) /\ HitRatios # <<>>

Guest == 0       \* p1, a NetworkPlayer
Redbeard == 1    \* p2, CaptainRedbeard
Players == {Guest, Redbeard}
Opponent(p) == 1 - p

Fields == (0..Size - 1) \X (0..Size - 1)
Ships == 1..Len(ShipSizes)

(* north, east, south, west, with y growing to the south *)
Orientations == 0..3
Direction == [o \in Orientations |-> CASE o = 0 -> <<0, -1>> [] o = 1 -> <<1, 0>>
                                       [] o = 2 -> <<0, 1>>  [] o = 3 -> <<-1, 0>>]

VARIABLES
  phase,    \* "draw" or "try" while boards are set up, then "play", "over";
            \* "prize", "lost", "failed" or "closed" at the end
  round,    \* number of the game in GameSession.handle
  search,   \* locals of _createBoardRandom
  placed,   \* ships on the board of each player, placed in order
  fleet,    \* Ship.fields of each of them
  alive,    \* Ship.alive
  hit,      \* Field.hit of the fields of each board
  view,     \* the guest's oppBoard, as it is printed
  active,   \* whose turn it is
  counter   \* CaptainRedbeard.counter, modulo the second number of the ratio

setupVars == <<search, placed, fleet>>
vars == <<phase, round, setupVars, alive, hit, view, active, counter>>

------------------------------------------------------------------------------
(* Boards *)

ShipFields(start, len, o) ==
  {<<start[1] + k * Direction[o][1], start[2] + k * Direction[o][2]>> : k \in 0..len - 1}

Taken(p) == UNION {fleet[p][i] : i \in Ships}

(* Ship.__init__ raises no ErrorCantPlaceShip. *)
Fits(p, start, len, o) == /\ ShipFields(start, len, o) \subseteq Fields
                          /\ ShipFields(start, len, o) \cap Taken(p) = {}

(* A repeated shot misses, also where a ship was hit. *)
IsHit(p, f) == f \in Taken(p) /\ f \notin hit[p]

(* Variant: the status is updated before the field is marked. *)
StatusBeforeHit(p, f) ==
  [i \in Ships |-> IF IsHit(p, f) /\ f \in fleet[p][i]
                   THEN ~ fleet[p][i] \subseteq hit[p]
                   ELSE alive[p][i]]

(* Ship.updateStatus of the ship that was hit *)
UpdatedStatus(p, f) ==
  [i \in Ships |-> IF IsHit(p, f) /\ f \in fleet[p][i]
                   THEN ~ fleet[p][i] \subseteq hit[p] \cup {f}
                   ELSE alive[p][i]]

(* Variant: a single ship sunk ends the game. *)
AnySunk(status) == \E i \in Ships : ~ status[i]

(* GameBoard.lost *)
Lost(status) == \A i \in Ships : ~ status[i]

(* Variant: the shadow board of the last game is kept. *)
NewBoardsOldView == /\ placed' = [p \in Players |-> 0]
                    /\ fleet' = [p \in Players |-> [i \in Ships |-> {}]]
                    /\ alive' = [p \in Players |-> [i \in Ships |-> TRUE]]
                    /\ hit' = [p \in Players |-> {}]
                    /\ view' = view

(* Game.__init__: both players create new boards. *)
NewBoards == /\ placed' = [p \in Players |-> 0]
             /\ fleet' = [p \in Players |-> [i \in Ships |-> {}]]
             /\ alive' = [p \in Players |-> [i \in Ships |-> TRUE]]
             /\ hit' = [p \in Players |-> {}]
             /\ view' = [f \in Fields |-> "?"]

NoSearch == [oi |-> 0, start |-> <<0, 0>>, xOffset |-> 0, yOffset |-> 0]

Init == /\ phase = "draw"
        /\ round = 1
        /\ search = NoSearch
        /\ placed = [p \in Players |-> 0]
        /\ fleet = [p \in Players |-> [i \in Ships |-> {}]]
        /\ alive = [p \in Players |-> [i \in Ships |-> TRUE]]
        /\ hit = [p \in Players |-> {}]
        /\ view = [f \in Fields |-> "?"]
        /\ active = Guest
        /\ counter = 0

------------------------------------------------------------------------------
(* Setting up the boards: _createBoardRandom, for the guest first. *)

Builder == IF placed[Guest] < Len(ShipSizes) THEN Guest ELSE Redbeard
NextShip == placed[Builder] + 1

DrawStart == /\ phase = "draw"
             /\ \E o \in Orientations, f \in Fields :
                  search' = [NoSearch EXCEPT !.oi = o, !.start = f]
             /\ phase' = "try"
             /\ UNCHANGED <<round, placed, fleet, alive, hit, view, active, counter>>

(* Variant: the start leaves the board. *)
MovedOff == <<search.start[1] + search.xOffset, search.start[2] + search.yOffset>>

(* The offsets add up: they are applied to the start of the last try. *)
Moved == <<(search.start[1] + search.xOffset) % Size,
           (search.start[2] + search.yOffset) % Size>>

NextX == search.xOffset + 1
NextY == IF NextX % Size = 0 THEN search.yOffset + 1 ELSE search.yOffset

(* Variant: one row too early. *)
ExhaustedEarly == NextX % Size = 0 /\ NextY = Size - 1

(* "this should never happen": raised whether or not the last try was      *)
(* successful.                                                             *)
Exhausted == NextX % Size = 0 /\ NextY = Size

(* Orientations that fit, by how many steps they come after the first.     *)
Turns == {k \in Orientations :
            Fits(Builder, Moved, ShipSizes[NextShip], (search.oi + k) % 4)}

PlaceShip ==
  /\ phase = "try"
  /\ \E k \in Turns :
       /\ \A j \in Turns : k <= j
       /\ fleet' = [fleet EXCEPT ![Builder][NextShip] =
                      ShipFields(Moved, ShipSizes[NextShip], (search.oi + k) % 4)]
  /\ placed' = [placed EXCEPT ![Builder] = NextShip]
  /\ search' = NoSearch
  /\ phase' = IF Exhausted THEN "failed"
              ELSE IF placed'[Redbeard] = Len(ShipSizes) THEN "play" ELSE "draw"
  /\ UNCHANGED <<round, alive, hit, view, active, counter>>

TryNext ==
  /\ phase = "try"
  /\ Turns = {}
  /\ search' = [search EXCEPT !.start = Moved, !.xOffset = NextX, !.yOffset = NextY]
  /\ phase' = IF Exhausted THEN "failed" ELSE "try"
  /\ UNCHANGED <<round, placed, fleet, alive, hit, view, active, counter>>

------------------------------------------------------------------------------
(* Game.play: a shot, GameBoard.hit on the other board, both notifications *)
(* (the guest's own shot goes to its view), the test for the end, the turn.*)

Shoot(f) ==
  LET passive == Opponent(active)
      success == IsHit(passive, f)
      status == UpdatedStatus(passive, f)
      lost == Lost(status)
  IN
  /\ hit' = [hit EXCEPT ![passive] = @ \cup {f}]
  /\ alive' = [alive EXCEPT ![passive] = status]
  /\ view' = IF active = Guest
             THEN [view EXCEPT ![f] = IF success THEN "S" ELSE "X"]
             ELSE view
  /\ phase' = IF lost THEN "over" ELSE "play"
  /\ active' = IF lost \/ success THEN active ELSE passive

(* IOPlayer.shoot asks again until it has two numbers on the board. *)
GuestShoots == /\ phase = "play"
               /\ active = Guest
               /\ \E f \in Fields : Shoot(f)
               /\ UNCHANGED <<round, setupVars, counter>>

Ratio == HitRatios[round]

(* Variant: shots are counted from one. *)
AimsFromOne == counter + 1 < Ratio[1]

Aims == counter < Ratio[1]

(* The fields not hit of the first ship that is alive and has some *)
Targets == {i \in Ships : alive[Guest][i] /\ fleet[Guest][i] \ hit[Guest] # {}}

(* Variant: the counter stands still when a shot is left to chance. *)
CountedWhenAimed == IF Aims THEN (counter + 1) % Ratio[2] ELSE counter

Counted == (counter + 1) % Ratio[2]

(* CaptainRedbeard.shoot: the first shots of each Ratio[2] are aimed.  A   *)
(* ship lists its fields by growing coordinates.                           *)
RedbeardShoots ==
  /\ phase = "play"
  /\ active = Redbeard
  /\ IF Aims
     THEN \E i \in Targets :
            /\ \A j \in Targets : i <= j
            /\ \E f \in fleet[Guest][i] \ hit[Guest] :
                 /\ \A g \in fleet[Guest][i] \ hit[Guest] : f[1] + f[2] <= g[1] + g[2]
                 /\ Shoot(f)
     ELSE \E f \in Fields : Shoot(f)
  /\ counter' = Counted
  /\ UNCHANGED <<round, setupVars>>

------------------------------------------------------------------------------
(* GameSession.handle *)

(* The guest has won and meets a better Redbeard (setHitRatio) on new      *)
(* boards.                                                                 *)
NextGame == /\ phase = "over"
            /\ active = Guest
            /\ round < Len(HitRatios)
            /\ phase' = "draw"
            /\ round' = round + 1
            /\ counter' = 0
            /\ NewBoards
            /\ UNCHANGED <<search, active>>

EndSession == /\ phase = "over"
              /\ \/ active = Guest /\ round = Len(HitRatios) /\ phase' = "prize"
                 \/ active = Redbeard /\ phase' = "lost"
              /\ UNCHANGED <<round, setupVars, alive, hit, view, active, counter>>

(* The connection is gone: the next message to the guest raises.  While    *)
(* boards are set up, only the guest's finished board is sent.             *)
Leave == /\ \/ phase \in {"play", "over"}
            \/ phase = "draw" /\ Builder = Redbeard /\ placed[Redbeard] = 0
         /\ phase' = "closed"
         /\ UNCHANGED <<round, setupVars, alive, hit, view, active, counter>>

Ended == phase \in {"prize", "lost", "failed", "closed"}

Play == \/ DrawStart \/ PlaceShip \/ TryNext
        \/ GuestShoots \/ RedbeardShoots
        \/ NextGame \/ EndSession

Next == \/ Play
        \/ Leave
        \/ Ended /\ UNCHANGED vars

Spec == Init /\ [][Next]_vars

(* The thread goes on, and the guest answers each prompt in the end. *)
FairSpec == Spec /\ WF_vars(Play)

------------------------------------------------------------------------------
(* Every variable keeps its type: what Board, Ship, Player, Game and       *)
(* GameSession keep in their fields.                                       *)
TypeOK ==
  /\ phase \in {"draw", "try", "play", "over", "prize", "lost", "failed", "closed"}
  /\ round \in 1..Len(HitRatios)
  /\ search \in [oi : Orientations, start : Fields, xOffset : Nat, yOffset : Nat]
  /\ placed \in [Players -> 0..Len(ShipSizes)]
  /\ fleet \in [Players -> [Ships -> SUBSET Fields]]
  /\ alive \in [Players -> [Ships -> BOOLEAN]]
  /\ hit \in [Players -> SUBSET Fields]
  /\ view \in [Fields -> {"?", "S", "X"}]
  /\ active \in Players
  /\ counter \in Nat

(* A ship on a board has all its fields, and no field of another ship.     *)
FleetWhole ==
  \A p \in Players : \A i \in 1..placed[p] :
    /\ Cardinality(fleet[p][i]) = ShipSizes[i]
    /\ \A j \in 1..placed[p] : i # j => fleet[p][i] \cap fleet[p][j] = {}

(* Ship.alive, updated only by a hit, is what the fields of the ship say.  *)
AliveExact ==
  \A p \in Players : \A i \in 1..placed[p] :
    alive[p][i] <=> ~ fleet[p][i] \subseteq hit[p]

(* Boards are never contradictory: updateStatus and the claims of          *)
(* Ship.__init__ keep ships, fields and hits in agreement.                 *)
BoardsAgree == FleetWhole /\ AliveExact

(* The guest's view of the other board shows the fields it shot at, and a  *)
(* ship only where there is one (UnknownBoard.shot after GameBoard.hit).   *)
ViewSound ==
  \A f \in Fields : /\ view[f] = "?" <=> f \notin hit[Redbeard]
                    /\ view[f] = "S" => f \in Taken(Redbeard)

(* "this should never happen": the search for a place finds one.           *)
SetupSucceeds == phase # "failed"

(* What that depends on.  The search walks over the board: w[t] is how far *)
(* its try t is from its first.  The last try raises in any case.          *)
Walk(size) ==
  LET w[t \in 0..size * size - 1] ==
        IF t = 0 THEN <<0, 0>>
        ELSE LET p == w[t - 1]
             IN  <<(p[1] + t) % size, (p[2] + t \div size) % size>>
  IN  w

Visited(size) == {Walk(size)[t] : t \in 0..size * size - 2}

(* The fields of the first i ships. *)
FieldsOf(sizes) ==
  LET sum[i \in 0..Len(sizes)] == IF i = 0 THEN 0 ELSE sum[i - 1] + sizes[i]
  IN  sum

(* There is room if each ship is short enough to fit above or below every  *)
(* field, where 2n - 1 fields of the column may be in its way, and the     *)
(* walk is longer than the ships before it can block.                      *)
Roomy(size, sizes) ==
  \A i \in 1..Len(sizes) :
    /\ 2 * sizes[i] <= size + 2
    /\ (2 * sizes[i] - 1) * FieldsOf(sizes)[i - 1] < Cardinality(Visited(size))

(* "one in three shots is a hit": where every shot is to be a hit, the     *)
(* Captain never gives the turn away (CaptainRedbeard.shoot, Game.play).   *)
FullRatioKeepsTurn ==
  [][phase = "play" /\ active = Redbeard /\ Ratio[1] >= Ratio[2] =>
       active' = Redbeard]_vars

(* The rules of the session, as Duel states them: a hit takes a ship field *)
(* and keeps the turn, a miss passes it, a game is over when all fields of *)
(* one fleet are hit, and the prize takes a victory in every game.         *)
Rules == INSTANCE Duel WITH
  Rounds <- Len(HitRatios),
  stage <- IF phase \in {"draw", "try"} THEN "arrange" ELSE phase,
  turn <- active,
  left <- [p \in Players |-> Taken(p) \ hit[p]]
ImplementsDuel == Rules!Spec

(* Whatever both players shoot at, the session comes to an end: Redbeard's *)
(* aimed shots come back in every Ratio[2] of his shots.                   *)
SessionEnds == <>Ended
==============================================================================
