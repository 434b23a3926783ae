\* Boards of four fields, two ships, three games.
CONSTANTS
  Size = 2
  ShipSizes <- MCShipSizes
  HitRatios <- MCHitRatios

SPECIFICATION FairSpec

INVARIANTS
  TypeOK
  BoardsAgree
  ViewSound
  SetupSucceeds

PROPERTIES
  FullRatioKeepsTurn
  ImplementsDuel
  SessionEnds
