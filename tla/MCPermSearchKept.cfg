\* The comment of select_next: the best swap is applied, and stays.
CONSTANTS
  e1 = e1
  Evals = {e1}
  NCards = 4
  NumNeighbor = 2
  Gain <- MCGain
  IntMin <- MCIntMin

SPECIFICATION SearchSpec

PROPERTY BestSwapKept
