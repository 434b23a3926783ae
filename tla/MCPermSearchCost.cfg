\* The line gen_next prints: a new cost, and the order it belongs to.
CONSTANTS
  e1 = e1
  Evals = {e1}
  NCards = 4
  NumNeighbor = 2
  Gain <- MCGain
  IntMin <- MCIntMin

SPECIFICATION SearchSpec

INVARIANT NewCostIsOfPerm
