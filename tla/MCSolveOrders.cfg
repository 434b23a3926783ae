\* expected: five chunks in ranges of three and two; a report every half range.
\* optim: two searches side by side, three cards, two neighbours a round.
CONSTANTS
  w1 = w1
  w2 = w2
  Workers = {w1, w2}
  TotChunks = 5
  NSep = 2
  NPerms = 2
  Percent = 2
  e1 = e1
  e2 = e2
  Evals = {e1, e2}
  NCards = 3
  NumNeighbor = 2
  Gain <- MCGain
  IntMin <- MCIntMin

SPECIFICATION SolveSpec

INVARIANTS
  ReadsLoaded
  MemoryBounded
  CostExact
  AroundStart
  CostOfOrder

PROPERTY ExpectedRatesAll
