\* Every hand again, against the categories the code names.
CONSTANTS
  NHand = 5
  NCards = 52
  NVals = 13

SPECIFICATION RankSpec

INVARIANT RatedByRules
