\* The table: buffers of two entries: a worker flushes in the middle of the queue.  The
\* batches divide neither each other nor the table.
\* The hands: every hand of five cards out of 52.
CONSTANTS
  w1 = w1
  w2 = w2
  Unset = Unset
  Junk = Junk
  None = None
  Workers = {w1, w2}
  Hands = 9
  MaxHand = 16
  HandForCost <- MCHandForCost
  Distinct <- MCDistinct
  Cost <- MCCost
  BufSize = 2
  WriteBatch = 5
  ReadBatch = 6
  NHand = 5
  NCards = 52
  NVals = 13

SPECIFICATION CostSpec

INVARIANTS
  SlotsFresh
  BufferBounded
  TableComplete
  GroupsRated
  OnlyStraights

PROPERTIES
  EntriesFinal
  TableTerminates
