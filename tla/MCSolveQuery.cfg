\* The chunk: up to four deals over three keys.  The oracle: two cards out of
\* five, eight seeds, keys 0..24 in chunks of ten.
CONSTANTS
  ChunkKeys = 3
  Base = 6
  High = {h1, h2}
  h1 = h1
  h2 = h2
  Junk = Junk
  MaxDeals = 4
  NCards = 5
  NHand = 2
  Field = 8
  Seeds = {0, 1, 2, 3, 4, 5, 6, 7}
  Decks <- MCDecks
  Perm <- MCPerm
  IPerm <- MCIPerm
  Payout <- MCPayout
  ChunkSize = 10
  IntMin <- MCIntMin
  None = None

SPECIFICATION PartSpec

INVARIANTS
  RowsExact
  InBounds
  TypeOK
  HandRecovered
  AnswerIsBest

PROPERTY ChunkTerminates
