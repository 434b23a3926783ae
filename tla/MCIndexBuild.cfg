\* Two passes of two chunks of two keys; eight seeds in blocks of two; a buffer
\* holds two blocks, so a worker that takes three must flush in between.
CONSTANTS
  w1 = w1
  w2 = w2
  w3 = w3
  None = None
  Workers = {w1, w2, w3}
  MaxSeed = 8
  KeyChunk = 2
  BufferSize = 4
  NPass = 2
  ChunksPerPass = 2
  ChunkSize = 2
  Low <- MCLow

SPECIFICATION Spec

INVARIANTS
  ExactlyOnce
  BufferBounded
  ChunkOwned

PROPERTIES
  JoinBetweenStages
  ImplementsIndexSpec
