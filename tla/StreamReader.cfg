SPECIFICATION FairSpec
CONSTANTS
  Streams <- MCStreams
  Buffer_Size = 8
  Chunk_Size = 2
  Overbuffer_Count = 2
  Skips = {0, 4, 9}
  Pzbs = {0, 3}
  MaxRead = 10
INVARIANTS WindowCorrect OneToken FileFollows
PROPERTY CallsReturn
