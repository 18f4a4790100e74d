CONSTANTS
  ObjectSizes <- LargeObjects
  MaxPages = 3
SPECIFICATION FairSpec
INVARIANTS TypeOK ChunksDisjoint ChunksBacked NoChunkLost GrowthWorks
PROPERTY AllocReturns
CHECK_DEADLOCK FALSE
