SPECIFICATION FairSpec
CONSTANTS
  MaxKey = 5
  MaxLimit = 4
INVARIANTS
  TypeOK
  ScansInOrder
  ChunksCover
  CursorClosed
PROPERTIES
  Terminates
CHECK_DEADLOCK FALSE
