SPECIFICATION Spec
CONSTANTS
  Reads <- SeveralReads
  Parallelism = 2
  MaxMemory = 3
  InsertBytes = 3
  ReadWindow = 4
  InitialWidth = 3
  MinWidth = 1
  MaxFaults = 1
INVARIANTS MemoryInv NothingLost WrittenTwiceIfSpilled NullsCountedOnce
PROPERTIES RunEnds
