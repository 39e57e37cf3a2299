SPECIFICATION Spec
CONSTANTS
  None = None
  Keys = {1, 2, 3}
  Selected = {1, 2}
  InitialRows = {}
  NullRows = {}
  Starts = {"first"}
  Configs <- ChunkedMax
  ChunkRows = 1
  Lookback = 1
  Lag = 0
  NullLands = FALSE
  MaxAttempts = 2
  CanDelete = FALSE
  CanDrop = FALSE
  MaxTime = 5
  MaxFaults = 1
INVARIANTS NoLostUpdate
