SPECIFICATION FairSpec
CONSTANTS
  None = None
  Keys = {1, 2, 3}
  Selected = {1, 2}
  InitialRows = {1, 2}
  NullRows = {1}
  Starts = {"first", "established"}
  Configs <- NullSafeSync
  ChunkRows = 1
  Lookback = 1
  Lag = 0
  NullLands = TRUE
  MaxAttempts = 1
  CanDelete = FALSE
  CanDrop = FALSE
  MaxTime = 3
  MaxFaults = 1
PROPERTIES EventuallySynced
