SPECIFICATION Spec
CONSTANTS
  None = None
  Keys = {1, 2, 3}
  Selected = {1, 2}
  InitialRows = {1, 2}
  NullRows = {}
  Starts = {"established"}
  Configs <- LateSync
  ChunkRows = 1
  Lookback = 1
  Lag = 1
  NullLands = FALSE
  MaxAttempts = 2
  CanDelete = TRUE
  CanDrop = FALSE
  MaxTime = 4
  MaxFaults = 1
INVARIANTS IInv
PROPERTIES CursorUntouched
