SPECIFICATION Spec
CONSTANTS
  None = None
  Keys = {1, 2, 3}
  Selected = {1, 2}
  InitialRows = {1, 2}
  NullRows = {}
  Starts = {"first", "established"}
  Configs <- EverySync
  ChunkRows = 1
  Lookback = 2
  Lag = 0
  NullLands = FALSE
  MaxAttempts = 2
  CanDelete = FALSE
  CanDrop = TRUE
  MaxTime = 4
  MaxFaults = 2
INVARIANTS NoLostUpdate MarkerVouches
PROPERTIES CursorNeverBehindStart RunDelivers
