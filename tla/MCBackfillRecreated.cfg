SPECIFICATION Spec
CONSTANTS
  None = None
  Keys = {1, 2, 3}
  Selected = {1, 2}
  InitialRows = {1, 2}
  NullRows = {}
  Starts = {"established"}
  Configs <- BackfillChunks
  ChunkRows = 1
  Lookback = 1
  Lag = 0
  NullLands = FALSE
  MaxAttempts = 2
  CanDelete = FALSE
  CanDrop = TRUE
  MaxTime = 4
  MaxFaults = 1
PROPERTIES CursorUntouched
