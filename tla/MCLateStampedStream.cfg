SPECIFICATION Spec
CONSTANTS
  None = None
  Keys = {1, 2, 3}
  Selected = {1, 2}
  InitialRows = {1, 2}
  NullRows = {}
  Starts = {"established"}
  Configs <- WindowedStream
  ChunkRows = 1
  Lookback = 1
  Lag = 1
  NullLands = FALSE
  MaxAttempts = 2
  CanDelete = FALSE
  CanDrop = FALSE
  MaxTime = 6
  MaxFaults = 0
INVARIANTS NoLostUpdate
