SPECIFICATION Spec
CONSTANTS
  None = None
  Keys = {1, 2, 3}
  Selected = {1, 2}
  InitialRows = {1}
  NullRows = {}
  Starts = {"established"}
  Configs <- WindowedStream
  ChunkRows = 1
  Lookback = 1
  Lag = 0
  NullLands = FALSE
  MaxAttempts = 2
  CanDelete = FALSE
  CanDrop = FALSE
  MaxTime = 5
  MaxFaults = 0
INVARIANTS NoLostUpdate
