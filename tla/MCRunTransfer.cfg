SPECIFICATION Spec
CONSTANTS
  Configs <- Transfers
  N = 2
  MaxAttempts = 3
  MaxFaults = 3
INVARIANTS StagingKnown PromotedWhole WrittenOnce SavedMeansWritten StoppedAsSaid PartialCounted NoSilentShrink
