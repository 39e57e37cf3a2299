SPECIFICATION SinksSpec
CONSTANTS
  Runs = {1, 2}
  Plans <- CsvPlans
  Settings <- CsvSettings
  MaxRows = 1
  RemoveTries = 1
  MaxFaults = 2
  BqRuns = 2
  BqTransfers <- MCBqTransfers
  BqRowsPerCall = 2
  RowsPerRequest = 1
  BqInsertAttempts = 2
  HttpAttempts = 2
  JobAttempts = 2
  BqFaults = 3
  ChRuns = 3
  ChTransfers <- MCChTransfers
  ChRowsPerCall = 2
  ChInsertAttempts = 2
  ChFaults = 3
INVARIANTS
  SinksTypeOK
  CursorsKept
  FolderTidy
  BqWrittenOnce
  BqCursorCovered
  BqSuccessIsDone
  ChStoredOnce
  ChCursorCovered
  ChStateTold
PROPERTIES
  CommitsWhole
