SPECIFICATION Spec
CONSTANTS
  ApiRuns = 3
  ApiHours = 5
  ApiTransfers <- MCApiTransfers
  PageSize = 2
  ApiBatchRows = 2
  HttpAttempts = 2
  PageAttempts = 2
  ApiFaults = 2
  ArchiveRuns = 2
  ArchiveAttempts = 2
  ArchivedReads <- MCArchivedReads
  ArchiveFaults = 2
  KeyedReads <- MCKeyedReads
  RangeKeys <- MCRangeKeys
  NullKey = 50
  MinInt <- Lowest
  MaxInt = 3
  LeastWindow = 1
  BoundsAttempts = 2
  KeyRows = 4
  ReconcileKeys = {1, 2, 3}
  OldKeys = {1, 2}
  Requests <- MCRequests
  ChunkKeys = 1
  ReconcileChanges = 3
  ReconcileFaults = 1
  RowTransfers <- MCRowTransfers
  Limit = 170
  NumericWhole = 1
  NumericScale = 1
  GroupDigits = 2
  DecodedRows = 2
  ComparedColumns <- MCComparedColumns
  SourceKeys <- MCSourceKeys
  DestKeys <- MCDestKeys
  Cells <- Held
  ValueRows = 2
  FinestScale = 2
  MicrosPerDay = 4
  AskedFor <- MCAskedFor
  ColumnRuns <- MCColumnRuns
  TablesFound <- MCTablesFound
  CursorRuns <- MCCursorRuns
  Ids = {1, 2}
  Top = 3
  ChunkedReads <- MCChunkedReads
  LastKeyed = 4
  ChunkBatchRows = 2
  MaxStarts = 3
  NoCursor = 99
INVARIANTS
  PagesOnce
  DaysCovered
  ArchiveWhole
  KeysReadOnce
  OnlyDriftDeleted
  RowsAccounted
  DriftIsDamage
  AcceptedIsSound
  HarmIsTold
  CursorTroubleTold
  ChunksWhole
