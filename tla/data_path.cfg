SPECIFICATION DataSpec
CONSTANTS
  Grids <- RunGrids
  Start <- RunStarts
  Ends <- RunEnds
  Now = 44
  MaxChunk = 13
  PageLimit = 3
  Second = 2
  SmallSample = 5
  Tolerance = 75
  WarmBars = 2
  Threads = {"t1", "t2"}
  Keys = {"k1", "k2", "k3"}
  MaxFiles = 1
  CentralConfigured = TRUE
  FilesBefore <- EarlierCaches
  MaxFetches = 3
INVARIANTS
  RowsFormOneSeries
  AdmittedFetchesSuffice
  FramesReadTheLatestClosed
  CacheServesWholeFiles
  HolesAreMasked
  LocalResultsAreOwn
  LocalDataIsChecked
  LocalCurvesTellTheTrades
  LocalReportsStay
CHECK_DEADLOCK FALSE
