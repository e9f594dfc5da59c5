CONSTANTS
  LiveSets = 1
  LiveWays = 2
  LiveLine = 1
  warmup_cache_size = 1
  live_cache_count = 2
  skip = 3
  number_of_desired_trace_files = 3
  L1Sets = 1
  L1Ways = 1
  L1Line = 1
  L2Sets = 1
  L2Ways = 2
  L2Line = 2
  L2Kinds = {FALSE}
  FetchAddrs <- MCFetchAddrs
  DataAddrs <- MCDataAddrs
  MaxLog = 10
  StoreSets = 2
  StoreWays = 2
  StoreLine = 2
  log2shct = 1
  HashNear = 1
  HashFar = 3
  HashAdd = 8
  RRIP_M = 4
  SHCTFull = 2
  StoreAddrs <- MCStoreAddrs
  SkewAddrs <- MCSkewAddrs
  ShipAddrs <- MCShipAddrs
  LoadOps <- MCLoadOps
  StoreOps <- MCStoreOps
  Headers <- MCHeaders
  Values <- MCValues
  SyncBase <- MCSyncBase
  SyncUnits = 2
  MaxOps = 2
  Cuts <- MCCuts
  ChoosesLoadData = TRUE
  ConstructsToRead = FALSE
SPECIFICATION MCSpec
INVARIANTS LevelsAgree FilesFaithful OneLinePerTag ReadBack
PROPERTIES ProgramsTracedToTheEnd MruKept
CHECK_DEADLOCK FALSE
