SPECIFICATION AnalysisSpec
CONSTANTS
  SeasonSignals <- MCSeasonSignals
  FirstSeason = "a"
  Stored <- MCStored
  Views <- MCViews
  RunWindows = {"w1", "w2"}
  PointBudget = 3
  StoredLayout <- MCStoredLayout
  Messages <- MCMessages
  KnownSignals = {"a", "b", "c", "d"}
  MAX_TOTAL_SIGNALS = 3
  MaxViews = 2
  RunStart <- MCRunStart
  RunZone <- MCRunZone
  LocalOffset = 1
  NoteKeys = {"k1", "k2"}
  Notes = {"x", "y"}
  MaxLoads = 4
  MaxScans = 1
  MaxVersions = 2
  MaxSaves = 2
  TeamDbcs = {"d1"}
  FileCounts = {0, 2}
  MaxTasks = 2
  Scenarios <- MCScenarios
INVARIANT UploadIsFollowed
PROPERTIES ViewIsTrue PlotsAsArranged  UploadsEnd
CHECK_DEADLOCK FALSE
