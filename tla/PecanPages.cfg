SPECIFICATION PagesSpec
CONSTANTS
  Sigs = {"x", "y"}
  ReplayLayouts <- MCLayouts
  Users = {"ann", "bob"}
  CloudConfigs <- MCCloudConfigs
  MaxReplays = 2
  Feeds = {"v", "w"}
  Kinds = {"sensor", "range", "math", "average", "advanced"}
  Inputs = {"a", "b"}
  Windows = {0, 1, 2}
  Names = {"A", "B"}
  CloudPresets <- MCCloudPresets
  MaxBlocks = 3
  Messages <- MCMessages
  Levels = {0, 2}
  References = {5}
  AverageWindows = {1, 2}
  MaxPoints = 2
  ModuleCount = 2
  Cells = 2
  PerMessage = 2
  Payloads <- MCPayloads
  CurveWindows = {1, 3}
  MaxBus = 3
  FrameIds = {"i", "j"}
  Filters = {{}, {"i"}, {"i", "j"}}
  ReplayTraces <- MCReplayTraces
  MaxTrace = 2
  MaxFrames = 3
  MaxRows = 2
  Xs = {0, 3, 5, 7, 8, 10, 12}
  ScreenWidth = 12
  Header = 2
  MinWidth = 4
  Pedals = {0, 20, 50, 200, 500, 970, 1000}
  Zones = {30, 50, 400}
  Gammas = {1, 2}
  FrameNames <- MCFrameNames
  TableSizes = {11, 21}
  Scenarios <- MCScenarios
PROPERTIES SavedStands ShownIsCurrent PastStandsStill TablesAreSound
CHECK_DEADLOCK FALSE
