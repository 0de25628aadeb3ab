SPECIFICATION LinksSpec
CONSTANTS
  Settings <- MCSettings
  MaxReconnectAttempts = 2
  MaxSockets = 4
  TxMessages = {1}
  MaxTxRetries = 1
  MaxTxSockets = 2
  MaxTransmits = 2
  MaxEdits = 1
  MaxMounts = 2
  MaxLines = 3
  MaxSessions = 2
  CanIds = {1, 2}
  Dbcs <- MCDbcs
  BatchSize = 1
  MaxFrames = 2
  MaxTroubles = 1
  Rooms = {r1}
  MaxFeedAttempts = 1
  MaxLinks = 4
  MaxFeeds = 2
  StdIds = {s}
  ExtIds = {x}
  SimIds = {s}
  DbcIds <- MCDbcIds
  MaxStreamSockets = 3
  MaxHistory = 1
  TeamFiles = {"f1", "f2"}
  MessagesOf <- MCMessagesOf
  Batches <- MCBatches
  StdMax = 2
  Eff = 4
  Scenarios <- MCScenarios
INVARIANTS StoreIsFed FeedbackIsTrue RelayIsAsSet StreamIsTrue LogIsTrue
PROPERTIES DecodesAsChosen StartAndSyncEnd
CHECK_DEADLOCK FALSE
