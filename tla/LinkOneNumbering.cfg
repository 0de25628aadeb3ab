CONSTANTS
  MaxSeq = 5
  MaxSessions = 1
  MaxDups = 1
  MaxBaseStarts = 1
  MaxReports = 1
  ResetGap = 5
  MissingCap = 2
  RequestMax = 1
  StatusCap = 2
CHECK_DEADLOCK FALSE
SPECIFICATION FairSpec
INVARIANTS AtMostOnce StatusTruthful StatsAccountForPassed CapDropsOldest
PROPERTY OldestIsRecovered
