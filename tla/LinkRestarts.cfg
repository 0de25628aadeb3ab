CONSTANTS
  MaxSeq = 4
  MaxSessions = 2
  MaxDups = 0
  MaxBaseStarts = 2
  MaxReports = 0
  ResetGap = 2
  MissingCap = 1
  RequestMax = 1
  StatusCap = 2
CHECK_DEADLOCK FALSE
SPECIFICATION Spec
INVARIANTS TypeOK Accounting
PROPERTY ImplementsLedger
