CONSTANTS
  MaxSeq = 3
  MaxSessions = 2
  MaxDups = 0
  MaxBaseStarts = 1
  MaxReports = 0
  ResetGap = 1
  MissingCap = 2
  RequestMax = 1
  StatusCap = 2
CHECK_DEADLOCK FALSE
SPECIFICATION Spec
INVARIANT ReceiverSurvives
