CONSTANTS
  Times = {t1}
  Names = {m1, m2}
  BatchSize = 2
  MaxFrames = 4
  MaxOutages = 2
  MaxStarts = 2
CHECK_DEADLOCK FALSE
SPECIFICATION FairSpec
INVARIANTS TypeOK ArrivalOrder Accounted
PROPERTY BatchIsWritten
