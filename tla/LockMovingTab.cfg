SPECIFICATION FairSpec
CONSTANTS
  Tabs = {t1}
  Pages = {"can-transmitter", "throttle-mapper"}
  Failover = TRUE
  MaxConns = 2
  MaxStarts = 2
  MaxClicks = 4
INVARIANT OneLockPerTab
CHECK_DEADLOCK FALSE
PROPERTY AbandonedLockIsFreed
