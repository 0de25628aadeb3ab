SPECIFICATION Spec
CONSTANTS
  Tabs = {t1, t2}
  Pages = {"can-transmitter"}
  Failover = TRUE
  MaxConns = 3
  MaxStarts = 1
  MaxClicks = 4
INVARIANT SettledViewsAgree
SYMMETRY Symmetry
CHECK_DEADLOCK FALSE
