SPECIFICATION Spec
CONSTANTS
  Tabs = {t1, t2}
  Pages = {"can-transmitter"}
  Failover = FALSE
  MaxConns = 3
  MaxStarts = 2
  MaxClicks = 3
INVARIANTS TypeOK SettledViewsAgree OneInControlPerBridge HoldersConnected
PROPERTY NeverStolen
SYMMETRY Symmetry
CHECK_DEADLOCK FALSE
