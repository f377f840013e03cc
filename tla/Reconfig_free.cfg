SPECIFICATION Spec
CONSTANTS
  Posted = {"vxlan", "rx_mode"}
  Own = "macaddr"
  Ops = {"reconfig", "clean"}
  TimerRaces = TRUE
  FwMayBeLate = FALSE
INVARIANTS FreedClean
CHECK_DEADLOCK FALSE
