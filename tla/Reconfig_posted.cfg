SPECIFICATION Spec
CONSTANTS
  Posted = {"mbox", "rx_mode"}
  Own = "macaddr"
  Ops = {"reconfig", "wait_posted", "clean"}
  TimerRaces = FALSE
  FwMayBeLate = FALSE
INVARIANTS KickedOffWhenIdle
CHECK_DEADLOCK FALSE
