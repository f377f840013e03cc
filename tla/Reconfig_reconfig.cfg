SPECIFICATION FairSpec
CONSTANTS
  Posted = {"vxlan", "rx_mode"}
  Own = "macaddr"
  Ops = {"reconfig", "wait_posted", "clean"}
  TimerRaces = TRUE
  FwMayBeLate = TRUE
INVARIANTS NothingLost SyncCarriedOut OneAtATime CleanAtFree KickedOffUnlessLeft
PROPERTIES PostedStarts
CHECK_DEADLOCK FALSE
