SPECIFICATION FairSpec
CHECK_DEADLOCK FALSE
CONSTANTS
  Cnt = 8
  PtrMod = 8
  MaxFrags = 1
  MaxBehind = 6
  Packets = {2}
PROPERTIES StoppedIsWoken
