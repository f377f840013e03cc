SPECIFICATION FairSpec
CHECK_DEADLOCK FALSE
CONSTANTS
  Cnt = 6
  PtrMod = 12
  MaxFrags = 1
  MaxBehind = 3
  Packets = {1, 2}
INVARIANTS DescriptorsAccounted BuffersFramed OpenHasRoom NothingUnflushed
PROPERTIES WokenIfInTime BuffersAreFreed
