SPECIFICATION MCSpec
SYMMETRY Symmetry
CONSTANTS
  Notifiers = {n1, n2}
  Dequeuers = {d1, d2}
  CtmLength = 16
  LmLength = 10
  SyncLength = 6
  SyncChunk = 2
  WordBits = 2
  SearchWords = 2
  ThreshSlots = 12
  SlotTicks = 1
  OutRegs = 1
  Requests <- MixedRequests
  MaxPackets = 4
  MaxTime = 22
  MaxBusy = 1
  MaxOp = 1
INVARIANTS ConsistentAtSwaps BookingsExact FlowOrder
PROPERTIES NoEarlyDeparture SentAsBooked
CHECK_DEADLOCK FALSE
