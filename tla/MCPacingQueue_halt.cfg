SPECIFICATION Spec
CONSTANTS
  Notifiers = {n1}
  Dequeuers = {d1}
  CtmLength = 8
  LmLength = 4
  SyncLength = 2
  SyncChunk = 2
  WordBits = 2
  SearchWords = 2
  ThreshSlots = 4
  SlotTicks = 1
  OutRegs = 1
  Requests <- MixedRequests
  MaxPackets = 4
  MaxTime = 3
  MaxBusy = 1
  MaxOp = 1
INVARIANTS NeverHalts
