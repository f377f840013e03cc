SPECIFICATION MCFairSpec
CONSTANTS
  Notifiers = {n1}
  Dequeuers = {d1}
  CtmLength = 16
  LmLength = 10
  SyncLength = 6
  SyncChunk = 2
  WordBits = 2
  SearchWords = 2
  ThreshSlots = 12
  SlotTicks = 2
  OutRegs = 1
  Requests <- UnalignedRequests
  MaxPackets = 2
  MaxTime = 32
  MaxBusy = 1
  MaxOp = 1
PROPERTIES ImplementsPacer AllLeave
