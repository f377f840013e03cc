SPECIFICATION Spec
SYMMETRY Symmetry
CONSTANTS
  UnitsPerSecond = 40
  MaxSingle = 2000
  MaxBurst = 4000
  Hashes = {f1, f2, f3}
  None = None
  NFP_FLOW_SLOTS = 2
  BURST_THRESH = 26
  Timeout = 3
  Jiffy = 2
  SlotTicks = 1
  Horizon = 2
  Sends <- SmallAndBurst
  MaxPackets = 3
  MaxTime = 9
  MaxTransit = 1
  MaxLate = 1
INVARIANTS OneEntryPerFlow IdsNotShared FlowsLeaveInOrder FieldsSound
CHECK_DEADLOCK FALSE
