SPECIFICATION MCSpec
CONSTANTS
  Configs = {1, 2}
INVARIANTS HeldExact MemorySafe  DeviceServes LinkKnown
