SPECIFICATION FairSpec
CHECK_DEADLOCK FALSE
CONSTANTS
  BatchSize = 3
  RingBatches = 2
  SeqNumbers = 8
  JumboNumbers = 20
  Batches <- MixedBatches
  MaxBatches = 3
  MaxJumboLag = 1
INVARIANTS UsedWhenDone RingNotOverrun CreditsExact EnqueuedAsIssued
PROPERTIES AllAreCredited RoomComesBack
