SPECIFICATION FairSpec
CONSTANTS
  Kinds = {"net", "ctrl"}
  Cnt = 4
  TxCnt = 4
  PtrMod = 8
  FlBatch = 2
  Budget = 2
  CtrlBudget = 1
  MaxComplete = 2
  MaxFrames = 5
  MaxCtrlFrames = 2
  MaxMsgs = 5
  MaxCloses = 1
  Bufs = {1, 2, 3, 4, 5, 6, 7, 8}
INVARIANTS BuffersOnce FramesIntact FramesInOrder MessagesInOrder
PROPERTIES AllReceived AllSent
CHECK_DEADLOCK FALSE
