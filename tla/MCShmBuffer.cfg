CONSTANTS
  Writer = {w1, w2}
  Lock <- OneProcess
  Size <- MCSize
  Chunk <- MCChunk
  MaxMsgs = 4
SPECIFICATION FairSpec
INVARIANTS Intact ProbeHolds
PROPERTIES IsChannel Delivered
