SPECIFICATION FairSpec
CONSTANTS
  N = 2
  W = 4
  MaxChain = 1
  MaxQueued = 2
  EventIdx = TRUE
  Buffers = {b1}
  NoBuf = NoBuf
INVARIANT NoLostWakeup
PROPERTY EveryBufferArrives
