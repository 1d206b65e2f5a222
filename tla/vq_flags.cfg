SPECIFICATION Spec
CONSTANTS
  N = 2
  W = 4
  MaxChain = 2
  MaxQueued = 2
  EventIdx = FALSE
  Buffers = {b1, b2}
  NoBuf = NoBuf
INVARIANTS TypeOK FreeListSound OneOwner IndicesInOrder NoLostWakeup
PROPERTY ExchangesBuffers
SYMMETRY BufferSymmetry
