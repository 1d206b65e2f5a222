SPECIFICATION Spec
CONSTANTS
  Threads = {t1}
  Rx = Rx
  Desc = {0, 1}
  TxBufs = {x1, x2}
  RxBufs = {y1, y2}
  MaxTicks = 1
  MaxHolds = 1
  WaitStatuses = {"EOPNOTSUPP", "SUCCESS", "other"}
  NoBuf = NoBuf
CHECK_DEADLOCK FALSE
SYMMETRY Symmetry
INVARIANTS TxAccounted HeldMatches
PROPERTIES UsesTxVirtqueue UsesRxVirtqueue
