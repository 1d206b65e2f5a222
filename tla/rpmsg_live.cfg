SPECIFICATION FairSpec
CONSTANTS
  Threads = {t1}
  Rx = Rx
  Desc = {0, 1}
  TxBufs = {x1}
  RxBufs = {y1, y2}
  MaxTicks = 1
  MaxHolds = 1
  WaitStatuses = {"EOPNOTSUPP", "SUCCESS"}
  NoBuf = NoBuf
CHECK_DEADLOCK FALSE
PROPERTIES RxDrained CallsReturn
