SPECIFICATION PlatformSpec
CONSTANTS
  WORD = 2
  SIZE_T = 64
  Regions <- TwoRegions
  Sizes = {0, 4, 6, 9, 62}
  CHARBITS = 2
  SHORTBITS = 3
  INTBITS = 5
  LLBITS = 6
  BUFFER_SIZE = 8
  FLOAT_PRECISION = 2
  FUNIT = 20
  Calls <- SomeCalls
  BYTE = 2
  XWords <- AllWords
  YWords <- EdgeWords
  CLIC_PERIPH_IRQ_OFFSET = 1
  E907_SUNXI_IRQ_MAX = 2
  CORET_IRQn = 0
  NLBITS = 2
  ClicHandlers = {"ha", "hb"}
  MaxClicCalls = 3
  LINESIZE = 2
  Lines = 3
  MaxSize = 4
  ADDR_BITS = 4
  PmpIdx = {3, 4, 16}
  Sizes_e <- FewSizes
  MaxPmpCalls = 3
  ULONG = 32
  INT = 4
  IoRegions <- SomeRegions
  MaxLen = 12
  BITS = 9
  Tables <- SmallTables
  Places = {"good", "bad"}
  Own <- SmallOwn
  MaxTables = 2
INVARIANTS HeapSound TextExact IntrinsicsExact IoExact OneListener IdsExact
PROPERTIES DriversServed RangeExact RegionsExact
