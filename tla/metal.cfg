SPECIFICATION MetalSpec
CONSTANTS
  Spinners = {main, isr}
  Tryers = {t1, t2}
  Handlers = {isr}
  Controllers = {"hw", "hx", "hy"}
  DeclaredBase <- SomeBases
  IrqNum <- SomeNums
  SOFTIRQ_NUM = 3
  Syscalls = {1, 4}
  Serials = 3
  EHDR = 2
  SEGS = 4
  Images <- SomeImages
  Mems <- SomeMems
  MemTop = 8
INVARIANT LoadExact
PROPERTIES HandlerNeverStuck NumbersDisjoint SoftirqServed AnswerIsOwn CallEnds LoadEnds
