SPECIFICATION Spec
CONSTANTS
  Spinners = {main, isr}
  Tryers = {}
  Handlers = {isr}
INVARIANT MutualExclusion
