SPECIFICATION LifeSpec
CONSTANTS
  BITS = 9
  Tables <- SmallTables
  Places = {"good", "bad"}
  Own <- SmallOwn
  MaxTables = 2
INVARIANT IdsUnique
