SPECIFICATION Spec
CONSTANTS
  a = a
  b = b
  c = c
  d = d
  e = e
  tw = tw
  Symbols <- AllSymbols
  Foreign = {tw}
  Bases <- GrowingBases
  MaxSymbols = 4
  ViewedSlots = 2
  MaxEdits = 4
  MaxDrops = 1
INVARIANTS
  WithinCap
CHECK_DEADLOCK FALSE
