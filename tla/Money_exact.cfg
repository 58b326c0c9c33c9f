SPECIFICATION Spec
CONSTANTS
  MaxAmount = 100000
  Bits = 20
INVARIANT WholeKopecksAreExact
CHECK_DEADLOCK FALSE
