SPECIFICATION InputSpec
CONSTANTS
  MaxAmount = 200000
  Bits = 20
  Space = Space
  Other = Other
  MaxLength = 4
  Zeros = {0, 17}
INVARIANTS
  MatchesFloatingPoint
  QuartersAreExact
  ConversionIsMonotone
  MatchesTextbook
  DetectsSlips
CHECK_DEADLOCK FALSE
