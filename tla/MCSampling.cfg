SPECIFICATION SamplingSpec
CONSTANTS
  a = a
  b = b
  c = c
  Order <- ThreeNames
  Programs <- AlikePrograms
  MaxRounds = 2
  MaxChanges = 2
  NoError = NoError
INVARIANTS
  RatesRight
  ComparesRight
CHECK_DEADLOCK FALSE
