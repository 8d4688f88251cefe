SPECIFICATION ResponseSpec
CONSTANTS
  Responses <- SingleFraming
  MaxSize = 8
  Initial = 5
  Margin = 1
  Width = 72
INVARIANTS
  Bounded
  AcceptsOnlyWhole
  AcceptsWellformed
PROPERTIES
  Ends
CHECK_DEADLOCK FALSE
