CONSTANTS
  Base = 4
  Typed = 1
  NumberKeys <- MCNumberKeys
  Rows = 13
  Columns = 9
  Options <- MCOptions
  KeyWidths = {1, 2}
  Rounds = 2
  MinInfoWidth = 6
SPECIFICATION Spec
INVARIANTS Restored AnswersRight KeysBesideLogo EndsBelow
CHECK_DEADLOCK FALSE
