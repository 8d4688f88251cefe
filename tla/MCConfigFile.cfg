CONSTANTS
  Order <- MCOrder
  Break = "break"
  Separator = "separator"
  NameLength <- MCLength
  Starts <- MCStarts
  Lists <- MCLists
  DefaultStructure <- Long
  OptionKind <- MCOptionKind
  NumberOf <- MCNumberOf
  Absent = Absent
  TerminalSizes <- MCSizes
  ReadSize = 4
  Blank = Blank
  Missing = Missing
  Foreign = Foreign
  Late = Late
  Unset = Unset
  Torn = Torn
  Refused = Refused
  MaxItems = 45
  MaxKeys = 3
  MaxTyped = 6
SPECIFICATION Spec
CHECK_DEADLOCK FALSE
INVARIANTS
  CursorSeen
  ModulesKept
  NoSilentOverwrite
  LoadsBack
  ArgumentsRight
