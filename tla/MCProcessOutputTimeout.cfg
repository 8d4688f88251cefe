SPECIFICATION Spec
CONSTANTS
  N = 2
  Capacity = 1
  Scripts <- PoliteScript
PROPERTIES
  TimeoutEnds
CHECK_DEADLOCK FALSE
