SPECIFICATION Spec
CONSTANTS
  N = 2
  Capacity = 1
  Scripts <- AnyScript
INVARIANTS
  OkIsComplete
  Reaped
PROPERTIES
  AllRead
  KeepsPromise
CHECK_DEADLOCK FALSE
