SPECIFICATION Spec
CONSTANTS
  Programs <- SoundPrograms
  Latches = {"weather", "publicip"}
  MaxRound = 3
  None = None
INVARIANTS
  ResultsArePaired
  Drained
  OnceOnly
  ConsoleRestored
CHECK_DEADLOCK FALSE
