SPECIFICATION Spec
CONSTANTS
  terminal = terminal
  shell = shell
  gtk3 = gtk3
  settings = settings
  Entries = {terminal, shell, gtk3, settings}
  Deps <- MCDeps
  MaxRound = 3
  None = None
INVARIANTS
  RegistryOK
  FreshAnswers
  PartialStaysInside
  NoRecursion
PROPERTIES
  KeepsPromise
