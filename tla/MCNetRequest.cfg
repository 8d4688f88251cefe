SPECIFICATION Spec
CONSTANTS
  weather = weather
  publicip = publicip
  Requests <- BothRequests
  Tfo <- FastOpen
  Fds = {3, 4, 5}
  FailedHandles = {FALSE}
INVARIANTS
  OwnSocket
  NothingLeft
  Exclusive
  SentBeforeReceived
PROPERTIES
  CallsEnd
CHECK_DEADLOCK FALSE
