SPECIFICATION WinSpec
CONSTANTS
  a = a
  b = b
  c = c
  hi = hi
  yo = yo
  Users = {a, b, c}
  Server = Server
  None = None
  Texts = {hi, yo}
  NatType <- ConeOpen
  Buttons = {"connect", "send"}
  Targets <- Crowd
  Lists <- AloneOrAll
  ACK_TRIES = 1
  MaxClicks <- ChatClicks
  MaxBeats <- NoBeat
  Lossy = TRUE
INVARIANTS WinTypeOK ConnectMeansReachable StartAfterPunch ShownWasWritten
CHECK_DEADLOCK FALSE
