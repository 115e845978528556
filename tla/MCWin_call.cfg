SPECIFICATION WinSpec
CONSTANTS
  a = a
  b = b
  c = c
  hi = hi
  yo = yo
  Users = {a, b, c}
  Server = Server
  None = None
  Texts = {hi}
  NatType <- Cones
  Buttons = {"connect"}
  Targets <- Crowd
  Lists <- AnyList
  ACK_TRIES = 1
  MaxClicks <- CallerClicks
  MaxBeats <- NoBeat
  Lossy = FALSE
INVARIANT CanStartReachesCaller
CHECK_DEADLOCK FALSE
