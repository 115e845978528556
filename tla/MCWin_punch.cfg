SPECIFICATION WinFairSpec
CONSTANTS
  a = a
  b = b
  c = c
  hi = hi
  yo = yo
  Users = {a, b}
  Server = Server
  None = None
  Texts = {hi}
  NatType <- Cones
  Buttons = {"connect", "get"}
  Targets <- Mutual
  Lists <- AnyList
  ACK_TRIES = 1
  MaxClicks <- OneClick
  MaxBeats <- OneBeat
  Lossy = FALSE
PROPERTY ConnectSettles
CHECK_DEADLOCK FALSE
