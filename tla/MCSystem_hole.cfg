SPECIFICATION SysFairSpec
CONSTANTS
  c1 = c1
  c2 = c2
  n1 = n1
  n2 = n2
  Clients = {c1, c2}
  Names = {n1, n2}
  Addrs <- MCAddrs
  Server = Server
  None = None
  Dup = FALSE
  Lossy = FALSE
  MyName <- OwnNames
  ToName <- OtherNames
  Commands = {"login", "connect"}
  MaxCmds = 2
  MaxRestarts = 0
  Patient = TRUE
  InitFaults = {}
  QueryFaults = {}
  WriteFaults = {}
  CrashPoints = {}
PROPERTY OnlineTargetIsCalled
CHECK_DEADLOCK FALSE
