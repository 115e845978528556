SPECIFICATION SysSpec
CONSTANTS
  c1 = c1
  c2 = c2
  n1 = n1
  n2 = n2
  Clients = {c1, c2}
  Names = {n1, n2}
  Addrs <- MCAddrs
  Server = Server
  None = None
  Dup = FALSE
  Lossy = TRUE
  MyName <- SameName
  ToName <- SameName
  Commands = {"login", "logout"}
  MaxCmds = 3
  MaxRestarts = 1
  Patient = FALSE
  InitFaults = {}
  QueryFaults = {}
  WriteFaults = {"err"}
  CrashPoints = {"sock", "run"}
INVARIANT NoPhantomLogin
INVARIANT UniqueRow
PROPERTY LoginReplyTruthful
SYMMETRY Symmetry
