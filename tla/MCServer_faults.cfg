SPECIFICATION EnvSpec
CONSTANTS
  Names = {n1}
  Addrs = {a1, a2}
  Server = Server
  None = None
  Dup = FALSE
  InitFaults = {"busy", "err", "open"}
  QueryFaults = {"busy", "err"}
  WriteFaults = {"busy", "err"}
  CrashPoints = {"init", "sock", "run", "relay", "exited", "spin"}
  MaxRequests = 4
SYMMETRY Symmetry
INVARIANT SrvTypeOK
INVARIANT HalfMadeGrantsNothing
PROPERTY RegistryIsLoginService
