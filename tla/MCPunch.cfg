SPECIFICATION PunchSpec
CONSTANTS
  a = a
  b = b
  c = c
  Users = {a, b, c}
  sToName <- MCToName
  NoName = NoName
  Server = Server
  Commands <- MCCommands
  MaxCmds = 3
INVARIANT PunchTypeOK
INVARIANT HoleBeforeStart
INVARIANT OkIsMutual
CHECK_DEADLOCK FALSE
