SPECIFICATION SessFairSpec
CONSTANTS
  r1 = r1
  r2 = r2
  h1 = h1
  h2 = h2
  NoThread = NoThread
  Receivers <- MCReceivers
  Hearts <- MCHearts
  MaxClicks = 5
INVARIANT SessTypeOK
INVARIANT OneReceiver
INVARIANT LoggedInListens
INVARIANT NeverStuck
PROPERTY HeartbeatsEnd
PROPERTY QuitLogsOut
CHECK_DEADLOCK FALSE
