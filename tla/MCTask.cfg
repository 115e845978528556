SPECIFICATION TaskFairSpec
CONSTANTS
  TSK_DELETE_TRY_TIMES = 100
  Timeouts <- MCTimeouts
  Careful = TRUE
INVARIANT TaskTypeOK
INVARIANT NoUseAfterFree
PROPERTY TerminationSticks
PROPERTY DeleteReturns
CHECK_DEADLOCK FALSE
