SPECIFICATION DbFairSpec
CONSTANTS
  t1 = t1
  t2 = t2
  users = users
  logs = logs
  NoThread = NoThread
  Threads = {t1, t2}
  Tables = {users, logs}
  SERVER_NUM_CYC = 3
  MAX_DB_OBSERVER_NUM = 1
  Stmts <- MCStmts
  Kinds = {"insert", "delete"}
  Faults <- MCFaults
  MaxCalls = 3
INVARIANT DbTypeOK
INVARIANT IdIsOfStoredRow
INVARIANT OnlyUnlockedCollide
INVARIANT LockedNeverFreed
PROPERTY AnnouncesJournal
PROPERTY CallsReturn
CHECK_DEADLOCK FALSE
