--------------------------- MODULE DbSqliteProofs ---------------------------
(***************************************************************************)
(* Proofs about DbSqlite for any threads, tables, statements and faults.   *)
(*                                                                         *)
(* The lock first: as long as the connection is not NULL, addseqlock is    *)
(* live and excludes.  A thread that has read an id did so on an open      *)
(* connection, so it owns the lock until it returns; only inserts without  *)
(* the lock move sqlite_sequence meanwhile.                                *)
(***************************************************************************)
EXTENDS DbSqlite, TLAPS

(* What the theorems about ids assume of the statements.                   *)
OwnTable == \A s \in Stmts : s.names \subseteq {s.tab}
WithValues == \A s \in Stmts : s.values

Closers == {"close", "closing", "unlocking", "destroy"}
Inside == {"observe", "name", "prepare", "step", "end", "call", "callback", "nested",
           "return", "fail"}
Looking == {"observe", "name"}

(* u passed the lock and has not given it back.                            *)
Holds(u) == (pc[u] \in Inside /\ haslock[u]) \/ pc[u] \in {"closing", "unlocking"}

LiveExcludes == mutex = "live" => \A u \in Threads : Holds(u) => owner = u

OpenIsLive == db # "null" => mutex = "live"

(* Where the one closing thread is says what db is.                        *)
OneCloser ==
  /\ \A u, v \in Threads : pc[u] \in Closers /\ pc[v] \in Closers => u = v
  /\ \A u \in Threads : /\ pc[u] \in {"close", "closing", "unlocking"} => db # "null"
                        /\ pc[u] \in {"close", "closing"} => db = "open"
                        /\ pc[u] = "destroy" => db = "null"

FreedByCloser == db = "freed" => \E u \in Threads : pc[u] \in {"unlocking", "dead"}

AllDie == \A u \in Threads : pc[u] = "dead" => \A v \in Threads : pc[v] = "dead"

(* An id that went into the statement belongs to the owner of the lock.    *)
IdIsOwned ==
  \A u \in Threads :
    dbvalue[u] => /\ op[u] = "insert" /\ haslock[u]
                  /\ pc[u] \in (Inside \ Looking) \cup {"dead"}
                  /\ pc[u] # "dead" => mutex = "live" /\ owner = u

LocksForInsert ==
  \A u \in Threads : pc[u] \in {"lock", "observe", "name"} => op[u] = "insert" /\ haslock[u]

LockInv ==
  /\ LiveExcludes /\ OpenIsLive /\ OneCloser /\ FreedByCloser /\ AllDie /\ IdIsOwned
  /\ LocksForInsert

(* Before it stored a row, a call has no id but the one in its statement.  *)
NoIdYet ==
  \A u \in Threads :
    ~dbvalue[u] /\ pc[u] \notin {"end", "call", "callback", "nested", "return", "fail", "dead"}
      => id[u] = 0

StoredInv == NoIdYet /\ IdIsOfStoredRow

(* sqlite_sequence bounds the ids of a table, also in a transaction.       *)
SeqBounds ==
  /\ \A t \in Tables : \A r \in rows[t] : r <= seq[t]
  /\ saved # NoTxn => \A t \in Tables : \A r \in saved[1][t] : r <= saved[2][t]

(* An id that was read and not used is above it, unless a call without     *)
(* the lock came in between, or its observer was freed.                    *)
IdAbove ==
  \A u \in Threads :
    HasId(u, stmt[u].tab) /\ ~raced[u] /\ ~torn[u] => id[u] > seq[stmt[u].tab]

SeqInv == SeqBounds /\ IdAbove

(* What was announced is below the id the owner of the lock has.           *)
InUse(u) == dbvalue[u] /\ ~torn[u] /\ pc[u] \in {"prepare", "step", "end", "call"}

Ascending ==
  /\ \A t \in Tables : \A k \in 1..Len(announced[t]) : announced[t][k] <= seq[t]
  /\ \A u \in Threads : InUse(u) =>
       /\ id[u] % SERVER_NUM_CYC # 0
       /\ \A k \in 1..Len(announced[stmt[u].tab]) : announced[stmt[u].tab][k] < id[u]
       /\ pc[u] \in {"end", "call"} => id[u] <= seq[stmt[u].tab]

-----------------------------------------------------------------------------
(* Of two numbers that follow each other at most one is a multiple of n.   *)
LEMMA NotBothMultiples ==
  ASSUME NEW n \in Nat, n >= 2, NEW a \in Nat, a % n = 0
  PROVE  (a + 1) % n # 0
OBVIOUS

(* NextId yields a number above q, and no multiple of SERVER_NUM_CYC.      *)
LEMMA NextIdType ==
  ASSUME NEW q \in Nat
  PROVE  NextId(q) \in Nat /\ NextId(q) > q /\ NextId(q) % SERVER_NUM_CYC # 0
<1>1. SERVER_NUM_CYC \in Nat /\ SERVER_NUM_CYC >= 2
  BY DbAssumption DEF DbAssumption
<1>2. NextId(q) \in Nat /\ NextId(q) > q
  BY DEF NextId
<1>3. NextId(q) % SERVER_NUM_CYC # 0
  BY <1>1, NotBothMultiples DEF NextId
<1> QED
  BY <1>2, <1>3

(* The end of a call keeps the types of what it resets.                    *)
LEMMA ForgetType ==
  ASSUME DbTypeOK, NEW u \in Threads, Forget(u), owner' \in Threads \cup {NoThread}
  PROVE  DbTypeOK'
<1>1. NoStmt \in Stmts
  BY DbAssumption DEF DbAssumption, NoStmt
<1>2. /\ id' \in [Threads -> Nat] /\ put' \in [Threads -> Nat]
      /\ op' \in [Threads -> Kinds] /\ stmt' \in [Threads -> Stmts] /\ pc' \in [Threads -> PCs]
  BY <1>1, DbAssumption DEF DbAssumption, Forget, Goto, DbTypeOK, PCs
<1>3. /\ dbvalue' \in [Threads -> BOOLEAN] /\ raced' \in [Threads -> BOOLEAN]
      /\ observer' \in [Threads -> BOOLEAN] /\ haslock' \in [Threads -> BOOLEAN]
      /\ torn' \in [Threads -> BOOLEAN]
  BY DEF Forget, DbTypeOK
<1>4. slot' \in [Threads -> 0..MAX_DB_OBSERVER_NUM]
  BY DbAssumption DEF DbAssumption, Forget, DbTypeOK
<1> QED
  BY <1>2, <1>3, <1>4 DEF Forget, DbTypeOK, file

(* What a thread's statement names, and the id its row gets.               *)
LEMMA StmtType ==
  ASSUME DbTypeOK, NEW u \in Threads
  PROVE  /\ stmt[u].tab \in Tables /\ stmt[u].names \subseteq Tables
         /\ stmt[u].values \in BOOLEAN /\ RowId(u) \in Nat
<1>1. stmt[u] \in [tab : Tables, names : SUBSET Tables, values : BOOLEAN]
  BY DbAssumption DEF DbAssumption, DbTypeOK
<1>2. /\ stmt[u].tab \in Tables /\ stmt[u].names \subseteq Tables
      /\ stmt[u].values \in BOOLEAN
  BY ONLY <1>1
<1>3. id[u] \in Nat /\ seq[stmt[u].tab] \in Nat
  BY <1>2 DEF DbTypeOK
<1>4. RowId(u) \in Nat
  BY ONLY <1>3 DEF RowId
<1> QED
  BY <1>2, <1>4

(* The observer a statement is found by is that of its own table.          *)
LEMMA ObserverIsTab ==
  ASSUME OwnTable, DbTypeOK, NEW u \in Threads, Named(u)
  PROVE  insertobserver[slot[u]] = stmt[u].tab /\ stmt[u].tab \in Tables
<1>1. stmt[u] \in Stmts
  BY DEF DbTypeOK
<1>2. insertobserver[slot[u]] = stmt[u].tab
  BY ONLY <1>1, OwnTable, Named(u) DEF OwnTable, Named
<1> QED
  BY <1>2, StmtType

(* A prepared statement keeps the id it has, or the call has none.         *)
LEMMA PrepareStep ==
  ASSUME DbTypeOK, NEW u \in Threads, Prepare(u)
  PROVE  /\ UNCHANGED <<rows, seq, saved, stmt, raced, torn, announced>>
         /\ \A v \in Threads \ {u} :
              pc'[v] = pc[v] /\ dbvalue'[v] = dbvalue[v] /\ id'[v] = id[v]
         /\ pc[u] = "prepare" /\ pc'[u] \in {"step", "fail", "end"}
         /\ dbvalue'[u] => dbvalue[u] /\ id'[u] = id[u] /\ pc'[u] # "end"
<1>t. /\ pc \in [Threads -> PCs] /\ dbvalue \in [Threads -> BOOLEAN]
      /\ id \in [Threads -> Nat]
  BY DEF DbTypeOK
<1>1. UNCHANGED <<rows, seq, saved, stmt, raced, torn, announced>> /\ pc[u] = "prepare"
  BY DEF Prepare, NotStored, file, args, locals
<1>2. \/ NotStored(u)
      \/ \E p \in {"step", "fail"} : Goto(u, p) /\ UNCHANGED locals
  BY DEF Prepare
<1>3. CASE NotStored(u)
  BY ONLY <1>t, <1>1, <1>3, u \in Threads DEF NotStored, Goto
<1>4. CASE \E p \in {"step", "fail"} : Goto(u, p) /\ UNCHANGED locals
  BY ONLY <1>t, <1>1, <1>4, u \in Threads DEF Goto, locals
<1> QED
  BY <1>2, <1>3, <1>4

(* Every step keeps the types.                                             *)
LEMMA DbTypeStep ==
  ASSUME DbTypeOK, [DbNext]_dbvars
  PROVE  DbTypeOK'
<1> USE DbAssumption
    DEF DbAssumption, DbTypeOK, PCs
<1>s. CASE UNCHANGED dbvars
  BY <1>s DEF dbvars, shared, file, args, locals
<1>1. CASE sqllite_init
  BY <1>1 DEF sqllite_init, Idle, shared, file, args, locals
<1>2. CASE sqlite_unreg_allcallback
  <2>1. calls' \in 0..MaxCalls
    BY <1>2 DEF sqlite_unreg_allcallback, Counted
  <2> QED
    BY <1>2, <2>1 DEF sqlite_unreg_allcallback, file, args, locals
<1>3. CASE sqlite_unreg_allobserver
  <2>1. calls' \in 0..MaxCalls
    BY <1>3 DEF sqlite_unreg_allobserver, Counted
  <2>2. torn' \in [Threads -> BOOLEAN]
    BY <1>3, Zenon DEF sqlite_unreg_allobserver
  <2>3. insertobserver' \in Seq(Tables) /\ Len(insertobserver') <= MAX_DB_OBSERVER_NUM
    <3>1. insertobserver' = <<>> /\ MAX_DB_OBSERVER_NUM \in Nat
      BY <1>3 DEF sqlite_unreg_allobserver
    <3> QED
      BY ONLY <3>1
  <2>4. UNCHANGED <<db, owner, mutex, callbacks, rows, seq, saved, pc, op, stmt, observer,
                    haslock, slot, id, dbvalue, put, raced, announced>>
    BY <1>3 DEF sqlite_unreg_allobserver, file, args
  <2> QED
    BY <2>1, <2>2, <2>3, <2>4
<1>4. CASE sqllite_beginTransaction
  <2>1. calls' \in 0..MaxCalls
    BY <1>4 DEF sqllite_beginTransaction, Counted
  <2>2. saved' \in [Tables -> SUBSET Nat] \X [Tables -> Nat]
    BY <1>4 DEF sqllite_beginTransaction
  <2> QED
    BY <1>4, <2>1, <2>2 DEF sqllite_beginTransaction, shared, args, locals
<1>5. CASE sqllite_commitTransaction
  BY <1>5 DEF sqllite_commitTransaction, shared, file, args, locals
<1>6. CASE sqllite_rollbackTransaction
  BY <1>6 DEF sqllite_rollbackTransaction, shared, file, args, locals
<1>7. ASSUME NEW k \in Kinds, sqlite_reg_callback(k) PROVE DbTypeOK'
  BY <1>7 DEF sqlite_reg_callback, shared, file, args, locals
<1>8. ASSUME NEW t \in Tables, sqlite_reg_insertobserver(t) PROVE DbTypeOK'
  <2>1. /\ Len(insertobserver) < MAX_DB_OBSERVER_NUM
        /\ insertobserver' = Append(insertobserver, t)
    BY <1>8 DEF sqlite_reg_insertobserver
  <2>2. insertobserver \in Seq(Tables) /\ MAX_DB_OBSERVER_NUM \in Nat
    OBVIOUS
  <2>3. insertobserver' \in Seq(Tables) /\ Len(insertobserver') <= MAX_DB_OBSERVER_NUM
    BY ONLY <2>1, <2>2, t \in Tables
  <2> QED
    BY <1>8, <2>3 DEF sqlite_reg_insertobserver, file, args, locals
<1>9. ASSUME NEW u \in Threads, sqllite_close(u) PROVE DbTypeOK'
  <2>1. calls' \in 0..MaxCalls
    BY <1>9 DEF sqllite_close, Calls, Counted
  <2> QED
    BY <1>9, <2>1 DEF sqllite_close, Goto, shared, file, args, locals
<1>10. ASSUME NEW u \in Threads, CloseLock(u) PROVE DbTypeOK'
  BY <1>10 DEF CloseLock, MutexLock, Goto, shared, file, args, locals
<1>11. ASSUME NEW u \in Threads, CloseFree(u) PROVE DbTypeOK'
  BY <1>11 DEF CloseFree, Goto, shared, file, args, locals
<1>12. ASSUME NEW u \in Threads, CloseUnlock(u) PROVE DbTypeOK'
  BY <1>12 DEF CloseUnlock, MutexUnlock, Goto, shared, file, args, locals
<1>13. ASSUME NEW u \in Threads, CloseDestroy(u) PROVE DbTypeOK'
  BY <1>13 DEF CloseDestroy, Goto, shared, file, args, locals
<1>14. ASSUME NEW u \in Threads, InsertLock(u) PROVE DbTypeOK'
  BY <1>14 DEF InsertLock, MutexLock, Goto, shared, file, args, locals
<1>15. ASSUME NEW u \in Threads, NotObserved(u) PROVE DbTypeOK'
  BY <1>15 DEF NotObserved, Goto, shared, file, args, locals
<1>v. ASSUME NEW u \in Threads, dbvalue' = [dbvalue EXCEPT ![u] = stmt[u].values]
      PROVE  dbvalue' \in [Threads -> BOOLEAN]
  <2>1. stmt[u].values \in BOOLEAN /\ dbvalue \in [Threads -> BOOLEAN]
    BY StmtType
  <2> QED
    BY ONLY <1>v, <2>1, Zenon
<1>16. ASSUME NEW u \in Threads, ReadSeq(u) PROVE DbTypeOK'
  <2>1. id' \in [Threads -> Nat]
    <3>1. id' = [id EXCEPT ![u] = NextId(seq[insertobserver[slot[u]]])]
      BY <1>16 DEF ReadSeq
    <3>2. insertobserver[slot[u]] \in Tables
      BY <1>16, StmtType DEF ReadSeq, Named
    <3>3. seq[insertobserver[slot[u]]] \in Nat
      BY <3>2
    <3> QED
      BY <3>1, <3>3, NextIdType
  <2>2. dbvalue' \in [Threads -> BOOLEAN]
    BY <1>16, <1>v DEF ReadSeq
  <2> QED
    BY <1>16, <2>1, <2>2 DEF ReadSeq, Goto, shared, file, args
<1>32. ASSUME NEW u \in Threads, NextSlot(u) PROVE DbTypeOK'
  <2>1. slot' \in [Threads -> 0..MAX_DB_OBSERVER_NUM]
    <3>1. /\ slot \in [Threads -> 0..MAX_DB_OBSERVER_NUM] /\ MAX_DB_OBSERVER_NUM \in Nat
          /\ slot[u] < MAX_DB_OBSERVER_NUM /\ slot' = [slot EXCEPT ![u] = slot[u] + 1]
      BY <1>32 DEF NextSlot
    <3>2. slot[u] + 1 \in 0..MAX_DB_OBSERVER_NUM
      BY ONLY <3>1, u \in Threads
    <3> QED
      BY ONLY <3>1, <3>2
  <2>2. pc' \in [Threads -> PCs]
    BY <1>32 DEF NextSlot, Goto
  <2> QED
    BY <1>32, <2>1, <2>2 DEF NextSlot, shared, file, args
<1>33. ASSUME NEW u \in Threads, OtherName(u) PROVE DbTypeOK'
  BY <1>33 DEF OtherName, Goto, shared, file, args, locals
<1>34. ASSUME NEW u \in Threads, ReadFreed(u) PROVE DbTypeOK'
  <2>1. id' \in [Threads -> Nat]
    <3>1. PICK i \in {1} \cup {NextId(seq[t]) : t \in Tables} : id' = [id EXCEPT ![u] = i]
      BY <1>34 DEF ReadFreed
    <3>2. i \in Nat
      BY NextIdType
    <3> QED
      BY <3>1, <3>2
  <2>2. dbvalue' \in [Threads -> BOOLEAN]
    BY <1>34, <1>v DEF ReadFreed
  <2> QED
    BY <1>34, <2>1, <2>2 DEF ReadFreed, Goto, shared, file, args
<1>35. ASSUME NEW u \in Threads, SkipFreed(u) PROVE DbTypeOK'
  <2>1. torn' \in [Threads -> BOOLEAN]
    BY <1>35 DEF SkipFreed
  <2>2. pc' \in [Threads -> PCs]
    BY <1>35 DEF SkipFreed, Goto
  <2> QED
    BY <1>35, <2>1, <2>2 DEF SkipFreed, shared, file, args
<1>36. CASE Dies
  BY <1>36 DEF Dies, shared, file, args, locals
<1>17. ASSUME NEW u \in Threads, ReadSeqFails(u) PROVE DbTypeOK'
  BY <1>17 DEF ReadSeqFails, Goto, shared, file, args, locals
<1>18. ASSUME NEW u \in Threads, Prepare(u) PROVE DbTypeOK'
  <2>1. UNCHANGED <<shared, file, args, raced, announced, calls>>
    BY <1>18 DEF Prepare
  <2>2. CASE NotStored(u)
    <3>1. id' \in [Threads -> Nat]
      BY <2>2 DEF NotStored
    <3>2. pc' \in [Threads -> PCs]
      BY <2>2 DEF NotStored, Goto
    <3>3. dbvalue' \in [Threads -> BOOLEAN]
      BY <2>2 DEF NotStored
    <3> QED
      BY <2>1, <2>2, <3>1, <3>2, <3>3 DEF NotStored, shared, file, args
  <2>3. ASSUME NEW p \in {"step", "fail"}, Goto(u, p), UNCHANGED locals PROVE DbTypeOK'
    BY <2>1, <2>3 DEF Goto, shared, file, args, locals
  <2> QED
    BY <1>18, <2>2, <2>3 DEF Prepare
<1>20. ASSUME NEW u \in Threads, StepInsert(u) PROVE DbTypeOK'
  <2> DEFINE t == stmt[u].tab
             r == RowId(u)
  <2>1. t \in Tables /\ r \in Nat
    BY StmtType
  <2>2. /\ rows' = [rows EXCEPT ![t] = rows[t] \cup {r}]
        /\ seq' = [seq EXCEPT ![t] = IF r > seq[t] THEN r ELSE seq[t]]
        /\ put' = [put EXCEPT ![u] = r]
    BY <1>20, <2>1 DEF StepInsert
  <2>3. raced' \in [Threads -> BOOLEAN]
    BY <1>20, Zenon DEF StepInsert
  <2> HIDE DEF t, r
  <2>4. rows' \in [Tables -> SUBSET Nat] /\ seq' \in [Tables -> Nat] /\ put' \in [Threads -> Nat]
    BY <2>1, <2>2
  <2> QED
    BY <1>20, <2>3, <2>4 DEF StepInsert, Goto, shared, args
<1>21. ASSUME NEW u \in Threads, StepConstraint(u) PROVE DbTypeOK'
  BY <1>21 DEF StepConstraint, Goto, shared, file, args, locals
<1>22. ASSUME NEW u \in Threads, StepDelete(u) PROVE DbTypeOK'
  <2>1. rows' \in [Tables -> SUBSET Nat]
    <3>1. PICK r : rows' = [rows EXCEPT ![stmt[u].tab] = rows[stmt[u].tab] \ {r}]
      BY <1>22, StmtType DEF StepDelete
    <3>2. stmt[u].tab \in Tables /\ rows \in [Tables -> SUBSET Nat]
      BY StmtType
    <3> QED
      BY ONLY <3>1, <3>2
  <2> QED
    BY <1>22, <2>1 DEF StepDelete, Goto, shared, args, locals
<1>23. ASSUME NEW u \in Threads, StepUpdate(u) PROVE DbTypeOK'
  BY <1>23 DEF StepUpdate, Goto, shared, file, args, locals
<1>24. ASSUME NEW u \in Threads, StepBusy(u) PROVE DbTypeOK'
  BY <1>24 DEF StepBusy, NotStored, Goto, shared, file, args, locals
<1>25. ASSUME NEW u \in Threads, StepError(u) PROVE DbTypeOK'
  BY <1>25 DEF StepError, Goto, shared, file, args, locals
<1>26. ASSUME NEW u \in Threads, End(u) PROVE DbTypeOK'
  BY <1>26 DEF End, Goto, shared, file, args, locals
<1>37. ASSUME NEW u \in Threads, Call(u) PROVE DbTypeOK'
  <2>1. announced' \in [Tables -> Seq(Nat)]
    <3>1. stmt[u].tab \in Tables /\ id[u] \in Nat /\ announced[stmt[u].tab] \in Seq(Nat)
      OBVIOUS
    <3>2. Append(announced[stmt[u].tab], id[u]) \in Seq(Nat)
      BY <3>1
    <3> QED
      BY <1>37, <3>1, <3>2 DEF Call
  <2>2. pc' \in [Threads -> PCs]
    BY <1>37 DEF Call, Goto
  <2> QED
    BY <1>37, <2>1, <2>2 DEF Call, shared, file, args, locals
<1>27. ASSUME NEW u \in Threads, CallbackReturns(u) PROVE DbTypeOK'
  BY <1>27 DEF CallbackReturns, Goto, shared, file, args, locals
<1>28. ASSUME NEW u \in Threads, CallbackInserts(u) PROVE DbTypeOK'
  BY <1>28 DEF CallbackInserts, Goto, shared, file, args, locals
<1>29. ASSUME NEW u \in Threads, Returns(u) PROVE DbTypeOK'
  BY <1>29, ForgetType DEF Returns, Leave, MutexUnlock
<1>30. ASSUME NEW u \in Threads, Fails(u) PROVE DbTypeOK'
  BY <1>30, ForgetType DEF Fails, Leave, MutexUnlock
<1>31. ASSUME NEW u \in Threads, NEW k \in Kinds, NEW s \in Stmts, NEW obs \in BOOLEAN,
             NEW want \in BOOLEAN, sqllite_call(u, k, s, obs, want)
      PROVE  DbTypeOK'
  <2>1. calls' \in 0..MaxCalls
    BY <1>31 DEF sqllite_call, Calls, Counted
  <2>2. pc' \in [Threads -> PCs] /\ op' \in [Threads -> Kinds] /\ stmt' \in [Threads -> Stmts]
    BY <1>31 DEF sqllite_call, Goto
  <2>3. observer' \in [Threads -> BOOLEAN] /\ haslock' \in [Threads -> BOOLEAN]
    BY <1>31, Zenon DEF sqllite_call
  <2> QED
    BY <1>31, <2>1, <2>2, <2>3 DEF sqllite_call, shared, file, locals
<1> HIDE DEF DbTypeOK, PCs
<1> QED
  BY <1>s, <1>1, <1>2, <1>3, <1>4, <1>5, <1>6, <1>7, <1>8, <1>9, <1>10, <1>11, <1>12,
     <1>13, <1>14, <1>15, <1>16, <1>17, <1>18, <1>20, <1>21, <1>22, <1>23, <1>24,
     <1>25, <1>26, <1>27, <1>28, <1>29, <1>30, <1>31, <1>32, <1>33, <1>34, <1>35, <1>36,
     <1>37
     DEF UseFreed, PrepareFreed, CallReset, DbNext, Register, Transaction, Continue, Step, dbvars, shared, file, args,
         locals

(* A thread that goes on inside its call, with the lock it has or without, *)
(* changes nothing about addseqlock.                                       *)
LEMMA InsideStep ==
  ASSUME DbTypeOK, LockInv, NEW u \in Threads, NEW p \in Inside, Goto(u, p),
         pc[u] \in Inside, p \in Looking => pc[u] \in Looking, UNCHANGED <<db, owner, mutex, op, haslock>>,
         \A v \in Threads : dbvalue'[v] => dbvalue[v]
  PROVE  LockInv'
<1>1. /\ pc'[u] = p /\ pc'[u] \notin {"lock", "dead", "closing", "unlocking"}
      /\ pc'[u] \notin Closers /\ \A v \in Threads : v # u => pc'[v] = pc[v]
  BY DEF Goto, DbTypeOK, Inside, Closers
<1>2. pc[u] \notin Closers /\ pc[u] # "dead"
  BY DEF Inside, Closers
<1>3. LiveExcludes'
  BY <1>1 DEF LockInv, LiveExcludes, Holds
<1>4. OpenIsLive' /\ LocksForInsert'
  BY <1>1 DEF LockInv, OpenIsLive, LocksForInsert, Looking
<1>5. OneCloser'
  BY <1>1, <1>2 DEF LockInv, OneCloser, Closers
<1>6. FreedByCloser' /\ AllDie'
  BY <1>1, <1>2 DEF LockInv, FreedByCloser, AllDie, Inside
<1>7. IdIsOwned'
  BY <1>1, <1>2 DEF LockInv, IdIsOwned, Looking
<1> QED
  BY <1>3, <1>4, <1>5, <1>6, <1>7 DEF LockInv

(* Every step keeps what is said of addseqlock.                            *)
LEMMA LockStep ==
  ASSUME DbTypeOK, LockInv, [DbNext]_dbvars
  PROVE  LockInv'
<1>t. /\ db \in {"open", "freed", "null"} /\ mutex \in {"live", "destroyed"}
      /\ owner \in Threads \cup {NoThread} /\ NoThread \notin Threads
      /\ pc \in [Threads -> PCs] /\ op \in [Threads -> Kinds]
      /\ haslock \in [Threads -> BOOLEAN] /\ dbvalue \in [Threads -> BOOLEAN]
  BY DbAssumption DEF DbAssumption, DbTypeOK
<1> USE <1>t
    DEF PCs, LockInv, LiveExcludes, OpenIsLive, OneCloser,
        FreedByCloser, AllDie, IdIsOwned, LocksForInsert, Closers, Inside, Looking, Holds
<1>f. CASE UNCHANGED <<db, owner, mutex, pc, op, haslock, dbvalue>>
  BY <1>f
<1>1. CASE sqllite_init
  <2>1. LiveExcludes'
    BY <1>1 DEF sqllite_init, Idle, shared, file, args, locals
  <2>2. OpenIsLive'
    BY <1>1 DEF sqllite_init, Idle, shared, file, args, locals
  <2>3. OneCloser'
    BY <1>1 DEF sqllite_init, Idle, shared, file, args, locals
  <2>4. FreedByCloser'
    BY <1>1 DEF sqllite_init, Idle, shared, file, args, locals
  <2>5. AllDie'
    BY <1>1 DEF sqllite_init, Idle, shared, file, args, locals
  <2>6. IdIsOwned'
    BY <1>1 DEF sqllite_init, Idle, shared, file, args, locals
  <2>7. LocksForInsert'
    BY <1>1 DEF sqllite_init, Idle, shared, file, args, locals
  <2> QED
    BY <2>1, <2>2, <2>3, <2>4, <2>5, <2>6, <2>7
<1>2. ASSUME NEW u \in Threads, sqllite_close(u) PROVE LockInv'
  <2>1. LiveExcludes'
    BY <1>2
       DEF sqllite_close, Calls, Counted, Idle, NobodyCloses, Goto, shared, file, args,
           locals
  <2>2. OpenIsLive'
    BY <1>2
       DEF sqllite_close, Calls, Counted, Idle, NobodyCloses, Goto, shared, file, args,
           locals
  <2>3. OneCloser'
    BY <1>2
       DEF sqllite_close, Calls, Counted, Idle, NobodyCloses, Goto, shared, file, args,
           locals
  <2>4. FreedByCloser'
    BY <1>2
       DEF sqllite_close, Calls, Counted, Idle, NobodyCloses, Goto, shared, file, args,
           locals
  <2>5. AllDie'
    BY <1>2
       DEF sqllite_close, Calls, Counted, Idle, NobodyCloses, Goto, shared, file, args,
           locals
  <2>6. IdIsOwned'
    BY <1>2
       DEF sqllite_close, Calls, Counted, Idle, NobodyCloses, Goto, shared, file, args,
           locals
  <2>7. LocksForInsert'
    BY <1>2
       DEF sqllite_close, Calls, Counted, Idle, NobodyCloses, Goto, shared, file, args,
           locals
  <2> QED
    BY <2>1, <2>2, <2>3, <2>4, <2>5, <2>6, <2>7
<1>3. ASSUME NEW u \in Threads, CloseLock(u) PROVE LockInv'
  <2>1. LiveExcludes'
    BY <1>3 DEF CloseLock, MutexLock, Goto, shared, file, args, locals
  <2>2. OpenIsLive'
    BY <1>3 DEF CloseLock, MutexLock, Goto, shared, file, args, locals
  <2>3. OneCloser'
    BY <1>3 DEF CloseLock, MutexLock, Goto, shared, file, args, locals
  <2>4. FreedByCloser'
    BY <1>3 DEF CloseLock, MutexLock, Goto, shared, file, args, locals
  <2>5. AllDie'
    BY <1>3 DEF CloseLock, MutexLock, Goto, shared, file, args, locals
  <2>6. IdIsOwned'
    BY <1>3 DEF CloseLock, MutexLock, Goto, shared, file, args, locals
  <2>7. LocksForInsert'
    BY <1>3 DEF CloseLock, MutexLock, Goto, shared, file, args, locals
  <2> QED
    BY <2>1, <2>2, <2>3, <2>4, <2>5, <2>6, <2>7
<1>4. ASSUME NEW u \in Threads, CloseFree(u) PROVE LockInv'
  <2>1. /\ pc[u] = "closing" /\ pc' = [pc EXCEPT ![u] = "unlocking"] /\ db' \in {db, "freed"}
        /\ UNCHANGED <<owner, mutex, op, haslock, dbvalue>>
    BY <1>4 DEF CloseFree, Goto, args, locals
  <2>2. db = "open" /\ mutex = "live" /\ pc'[u] = "unlocking"
    BY <2>1
  <2>3. \A v \in Threads \ {u} : pc'[v] = pc[v] /\ pc[v] \notin Closers
    BY <2>1
  <2>4. LiveExcludes' /\ OpenIsLive' /\ LocksForInsert'
    BY <2>1, <2>2, <2>3
  <2>5. OneCloser' /\ FreedByCloser'
    BY <2>1, <2>2, <2>3
  <2>6. AllDie' /\ IdIsOwned'
    BY <2>1, <2>2, <2>3
  <2> QED
    BY <2>4, <2>5, <2>6
<1>5. ASSUME NEW u \in Threads, CloseUnlock(u) PROVE LockInv'
  <2>1. LiveExcludes'
    BY <1>5 DEF CloseUnlock, MutexUnlock, Goto, shared, file, args, locals
  <2>2. OpenIsLive'
    BY <1>5 DEF CloseUnlock, MutexUnlock, Goto, shared, file, args, locals
  <2>3. OneCloser'
    BY <1>5 DEF CloseUnlock, MutexUnlock, Goto, shared, file, args, locals
  <2>4. FreedByCloser'
    BY <1>5 DEF CloseUnlock, MutexUnlock, Goto, shared, file, args, locals
  <2>5. AllDie'
    BY <1>5 DEF CloseUnlock, MutexUnlock, Goto, shared, file, args, locals
  <2>6. IdIsOwned'
    BY <1>5 DEF CloseUnlock, MutexUnlock, Goto, shared, file, args, locals
  <2>7. LocksForInsert'
    BY <1>5 DEF CloseUnlock, MutexUnlock, Goto, shared, file, args, locals
  <2> QED
    BY <2>1, <2>2, <2>3, <2>4, <2>5, <2>6, <2>7
<1>6. ASSUME NEW u \in Threads, CloseDestroy(u) PROVE LockInv'
  <2>1. LiveExcludes'
    BY <1>6 DEF CloseDestroy, Goto, shared, file, args, locals
  <2>2. OpenIsLive'
    BY <1>6 DEF CloseDestroy, Goto, shared, file, args, locals
  <2>3. OneCloser'
    BY <1>6 DEF CloseDestroy, Goto, shared, file, args, locals
  <2>4. FreedByCloser'
    BY <1>6 DEF CloseDestroy, Goto, shared, file, args, locals
  <2>5. AllDie'
    BY <1>6 DEF CloseDestroy, Goto, shared, file, args, locals
  <2>6. IdIsOwned'
    BY <1>6 DEF CloseDestroy, Goto, shared, file, args, locals
  <2>7. LocksForInsert'
    BY <1>6 DEF CloseDestroy, Goto, shared, file, args, locals
  <2> QED
    BY <2>1, <2>2, <2>3, <2>4, <2>5, <2>6, <2>7
<1>7. ASSUME NEW u \in Threads, InsertLock(u) PROVE LockInv'
  <2>1. LiveExcludes'
    BY <1>7 DEF InsertLock, MutexLock, Goto, shared, file, args, locals
  <2>2. OpenIsLive'
    BY <1>7 DEF InsertLock, MutexLock, Goto, shared, file, args, locals
  <2>3. OneCloser'
    BY <1>7 DEF InsertLock, MutexLock, Goto, shared, file, args, locals
  <2>4. FreedByCloser'
    BY <1>7 DEF InsertLock, MutexLock, Goto, shared, file, args, locals
  <2>5. AllDie'
    BY <1>7 DEF InsertLock, MutexLock, Goto, shared, file, args, locals
  <2>6. IdIsOwned'
    BY <1>7 DEF InsertLock, MutexLock, Goto, shared, file, args, locals
  <2>7. LocksForInsert'
    BY <1>7 DEF InsertLock, MutexLock, Goto, shared, file, args, locals
  <2> QED
    BY <2>1, <2>2, <2>3, <2>4, <2>5, <2>6, <2>7
<1>8. ASSUME NEW u \in Threads, NotObserved(u) PROVE LockInv'
  BY <1>8, InsideStep DEF NotObserved, Goto, Inside, Looking, shared, file, args, locals
<1>9. ASSUME NEW u \in Threads, ReadSeq(u) \/ ReadFreed(u) PROVE LockInv'
  <2>1. /\ db = "open" /\ pc[u] = "name" /\ pc' = [pc EXCEPT ![u] = "prepare"]
        /\ UNCHANGED <<db, owner, mutex, op, haslock>>
        /\ \A v \in Threads : v # u => dbvalue'[v] = dbvalue[v]
    BY <1>9 DEF ReadSeq, ReadFreed, Named, Goto, shared, args
  <2>2. mutex = "live" /\ owner = u /\ op[u] = "insert" /\ haslock[u]
    BY <2>1
  <2>3. LiveExcludes' /\ OpenIsLive'
    BY <2>1
  <2>4. OneCloser' /\ FreedByCloser'
    BY <2>1
  <2>5. AllDie' /\ LocksForInsert'
    BY <2>1
  <2>6. IdIsOwned'
    BY <2>1, <2>2
  <2> QED
    BY <2>3, <2>4, <2>5, <2>6
<1>10. ASSUME NEW u \in Threads, ReadSeqFails(u) PROVE LockInv'
  BY <1>10, InsideStep DEF ReadSeqFails, Named, Goto, Inside, Looking, shared, file, args, locals
<1>11. ASSUME NEW u \in Threads, Prepare(u) PROVE LockInv'
  <2>1. UNCHANGED <<db, owner, mutex, op, haslock>> /\ pc[u] = "prepare"
    BY <1>11 DEF Prepare, shared, args
  <2>2. \A v \in Threads : dbvalue'[v] => dbvalue[v]
    BY <1>11 DEF Prepare, NotStored, locals
  <2>3. \E p \in {"step", "fail", "end"} : Goto(u, p)
    BY <1>11 DEF Prepare, NotStored
  <2> QED
    BY <2>1, <2>2, <2>3, InsideStep DEF Inside, Looking
<1>12. CASE Dies
  <2>1. LiveExcludes'
    BY <1>12 DEF Dies, shared, file, args, locals
  <2>2. OpenIsLive'
    BY <1>12 DEF Dies, shared, file, args, locals
  <2>3. OneCloser'
    BY <1>12 DEF Dies, shared, file, args, locals
  <2>4. FreedByCloser'
    BY <1>12 DEF Dies, shared, file, args, locals
  <2>5. AllDie'
    BY <1>12 DEF Dies, shared, file, args, locals
  <2>6. IdIsOwned'
    BY <1>12 DEF Dies, shared, file, args, locals
  <2>7. LocksForInsert'
    BY <1>12 DEF Dies, shared, file, args, locals
  <2> QED
    BY <2>1, <2>2, <2>3, <2>4, <2>5, <2>6, <2>7
<1>25. ASSUME NEW u \in Threads, NextSlot(u) PROVE LockInv'
  BY <1>25, InsideStep DEF NextSlot, Goto, Inside, Looking, shared, file, args, locals
<1>26. ASSUME NEW u \in Threads, OtherName(u) PROVE LockInv'
  BY <1>26, InsideStep DEF OtherName, Goto, Inside, Looking, shared, file, args, locals
<1>27. ASSUME NEW u \in Threads, SkipFreed(u) PROVE LockInv'
  BY <1>27, InsideStep DEF SkipFreed, Goto, Inside, Looking, shared, file, args, locals
<1>28. ASSUME NEW u \in Threads, Call(u) PROVE LockInv'
  BY <1>28, InsideStep DEF Call, Goto, Inside, Looking, shared, file, args, locals
<1>13. ASSUME NEW u \in Threads, StepInsert(u) PROVE LockInv'
  BY <1>13, InsideStep DEF StepInsert, Goto, Inside, Looking, shared, file, args, locals
<1>14. ASSUME NEW u \in Threads, StepConstraint(u) PROVE LockInv'
  BY <1>14, InsideStep DEF StepConstraint, Goto, Inside, Looking, shared, file, args, locals
<1>15. ASSUME NEW u \in Threads, StepDelete(u) PROVE LockInv'
  BY <1>15, InsideStep DEF StepDelete, Goto, Inside, Looking, shared, file, args, locals
<1>16. ASSUME NEW u \in Threads, StepUpdate(u) PROVE LockInv'
  BY <1>16, InsideStep DEF StepUpdate, Goto, Inside, Looking, shared, file, args, locals
<1>17. ASSUME NEW u \in Threads, StepBusy(u) PROVE LockInv'
  BY <1>17, InsideStep DEF StepBusy, NotStored, Goto, Inside, Looking, shared, file, args, locals
<1>18. ASSUME NEW u \in Threads, StepError(u) PROVE LockInv'
  BY <1>18, InsideStep DEF StepError, Goto, Inside, Looking, shared, file, args, locals
<1>19. ASSUME NEW u \in Threads, End(u) PROVE LockInv'
  BY <1>19, InsideStep DEF End, Goto, Inside, Looking, shared, file, args, locals
<1>20. ASSUME NEW u \in Threads, CallbackReturns(u) PROVE LockInv'
  BY <1>20, InsideStep DEF CallbackReturns, Goto, Inside, Looking, shared, file, args, locals
<1>21. ASSUME NEW u \in Threads, CallbackInserts(u) PROVE LockInv'
  BY <1>21, InsideStep DEF CallbackInserts, Goto, Inside, Looking, shared, file, args, locals
<1>22. ASSUME NEW u \in Threads, Returns(u) PROVE LockInv'
  <2>1. LiveExcludes'
    BY <1>22 DEF Returns, Leave, Forget, MutexUnlock, Goto, shared, file, args, locals
  <2>2. OpenIsLive'
    BY <1>22 DEF Returns, Leave, Forget, MutexUnlock, Goto, shared, file, args, locals
  <2>3. OneCloser'
    BY <1>22 DEF Returns, Leave, Forget, MutexUnlock, Goto, shared, file, args, locals
  <2>4. FreedByCloser'
    BY <1>22 DEF Returns, Leave, Forget, MutexUnlock, Goto, shared, file, args, locals
  <2>5. AllDie'
    BY <1>22 DEF Returns, Leave, Forget, MutexUnlock, Goto, shared, file, args, locals
  <2>6. IdIsOwned'
    BY <1>22 DEF Returns, Leave, Forget, MutexUnlock, Goto, shared, file, args, locals
  <2>7. LocksForInsert'
    BY <1>22 DEF Returns, Leave, Forget, MutexUnlock, Goto, shared, file, args, locals
  <2> QED
    BY <2>1, <2>2, <2>3, <2>4, <2>5, <2>6, <2>7
<1>23. ASSUME NEW u \in Threads, Fails(u) PROVE LockInv'
  <2>1. LiveExcludes'
    BY <1>23 DEF Fails, Leave, Forget, MutexUnlock, Goto, shared, file, args, locals
  <2>2. OpenIsLive'
    BY <1>23 DEF Fails, Leave, Forget, MutexUnlock, Goto, shared, file, args, locals
  <2>3. OneCloser'
    BY <1>23 DEF Fails, Leave, Forget, MutexUnlock, Goto, shared, file, args, locals
  <2>4. FreedByCloser'
    BY <1>23 DEF Fails, Leave, Forget, MutexUnlock, Goto, shared, file, args, locals
  <2>5. AllDie'
    BY <1>23 DEF Fails, Leave, Forget, MutexUnlock, Goto, shared, file, args, locals
  <2>6. IdIsOwned'
    BY <1>23 DEF Fails, Leave, Forget, MutexUnlock, Goto, shared, file, args, locals
  <2>7. LocksForInsert'
    BY <1>23 DEF Fails, Leave, Forget, MutexUnlock, Goto, shared, file, args, locals
  <2> QED
    BY <2>1, <2>2, <2>3, <2>4, <2>5, <2>6, <2>7
<1>24. ASSUME NEW u \in Threads, NEW k \in Kinds, NEW s \in Stmts, NEW obs \in BOOLEAN,
             NEW want \in BOOLEAN, sqllite_call(u, k, s, obs, want)
      PROVE  LockInv'
  <2>1. LiveExcludes'
    BY <1>24 DEF sqllite_call, Calls, Counted, Idle, Goto, shared, file, args, locals
  <2>2. OpenIsLive'
    BY <1>24 DEF sqllite_call, Calls, Counted, Idle, Goto, shared, file, args, locals
  <2>3. OneCloser'
    BY <1>24 DEF sqllite_call, Calls, Counted, Idle, Goto, shared, file, args, locals
  <2>4. FreedByCloser'
    BY <1>24 DEF sqllite_call, Calls, Counted, Idle, Goto, shared, file, args, locals
  <2>5. AllDie'
    BY <1>24 DEF sqllite_call, Calls, Counted, Idle, Goto, shared, file, args, locals
  <2>6. IdIsOwned'
    BY <1>24 DEF sqllite_call, Calls, Counted, Idle, Goto, shared, file, args, locals
  <2>7. LocksForInsert'
    BY <1>24 DEF sqllite_call, Calls, Counted, Idle, Goto, shared, file, args, locals
  <2> QED
    BY <2>1, <2>2, <2>3, <2>4, <2>5, <2>6, <2>7
<1> HIDE DEF DbTypeOK, PCs, LockInv, LiveExcludes, OpenIsLive, OneCloser, FreedByCloser,
         AllDie, IdIsOwned, LocksForInsert, Closers, Inside, Looking, Holds
<1> QED
  BY <1>f, <1>1, <1>2, <1>3, <1>4, <1>5, <1>6, <1>7, <1>8, <1>9, <1>10, <1>11, <1>12,
     <1>13, <1>14, <1>15, <1>16, <1>17, <1>18, <1>19, <1>20, <1>21, <1>22, <1>23, <1>24,
     <1>25, <1>26, <1>27, <1>28
     DEF UseFreed, PrepareFreed, CallReset, DbNext, Register, Transaction, Continue, Step, dbvars, shared, file, args,
         locals, sqlite_reg_callback, sqlite_unreg_allcallback,
         sqlite_reg_insertobserver, sqlite_unreg_allobserver, sqllite_beginTransaction,
         sqllite_commitTransaction, sqllite_rollbackTransaction

(* Every step keeps what is said of the id a call returns.                 *)
LEMMA StoredStep ==
  ASSUME WithValues, DbTypeOK, LockInv, StoredInv, [DbNext]_dbvars
  PROVE  StoredInv'
<1>t. /\ pc \in [Threads -> PCs] /\ dbvalue \in [Threads -> BOOLEAN]
      /\ id \in [Threads -> Nat] /\ put \in [Threads -> Nat]
      /\ \A u \in Threads : stmt[u].values
  BY DEF DbTypeOK, WithValues
<1> USE <1>t DEF StoredInv, NoIdYet, IdIsOfStoredRow
<1>f. CASE UNCHANGED <<pc, id, dbvalue, put>>
  BY <1>f
<1>1. ASSUME NEW u \in Threads, sqllite_close(u) PROVE StoredInv'
  BY <1>1
     DEF sqllite_close, Calls, Counted, Idle, NobodyCloses, Goto, shared, file,
         args, locals
<1>2. ASSUME NEW u \in Threads, CloseLock(u) PROVE StoredInv'
  BY <1>2 DEF CloseLock, MutexLock, Goto, shared, file, args, locals
<1>3. ASSUME NEW u \in Threads, CloseFree(u) PROVE StoredInv'
  BY <1>3 DEF CloseFree, Goto, shared, file, args, locals
<1>4. ASSUME NEW u \in Threads, CloseUnlock(u) PROVE StoredInv'
  BY <1>4 DEF CloseUnlock, MutexUnlock, Goto, shared, file, args, locals
<1>5. ASSUME NEW u \in Threads, CloseDestroy(u) PROVE StoredInv'
  BY <1>5 DEF CloseDestroy, Goto, shared, file, args, locals
<1>6. ASSUME NEW u \in Threads, InsertLock(u) PROVE StoredInv'
  BY <1>6 DEF InsertLock, MutexLock, Goto, shared, file, args, locals
<1>7. ASSUME NEW u \in Threads, NotObserved(u) PROVE StoredInv'
  BY <1>7 DEF NotObserved, Goto, shared, file, args, locals
<1>8. ASSUME NEW u \in Threads, ReadSeq(u) PROVE StoredInv'
  BY <1>8 DEF ReadSeq, Named, Goto, shared, file, args, locals
<1>9. ASSUME NEW u \in Threads, ReadSeqFails(u) PROVE StoredInv'
  BY <1>9 DEF ReadSeqFails, Named, Goto, shared, file, args, locals
<1>10. ASSUME NEW u \in Threads, Prepare(u) PROVE StoredInv'
  <2>1. id[u] = 0 \/ dbvalue[u]
    BY <1>10 DEF Prepare
  <2>2. \/ pc' = [pc EXCEPT ![u] = "end"] /\ NotStored(u)
        \/ \E p \in {"step", "fail"} : pc' = [pc EXCEPT ![u] = p] /\ UNCHANGED locals
    BY <1>10 DEF Prepare, NotStored, Goto
  <2>3. CASE pc' = [pc EXCEPT ![u] = "end"] /\ NotStored(u)
    <3>1. id' = [id EXCEPT ![u] = 0] /\ dbvalue' = [dbvalue EXCEPT ![u] = FALSE] /\ put' = put
      BY <2>1, <2>3 DEF NotStored
    <3> QED
      BY <2>3, <3>1
  <2>4. ASSUME NEW p \in {"step", "fail"}, pc' = [pc EXCEPT ![u] = p], UNCHANGED locals
        PROVE  StoredInv'
    BY <1>10, <2>4 DEF Prepare, locals
  <2> QED
    BY <2>2, <2>3, <2>4
<1>11. CASE Dies
  BY <1>11 DEF Dies, shared, file, args, locals
<1>12. ASSUME NEW u \in Threads, StepInsert(u) PROVE StoredInv'
  BY <1>12 DEF StepInsert, Goto, RowId, shared, file, args, locals
<1>13. ASSUME NEW u \in Threads, StepConstraint(u) PROVE StoredInv'
  BY <1>13 DEF StepConstraint, Goto, shared, file, args, locals
<1>14. ASSUME NEW u \in Threads, StepDelete(u) PROVE StoredInv'
  <2>1. id[u] = 0
    BY <1>14 DEF StepDelete, LockInv, IdIsOwned
  <2> QED
    BY <1>14, <2>1 DEF StepDelete, Goto, locals
<1>15. ASSUME NEW u \in Threads, StepUpdate(u) PROVE StoredInv'
  <2>1. id[u] = 0
    BY <1>15 DEF StepUpdate, LockInv, IdIsOwned
  <2> QED
    BY <1>15, <2>1 DEF StepUpdate, Goto, locals
<1>16. ASSUME NEW u \in Threads, StepBusy(u) PROVE StoredInv'
  BY <1>16 DEF StepBusy, NotStored, Goto, shared, file, args, locals
<1>17. ASSUME NEW u \in Threads, StepError(u) PROVE StoredInv'
  BY <1>17 DEF StepError, Goto, shared, file, args, locals
<1>24. ASSUME NEW u \in Threads, NextSlot(u) PROVE StoredInv'
  BY <1>24 DEF NextSlot, Goto
<1>25. ASSUME NEW u \in Threads, OtherName(u) PROVE StoredInv'
  BY <1>25 DEF OtherName, Goto, locals
<1>26. ASSUME NEW u \in Threads, SkipFreed(u) PROVE StoredInv'
  BY <1>26 DEF SkipFreed, Goto
<1>27. ASSUME NEW u \in Threads, ReadFreed(u) PROVE StoredInv'
  BY <1>27 DEF ReadFreed, Goto
<1>28. ASSUME NEW u \in Threads, Call(u) PROVE StoredInv'
  BY <1>28 DEF Call, Goto, locals
<1>18. ASSUME NEW u \in Threads, End(u) PROVE StoredInv'
  BY <1>18 DEF End, Goto, shared, file, args, locals
<1>19. ASSUME NEW u \in Threads, CallbackReturns(u) PROVE StoredInv'
  BY <1>19 DEF CallbackReturns, Goto, shared, file, args, locals
<1>20. ASSUME NEW u \in Threads, CallbackInserts(u) PROVE StoredInv'
  BY <1>20 DEF CallbackInserts, Goto, shared, file, args, locals
<1>21. ASSUME NEW u \in Threads, Returns(u) PROVE StoredInv'
  BY <1>21 DEF Returns, Leave, Forget, MutexUnlock, Goto, shared, file, args, locals
<1>22. ASSUME NEW u \in Threads, Fails(u) PROVE StoredInv'
  BY <1>22 DEF Fails, Leave, Forget, MutexUnlock, Goto, shared, file, args, locals
<1>23. ASSUME NEW u \in Threads, NEW k \in Kinds, NEW s \in Stmts, NEW obs \in BOOLEAN,
             NEW want \in BOOLEAN, sqllite_call(u, k, s, obs, want)
      PROVE  StoredInv'
  BY <1>23 DEF sqllite_call, Calls, Counted, Idle, Goto, shared, file, args, locals
<1> HIDE DEF StoredInv, NoIdYet, IdIsOfStoredRow
<1> QED
  BY <1>f, <1>1, <1>2, <1>3, <1>4, <1>5, <1>6, <1>7, <1>8, <1>9, <1>10, <1>11, <1>12,
     <1>13, <1>14, <1>15, <1>16, <1>17, <1>18, <1>19, <1>20, <1>21, <1>22, <1>23, <1>24,
     <1>25, <1>26, <1>27, <1>28
     DEF UseFreed, PrepareFreed, CallReset, DbNext, Register, Transaction, Continue, Step, dbvars, shared, file, args,
         locals, sqlite_reg_callback, sqlite_unreg_allcallback,
         sqlite_reg_insertobserver, sqlite_unreg_allobserver, sqllite_beginTransaction,
         sqllite_commitTransaction, sqllite_rollbackTransaction, sqllite_init

(* Every step keeps the ids of a table below its sqlite_sequence, and the  *)
(* id that the owner of the lock has read above it.                        *)
LEMMA SeqStep ==
  ASSUME OwnTable, DbTypeOK, LockInv, SeqInv, [DbNext]_dbvars
  PROVE  SeqInv'
<1> USE DbAssumption
    DEF DbAssumption, DbTypeOK, SeqInv, SeqBounds, IdAbove, HasId, RowId
<1>f. CASE UNCHANGED <<rows, seq, saved, pc, dbvalue, stmt, raced, torn, id>>
  BY <1>f
<1>0. CASE sqlite_unreg_allobserver
  <2>1. /\ UNCHANGED <<rows, seq, saved, pc, dbvalue, stmt, raced, id>>
        /\ \A v \in Threads : ~torn'[v] => ~torn[v]
    BY <1>0 DEF sqlite_unreg_allobserver, file, args
  <2> QED
    BY <2>1
<1>1. CASE sqllite_beginTransaction
  BY <1>1 DEF sqllite_beginTransaction, Counted, NobodyCloses, shared, file, args, locals
<1>2. CASE sqllite_commitTransaction
  BY <1>2 DEF sqllite_commitTransaction, shared, file, args, locals
<1>3. CASE sqllite_rollbackTransaction
  BY <1>3 DEF sqllite_rollbackTransaction, shared, file, args, locals
<1>4. ASSUME NEW u \in Threads, sqllite_close(u) PROVE SeqInv'
  BY <1>4
     DEF sqllite_close, Calls, Counted, Idle, NobodyCloses, Goto, shared, file, args,
         locals
<1>5. ASSUME NEW u \in Threads, CloseLock(u) PROVE SeqInv'
  BY <1>5 DEF CloseLock, MutexLock, Goto, shared, file, args, locals
<1>6. ASSUME NEW u \in Threads, CloseFree(u) PROVE SeqInv'
  BY <1>6 DEF CloseFree, Goto, shared, file, args, locals
<1>7. ASSUME NEW u \in Threads, CloseUnlock(u) PROVE SeqInv'
  BY <1>7 DEF CloseUnlock, MutexUnlock, Goto, shared, file, args, locals
<1>8. ASSUME NEW u \in Threads, CloseDestroy(u) PROVE SeqInv'
  BY <1>8 DEF CloseDestroy, Goto, shared, file, args, locals
<1>9. ASSUME NEW u \in Threads, InsertLock(u) PROVE SeqInv'
  BY <1>9 DEF InsertLock, MutexLock, Goto, shared, file, args, locals
<1>10. ASSUME NEW u \in Threads, NotObserved(u) PROVE SeqInv'
  <2>1. ~dbvalue[u] /\ pc' = [pc EXCEPT ![u] = "prepare"]
    BY <1>10 DEF NotObserved, Goto, LockInv, IdIsOwned, Inside, Looking
  <2>2. UNCHANGED <<rows, seq, saved, dbvalue, stmt, raced, torn, id>>
    BY <1>10 DEF NotObserved, file, args, locals
  <2> QED
    BY <2>1, <2>2
<1>11. ASSUME NEW u \in Threads, ReadSeq(u) PROVE SeqInv'
  <2>1. Named(u) /\ id' = [id EXCEPT ![u] = NextId(seq[insertobserver[slot[u]]])]
    BY <1>11 DEF ReadSeq
  <2>2. insertobserver[slot[u]] = stmt[u].tab /\ stmt[u].tab \in Tables
    BY <2>1, ObserverIsTab
  <2>3. id'[u] > seq[stmt[u].tab]
    BY <2>1, <2>2, NextIdType
  <2>4. /\ UNCHANGED <<rows, seq, saved, stmt, raced, torn>>
        /\ \A v \in Threads : v # u => /\ pc'[v] = pc[v] /\ dbvalue'[v] = dbvalue[v]
                                       /\ id'[v] = id[v]
    BY <1>11, <2>1 DEF ReadSeq, Goto, file, args
  <2>5. SeqBounds'
    BY <2>4
  <2>6. IdAbove'
    BY <2>3, <2>4
  <2> QED
    BY <2>5, <2>6
<1>27. ASSUME NEW u \in Threads, ReadFreed(u) PROVE SeqInv'
  <2>1. /\ UNCHANGED <<rows, seq, saved, stmt, raced, torn>> /\ torn[u]
        /\ \A v \in Threads : v # u => /\ pc'[v] = pc[v] /\ dbvalue'[v] = dbvalue[v]
                                       /\ id'[v] = id[v]
    BY <1>27 DEF ReadFreed, Goto, file, args
  <2>2. SeqBounds'
    BY <2>1
  <2>3. IdAbove'
    BY <2>1
  <2> QED
    BY <2>2, <2>3
<1>28. ASSUME NEW u \in Threads, NextSlot(u) PROVE SeqInv'
  BY <1>28 DEF NextSlot, Goto, file, args
<1>29. ASSUME NEW u \in Threads, OtherName(u) PROVE SeqInv'
  BY <1>29 DEF OtherName, Goto, file, args, locals
<1>30. ASSUME NEW u \in Threads, SkipFreed(u) PROVE SeqInv'
  <2>1. /\ ~dbvalue[u] /\ UNCHANGED <<rows, seq, saved, dbvalue, stmt, raced, id>>
        /\ \A v \in Threads : v # u => pc'[v] = pc[v] /\ torn'[v] = torn[v]
    BY <1>30 DEF SkipFreed, Goto, LockInv, IdIsOwned, Inside, Looking, file, args
  <2> QED
    BY <2>1
<1>31. ASSUME NEW u \in Threads, Call(u) PROVE SeqInv'
  BY <1>31 DEF Call, Goto, file, args, locals
<1>12. ASSUME NEW u \in Threads, ReadSeqFails(u) PROVE SeqInv'
  <2>1. ~dbvalue[u] /\ pc' = [pc EXCEPT ![u] = "prepare"]
    BY <1>12 DEF ReadSeqFails, Named, Goto, LockInv, IdIsOwned, Inside, Looking
  <2>2. UNCHANGED <<rows, seq, saved, dbvalue, stmt, raced, torn, id>>
    BY <1>12 DEF ReadSeqFails, file, args, locals
  <2> QED
    BY <2>1, <2>2
<1>13. ASSUME NEW u \in Threads, Prepare(u) PROVE SeqInv'
  <2>1. SeqBounds'
    BY <1>13, PrepareStep
  <2>2. ASSUME NEW v \in Threads, HasId(v, stmt[v].tab)', ~raced'[v], ~torn'[v]
        PROVE  id'[v] > seq'[stmt'[v].tab]
    <3>1. /\ UNCHANGED <<seq, stmt, raced, torn>> /\ id'[v] = id[v]
          /\ dbvalue[v] /\ pc[v] \in {"prepare", "step"}
      BY ONLY <1>13, <2>2, DbTypeOK, PrepareStep DEF HasId
    <3> QED
      BY ONLY <2>2, <3>1, SeqInv DEF SeqInv, IdAbove, HasId
  <2> QED
    BY <2>1, <2>2
<1>14. CASE Dies
  BY <1>14 DEF Dies, shared, file, args, locals
<1>15. ASSUME NEW u \in Threads, StepInsert(u) PROVE SeqInv'
  <2> DEFINE t == stmt[u].tab
             r == RowId(u)
  <2>1. t \in Tables /\ r \in Nat
    BY StmtType
  <2>2. /\ pc[u] = "step" /\ pc' = [pc EXCEPT ![u] = "end"]
        /\ rows' = [rows EXCEPT ![t] = rows[t] \cup {r}]
        /\ seq' = [seq EXCEPT ![t] = IF r > seq[t] THEN r ELSE seq[t]]
        /\ UNCHANGED <<saved, stmt, dbvalue, torn, id>>
        /\ raced' = [v \in Threads |-> raced[v] \/ (v # u /\ ~haslock[u] /\ HasId(v, t))]
    BY <1>15, <2>1 DEF StepInsert, Goto, args
  <2>3. ASSUME NEW v \in Threads, v # u, HasId(v, t), haslock[u] PROVE FALSE
    <3>1. mutex = "live" /\ owner = v
      BY <2>3 DEF LockInv, IdIsOwned
    <3>2. Holds(u)
      BY <2>2, <2>3 DEF Holds, Inside
    <3> QED
      BY <2>3, <3>1, <3>2 DEF LockInv, LiveExcludes
  <2> HIDE DEF r
  <2>4. SeqBounds'
    <3>1. /\ \A s \in Tables : seq[s] \in Nat /\ rows[s] \subseteq Nat
          /\ \A s \in Tables : s # t => seq'[s] = seq[s] /\ rows'[s] = rows[s]
          /\ rows'[t] = rows[t] \cup {r} /\ seq'[t] = IF r > seq[t] THEN r ELSE seq[t]
      BY <2>1, <2>2
    <3>2. \A x \in rows[t] : x <= seq[t]
      BY <2>1
    <3>3. \A x \in rows'[t] : x <= seq'[t]
      BY ONLY <2>1, <3>1, <3>2
    <3>4. \A s \in Tables : \A x \in rows'[s] : x <= seq'[s]
      BY <3>1, <3>3
    <3> QED
      BY <2>2, <3>4
  <2>5. IdAbove'
    <3> SUFFICES ASSUME NEW v \in Threads, HasId(v, stmt[v].tab)', ~raced'[v], ~torn'[v]
                 PROVE  id'[v] > seq'[stmt'[v].tab]
      BY DEF IdAbove
    <3>1. v # u /\ HasId(v, stmt[v].tab) /\ ~raced[v] /\ ~torn[v] /\ id[v] > seq[stmt[v].tab]
      BY <2>2
    <3>2. stmt[v].tab # t
      BY <2>2, <2>3, <3>1
    <3> QED
      BY <2>1, <2>2, <3>1, <3>2
  <2> QED
    BY <2>4, <2>5
<1>16. ASSUME NEW u \in Threads, StepConstraint(u) PROVE SeqInv'
  BY <1>16 DEF StepConstraint, Goto, shared, file, args, locals
<1>17. ASSUME NEW u \in Threads, StepDelete(u) PROVE SeqInv'
  <2>1. /\ \A t \in Tables : rows'[t] \subseteq rows[t]
        /\ pc' = [pc EXCEPT ![u] = "end"]
        /\ UNCHANGED <<seq, saved, stmt, dbvalue, id, raced, torn>>
    BY <1>17 DEF StepDelete, Goto, args, locals
  <2>2. SeqBounds'
    BY <2>1
  <2>3. IdAbove'
    BY <2>1
  <2> QED
    BY <2>2, <2>3
<1>18. ASSUME NEW u \in Threads, StepUpdate(u) PROVE SeqInv'
  BY <1>18 DEF StepUpdate, Goto, shared, file, args, locals
<1>19. ASSUME NEW u \in Threads, StepBusy(u) PROVE SeqInv'
  BY <1>19 DEF StepBusy, NotStored, Goto, shared, file, args, locals
<1>20. ASSUME NEW u \in Threads, StepError(u) PROVE SeqInv'
  BY <1>20 DEF StepError, Goto, shared, file, args, locals
<1>21. ASSUME NEW u \in Threads, End(u) PROVE SeqInv'
  BY <1>21 DEF End, Goto, shared, file, args, locals
<1>22. ASSUME NEW u \in Threads, CallbackReturns(u) PROVE SeqInv'
  BY <1>22 DEF CallbackReturns, Goto, shared, file, args, locals
<1>23. ASSUME NEW u \in Threads, CallbackInserts(u) PROVE SeqInv'
  BY <1>23 DEF CallbackInserts, Goto, shared, file, args, locals
<1>24. ASSUME NEW u \in Threads, Returns(u) PROVE SeqInv'
  BY <1>24 DEF Returns, Leave, Forget, MutexUnlock, Goto, shared, file, args, locals
<1>25. ASSUME NEW u \in Threads, Fails(u) PROVE SeqInv'
  BY <1>25 DEF Fails, Leave, Forget, MutexUnlock, Goto, shared, file, args, locals
<1>26. ASSUME NEW u \in Threads, NEW k \in Kinds, NEW s \in Stmts, NEW obs \in BOOLEAN,
             NEW want \in BOOLEAN, sqllite_call(u, k, s, obs, want)
      PROVE  SeqInv'
  <2>1. pc[u] = "idle" /\ ~dbvalue[u]
    BY <1>26 DEF sqllite_call, Calls, Idle, LockInv, IdIsOwned, Inside, Looking
  <2>2. /\ UNCHANGED <<rows, seq, saved, dbvalue, raced, torn, id>>
        /\ \A v \in Threads : v # u => pc'[v] = pc[v] /\ stmt'[v] = stmt[v]
    BY <1>26 DEF sqllite_call, Goto, file, locals
  <2>3. SeqBounds'
    BY <2>2
  <2>4. IdAbove'
    BY <2>1, <2>2
  <2> QED
    BY <2>3, <2>4
<1> HIDE DEF DbTypeOK, SeqInv, SeqBounds, IdAbove, HasId, RowId
<1> QED
  BY <1>f, <1>1, <1>2, <1>3, <1>4, <1>5, <1>6, <1>7, <1>8, <1>9, <1>10, <1>11, <1>12,
     <1>13, <1>14, <1>15, <1>16, <1>17, <1>18, <1>19, <1>20, <1>21, <1>22, <1>23, <1>24,
     <1>25, <1>26, <1>27, <1>28, <1>29, <1>30, <1>31, <1>0
     DEF UseFreed, PrepareFreed, CallReset, DbNext, Register, Transaction, Continue, Step, dbvars, shared, file, args,
         locals, sqlite_reg_callback, sqlite_unreg_allcallback,
         sqlite_reg_insertobserver, sqllite_init

(* What was announced are numbers.                                         *)
LEMMA AnnouncedNat ==
  ASSUME DbTypeOK, NEW t \in Tables, NEW k \in 1..Len(announced[t])
  PROVE  announced[t][k] \in Nat
<1>1. announced[t] \in Seq(Nat)
  BY DEF DbTypeOK
<1> QED
  BY ONLY <1>1, k \in 1..Len(announced[t])

(* Every step keeps what was announced below sqlite_sequence and below the *)
(* id that the owner of the lock is about to use.                          *)
LEMMA AscendingStep ==
  ASSUME OwnTable, DbTypeOK, LockInv, Ascending, [DbNext]_dbvars
  PROVE  Ascending'
<1> USE DbAssumption
    DEF DbAssumption, DbTypeOK, Ascending, InUse, RowId
<1>f. CASE UNCHANGED <<seq, announced, pc, dbvalue, stmt, torn, id>>
  BY <1>f
<1>0. CASE sqlite_unreg_allobserver
  <2>1. /\ UNCHANGED <<seq, announced, pc, dbvalue, stmt, id>>
        /\ \A v \in Threads : ~torn'[v] => ~torn[v]
    BY <1>0 DEF sqlite_unreg_allobserver, file, args
  <2> QED
    BY <2>1
<1>1. CASE sqllite_rollbackTransaction
  BY <1>1 DEF sqllite_rollbackTransaction, shared, file, args, locals
<1>2. ASSUME NEW u \in Threads, sqllite_close(u) PROVE Ascending'
  BY <1>2
     DEF sqllite_close, Calls, Counted, Idle, NobodyCloses, Goto, shared, file, args,
         locals
<1>3. ASSUME NEW u \in Threads, CloseLock(u) PROVE Ascending'
  BY <1>3 DEF CloseLock, MutexLock, Goto, shared, file, args, locals
<1>4. ASSUME NEW u \in Threads, CloseFree(u) PROVE Ascending'
  BY <1>4 DEF CloseFree, Goto, shared, file, args, locals
<1>5. ASSUME NEW u \in Threads, CloseUnlock(u) PROVE Ascending'
  BY <1>5 DEF CloseUnlock, MutexUnlock, Goto, shared, file, args, locals
<1>6. ASSUME NEW u \in Threads, CloseDestroy(u) PROVE Ascending'
  BY <1>6 DEF CloseDestroy, Goto, shared, file, args, locals
<1>7. ASSUME NEW u \in Threads, InsertLock(u) PROVE Ascending'
  BY <1>7 DEF InsertLock, MutexLock, Goto, shared, file, args, locals
<1>8. ASSUME NEW u \in Threads, NotObserved(u) PROVE Ascending'
  <2>1. ~dbvalue[u] /\ pc' = [pc EXCEPT ![u] = "prepare"]
    BY <1>8 DEF NotObserved, Goto, LockInv, IdIsOwned, Inside, Looking
  <2>2. UNCHANGED <<seq, announced, dbvalue, stmt, torn, id>>
    BY <1>8 DEF NotObserved, file, args, locals
  <2> QED
    BY <2>1, <2>2
<1>9. ASSUME NEW u \in Threads, ReadSeq(u) PROVE Ascending'
  <2>1. Named(u) /\ id' = [id EXCEPT ![u] = NextId(seq[insertobserver[slot[u]]])]
    BY <1>9 DEF ReadSeq
  <2>2. insertobserver[slot[u]] = stmt[u].tab /\ stmt[u].tab \in Tables
    BY <2>1, ObserverIsTab
  <2>3. id'[u] \in Nat /\ id'[u] > seq[stmt[u].tab] /\ id'[u] % SERVER_NUM_CYC # 0
    BY <2>1, <2>2, NextIdType
  <2>4. /\ UNCHANGED <<seq, announced, stmt, torn>> /\ pc'[u] = "prepare"
        /\ \A v \in Threads : v # u => /\ pc'[v] = pc[v] /\ dbvalue'[v] = dbvalue[v]
                                       /\ id'[v] = id[v]
    BY <1>9, <2>1 DEF ReadSeq, Goto, file, args
  <2>5. \A k \in 1..Len(announced[stmt[u].tab]) : announced[stmt[u].tab][k] < id'[u]
    <3> TAKE k \in 1..Len(announced[stmt[u].tab])
    <3>1. announced[stmt[u].tab][k] <= seq[stmt[u].tab]
      BY <2>2
    <3>2. announced[stmt[u].tab][k] \in Nat /\ seq[stmt[u].tab] \in Nat
      BY <2>2, AnnouncedNat
    <3> QED
      BY ONLY <2>3, <3>1, <3>2
  <2>6. \A t \in Tables : \A k \in 1..Len(announced'[t]) : announced'[t][k] <= seq'[t]
    BY <2>4
  <2>7. ASSUME NEW v \in Threads, InUse(v)'
        PROVE  /\ id'[v] % SERVER_NUM_CYC # 0
               /\ \A k \in 1..Len(announced'[stmt'[v].tab]) :
                    announced'[stmt'[v].tab][k] < id'[v]
               /\ pc'[v] \in {"end", "call"} => id'[v] <= seq'[stmt'[v].tab]
    <3>1. CASE v = u
      BY <2>3, <2>4, <2>5, <3>1
    <3>2. CASE v # u
      BY <2>4, <2>7, <3>2
    <3> QED
      BY <3>1, <3>2
  <2> QED
    BY <2>6, <2>7
<1>10. ASSUME NEW u \in Threads, ReadSeqFails(u) PROVE Ascending'
  <2>1. ~dbvalue[u] /\ pc' = [pc EXCEPT ![u] = "prepare"]
    BY <1>10 DEF ReadSeqFails, Named, Goto, LockInv, IdIsOwned, Inside, Looking
  <2>2. UNCHANGED <<seq, announced, dbvalue, stmt, torn, id>>
    BY <1>10 DEF ReadSeqFails, file, args, locals
  <2> QED
    BY <2>1, <2>2
<1>11. ASSUME NEW u \in Threads, Prepare(u) PROVE Ascending'
  <2>1. UNCHANGED <<seq, announced, stmt, torn>>
    BY <1>11, PrepareStep
  <2>2. ASSUME NEW v \in Threads, InUse(v)'
        PROVE  InUse(v) /\ id'[v] = id[v] /\ (pc'[v] \in {"end", "call"} => pc[v] \in {"end", "call"})
    BY ONLY <1>11, <2>2, DbTypeOK, PrepareStep DEF InUse
  <2> QED
    BY ONLY <2>1, <2>2, Ascending DEF Ascending
<1>12. CASE Dies
  BY <1>12 DEF Dies, shared, file, args, locals
<1>13. ASSUME NEW u \in Threads, StepInsert(u) PROVE Ascending'
  <2> DEFINE t == stmt[u].tab
             r == RowId(u)
  <2>1. t \in Tables /\ r \in Nat /\ (dbvalue[u] => r = id[u])
    BY StmtType DEF RowId
  <2>2. /\ pc[u] = "step" /\ pc' = [pc EXCEPT ![u] = "end"]
        /\ seq' = [seq EXCEPT ![t] = IF r > seq[t] THEN r ELSE seq[t]]
        /\ UNCHANGED <<announced, stmt, dbvalue, torn, id>>
    BY <1>13, <2>1 DEF StepInsert, Goto, args
  <2> HIDE DEF r
  <2>3. /\ \A s \in Tables : seq[s] \in Nat /\ seq'[s] \in Nat /\ seq[s] <= seq'[s]
        /\ r <= seq'[t]
    BY <2>1, <2>2
  <2>4. \A s \in Tables : \A k \in 1..Len(announced[s]) : announced'[s][k] <= seq'[s]
    <3> TAKE s \in Tables
    <3> TAKE k \in 1..Len(announced[s])
    <3>1. announced[s][k] <= seq[s] /\ announced[s][k] \in Nat
      BY AnnouncedNat
    <3>2. seq[s] \in Nat /\ seq'[s] \in Nat /\ seq[s] <= seq'[s] /\ announced' = announced
      BY <2>2, <2>3
    <3> QED
      BY ONLY <3>1, <3>2
  <2>5. ASSUME NEW v \in Threads, InUse(v)'
        PROVE  /\ InUse(v) /\ id'[v] = id[v] /\ stmt'[v] = stmt[v] /\ stmt[v].tab \in Tables
               /\ id[v] \in Nat
               /\ pc'[v] \in {"end", "call"} => pc[v] \in {"end", "call"} \/ v = u
    BY <2>2, <2>5
  <2>6. ASSUME NEW v \in Threads, InUse(v)', pc'[v] \in {"end", "call"}
        PROVE  id'[v] <= seq'[stmt'[v].tab]
    <3>1. CASE v = u
      BY <2>1, <2>2, <2>3, <2>6, <3>1
    <3>2. CASE pc[v] \in {"end", "call"}
      <4>1. id[v] <= seq[stmt[v].tab]
        BY <2>5, <2>6, <3>2
      <4> QED
        <5>1. /\ id'[v] = id[v] /\ stmt'[v] = stmt[v] /\ id[v] \in Nat
              /\ stmt[v].tab \in Tables
          BY <2>5, <2>6
        <5> QED
          BY ONLY <2>3, <4>1, <5>1
    <3> QED
      BY <2>5, <2>6, <3>1, <3>2
  <2> QED
    BY <2>2, <2>4, <2>5, <2>6
<1>14. ASSUME NEW u \in Threads, StepConstraint(u) PROVE Ascending'
  BY <1>14 DEF StepConstraint, Goto, shared, file, args, locals
<1>15. ASSUME NEW u \in Threads, StepDelete(u) PROVE Ascending'
  <2>1. ~dbvalue[u] /\ pc' = [pc EXCEPT ![u] = "end"]
    BY <1>15 DEF StepDelete, Goto, LockInv, IdIsOwned
  <2>2. UNCHANGED <<seq, announced, dbvalue, stmt, torn, id>>
    BY <1>15 DEF StepDelete, file, args, locals
  <2> QED
    BY <2>1, <2>2
<1>16. ASSUME NEW u \in Threads, StepUpdate(u) PROVE Ascending'
  <2>1. ~dbvalue[u] /\ pc' = [pc EXCEPT ![u] = "end"]
    BY <1>16 DEF StepUpdate, Goto, LockInv, IdIsOwned
  <2>2. UNCHANGED <<seq, announced, dbvalue, stmt, torn, id>>
    BY <1>16 DEF StepUpdate, file, args, locals
  <2> QED
    BY <2>1, <2>2
<1>17. ASSUME NEW u \in Threads, StepBusy(u) PROVE Ascending'
  BY <1>17 DEF StepBusy, NotStored, Goto, shared, file, args, locals
<1>18. ASSUME NEW u \in Threads, StepError(u) PROVE Ascending'
  BY <1>18 DEF StepError, Goto, shared, file, args, locals
<1>19. ASSUME NEW u \in Threads, End(u) PROVE Ascending'
  BY <1>19 DEF End, Goto, file, args, locals
<1>25. ASSUME NEW u \in Threads, NextSlot(u) PROVE Ascending'
  BY <1>25 DEF NextSlot, Goto, file, args
<1>26. ASSUME NEW u \in Threads, OtherName(u) PROVE Ascending'
  BY <1>26 DEF OtherName, Goto, file, args, locals
<1>27. ASSUME NEW u \in Threads, SkipFreed(u) PROVE Ascending'
  <2>1. /\ ~dbvalue[u] /\ UNCHANGED <<seq, announced, dbvalue, stmt, id>>
        /\ \A v \in Threads : v # u => pc'[v] = pc[v] /\ torn'[v] = torn[v]
    BY <1>27 DEF SkipFreed, Goto, LockInv, IdIsOwned, Inside, Looking, file, args
  <2> QED
    BY <2>1
<1>29. ASSUME NEW u \in Threads, ReadFreed(u) PROVE Ascending'
  <2>1. /\ torn[u] /\ UNCHANGED <<seq, announced, stmt, torn>>
        /\ \A v \in Threads : v # u => /\ pc'[v] = pc[v] /\ dbvalue'[v] = dbvalue[v]
                                       /\ id'[v] = id[v]
    BY <1>29 DEF ReadFreed, Goto, file, args
  <2>2. ASSUME NEW v \in Threads, InUse(v)'
        PROVE  InUse(v) /\ id'[v] = id[v] /\ pc'[v] = pc[v]
    BY ONLY <2>1, <2>2 DEF InUse
  <2> QED
    BY ONLY <2>1, <2>2, Ascending DEF Ascending
<1>28. ASSUME NEW u \in Threads, Call(u) PROVE Ascending'
  <2>1. CASE announced' = announced
    BY <1>28, <2>1 DEF Call, Goto, file, args, locals
  <2>2. CASE announced' # announced
    <3> DEFINE t == stmt[u].tab
    <3>1. /\ t \in Tables /\ InUse(u) /\ id[u] \in Nat /\ id[u] <= seq[t]
          /\ announced' = [announced EXCEPT ![t] = Append(announced[t], id[u])]
          /\ pc'[u] = "callback"
      BY <1>28, <2>2 DEF Call, Goto
    <3>2. /\ UNCHANGED <<seq, dbvalue, stmt, torn, id>>
          /\ \A v \in Threads : v # u => pc'[v] = pc[v]
      BY <1>28 DEF Call, Goto, file, args, locals
    <3>3. /\ announced'[t] = Append(announced[t], id[u]) /\ announced[t] \in Seq(Nat)
          /\ \A s \in Tables : s # t => announced'[s] = announced[s]
      BY <3>1
    <3>4. \A k \in 1..Len(announced'[t]) : announced'[t][k] <= seq[t]
      <4> TAKE k \in 1..Len(announced'[t])
      <4>1. \A j \in 1..Len(announced[t]) : announced[t][j] <= seq[t]
        BY <3>1
      <4>2. id[u] <= seq[t] /\ id[u] \in Nat
        BY <3>1
      <4> HIDE DEF t
      <4> QED
        BY ONLY <3>3, <4>1, <4>2, k \in 1..Len(announced'[t])
    <3>5. ASSUME NEW v \in Threads, InUse(v)' PROVE v # u /\ InUse(v) /\ stmt[v].tab # t
      <4>1. v # u /\ InUse(v)
        BY <3>1, <3>2, <3>5
      <4>2. owner = u /\ owner = v
        BY <3>1, <4>1 DEF LockInv, IdIsOwned
      <4> QED
        BY <4>1, <4>2
    <3>6. \A s \in Tables : \A k \in 1..Len(announced'[s]) : announced'[s][k] <= seq'[s]
      BY <3>2, <3>3, <3>4
    <3>7. ASSUME NEW v \in Threads, InUse(v)'
          PROVE  /\ id'[v] % SERVER_NUM_CYC # 0
                 /\ \A k \in 1..Len(announced'[stmt'[v].tab]) : announced'[stmt'[v].tab][k] < id'[v]
                 /\ pc'[v] \in {"end", "call"} => id'[v] <= seq'[stmt'[v].tab]
      <4>1. /\ InUse(v) /\ id'[v] = id[v] /\ stmt'[v] = stmt[v] /\ pc'[v] = pc[v]
            /\ stmt[v].tab \in Tables /\ stmt[v].tab # t
        BY <3>2, <3>5, <3>7
      <4>2. announced'[stmt'[v].tab] = announced[stmt[v].tab]
        BY <3>3, <4>1
      <4> QED
        BY <3>2, <4>1, <4>2
    <3> QED
      BY <3>6, <3>7
  <2> QED
    BY <2>1, <2>2
<1>20. ASSUME NEW u \in Threads, CallbackReturns(u) PROVE Ascending'
  BY <1>20 DEF CallbackReturns, Goto, shared, file, args, locals
<1>21. ASSUME NEW u \in Threads, CallbackInserts(u) PROVE Ascending'
  BY <1>21 DEF CallbackInserts, Goto, shared, file, args, locals
<1>22. ASSUME NEW u \in Threads, Returns(u) PROVE Ascending'
  BY <1>22 DEF Returns, Leave, Forget, MutexUnlock, Goto, shared, file, args, locals
<1>23. ASSUME NEW u \in Threads, Fails(u) PROVE Ascending'
  BY <1>23 DEF Fails, Leave, Forget, MutexUnlock, Goto, shared, file, args, locals
<1>24. ASSUME NEW u \in Threads, NEW k \in Kinds, NEW s \in Stmts, NEW obs \in BOOLEAN,
             NEW want \in BOOLEAN, sqllite_call(u, k, s, obs, want)
      PROVE  Ascending'
  <2>1. pc[u] = "idle" /\ ~dbvalue[u]
    BY <1>24 DEF sqllite_call, Calls, Idle, LockInv, IdIsOwned, Inside, Looking
  <2>2. /\ UNCHANGED <<seq, announced, dbvalue, torn, id>>
        /\ \A v \in Threads : v # u => pc'[v] = pc[v] /\ stmt'[v] = stmt[v]
    BY <1>24 DEF sqllite_call, Goto, file, locals
  <2> QED
    BY <2>1, <2>2
<1> HIDE DEF DbTypeOK, Ascending, InUse, RowId
<1> QED
  BY <1>f, <1>1, <1>2, <1>3, <1>4, <1>5, <1>6, <1>7, <1>8, <1>9, <1>10, <1>11, <1>12,
     <1>13, <1>14, <1>15, <1>16, <1>17, <1>18, <1>19, <1>20, <1>21, <1>22, <1>23, <1>24,
     <1>25, <1>26, <1>27, <1>28, <1>29, <1>0
     DEF UseFreed, PrepareFreed, CallReset, DbNext, Register, Transaction, Continue, Step, dbvars, shared, file, args,
         locals, sqlite_reg_callback, sqlite_unreg_allcallback,
         sqlite_reg_insertobserver, sqllite_init,
         sqllite_beginTransaction, sqllite_commitTransaction

-----------------------------------------------------------------------------
(* All of it holds before the database is opened.                          *)
LEMMA DbInitially ==
  ASSUME DbInit
  PROVE  DbTypeOK /\ LockInv /\ StoredInv /\ SeqInv /\ Ascending
<1>1. DbTypeOK
  <2>1. NoStmt \in Stmts
    BY DbAssumption DEF DbAssumption, NoStmt
  <2> QED
    BY <2>1, DbAssumption DEF DbAssumption, DbInit, DbTypeOK, PCs
<1>2. LockInv
  BY DbAssumption DEF DbAssumption, DbInit, LockInv, LiveExcludes, OpenIsLive, OneCloser,
     FreedByCloser, AllDie, IdIsOwned, LocksForInsert, Holds, Inside, Looking, Closers
<1>3. StoredInv
  BY DEF DbInit, StoredInv, NoIdYet, IdIsOfStoredRow
<1>4. SeqInv
  BY DEF DbInit, SeqInv, SeqBounds, IdAbove, HasId
<1>5. Ascending
  BY DEF DbInit, Ascending, InUse
<1> QED
  BY <1>1, <1>2, <1>3, <1>4, <1>5

(* The types, and what is said of addseqlock, hold for any statements.     *)
LEMMA LockAlways == DbSpec => [](DbTypeOK /\ LockInv)
<1>1. DbInit => DbTypeOK /\ LockInv
  BY DbInitially
<1>2. DbTypeOK /\ LockInv /\ [DbNext]_dbvars => (DbTypeOK /\ LockInv)'
  BY DbTypeStep, LockStep
<1> QED
  BY <1>1, <1>2, PTL DEF DbSpec

(* DbTypeOK holds in every state: whatever the threads call and SQLite     *)
(* answers, no call leaves the layer with an observer past the last slot   *)
(* or an id that is not a number.                                          *)
THEOREM DbTypeCorrect == DbSpec => []DbTypeOK
BY LockAlways, PTL

(* A connection that is freed was freed by a closer that has the lock, so  *)
(* no insert that has the lock is about to use it.                         *)
LEMMA FreedOutsideLock ==
  ASSUME DbTypeOK, LockInv
  PROVE  LockedNeverFreed
<1> SUFFICES ASSUME NEW u \in Threads, pc[u] \in {"observe", "name", "prepare"}, haslock[u],
                    db = "freed"
             PROVE  FALSE
  BY DEF LockedNeverFreed
<1>1. PICK v \in Threads : pc[v] \in {"unlocking", "dead"}
  BY DEF LockInv, FreedByCloser
<1>2. pc[v] = "unlocking"
  BY <1>1 DEF LockInv, AllDie
<1>3. mutex = "live" /\ owner = u /\ owner = v
  BY <1>2 DEF LockInv, OpenIsLive, LiveExcludes, Holds, Inside
<1> QED
  BY <1>2, <1>3

(* LockedNeverFreed: sqllite_insert, between the locking of                *)
(* addseqlock and the use of db, never finds the connection that           *)
(* sqllite_close has freed and not yet set to NULL.                        *)
THEOREM DbLockedNeverFreed == DbSpec => []LockedNeverFreed
BY LockAlways, FreedOutsideLock, PTL

(* IdIsOfStoredRow: if every insert has a VALUES list, what sqllite_insert *)
(* returns through newid or tells the callback is the id of the row it     *)
(* stored, or 0.                                                           *)
THEOREM DbIdIsOfStoredRow ==
  ASSUME WithValues
  PROVE  DbSpec => []IdIsOfStoredRow
<1>1. DbInit => StoredInv
  BY DbInitially
<1>2. DbTypeOK /\ LockInv /\ StoredInv /\ [DbNext]_dbvars => StoredInv'
  BY StoredStep
<1>3. StoredInv => IdIsOfStoredRow
  BY DEF StoredInv
<1> QED
  BY <1>1, <1>2, <1>3, LockAlways, PTL DEF DbSpec

(* OnlyUnlockedCollide: if a statement mentions no observer but that of    *)
(* its own table, an id that sqllite_insert has read from sqlite_sequence  *)
(* is free when it is used, or an insert that took no lock came in         *)
(* between, or the observer was freed while the call looked at it.         *)
THEOREM DbOnlyUnlockedCollide ==
  ASSUME OwnTable
  PROVE  DbSpec => []OnlyUnlockedCollide
<1>1. DbInit => SeqInv
  BY DbInitially
<1>2. DbTypeOK /\ LockInv /\ SeqInv /\ [DbNext]_dbvars => SeqInv'
  BY SeqStep
<1>3. DbTypeOK /\ SeqInv => OnlyUnlockedCollide
  <2> SUFFICES ASSUME DbTypeOK, SeqInv, NEW u \in Threads, HasId(u, stmt[u].tab),
                      id[u] \in rows[stmt[u].tab], ~raced[u], ~torn[u]
               PROVE  FALSE
    BY DEF OnlyUnlockedCollide
  <2>1. stmt[u].tab \in Tables
    BY DbAssumption DEF DbAssumption, DbTypeOK
  <2>2. id[u] > seq[stmt[u].tab] /\ id[u] <= seq[stmt[u].tab]
    BY <2>1 DEF SeqInv, SeqBounds, IdAbove
  <2>3. id[u] \in Nat /\ seq[stmt[u].tab] \in Nat
    BY <2>1 DEF DbTypeOK
  <2> QED
    BY ONLY <2>2, <2>3
<1> QED
  BY <1>1, <1>2, <1>3, LockAlways, PTL DEF DbSpec

(* A step that tells the listener something is the Call of a callback by a *)
(* call that has an id, and it adds that id.                               *)
LEMMA OnlyCallAnnounces ==
  ASSUME DbTypeOK, [DbNext]_dbvars, announced' # announced
  PROVE  \E u \in Threads :
           /\ InUse(u) /\ announced' = [announced EXCEPT ![stmt[u].tab] = Append(@, id[u])]
<1>1. ~(sqllite_init \/ Register \/ Transaction \/ UNCHANGED dbvars)
  BY DEF dbvars, Register, Transaction, sqllite_init, sqlite_reg_callback,
     sqlite_unreg_allcallback, sqlite_reg_insertobserver, sqlite_unreg_allobserver,
     sqllite_beginTransaction, sqllite_commitTransaction, sqllite_rollbackTransaction
<1>2. ASSUME NEW u \in Threads, sqllite_close(u) \/ Continue(u), ~Call(u) PROVE FALSE
  BY <1>2
     DEF Continue, Step, sqllite_close, CloseLock, CloseFree, CloseUnlock, CloseDestroy,
         InsertLock, NotObserved, ReadSeq, ReadSeqFails, Prepare, PrepareFreed, Dies,
         NextSlot, OtherName, ReadFreed, SkipFreed, UseFreed, End, CallReset, StepInsert,
         StepConstraint, StepDelete, StepUpdate, StepBusy, StepError, CallbackReturns,
         CallbackInserts, Returns, Fails, Leave, Forget
<1>3. ASSUME NEW u, NEW k, NEW s, NEW obs, NEW want, sqllite_call(u, k, s, obs, want)
      PROVE  FALSE
  BY <1>3 DEF sqllite_call
<1>4. PICK u \in Threads : Call(u)
  BY <1>1, <1>2, <1>3 DEF DbNext
<1> QED
  BY <1>4 DEF Call, InUse

(* What a listener is told is one more id, above all it was told before.   *)
LEMMA AnnounceStep ==
  ASSUME DbTypeOK, LockInv, Ascending, [DbNext]_dbvars
  PROVE  [Journal!JournalNext]_announced
<1> SUFFICES ASSUME announced' # announced
             PROVE  Journal!JournalNext
  OBVIOUS
<1>1. PICK u \in Threads :
        InUse(u) /\ announced' = [announced EXCEPT ![stmt[u].tab] = Append(@, id[u])]
  BY OnlyCallAnnounces
<1> DEFINE t == stmt[u].tab
<1>2. t \in Tables /\ announced[t] \in Seq(Nat) /\ id[u] \in Nat
  <2>1. t \in Tables
    BY StmtType
  <2> QED
    BY <2>1 DEF DbTypeOK
<1>3. /\ id[u] % SERVER_NUM_CYC # 0
      /\ \A k \in 1..Len(announced[t]) : announced[t][k] < id[u]
  BY <1>1 DEF Ascending
<1>4. /\ announced'[t] = Append(announced[t], id[u])
      /\ announced' = [announced EXCEPT ![t] = Append(announced[t], id[u])]
  BY <1>1, <1>2 DEF DbTypeOK
<1> HIDE DEF t
<1>5. announced'[t] # <<>> /\ announced'[t][Len(announced'[t])] = id[u]
  BY ONLY <1>2, <1>4
<1>6. Journal!Announce(t)
  BY <1>3, <1>4, <1>5 DEF Journal!Announce
<1> QED
  BY <1>2, <1>6 DEF Journal!JournalNext

(* AnnouncesJournal: for such statements the layer implements IdJournal:   *)
(* each table's listener is told ids that grow, none of them a multiple of *)
(* SERVER_NUM_CYC, whoever inserts beside it and whatever fails.           *)
THEOREM DbAnnouncesJournal ==
  ASSUME OwnTable
  PROVE  DbSpec => AnnouncesJournal
<1>1. DbInit => Ascending
  BY DbInitially
<1>2. DbTypeOK /\ LockInv /\ Ascending /\ [DbNext]_dbvars => Ascending'
  BY AscendingStep
<1>3. DbInit => Journal!JournalInit
  BY DEF DbInit, Journal!JournalInit
<1>4. DbTypeOK /\ LockInv /\ Ascending /\ [DbNext]_dbvars => [Journal!JournalNext]_announced
  BY AnnounceStep
<1> QED
  BY <1>1, <1>2, <1>3, <1>4, LockAlways, PTL DEF DbSpec, AnnouncesJournal, Journal!JournalSpec

=============================================================================
