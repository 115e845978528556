------------------------------ MODULE DbSqlite ------------------------------
(***************************************************************************)
(* The database layer (db_sqlite.cpp) with several threads.  One SQLite    *)
(* connection, db, is shared.  sqllite_insert picks the ids of tables that *)
(* have an observer: it reads sqlite_sequence, adds one (two, to skip a    *)
(* multiple of SERVER_NUM_CYC), and rewrites the statement.  addseqlock is *)
(* to keep the read, the insert and the callback together, but a call      *)
(* takes it only if it has an insert callback to call or a newid to        *)
(* return; delete, update and the transactions never take it.              *)
(*                                                                         *)
(* SQLite itself is external: serialised calls, AUTOINCREMENT ids.  Its    *)
(* failures are chosen from Faults.  The flags isinsert, isupdate,         *)
(* isdelete, isquery and dbwillclose are written and never read, as are    *)
(* deleteobserver and updateobserver: they are left out.                   *)
(***************************************************************************)
EXTENDS Naturals, Sequences

CONSTANTS
  Threads, Tables, NoThread,
  SERVER_NUM_CYC,
  MAX_DB_OBSERVER_NUM,
  Stmts,         \* the insert statements: the table, the observers whose name
                 \* is found in the text, and whether it has a VALUES ( list
  Kinds,         \* the calls the program makes: insert, delete, update
  Faults,        \* what SQLite may answer: subset of FaultKinds
  MaxCalls       \* bound on the calls of all threads together

FaultKinds == {"query", "prepare", "busy", "error"}

ASSUME DbAssumption ==
  /\ NoThread \notin Threads
  /\ SERVER_NUM_CYC \in Nat \ {0, 1} /\ MAX_DB_OBSERVER_NUM \in Nat /\ MaxCalls \in Nat
  /\ Stmts \subseteq [tab : Tables, names : SUBSET Tables, values : BOOLEAN]
  /\ Stmts # {} /\ "insert" \in Kinds /\ Kinds \subseteq {"insert", "delete", "update"}
  /\ Faults \subseteq FaultKinds

VARIABLES
  db,              \* the connection: "open", "freed" (between sqlite3_close and
                   \* the assignment of NULL) or "null"
  owner,           \* who holds addseqlock
  mutex,           \* is addseqlock "live" or "destroyed"
  insertobserver,  \* the observers, in the order of their slots
  callbacks,       \* which of the three callbacks are registered
  rows, seq,       \* the file: ids in each table, and sqlite_sequence
  saved,           \* rows and seq at the begin of the open transaction
  pc, op, stmt, observer, haslock,           \* each thread's call
  slot, id, dbvalue, put,                    \* its locals, and the row it stored
  torn,            \* an observer it looks at, or looked at, was freed meanwhile
  raced,           \* history: an insert without the lock came in between
  announced,       \* history: the ids given to insertcallback, by calls that
                   \* are not torn
  calls            \* calls made so far

file == <<rows, seq, saved>>
shared == <<db, owner, mutex, insertobserver, callbacks>>
args == <<op, stmt, observer, haslock>>
locals == <<slot, id, dbvalue, put, torn>>
dbvars == <<shared, file, pc, args, locals, raced, announced, calls>>

PCs == {"idle", "lock", "observe", "name", "prepare", "step", "end", "call", "callback",
        "nested", "return", "fail", "close", "closing", "unlocking", "destroy", "dead"}
NoTxn == <<>>
NoStmt == CHOOSE s \in Stmts : TRUE

DbInit ==
  /\ db = "null" /\ owner = NoThread /\ mutex = "live"
  /\ insertobserver = <<>> /\ callbacks = {}
  /\ rows = [t \in Tables |-> {}] /\ seq = [t \in Tables |-> 0] /\ saved = NoTxn
  /\ pc = [u \in Threads |-> "idle"] /\ op = [u \in Threads |-> "insert"]
  /\ stmt = [u \in Threads |-> NoStmt]
  /\ observer = [u \in Threads |-> FALSE] /\ haslock = [u \in Threads |-> FALSE]
  /\ slot = [u \in Threads |-> 0] /\ torn = [u \in Threads |-> FALSE]
  /\ id = [u \in Threads |-> 0] /\ dbvalue = [u \in Threads |-> FALSE]
  /\ put = [u \in Threads |-> 0] /\ raced = [u \in Threads |-> FALSE]
  /\ announced = [t \in Tables |-> <<>>] /\ calls = 0

Goto(u, p) == pc' = [pc EXCEPT ![u] = p]

-----------------------------------------------------------------------------
(* Opening, registering, transactions: calls that take no lock and are one *)
(* step.  The rules of the users, which no code of the layer tests: in a   *)
(* program that opens the database again nobody is inside the layer        *)
(* meanwhile; only one thread closes it, while it is open and with no      *)
(* transaction open or begun; a transaction is rolled back only if it      *)
(* inserted nothing.                                                       *)

Idle(u) == pc[u] = "idle"
Counted == calls < MaxCalls /\ calls' = calls + 1
Calls(u) == Idle(u) /\ Counted

(* sqlite3_open may fail; addseqlock is initialised all the same.          *)
sqllite_init ==
  /\ db = "null" /\ \A u \in Threads : Idle(u)
  /\ db' \in IF "error" \in Faults THEN {"open", "null"} ELSE {"open"}
  /\ mutex' = "live" /\ owner' = NoThread
  /\ UNCHANGED <<insertobserver, callbacks, file, pc, args, locals, raced, announced, calls>>

(* A callback that is registered is not replaced.                          *)
sqlite_reg_callback(k) ==
  /\ k \notin callbacks /\ callbacks' = callbacks \cup {k}
  /\ UNCHANGED <<db, owner, mutex, insertobserver, file, pc, args, locals, raced,
                 announced, calls>>

sqlite_unreg_allcallback ==
  /\ Counted /\ callbacks' = {}
  /\ UNCHANGED <<db, owner, mutex, insertobserver, file, pc, args, locals, raced, announced>>

(* Mutant: one slot too many.                                              *)
sqlite_reg_insertobserverPast(t) ==
  /\ Len(insertobserver) <= MAX_DB_OBSERVER_NUM
  /\ insertobserver' = Append(insertobserver, t)
  /\ UNCHANGED <<db, owner, mutex, callbacks, file, pc, args, locals, raced,
                 announced, calls>>

(* The first free slot; a table may take several.                          *)
sqlite_reg_insertobserver(t) ==
  /\ Len(insertobserver) < MAX_DB_OBSERVER_NUM
  /\ insertobserver' = Append(insertobserver, t)
  /\ UNCHANGED <<db, owner, mutex, callbacks, file, pc, args, locals, raced,
                 announced, calls>>

(* A thread that has tested a slot and not done with its name has a        *)
(* pointer that is freed, or NULL.                                         *)
sqlite_unreg_allobserver ==
  /\ Counted /\ insertobserver' = <<>>
  /\ torn' = [u \in Threads |-> torn[u] \/ pc[u] = "name"]
  /\ UNCHANGED <<db, owner, mutex, callbacks, file, pc, args, slot, id, dbvalue, put,
                 raced, announced>>

NobodyCloses ==
  \A u \in Threads : pc[u] \notin {"close", "closing", "unlocking", "destroy"}

sqllite_beginTransaction ==
  /\ Counted /\ db = "open" /\ saved = NoTxn /\ NobodyCloses
  /\ saved' = <<rows, seq>>
  /\ UNCHANGED <<shared, rows, seq, pc, args, locals, raced, announced>>

sqllite_commitTransaction ==
  /\ db = "open" /\ saved # NoTxn
  /\ saved' = NoTxn
  /\ UNCHANGED <<shared, rows, seq, pc, args, locals, raced, announced, calls>>

sqllite_rollbackTransaction ==
  /\ db = "open" /\ saved # NoTxn /\ saved[2] = seq
  /\ rows' = saved[1] /\ seq' = saved[2] /\ saved' = NoTxn
  /\ UNCHANGED <<shared, pc, args, locals, raced, announced, calls>>

-----------------------------------------------------------------------------
(* addseqlock                                                              *)

(* A destroyed mutex lets everyone pass (pthread_mutex_lock returns        *)
(* EINVAL, which nobody looks at).                                         *)
MutexLock(u) ==
  IF mutex = "live" THEN owner = NoThread /\ owner' = u ELSE UNCHANGED owner

(* The mutex does not know its owner.                                      *)
MutexUnlock == owner' = IF mutex = "live" THEN NoThread ELSE owner

-----------------------------------------------------------------------------
(* sqllite_close                                                           *)

sqllite_close(u) ==
  /\ Calls(u) /\ db = "open" /\ saved = NoTxn /\ NobodyCloses
  /\ Goto(u, "close")
  /\ UNCHANGED <<shared, file, args, locals, raced, announced>>

(* Mutant: sqllite_close does not wait for addseqlock.                     *)
CloseNoLock(u) ==
  /\ pc[u] = "close" /\ Goto(u, "closing")
  /\ UNCHANGED <<shared, file, args, locals, raced, announced, calls>>

CloseLock(u) ==
  /\ pc[u] = "close" /\ MutexLock(u) /\ Goto(u, "closing")
  /\ UNCHANGED <<db, mutex, insertobserver, callbacks, file, args, locals, raced,
                 announced, calls>>

(* sqlite3_close frees the connection, db still points to it; it refuses   *)
(* while a statement is prepared, which nobody looks at.                   *)
CloseFree(u) ==
  /\ pc[u] = "closing" /\ Goto(u, "unlocking")
  /\ db' = IF \E v \in Threads : pc[v] = "step" THEN db ELSE "freed"
  /\ UNCHANGED <<owner, mutex, insertobserver, callbacks, file, args, locals, raced,
                 announced, calls>>

CloseUnlock(u) ==
  /\ pc[u] = "unlocking" /\ db' = "null" /\ MutexUnlock /\ Goto(u, "destroy")
  /\ UNCHANGED <<mutex, insertobserver, callbacks, file, args, locals, raced,
                 announced, calls>>

(* pthread_mutex_destroy refuses a mutex that is held.                     *)
CloseDestroy(u) ==
  /\ pc[u] = "destroy" /\ Goto(u, "idle")
  /\ mutex' = IF owner = NoThread THEN "destroyed" ELSE mutex
  /\ UNCHANGED <<db, owner, insertobserver, callbacks, file, args, locals, raced,
                 announced, calls>>

-----------------------------------------------------------------------------
(* sqllite_insert, and sqllite_delete and sqllite_update, which go the     *)
(* same way without the lock.                                              *)

(* The call, up to the test that decides haslock.                          *)
sqllite_call(u, k, s, obs, want) ==
  LET lock == k = "insert" /\ ((obs /\ "insert" \in callbacks) \/ want) IN
  /\ Calls(u)
  /\ op' = [op EXCEPT ![u] = k] /\ stmt' = [stmt EXCEPT ![u] = s]
  /\ observer' = [observer EXCEPT ![u] = obs]
  /\ haslock' = [haslock EXCEPT ![u] = lock]
  /\ Goto(u, IF lock THEN "lock" ELSE "prepare")
  /\ UNCHANGED <<shared, file, locals, raced, announced>>

InsertLock(u) ==
  /\ pc[u] = "lock" /\ MutexLock(u) /\ Goto(u, "observe")
  /\ UNCHANGED <<db, mutex, insertobserver, callbacks, file, args, locals, raced,
                 announced, calls>>

(* The next slot: NULL, or a name, which is read afterwards.               *)
NextSlot(u) ==
  /\ pc[u] = "observe" /\ slot[u] < MAX_DB_OBSERVER_NUM
  /\ slot' = [slot EXCEPT ![u] = @ + 1]
  /\ Goto(u, IF slot[u] < Len(insertobserver) THEN "name" ELSE "observe")
  /\ UNCHANGED <<shared, file, args, id, dbvalue, put, torn, raced, announced, calls>>

(* After the last slot.                                                    *)
NotObserved(u) ==
  /\ pc[u] = "observe" /\ slot[u] = MAX_DB_OBSERVER_NUM /\ Goto(u, "prepare")
  /\ UNCHANGED <<shared, file, args, locals, raced, announced, calls>>

(* The name in the slot is there, and the statement mentions it or not.    *)
Named(u) == pc[u] = "name" /\ ~torn[u] /\ insertobserver[slot[u]] \in stmt[u].names

OtherName(u) ==
  /\ pc[u] = "name" /\ ~torn[u] /\ insertobserver[slot[u]] \notin stmt[u].names
  /\ Goto(u, "observe")
  /\ UNCHANGED <<shared, file, args, locals, raced, announced, calls>>

(* Mutant: multiples of SERVER_NUM_CYC are not skipped.                    *)
NextIdPlain(q) == q + 1

(* Mutant: the value read is taken for the next id.                        *)
NextIdSame(q) == IF q = 0 THEN 1 ELSE q

(* The id after q, the value in sqlite_sequence (0: the table has none).   *)
NextId(q) ==
  IF q = 0 THEN 1 ELSE IF (q + 1) % SERVER_NUM_CYC = 0 THEN q + 2 ELSE q + 1

(* The query finds sqlite_sequence of the observer, which need not be the  *)
(* table.  A statement without VALUES ( keeps its text, and the id.        *)
ReadSeq(u) ==
  /\ Named(u) /\ db = "open"
  /\ id' = [id EXCEPT ![u] = NextId(seq[insertobserver[slot[u]]])]
  /\ dbvalue' = [dbvalue EXCEPT ![u] = stmt[u].values]
  /\ Goto(u, "prepare")
  /\ UNCHANGED <<shared, file, args, slot, put, torn, raced, announced, calls>>

(* The query fails: the statement stays as it is.                          *)
ReadSeqFails(u) ==
  /\ Named(u) /\ (db # "open" \/ "query" \in Faults) /\ Goto(u, "prepare")
  /\ UNCHANGED <<shared, file, args, locals, raced, announced, calls>>

(* The name was freed between its test and one of its uses: any text, the  *)
(* name of a table or of none...                                           *)
ReadFreed(u) ==
  /\ pc[u] = "name" /\ torn[u] /\ db = "open"
  /\ \E i \in {1} \cup {NextId(seq[t]) : t \in Tables} : id' = [id EXCEPT ![u] = i]
  /\ dbvalue' = [dbvalue EXCEPT ![u] = stmt[u].values]
  /\ Goto(u, "prepare")
  /\ UNCHANGED <<shared, file, args, slot, put, torn, raced, announced, calls>>

(* ...that the statement does not mention, or whose query fails...         *)
SkipFreed(u) ==
  /\ pc[u] = "name" /\ torn[u] /\ torn' = [torn EXCEPT ![u] = FALSE]
  /\ \E p \in {"observe", "prepare"} : Goto(u, p)
  /\ UNCHANGED <<shared, file, args, slot, id, dbvalue, put, raced, announced, calls>>

Dies ==
  /\ pc' = [v \in Threads |-> "dead"]
  /\ UNCHANGED <<shared, file, args, locals, raced, announced, calls>>

(* ...or NULL, which ends the process.                                     *)
UseFreed(u) == pc[u] = "name" /\ torn[u] /\ Dies

(* Mutant: the id is kept although nothing was stored.                     *)
NotStoredKeepsId(u) ==
  /\ dbvalue' = [dbvalue EXCEPT ![u] = FALSE]
  /\ Goto(u, "end") /\ UNCHANGED <<slot, id, put, torn>>

(* updatelocal = 2: nothing is stored, and no id is kept.                  *)
NotStored(u) ==
  /\ id' = [id EXCEPT ![u] = IF dbvalue[u] THEN 0 ELSE @]
  /\ dbvalue' = [dbvalue EXCEPT ![u] = FALSE]
  /\ Goto(u, "end") /\ UNCHANGED <<slot, put, torn>>

Prepare(u) ==
  /\ pc[u] = "prepare"
  /\ \/ db = "null" /\ NotStored(u)
     \/ db = "open" /\ Goto(u, "step") /\ UNCHANGED locals
     \/ /\ db = "freed" \/ (db = "open" /\ "prepare" \in Faults)
        /\ Goto(u, "fail") /\ UNCHANGED locals
  /\ UNCHANGED <<shared, file, args, raced, announced, calls>>

(* The connection was freed: sqlite3_prepare_v2 may end the process.       *)
PrepareFreed(u) == pc[u] = "prepare" /\ db = "freed" /\ Dies

(* The row an insert asks for; SQLite chooses if the statement does not.   *)
RowId(u) == IF dbvalue[u] THEN id[u] ELSE seq[stmt[u].tab] + 1

(* Threads that have an id for table t and have not used it yet.           *)
HasId(v, t) == pc[v] \in {"prepare", "step"} /\ dbvalue[v] /\ stmt[v].tab = t

(* A prepared statement outlives the connection's closing.                 *)
StepInsert(u) ==
  LET t == stmt[u].tab  r == RowId(u) IN
  /\ pc[u] = "step" /\ op[u] = "insert" /\ r \notin rows[t]
  /\ rows' = [rows EXCEPT ![t] = @ \cup {r}]
  /\ seq' = [seq EXCEPT ![t] = IF r > @ THEN r ELSE @]
  /\ put' = [put EXCEPT ![u] = r]
  /\ raced' = [v \in Threads |->
                 raced[v] \/ (v # u /\ ~haslock[u] /\ HasId(v, t))]
  /\ Goto(u, "end")
  /\ UNCHANGED <<shared, saved, args, slot, id, dbvalue, torn, announced, calls>>

(* The id is taken.                                                        *)
StepConstraint(u) ==
  /\ pc[u] = "step" /\ op[u] = "insert" /\ RowId(u) \in rows[stmt[u].tab]
  /\ Goto(u, "fail")
  /\ UNCHANGED <<shared, file, args, locals, raced, announced, calls>>

StepDelete(u) ==
  /\ pc[u] = "step" /\ op[u] = "delete"
  /\ \E r \in rows[stmt[u].tab] : rows' = [rows EXCEPT ![stmt[u].tab] = @ \ {r}]
  /\ Goto(u, "end")
  /\ UNCHANGED <<shared, seq, saved, args, locals, raced, announced, calls>>

(* An update of columns other than id, or a delete that finds no row.      *)
StepUpdate(u) ==
  /\ pc[u] = "step" /\ op[u] \in {"delete", "update"}
  /\ Goto(u, "end")
  /\ UNCHANGED <<shared, file, args, locals, raced, announced, calls>>

(* Another process has the file locked: reported as success.               *)
StepBusy(u) ==
  /\ pc[u] = "step" /\ "busy" \in Faults /\ NotStored(u)
  /\ UNCHANGED <<shared, file, args, raced, announced, calls>>

StepError(u) ==
  /\ pc[u] = "step" /\ "error" \in Faults
  /\ Goto(u, "fail")
  /\ UNCHANGED <<shared, file, args, locals, raced, announced, calls>>

(* END: is there a callback now?                                           *)
End(u) ==
  /\ pc[u] = "end"
  /\ Goto(u, IF observer[u] /\ op[u] \in callbacks THEN "call" ELSE "return")
  /\ UNCHANGED <<shared, file, args, locals, raced, announced, calls>>

(* It is called: the one registered, or the one that was when it was       *)
(* tested, if the compiler has read it once for both...                    *)
Call(u) ==
  /\ pc[u] = "call" /\ Goto(u, "callback")
  /\ announced' = IF dbvalue[u] /\ ~torn[u]
                    THEN [announced EXCEPT ![stmt[u].tab] = Append(@, id[u])]
                    ELSE announced
  /\ UNCHANGED <<shared, file, args, locals, raced, calls>>

(* ...or NULL, if it was unregistered in between and is read again.        *)
CallReset(u) == pc[u] = "call" /\ op[u] \notin callbacks /\ Dies

CallbackReturns(u) ==
  /\ pc[u] = "callback" /\ Goto(u, "return")
  /\ UNCHANGED <<shared, file, args, locals, raced, announced, calls>>

(* A callback that calls sqllite_insert with its observer waits for the    *)
(* lock, which its own thread may hold.                                    *)
CallbackInserts(u) ==
  /\ pc[u] = "callback" /\ op[u] = "insert" /\ haslock[u] /\ Goto(u, "nested")
  /\ UNCHANGED <<shared, file, args, locals, raced, announced, calls>>

(* The call ends, and its locals with it.                                  *)
Forget(u) ==
  /\ Goto(u, "idle")
  /\ slot' = [slot EXCEPT ![u] = 0] /\ torn' = [torn EXCEPT ![u] = FALSE]
  /\ id' = [id EXCEPT ![u] = 0] /\ dbvalue' = [dbvalue EXCEPT ![u] = FALSE]
  /\ put' = [put EXCEPT ![u] = 0] /\ raced' = [raced EXCEPT ![u] = FALSE]
  /\ op' = [op EXCEPT ![u] = "insert"] /\ stmt' = [stmt EXCEPT ![u] = NoStmt]
  /\ observer' = [observer EXCEPT ![u] = FALSE] /\ haslock' = [haslock EXCEPT ![u] = FALSE]
  /\ UNCHANGED <<db, mutex, insertobserver, callbacks, file, announced, calls>>

Leave(u) ==
  Forget(u) /\ (IF haslock[u] THEN MutexUnlock ELSE UNCHANGED owner)

(* return 0, with *newid = id.                                             *)
Returns(u) == pc[u] = "return" /\ Leave(u)

(* Mutant: a failing call keeps the lock.                                  *)
FailsLocked(u) == pc[u] = "fail" /\ Forget(u) /\ UNCHANGED owner

(* return -1                                                               *)
Fails(u) == pc[u] = "fail" /\ Leave(u)

-----------------------------------------------------------------------------
Step(u) ==
  \/ StepInsert(u) \/ StepConstraint(u) \/ StepDelete(u) \/ StepUpdate(u)
  \/ StepBusy(u) \/ StepError(u)

(* A thread goes on with the call it is in.                                *)
Continue(u) ==
  \/ CloseLock(u) \/ CloseFree(u) \/ CloseUnlock(u) \/ CloseDestroy(u)
  \/ InsertLock(u) \/ NextSlot(u) \/ NotObserved(u) \/ OtherName(u) \/ ReadSeq(u)
  \/ ReadSeqFails(u) \/ ReadFreed(u) \/ SkipFreed(u) \/ UseFreed(u)
  \/ Prepare(u) \/ PrepareFreed(u) \/ Step(u) \/ End(u) \/ Call(u) \/ CallReset(u)
  \/ CallbackReturns(u) \/ CallbackInserts(u) \/ Returns(u) \/ Fails(u)

Register ==
  \/ \E k \in Kinds : sqlite_reg_callback(k)
  \/ sqlite_unreg_allcallback
  \/ \E t \in Tables : sqlite_reg_insertobserver(t)
  \/ sqlite_unreg_allobserver

Transaction ==
  sqllite_beginTransaction \/ sqllite_commitTransaction \/ sqllite_rollbackTransaction

Alive == \A u \in Threads : pc[u] # "dead"

DbNext ==
  \/ sqllite_init
  \/ Alive /\ (Register \/ Transaction)
  \/ \E u \in Threads :
       \/ sqllite_close(u)
       \/ \E k \in Kinds, s \in Stmts, obs \in BOOLEAN, want \in BOOLEAN :
            (want => k = "insert") /\ sqllite_call(u, k, s, obs, want)
       \/ Continue(u)

DbSpec == DbInit /\ [][DbNext]_dbvars

(* Threads are scheduled; nothing is assumed of the calls they make.       *)
DbFairSpec == DbSpec /\ \A u \in Threads : WF_dbvars(Continue(u))

-----------------------------------------------------------------------------
(* Properties                                                              *)

DbTypeOK ==
  /\ db \in {"open", "freed", "null"}
  /\ owner \in Threads \cup {NoThread} /\ mutex \in {"live", "destroyed"}
  /\ insertobserver \in Seq(Tables) /\ Len(insertobserver) <= MAX_DB_OBSERVER_NUM
  /\ callbacks \subseteq Kinds
  /\ rows \in [Tables -> SUBSET Nat] /\ seq \in [Tables -> Nat]
  /\ saved = NoTxn \/ saved \in [Tables -> SUBSET Nat] \X [Tables -> Nat]
  /\ pc \in [Threads -> PCs] /\ op \in [Threads -> Kinds] /\ stmt \in [Threads -> Stmts]
  /\ observer \in [Threads -> BOOLEAN]
  /\ haslock \in [Threads -> BOOLEAN]
  /\ slot \in [Threads -> 0..MAX_DB_OBSERVER_NUM] /\ torn \in [Threads -> BOOLEAN]
  /\ id \in [Threads -> Nat] /\ dbvalue \in [Threads -> BOOLEAN]
  /\ put \in [Threads -> Nat] /\ raced \in [Threads -> BOOLEAN]
  /\ announced \in [Tables -> Seq(Nat)]
  /\ calls \in 0..MaxCalls

Journal == INSTANCE IdJournal WITH journal <- announced

(* Whatever threads insert, delete, register and close, and whatever SQLite*)
(* answers, the listener is told the ids of a table in increasing order,   *)
(* none twice and no multiple of SERVER_NUM_CYC: the layer implements      *)
(* IdJournal.  (For statements that mention no other table's observer, and *)
(* calls whose observer is not freed while they look at it.)               *)
AnnouncesJournal == Journal!JournalSpec

(* The id that a call returns through newid, or announces, is that of the  *)
(* row it stored: a call that stored nothing, because the file was busy or *)
(* the database closed, has none.  (For statements with a VALUES list;     *)
(* without one the id is a guess.)                                         *)
IdIsOfStoredRow ==
  \A u \in Threads : pc[u] \in {"end", "call", "callback", "return"} => id[u] \in {0, put[u]}

(* An id read under addseqlock can be taken by another insert before it is *)
(* used only if that insert took no lock, or the observer it was read for  *)
(* was freed meanwhile.                                                    *)
OnlyUnlockedCollide ==
  \A u \in Threads :
    HasId(u, stmt[u].tab) /\ id[u] \in rows[stmt[u].tab] => raced[u] \/ torn[u]

(* An insert that has the lock, or believes so because the mutex is        *)
(* destroyed, never meets the connection between its closing and NULL.     *)
LockedNeverFreed ==
  \A u \in Threads : pc[u] \in {"observe", "name", "prepare"} /\ haslock[u] => db # "freed"

(* Every call returns, or one of three things has happened: the mutex was  *)
(* destroyed under it, a callback inserted under its own lock, or the      *)
(* process has died, because a call without the lock met the freed         *)
(* connection, or because an observer or a callback was unregistered       *)
(* between its test and its use.                                           *)
CallsReturn ==
  \A u \in Threads :
    pc[u] # "idle" ~> \/ pc[u] = "idle" \/ mutex = "destroyed"
                      \/ \E v \in Threads : pc[v] \in {"nested", "dead"}

=============================================================================
