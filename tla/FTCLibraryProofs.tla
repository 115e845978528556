-------------------------- MODULE FTCLibraryProofs --------------------------
(***************************************************************************)
(* Proofs about the C support library: FTCTask for every number of tries   *)
(* and every time-out, and FTCSock for every queue, every number of        *)
(* arrivals and both kinds of sendto error.  The two share nothing.        *)
(***************************************************************************)
EXTENDS FTCTask, FTCSock, SequenceTheorems, TLAPS

(* Where the owner is bounds where the thread is and what eTskState says.  *)
Before == {"created", "waiting", "timeout"}

(* The handle is live exactly while the owner holds it.                    *)
OwnsHandle ==
  /\ own \in {"start", "failed"} <=> handle = "none"
  /\ handle = "freed" <=> own = "done"

(* No thread before TSK_create, none after the join.                       *)
ThreadAlive ==
  /\ own \in {"start", "failed"} => thr = "none" /\ eTskState = "IDLE"
  /\ own \in {"free", "done"} => thr = "dead" /\ eTskState # "RUNNING"

(* Until TSK_delete marks the task, the thread has not started, or runs.   *)
Unmarked ==
  own \in Before \cup {"ready", "deleting", "mark"} =>
    \/ thr = "entry" /\ eTskState = "IDLE" /\ own \in Before
    \/ thr \in {"proc", "wait"} /\ eTskState = "RUNNING"

(* From then on it does not go back to RUNNING.                            *)
Marked ==
  /\ own \in {"poll", "cancel", "join"} =>
       thr \in {"proc", "wait", "idle", "freeparam", "dead"} /\ eTskState # "RUNNING"
  /\ own \in {"deleting", "mark"} => iLoop = 0
  /\ own = "poll" => iLoop < TSK_DELETE_TRY_TIMES
  /\ cancel => own \in {"join", "free", "done"}

TaskInv == TaskTypeOK /\ OwnsHandle /\ ThreadAlive /\ Unmarked /\ Marked

(* TaskInv holds initially and is kept by every step of either thread.     *)
LEMMA TaskInvariance == ASSUME Careful PROVE TaskSpec => []TaskInv
<1> USE TaskAssumption DEF TaskAssumption
<1>1. TaskInit => TaskInv
  <2> SUFFICES ASSUME TaskInit PROVE TaskInv
    OBVIOUS
  <2>1. TaskTypeOK
    <3>1. cancel \in BOOLEAN
      BY Zenon DEF TaskInit
    <3>2. uiTimeOut \in Nat \cup {-1} /\ uiTimes \in Nat /\ iLoop \in 0..TSK_DELETE_TRY_TIMES
      BY DEF TaskInit
    <3> QED
      BY <3>1, <3>2, Zenon DEF TaskInit, TaskTypeOK, OwnerPCs, ThreadPCs, E_TskState, Memory
  <2>2. OwnsHandle /\ ThreadAlive /\ Unmarked
    BY DEF TaskInit, OwnsHandle, ThreadAlive, Unmarked, Before
  <2>3. Marked
    BY DEF TaskInit, Marked
  <2> QED
    BY <2>1, <2>2, <2>3 DEF TaskInv
<1>2. TaskInv /\ [TaskNext]_tvars => TaskInv'
  <2> SUFFICES ASSUME TaskInv, [TaskNext]_tvars PROVE TaskInv'
    OBVIOUS
  <2> USE DEF TaskInv, TaskTypeOK, OwnerPCs, ThreadPCs, E_TskState, Memory,
              OwnsHandle, ThreadAlive, Unmarked, Marked, Before
  <2>1. CASE TSK_create
    BY <2>1 DEF TSK_create
  <2>2. CASE TSK_WaitforReady
    BY <2>2 DEF TSK_WaitforReady
  <2>3. CASE WaitTurn
    BY <2>3 DEF WaitTurn
  <2>4. CASE TSK_delete
    BY <2>4 DEF TSK_delete
  <2>5. CASE DeleteTest
    BY <2>5 DEF DeleteTest
  <2>6. CASE DeleteMark
    BY <2>6 DEF DeleteMark
  <2>7. CASE DeletePoll
    <3>1. iLoop + 1 \in 0..TSK_DELETE_TRY_TIMES
      BY <2>7 DEF DeletePoll
    <3>2. CASE eTskState = "IDLE"
      BY <2>7, <3>2 DEF DeletePoll
    <3>3. CASE eTskState # "IDLE"
      BY <2>7, <3>1, <3>3 DEF DeletePoll
    <3> QED
      BY <3>2, <3>3
  <2>8. CASE DeleteCancel
    BY <2>8 DEF DeleteCancel
  <2>9. CASE DeleteJoin
    BY <2>9 DEF DeleteJoin
  <2>10. CASE DeleteFree
    BY <2>10 DEF DeleteFree
  <2>11. CASE EntryRunning
    BY <2>11 DEF EntryRunning, owner
  <2>12. CASE ProcReturns
    BY <2>12 DEF ProcReturns, owner
  <2>13. CASE EntryWait
    BY <2>13 DEF EntryWait, owner
  <2>14. CASE EntryIdle
    BY <2>14 DEF EntryIdle, owner
  <2>15. CASE EntryFree
    BY <2>15 DEF EntryFree, owner
  <2>16. CASE Cancelled
    BY <2>16 DEF Cancelled, owner
  <2>17. CASE UNCHANGED tvars
    BY <2>17 DEF tvars
  <2> QED
    BY <2>1, <2>2, <2>3, <2>4, <2>5, <2>6, <2>7, <2>8, <2>9, <2>10, <2>11, <2>12,
       <2>13, <2>14, <2>15, <2>16, <2>17 DEF TaskNext, Owner, TskEntry
<1> QED
  BY <1>1, <1>2, PTL DEF TaskSpec

(* The loop of TSK_delete starts at 0 and is left at the last try.         *)
Tries ==
  /\ own \in {"deleting", "mark"} => iLoop = 0
  /\ own = "poll" => iLoop < TSK_DELETE_TRY_TIMES

(* Type correctness of the task library for any owner: iLoop stays within  *)
(* TSK_DELETE_TRY_TIMES, although TSK_delete tests it with == only.        *)
THEOREM TaskTypeCorrect == TaskSpec => []TaskTypeOK
<1> USE TaskAssumption DEF TaskAssumption
<1>1. TaskInit => TaskTypeOK /\ Tries
  <2> SUFFICES ASSUME TaskInit PROVE TaskTypeOK /\ Tries
    OBVIOUS
  <2>1. cancel \in BOOLEAN
    BY Zenon DEF TaskInit
  <2>2. uiTimeOut \in Nat \cup {-1} /\ uiTimes \in Nat /\ iLoop \in 0..TSK_DELETE_TRY_TIMES
    BY DEF TaskInit
  <2>3. TaskTypeOK
    BY <2>1, <2>2, Zenon DEF TaskInit, TaskTypeOK, OwnerPCs, ThreadPCs, E_TskState, Memory
  <2> QED
    BY <2>3 DEF TaskInit, Tries
<1>2. TaskTypeOK /\ Tries /\ [TaskNext]_tvars => TaskTypeOK' /\ Tries'
  <2> SUFFICES ASSUME TaskTypeOK, Tries, [TaskNext]_tvars PROVE TaskTypeOK' /\ Tries'
    OBVIOUS
  <2> USE DEF TaskTypeOK, Tries, OwnerPCs, ThreadPCs, E_TskState, Memory
  <2>1. CASE TSK_create \/ TSK_WaitforReady
    <3>1. CASE TSK_create
      BY <3>1 DEF TSK_create
    <3>2. CASE TSK_WaitforReady
      BY <3>2 DEF TSK_WaitforReady
    <3> QED
      BY <2>1, <3>1, <3>2
  <2>2. CASE WaitTurn
    BY <2>2 DEF WaitTurn
  <2>3. CASE TSK_delete \/ DeleteTest \/ DeleteMark
    <3>1. CASE TSK_delete
      BY <3>1 DEF TSK_delete
    <3>2. CASE DeleteTest
      BY <3>2 DEF DeleteTest
    <3>3. CASE DeleteMark
      BY <3>3 DEF DeleteMark
    <3> QED
      BY <2>3, <3>1, <3>2, <3>3
  <2>4. CASE DeletePoll
    <3>1. iLoop + 1 \in 0..TSK_DELETE_TRY_TIMES
      BY <2>4 DEF DeletePoll
    <3>2. CASE eTskState = "IDLE"
      BY <2>4, <3>2 DEF DeletePoll
    <3>3. CASE eTskState # "IDLE"
      BY <2>4, <3>1, <3>3 DEF DeletePoll
    <3> QED
      BY <3>2, <3>3
  <2>5. CASE DeleteCancel \/ DeleteJoin \/ DeleteFree
    BY <2>5 DEF DeleteCancel, DeleteJoin, DeleteFree
  <2>6. CASE TskEntry
    BY <2>6 DEF TskEntry, EntryRunning, ProcReturns, EntryWait, EntryIdle, EntryFree,
                Cancelled, owner
  <2>7. CASE UNCHANGED tvars
    BY <2>7 DEF tvars
  <2> QED
    BY <2>1, <2>2, <2>3, <2>4, <2>5, <2>6, <2>7 DEF TaskNext, Owner
<1> QED
  BY <1>1, <1>2, PTL DEF TaskSpec

(* TSK_delete never frees a handle that TskEntry may still touch, if the   *)
(* owner deletes only tasks that were reported ready.                      *)
THEOREM TaskNoUseAfterFree == ASSUME Careful PROVE TaskSpec => []NoUseAfterFree
<1>1. TaskInv => NoUseAfterFree
  BY DEF TaskInv, NoUseAfterFree, OwnsHandle, ThreadAlive
<1> QED
  BY <1>1, TaskInvariance, PTL

(* TskEntry's unconditional write of RUNNING never overwrites the          *)
(* TERMINATING of TSK_delete.                                              *)
THEOREM TaskTerminationSticks == ASSUME Careful PROVE TaskSpec => TerminationSticks
<1>1. TaskInv /\ [TaskNext]_tvars =>
        [eTskState = "TERMINATING" => eTskState' \in {"TERMINATING", "IDLE"}]_tvars
  <2> SUFFICES ASSUME TaskInv, TaskNext, eTskState = "TERMINATING"
               PROVE  eTskState' \in {"TERMINATING", "IDLE"}
    OBVIOUS
  <2>1. thr # "entry"
    BY DEF TaskInv, TaskTypeOK, OwnerPCs, ThreadAlive, Unmarked, Marked, Before
  <2> QED
    BY <2>1 DEF TaskNext, Owner, TskEntry, TSK_create, TSK_WaitforReady, WaitTurn, TSK_delete,
       DeleteTest, DeleteMark, DeletePoll, DeleteCancel, DeleteJoin, DeleteFree,
       EntryRunning, ProcReturns, EntryWait, EntryIdle, EntryFree, Cancelled
<1> QED
  BY <1>1, TaskInvariance, PTL DEF TaskSpec, TerminationSticks

-----------------------------------------------------------------------------
(* FTCSock                                                                 *)
(*                                                                         *)
(* The argument rests on the numbers of the datagrams.  They grow along    *)
(* the kernel's queue and along accepted, and the intact datagrams of the  *)
(* queue are those of accepted that were not read yet: so the first intact *)
(* one in the queue is the next one of accepted, however many corrupt ones *)
(* stand between.                                                          *)

Datagram == [n : Numbers, len : Lengths, intact : BOOLEAN]
Accepted == [n : Numbers, len : Lengths]
Handled == [head : Numbers, body : Numbers, from : Numbers, as : Uses]

(* Datagrams read so far: those handled, and the one just read.            *)
Holding == pc \in {"handle", "body"}
Taken == Len(handled) + (IF Holding THEN 1 ELSE 0)

(* The descriptor is not open before socket() nor after main() returned.   *)
ClosedOutside == pc \in {"socket", "exit"} => fd = "closed"

(* Numbers are given in the order of arrival.                              *)
InOrder(s) ==
  /\ \A i \in DOMAIN s : s[i].n <= arrived
  /\ \A i, j \in DOMAIN s : i < j => s[i].n < s[j].n

(* What is read was accepted, and in the same order.                       *)
ReadInOrder ==
  /\ Taken <= Len(accepted)
  /\ \A i \in DOMAIN handled : handled[i].from = accepted[i].n
  /\ Holding => fromAddr = accepted[Len(handled) + 1].n

(* What waits in the queue intact is what was accepted and not read.       *)
Same(a, d) == a.n = d.n /\ a.len = d.len

QueueIsUnread ==
  /\ \A i \in DOMAIN queue :
       queue[i].intact => \E k \in DOMAIN accepted : k > Taken /\ Same(accepted[k], queue[i])
  /\ \A k \in DOMAIN accepted :
       k > Taken => \E i \in DOMAIN queue : queue[i].intact /\ Same(accepted[k], queue[i])

(* A whole T_Msg is whole in stMsg until it is handled.                    *)
HeldWhole ==
  pc = "handle" /\ accepted[Len(handled) + 1].len = "full" =>
    stMsg.head = fromAddr /\ stMsg.body = fromAddr

(* A relay request was the last thing handled exactly while its body is    *)
(* read.                                                                   *)
RelayOpen ==
  pc \in {"relay", "body"} <=> Len(handled) > 0 /\ handled[Len(handled)].as = "relay"

SockInv ==
  /\ SockTypeOK /\ ClosedOutside /\ RelayOpen
  /\ InOrder(queue) /\ InOrder(accepted)
  /\ ReadInOrder /\ QueueIsUnread
  /\ WholeIsWhole /\ HeldWhole

-----------------------------------------------------------------------------
(* The initial state satisfies the invariant: nothing has arrived.         *)
LEMMA SockInvInit == SockInit => SockInv
<1> USE SockAssumption DEF SockAssumption
<1> SUFFICES ASSUME SockInit PROVE SockInv
  OBVIOUS
<1>1. SockTypeOK
  BY DEF SockInit, SockTypeOK, PCs, Numbers
<1>2. ClosedOutside /\ InOrder(queue) /\ InOrder(accepted) /\ ReadInOrder /\ QueueIsUnread
  BY DEF SockInit, ClosedOutside, InOrder, ReadInOrder, QueueIsUnread, Taken, Holding
<1>4. RelayOpen
  BY DEF SockInit, RelayOpen
<1>3. WholeIsWhole /\ HeldWhole
  BY DEF SockInit, WholeIsWhole, HeldWhole
<1> QED
  BY <1>1, <1>2, <1>3, <1>4 DEF SockInv

(* A step that moves only the descriptor and the program counter, and      *)
(* neither enters nor leaves the handler, keeps the invariant.             *)
LEMMA ControlStep ==
  ASSUME SockInv, SockTypeOK', ClosedOutside',
         UNCHANGED <<queue, stMsg, fromAddr, arrived, accepted, handled>>,
         pc \notin {"handle", "relay", "body"}, pc' \notin {"handle", "relay", "body"}
  PROVE  SockInv'
<1>1. Taken' = Taken /\ ~Holding /\ ~Holding' /\ RelayOpen'
  BY DEF Taken, Holding, SockInv, RelayOpen
<1>2. InOrder(queue)' /\ InOrder(accepted)'
  BY DEF SockInv, InOrder
<1>3. ReadInOrder'
  BY <1>1 DEF SockInv, ReadInOrder
<1>4. QueueIsUnread'
  BY <1>1 DEF SockInv, QueueIsUnread
<1>5. WholeIsWhole' /\ HeldWhole'
  BY DEF SockInv, WholeIsWhole, HeldWhole
<1> QED
  BY <1>1, <1>2, <1>3, <1>4, <1>5 DEF SockInv

-----------------------------------------------------------------------------
(* The numbers along the queue and along accepted can be compared.         *)
LEMMA NumbersAreNat ==
  ASSUME SockInv
  PROVE  /\ \A i \in DOMAIN queue : queue[i].n \in Nat
         /\ \A i \in DOMAIN accepted : accepted[i].n \in Nat
<1>1. queue \in Seq(Datagram) /\ accepted \in Seq(Accepted)
  BY DEF SockInv, SockTypeOK, Datagram, Accepted
<1>2. \A i \in DOMAIN queue : queue[i] \in Datagram
  BY <1>1
<1>3. \A i \in DOMAIN accepted : accepted[i] \in Accepted
  BY <1>1
<1>4. Numbers \subseteq Nat
  BY SockAssumption DEF SockAssumption, Numbers
<1> QED
  BY <1>2, <1>3, <1>4 DEF Datagram, Accepted

(* A datagram that arrives keeps the invariant, queued or dropped.         *)
LEMMA ArriveKeeps ==
  ASSUME SockInv, NEW len \in Lengths, NEW intact \in BOOLEAN, Arrive(len, intact)
  PROVE  SockInv'
<1> DEFINE d == [n |-> arrived', len |-> len, intact |-> intact]
           a == [n |-> arrived', len |-> len]
<1> USE SockAssumption DEF SockAssumption
<1>t. SockTypeOK
  BY DEF SockInv
<1>n. arrived' = arrived + 1 /\ arrived' \in Numbers /\ arrived \in Nat
  BY <1>t DEF Arrive, SockTypeOK, Numbers
<1>d. d \in Datagram /\ d.n = arrived' /\ d.len = len /\ d.intact = intact
  BY <1>n DEF Datagram
<1>a. a \in Accepted /\ a.n = arrived' /\ a.len = len
  BY <1>n DEF Accepted
<1>s. queue \in Seq(Datagram) /\ accepted \in Seq(Accepted) /\ handled \in Seq(Handled)
  BY <1>t DEF SockTypeOK, Datagram, Accepted, Handled
<1>u. UNCHANGED <<fd, pc, stMsg, fromAddr, handled>>
  BY DEF Arrive
<1>1. CASE Len(queue) < Capacity
  <2>q. queue' = Append(queue, d)
    BY <1>1 DEF Arrive
  <2>r. accepted' = IF intact THEN Append(accepted, a) ELSE accepted
    BY <1>1 DEF Arrive
  <2> HIDE DEF d, a
  <2>1. /\ queue' \in Seq(Datagram) /\ Len(queue') = Len(queue) + 1
        /\ \A i \in 1..Len(queue) : queue'[i] = queue[i]
        /\ queue'[Len(queue) + 1] = d
    BY <2>q, <1>d, <1>s, AppendProperties
  <2>2. /\ accepted' \in Seq(Accepted) /\ Len(accepted) <= Len(accepted')
        /\ \A i \in 1..Len(accepted) : accepted'[i] = accepted[i]
        /\ intact => /\ Len(accepted') = Len(accepted) + 1
                     /\ accepted'[Len(accepted) + 1] = a
        /\ ~intact => accepted' = accepted
    <3>1. CASE intact
      BY <3>1, <2>r, <1>a, <1>s, AppendProperties
    <3>2. CASE ~intact
      BY <3>2, <2>r, <1>s
    <3> QED
      BY <3>1, <3>2
  <2>l. Len(queue) \in Nat /\ Len(accepted) \in Nat /\ Len(handled) \in Nat
    BY <1>s
  <2>dq. DOMAIN queue = 1..Len(queue) /\ DOMAIN queue' = 1..(Len(queue) + 1)
    BY <1>s, <2>1
  <2>da. DOMAIN accepted = 1..Len(accepted) /\ DOMAIN accepted' = 1..Len(accepted')
    BY <1>s, <2>2
  <2>la. Len(accepted') \in Nat /\ Len(accepted') <= Len(accepted) + 1
    BY <2>2, <1>s
  <2>k. /\ \A k \in DOMAIN accepted : k \in DOMAIN accepted' /\ accepted'[k] = accepted[k]
        /\ \A k \in DOMAIN accepted' :
             k \in DOMAIN accepted \/ (intact /\ k = Len(accepted) + 1)
    <3>1. \A k \in 1..Len(accepted) : k \in 1..Len(accepted')
      BY <2>2, <2>l, <2>la
    <3>2. \A k \in 1..Len(accepted') : k \in 1..Len(accepted) \/ (intact /\ k = Len(accepted) + 1)
      <4>1. CASE intact
        <5>1. Len(accepted') = Len(accepted) + 1
          BY <4>1, <2>2
        <5> QED
          BY <4>1, <5>1, <2>l
      <4>2. CASE ~intact
        <5>1. Len(accepted') = Len(accepted)
          BY <4>2, <2>2
        <5> QED
          BY <5>1
      <4> QED
        BY <4>1, <4>2
    <3> QED
      BY <3>1, <3>2, <2>da, <2>2
  <2>3. SockTypeOK' /\ ClosedOutside'
    <3>1. Len(queue') <= Capacity
      BY <2>1, <2>l, <1>1
    <3>2. queue' \in Seq([n : Numbers, len : Lengths, intact : BOOLEAN])
      BY <2>1 DEF Datagram
    <3>3. accepted' \in Seq([n : Numbers, len : Lengths])
      BY <2>2 DEF Accepted
    <3> QED
      BY <3>1, <3>2, <3>3, <1>n, <1>u DEF SockInv, SockTypeOK, ClosedOutside
  <2>4. InOrder(queue)'
    <3>1. \A i \in 1..Len(queue) : queue[i].n \in Nat /\ queue[i].n <= arrived
      BY <2>dq, NumbersAreNat DEF SockInv, InOrder
    <3>2. \A i \in 1..Len(queue) : queue'[i].n = queue[i].n
      BY <2>1
    <3>3. queue'[Len(queue) + 1].n = arrived'
      BY <2>1, <1>d
    <3>4. \A i, j \in 1..Len(queue) : i < j => queue[i].n < queue[j].n
      BY <2>dq DEF SockInv, InOrder
    <3>5. \A i \in 1..(Len(queue) + 1) : i \in 1..Len(queue) \/ i = Len(queue) + 1
      BY <2>l
    <3>6. \A i \in 1..(Len(queue) + 1) : queue'[i].n <= arrived'
      BY <3>1, <3>2, <3>3, <3>5, <1>n
    <3>7. \A i, j \in 1..(Len(queue) + 1) : i < j => queue'[i].n < queue'[j].n
      <4> SUFFICES ASSUME NEW i \in 1..(Len(queue) + 1), NEW j \in 1..(Len(queue) + 1), i < j
                   PROVE  queue'[i].n < queue'[j].n
        OBVIOUS
      <4>1. i \in 1..Len(queue)
        BY <2>l
      <4>2. CASE j = Len(queue) + 1
        BY <4>1, <4>2, <3>1, <3>2, <3>3, <1>n
      <4>3. CASE j \in 1..Len(queue)
        BY <4>1, <4>3, <3>2, <3>4
      <4> QED
        BY <4>2, <4>3, <3>5
    <3> QED
      BY <3>6, <3>7, <2>dq DEF InOrder
  <2>5. InOrder(accepted)'
    <3>1. \A i \in 1..Len(accepted) : accepted[i].n \in Nat /\ accepted[i].n <= arrived
      BY <2>da, NumbersAreNat DEF SockInv, InOrder
    <3>2. \A i \in 1..Len(accepted) : accepted'[i].n = accepted[i].n
      BY <2>2
    <3>4. \A i, j \in 1..Len(accepted) : i < j => accepted[i].n < accepted[j].n
      BY <2>da DEF SockInv, InOrder
    <3>5. \A i \in 1..Len(accepted') :
            \/ i \in 1..Len(accepted)
            \/ i = Len(accepted) + 1 /\ accepted'[i].n = arrived'
      <4>1. CASE intact
        BY <4>1, <2>2, <1>a, <2>l
      <4>2. CASE ~intact
        BY <4>2, <2>2
      <4> QED
        BY <4>1, <4>2
    <3>6. \A i \in 1..Len(accepted') : accepted'[i].n <= arrived'
      BY <3>1, <3>2, <3>5, <1>n
    <3>7. \A i, j \in 1..Len(accepted') : i < j => accepted'[i].n < accepted'[j].n
      <4> SUFFICES ASSUME NEW i \in 1..Len(accepted'), NEW j \in 1..Len(accepted'), i < j
                   PROVE  accepted'[i].n < accepted'[j].n
        OBVIOUS
      <4>1. i \in 1..Len(accepted)
        BY <2>l, <2>la
      <4>2. CASE j = Len(accepted) + 1 /\ accepted'[j].n = arrived'
        BY <4>1, <4>2, <3>1, <3>2, <1>n
      <4>3. CASE j \in 1..Len(accepted)
        BY <4>1, <4>3, <3>2, <3>4
      <4> QED
        BY <4>2, <4>3, <3>5
    <3> QED
      BY <3>6, <3>7, <2>da DEF InOrder
  <2>6. Taken' = Taken /\ Holding' = Holding /\ Taken <= Len(accepted) /\ Taken \in Nat
    BY <1>u, <2>l DEF Taken, Holding, SockInv, ReadInOrder
  <2>7. Len(handled) \in Nat /\ DOMAIN handled = 1..Len(handled) /\ Len(handled) <= Len(accepted)
        /\ (Holding => Len(handled) + 1 \in 1..Len(accepted))
    BY <2>6, <2>l, <1>s DEF Taken
  <2>8. ReadInOrder'
    <3>1. Taken' <= Len(accepted')
      BY <2>6, <2>l, <2>la, <2>2
    <3>2. \A i \in DOMAIN handled : handled[i].from = accepted'[i].n
      BY <2>7, <2>2, <2>l DEF SockInv, ReadInOrder
    <3>3. Holding => fromAddr = accepted'[Len(handled) + 1].n
      BY <2>7, <2>2 DEF SockInv, ReadInOrder
    <3> QED
      BY <3>1, <3>2, <3>3, <1>u, <2>6 DEF ReadInOrder
  <2>9. QueueIsUnread'
    <3>1. ASSUME NEW i \in DOMAIN queue', queue'[i].intact
          PROVE  \E k \in DOMAIN accepted' : k > Taken /\ Same(accepted'[k], queue'[i])
      <4>1. CASE i \in 1..Len(queue)
        <5>1. PICK k \in DOMAIN accepted : k > Taken /\ Same(accepted[k], queue[i])
          BY <3>1, <4>1, <2>1, <2>dq DEF SockInv, QueueIsUnread
        <5>2. k \in DOMAIN accepted' /\ accepted'[k] = accepted[k]
          BY <2>k
        <5> QED
          BY <5>1, <5>2, <4>1, <2>1
      <4>2. CASE i = Len(queue) + 1
        <5>1. intact /\ queue'[i] = d
          BY <3>1, <4>2, <2>1, <1>d
        <5>2. Len(accepted) + 1 \in DOMAIN accepted' /\ accepted'[Len(accepted) + 1] = a
          BY <5>1, <2>2, <2>l, <2>da
        <5>3. Same(a, d)
          BY <1>a, <1>d DEF Same
        <5>4. Len(accepted) + 1 > Taken
          BY <2>6, <2>l
        <5> QED
          BY <5>1, <5>2, <5>3, <5>4
      <4> QED
        BY <4>1, <4>2, <2>dq, <2>l
    <3>2. ASSUME NEW k \in DOMAIN accepted', k > Taken
          PROVE  \E i \in DOMAIN queue' : queue'[i].intact /\ Same(accepted'[k], queue'[i])
      <4>1. CASE k \in 1..Len(accepted)
        <5>1. PICK i \in DOMAIN queue : queue[i].intact /\ Same(accepted[k], queue[i])
          BY <3>2, <4>1, <2>da DEF SockInv, QueueIsUnread
        <5>2. i \in DOMAIN queue' /\ queue'[i] = queue[i]
          BY <2>dq, <2>1, <2>l
        <5> QED
          BY <5>1, <5>2, <4>1, <2>2
      <4>2. CASE intact /\ k = Len(accepted) + 1
        <5>1. accepted'[k] = a /\ Same(a, d)
          BY <4>2, <2>2, <1>a, <1>d DEF Same
        <5>2. Len(queue) + 1 \in DOMAIN queue' /\ queue'[Len(queue) + 1] = d /\ d.intact
          BY <4>2, <2>1, <2>dq, <2>l, <1>d
        <5> QED
          BY <5>1, <5>2
      <4> QED
        BY <4>1, <4>2, <2>da, <2>k
    <3> QED
      BY <3>1, <3>2, <2>6 DEF QueueIsUnread
  <2>10. WholeIsWhole'
    <3>1. \A i \in DOMAIN handled : i \in DOMAIN accepted /\ accepted'[i] = accepted[i]
      <4>1. \A i \in DOMAIN handled : i \in DOMAIN accepted
        BY <2>7, <2>da, <2>l
      <4> QED
        BY <4>1, <2>k
    <3> QED
      BY <3>1, <1>u DEF SockInv, WholeIsWhole
  <2>11. HeldWhole' /\ RelayOpen'
    BY <2>7, <2>2, <1>u DEF SockInv, HeldWhole, Holding, RelayOpen
  <2> QED
    BY <2>3, <2>4, <2>5, <2>8, <2>9, <2>10, <2>11 DEF SockInv
<1>2. CASE ~(Len(queue) < Capacity)
  <2>1. UNCHANGED <<queue, accepted>>
    BY <1>2 DEF Arrive
  <2>2. SockTypeOK' /\ ClosedOutside'
    BY <2>1, <1>u, <1>n DEF SockInv, SockTypeOK, ClosedOutside
  <2>5. InOrder(queue)' /\ InOrder(accepted)'
    BY <2>1, NumbersAreNat, <1>n DEF SockInv, InOrder
  <2>6. ReadInOrder' /\ WholeIsWhole' /\ HeldWhole' /\ RelayOpen'
    BY <2>1, <1>u DEF SockInv, ReadInOrder, Taken, Holding, WholeIsWhole, HeldWhole, RelayOpen
  <2>7. QueueIsUnread'
    BY <2>1, <1>u DEF SockInv, QueueIsUnread, Taken, Holding
  <2> QED
    BY <2>2, <2>5, <2>6, <2>7 DEF SockInv
<1> QED
  BY <1>1, <1>2

-----------------------------------------------------------------------------
(* What the Tail of a sequence is, entry by entry.                         *)
LEMMA TailEntries ==
  ASSUME NEW S, NEW s \in Seq(S), s # <<>>
  PROVE  /\ Tail(s) \in Seq(S) /\ Len(s) \in Nat \ {0} /\ Len(Tail(s)) = Len(s) - 1
         /\ DOMAIN s = 1..Len(s) /\ DOMAIN Tail(s) = 1..(Len(s) - 1)
         /\ \A i \in 1..(Len(s) - 1) : Tail(s)[i] = s[i + 1]
  BY HeadTailProperties, LenProperties, EmptySeq

(* The queue without its first entry is still in order.                    *)
LEMMA TailInOrder ==
  ASSUME SockInv, queue # <<>>, queue' = Tail(queue), arrived' = arrived
  PROVE  InOrder(queue)'
<1>1. queue \in Seq(Datagram)
  BY DEF SockInv, SockTypeOK, Datagram
<1>2. /\ Len(queue) \in Nat \ {0}
      /\ DOMAIN queue = 1..Len(queue) /\ DOMAIN queue' = 1..(Len(queue) - 1)
      /\ \A i \in 1..(Len(queue) - 1) : queue'[i] = queue[i + 1]
  BY <1>1, TailEntries
<1>3. \A i \in 1..(Len(queue) - 1) : i + 1 \in DOMAIN queue
  BY <1>2
<1>4. \A i \in DOMAIN queue' : queue'[i].n <= arrived
  BY <1>2, <1>3 DEF SockInv, InOrder
<1>5. \A i, j \in DOMAIN queue' : i < j => queue'[i].n < queue'[j].n
  <2> SUFFICES ASSUME NEW i \in DOMAIN queue', NEW j \in DOMAIN queue', i < j
               PROVE  queue'[i].n < queue'[j].n
    OBVIOUS
  <2>1. i + 1 \in DOMAIN queue /\ j + 1 \in DOMAIN queue /\ i + 1 < j + 1
    BY <1>2, <1>3
  <2>2. queue[i + 1].n < queue[j + 1].n
    BY <2>1 DEF SockInv, InOrder
  <2> QED
    BY <2>2, <1>2
<1> QED
  BY <1>4, <1>5 DEF InOrder

(* The types of the queue after a datagram was read from it.               *)
LEMMA TailType ==
  ASSUME SockInv, queue # <<>>, queue' = Tail(queue)
  PROVE  queue' \in Seq([n : Numbers, len : Lengths, intact : BOOLEAN]) /\ Len(queue') <= Capacity
<1> DEFINE D == [n : Numbers, len : Lengths, intact : BOOLEAN]
<1>1. queue \in Seq(D) /\ Len(queue) <= Capacity
  BY DEF SockInv, SockTypeOK
<1> HIDE DEF D
<1>2. queue' \in Seq(D) /\ Len(queue) \in Nat /\ Len(queue') = Len(queue) - 1
  BY <1>1, TailEntries
<1>3. Len(queue') <= Capacity
  BY <1>1, <1>2, SockAssumption DEF SockAssumption
<1> QED
  BY <1>2, <1>3 DEF D

(* recvfrom drops a corrupt datagram: what is unread stays in the queue.   *)
LEMMA RecvCorruptKeeps == ASSUME SockInv, RecvCorrupt PROVE SockInv'
<1>u. /\ UNCHANGED <<fd, pc, stMsg, fromAddr, arrived, accepted, handled>>
      /\ queue # <<>> /\ ~queue[1].intact /\ queue' = Tail(queue)
  BY DEF RecvCorrupt
<1>1. SockTypeOK' /\ ClosedOutside'
  BY <1>u, TailType DEF SockInv, SockTypeOK, ClosedOutside
<1>2. InOrder(queue)' /\ InOrder(accepted)'
  BY <1>u, TailInOrder DEF SockInv, InOrder
<1>3. ReadInOrder' /\ WholeIsWhole' /\ HeldWhole' /\ RelayOpen'
  BY <1>u DEF SockInv, ReadInOrder, Taken, Holding, WholeIsWhole, HeldWhole, RelayOpen
<1>4. queue \in Seq(Datagram)
  BY DEF SockInv, SockTypeOK, Datagram
<1>5. /\ Len(queue) \in Nat \ {0}
      /\ DOMAIN queue = 1..Len(queue) /\ DOMAIN queue' = 1..(Len(queue) - 1)
      /\ \A i \in 1..(Len(queue) - 1) : queue'[i] = queue[i + 1]
  BY <1>4, <1>u, TailEntries
<1>6. Taken' = Taken
  BY <1>u DEF Taken, Holding
<1>7. QueueIsUnread'
  <2>1. ASSUME NEW i \in DOMAIN queue', queue'[i].intact
        PROVE  \E k \in DOMAIN accepted : k > Taken /\ Same(accepted[k], queue'[i])
    <3>1. i + 1 \in DOMAIN queue /\ queue'[i] = queue[i + 1]
      BY <1>5
    <3> QED
      BY <2>1, <3>1 DEF SockInv, QueueIsUnread
  <2>2. ASSUME NEW k \in DOMAIN accepted, k > Taken
        PROVE  \E i \in DOMAIN queue' : queue'[i].intact /\ Same(accepted[k], queue'[i])
    <3>1. PICK i \in DOMAIN queue : queue[i].intact /\ Same(accepted[k], queue[i])
      BY <2>2 DEF SockInv, QueueIsUnread
    <3>2. i # 1
      BY <3>1, <1>u
    <3>3. i - 1 \in DOMAIN queue' /\ queue'[i - 1] = queue[i]
      BY <3>2, <1>5
    <3> QED
      BY <3>1, <3>3
  <2> QED
    BY <2>1, <2>2, <1>u, <1>6 DEF QueueIsUnread
<1> QED
  BY <1>1, <1>2, <1>3, <1>7 DEF SockInv

(* The first entry of the queue, if it is intact, is the next one of       *)
(* accepted.                                                               *)
LEMMA FirstIsNext ==
  ASSUME SockInv, ~Holding, queue # <<>>, queue[1].intact
  PROVE  /\ Taken = Len(handled) /\ Taken \in Nat
         /\ Len(handled) + 1 \in DOMAIN accepted
         /\ Same(accepted[Len(handled) + 1], queue[1])
<1>1. queue \in Seq(Datagram) /\ accepted \in Seq(Accepted) /\ handled \in Seq(Handled)
  BY DEF SockInv, SockTypeOK, Datagram, Accepted, Handled
<1>2. Len(handled) \in Nat /\ Taken = Len(handled)
  BY <1>1 DEF Taken
<1>3. Len(queue) \in Nat \ {0} /\ DOMAIN queue = 1..Len(queue) /\ 1 \in DOMAIN queue
  BY <1>1, TailEntries
<1>4. PICK k \in DOMAIN accepted : k > Taken /\ Same(accepted[k], queue[1])
  BY <1>3 DEF SockInv, QueueIsUnread
<1>5. DOMAIN accepted = 1..Len(accepted) /\ Len(accepted) \in Nat
  BY <1>1
<1>6. Len(handled) + 1 \in DOMAIN accepted /\ Len(handled) + 1 > Taken
  BY <1>2, <1>4, <1>5
<1>7. PICK i \in DOMAIN queue : Same(accepted[Len(handled) + 1], queue[i])
  BY <1>6 DEF SockInv, QueueIsUnread
<1>8. queue[1].n <= queue[i].n
  <2>1. queue[1].n \in Nat /\ queue[i].n \in Nat
    BY <1>3, NumbersAreNat
  <2>2. CASE i = 1
    BY <2>1, <2>2
  <2>3. CASE i # 1
    <3>1. 1 < i
      BY <2>3, <1>3
    <3>2. queue[1].n < queue[i].n
      BY <3>1, <1>3 DEF SockInv, InOrder
    <3> QED
      BY <2>1, <3>2
  <2> QED
    BY <2>2, <2>3
<1>9. k = Len(handled) + 1
  <2> SUFFICES ASSUME k # Len(handled) + 1 PROVE FALSE
    OBVIOUS
  <2>1. Len(handled) + 1 < k
    BY <1>2, <1>4, <1>5
  <2>2. accepted[Len(handled) + 1].n < accepted[k].n
    BY <2>1, <1>6 DEF SockInv, InOrder
  <2>3. accepted[k].n = queue[1].n /\ accepted[Len(handled) + 1].n = queue[i].n
    BY <1>4, <1>7 DEF Same
  <2> QED
    BY <2>2, <2>3, <1>8, <1>3, NumbersAreNat
<1> QED
  BY <1>2, <1>4, <1>6, <1>9

(* recvfrom reads an intact datagram: it is the next one of accepted, and  *)
(* the rest of the queue is still unread.                                  *)
LEMMA TakesKeeps ==
  ASSUME SockInv, Takes, ~Holding, Holding', UNCHANGED <<arrived, accepted, handled>>
  PROVE  /\ queue' \in Seq([n : Numbers, len : Lengths, intact : BOOLEAN]) /\ Len(queue') <= Capacity
         /\ queue[1].n \in Numbers /\ Same(accepted[Len(handled) + 1], queue[1])
         /\ InOrder(queue)' /\ InOrder(accepted)' /\ ReadInOrder' /\ QueueIsUnread'
<1>u. /\ UNCHANGED <<arrived, accepted, handled>>
      /\ queue # <<>> /\ queue[1].intact /\ queue' = Tail(queue)
      /\ fromAddr' = queue[1].n
  BY DEF Takes
<1>n. /\ Taken = Len(handled) /\ Taken \in Nat
      /\ Len(handled) + 1 \in DOMAIN accepted
      /\ Same(accepted[Len(handled) + 1], queue[1])
  BY <1>u, FirstIsNext
<1>s. queue \in Seq(Datagram) /\ accepted \in Seq(Accepted)
  BY DEF SockInv, SockTypeOK, Datagram, Accepted
<1>q. /\ Len(queue) \in Nat \ {0}
      /\ DOMAIN queue = 1..Len(queue) /\ DOMAIN queue' = 1..(Len(queue) - 1)
      /\ \A i \in 1..(Len(queue) - 1) : queue'[i] = queue[i + 1]
  BY <1>s, <1>u, TailEntries
<1>a. DOMAIN accepted = 1..Len(accepted) /\ Len(accepted) \in Nat
  BY <1>s
<1>f. 1 \in DOMAIN queue /\ queue[1].n \in Numbers
  <2>1. 1 \in DOMAIN queue
    BY <1>q
  <2>2. queue[1] \in Datagram
    BY <2>1, <1>s
  <2> QED
    BY <2>1, <2>2 DEF Datagram
<1>t. Taken' = Taken + 1
  BY <1>u, <1>n DEF Taken
<1>1. queue' \in Seq([n : Numbers, len : Lengths, intact : BOOLEAN]) /\ Len(queue') <= Capacity
  BY <1>u, TailType
<1>2. InOrder(queue)' /\ InOrder(accepted)'
  BY <1>u, TailInOrder DEF SockInv, InOrder
<1>3. ReadInOrder'
  <2>1. Taken' <= Len(accepted')
    BY <1>t, <1>n, <1>a, <1>u
  <2>2. fromAddr' = accepted'[Len(handled') + 1].n
    BY <1>u, <1>n DEF Same
  <2> QED
    BY <2>1, <2>2, <1>u DEF SockInv, ReadInOrder
<1>4. QueueIsUnread'
  <2>1. ASSUME NEW i \in DOMAIN queue', queue'[i].intact
        PROVE  \E k \in DOMAIN accepted : k > Taken + 1 /\ Same(accepted[k], queue'[i])
    <3>1. i + 1 \in DOMAIN queue /\ queue'[i] = queue[i + 1] /\ 1 < i + 1
      BY <1>q
    <3>2. PICK k \in DOMAIN accepted : k > Taken /\ Same(accepted[k], queue[i + 1])
      BY <2>1, <3>1 DEF SockInv, QueueIsUnread
    <3>3. queue[1].n < queue[i + 1].n
      BY <3>1, <1>f DEF SockInv, InOrder
    <3>4. k # Len(handled) + 1
      BY <3>2, <3>3, <3>1, <1>n, <1>f, NumbersAreNat DEF Same
    <3>5. k > Taken + 1
      BY <3>2, <3>4, <1>n, <1>a
    <3> QED
      BY <3>1, <3>2, <3>5
  <2>2. ASSUME NEW k \in DOMAIN accepted, k > Taken + 1
        PROVE  \E i \in DOMAIN queue' : queue'[i].intact /\ Same(accepted[k], queue'[i])
    <3>1. k > Taken /\ Len(handled) + 1 < k
      BY <2>2, <1>n, <1>a
    <3>2. PICK i \in DOMAIN queue : queue[i].intact /\ Same(accepted[k], queue[i])
      BY <3>1 DEF SockInv, QueueIsUnread
    <3>3. accepted[Len(handled) + 1].n < accepted[k].n
      BY <3>1, <1>n DEF SockInv, InOrder
    <3>4. i # 1
      BY <3>2, <3>3, <1>n, NumbersAreNat DEF Same
    <3>5. i - 1 \in DOMAIN queue' /\ queue'[i - 1] = queue[i]
      BY <3>4, <1>q
    <3> QED
      BY <3>2, <3>5
  <2> QED
    BY <2>1, <2>2, <1>u, <1>t DEF QueueIsUnread
<1> QED
  BY <1>1, <1>2, <1>3, <1>4, <1>n, <1>f

(* The loop reads a datagram into stMsg.                                   *)
LEMMA RecvOkKeeps == ASSUME SockInv, RecvOk PROVE SockInv'
<1>u. /\ UNCHANGED <<fd, arrived, accepted, handled>> /\ pc = "recv" /\ pc' = "handle"
      /\ fromAddr' = queue[1].n /\ stMsg' = Store(stMsg, queue[1])
      /\ Takes /\ ~Holding /\ Holding'
  BY DEF RecvOk, Holding, Takes
<1>k. /\ queue' \in Seq([n : Numbers, len : Lengths, intact : BOOLEAN]) /\ Len(queue') <= Capacity
      /\ queue[1].n \in Numbers /\ Same(accepted[Len(handled) + 1], queue[1])
      /\ InOrder(queue)' /\ InOrder(accepted)' /\ ReadInOrder' /\ QueueIsUnread'
  BY <1>u, TakesKeeps
<1>1. SockTypeOK' /\ ClosedOutside' /\ RelayOpen'
  <2>1. stMsg' \in [head : Numbers, body : Numbers]
    BY <1>u, <1>k DEF Store, SockInv, SockTypeOK
  <2>2. RelayOpen'
    BY <1>u DEF SockInv, RelayOpen
  <2> QED
    BY <2>1, <2>2, <1>u, <1>k DEF SockInv, SockTypeOK, ClosedOutside, PCs
<1>2. WholeIsWhole'
  BY <1>u DEF SockInv, WholeIsWhole
<1>3. HeldWhole'
  BY <1>u, <1>k DEF HeldWhole, Same, Store
<1> QED
  BY <1>k, <1>1, <1>2, <1>3 DEF SockInv

(* The handler of RELAYMESSAGE reads the body.                             *)
LEMMA RecvBodyKeeps == ASSUME SockInv, RecvBody PROVE SockInv'
<1>u. /\ UNCHANGED <<fd, stMsg, arrived, accepted, handled>> /\ pc = "relay" /\ pc' = "body"
      /\ fromAddr' = queue[1].n /\ Takes /\ ~Holding /\ Holding'
  BY DEF RecvBody, Holding, Takes
<1>k. /\ queue' \in Seq([n : Numbers, len : Lengths, intact : BOOLEAN]) /\ Len(queue') <= Capacity
      /\ queue[1].n \in Numbers /\ Same(accepted[Len(handled) + 1], queue[1])
      /\ InOrder(queue)' /\ InOrder(accepted)' /\ ReadInOrder' /\ QueueIsUnread'
  BY <1>u, TakesKeeps
<1>1. SockTypeOK' /\ ClosedOutside'
  BY <1>u, <1>k DEF SockInv, SockTypeOK, ClosedOutside, PCs
<1>2. WholeIsWhole' /\ HeldWhole' /\ RelayOpen'
  BY <1>u DEF SockInv, WholeIsWhole, HeldWhole, RelayOpen
<1> QED
  BY <1>k, <1>1, <1>2 DEF SockInv

(* What the four handlers have in common: they see the datagram just read, *)
(* and only a relay request leads to a body.                               *)
Handles(as) ==
  /\ Holding /\ (pc = "body" <=> as = "body") /\ as \in Uses /\ Sees(as)
  /\ pc' \in {"select", "send", "refused", "ended", "exit", "relay"}
  /\ pc' = "relay" <=> as = "relay"
  /\ \/ fd' = fd /\ pc' # "exit"
     \/ fd' = "closed" /\ pc' = "exit"
  /\ UNCHANGED <<queue, stMsg, fromAddr, arrived, accepted>>

(* Each handler is an instance of that.                                    *)
LEMMA HandlersHandle ==
  ASSUME Handle \/ HandleGetPeers \/ HandleRelay \/ HandleBody
  PROVE  \E as \in Uses : Handles(as)
<1>1. CASE Handle \/ HandleGetPeers
  <2>1. Handles("request")
    BY <1>1 DEF Handle, HandleGetPeers, Answers, Handles, Holding, Uses
  <2> QED
    BY <2>1 DEF Uses
<1>2. CASE HandleRelay
  <2>1. Handles("relay")
    BY <1>2 DEF HandleRelay, Handles, Holding, Uses
  <2> QED
    BY <2>1 DEF Uses
<1>3. CASE HandleBody
  <2>1. Handles("body")
    BY <1>3 DEF HandleBody, Answers, Handles, Holding, Uses
  <2> QED
    BY <2>1 DEF Uses
<1> QED
  BY <1>1, <1>2, <1>3

(* What a handler is given is the next datagram of accepted.               *)
LEMMA HandlesKeeps == ASSUME SockInv, NEW as \in Uses, Handles(as) PROVE SockInv'
<1> DEFINE h == [head |-> stMsg.head, body |-> stMsg.body, from |-> fromAddr, as |-> as]
<1>u. /\ UNCHANGED <<queue, stMsg, fromAddr, arrived, accepted>>
      /\ Holding /\ (pc = "body" <=> as = "body") /\ (pc' = "relay" <=> as = "relay")
      /\ pc' \in {"select", "send", "refused", "ended", "exit", "relay"}
      /\ handled' = Append(handled, h)
  BY DEF Handles, Sees
<1>c. (fd' = fd /\ pc' # "exit") \/ (fd' = "closed" /\ pc' = "exit")
  BY DEF Handles
<1>p. ~Holding' /\ pc' # "handle" /\ pc' # "body" /\ pc' # "socket" /\ (pc = "handle" <=> as # "body")
  BY <1>u DEF Holding
<1>h. h \in Handled /\ h.from = fromAddr /\ h.head = stMsg.head /\ h.body = stMsg.body /\ h.as = as
  BY DEF Handled, SockInv, SockTypeOK
<1>s. accepted \in Seq(Accepted) /\ handled \in Seq(Handled)
  BY DEF SockInv, SockTypeOK, Accepted, Handled
<1> HIDE DEF h
<1>a. /\ handled' \in Seq(Handled) /\ Len(handled) \in Nat /\ Len(handled') = Len(handled) + 1
      /\ DOMAIN handled = 1..Len(handled) /\ DOMAIN handled' = 1..(Len(handled) + 1)
      /\ \A i \in 1..Len(handled) : handled'[i] = handled[i]
      /\ handled'[Len(handled) + 1] = h
  BY <1>u, <1>h, <1>s, AppendProperties
<1>i. \A i \in DOMAIN handled' : i \in DOMAIN handled \/ i = Len(handled) + 1
  BY <1>a
<1>t. Taken' = Taken
  BY <1>u, <1>p, <1>a DEF Taken
<1>n. Taken = Len(handled) + 1 /\ Len(handled) + 1 \in DOMAIN accepted
  BY <1>u, <1>a, <1>s DEF Taken, SockInv, ReadInOrder
<1>1. SockTypeOK' /\ ClosedOutside' /\ RelayOpen'
  <2>1. fd' \in {"open", "closed"} /\ pc' \in PCs /\ (pc' \in {"socket", "exit"} => fd' = "closed")
    BY <1>u, <1>c, <1>p DEF SockInv, SockTypeOK, PCs
  <2>2. RelayOpen'
    <3>1. Len(handled') > 0 /\ handled'[Len(handled')] = h
      BY <1>a
    <3>2. pc' \in {"relay", "body"} <=> h.as = "relay"
      BY <1>u, <1>p, <1>h
    <3> QED
      BY <3>1, <3>2 DEF RelayOpen
  <2> QED
    BY <2>1, <2>2, <1>u, <1>a DEF SockInv, SockTypeOK, ClosedOutside, Handled
<1>2. InOrder(queue)' /\ InOrder(accepted)'
  BY <1>u DEF SockInv, InOrder
<1>3. ReadInOrder'
  <2>1. \A i \in DOMAIN handled' : handled'[i].from = accepted[i].n
    BY <1>i, <1>a, <1>h, <1>u DEF SockInv, ReadInOrder
  <2> QED
    BY <2>1, <1>u, <1>p, <1>t DEF SockInv, ReadInOrder
<1>4. QueueIsUnread'
  BY <1>u, <1>t DEF SockInv, QueueIsUnread
<1>5. WholeIsWhole'
  <2>1. fromAddr = accepted[Len(handled) + 1].n
    BY <1>u DEF SockInv, ReadInOrder
  <2>2. accepted[Len(handled) + 1].len = "full" /\ h.as # "body" =>
          h.head = fromAddr /\ h.body = fromAddr
    BY <1>u, <1>p, <1>h DEF SockInv, HeldWhole
  <2>3. \A i \in DOMAIN handled : handled'[i] = handled[i]
    BY <1>a
  <2> QED
    BY <2>1, <2>2, <2>3, <1>i, <1>a, <1>u DEF SockInv, WholeIsWhole
<1>6. HeldWhole'
  BY <1>p DEF HeldWhole
<1> QED
  BY <1>1, <1>2, <1>3, <1>4, <1>5, <1>6 DEF SockInv

-----------------------------------------------------------------------------
(* Every step keeps the invariant.                                         *)
LEMMA SockInvStep == SockInv /\ [SockNext]_socketvars => SockInv'
<1> SUFFICES ASSUME SockInv, [SockNext]_socketvars PROVE SockInv'
  OBVIOUS
<1>1. CASE Socket
  <2>1. SockTypeOK' /\ ClosedOutside'
    BY <1>1 DEF Socket, SockInv, SockTypeOK, ClosedOutside, PCs
  <2> QED
    BY <1>1, <2>1, ControlStep DEF Socket
<1>2. CASE Bind
  <2>1. SockTypeOK' /\ ClosedOutside'
    BY <1>2 DEF Bind, SockInv, SockTypeOK, ClosedOutside, PCs
  <2> QED
    BY <1>2, <2>1, ControlStep DEF Bind
<1>3. CASE SetNonblock
  <2>1. SockTypeOK' /\ ClosedOutside'
    BY <1>3 DEF SetNonblock, SockInv, SockTypeOK, ClosedOutside, PCs
  <2> QED
    BY <1>3, <2>1, ControlStep DEF SetNonblock
<1>4. CASE \E len \in Lengths, intact \in BOOLEAN : Arrive(len, intact)
  BY <1>4, ArriveKeeps
<1>5. CASE SelectReady
  <2>1. SockTypeOK' /\ ClosedOutside'
    BY <1>5 DEF SelectReady, SockInv, SockTypeOK, ClosedOutside, PCs
  <2> QED
    BY <1>5, <2>1, ControlStep DEF SelectReady
<1>6. CASE RecvCorrupt
  BY <1>6, RecvCorruptKeeps
<1>7. CASE RecvOk
  BY <1>7, RecvOkKeeps
<1>8. CASE Handle \/ HandleGetPeers \/ HandleRelay \/ HandleBody
  BY <1>8, HandlersHandle, HandlesKeeps
<1>11. CASE RecvBody
  BY <1>11, RecvBodyKeeps
<1>9. CASE SendOk
  <2>1. SockTypeOK' /\ ClosedOutside'
    BY <1>9 DEF SendOk, SockInv, SockTypeOK, ClosedOutside, PCs
  <2> QED
    BY <1>9, <2>1, ControlStep DEF SendOk
<1>10. CASE UNCHANGED socketvars
  <2>1. SockTypeOK' /\ ClosedOutside' /\ InOrder(queue)' /\ InOrder(accepted)'
    BY <1>10 DEF socketvars, SockInv, SockTypeOK, ClosedOutside, InOrder
  <2>2. ReadInOrder' /\ WholeIsWhole' /\ HeldWhole'
    BY <1>10 DEF socketvars, SockInv, ReadInOrder, Taken, Holding, WholeIsWhole, HeldWhole
  <2>3. QueueIsUnread' /\ RelayOpen'
    BY <1>10 DEF socketvars, SockInv, QueueIsUnread, Taken, Holding, RelayOpen
  <2> QED
    BY <2>1, <2>2, <2>3 DEF SockInv
<1> QED
  BY <1>1, <1>2, <1>3, <1>4, <1>5, <1>6, <1>7, <1>8, <1>9, <1>10, <1>11
     DEF SockNext, SelectAgain, RecvAgain, SendAgain

(* SockInv holds in every reachable state.                                 *)
LEMMA SockInvariance == SockSpec => []SockInv
  BY SockInvInit, SockInvStep, PTL DEF SockSpec

(* Type correctness of the socket layer; the descriptor is closed whenever *)
(* FTC_CreateUdpSock has failed.                                           *)
THEOREM SockTypeCorrect == SockSpec => []SockTypeOK
<1>1. SockInv => SockTypeOK
  BY DEF SockInv
<1> QED
  BY <1>1, SockInvariance, PTL

(* A whole T_Msg reaches the switch as it was sent: FTC_Recvfrom2 never    *)
(* leaves old bytes in it, whatever short datagrams and bodies were read   *)
(* before.                                                                 *)
THEOREM SockWholeIsWhole == SockSpec => []WholeIsWhole
<1>1. SockInv => WholeIsWhole
  BY DEF SockInv
<1> QED
  BY <1>1, SockInvariance, PTL

-----------------------------------------------------------------------------
(* A function on 1..n is a sequence of length n.                           *)
LEMMA FunctionIsSeq ==
  ASSUME NEW S, NEW n \in Nat, NEW f \in [1..n -> S]
  PROVE  f \in Seq(S) /\ Len(f) = n
<1>1. f \in Seq(S)
  BY SeqDef
<1>2. DOMAIN f = 1..Len(f) /\ Len(f) \in Nat
  BY <1>1, LenProperties
<1> QED
  BY <1>1, <1>2

(* What the refinement mapping shows of one datagram that was handled.     *)
Shown(h) == [d |-> h.from, as |-> h.as]
Entry == [d : Numbers, as : Uses]

(* What it shows of accepted and of handled.                               *)
Mapped ==
  /\ Numbered \in Seq(Numbers) /\ Len(Numbered) = Len(accepted)
  /\ \A i \in 1..Len(accepted) : Numbered[i] = accepted[i].n
  /\ Given \in Seq(Entry) /\ Len(Given) = Len(handled)
  /\ \A i \in 1..Len(handled) : Given[i] = Shown(handled[i])

(* The mapping yields sequences, entry by entry.                           *)
LEMMA MappedSeqs == SockInv => Mapped
<1> SUFFICES ASSUME SockInv PROVE Mapped
  OBVIOUS
<1>1. accepted \in Seq(Accepted) /\ handled \in Seq(Handled)
  BY DEF SockInv, SockTypeOK, Accepted, Handled
<1>2. /\ Len(accepted) \in Nat /\ DOMAIN accepted = 1..Len(accepted)
      /\ Len(handled) \in Nat /\ DOMAIN handled = 1..Len(handled)
  BY <1>1, LenProperties
<1>3. \A i \in 1..Len(accepted) : accepted[i].n \in Numbers
  <2>1. \A i \in 1..Len(accepted) : accepted[i] \in Accepted
    BY <1>1, ElementOfSeq
  <2> QED
    BY <2>1 DEF Accepted
<1>4. \A i \in 1..Len(handled) : Shown(handled[i]) \in Entry
  <2>1. \A i \in 1..Len(handled) : handled[i] \in Handled
    BY <1>1, ElementOfSeq
  <2> QED
    BY <2>1 DEF Handled, Shown, Entry
<1>5. Numbered \in [1..Len(accepted) -> Numbers] /\ Given \in [1..Len(handled) -> Entry]
  BY <1>2, <1>3, <1>4 DEF Numbered, Given, Shown
<1>6. /\ \A i \in 1..Len(accepted) : Numbered[i] = accepted[i].n
      /\ \A i \in 1..Len(handled) : Given[i] = Shown(handled[i])
  BY <1>2 DEF Numbered, Given, Shown
<1> QED
  BY <1>2, <1>5, <1>6, FunctionIsSeq DEF Mapped

(* An arrival that the socket accepts is Accept of the abstract queue.     *)
LEMMA ArriveRefines ==
  ASSUME SockInv, SockInv', NEW len \in Lengths, NEW intact \in BOOLEAN, Arrive(len, intact)
  PROVE  Queue!Accept \/ UNCHANGED <<Numbered, Given>>
<1> DEFINE a == [n |-> arrived', len |-> len]
<1>m. Mapped /\ Mapped'
  BY MappedSeqs, PTL
<1>1. Given' = Given
  BY DEF Arrive, Given
<1>2. CASE accepted' = accepted
  BY <1>1, <1>2 DEF Numbered
<1>3. CASE accepted' = Append(accepted, a)
  <2>1. accepted \in Seq(Accepted) /\ accepted' \in Seq(Accepted)
    BY DEF SockInv, SockTypeOK, Accepted
  <2>2. /\ Len(accepted) \in Nat /\ Len(accepted') = Len(accepted) + 1
        /\ \A i \in 1..Len(accepted) : accepted'[i] = accepted[i]
    <3> HIDE DEF a
    <3> QED
      BY <1>3, <2>1
  <2>3. Len(Numbered) = Len(accepted) /\ Len(Numbered') = Len(Numbered) + 1
    BY <2>2, <1>m DEF Mapped
  <2>4. \A i \in 1..Len(accepted) : Numbered'[i] = Numbered[i] /\ Numbered[i] \in Numbers
    <3>1. \A i \in 1..Len(accepted') : Numbered'[i] = accepted'[i].n
      BY <1>m DEF Mapped
    <3>2. \A i \in 1..Len(accepted) : Numbered[i] = accepted[i].n /\ Numbered[i] \in Numbers
      BY <1>m, ElementOfSeq DEF Mapped
    <3>3. \A i \in 1..Len(accepted) : i \in 1..Len(accepted')
      BY <2>2
    <3> QED
      BY <3>1, <3>2, <3>3, <2>2
  <2>5. SubSeq(Numbered', 1, Len(Numbered)) = Numbered
    <3> DEFINE p == SubSeq(Numbered', 1, Len(Numbered))
    <3>1. \A i \in 1..Len(accepted) : Numbered'[i] \in Numbers
      BY <2>4
    <3>2. /\ p \in Seq(Numbers) /\ Len(p) = Len(Numbered)
          /\ \A i \in 1..Len(accepted) : p[i] = Numbered'[i]
      <4>1. /\ p \in Seq(Numbers)
            /\ Len(p) = IF 1 <= Len(accepted) THEN Len(accepted) - 1 + 1 ELSE 0
            /\ \A i \in 1..(Len(accepted) - 1 + 1) : p[i] = Numbered'[1 + i - 1]
        BY <2>2, <2>3, <3>1, SubSeqProperties
      <4> HIDE DEF p
      <4>2. Len(accepted) - 1 + 1 = Len(accepted)
        BY <2>2
      <4>3. \A i \in 1..Len(accepted) : 1 + i - 1 = i
        OBVIOUS
      <4>4. Len(p) = Len(Numbered)
        BY <4>1, <2>2, <2>3
      <4> QED
        BY <4>1, <4>2, <4>3, <4>4
    <3> HIDE DEF p
    <3>3. Numbered \in Seq(Numbers)
      BY <1>m DEF Mapped
    <3>4. \A i \in 1..Len(p) : p[i] = Numbered[i]
      BY <3>2, <2>3, <2>4
    <3>5. p = Numbered
      BY <3>2, <3>3, <3>4, SeqEqual
    <3> QED
      BY <3>5 DEF p
  <2> QED
    BY <2>3, <2>5, <1>1 DEF Queue!Accept
<1> QED
  BY <1>2, <1>3 DEF Arrive

(* A call of a handler is Give: it gets the next datagram, as a body       *)
(* exactly if the one before it asked for one.                             *)
LEMMA HandleRefines ==
  ASSUME SockInv, SockInv', NEW as \in Uses, Handles(as)
  PROVE  Queue!Give(as)
<1>m. Mapped /\ Mapped'
  BY MappedSeqs, PTL
<1>1. Numbered' = Numbered
  BY DEF Handles, Numbered
<1>2. handled \in Seq(Handled) /\ handled' \in Seq(Handled) /\ accepted \in Seq(Accepted)
  BY DEF SockInv, SockTypeOK, Accepted, Handled
<1>3. Len(handled) \in Nat /\ Len(accepted) \in Nat
  BY <1>2
<1>4. Len(handled) < Len(accepted) /\ fromAddr = accepted[Len(handled) + 1].n
  <2>1. Holding
    BY DEF Handles
  <2> QED
    BY <2>1, <1>3 DEF SockInv, ReadInOrder, Taken
<1> DEFINE h == [head |-> stMsg.head, body |-> stMsg.body, from |-> fromAddr, as |-> as]
           e == [d |-> fromAddr, as |-> as]
<1>5. /\ Len(handled') = Len(handled) + 1
      /\ \A i \in 1..Len(handled) : handled'[i] = handled[i]
      /\ Shown(handled'[Len(handled) + 1]) = e
  <2>1. handled' = Append(handled, h) /\ Shown(h) = e
    BY DEF Handles, Sees, Shown
  <2> HIDE DEF h, e
  <2> QED
    BY <2>1, <1>2
<1>6. /\ Numbered[Len(Given) + 1] = fromAddr /\ Len(Given) < Len(Numbered)
      /\ e \in Entry /\ e = [d |-> Numbered[Len(Given) + 1], as |-> as]
  <2>1. Len(Given) = Len(handled) /\ Len(Numbered) = Len(accepted)
    BY <1>m DEF Mapped
  <2>2. Numbered[Len(handled) + 1] = accepted[Len(handled) + 1].n
    <3>1. Len(handled) + 1 \in 1..Len(accepted)
      BY <1>3, <1>4
    <3> QED
      BY <3>1, <1>m DEF Mapped
  <2>3. fromAddr \in Numbers
    BY DEF SockInv, SockTypeOK
  <2> QED
    BY <2>1, <2>2, <2>3, <1>4 DEF Entry
<1>7. Given' = Append(Given, e)
  <2> HIDE DEF e
  <2> DEFINE g == Append(Given, e)
  <2>1. Given \in Seq(Entry) /\ Given' \in Seq(Entry)
    BY <1>m DEF Mapped
  <2>2. Len(Given) = Len(handled) /\ Len(Given') = Len(handled) + 1
    BY <1>m, <1>5 DEF Mapped
  <2>3. g \in Seq(Entry) /\ Len(g) = Len(handled) + 1
        /\ (\A i \in 1..Len(handled) : g[i] = Given[i]) /\ g[Len(handled) + 1] = e
    BY <2>1, <2>2, <1>6, AppendProperties
  <2> HIDE DEF g
  <2>4. \A i \in 1..(Len(handled) + 1) : i \in 1..Len(handled) \/ i = Len(handled) + 1
    BY <1>3
  <2>5. \A i \in 1..(Len(handled) + 1) : Given'[i] = Shown(handled'[i])
    BY <1>m, <1>5 DEF Mapped
  <2>6. \A i \in 1..Len(handled) : Given[i] = Shown(handled[i])
    BY <1>m DEF Mapped
  <2>7. \A i \in 1..(Len(handled) + 1) : Given'[i] = g[i]
    BY <2>3, <2>4, <2>5, <2>6, <1>5
  <2>8. Given' = g
    BY <2>1, <2>2, <2>3, <2>7, SeqEqual
  <2> QED
    BY <2>8 DEF g
<1>8. as = "body" <=> Queue!BodyIsNext
  <2>1. as = "body" <=> pc \in {"relay", "body"}
    BY DEF Handles, Holding
  <2>2. Len(Given) = Len(handled)
    BY <1>m DEF Mapped
  <2>3. Len(handled) > 0 => Given[Len(handled)].as = handled[Len(handled)].as
    <3>1. Len(handled) > 0 => Given[Len(handled)] = Shown(handled[Len(handled)])
      BY <1>m, <1>3 DEF Mapped
    <3> QED
      BY <3>1 DEF Shown
  <2> QED
    BY <2>1, <2>2, <2>3 DEF SockInv, RelayOpen, Queue!BodyIsNext
<1> QED
  BY <1>1, <1>6, <1>7, <1>8 DEF Queue!Give

(* The receive loop implements the abstract queue: retries, spurious       *)
(* readiness and corrupt datagrams are stuttering steps of it, and the     *)
(* nested read of RELAYMESSAGE takes exactly the datagram that follows it. *)
THEOREM SockHandsOver == SockSpec => HandsOver
<1>1. SockInit => Queue!QInit
  <2> SUFFICES ASSUME SockInit PROVE Queue!QInit
    OBVIOUS
  <2>1. accepted = <<>> /\ handled = <<>>
    BY DEF SockInit
  <2>2. SockInv
    BY SockInvInit
  <2>3. Numbered \in Seq(Numbers) /\ Len(Numbered) = 0 /\ Given \in Seq(Entry) /\ Len(Given) = 0
    BY <2>1, <2>2, MappedSeqs DEF Mapped
  <2> QED
    BY <2>3, EmptySeq DEF Queue!QInit
<1>2. SockInv /\ SockInv' /\ [SockNext]_socketvars =>
        [Queue!QNext]_<<Numbered, Given>>
  <2> SUFFICES ASSUME SockInv, SockInv', [SockNext]_socketvars
               PROVE  Queue!QNext \/ UNCHANGED <<Numbered, Given>>
    OBVIOUS
  <2>1. CASE \E len \in Lengths, intact \in BOOLEAN : Arrive(len, intact)
    BY <2>1, ArriveRefines DEF Queue!QNext
  <2>2. CASE Handle \/ HandleGetPeers \/ HandleRelay \/ HandleBody
    <3>1. PICK as \in Uses : Handles(as)
      BY <2>2, HandlersHandle
    <3>2. Queue!Give(as) /\ as \in {"request", "relay", "body"}
      BY <3>1, HandleRefines DEF Uses
    <3> QED
      BY <3>2 DEF Queue!QNext
  <2>3. CASE UNCHANGED <<accepted, handled>>
    BY <2>3 DEF Numbered, Given
  <2> QED
    BY <2>1, <2>2, <2>3 DEF SockNext, Socket, Bind, SetNonblock, SelectReady, SelectAgain,
       RecvAgain, RecvCorrupt, RecvOk, RecvBody, SendOk, SendAgain, socketvars
<1> QED
  BY <1>1, <1>2, SockInvariance, PTL DEF SockSpec, HandsOver, Queue!QSpec

=============================================================================
