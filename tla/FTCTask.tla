------------------------------ MODULE FTCTask -------------------------------
(***************************************************************************)
(* The task library (FTCTask.c): one owner thread that creates a task,     *)
(* waits for it and deletes it, and the task's thread TskEntry.  The two   *)
(* share eTskState without a lock: every read and every write of it is a   *)
(* step of its own.                                                        *)
(***************************************************************************)
EXTENDS Integers

CONSTANTS
  TSK_DELETE_TRY_TIMES,   \* polls of TSK_delete before it cancels the thread
  Timeouts,               \* the uiTimeOut values the owner uses, in polls of 10 ms
                          \* (-1: no limit)
  Careful                 \* does the owner delete only tasks that were ready

ASSUME TaskAssumption ==
  /\ TSK_DELETE_TRY_TIMES \in Nat \ {0}
  /\ Timeouts \subseteq Nat \cup {-1}
  /\ Careful \in BOOLEAN

VARIABLES
  own,         \* where the owner is
  thr,         \* where the task's thread is
  eTskState,   \* hTsk->eTskState
  handle,      \* the memory of hTsk
  param,       \* the memory of T_CommonParam
  uiTimeOut, uiTimes, iLoop,   \* locals of TSK_WaitforReady and TSK_delete
  cancel       \* has the owner called pthread_cancel

tvars == <<own, thr, eTskState, handle, param, uiTimeOut, uiTimes, iLoop, cancel>>

E_TskState == {"IDLE", "RUNNING", "TERMINATING"}
OwnerPCs == {"start", "failed", "created", "waiting", "ready", "timeout",
             "deleting", "mark", "poll", "cancel", "join", "free", "done"}
ThreadPCs == {"none", "entry", "proc", "wait", "idle", "freeparam", "dead"}
Memory == {"none", "live", "freed"}

TaskInit ==
  /\ own = "start" /\ thr = "none" /\ eTskState = "IDLE"
  /\ handle = "none" /\ param = "none"
  /\ uiTimeOut = -1 /\ uiTimes = 0 /\ iLoop = 0 /\ cancel = FALSE

-----------------------------------------------------------------------------
(* The owner.                                                              *)

(* Every failing path of TSK_create frees what it allocated before.        *)
TSK_create ==
  /\ own = "start"
  /\ \/ /\ own' = "created" /\ thr' = "entry" /\ eTskState' = "IDLE"
        /\ handle' = "live" /\ param' = "live"
     \/ own' = "failed" /\ UNCHANGED <<thr, eTskState, handle, param>>
  /\ UNCHANGED <<uiTimeOut, uiTimes, iLoop, cancel>>

(* The owner calls TSK_WaitforReady, again after a time-out if it likes.   *)
TSK_WaitforReady ==
  /\ own \in {"created", "timeout"}
  /\ own' = "waiting" /\ uiTimes' = 0 /\ uiTimeOut' \in Timeouts
  /\ UNCHANGED <<thr, eTskState, handle, param, iLoop, cancel>>

(* One turn of its loop.                                                   *)
WaitTurn ==
  /\ own = "waiting"
  /\ IF eTskState # "IDLE"
       THEN own' = "ready" /\ UNCHANGED uiTimes
       ELSE IF uiTimeOut = -1
         THEN UNCHANGED <<own, uiTimes>>
         ELSE /\ uiTimes' = uiTimes + 1
              /\ own' = IF uiTimes + 1 > uiTimeOut THEN "timeout" ELSE "waiting"
  /\ UNCHANGED <<thr, eTskState, handle, param, uiTimeOut, iLoop, cancel>>

(* The owner calls TSK_delete.                                             *)
TSK_delete ==
  /\ own \in (IF Careful THEN {"ready"} ELSE {"created", "ready", "timeout"})
  /\ own' = "deleting" /\ iLoop' = 0
  /\ UNCHANGED <<thr, eTskState, handle, param, uiTimeOut, uiTimes, cancel>>

(* The test of the outer if.                                               *)
DeleteTest ==
  /\ own = "deleting"
  /\ own' = IF eTskState # "IDLE" THEN "mark" ELSE "free"
  /\ UNCHANGED <<thr, eTskState, handle, param, uiTimeOut, uiTimes, iLoop, cancel>>

DeleteMark ==
  /\ own = "mark"
  /\ own' = "poll" /\ eTskState' = "TERMINATING"
  /\ UNCHANGED <<thr, handle, param, uiTimeOut, uiTimes, iLoop, cancel>>

(* Mutant: the tries are tested before they are counted.                   *)
DeletePollLate ==
  /\ own = "poll"
  /\ IF eTskState = "IDLE"
       THEN own' = "cancel" /\ UNCHANGED iLoop
       ELSE /\ iLoop' = iLoop + 1
            /\ own' = IF iLoop = TSK_DELETE_TRY_TIMES THEN "cancel" ELSE "poll"
  /\ UNCHANGED <<thr, eTskState, handle, param, uiTimeOut, uiTimes, cancel>>

(* One turn of the while: the thread is idle, or this is the last try.     *)
DeletePoll ==
  /\ own = "poll"
  /\ IF eTskState = "IDLE"
       THEN own' = "cancel" /\ UNCHANGED iLoop
       ELSE /\ iLoop' = iLoop + 1
            /\ own' = IF iLoop + 1 = TSK_DELETE_TRY_TIMES THEN "cancel" ELSE "poll"
  /\ UNCHANGED <<thr, eTskState, handle, param, uiTimeOut, uiTimes, cancel>>

(* Mutant: the thread is joined without being cancelled.                   *)
DeleteNoCancel ==
  /\ own = "cancel"
  /\ own' = "join"
  /\ UNCHANGED <<thr, eTskState, handle, param, uiTimeOut, uiTimes, iLoop, cancel>>

(* pthread_cancel: also after the loop found the thread idle.              *)
DeleteCancel ==
  /\ own = "cancel"
  /\ own' = "join" /\ cancel' = TRUE
  /\ UNCHANGED <<thr, eTskState, handle, param, uiTimeOut, uiTimes, iLoop>>

(* Mutant: the thread is not joined.                                       *)
DeleteNoJoin ==
  /\ own = "join"
  /\ own' = "free"
  /\ UNCHANGED <<thr, eTskState, handle, param, uiTimeOut, uiTimes, iLoop, cancel>>

(* pthread_join returns when the thread has ended.                         *)
DeleteJoin ==
  /\ own = "join" /\ thr = "dead"
  /\ own' = "free"
  /\ UNCHANGED <<thr, eTskState, handle, param, uiTimeOut, uiTimes, iLoop, cancel>>

DeleteFree ==
  /\ own = "free"
  /\ own' = "done" /\ handle' = "freed"
  /\ UNCHANGED <<thr, eTskState, param, uiTimeOut, uiTimes, iLoop, cancel>>

Owner == \/ TSK_create \/ TSK_WaitforReady \/ WaitTurn \/ TSK_delete \/ DeleteTest
         \/ DeleteMark \/ DeletePoll \/ DeleteCancel \/ DeleteJoin \/ DeleteFree

-----------------------------------------------------------------------------
(* The thread.                                                             *)

owner == <<own, handle, uiTimeOut, uiTimes, iLoop, cancel>>

EntryRunning ==
  /\ thr = "entry"
  /\ thr' = "proc" /\ eTskState' = "RUNNING"
  /\ UNCHANGED <<param, owner>>

(* Mutant: the state is set again when pfProc has returned.                *)
ProcReturnsRunning ==
  /\ thr = "proc"
  /\ thr' = "wait" /\ eTskState' = "RUNNING"
  /\ UNCHANGED <<param, owner>>

(* pfProc returns (it need not).                                           *)
ProcReturns ==
  /\ thr = "proc"
  /\ thr' = "wait"
  /\ UNCHANGED <<eTskState, param, owner>>

(* while (RUNNING == eTskState) TSK_wait(10)                               *)
EntryWait ==
  /\ thr = "wait"
  /\ thr' = IF eTskState = "RUNNING" THEN "wait" ELSE "idle"
  /\ UNCHANGED <<eTskState, param, owner>>

EntryIdle ==
  /\ thr = "idle"
  /\ thr' = "freeparam" /\ eTskState' = "IDLE"
  /\ UNCHANGED <<param, owner>>

EntryFree ==
  /\ thr = "freeparam"
  /\ thr' = "dead" /\ param' = "freed"
  /\ UNCHANGED <<eTskState, owner>>

(* The thread dies of pthread_cancel at a cancellation point: one of       *)
(* pfProc, or the nanosleep of TSK_wait.  Its parameter is not freed.      *)
Cancelled ==
  /\ cancel /\ thr \in {"proc", "wait"}
  /\ thr' = "dead"
  /\ UNCHANGED <<eTskState, param, owner>>

TskEntry == EntryRunning \/ ProcReturns \/ EntryWait \/ EntryIdle \/ EntryFree \/ Cancelled

TaskNext == Owner \/ TskEntry

TaskSpec == TaskInit /\ [][TaskNext]_tvars

(* Both threads are scheduled; pfProc is not assumed to return, but to     *)
(* meet cancellation points.                                               *)
TaskFairSpec ==
  /\ TaskSpec
  /\ WF_tvars(DeleteTest \/ DeleteMark \/ DeletePoll \/ DeleteCancel \/ DeleteJoin \/ DeleteFree)
  /\ WF_tvars(EntryRunning \/ EntryIdle \/ EntryFree)
  /\ WF_tvars(Cancelled)

-----------------------------------------------------------------------------

TaskTypeOK ==
  /\ own \in OwnerPCs /\ thr \in ThreadPCs /\ eTskState \in E_TskState
  /\ handle \in Memory /\ param \in Memory
  /\ uiTimeOut \in Nat \cup {-1} /\ uiTimes \in Nat
  /\ iLoop \in 0..TSK_DELETE_TRY_TIMES
  /\ cancel \in BOOLEAN

(* Once TSK_delete has freed the handle, TskEntry reads and writes         *)
(* hTsk->eTskState no more.  It holds for an owner that deletes only tasks *)
(* TSK_WaitforReady has reported ready: TSK_delete takes IDLE for "ended"  *)
(* while a thread that has not started yet is IDLE too.                    *)
NoUseAfterFree == handle = "freed" => thr \notin {"entry", "proc", "wait", "idle"}

(* A request to terminate is not lost: once eTskState is TERMINATING, it   *)
(* changes only to IDLE, although TskEntry writes RUNNING without looking. *)
TerminationSticks ==
  [][eTskState = "TERMINATING" => eTskState' \in {"TERMINATING", "IDLE"}]_tvars

(* TSK_delete returns, whether or not pfProc does.                         *)
DeleteReturns == own = "deleting" ~> own = "done"

=============================================================================
