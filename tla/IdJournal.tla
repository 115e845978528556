----------------------------- MODULE IdJournal ------------------------------
(***************************************************************************)
(* What the database layer promises to the one who registered an insert    *)
(* callback (sqlite_reg_insertcallback): for each table it is told the ids *)
(* of the rows in the order of the ids, no id twice, and none that is a    *)
(* multiple of SERVER_NUM_CYC.  A listener can replay the inserts.         *)
(***************************************************************************)
EXTENDS Naturals, Sequences

CONSTANTS Tables, SERVER_NUM_CYC

VARIABLE journal    \* the ids announced for each table, in order

JournalInit == journal = [t \in Tables |-> <<>>]

(* One more id, the last of the new journal of t.                          *)
Announce(t) ==
  /\ journal'[t] # <<>>
  /\ LET i == journal'[t][Len(journal'[t])] IN
       /\ i % SERVER_NUM_CYC # 0
       /\ \A k \in 1..Len(journal[t]) : journal[t][k] < i
       /\ journal' = [journal EXCEPT ![t] = Append(@, i)]

JournalNext == \E t \in Tables : Announce(t)

JournalSpec == JournalInit /\ [][JournalNext]_journal

=============================================================================
