----------------------------- MODULE P2PServer ------------------------------
(***************************************************************************)
(* The P2P server (server.cpp) as it is compiled: main() opens or creates  *)
(* p2pinfo.db, creates the tables of a new file, binds the socket and      *)
(* starts one thread, P2PSrvProc, which answers one datagram at a time.    *)
(*                                                                         *)
(* The registry of logged-in users is the table p2p_peerinfo.  The list    *)
(* ClientList that the hole-punching handlers consult is only filled       *)
(* inside "#if 0" and is therefore always empty.                           *)
(*                                                                         *)
(* A handler is one step: the thread is the only one to use the database,  *)
(* and a crash between a commit and the reply shows the client the same as *)
(* a lost reply followed by a crash.  What sqlite answers to a statement   *)
(* is chosen by the environment within QueryFaults, WriteFaults and        *)
(* InitFaults ("busy": another process holds the lock; "err": any other    *)
(* failure; "open": sqlite3_open fails).                                   *)
(***************************************************************************)
EXTENDS P2PNet, Integers

CONSTANTS InitFaults,     \* faults of the statements of a first start
          QueryFaults,    \* faults of sqllite_query
          WriteFaults,    \* faults of sqllite_insert and sqllite_update
          CrashPoints     \* values of pc at which the process may be killed

PCs == {"off", "init", "sock", "run", "relay", "exited", "spin"}

ASSUME ServerAssumption ==
  /\ InitFaults \subseteq {"busy", "err", "open"}
  /\ QueryFaults \subseteq {"busy", "err"}
  /\ WriteFaults \subseteq {"busy", "err"}
  /\ CrashPoints \subseteq PCs

VARIABLES
  pc,        \* where the process is; "off": not running, "exited": the
             \* receive thread has returned and main() sleeps for ever,
             \* "spin": FTC_Sendto2 retries for ever
  step,      \* the next statement of a first start
  dbfile,    \* does the file p2pinfo.db exist
  schema,    \* the statements of a first start that took effect
  rows,      \* the rows of p2p_peerinfo
  seq,       \* sqlite_sequence of p2p_peerinfo (autoincrement)
  granted    \* history: the <<address, name>> pairs ever put online

srvdb == <<dbfile, schema, rows, seq, granted>>
svars == <<net, pc, step, dbfile, schema, rows, seq, granted>>

(* The statements initbasicdata and main() run on a new database file.     *)
InitStatements == <<"p2p_peerinfo", "p2p_dbversion", "version">>

(* The list of peers held in memory: no compiled statement adds to it.     *)
ClientList == {}

CheckPeerListByName(list, n) == \E p \in list : p.name = n

T_PeerRow == [id : Nat, username : Names, pub : Addrs, loginstatus : {0, 1}]

SrvInit ==
  /\ pc = "off" /\ step = 1 /\ dbfile = FALSE /\ schema = {}
  /\ rows = {} /\ seq = 0 /\ granted = {}

-----------------------------------------------------------------------------
(* The database as db_sqlite.cpp presents it; t is the table.              *)

HasTable == "p2p_peerinfo" \in schema

Matches(t, n) == {r \in t : r.username = n}

(* "select ... where username=": a table scan, so the row of least id.     *)
First(t, n) == CHOOSE r \in Matches(t, n) : \A s \in Matches(t, n) : r.id <= s.id

(* The values sqllite_query may return: 0 a row, -2 no row, -1 an error    *)
(* (a missing table is one, and so is a locked database).                  *)
sqllite_query(n) ==
  (IF ~HasTable THEN {-1} ELSE IF Matches(rows, n) = {} THEN {-2} ELSE {0})
    \cup (IF QueryFaults = {} THEN {} ELSE {-1})

(* What may become of an insert or an update; only "ok" changes the table. *)
WriteOutcomes == IF HasTable THEN {"ok"} \cup WriteFaults ELSE {"err"}

(* What sqllite_insert and sqllite_update return: SQLITE_BUSY reaches the  *)
(* label END and returns 0 as success does.                                *)
WriteRet(w) == IF w = "err" THEN -1 ELSE 0

(* "update ... set pub..., loginstatus=1 where username=n": all rows of n. *)
SetOnline(t, n, a) ==
  {IF r.username = n THEN [r EXCEPT !.pub = a, !.loginstatus = 1] ELSE r : r \in t}

(* Mutant: the update has no where clause.                                 *)
SetOfflineAll(t, n) == {[r EXCEPT !.loginstatus = 0] : r \in t}

(* "update ... set loginstatus=0 where username=n".                        *)
SetOffline(t, n) ==
  {IF r.username = n THEN [r EXCEPT !.loginstatus = 0] ELSE r : r \in t}

NewRow(n, a) == [id |-> seq + 1, username |-> n, pub |-> a, loginstatus |-> 1]

-----------------------------------------------------------------------------
(* main()                                                                  *)

(* Mutant: a restart puts every user offline.                              *)
StartForgets ==
  /\ pc = "off" /\ dbfile' = TRUE /\ step' = 1
  /\ pc' = IF dbfile THEN "sock" ELSE "init"
  /\ rows' = {[r EXCEPT !.loginstatus = 0] : r \in rows}
  /\ UNCHANGED <<net, schema, seq, granted>>

(* sqllite_init: a missing file is created and 1 returned (the tables are  *)
(* created then), an existing file is opened as it is.                     *)
Start ==
  /\ pc = "off"
  /\ dbfile' = TRUE
  /\ step' = 1
  /\ \/ pc' = IF dbfile THEN "sock" ELSE "init"
     \/ "open" \in InitFaults /\ pc' = "off"
  /\ UNCHANGED <<net, schema, rows, seq, granted>>

(* Mutant: the statement counter runs one past the last statement.         *)
InitStatementPast ==
  /\ pc = "init"
  /\ schema' = schema \cup {InitStatements[step]}
  /\ step' = step + 1
  /\ pc' = IF step < 3 THEN "init" ELSE "sock"
  /\ UNCHANGED <<net, dbfile, rows, seq, granted>>

(* One statement of a first start; a busy one counts as done, a failed one *)
(* makes main() return -1.                                                 *)
InitStatement ==
  /\ pc = "init"
  /\ \E w \in {"ok"} \cup (InitFaults \ {"open"}) :
       /\ schema' = IF w = "ok" THEN schema \cup {InitStatements[step]} ELSE schema
       /\ step' = IF WriteRet(w) = 0 /\ step < 3 THEN step + 1 ELSE step
       /\ pc' = IF WriteRet(w) < 0 THEN "off" ELSE IF step < 3 THEN "init" ELSE "sock"
  /\ UNCHANGED <<net, dbfile, rows, seq, granted>>

(* FTC_CreateUdpSock and the start of P2PSrvProc; either may fail, and     *)
(* main() returns -1 then.                                                 *)
OpenSock ==
  /\ pc = "sock"
  /\ pc' \in {"run", "off"}
  /\ UNCHANGED <<net, step, dbfile, schema, rows, seq, granted>>

(* The process is killed (operator, kernel) wherever it is.                *)
Crash ==
  /\ pc \in CrashPoints \ {"off"}
  /\ pc' = "off"
  /\ UNCHANGED <<net, step, dbfile, schema, rows, seq, granted>>

-----------------------------------------------------------------------------
(* P2PSrvProc: FTC_SelectRead, FTC_Recvfrom2 and the switch on uiMsgId.    *)

Receives(d, i) == pc = "run" /\ d \in net /\ d.dst = Server /\ d.id = i

ResponseLoginmsg(d, value) == Exchange(d, {Response(d.src, "MSG_R_LOGIN", None, value)})

(* Mutant: the result of the write is not looked at.                       *)
LoginResultUnchecked(w) == 0

(* The result byte for what the write returned.                            *)
LoginResult(w) == IF WriteRet(w) = 0 THEN 0 ELSE 1

(* MSG_C_LOGIN of a name whose row says it is logged in.                   *)
LoginReject(d) ==
  /\ Receives(d, "MSG_C_LOGIN")
  /\ 0 \in sqllite_query(d.my)
  /\ First(rows, d.my).loginstatus = 1
  /\ ResponseLoginmsg(d, 1)
  /\ UNCHANGED <<pc, step, srvdb>>

(* MSG_C_LOGIN of a name whose row says it is logged out.                  *)
LoginUpdate(d) ==
  /\ Receives(d, "MSG_C_LOGIN")
  /\ 0 \in sqllite_query(d.my)
  /\ First(rows, d.my).loginstatus # 1
  /\ \E w \in WriteOutcomes :
       /\ rows' = IF w = "ok" THEN SetOnline(rows, d.my, d.src) ELSE rows
       /\ granted' = IF w = "ok" THEN granted \cup {<<d.src, d.my>>} ELSE granted
       /\ ResponseLoginmsg(d, LoginResult(w))
  /\ UNCHANGED <<pc, step, dbfile, schema, seq>>

(* Mutant: the row is inserted without asking whether there is one.        *)
LoginInsertBlind(d) ==
  /\ Receives(d, "MSG_C_LOGIN")
  /\ rows' = rows \cup {NewRow(d.my, d.src)}
  /\ seq' = seq + 1
  /\ granted' = granted \cup {<<d.src, d.my>>}
  /\ ResponseLoginmsg(d, 0)
  /\ UNCHANGED <<pc, step, dbfile, schema>>

(* MSG_C_LOGIN when the query returned anything but a row.                 *)
LoginInsert(d) ==
  /\ Receives(d, "MSG_C_LOGIN")
  /\ \E q \in sqllite_query(d.my) : q # 0
  /\ \E w \in WriteOutcomes :
       /\ rows' = IF w = "ok" THEN rows \cup {NewRow(d.my, d.src)} ELSE rows
       /\ seq' = IF w = "ok" THEN seq + 1 ELSE seq
       /\ granted' = IF w = "ok" THEN granted \cup {<<d.src, d.my>>} ELSE granted
       /\ ResponseLoginmsg(d, LoginResult(w))
  /\ UNCHANGED <<pc, step, dbfile, schema>>

(* MSG_C_LOGOUT: answered only if the update did not return an error; who  *)
(* sent it is not looked at.                                               *)
Logout(d) ==
  /\ Receives(d, "MSG_C_LOGOUT")
  /\ \E w \in WriteOutcomes :
       /\ rows' = IF w = "ok" THEN SetOffline(rows, d.my) ELSE rows
       /\ Exchange(d, IF WriteRet(w) = 0 THEN {Response(d.src, "MSG_R_LOGOUT", None, 0)}
                                         ELSE {})
  /\ UNCHANGED <<pc, step, dbfile, schema, seq, granted>>

(* MSG_C_GET_PEERS: the select has a comma where "and" belongs, so its     *)
(* preparation always fails and the thread returns.                        *)
GetPeers(d) ==
  /\ Receives(d, "MSG_C_GET_PEERS")
  /\ Exchange(d, {})
  /\ pc' = "exited"
  /\ UNCHANGED <<step, srvdb>>

(* MSG_C_HEART_BEAT: the name is printed.                                  *)
HeartBeat(d) ==
  /\ Receives(d, "MSG_C_HEART_BEAT")
  /\ Exchange(d, {})
  /\ UNCHANGED <<pc, step, srvdb>>

(* MSG_C_HOLE: the peer is looked up in ClientList.                        *)
Hole(d) ==
  /\ Receives(d, "MSG_C_HOLE")
  /\ ~CheckPeerListByName(ClientList, d.to)
  /\ Exchange(d, {Response(d.src, "MSG_R_HOLE", None, 1)})
  /\ UNCHANGED <<pc, step, srvdb>>

(* MSG_C_HAVE_SEND_P2P_REQ: GetPeerByName finds nothing and runs off its   *)
(* end, so the address is garbage: the process crashes, MSG_C_P2P_CAN_     *)
(* START_REQ goes to an arbitrary address (a client's, or one nobody       *)
(* owns), or sendto refuses the address and FTC_Sendto2 spins.             *)
HaveSendP2P(d) ==
  /\ Receives(d, "MSG_C_HAVE_SEND_P2P_REQ")
  /\ \/ pc' = "run" /\ Exchange(d, {})
     \/ \E a \in Addrs :
          pc' = "run" /\ Exchange(d, {Response(a, "MSG_C_P2P_CAN_START_REQ", d.my, 0)})
     \/ pc' \in {"off", "spin"} /\ Exchange(d, {})
  /\ UNCHANGED <<step, srvdb>>

(* RELAYMESSAGE: the same lookup, then the thread waits for the body.      *)
Relay(d) ==
  /\ Receives(d, "RELAYMESSAGE")
  /\ Exchange(d, {})
  /\ pc' \in {"relay", "off"}
  /\ UNCHANGED <<step, srvdb>>

(* The next datagram, whatever it is, is taken for the body and written    *)
(* past a buffer of length 0.  Its length is never 0, so nothing is        *)
(* forwarded; the overrun may crash the process.                           *)
RelayBody(d) ==
  /\ pc = "relay" /\ d \in net /\ d.dst = Server
  /\ Exchange(d, {})
  /\ pc' \in {"run", "off"}
  /\ UNCHANGED <<step, srvdb>>

(* The switch has no default: any other id is dropped.                     *)
Handled == {"MSG_C_LOGIN", "MSG_C_LOGOUT", "MSG_C_GET_PEERS", "MSG_C_HEART_BEAT",
            "MSG_C_HOLE", "MSG_C_HAVE_SEND_P2P_REQ", "RELAYMESSAGE"}

Ignore(d) ==
  /\ pc = "run" /\ d \in net /\ d.dst = Server /\ d.id \notin Handled
  /\ Exchange(d, {})
  /\ UNCHANGED <<pc, step, srvdb>>

P2PSrvProc(d) ==
  \/ LoginReject(d) \/ LoginUpdate(d) \/ LoginInsert(d) \/ Logout(d) \/ GetPeers(d)
  \/ HeartBeat(d) \/ Hole(d) \/ HaveSendP2P(d) \/ Relay(d) \/ RelayBody(d) \/ Ignore(d)

SrvMain == Start \/ InitStatement \/ OpenSock \/ Crash

SrvNext == SrvMain \/ \E d \in net : P2PSrvProc(d)

-----------------------------------------------------------------------------
(* Properties.                                                             *)

(* Type invariant of the server's state, the datagrams included.           *)
SrvTypeOK ==
  /\ net \subseteq T_Msg
  /\ pc \in PCs
  /\ step \in 1..3
  /\ dbfile \in BOOLEAN
  /\ schema \subseteq {InitStatements[i] : i \in 1..3}
  /\ rows \subseteq T_PeerRow
  /\ seq \in Nat
  /\ granted \subseteq Addrs \X Names

(* A user name has at most one row in p2p_peerinfo: the MSG_C_LOGIN        *)
(* handler inserts only after its query found none ("check if exist"),     *)
(* the table itself has no uniqueness constraint.                          *)
UniqueRow == \A r, s \in rows : r.username = s.username => r = s

(* A file whose first start was cut short or failed before the table       *)
(* existed is served by every later start as it is: then nobody is ever    *)
(* told that a login succeeded, and every MSG_R_LOGIN says failure.        *)
HalfMadeGrantsNothing ==
  ~HasTable => rows = {} /\ \A d \in net : d.id = "MSG_R_LOGIN" => d.res = 1

(* A MSG_R_LOGIN that reports success (0) is sent by a step that put the   *)
(* requester's address online in p2p_peerinfo, and one that reports        *)
(* failure (1) by a step that left the table alone.                        *)
LoginReplyTruthful ==
  [][\A d \in net' \ net : d.id = "MSG_R_LOGIN" =>
       IF d.res = 0 THEN \E r \in rows' \ rows : r.pub = d.dst /\ r.loginstatus = 1
                    ELSE rows' = rows]_svars

(* The addresses a name is online at, by all of its rows.                  *)
HoldersIn(t) ==
  [n \in Names |-> {r.pub : r \in {s \in Matches(t, n) : s.loginstatus = 1}}]

(* The names with more than one row.                                       *)
DoubledIn(t) == {n \in Names : \E r, s \in Matches(t, n) : r # s}

Holders == HoldersIn(rows)

(* The login and logout requests under way.                                *)
LoginRequests == {d \in net : d.dst = Server /\ d.id \in {"MSG_C_LOGIN", "MSG_C_LOGOUT"}}

LS == INSTANCE LoginService WITH
        holders <- Holders, doubled <- DoubledIn(rows), requests <- LoginRequests,
        LookupFails <- QueryFaults # {}, Repeats <- Dup

(* The database implements the login service: the addresses a name is      *)
(* online at change only in the MSG_C_LOGIN and MSG_C_LOGOUT handlers, a   *)
(* held name is granted to nobody else before a MSG_C_LOGOUT for it unless *)
(* a query for it failed, and no crash, restart, failed statement or lost  *)
(* datagram takes a name from its holder.                                  *)
RegistryIsLoginService == LS!LSSpec

=============================================================================
