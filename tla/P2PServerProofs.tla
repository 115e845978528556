-------------------------- MODULE P2PServerProofs ---------------------------
(***************************************************************************)
(* What every step of the server preserves, whatever its environment:      *)
(* lemmas about SrvNext that the proofs of P2PServerEnv and P2PSystem use. *)
(***************************************************************************)
EXTENDS P2PServer, TLAPS, WellFoundedInduction

-----------------------------------------------------------------------------
(* Datagrams.                                                              *)

(* A response is a datagram.                                               *)
LEMMA ResponseType ==
  ASSUME NEW a \in Addrs, NEW i \in MsgIds, NEW my \in Names \cup {None}, NEW r \in {0, 1}
  PROVE  Response(a, i, my, r) \in T_Msg
BY DEF Response, T_Msg, T_Response

(* A request is a datagram.                                                *)
LEMMA RequestType ==
  ASSUME NEW a \in Addrs, NEW i \in MsgIds, NEW my \in Names, NEW to \in Names \cup {None}
  PROVE  Request(a, i, my, to) \in T_Msg
BY DEF Request, T_Msg, T_Request

(* What the server receives was sent by an address and carries a name.     *)
LEMMA RequestFields ==
  ASSUME net \subseteq T_Msg, NEW d \in net, d.dst = Server
  PROVE  d.src \in Addrs /\ d.my \in Names
BY NetAssumption DEF NetAssumption, T_Msg, T_Request, T_Response

(* An exchange of a datagram for datagrams leaves datagrams.               *)
LEMMA ExchangeType ==
  ASSUME net \subseteq T_Msg, NEW d, NEW out \in SUBSET T_Msg, Exchange(d, out)
  PROVE  net' \subseteq T_Msg
BY DEF Exchange

-----------------------------------------------------------------------------
(* The table.  Its ids are distinct and no greater than the sequence.      *)

Table(t, k) ==
  /\ t \subseteq T_PeerRow
  /\ k \in Nat
  /\ \A r \in t : r.id <= k
  /\ \A r, s \in t : r.id = s.id => r = s

(* The row of least id exists, and First is it.                            *)
LEMMA FirstIsLeast ==
  ASSUME NEW t \in SUBSET T_PeerRow, NEW n, Matches(t, n) # {}
  PROVE  /\ First(t, n) \in Matches(t, n)
         /\ \A s \in Matches(t, n) : First(t, n).id <= s.id
<1> DEFINE Ids == {r.id : r \in Matches(t, n)}
<1>1. Ids \subseteq Nat /\ Ids # {}
  BY DEF Matches, T_PeerRow
<1>2. PICK x \in Ids : \A y \in Ids : ~ (<<y, x>> \in OpToRel(<, Nat))
  BY <1>1, NatLessThanWellFounded, WFMin
<1>3. \A y \in Ids : x <= y
  <2> HIDE DEF Ids
  <2>1. OpToRel(<, Nat) = {ss \in Nat \X Nat : ss[1] < ss[2]}
    BY DEF OpToRel
  <2>2. \A y \in Nat, z \in Nat : y < z => <<y, z>> \in {ss \in Nat \X Nat : ss[1] < ss[2]}
    OBVIOUS
  <2>3. \A y \in Ids : ~ (y < x)
    BY <1>1, <1>2, <2>1, <2>2, Zenon
  <2> QED
    BY <1>1, <2>3
<1>4. \E r \in Matches(t, n) : \A s \in Matches(t, n) : r.id <= s.id
  BY <1>3
<1> QED
  BY <1>4 DEF First

(* The update of MSG_C_LOGIN makes a the only holder of n.                 *)
LEMMA OnlineTable ==
  ASSUME NEW t, NEW k, Table(t, k), NEW n \in Names, NEW a \in Addrs, Matches(t, n) # {}
  PROVE  /\ Table(SetOnline(t, n, a), k)
         /\ HoldersIn(SetOnline(t, n, a)) = [HoldersIn(t) EXCEPT ![n] = {a}]
         /\ DoubledIn(SetOnline(t, n, a)) = DoubledIn(t)
<1> DEFINE up(r) == [r EXCEPT !.pub = a, !.loginstatus = 1]
           u == SetOnline(t, n, a)
<1>1. \A r \in t : /\ up(r) \in T_PeerRow /\ up(r).id = r.id /\ up(r).username = r.username
                   /\ up(r).pub = a /\ up(r).loginstatus = 1
  BY DEF Table, T_PeerRow
<1>2. \A x : x \in u <=> \E r \in t : x = IF r.username = n THEN up(r) ELSE r
  BY DEF SetOnline
<1> HIDE DEF up, u
<1>3. Table(u, k)
  BY <1>1, <1>2 DEF Table
<1>4. \A m \in Names : m # n => Matches(u, m) = Matches(t, m)
  BY <1>1, <1>2 DEF Matches
<1>5. \A x : x \in Matches(u, n) <=> \E r \in Matches(t, n) : x = up(r)
  BY <1>1, <1>2 DEF Matches
<1>6. HoldersIn(u)[n] = {a}
  <2>1. \A x \in Matches(u, n) : x.loginstatus = 1 /\ x.pub = a
    BY <1>1, <1>5 DEF Matches
  <2>2. Matches(u, n) # {}
    BY <1>5
  <2> QED
    BY <2>1, <2>2 DEF HoldersIn
<1>7. HoldersIn(u) = [HoldersIn(t) EXCEPT ![n] = {a}]
  BY <1>4, <1>6 DEF HoldersIn
<1>8. n \in DoubledIn(u) <=> n \in DoubledIn(t)
  <2>1. \A r, s \in Matches(t, n) : up(r) = up(s) <=> r = s
    BY <1>1 DEF Table, Matches
  <2> QED
    BY <1>5, <2>1 DEF DoubledIn
<1>9. DoubledIn(u) = DoubledIn(t)
  BY <1>4, <1>8 DEF DoubledIn
<1> QED
  BY <1>3, <1>7, <1>9 DEF u

(* The update of MSG_C_LOGOUT leaves n without a holder.                   *)
LEMMA OfflineTable ==
  ASSUME NEW t, NEW k, Table(t, k), NEW n \in Names
  PROVE  /\ Table(SetOffline(t, n), k)
         /\ HoldersIn(SetOffline(t, n)) = [HoldersIn(t) EXCEPT ![n] = {}]
         /\ DoubledIn(SetOffline(t, n)) = DoubledIn(t)
<1> DEFINE up(r) == [r EXCEPT !.loginstatus = 0]
           u == SetOffline(t, n)
<1>1. \A r \in t : /\ up(r) \in T_PeerRow /\ up(r).id = r.id /\ up(r).username = r.username
                   /\ up(r).loginstatus = 0
  BY DEF Table, T_PeerRow
<1>2. \A x : x \in u <=> \E r \in t : x = IF r.username = n THEN up(r) ELSE r
  BY DEF SetOffline
<1> HIDE DEF up, u
<1>3. Table(u, k)
  BY <1>1, <1>2 DEF Table
<1>4. \A m \in Names : m # n => Matches(u, m) = Matches(t, m)
  BY <1>1, <1>2 DEF Matches
<1>5. \A x : x \in Matches(u, n) <=> \E r \in Matches(t, n) : x = up(r)
  BY <1>1, <1>2 DEF Matches
<1>6. HoldersIn(u)[n] = {}
  <2>1. \A x \in Matches(u, n) : x.loginstatus # 1
    BY <1>1, <1>5 DEF Matches
  <2> QED
    BY <2>1 DEF HoldersIn
<1>7. HoldersIn(u) = [HoldersIn(t) EXCEPT ![n] = {}]
  BY <1>4, <1>6 DEF HoldersIn
<1>8. n \in DoubledIn(u) <=> n \in DoubledIn(t)
  <2>1. \A r, s \in Matches(t, n) : up(r) = up(s) <=> r = s
    BY <1>1 DEF Table, Matches
  <2> QED
    BY <1>5, <2>1 DEF DoubledIn
<1>9. DoubledIn(u) = DoubledIn(t)
  BY <1>4, <1>8 DEF DoubledIn
<1> QED
  BY <1>3, <1>7, <1>9 DEF u

(* One more holder of a name.                                              *)
Joins(h, n, a) == [h EXCEPT ![n] = h[n] \cup {a}]

(* An insert makes a one more holder of n, and doubles a name that had a   *)
(* row (the query failed).                                                 *)
LEMMA InsertTable ==
  ASSUME NEW t, NEW k, Table(t, k), NEW n \in Names, NEW a \in Addrs, NEW r,
         r = [id |-> k + 1, username |-> n, pub |-> a, loginstatus |-> 1]
  PROVE  /\ Table(t \cup {r}, k + 1)
         /\ HoldersIn(t \cup {r}) = Joins(HoldersIn(t), n, a)
         /\ DoubledIn(t \cup {r}) = IF Matches(t, n) = {} THEN DoubledIn(t)
                                                         ELSE DoubledIn(t) \cup {n}
<1> DEFINE u == t \cup {r}
<1>1. /\ r \in T_PeerRow /\ r.id = k + 1 /\ r.username = n /\ r.pub = a /\ r.loginstatus = 1
      /\ k \in Nat /\ \A s \in t : s.id \in Nat /\ s.id < r.id
  BY DEF Table, T_PeerRow
<1>2. Table(u, k + 1)
  BY <1>1 DEF Table
<1>3. \A m \in Names : m # n => Matches(u, m) = Matches(t, m)
  BY <1>1 DEF Matches
<1>4. Matches(u, n) = Matches(t, n) \cup {r} /\ r \notin Matches(t, n)
  BY <1>1 DEF Matches
<1> HIDE DEF u
<1>5. HoldersIn(u)[n] = HoldersIn(t)[n] \cup {a}
  BY <1>1, <1>4 DEF HoldersIn
<1>6. HoldersIn(u) = Joins(HoldersIn(t), n, a)
  BY <1>3, <1>5 DEF HoldersIn, Joins
<1>7. DoubledIn(u) = IF Matches(t, n) = {} THEN DoubledIn(t) ELSE DoubledIn(t) \cup {n}
  BY <1>3, <1>4 DEF DoubledIn
<1> QED
  BY <1>2, <1>6, <1>7 DEF u

(* The same of the row the login handler inserts.                          *)
LEMMA NewRowTable ==
  ASSUME Table(rows, seq), NEW n \in Names, NEW a \in Addrs
  PROVE  /\ Table(rows \cup {NewRow(n, a)}, seq + 1)
         /\ HoldersIn(rows \cup {NewRow(n, a)}) = Joins(HoldersIn(rows), n, a)
         /\ DoubledIn(rows \cup {NewRow(n, a)}) = IF Matches(rows, n) = {} THEN DoubledIn(rows)
                                                  ELSE DoubledIn(rows) \cup {n}
<1> DEFINE r == NewRow(n, a)
<1>1. r = [id |-> seq + 1, username |-> n, pub |-> a, loginstatus |-> 1]
  BY DEF NewRow
<1> HIDE DEF r
<1>2. /\ Table(rows \cup {r}, seq + 1)
      /\ HoldersIn(rows \cup {r}) = Joins(HoldersIn(rows), n, a)
      /\ DoubledIn(rows \cup {r}) = IF Matches(rows, n) = {} THEN DoubledIn(rows)
                                    ELSE DoubledIn(rows) \cup {n}
  BY <1>1, InsertTable
<1> QED
  BY <1>2 DEF r

-----------------------------------------------------------------------------
(* Steps of the server.                                                    *)

(* What a login handler, with its reply, may do to the table: nothing and  *)
(* a refusal, nothing and a claim of success (SQLITE_BUSY), the update or  *)
(* the insert.                                                             *)
LEMMA LoginEffect ==
  ASSUME SrvTypeOK, NEW d \in net,
         LoginReject(d) \/ LoginUpdate(d) \/ LoginInsert(d)
  PROVE  /\ d.src \in Addrs /\ d.my \in Names
         /\ \E v \in {0, 1} :
              /\ Exchange(d, {Response(d.src, "MSG_R_LOGIN", None, v)})
              /\ (v = 0 \/ rows' # rows) => HasTable
              /\ \/ UNCHANGED <<rows, seq, granted>> /\ (v = 0 => "busy" \in WriteFaults)
                 \/ /\ v = 0
                    /\ Matches(rows, d.my) # {} /\ First(rows, d.my).loginstatus # 1
                    /\ rows' = SetOnline(rows, d.my, d.src) /\ seq' = seq
                    /\ granted' = granted \cup {<<d.src, d.my>>}
                 \/ /\ v = 0
                    /\ QueryFaults = {} => Matches(rows, d.my) = {}
                    /\ rows' = rows \cup {NewRow(d.my, d.src)} /\ seq' = seq + 1
                    /\ granted' = granted \cup {<<d.src, d.my>>}
         /\ UNCHANGED <<pc, step, dbfile, schema>>
<1>1. d.src \in Addrs /\ d.my \in Names
  BY RequestFields DEF SrvTypeOK, LoginReject, LoginUpdate, LoginInsert, Receives
<1>2. CASE LoginReject(d)
  <2>1. /\ Exchange(d, {Response(d.src, "MSG_R_LOGIN", None, 1)})
        /\ UNCHANGED <<rows, seq, granted, pc, step, dbfile, schema>>
    BY <1>2 DEF LoginReject, ResponseLoginmsg, srvdb
  <2> QED
    BY <1>1, <2>1
<1>3. CASE LoginUpdate(d)
  <2>1. PICK w \in WriteOutcomes :
          /\ rows' = IF w = "ok" THEN SetOnline(rows, d.my, d.src) ELSE rows
          /\ granted' = IF w = "ok" THEN granted \cup {<<d.src, d.my>>} ELSE granted
          /\ ResponseLoginmsg(d, LoginResult(w))
    BY <1>3 DEF LoginUpdate
  <2>2. /\ w \in {"ok", "busy", "err"} /\ (w = "busy" => "busy" \in WriteFaults)
        /\ w # "err" => HasTable
    BY ServerAssumption DEF ServerAssumption, WriteOutcomes
  <2>3. Matches(rows, d.my) # {} /\ First(rows, d.my).loginstatus # 1
    BY <1>3 DEF LoginUpdate, sqllite_query
  <2>4. LoginResult(w) = IF w = "err" THEN 1 ELSE 0
    BY DEF LoginResult, WriteRet
  <2>5. seq' = seq /\ UNCHANGED <<pc, step, dbfile, schema>>
    BY <1>3 DEF LoginUpdate
  <2> QED
    BY <1>1, <2>1, <2>2, <2>3, <2>4, <2>5 DEF ResponseLoginmsg
<1>4. CASE LoginInsert(d)
  <2>1. PICK w \in WriteOutcomes :
          /\ rows' = IF w = "ok" THEN rows \cup {NewRow(d.my, d.src)} ELSE rows
          /\ seq' = IF w = "ok" THEN seq + 1 ELSE seq
          /\ granted' = IF w = "ok" THEN granted \cup {<<d.src, d.my>>} ELSE granted
          /\ ResponseLoginmsg(d, LoginResult(w))
    BY <1>4 DEF LoginInsert
  <2>2. /\ w \in {"ok", "busy", "err"} /\ (w = "busy" => "busy" \in WriteFaults)
        /\ w # "err" => HasTable
    BY ServerAssumption DEF ServerAssumption, WriteOutcomes
  <2>3. QueryFaults = {} /\ HasTable => Matches(rows, d.my) = {}
    BY <1>4 DEF LoginInsert, sqllite_query
  <2>4. LoginResult(w) = IF w = "err" THEN 1 ELSE 0
    BY DEF LoginResult, WriteRet
  <2>5. UNCHANGED <<pc, step, dbfile, schema>>
    BY <1>4 DEF LoginInsert
  <2> QED
    BY <1>1, <2>1, <2>2, <2>3, <2>4, <2>5 DEF ResponseLoginmsg
<1> QED
  BY <1>2, <1>3, <1>4

(* What the logout handler may do.                                         *)
LEMMA LogoutEffect ==
  ASSUME SrvTypeOK, NEW d \in net, Logout(d)
  PROVE  /\ d.src \in Addrs /\ d.my \in Names
         /\ \E out \in SUBSET {Response(d.src, "MSG_R_LOGOUT", None, 0)} : Exchange(d, out)
         /\ rows' \in {rows, SetOffline(rows, d.my)}
         /\ UNCHANGED <<pc, step, dbfile, schema, seq, granted>>
<1>1. d.src \in Addrs /\ d.my \in Names
  BY RequestFields DEF SrvTypeOK, Logout, Receives
<1> QED
  BY <1>1 DEF Logout

(* Every other handler leaves the database alone and answers no login.     *)
LEMMA OtherEffect ==
  ASSUME SrvTypeOK, NEW d \in net,
         \/ GetPeers(d) \/ HeartBeat(d) \/ Hole(d) \/ HaveSendP2P(d)
         \/ Relay(d) \/ RelayBody(d) \/ Ignore(d)
  PROVE  /\ \E out \in SUBSET T_Msg :
              Exchange(d, out) /\ \A e \in out : e.id # "MSG_R_LOGIN" /\ e.src = Server
         /\ UNCHANGED <<step, srvdb>>
         /\ pc' \in PCs
         /\ pc \in {"run", "relay"}
<1>1. d.dst = Server => d.src \in Addrs /\ d.my \in Names
  BY RequestFields DEF SrvTypeOK
<1>2. CASE GetPeers(d) \/ HeartBeat(d) \/ Relay(d) \/ RelayBody(d) \/ Ignore(d)
  <2>1. Exchange(d, {})
    BY <1>2 DEF GetPeers, HeartBeat, Relay, RelayBody, Ignore
  <2> QED
    BY <1>2, <2>1 DEF GetPeers, HeartBeat, Relay, RelayBody, Ignore, Receives, PCs
<1>3. CASE Hole(d)
  <2>1. Response(d.src, "MSG_R_HOLE", None, 1) \in T_Msg
    BY <1>1, <1>3, ResponseType DEF Hole, Receives, MsgIds
  <2>2. /\ Response(d.src, "MSG_R_HOLE", None, 1).id # "MSG_R_LOGIN"
        /\ Response(d.src, "MSG_R_HOLE", None, 1).src = Server
    BY DEF Response
  <2> QED
    BY <1>3, <2>1, <2>2 DEF Hole, Receives, PCs
<1>4. CASE HaveSendP2P(d)
  <2>1. \A a \in Addrs : Response(a, "MSG_C_P2P_CAN_START_REQ", d.my, 0) \in T_Msg
    BY <1>1, <1>4, ResponseType DEF HaveSendP2P, Receives, MsgIds
  <2>2. \A a \in Addrs : /\ Response(a, "MSG_C_P2P_CAN_START_REQ", d.my, 0).id # "MSG_R_LOGIN"
                         /\ Response(a, "MSG_C_P2P_CAN_START_REQ", d.my, 0).src = Server
    BY DEF Response
  <2>3. \E out \in SUBSET T_Msg :
          Exchange(d, out) /\ \A e \in out : e.id # "MSG_R_LOGIN" /\ e.src = Server
    <3>1. CASE Exchange(d, {})
      BY <3>1
    <3>2. CASE \E a \in Addrs : Exchange(d, {Response(a, "MSG_C_P2P_CAN_START_REQ", d.my, 0)})
      BY <3>2, <2>1, <2>2
    <3> QED
      BY <1>4, <3>1, <3>2 DEF HaveSendP2P
  <2> QED
    BY <1>4, <2>3 DEF HaveSendP2P, Receives, PCs
<1> QED
  BY <1>2, <1>3, <1>4

(* main() leaves the users' rows and the network alone.                    *)
LEMMA MainEffect ==
  ASSUME SrvTypeOK, SrvMain
  PROVE  /\ UNCHANGED <<net, rows, seq, granted>>
         /\ pc' \in PCs /\ step' \in 1..3 /\ dbfile' \in BOOLEAN
         /\ schema' \subseteq {InitStatements[i] : i \in 1..3}
<1>1. CASE Start
  BY <1>1 DEF Start, PCs, SrvTypeOK
<1>2. CASE InitStatement
  BY <1>2 DEF InitStatement, PCs, SrvTypeOK
<1>3. CASE OpenSock \/ Crash
  BY <1>3 DEF OpenSock, Crash, PCs, SrvTypeOK
<1> QED
  BY <1>1, <1>2, <1>3 DEF SrvMain

(* Every step of the server is one of main(), a login, a logout or another *)
(* handler.                                                                *)
LEMMA SrvCases ==
  ASSUME SrvNext
  PROVE  \/ SrvMain
         \/ \E d \in net : LoginReject(d) \/ LoginUpdate(d) \/ LoginInsert(d)
         \/ \E d \in net : Logout(d)
         \/ \E d \in net : \/ GetPeers(d) \/ HeartBeat(d) \/ Hole(d) \/ HaveSendP2P(d)
                           \/ Relay(d) \/ RelayBody(d) \/ Ignore(d)
BY DEF SrvNext, P2PSrvProc

(* The initial state of the server is typed and its table is one.          *)
LEMMA SrvInitType ==
  ASSUME SrvInit, net = {}
  PROVE  SrvTypeOK /\ Table(rows, seq)
<1>1. step \in 1..3 /\ seq \in Nat /\ pc \in PCs
  BY DEF SrvInit, PCs
<1>2. dbfile \in BOOLEAN
  BY Zenon DEF SrvInit
<1>3. schema = {} /\ rows = {} /\ granted = {}
  BY DEF SrvInit
<1> QED
  BY <1>1, <1>2, <1>3 DEF SrvTypeOK, Table

(* Steps of the server keep types.                                         *)
LEMMA SrvTypeStep ==
  ASSUME SrvTypeOK, SrvNext
  PROVE  SrvTypeOK'
<1>1. CASE SrvMain
  BY <1>1, MainEffect DEF SrvTypeOK
<1>2. ASSUME NEW d \in net, LoginReject(d) \/ LoginUpdate(d) \/ LoginInsert(d)
      PROVE  SrvTypeOK'
  <2>1. d.src \in Addrs /\ d.my \in Names /\ UNCHANGED <<pc, step, dbfile, schema>>
    BY <1>2, LoginEffect
  <2>2. net' \subseteq T_Msg
    <3>1. PICK v \in {0, 1} : Exchange(d, {Response(d.src, "MSG_R_LOGIN", None, v)})
      BY <1>2, LoginEffect
    <3>2. Response(d.src, "MSG_R_LOGIN", None, v) \in T_Msg
      BY <2>1, ResponseType DEF MsgIds
    <3> QED
      BY <3>1, <3>2, ExchangeType DEF SrvTypeOK
  <2>3. rows' \in {rows, SetOnline(rows, d.my, d.src), rows \cup {NewRow(d.my, d.src)}}
        /\ seq' \in {seq, seq + 1} /\ granted' \in {granted, granted \cup {<<d.src, d.my>>}}
    BY <1>2, LoginEffect
  <2>4. SetOnline(rows, d.my, d.src) \subseteq T_PeerRow
    BY <2>1 DEF SrvTypeOK, SetOnline, T_PeerRow
  <2>5. NewRow(d.my, d.src) \in T_PeerRow
    BY <2>1 DEF SrvTypeOK, NewRow, T_PeerRow
  <2>6. rows' \subseteq T_PeerRow
    BY <2>3, <2>4, <2>5 DEF SrvTypeOK
  <2>7. seq' \in Nat /\ granted' \subseteq Addrs \X Names
    BY <2>1, <2>3 DEF SrvTypeOK
  <2> QED
    BY <2>1, <2>2, <2>6, <2>7 DEF SrvTypeOK
<1>3. ASSUME NEW d \in net, Logout(d)
      PROVE  SrvTypeOK'
  <2>1. Response(d.src, "MSG_R_LOGOUT", None, 0) \in T_Msg
    BY <1>3, LogoutEffect, ResponseType DEF MsgIds
  <2>2. net' \subseteq T_Msg
    BY <1>3, <2>1, LogoutEffect, ExchangeType DEF SrvTypeOK
  <2>3. SetOffline(rows, d.my) \subseteq T_PeerRow
    BY DEF SrvTypeOK, SetOffline, T_PeerRow
  <2> QED
    BY <1>3, <2>2, <2>3, LogoutEffect DEF SrvTypeOK
<1>4. ASSUME NEW d \in net,
             \/ GetPeers(d) \/ HeartBeat(d) \/ Hole(d) \/ HaveSendP2P(d)
             \/ Relay(d) \/ RelayBody(d) \/ Ignore(d)
      PROVE  SrvTypeOK'
  <2>1. net' \subseteq T_Msg
    BY <1>4, OtherEffect, ExchangeType DEF SrvTypeOK
  <2>2. UNCHANGED <<step, dbfile, schema, rows, seq, granted>> /\ pc' \in PCs
    BY <1>4, OtherEffect DEF srvdb
  <2> QED
    BY <2>1, <2>2 DEF SrvTypeOK
<1> QED
  BY <1>1, <1>2, <1>3, <1>4, SrvCases

(* A served request leaves the network; what the server sends is none.     *)
LEMMA RequestServed ==
  ASSUME NEW d \in net, NEW out, Exchange(d, out), \A e \in out : e.dst # Server
  PROVE  LS!Served(d)
BY DEF Exchange, LS!Served, LoginRequests

(* Steps of the server keep the table and are steps of the login service.  *)
LEMMA SrvTableStep ==
  ASSUME SrvTypeOK, Table(rows, seq), SrvNext
  PROVE  Table(rows, seq)' /\ LS!LSNext
<1>1. CASE UNCHANGED <<rows, seq>>
  BY <1>1 DEF Table, Holders, LS!LSNext, LS!Traffic
<1>2. ASSUME NEW d \in net, LoginReject(d) \/ LoginUpdate(d) \/ LoginInsert(d),
             ~ UNCHANGED <<rows, seq>>
      PROVE  Table(rows, seq)' /\ LS!LSNext
  <2>1. d.src \in Addrs /\ d.my \in Names
    BY <1>2, LoginEffect
  <2>2. d \in LoginRequests /\ d.id = "MSG_C_LOGIN"
    BY <1>2 DEF LoginReject, LoginUpdate, LoginInsert, Receives, LoginRequests
  <2>3. LS!Served(d)
    <3>1. PICK v : Exchange(d, {Response(d.src, "MSG_R_LOGIN", None, v)})
      BY <1>2, LoginEffect
    <3>2. Response(d.src, "MSG_R_LOGIN", None, v).dst # Server
      BY <2>1, NetAssumption DEF NetAssumption, Response
    <3> QED
      BY <3>1, <3>2, RequestServed
  <2>4. CASE /\ Matches(rows, d.my) # {} /\ First(rows, d.my).loginstatus # 1
             /\ rows' = SetOnline(rows, d.my, d.src) /\ seq' = seq
    <3>1. /\ Table(rows', seq') /\ HoldersIn(rows') = [HoldersIn(rows) EXCEPT ![d.my] = {d.src}]
          /\ DoubledIn(rows') = DoubledIn(rows)
      BY <2>1, <2>4, OnlineTable
    <3>2. HoldersIn(rows)[d.my] = {} \/ d.my \in DoubledIn(rows)
      <4>1. First(rows, d.my) \in Matches(rows, d.my)
        BY <2>4, FirstIsLeast DEF Table
      <4>2. d.my \notin DoubledIn(rows) => \A r \in Matches(rows, d.my) : r.loginstatus # 1
        BY <2>1, <2>4, <4>1 DEF DoubledIn
      <4> QED
        BY <2>1, <4>2 DEF HoldersIn
    <3>3. LS!Grant(d)
      BY <2>2, <2>3, <3>1, <3>2 DEF LS!Grant, Holders
    <3> QED
      BY <2>2, <3>1, <3>3 DEF LS!LSNext
  <2>5. CASE /\ QueryFaults = {} => Matches(rows, d.my) = {}
             /\ rows' = rows \cup {NewRow(d.my, d.src)} /\ seq' = seq + 1
    <3>1. /\ Table(rows', seq')
          /\ HoldersIn(rows') = Joins(HoldersIn(rows), d.my, d.src)
          /\ DoubledIn(rows') = IF Matches(rows, d.my) = {} THEN DoubledIn(rows)
                                                          ELSE DoubledIn(rows) \cup {d.my}
      BY <2>1, <2>5, NewRowTable
    <3>2. CASE Matches(rows, d.my) = {}
      <4>1. HoldersIn(rows)[d.my] = {}
        BY <2>1, <3>2 DEF HoldersIn
      <4>2. LS!Grant(d)
        BY <2>2, <2>3, <3>1, <3>2, <4>1 DEF LS!Grant, Holders, Joins
      <4> QED
        BY <2>2, <3>1, <4>2 DEF LS!LSNext
    <3>3. CASE Matches(rows, d.my) # {}
      <4>1. QueryFaults # {}
        BY <2>5, <3>3
      <4>2. LS!GrantBlindly(d)
        BY <2>2, <2>3, <3>1, <3>3, <4>1 DEF LS!GrantBlindly, Holders, Joins
      <4> QED
        BY <2>2, <3>1, <4>2 DEF LS!LSNext
    <3> QED
      BY <3>2, <3>3
  <2> QED
    BY <1>2, <2>4, <2>5, LoginEffect
<1>3. ASSUME NEW d \in net, Logout(d), ~ UNCHANGED <<rows, seq>>
      PROVE  Table(rows, seq)' /\ LS!LSNext
  <2>1. d.src \in Addrs /\ d.my \in Names /\ rows' = SetOffline(rows, d.my) /\ seq' = seq
    BY <1>3, LogoutEffect
  <2>2. /\ Table(rows', seq') /\ HoldersIn(rows') = [HoldersIn(rows) EXCEPT ![d.my] = {}]
        /\ DoubledIn(rows') = DoubledIn(rows)
    BY <2>1, OfflineTable
  <2>3. d \in LoginRequests /\ d.id = "MSG_C_LOGOUT"
    BY <1>3 DEF Logout, Receives, LoginRequests
  <2>4. LS!Served(d)
    <3>1. PICK out \in SUBSET {Response(d.src, "MSG_R_LOGOUT", None, 0)} : Exchange(d, out)
      BY <1>3, LogoutEffect
    <3>2. Response(d.src, "MSG_R_LOGOUT", None, 0).dst # Server
      BY <2>1, NetAssumption DEF NetAssumption, Response
    <3> QED
      BY <3>1, <3>2, RequestServed
  <2>5. LS!Release(d)
    BY <2>2, <2>3, <2>4 DEF LS!Release, Holders
  <2> QED
    BY <2>2, <2>3, <2>5 DEF LS!LSNext
<1>4. ASSUME NEW d \in net,
             \/ GetPeers(d) \/ HeartBeat(d) \/ Hole(d) \/ HaveSendP2P(d)
             \/ Relay(d) \/ RelayBody(d) \/ Ignore(d)
      PROVE  UNCHANGED <<rows, seq>>
  BY <1>4, OtherEffect DEF srvdb
<1>5. SrvMain => UNCHANGED <<rows, seq>>
  BY MainEffect
<1> QED
  BY <1>1, <1>2, <1>3, <1>4, <1>5, SrvCases

(* If no query fails, steps of the server keep one row per name.           *)
LEMMA SrvUniqueStep ==
  ASSUME QueryFaults = {}, SrvTypeOK, UniqueRow, SrvNext
  PROVE  UniqueRow'
<1>1. CASE rows' = rows
  BY <1>1 DEF UniqueRow
<1>2. ASSUME NEW d \in net, rows' = SetOnline(rows, d.my, d.src)
      PROVE  UniqueRow'
  <2> DEFINE up(r) == IF r.username = d.my
                      THEN [r EXCEPT !.pub = d.src, !.loginstatus = 1] ELSE r
  <2>1. \A x \in rows' : \E r \in rows : x = up(r)
    BY <1>2 DEF SetOnline
  <2>2. \A r \in rows : up(r).username = r.username
    BY DEF SrvTypeOK, T_PeerRow
  <2> HIDE DEF up
  <2> QED
    BY <2>1, <2>2 DEF UniqueRow
<1>3. ASSUME NEW d \in net, rows' = rows \cup {NewRow(d.my, d.src)}, Matches(rows, d.my) = {}
      PROVE  UniqueRow'
  BY <1>3 DEF UniqueRow, NewRow, Matches
<1>4. ASSUME NEW d \in net, rows' = SetOffline(rows, d.my)
      PROVE  UniqueRow'
  BY <1>4 DEF UniqueRow, SetOffline, SrvTypeOK, T_PeerRow
<1>5. ASSUME NEW d \in net, LoginReject(d) \/ LoginUpdate(d) \/ LoginInsert(d)
      PROVE  UniqueRow'
  <2>1. \/ rows' = rows
        \/ rows' = SetOnline(rows, d.my, d.src)
        \/ rows' = rows \cup {NewRow(d.my, d.src)} /\ Matches(rows, d.my) = {}
    BY <1>5, LoginEffect
  <2> QED
    BY <1>1, <1>2, <1>3, <2>1
<1>6. ASSUME NEW d \in net, Logout(d)
      PROVE  UniqueRow'
  BY <1>1, <1>4, <1>6, LogoutEffect
<1>7. ASSUME NEW d \in net,
             \/ GetPeers(d) \/ HeartBeat(d) \/ Hole(d) \/ HaveSendP2P(d)
             \/ Relay(d) \/ RelayBody(d) \/ Ignore(d)
      PROVE  rows' = rows
  BY <1>7, OtherEffect DEF srvdb
<1>8. SrvMain => rows' = rows
  BY MainEffect
<1> QED
  BY <1>1, <1>5, <1>6, <1>7, <1>8, SrvCases

(* Without its table the server grants nothing, whatever it is sent.       *)
LEMMA SrvHalfMadeStep ==
  ASSUME SrvTypeOK, HalfMadeGrantsNothing, SrvNext
  PROVE  HalfMadeGrantsNothing'
<1> USE DEF HalfMadeGrantsNothing
<1>1. HasTable => HasTable'
  <2>1. schema \subseteq schema'
    <3>1. SrvMain => schema \subseteq schema'
      BY DEF SrvMain, Start, InitStatement, OpenSock, Crash
    <3>2. ASSUME NEW d \in net, LoginReject(d) \/ LoginUpdate(d) \/ LoginInsert(d)
          PROVE  schema' = schema
      BY <3>2, LoginEffect
    <3>3. ASSUME NEW d \in net, Logout(d) PROVE schema' = schema
      BY <3>3, LogoutEffect
    <3>4. ASSUME NEW d \in net,
                 \/ GetPeers(d) \/ HeartBeat(d) \/ Hole(d) \/ HaveSendP2P(d)
                 \/ Relay(d) \/ RelayBody(d) \/ Ignore(d)
          PROVE  schema' = schema
      BY <3>4, OtherEffect DEF srvdb
    <3> QED
      BY <3>1, <3>2, <3>3, <3>4, SrvCases
  <2> QED
    BY <2>1 DEF HasTable
<1> SUFFICES ASSUME ~HasTable
             PROVE  /\ rows' = rows
                    /\ \A e \in net' \ net : e.id = "MSG_R_LOGIN" => e.res = 1
  BY <1>1
<1>2. CASE SrvMain
  BY <1>2, MainEffect
<1>3. ASSUME NEW d \in net, LoginReject(d) \/ LoginUpdate(d) \/ LoginInsert(d)
      PROVE  rows' = rows /\ \A e \in net' \ net : e.res = 1
  <2>1. PICK v \in {0, 1} : /\ Exchange(d, {Response(d.src, "MSG_R_LOGIN", None, v)})
                            /\ (v = 0 \/ rows' # rows) => HasTable
    BY <1>3, LoginEffect
  <2>2. \A e \in net' \ net : e = Response(d.src, "MSG_R_LOGIN", None, v)
    BY <2>1 DEF Exchange
  <2> QED
    BY <2>1, <2>2 DEF Response
<1>4. ASSUME NEW d \in net, Logout(d)
      PROVE  rows' = rows /\ \A e \in net' \ net : e.id # "MSG_R_LOGIN"
  <2>1. \A e \in net' \ net : e = Response(d.src, "MSG_R_LOGOUT", None, 0)
    BY <1>4, LogoutEffect DEF Exchange
  <2>2. rows' = rows
    BY <1>4 DEF Logout, WriteOutcomes
  <2> QED
    BY <2>1, <2>2 DEF Response
<1>5. ASSUME NEW d \in net,
             \/ GetPeers(d) \/ HeartBeat(d) \/ Hole(d) \/ HaveSendP2P(d)
             \/ Relay(d) \/ RelayBody(d) \/ Ignore(d)
      PROVE  rows' = rows /\ \A e \in net' \ net : e.id # "MSG_R_LOGIN"
  <2>1. rows' = rows
    BY <1>5, OtherEffect DEF srvdb
  <2>2. \A e \in net' \ net : e.id # "MSG_R_LOGIN"
    BY <1>5, OtherEffect DEF Exchange
  <2> QED
    BY <2>1, <2>2
<1> QED
  BY <1>2, <1>3, <1>4, <1>5, SrvCases

(* Unless a busy database is taken for success, a login is answered with   *)
(* the truth.                                                              *)
LEMMA SrvReplyStep ==
  ASSUME "busy" \notin WriteFaults, SrvTypeOK, Table(rows, seq), SrvNext,
         NEW e \in net' \ net, e.id = "MSG_R_LOGIN"
  PROVE  IF e.res = 0 THEN \E r \in rows' \ rows : r.pub = e.dst /\ r.loginstatus = 1
                      ELSE rows' = rows
<1> DEFINE Goal == IF e.res = 0 THEN \E r \in rows' \ rows : r.pub = e.dst /\ r.loginstatus = 1
                                ELSE rows' = rows
<1>1. ASSUME NEW d \in net, LoginReject(d) \/ LoginUpdate(d) \/ LoginInsert(d)
      PROVE  Goal
  <2>1. PICK v \in {0, 1} :
          /\ Exchange(d, {Response(d.src, "MSG_R_LOGIN", None, v)})
          /\ \/ UNCHANGED rows /\ v # 0
             \/ /\ v = 0
                /\ Matches(rows, d.my) # {} /\ First(rows, d.my).loginstatus # 1
                /\ rows' = SetOnline(rows, d.my, d.src)
             \/ /\ v = 0
                /\ rows' = rows \cup {NewRow(d.my, d.src)}
    BY <1>1, LoginEffect
  <2>2. e = Response(d.src, "MSG_R_LOGIN", None, v)
    BY <2>1 DEF Exchange
  <2>3. e.res = v /\ e.dst = d.src
    BY <2>2 DEF Response
  <2>4. CASE v # 0
    BY <2>1, <2>3, <2>4
  <2>5. CASE /\ v = 0 /\ Matches(rows, d.my) # {} /\ First(rows, d.my).loginstatus # 1
             /\ rows' = SetOnline(rows, d.my, d.src)
    <3> DEFINE f == First(rows, d.my)
               g == [f EXCEPT !.pub = d.src, !.loginstatus = 1]
    <3>1. f \in Matches(rows, d.my)
      BY <2>5, FirstIsLeast DEF Table
    <3>2. f \in rows /\ f.username = d.my /\ f \in T_PeerRow
      BY <3>1 DEF Matches, Table
    <3>3. g.id = f.id /\ g.pub = d.src /\ g.loginstatus = 1
      BY <3>2 DEF T_PeerRow
    <3>4. g \in rows'
      BY <2>5, <3>2 DEF SetOnline
    <3>5. g \notin rows
      BY <2>5, <3>2, <3>3 DEF Table
    <3> QED
      BY <2>3, <2>5, <3>3, <3>4, <3>5
  <2>6. CASE v = 0 /\ rows' = rows \cup {NewRow(d.my, d.src)}
    <3>1. /\ NewRow(d.my, d.src).id = seq + 1 /\ NewRow(d.my, d.src).pub = d.src
          /\ NewRow(d.my, d.src).loginstatus = 1
      BY DEF NewRow
    <3>2. NewRow(d.my, d.src) \notin rows
      BY <3>1 DEF Table, T_PeerRow
    <3> QED
      BY <2>3, <2>6, <3>1, <3>2
  <2> QED
    BY <2>1, <2>4, <2>5, <2>6
<1>2. ASSUME NEW d \in net, Logout(d)
      PROVE  FALSE
  <2>1. Response(d.src, "MSG_R_LOGOUT", None, 0).id # "MSG_R_LOGIN"
    BY DEF Response
  <2>2. e = Response(d.src, "MSG_R_LOGOUT", None, 0)
    BY <1>2, LogoutEffect DEF Exchange
  <2> QED
    BY <2>1, <2>2
<1>3. ASSUME NEW d \in net,
             \/ GetPeers(d) \/ HeartBeat(d) \/ Hole(d) \/ HaveSendP2P(d)
             \/ Relay(d) \/ RelayBody(d) \/ Ignore(d)
      PROVE  FALSE
  BY <1>3, OtherEffect DEF Exchange
<1>4. CASE SrvMain
  BY <1>4, MainEffect
<1> QED
  BY <1>1, <1>2, <1>3, <1>4, SrvCases

=============================================================================
