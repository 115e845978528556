------------------------- MODULE P2PServerEnvProofs -------------------------
(***************************************************************************)
(* Theorems about the server in an open environment, for every set of      *)
(* names and addresses and every number of requests.                       *)
(***************************************************************************)
EXTENDS P2PServerEnv, P2PServerProofs

(* The invariant everything rests on: types, and a table with distinct     *)
(* ids that are no greater than the sequence.                              *)
EnvInv == SrvTypeOK /\ Table(rows, seq)

(* A datagram sent or taken changes the network only.                      *)
LEMMA EnvCases ==
  ASSUME SrvTypeOK, [EnvNext]_evars
  PROVE  \/ SrvNext
         \/ UNCHANGED <<pc, step, dbfile, schema, rows, seq, granted>>
<1>1. EnvSend => UNCHANGED <<pc, step, dbfile, schema, rows, seq, granted>>
  BY DEF EnvSend, srvdb
<1>2. EnvTake => UNCHANGED <<pc, step, dbfile, schema, rows, seq, granted>>
  BY DEF EnvTake, srvdb
<1>3. UNCHANGED evars => UNCHANGED <<pc, step, dbfile, schema, rows, seq, granted>>
  BY DEF evars, svars
<1> QED
  BY <1>1, <1>2, <1>3 DEF EnvNext

(* The environment keeps types.                                            *)
LEMMA EnvTypeStep ==
  ASSUME SrvTypeOK, [EnvNext]_evars
  PROVE  SrvTypeOK'
<1>1. CASE SrvNext
  BY <1>1, SrvTypeStep
<1>2. CASE EnvSend
  <2>1. PICK a \in Addrs, i \in Handled \cup {"MSG_R_HOLE"}, n \in Names :
          net' = net \cup {Request(a, i, n, n)}
    BY <1>2 DEF EnvSend
  <2>2. i \in MsgIds
    BY DEF Handled, MsgIds
  <2>3. Request(a, i, n, n) \in T_Msg
    BY <2>2, RequestType
  <2> QED
    BY <1>2, <2>1, <2>3 DEF EnvSend, srvdb, SrvTypeOK
<1>3. CASE EnvTake
  BY <1>3 DEF EnvTake, NetLose, srvdb, SrvTypeOK
<1>4. CASE UNCHANGED evars
  BY <1>4 DEF evars, svars, SrvTypeOK
<1> QED
  BY <1>1, <1>2, <1>3, <1>4 DEF EnvNext

(* EnvInv is an invariant.                                                 *)
LEMMA EnvInvariance == EnvSpec => []EnvInv
<1>1. EnvInit => EnvInv
  BY SrvInitType DEF EnvInit, EnvInv
<1>2. EnvInv /\ [EnvNext]_evars => EnvInv'
  <2> SUFFICES ASSUME EnvInv, [EnvNext]_evars PROVE EnvInv'
    OBVIOUS
  <2>1. SrvTypeOK'
    BY EnvTypeStep DEF EnvInv
  <2>2. Table(rows, seq)'
    BY EnvCases, SrvTableStep DEF EnvInv
  <2> QED
    BY <2>1, <2>2 DEF EnvInv
<1> QED
  BY <1>1, <1>2, PTL DEF EnvSpec

(* Type correctness: no datagram, fault or crash leads the server out of   *)
(* its types.                                                              *)
THEOREM ServerTypeCorrect == EnvSpec => []SrvTypeOK
<1>1. EnvInv => SrvTypeOK
  BY DEF EnvInv
<1> QED
  BY <1>1, EnvInvariance, PTL

(* p2p_peerinfo implements the login service under every combination of    *)
(* failing statements, busy databases, crashes and lost datagrams: only a  *)
(* logout frees a name, and only after a failed query has a name more than *)
(* one holder.                                                             *)
THEOREM RegistryRefines == EnvSpec => RegistryIsLoginService
<1>1. EnvInit => LS!LSInit
  <2> SUFFICES ASSUME rows = {}, net = {} PROVE LS!LSInit
    BY DEF EnvInit, SrvInit
  <2>1. \A n \in Names : Matches(rows, n) = {}
    BY DEF Matches
  <2> QED
    BY <2>1 DEF Holders, HoldersIn, DoubledIn, LoginRequests, LS!LSInit
<1>2. EnvInv /\ [EnvNext]_evars => LS!LSNext
  <2> SUFFICES ASSUME EnvInv, [EnvNext]_evars PROVE LS!LSNext
    OBVIOUS
  <2>1. CASE SrvNext
    BY <2>1, SrvTableStep DEF EnvInv
  <2>2. CASE UNCHANGED rows
    BY <2>2 DEF Holders, LS!LSNext, LS!Traffic
  <2> QED
    BY <2>1, <2>2, EnvCases DEF EnvInv
<1> QED
  BY <1>1, <1>2, EnvInvariance, PTL DEF EnvSpec, RegistryIsLoginService, LS!LSSpec

(* If queries do not fail, a name has at most one row.                     *)
THEOREM OneRowPerName == ASSUME QueryFaults = {} PROVE EnvSpec => []UniqueRow
<1>1. EnvInit => UniqueRow
  BY DEF EnvInit, SrvInit, UniqueRow
<1>2. EnvInv /\ UniqueRow /\ [EnvNext]_evars => UniqueRow'
  <2> SUFFICES ASSUME EnvInv, UniqueRow, [EnvNext]_evars PROVE UniqueRow'
    OBVIOUS
  <2>1. CASE SrvNext
    BY <2>1, SrvUniqueStep DEF EnvInv
  <2>2. CASE UNCHANGED rows
    BY <2>2 DEF UniqueRow
  <2> QED
    BY <2>1, <2>2, EnvCases DEF EnvInv
<1> QED
  BY <1>1, <1>2, EnvInvariance, PTL DEF EnvSpec

(* Whatever happens to the first start, a server without its table tells   *)
(* nobody that a login succeeded.                                          *)
THEOREM HalfMadeServesNobody == EnvSpec => []HalfMadeGrantsNothing
<1>1. EnvInit => HalfMadeGrantsNothing
  BY DEF EnvInit, SrvInit, HalfMadeGrantsNothing
<1>2. EnvInv /\ HalfMadeGrantsNothing /\ [EnvNext]_evars => HalfMadeGrantsNothing'
  <2> SUFFICES ASSUME EnvInv, HalfMadeGrantsNothing, [EnvNext]_evars
               PROVE  HalfMadeGrantsNothing'
    OBVIOUS
  <2>1. CASE SrvNext
    BY <2>1, SrvHalfMadeStep DEF EnvInv
  <2>2. CASE EnvSend
    <3>1. PICK a \in Addrs, i \in Handled \cup {"MSG_R_HOLE"}, n \in Names :
            net' = net \cup {Request(a, i, n, n)}
      BY <2>2 DEF EnvSend
    <3>2. Request(a, i, n, n).id # "MSG_R_LOGIN"
      BY DEF Request, Handled
    <3> QED
      BY <2>2, <3>1, <3>2 DEF EnvSend, srvdb, HalfMadeGrantsNothing, HasTable
  <2>3. CASE EnvTake
    BY <2>3 DEF EnvTake, NetLose, srvdb, HalfMadeGrantsNothing, HasTable
  <2>4. CASE UNCHANGED evars
    BY <2>4 DEF evars, svars, HalfMadeGrantsNothing, HasTable
  <2> QED
    BY <2>1, <2>2, <2>3, <2>4 DEF EnvNext
<1> QED
  BY <1>1, <1>2, EnvInvariance, PTL DEF EnvSpec

(* If no write meets a busy database, MSG_R_LOGIN tells the truth about    *)
(* p2p_peerinfo.                                                           *)
THEOREM RepliesTruthful == ASSUME "busy" \notin WriteFaults PROVE EnvSpec => LoginReplyTruthful
<1> DEFINE Truth == \A d \in net' \ net : d.id = "MSG_R_LOGIN" =>
             IF d.res = 0 THEN \E r \in rows' \ rows : r.pub = d.dst /\ r.loginstatus = 1
                          ELSE rows' = rows
<1>1. EnvInv /\ [EnvNext]_evars => [Truth]_svars
  <2> SUFFICES ASSUME EnvInv, [EnvNext]_evars, NEW d \in net' \ net, d.id = "MSG_R_LOGIN"
               PROVE  IF d.res = 0
                      THEN \E r \in rows' \ rows : r.pub = d.dst /\ r.loginstatus = 1
                      ELSE rows' = rows
    OBVIOUS
  <2>1. CASE SrvNext
    BY <2>1, SrvReplyStep DEF EnvInv
  <2>2. CASE EnvSend
    <3>1. PICK a \in Addrs, i \in Handled \cup {"MSG_R_HOLE"}, n \in Names :
            d = Request(a, i, n, n)
      BY <2>2 DEF EnvSend
    <3>2. d.id = i
      BY <3>1 DEF Request
    <3> QED
      BY <3>2 DEF Handled
  <2>3. CASE EnvTake
    BY <2>3 DEF EnvTake, NetLose
  <2>4. CASE UNCHANGED evars
    BY <2>4 DEF evars, svars
  <2> QED
    BY <2>1, <2>2, <2>3, <2>4 DEF EnvNext
<1> QED
  BY <1>1, EnvInvariance, PTL DEF EnvSpec, LoginReplyTruthful

=============================================================================
