-------------------------- MODULE HolePunchProofs ---------------------------
(***************************************************************************)
(* Proofs about HolePunch for any number of users, any -r arguments and    *)
(* any number of commands.                                                 *)
(*                                                                         *)
(* The names travel with the messages: whoever is told that it can start   *)
(* is the -r argument of the callee that reported, and that callee had     *)
(* punched some caller of its own before it reported.                      *)
(***************************************************************************)
EXTENDS HolePunch, TLAPS

(* v has punched somebody whose -r argument is v.                          *)
Punched(v) == \E w \in Users : sToName[w] = v /\ <<v, w>> \in opened

(* What a message under way says about its names and about the holes.      *)
Honest(m) ==
  /\ m.id \in {"MSG_C_GET_PEERS", "MSG_C_HOLE"} => m.src \in Users
  /\ m.id = "MSG_C_HOLE" => m.my \in Users /\ m.to = sToName[m.my]
  /\ m.id = "MSG_C_HOLE_REQ" => m.my \in Users /\ m.dst = sToName[m.my]
  /\ m.id = "MSG_C_HAVE_SEND_P2P_REQ" =>
       m.my \in Users /\ m.to = sToName[m.my] /\ Punched(m.my)
  /\ m.id = "MSG_C_P2P_CAN_START_REQ" =>
       m.my \in Users /\ Punched(m.my) /\ (m.found => m.dst = sToName[m.my])
  /\ m.id = "MSG_C_P2P_START_REQ" =>
       /\ m.src \in Users
       /\ m.found => sToName[m.dst] = m.src /\ Punched(m.dst)
  /\ m.id = "MSG_R_P2P_START_RESP" =>
       m.src \in Users /\ (m.found => sToName[m.src] = m.dst)

AllHonest == \A m \in net : Honest(m)

(* A callee that sleeps before its report has punched.                     *)
SleepsAfterPunch == \A u \in Users : recv[u] = "sleep" => Punched(u)

PunchInv == PunchTypeOK /\ AllHonest /\ SleepsAfterPunch /\ OkIsMutual

-----------------------------------------------------------------------------
(* A message that carries found or the list has its other fields.          *)
LEMMA FoundType ==
  ASSUME NEW m \in PunchMsg, NEW f \in BOOLEAN
  PROVE  /\ [m EXCEPT !.found = f] \in PunchMsg
         /\ [m EXCEPT !.found = f].id = m.id
         /\ [m EXCEPT !.found = f].src = m.src /\ [m EXCEPT !.found = f].dst = m.dst
         /\ [m EXCEPT !.found = f].my = m.my
         /\ [m EXCEPT !.found = f].found = f
BY DEF PunchMsg

LEMMA ListType ==
  ASSUME NEW m \in PunchMsg, NEW l \in Seq(Users)
  PROVE  /\ [m EXCEPT !.list = l] \in PunchMsg
         /\ [m EXCEPT !.list = l].id = m.id
BY DEF PunchMsg

(* No hole is closed: what was true of a message stays true of it.         *)
LEMMA HonestGrows ==
  ASSUME opened \subseteq opened', NEW m, Honest(m)
  PROVE  Honest(m)'
BY DEF Honest, Punched

(* Who sends and receives honest messages only, leaves only such ones.     *)
LEMMA SendsHonest ==
  ASSUME PunchInv, opened \subseteq opened',
         \A m \in net' : m \in net \/ (m \in PunchMsg /\ Honest(m)')
  PROVE  net' \subseteq PunchMsg /\ AllHonest'
<1>1. \A m \in net : Honest(m)'
  BY HonestGrows DEF PunchInv, AllHonest
<1> QED
  BY <1>1 DEF PunchInv, PunchTypeOK, AllHonest

(* A step that puts no thread to sleep and says ok to nobody.              *)
LEMMA QuietStep ==
  ASSUME PunchInv, opened \subseteq opened', UNCHANGED ok,
         \A u \in Users : recv'[u] = "sleep" => recv[u] = "sleep"
  PROVE  SleepsAfterPunch' /\ OkIsMutual'
<1>1. SleepsAfterPunch'
  BY DEF PunchInv, SleepsAfterPunch, Punched
<1>2. OkIsMutual'
  BY DEF PunchInv, OkIsMutual
<1> QED
  BY <1>1, <1>2

-----------------------------------------------------------------------------
(* What a typed command sends.                                             *)
LEMMA CommandKeeps ==
  ASSUME PunchInv, NEW u \in Users, GetPeerListFromServer(u) \/ SendP2PHoleMsg(u)
  PROVE  PunchInv'
<1> USE PunchAssumption DEF PunchAssumption
<1>t. PunchTypeOK
  BY DEF PunchInv
<1>1. cmds' \in 0..MaxCmds
  BY <1>t DEF GetPeerListFromServer, SendP2PHoleMsg, Types, PunchTypeOK
<1>2. UNCHANGED <<srv, ClientList, ptPeer, recv, opened, ok>>
  BY DEF GetPeerListFromServer, SendP2PHoleMsg
<1>4. net' \subseteq PunchMsg /\ AllHonest'
  <2>1. CASE GetPeerListFromServer(u)
    <3> DEFINE r == Msg("MSG_C_GET_PEERS", u, Server, u, NoName)
    <3>1. r \in PunchMsg /\ r.id = "MSG_C_GET_PEERS" /\ r.src = u
      BY DEF Msg, PunchMsg, PunchIds
    <3>2. net' = net \cup {r}
      BY <2>1 DEF GetPeerListFromServer
    <3> HIDE DEF r
    <3>3. Honest(r)'
      BY <3>1 DEF Honest
    <3> QED
      BY <3>1, <3>2, <3>3, <1>2, SendsHonest
  <2>2. CASE SendP2PHoleMsg(u)
    <3> DEFINE r == Msg("MSG_C_HOLE", u, Server, u, sToName[u])
    <3>1. /\ r \in PunchMsg /\ r.id = "MSG_C_HOLE" /\ r.src = u
          /\ r.my = u /\ r.to = sToName[u]
      BY DEF Msg, PunchMsg, PunchIds
    <3>2. net' = net \cup {r}
      BY <2>2 DEF SendP2PHoleMsg
    <3> HIDE DEF r
    <3>3. Honest(r)'
      BY <3>1 DEF Honest
    <3> QED
      BY <3>1, <3>2, <3>3, <1>2, SendsHonest
  <2> QED
    BY <2>1, <2>2
<1>5. PunchTypeOK'
  BY <1>t, <1>1, <1>2, <1>4 DEF PunchTypeOK
<1> QED
  BY <1>2, <1>4, <1>5, QuietStep DEF PunchInv

-----------------------------------------------------------------------------
(* A client takes a message and answers with nothing...                    *)
LEMMA AnswerNone ==
  ASSUME PunchInv, NEW u \in Users, NEW m \in net, Answer(u, m, {})
  PROVE  opened' = opened /\ net' \subseteq PunchMsg /\ AllHonest'
<1>1. opened' = opened /\ net' \subseteq net
  BY DEF Answer
<1> QED
  BY <1>1, SendsHonest

(* ...or with r, which opens its NAT for a user.                           *)
LEMMA AnswerOne ==
  ASSUME PunchInv, NEW u \in Users, NEW m \in net, NEW r \in PunchMsg, Answer(u, m, {r}),
         r.dst \in Users
  PROVE  /\ opened' \subseteq Users \X Users /\ opened \subseteq opened'
         /\ <<u, r.dst>> \in opened'
         /\ Honest(r)' => net' \subseteq PunchMsg /\ AllHonest'
<1>1. opened' = opened \cup {<<u, r.dst>>} /\ net' = (net \ {m}) \cup {r}
  BY DEF Answer
<1>2. opened' \subseteq Users \X Users /\ opened \subseteq opened' /\ <<u, r.dst>> \in opened'
  BY <1>1 DEF PunchInv, PunchTypeOK
<1>3. ASSUME Honest(r)' PROVE net' \subseteq PunchMsg /\ AllHonest'
  <2>1. \A d \in net' : d \in net \/ (d \in PunchMsg /\ Honest(d)')
    BY <1>1, <1>3
  <2> QED
    BY <2>1, <1>2, SendsHonest
<1> QED
  BY <1>2, <1>3

(* MSG_R_GET_PEERS, MSG_R_HOLE and MSG_C_P2P_CONN_REQ are taken and not    *)
(* answered.                                                               *)
LEMMA TakesKeeps ==
  ASSUME PunchInv, NEW u \in Users, NEW m \in net,
         RecvPeers(u, m) \/ RecvHole(u, m) \/ RecvConnReq(u, m)
  PROVE  PunchInv'
<1>t. PunchTypeOK /\ m \in PunchMsg
  BY DEF PunchInv, PunchTypeOK
<1>1. Answer(u, m, {}) /\ UNCHANGED <<srv, ClientList, recv, cmds, ok>>
  BY DEF RecvPeers, RecvHole, RecvConnReq
<1>2. /\ opened' \subseteq Users \X Users /\ opened \subseteq opened'
      /\ net' \subseteq PunchMsg /\ AllHonest'
  BY <1>1, <1>t, AnswerNone DEF PunchTypeOK
<1>3. ptPeer' \in [Users -> Users \cup {NoName}]
  <2>1. m.list # <<>> => m.list[Len(m.list)] \in Users
    <3>1. m.list \in Seq(Users)
      BY <1>t DEF PunchMsg
    <3> QED
      BY <3>1
  <2> QED
    BY <2>1, <1>t DEF RecvPeers, RecvHole, RecvConnReq, PunchTypeOK
<1>5. PunchTypeOK'
  BY <1>t, <1>1, <1>2, <1>3 DEF PunchTypeOK
<1> QED
  BY <1>1, <1>2, <1>5, QuietStep DEF PunchInv

(* The callee punches the caller the server names, and sleeps.             *)
LEMMA HoleReqKeeps ==
  ASSUME PunchInv, NEW u \in Users, NEW m \in net, RecvHoleReq(u, m)
  PROVE  PunchInv'
<1> USE PunchAssumption DEF PunchAssumption
<1>t. PunchTypeOK /\ m \in PunchMsg /\ m.id = "MSG_C_HOLE_REQ" /\ m.dst = u
  BY DEF PunchInv, PunchTypeOK, RecvHoleReq, Gets
<1>u. UNCHANGED <<srv, ClientList, ptPeer, cmds, ok>> /\ recv' = [recv EXCEPT ![u] = "sleep"]
  BY DEF RecvHoleReq
<1>m. m.my \in Users /\ sToName[m.my] = u
  BY <1>t DEF PunchInv, AllHonest, Honest
<1> DEFINE r == Msg("MSG_C_P2P_CONN_REQ", u, m.my, u, NoName)
<1>1. r \in PunchMsg /\ r.id = "MSG_C_P2P_CONN_REQ" /\ r.dst = m.my
  BY <1>m DEF Msg, PunchMsg, PunchIds
<1>2. Answer(u, m, {r})
  BY DEF RecvHoleReq
<1> HIDE DEF r
<1>3. /\ opened' \subseteq Users \X Users /\ opened \subseteq opened'
      /\ <<u, m.my>> \in opened'
  BY <1>1, <1>2, <1>m, AnswerOne
<1>4. Honest(r)'
  BY <1>1 DEF Honest
<1>5. net' \subseteq PunchMsg /\ AllHonest'
  BY <1>1, <1>2, <1>4, <1>m, AnswerOne
<1>6. PunchTypeOK'
  BY <1>t, <1>u, <1>3, <1>5 DEF PunchTypeOK, RecvStates
<1>7. SleepsAfterPunch'
  <2>1. Punched(u)'
    BY <1>3, <1>m DEF Punched
  <2>2. \A v \in Users : Punched(v) => Punched(v)'
    BY <1>3 DEF Punched
  <2> QED
    BY <2>1, <2>2, <1>u, <1>t DEF PunchInv, SleepsAfterPunch, PunchTypeOK
<1>8. OkIsMutual'
  BY <1>u DEF PunchInv, OkIsMutual
<1> QED
  BY <1>5, <1>6, <1>7, <1>8 DEF PunchInv

(* The overrun of its two memsets stops the thread, and no more.           *)
LEMMA OverrunKeeps ==
  ASSUME PunchInv, NEW u \in Users, NEW m \in net, RecvHoleReqOverrun(u, m)
  PROVE  PunchInv'
<1>t. PunchTypeOK
  BY DEF PunchInv
<1>1. /\ Answer(u, m, {}) /\ UNCHANGED <<srv, ClientList, ptPeer, cmds, ok>>
      /\ recv' = [recv EXCEPT ![u] = "stuck"]
  BY DEF RecvHoleReqOverrun
<1>2. /\ opened' \subseteq Users \X Users /\ opened \subseteq opened'
      /\ net' \subseteq PunchMsg /\ AllHonest'
  BY <1>1, <1>t, AnswerNone DEF PunchTypeOK
<1>3. PunchTypeOK'
  BY <1>t, <1>1, <1>2 DEF PunchTypeOK, RecvStates
<1>4. \A v \in Users : recv'[v] = "sleep" => recv[v] = "sleep"
  BY <1>1, <1>t DEF PunchTypeOK
<1> QED
  BY <1>1, <1>2, <1>3, <1>4, QuietStep DEF PunchInv

(* The report carries the callee's own -r argument.                        *)
LEMMA HaveSendKeeps ==
  ASSUME PunchInv, NEW u \in Users, HaveSend(u)
  PROVE  PunchInv'
<1> USE PunchAssumption DEF PunchAssumption
<1>t. PunchTypeOK
  BY DEF PunchInv
<1>u. /\ UNCHANGED <<srv, ClientList, ptPeer, opened, cmds, ok>>
      /\ recv[u] = "sleep" /\ recv' = [recv EXCEPT ![u] = "wait"]
  BY DEF HaveSend
<1> DEFINE r == Msg("MSG_C_HAVE_SEND_P2P_REQ", u, Server, u, sToName[u])
<1>1. /\ r \in PunchMsg /\ r.id = "MSG_C_HAVE_SEND_P2P_REQ" /\ r.my = u /\ r.to = sToName[u]
  BY DEF Msg, PunchMsg, PunchIds
<1>2. net' = net \cup {r}
  BY DEF HaveSend
<1> HIDE DEF r
<1>3. Punched(u)'
  BY <1>u DEF PunchInv, SleepsAfterPunch, Punched
<1>4. Honest(r)'
  BY <1>1, <1>3 DEF Honest
<1>5. net' \subseteq PunchMsg /\ AllHonest'
  BY <1>1, <1>2, <1>4, <1>u, SendsHonest
<1>6. PunchTypeOK'
  BY <1>t, <1>u, <1>5 DEF PunchTypeOK, RecvStates
<1>7. \A v \in Users : recv'[v] = "sleep" => recv[v] = "sleep"
  BY <1>u, <1>t DEF PunchTypeOK
<1> QED
  BY <1>5, <1>6, <1>7, <1>u, QuietStep DEF PunchInv

-----------------------------------------------------------------------------
(* The start goes to the sender of the report, found in the list.          *)
LEMMA CanStartKeeps ==
  ASSUME PunchInv, NEW u \in Users, NEW m \in net, RecvCanStart(u, m)
  PROVE  PunchInv'
<1> USE PunchAssumption DEF PunchAssumption
<1>t. PunchTypeOK /\ m \in PunchMsg /\ m.id = "MSG_C_P2P_CAN_START_REQ" /\ m.dst = u
  BY DEF PunchInv, PunchTypeOK, RecvCanStart, Gets
<1>u. UNCHANGED <<srv, ClientList, ptPeer, recv, cmds, ok>> /\ ptPeer[u] = m.my
  BY DEF RecvCanStart
<1>m. m.my \in Users /\ Punched(m.my) /\ (m.found => sToName[m.my] = u)
  BY <1>t DEF PunchInv, AllHonest, Honest
<1>f. m.found \in BOOLEAN
  BY <1>t DEF PunchMsg
<1> DEFINE r == StartReq(u, m.my, m.found)
<1>1. /\ r \in PunchMsg /\ r.id = "MSG_C_P2P_START_REQ" /\ r.src = u /\ r.dst = m.my
      /\ r.found = m.found
  <2> DEFINE b == Msg("MSG_C_P2P_START_REQ", u, m.my, u, NoName)
  <2>1. b \in PunchMsg /\ b.id = "MSG_C_P2P_START_REQ" /\ b.src = u /\ b.dst = m.my
    BY <1>m DEF Msg, PunchMsg, PunchIds
  <2>2. r = [b EXCEPT !.found = m.found]
    BY DEF StartReq
  <2> HIDE DEF b, r
  <2> QED
    BY <2>1, <2>2, <1>f, FoundType
<1>2. Answer(u, m, {r})
  BY <1>u DEF RecvCanStart
<1> HIDE DEF r
<1>3. opened' \subseteq Users \X Users /\ opened \subseteq opened'
  BY <1>1, <1>2, <1>m, AnswerOne
<1>4. Honest(r)'
  BY <1>1, <1>3, <1>m DEF Honest, Punched
<1>5. net' \subseteq PunchMsg /\ AllHonest'
  BY <1>1, <1>2, <1>4, <1>m, AnswerOne
<1>6. PunchTypeOK'
  BY <1>t, <1>u, <1>3, <1>5 DEF PunchTypeOK
<1> QED
  BY <1>3, <1>5, <1>6, <1>u, QuietStep DEF PunchInv

(* An address read past the end of the list promises nothing.              *)
LEMMA GarbageKeeps ==
  ASSUME PunchInv, NEW u \in Users, NEW m \in net, RecvCanStartGarbage(u, m)
  PROVE  PunchInv'
<1> USE PunchAssumption DEF PunchAssumption
<1>t. PunchTypeOK
  BY DEF PunchInv
<1>u. UNCHANGED <<srv, ClientList, ptPeer, cmds, ok>>
  BY DEF RecvCanStartGarbage
<1>r. /\ recv' \in [Users -> RecvStates]
      /\ \A v \in Users : recv'[v] = "sleep" => recv[v] = "sleep"
  BY <1>t DEF RecvCanStartGarbage, PunchTypeOK, RecvStates
<1>1. /\ opened' \subseteq Users \X Users /\ opened \subseteq opened'
      /\ net' \subseteq PunchMsg /\ AllHonest'
  <2>1. CASE Answer(u, m, {})
    BY <2>1, <1>t, AnswerNone DEF PunchTypeOK
  <2>2. ASSUME NEW d \in Users, Answer(u, m, {StartReq(u, d, FALSE)})
        PROVE  /\ opened' \subseteq Users \X Users /\ opened \subseteq opened'
               /\ net' \subseteq PunchMsg /\ AllHonest'
    <3> DEFINE r == StartReq(u, d, FALSE)
               b == Msg("MSG_C_P2P_START_REQ", u, d, u, NoName)
    <3>1. b \in PunchMsg /\ b.id = "MSG_C_P2P_START_REQ" /\ b.src = u /\ b.dst = d
      BY DEF Msg, PunchMsg, PunchIds
    <3>2. r = [b EXCEPT !.found = FALSE] /\ Answer(u, m, {r})
      BY <2>2 DEF StartReq
    <3> HIDE DEF b, r
    <3>3. /\ r \in PunchMsg /\ r.id = "MSG_C_P2P_START_REQ" /\ r.src = u /\ r.dst = d
          /\ r.found = FALSE
      BY <3>1, <3>2, FoundType
    <3>4. Honest(r)'
      BY <3>3 DEF Honest
    <3> QED
      BY <3>2, <3>3, <3>4, AnswerOne
  <2> QED
    BY <2>1, <2>2 DEF RecvCanStartGarbage
<1>2. PunchTypeOK'
  BY <1>t, <1>u, <1>r, <1>1 DEF PunchTypeOK
<1> QED
  BY <1>u, <1>r, <1>1, <1>2, QuietStep DEF PunchInv

(* The answer to a start goes back to its sender.                          *)
LEMMA StartReqKeeps ==
  ASSUME PunchInv, NEW u \in Users, NEW m \in net, RecvStartReq(u, m)
  PROVE  PunchInv'
<1> USE PunchAssumption DEF PunchAssumption
<1>t. PunchTypeOK /\ m \in PunchMsg /\ m.id = "MSG_C_P2P_START_REQ" /\ m.dst = u
  BY DEF PunchInv, PunchTypeOK, RecvStartReq, Gets
<1>u. UNCHANGED <<srv, ClientList, ptPeer, recv, cmds, ok>>
  BY DEF RecvStartReq
<1>m. m.src \in Users /\ (m.found => sToName[u] = m.src)
  BY <1>t DEF PunchInv, AllHonest, Honest
<1>f. m.found \in BOOLEAN
  BY <1>t DEF PunchMsg
<1> DEFINE b == Msg("MSG_R_P2P_START_RESP", u, m.src, NoName, NoName)
           r == [b EXCEPT !.found = m.found]
<1>1. b \in PunchMsg /\ b.id = "MSG_R_P2P_START_RESP" /\ b.src = u /\ b.dst = m.src
  BY <1>m DEF Msg, PunchMsg, PunchIds
<1>2. Answer(u, m, {r})
  BY DEF RecvStartReq
<1> HIDE DEF b
<1>3. /\ r \in PunchMsg /\ r.id = "MSG_R_P2P_START_RESP" /\ r.src = u /\ r.dst = m.src
      /\ r.found = m.found
  BY <1>1, <1>f, FoundType
<1> HIDE DEF r
<1>4. opened' \subseteq Users \X Users /\ opened \subseteq opened'
  BY <1>2, <1>3, <1>m, AnswerOne
<1>5. Honest(r)'
  BY <1>3, <1>m DEF Honest
<1>6. net' \subseteq PunchMsg /\ AllHonest'
  BY <1>2, <1>3, <1>5, <1>m, AnswerOne
<1>7. PunchTypeOK'
  BY <1>t, <1>u, <1>4, <1>6 DEF PunchTypeOK
<1> QED
  BY <1>4, <1>6, <1>7, <1>u, QuietStep DEF PunchInv

(* "P2P connect ok!" is said by a peer whose -r argument is u.             *)
LEMMA StartRespKeeps ==
  ASSUME PunchInv, NEW u \in Users, NEW m \in net, RecvStartResp(u, m)
  PROVE  PunchInv'
<1>t. PunchTypeOK /\ m.id = "MSG_R_P2P_START_RESP" /\ m.dst = u
  BY DEF PunchInv, RecvStartResp, Gets
<1>u. /\ UNCHANGED <<srv, ClientList, ptPeer, recv, cmds>> /\ Answer(u, m, {})
      /\ ok' = [ok EXCEPT ![u] = IF m.found THEN @ \cup {m.src} ELSE @]
  BY DEF RecvStartResp
<1>m. m.src \in Users /\ (m.found => sToName[m.src] = u)
  BY <1>t DEF PunchInv, AllHonest, Honest
<1>1. /\ opened' \subseteq Users \X Users /\ opened \subseteq opened'
      /\ net' \subseteq PunchMsg /\ AllHonest'
  BY <1>u, <1>t, AnswerNone DEF PunchTypeOK
<1>3. ok' \in [Users -> SUBSET Users]
  BY <1>t, <1>u, <1>m DEF PunchTypeOK
<1>4. PunchTypeOK'
  BY <1>t, <1>u, <1>1, <1>3 DEF PunchTypeOK
<1>5. SleepsAfterPunch'
  BY <1>u, <1>1 DEF PunchInv, SleepsAfterPunch, Punched
<1>6. OkIsMutual'
  BY <1>t, <1>u, <1>m DEF PunchInv, OkIsMutual, PunchTypeOK
<1> QED
  BY <1>1, <1>4, <1>5, <1>6 DEF PunchInv

-----------------------------------------------------------------------------
(* The server passes the names on as they are.                             *)
LEMMA ServesKeeps == ASSUME PunchInv, Serves PROVE PunchInv'
<1> USE PunchAssumption DEF PunchAssumption
<1>t. PunchTypeOK
  BY DEF PunchInv
<1>u. /\ UNCHANGED <<ClientList, ptPeer, recv, opened, cmds, ok>>
      /\ srv' \in SrvStates
  BY <1>t DEF PunchTypeOK, SrvStates, Serves, SrvPeers, SrvGetPeers, SrvHole, SrvHaveSend,
              SrvHaveSendGarbage, SrvTakes
<1>l. \A v : Listed(v) => v \in Users
  BY <1>t DEF Listed, PunchTypeOK
<1>1. PICK m \in net : \/ SrvPeers(m) \/ SrvGetPeers(m) \/ SrvHole(m)
                       \/ SrvHaveSend(m) \/ SrvHaveSendGarbage(m)
  BY DEF Serves
<1>m. m \in PunchMsg /\ Honest(m)
  BY <1>t DEF PunchInv, PunchTypeOK, AllHonest
<1>2. net' \subseteq PunchMsg /\ AllHonest'
  <2>1. CASE SrvPeers(m)
    <3>l. PICK l \in Seq(Users) : l = ClientList
      BY <1>t DEF PunchTypeOK
    <3> DEFINE b == Msg("MSG_R_GET_PEERS", Server, m.src, NoName, NoName)
               r == [b EXCEPT !.list = l]
    <3>1. m.src \in Users
      BY <2>1, <1>m DEF SrvPeers, SrvTakes, Honest
    <3>2. b \in PunchMsg /\ b.id = "MSG_R_GET_PEERS"
      BY <3>1 DEF Msg, PunchMsg, PunchIds
    <3>3. net' = (net \ {m}) \cup {r}
      BY <2>1, <3>l DEF SrvPeers, SrvTakes
    <3> HIDE DEF b
    <3>4. r \in PunchMsg /\ r.id = "MSG_R_GET_PEERS"
      BY <3>2, ListType
    <3> HIDE DEF r
    <3>5. Honest(r)'
      BY <3>4 DEF Honest
    <3> QED
      BY <3>3, <3>4, <3>5, <1>u, SendsHonest
  <2>2. CASE SrvHole(m)
    <3>1. m.src \in Users /\ m.my \in Users /\ m.to = sToName[m.my]
      BY <2>2, <1>m DEF SrvHole, SrvTakes, Honest
    <3>3. CASE Listed(m.to)
      <4> DEFINE r == Msg("MSG_C_HOLE_REQ", Server, m.to, m.my, NoName)
      <4>0. net' = (net \ {m}) \cup {r}
        BY <2>2, <3>3 DEF SrvHole, SrvTakes
      <4>1. r \in PunchMsg /\ r.id = "MSG_C_HOLE_REQ" /\ r.my = m.my /\ r.dst = m.to
        BY <3>1, <3>3, <1>l DEF Msg, PunchMsg, PunchIds
      <4> HIDE DEF r
      <4>2. Honest(r)'
        BY <4>1, <3>1 DEF Honest
      <4> QED
        BY <4>0, <4>1, <4>2, <1>u, SendsHonest
    <3>4. CASE ~Listed(m.to)
      <4> DEFINE r == Msg("MSG_R_HOLE", Server, m.src, NoName, NoName)
      <4>0. net' = (net \ {m}) \cup {r}
        BY <2>2, <3>4 DEF SrvHole, SrvTakes
      <4>1. r \in PunchMsg /\ r.id = "MSG_R_HOLE"
        BY <3>1 DEF Msg, PunchMsg, PunchIds
      <4> HIDE DEF r
      <4>2. Honest(r)'
        BY <4>1 DEF Honest
      <4> QED
        BY <4>0, <4>1, <4>2, <1>u, SendsHonest
    <3> QED
      BY <3>3, <3>4
  <2>3. ASSUME NEW d \in Users, NEW f \in BOOLEAN, f => d = m.to,
               SrvTakes(m, "MSG_C_HAVE_SEND_P2P_REQ", {CanStart(d, m.my, f)})
        PROVE  net' \subseteq PunchMsg /\ AllHonest'
    <3> DEFINE b == Msg("MSG_C_P2P_CAN_START_REQ", Server, d, m.my, NoName)
               r == [b EXCEPT !.found = f]
    <3>1. m.my \in Users /\ m.to = sToName[m.my] /\ Punched(m.my)
      BY <2>3, <1>m DEF SrvTakes, Honest
    <3>2. b \in PunchMsg /\ b.id = "MSG_C_P2P_CAN_START_REQ" /\ b.my = m.my /\ b.dst = d
      BY <3>1 DEF Msg, PunchMsg, PunchIds
    <3>3. net' = (net \ {m}) \cup {r}
      BY <2>3 DEF SrvTakes, CanStart
    <3> HIDE DEF b
    <3>4. /\ r \in PunchMsg /\ r.id = "MSG_C_P2P_CAN_START_REQ" /\ r.my = m.my /\ r.dst = d
          /\ r.found = f
      BY <3>2, FoundType
    <3> HIDE DEF r
    <3>5. Honest(r)'
      BY <3>4, <3>1, <2>3, <1>u DEF Honest, Punched
    <3> QED
      BY <3>3, <3>4, <3>5, <1>u, SendsHonest
  <2>4. CASE SrvHaveSend(m)
    BY <2>3, <2>4, <1>l DEF SrvHaveSend
  <2>5. CASE net' \subseteq net
    BY <2>5, <1>u, SendsHonest
  <2>6. CASE SrvHaveSendGarbage(m) \/ SrvGetPeers(m)
    <3>1. CASE \E d \in Users : SrvTakes(m, "MSG_C_HAVE_SEND_P2P_REQ", {CanStart(d, m.my, FALSE)})
      BY <3>1, <2>3
    <3>2. CASE \E i : SrvTakes(m, i, {})
      BY <3>2, <2>5 DEF SrvTakes
    <3> QED
      BY <2>6, <3>1, <3>2 DEF SrvHaveSendGarbage, SrvGetPeers
  <2> QED
    BY <1>1, <2>1, <2>2, <2>4, <2>6
<1>3. PunchTypeOK'
  BY <1>t, <1>u, <1>2 DEF PunchTypeOK
<1> QED
  BY <1>2, <1>3, <1>u, QuietStep DEF PunchInv

(* A login only adds a user to the server's list.                          *)
LEMMA LoginKeeps == ASSUME PunchInv, NEW u \in Users, SrvLogin(u) PROVE PunchInv'
<1>t. PunchTypeOK
  BY DEF PunchInv
<1>1. UNCHANGED <<net, srv, ptPeer, recv, opened, cmds, ok>>
  BY DEF SrvLogin
<1>2. ClientList' \in Seq(Users)
  BY <1>t DEF SrvLogin, PunchTypeOK
<1>3. PunchTypeOK'
  BY <1>t, <1>1, <1>2 DEF PunchTypeOK
<1>4. AllHonest'
  BY <1>1 DEF PunchInv, AllHonest, Honest, Punched
<1> QED
  BY <1>1, <1>3, <1>4, QuietStep DEF PunchInv

-----------------------------------------------------------------------------
(* PunchInv holds initially and is kept by every step.                     *)
LEMMA PunchInvariance == PunchSpec => []PunchInv
<1>1. PunchInit => PunchInv
  <2> SUFFICES ASSUME PunchInit PROVE PunchInv
    OBVIOUS
  <2>1. PunchTypeOK
    BY PunchAssumption DEF PunchAssumption, PunchInit, PunchTypeOK, RecvStates, SrvStates
  <2>2. AllHonest /\ SleepsAfterPunch /\ OkIsMutual
    BY DEF PunchInit, AllHonest, SleepsAfterPunch, OkIsMutual
  <2> QED
    BY <2>1, <2>2 DEF PunchInv
<1>2. PunchInv /\ [PunchNext]_punchvars => PunchInv'
  <2> SUFFICES ASSUME PunchInv, [PunchNext]_punchvars PROVE PunchInv'
    OBVIOUS
  <2>1. ASSUME NEW u \in Users, GetPeerListFromServer(u) \/ SendP2PHoleMsg(u) PROVE PunchInv'
    BY <2>1, CommandKeeps
  <2>2. ASSUME NEW u \in Users, P2PClientProc(u) PROVE PunchInv'
    BY <2>2, HaveSendKeeps, TakesKeeps, HoleReqKeeps, OverrunKeeps, CanStartKeeps,
       GarbageKeeps, StartReqKeeps, StartRespKeeps DEF P2PClientProc
  <2>3. ASSUME NEW u \in Users, SrvLogin(u) PROVE PunchInv'
    BY <2>3, LoginKeeps
  <2>4. CASE Serves
    BY <2>4, ServesKeeps
  <2>5. CASE UNCHANGED punchvars
    <3>1. UNCHANGED <<net, srv, ClientList, ptPeer, recv, opened, cmds, ok>>
      BY <2>5 DEF punchvars
    <3>2. PunchTypeOK' /\ AllHonest'
      BY <3>1 DEF PunchInv, PunchTypeOK, AllHonest, Honest, Punched
    <3> QED
      BY <3>1, <3>2, QuietStep DEF PunchInv
  <2> QED
    BY <2>1, <2>2, <2>3, <2>4, <2>5 DEF PunchNext
<1> QED
  BY <1>1, <1>2, PTL DEF PunchSpec

(* Type correctness: whatever P2PClientProc answers or punches is the      *)
(* address of a user.                                                      *)
THEOREM PunchTypeCorrect == PunchSpec => []PunchTypeOK
<1>1. PunchInv => PunchTypeOK
  BY DEF PunchInv
<1> QED
  BY <1>1, PunchInvariance, PTL

(* "P2P connect ok!" from an address of the list comes from a peer whose   *)
(* -r argument names this client.                                          *)
THEOREM PunchOkIsMutual == PunchSpec => []OkIsMutual
<1>1. PunchInv => OkIsMutual
  BY DEF PunchInv
<1> QED
  BY <1>1, PunchInvariance, PTL

(* The MSG_C_P2P_START_REQ of a callee's only caller finds the callee's    *)
(* NAT open.                                                               *)
THEOREM PunchHoleBeforeStart == PunchSpec => []HoleBeforeStart
<1>1. PunchInv => HoleBeforeStart
  <2> SUFFICES ASSUME PunchInv, NEW m \in net, m.id = "MSG_C_P2P_START_REQ", m.found,
                      OnlyCaller(m.src, m.dst)
               PROVE  <<m.dst, m.src>> \in opened
    BY DEF HoleBeforeStart
  <2>1. Punched(m.dst)
    BY DEF PunchInv, AllHonest, Honest
  <2> QED
    BY <2>1 DEF Punched, OnlyCaller
<1> QED
  BY <1>1, PunchInvariance, PTL

=============================================================================
