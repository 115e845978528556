------------------------------ MODULE HolePunch -----------------------------
(***************************************************************************)
(* The hole punch of the Linux client (client.cpp) behind NATs:            *)
(*   caller -> server  MSG_C_HOLE           server -> callee  MSG_C_HOLE_REQ*)
(*   callee -> caller  MSG_C_P2P_CONN_REQ   (opens the callee's NAT)       *)
(*   callee -> server  MSG_C_HAVE_SEND_P2P_REQ, with the callee's own -r   *)
(*   server -> that user  MSG_C_P2P_CAN_START_REQ                          *)
(*   that user -> callee  MSG_C_P2P_START_REQ, answered by ..._START_RESP. *)
(* The address for the last step comes from the list MSG_R_GET_PEERS       *)
(* brought, all of whose elements point to the one T_PeerInfo ptPeer: the  *)
(* list is what ptPeer holds, the last entry of the last answer.           *)
(*                                                                         *)
(* The server's handlers of MSG_C_HOLE and MSG_C_HAVE_SEND_P2P_REQ are the *)
(* ones of server.cpp.  The code that would fill their ClientList and send *)
(* it to the clients is between #if 0 and #endif, so SrvLogin and SrvPeers *)
(* are external: a server that lists its users in the order of their       *)
(* logins.  Without a SrvLogin step the list stays empty, which is the     *)
(* compiled server: every MSG_C_HOLE is refused and MSG_C_GET_PEERS ends   *)
(* the thread.  A user's name stands for its public address too.  A        *)
(* datagram that is lost, or dropped by a NAT, is one that is never        *)
(* received.                                                               *)
(***************************************************************************)
EXTENDS Naturals, Sequences

CONSTANTS
  Users,        \* clients, by the argument -u
  sToName,      \* the argument -r of each
  NoName,       \* a name nobody has; also the empty list
  Server,
  Commands,     \* what each user types: get, connect
  MaxCmds       \* bound on the commands typed by all users

ASSUME PunchAssumption ==
  /\ sToName \in [Users -> Users \cup {NoName}]
  /\ Commands \in [Users -> SUBSET {"get", "connect"}]
  /\ {NoName, Server} \cap Users = {} /\ Server # NoName /\ MaxCmds \in Nat

VARIABLES
  net,
  srv,          \* P2PSrvProc of the server
  ClientList,   \* the server's list of users, in order
  ptPeer,       \* what each element of a client's peer list points to
  recv,         \* P2PClientProc of each client
  opened,       \* <<u, v>>: the NAT of u lets v through
  cmds,
  ok            \* history: who said "P2P connect ok!" to u, addresses found

punchvars == <<net, srv, ClientList, ptPeer, recv, opened, cmds, ok>>

(* sleep: in usleep between the two messages; stuck: FTC_Sendto2 retries   *)
(* for ever, or the process has crashed.  down: so has the server's, or it *)
(* has returned.                                                           *)
SrvStates == {"up", "down"}
RecvStates == {"wait", "sleep", "stuck"}

PunchIds ==
  { "MSG_C_GET_PEERS", "MSG_R_GET_PEERS", "MSG_C_HOLE", "MSG_R_HOLE", "MSG_C_HOLE_REQ",
    "MSG_C_P2P_CONN_REQ", "MSG_C_HAVE_SEND_P2P_REQ", "MSG_C_P2P_CAN_START_REQ",
    "MSG_C_P2P_START_REQ", "MSG_R_P2P_START_RESP" }

(* my, to: the names in the message; list: the peers; found: history, the  *)
(* addresses it was sent to, and its sender was told at, were in the lists *)
(* they were looked up in.                                                 *)
PunchMsg ==
  [ id : PunchIds, src : Users \cup {Server}, dst : Users \cup {Server},
    my : Users \cup {NoName}, to : Users \cup {NoName}, list : Seq(Users), found : BOOLEAN ]

Msg(i, s, d, my, to) ==
  [id |-> i, src |-> s, dst |-> d, my |-> my, to |-> to, list |-> <<>>, found |-> FALSE]

PunchInit ==
  /\ net = {} /\ srv = "up" /\ ClientList = <<>> /\ ptPeer = [u \in Users |-> NoName]
  /\ recv = [u \in Users |-> "wait"] /\ opened = {}
  /\ cmds = 0 /\ ok = [u \in Users |-> {}]

Listed(u) == \E i \in DOMAIN ClientList : ClientList[i] = u

-----------------------------------------------------------------------------
(* DoInput, in the main thread                                             *)

Types(u, cmd) == cmd \in Commands[u] /\ cmds < MaxCmds /\ cmds' = cmds + 1

GetPeerListFromServer(u) ==
  /\ Types(u, "get")
  /\ net' = net \cup {Msg("MSG_C_GET_PEERS", u, Server, u, NoName)}
  /\ UNCHANGED <<srv, ClientList, ptPeer, recv, opened, ok>>

SendP2PHoleMsg(u) ==
  /\ Types(u, "connect")
  /\ net' = net \cup {Msg("MSG_C_HOLE", u, Server, u, sToName[u])}
  /\ UNCHANGED <<srv, ClientList, ptPeer, recv, opened, ok>>

-----------------------------------------------------------------------------
(* P2PClientProc                                                           *)

(* The NAT of u passes what the server sends, and what comes from where u  *)
(* has sent to.                                                            *)
Passes(u, m) == m.src = Server \/ <<u, m.src>> \in opened

Gets(u, m, i) ==
  /\ m \in net /\ m.dst = u /\ m.id = i /\ recv[u] = "wait" /\ Passes(u, m)

(* Take m, send out; u's NAT opens for whom it sends to.                   *)
Answer(u, m, out) ==
  /\ net' = (net \ {m}) \cup out
  /\ opened' = opened \cup {<<u, d.dst>> : d \in out}

(* Mutant: the loop reads one entry too many.                              *)
RecvPeersPast(u, m) ==
  /\ Gets(u, m, "MSG_R_GET_PEERS") /\ Answer(u, m, {})
  /\ ptPeer' = [ptPeer EXCEPT ![u] = Server]
  /\ UNCHANGED <<srv, ClientList, recv, cmds, ok>>

(* The list is never cleared, and each entry overwrites ptPeer.            *)
RecvPeers(u, m) ==
  /\ Gets(u, m, "MSG_R_GET_PEERS") /\ Answer(u, m, {})
  /\ ptPeer' = [ptPeer EXCEPT ![u] = IF m.list = <<>> THEN @ ELSE m.list[Len(m.list)]]
  /\ UNCHANGED <<srv, ClientList, recv, cmds, ok>>

RecvHole(u, m) ==
  /\ Gets(u, m, "MSG_R_HOLE") /\ Answer(u, m, {})
  /\ UNCHANGED <<srv, ClientList, ptPeer, recv, cmds, ok>>

(* Mutant: the callee does not punch.                                      *)
RecvHoleReqQuiet(u, m) ==
  /\ Gets(u, m, "MSG_C_HOLE_REQ") /\ Answer(u, m, {})
  /\ recv' = [recv EXCEPT ![u] = "sleep"]
  /\ UNCHANGED <<srv, ClientList, ptPeer, cmds, ok>>

(* MSG_C_HOLE_REQ up to the usleep.                                        *)
RecvHoleReq(u, m) ==
  /\ Gets(u, m, "MSG_C_HOLE_REQ")
  /\ Answer(u, m, {Msg("MSG_C_P2P_CONN_REQ", u, m.my, u, NoName)})
  /\ recv' = [recv EXCEPT ![u] = "sleep"]
  /\ UNCHANGED <<srv, ClientList, ptPeer, cmds, ok>>

(* Its two memsets write past stMsgSub and stMsgSub2: an address that is   *)
(* overwritten makes FTC_Sendto2 spin, a pointer ends the process.         *)
RecvHoleReqOverrun(u, m) ==
  /\ Gets(u, m, "MSG_C_HOLE_REQ") /\ Answer(u, m, {})
  /\ recv' = [recv EXCEPT ![u] = "stuck"]
  /\ UNCHANGED <<srv, ClientList, ptPeer, cmds, ok>>

(* Mutant: the server is told the name of u twice.                         *)
HaveSendOwnName(u) ==
  /\ recv[u] = "sleep" /\ recv' = [recv EXCEPT ![u] = "wait"]
  /\ net' = net \cup {Msg("MSG_C_HAVE_SEND_P2P_REQ", u, Server, u, u)}
  /\ UNCHANGED <<srv, ClientList, ptPeer, opened, cmds, ok>>

(* After the usleep, with sToName and not with the caller's name.          *)
HaveSend(u) ==
  /\ recv[u] = "sleep" /\ recv' = [recv EXCEPT ![u] = "wait"]
  /\ net' = net \cup {Msg("MSG_C_HAVE_SEND_P2P_REQ", u, Server, u, sToName[u])}
  /\ UNCHANGED <<srv, ClientList, ptPeer, opened, cmds, ok>>

RecvConnReq(u, m) ==
  /\ Gets(u, m, "MSG_C_P2P_CONN_REQ") /\ Answer(u, m, {})
  /\ UNCHANGED <<srv, ClientList, ptPeer, recv, cmds, ok>>

StartReq(u, d, f) ==
  [Msg("MSG_C_P2P_START_REQ", u, d, u, NoName) EXCEPT !.found = f]

(* MSG_C_P2P_CAN_START_REQ: GetPeerByName finds the sender of the report...*)
RecvCanStart(u, m) ==
  /\ Gets(u, m, "MSG_C_P2P_CAN_START_REQ") /\ ptPeer[u] = m.my
  /\ Answer(u, m, {StartReq(u, ptPeer[u], m.found)})
  /\ UNCHANGED <<srv, ClientList, ptPeer, recv, cmds, ok>>

(* ...or runs off its end: any address, also one that nobody has or that   *)
(* sendto refuses.                                                         *)
RecvCanStartGarbage(u, m) ==
  /\ Gets(u, m, "MSG_C_P2P_CAN_START_REQ") /\ ptPeer[u] # m.my
  /\ \/ /\ \E d \in Users : Answer(u, m, {StartReq(u, d, FALSE)})
        /\ UNCHANGED recv
     \/ /\ Answer(u, m, {})
        /\ recv' \in {recv, [recv EXCEPT ![u] = "stuck"]}
  /\ UNCHANGED <<srv, ClientList, ptPeer, cmds, ok>>

(* Answered to whoever sent it.                                            *)
RecvStartReq(u, m) ==
  /\ Gets(u, m, "MSG_C_P2P_START_REQ")
  /\ Answer(u, m, {[Msg("MSG_R_P2P_START_RESP", u, m.src, NoName, NoName)
                     EXCEPT !.found = m.found]})
  /\ UNCHANGED <<srv, ClientList, ptPeer, recv, cmds, ok>>

(* "P2P connect ok!"                                                       *)
RecvStartResp(u, m) ==
  /\ Gets(u, m, "MSG_R_P2P_START_RESP") /\ Answer(u, m, {})
  /\ ok' = [ok EXCEPT ![u] = IF m.found THEN @ \cup {m.src} ELSE @]
  /\ UNCHANGED <<srv, ClientList, ptPeer, recv, cmds>>

P2PClientProc(u) ==
  \/ HaveSend(u)
  \/ \E m \in net :
       \/ RecvPeers(u, m) \/ RecvHole(u, m) \/ RecvHoleReq(u, m)
       \/ RecvHoleReqOverrun(u, m) \/ RecvConnReq(u, m) \/ RecvCanStart(u, m)
       \/ RecvCanStartGarbage(u, m) \/ RecvStartReq(u, m) \/ RecvStartResp(u, m)

-----------------------------------------------------------------------------
(* P2PSrvProc                                                              *)

(* External: u is logged in.                                               *)
SrvLogin(u) ==
  /\ srv = "up" /\ ~Listed(u) /\ ClientList' = Append(ClientList, u)
  /\ UNCHANGED <<net, srv, ptPeer, recv, opened, cmds, ok>>

SrvTakes(m, i, out) ==
  /\ srv = "up" /\ m \in net /\ m.dst = Server /\ m.id = i
  /\ net' = (net \ {m}) \cup out
  /\ UNCHANGED <<ClientList, ptPeer, recv, opened, cmds, ok>>

(* External: the list is sent.                                             *)
SrvPeers(m) ==
  /\ SrvTakes(m, "MSG_C_GET_PEERS",
              {[Msg("MSG_R_GET_PEERS", Server, m.src, NoName, NoName)
                 EXCEPT !.list = ClientList]})
  /\ UNCHANGED srv

(* The query of MSG_C_GET_PEERS fails and the thread returns.              *)
SrvGetPeers(m) == SrvTakes(m, "MSG_C_GET_PEERS", {}) /\ srv' = "down"

(* CheckPeerListByName: a callee that is not in the list is refused.       *)
SrvHole(m) ==
  /\ SrvTakes(m, "MSG_C_HOLE",
              IF Listed(m.to) THEN {Msg("MSG_C_HOLE_REQ", Server, m.to, m.my, NoName)}
                              ELSE {Msg("MSG_R_HOLE", Server, m.src, NoName, NoName)})
  /\ UNCHANGED srv

CanStart(d, my, f) ==
  [Msg("MSG_C_P2P_CAN_START_REQ", Server, d, my, NoName) EXCEPT !.found = f]

(* MSG_C_HAVE_SEND_P2P_REQ: GetPeerByName finds the name reported...       *)
SrvHaveSend(m) ==
  /\ Listed(m.to)
  /\ SrvTakes(m, "MSG_C_HAVE_SEND_P2P_REQ", {CanStart(m.to, m.my, TRUE)})
  /\ UNCHANGED srv

(* ...or runs off its end, which is not tested: any address, also one that *)
(* nobody has or that sendto refuses, or the end of the process.           *)
SrvHaveSendGarbage(m) ==
  /\ ~Listed(m.to)
  /\ \/ /\ \E d \in Users :
             SrvTakes(m, "MSG_C_HAVE_SEND_P2P_REQ", {CanStart(d, m.my, FALSE)})
        /\ UNCHANGED srv
     \/ SrvTakes(m, "MSG_C_HAVE_SEND_P2P_REQ", {}) /\ srv' \in SrvStates

Serves ==
  \E m \in net : \/ SrvPeers(m) \/ SrvGetPeers(m) \/ SrvHole(m)
                 \/ SrvHaveSend(m) \/ SrvHaveSendGarbage(m)

PunchNext ==
  \/ \E u \in Users :
       GetPeerListFromServer(u) \/ SendP2PHoleMsg(u) \/ P2PClientProc(u) \/ SrvLogin(u)
  \/ Serves

PunchSpec == PunchInit /\ [][PunchNext]_punchvars

-----------------------------------------------------------------------------
(* Properties                                                              *)

PunchTypeOK ==
  /\ net \subseteq PunchMsg /\ srv \in SrvStates /\ ClientList \in Seq(Users)
  /\ ptPeer \in [Users -> Users \cup {NoName}] /\ recv \in [Users -> RecvStates]
  /\ opened \subseteq Users \X Users
  /\ cmds \in 0..MaxCmds
  /\ ok \in [Users -> SUBSET Users]

(* Nobody but u calls v.                                                   *)
OnlyCaller(u, v) == \A w \in Users : sToName[w] = v => w = u

(* When the caller starts, the hole is there: an MSG_C_P2P_START_REQ to an *)
(* address from the lists passes the callee's NAT, if the callee has no    *)
(* other caller.                                                           *)
HoleBeforeStart ==
  \A m \in net :
    m.id = "MSG_C_P2P_START_REQ" /\ m.found /\ OnlyCaller(m.src, m.dst)
      => <<m.dst, m.src>> \in opened

(* "P2P connect ok!", when no address was read past the end of a list,     *)
(* comes only from a peer whose own -r argument names this client, called  *)
(* by it or not.                                                           *)
OkIsMutual == \A u \in Users : \A v \in ok[u] : sToName[v] = u

=============================================================================
