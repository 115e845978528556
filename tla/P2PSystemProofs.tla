-------------------------- MODULE P2PSystemProofs ---------------------------
(***************************************************************************)
(* Theorems about the server together with any number of Linux clients.    *)
(***************************************************************************)
EXTENDS P2PSystem, P2PServerProofs

(* A request carries the name of the client that sent it.                  *)
OwnName ==
  \A d \in net, c \in Clients, i \in 0..MaxRestarts : d.src = <<c, i>> => d.my = MyName[c]

(* An answer that reports success follows a grant to its addressee.        *)
AnswersGranted ==
  \A d \in net, c \in Clients, i \in 0..MaxRestarts :
    d.id = "MSG_R_LOGIN" /\ d.res = 0 /\ d.dst = <<c, i>> => <<<<c, i>>, MyName[c]>> \in granted

SysInv == SysTypeOK /\ OwnName /\ AnswersGranted /\ NoPhantomLogin

-----------------------------------------------------------------------------
(* The address of a client is one of its own.                              *)
LEMMA AddrType ==
  ASSUME CliTypeOK, NEW c \in Clients
  PROVE  Addr(c) \in Addrs /\ inc[c] \in 0..MaxRestarts
BY ClientAssumption DEF ClientAssumption, CliTypeOK, Addr

(* What a client sends is a datagram with its address and its name.        *)
LEMMA SentByClient ==
  ASSUME CliTypeOK, NEW c \in Clients, NEW i \in MsgIds, NEW to \in Names \cup {None}
  PROVE  /\ Request(Addr(c), i, MyName[c], to) \in T_Msg
         /\ Request(Addr(c), i, MyName[c], to).src = Addr(c)
         /\ Request(Addr(c), i, MyName[c], to).my = MyName[c]
         /\ Request(Addr(c), i, MyName[c], to).id = i
<1>1. Addr(c) \in Addrs /\ MyName[c] \in Names
  BY AddrType, ClientAssumption DEF ClientAssumption
<1>2. Request(Addr(c), i, MyName[c], to) \in T_Msg
  BY <1>1, RequestType
<1> QED
  BY <1>2 DEF Request

(* The effect of a client's step: a request is sent, or a datagram read.   *)
LEMMA ClientEffect ==
  ASSUME SysTypeOK, NEW c \in Clients, CliNext(c)
  PROVE  /\ CliTypeOK'
         /\ \/ \E i \in MsgIds \ {"MSG_R_LOGIN"}, to \in Names \cup {None} :
                 net' = net \cup {Request(Addr(c), i, MyName[c], to)}
            \/ net' \subseteq net
         /\ \A b \in Clients : bIsLogin'[b] =>
              /\ Addr(b)' = Addr(b)
              /\ \/ bIsLogin[b]
                 \/ \E d \in net : d.id = "MSG_R_LOGIN" /\ d.res = 0 /\ d.dst = Addr(b)
<1> USE DEF SysTypeOK, CliTypeOK
<1>1. ASSUME NEW cmd \in Commands, DoInput(c, cmd)
      PROVE  /\ CliTypeOK'
             /\ \E i \in MsgIds \ {"MSG_R_LOGIN"}, to \in Names \cup {None} :
                  net' = net \cup {Request(Addr(c), i, MyName[c], to)}
             /\ UNCHANGED <<bIsLogin, inc>>
  <2>1. RequestId[cmd] \in MsgIds \ {"MSG_R_LOGIN"}
    <3>1. cmd \in {"login", "get", "connect", "logout"}
      BY ClientAssumption DEF ClientAssumption
    <3> QED
      BY <3>1 DEF RequestId, MsgIds
  <2>2. ToName[c] \in Names
    BY ClientAssumption DEF ClientAssumption
  <2>3. (IF cmd = "connect" THEN ToName[c] ELSE None) \in Names \cup {None}
    BY <2>2
  <2>4. net' = net \cup {Request(Addr(c), RequestId[cmd], MyName[c],
                                 IF cmd = "connect" THEN ToName[c] ELSE None)}
    BY <1>1 DEF DoInput
  <2>5. cmds' \in [Clients -> 0..MaxCmds] /\ UNCHANGED <<bIsLogin, inc>>
    BY <1>1, ClientAssumption DEF DoInput, ClientAssumption
  <2> QED
    BY <2>1, <2>3, <2>4, <2>5
<1>2. CASE SendHeartbeat(c)
  <2>1. "MSG_C_HEART_BEAT" \in MsgIds \ {"MSG_R_LOGIN"}
    BY DEF MsgIds
  <2> QED
    BY <1>2, <2>1 DEF SendHeartbeat, cvars, Addr
<1>3. ASSUME NEW d \in net, RecvLogin(c, d)
      PROVE  /\ CliTypeOK' /\ net' \subseteq net
             /\ \A b \in Clients : bIsLogin'[b] => bIsLogin[b] \/
                  (d.id = "MSG_R_LOGIN" /\ d.res = 0 /\ d.dst = Addr(b))
             /\ UNCHANGED inc
  <2>1. bIsLogin' = [bIsLogin EXCEPT ![c] = (d.res = 0)] /\ UNCHANGED <<inc, cmds>>
    BY <1>3 DEF RecvLogin
  <2>2. net' \subseteq net
    BY <1>3 DEF RecvLogin, Exchange
  <2>3. d.id = "MSG_R_LOGIN" /\ d.dst = Addr(c)
    BY <1>3 DEF RecvLogin, Gets
  <2>4. bIsLogin' \in [Clients -> BOOLEAN]
    BY <2>1
  <2> QED
    BY <2>1, <2>2, <2>3, <2>4
<1>4. ASSUME NEW d \in net, RecvLogout(c, d)
      PROVE  /\ CliTypeOK' /\ net' \subseteq net
             /\ \A b \in Clients : bIsLogin'[b] => bIsLogin[b]
             /\ UNCHANGED inc
  <2>1. net' \subseteq net
    BY <1>4 DEF RecvLogout, Exchange
  <2>2. /\ bIsLogin' = [bIsLogin EXCEPT ![c] = IF d.res = 0 THEN FALSE ELSE bIsLogin[c]]
        /\ UNCHANGED <<inc, cmds>>
    BY <1>4 DEF RecvLogout
  <2> QED
    BY <2>1, <2>2
<1>5. ASSUME NEW d \in net, RecvHole(c, d)
      PROVE  net' \subseteq net /\ UNCHANGED cvars
  BY <1>5 DEF RecvHole, Exchange
<1>6. CASE Restart(c)
  <2>1. /\ inc' = [inc EXCEPT ![c] = inc[c] + 1] /\ inc[c] < MaxRestarts
        /\ bIsLogin' = [bIsLogin EXCEPT ![c] = FALSE] /\ UNCHANGED <<net, cmds>>
    BY <1>6 DEF Restart
  <2>2. inc' \in [Clients -> 0..MaxRestarts]
    BY <2>1, ClientAssumption DEF ClientAssumption
  <2>3. \A b \in Clients : bIsLogin'[b] => b # c /\ bIsLogin[b] /\ inc'[b] = inc[b]
    BY <2>1
  <2> QED
    BY <2>1, <2>2, <2>3 DEF Addr
<1> QED
  BY <1>1, <1>2, <1>3, <1>4, <1>5, <1>6 DEF CliNext, P2PClientProc, Addr, cvars

(* Every step keeps types and the registry's table.                        *)
LEMMA SysTypeStep ==
  ASSUME SysTypeOK, [SysNext]_sysvars
  PROVE  SysTypeOK'
<1>1. CASE SrvNext /\ UNCHANGED cvars
  BY <1>1, SrvTypeStep DEF SysTypeOK, CliTypeOK, cvars
<1>2. ASSUME NEW c \in Clients, CliNext(c), UNCHANGED <<pc, step, srvdb>>
      PROVE  SysTypeOK'
  <2>1. net' \subseteq T_Msg
    <3>1. CASE net' \subseteq net
      BY <3>1 DEF SysTypeOK, SrvTypeOK
    <3>2. ASSUME NEW i \in MsgIds, NEW to \in Names \cup {None},
                 net' = net \cup {Request(Addr(c), i, MyName[c], to)}
          PROVE  net' \subseteq T_Msg
      BY <3>2, SentByClient DEF SysTypeOK, SrvTypeOK
    <3> QED
      BY <1>2, <3>1, <3>2, ClientEffect
  <2>2. CliTypeOK'
    BY <1>2, ClientEffect
  <2> QED
    BY <1>2, <2>1, <2>2 DEF SysTypeOK, SrvTypeOK, srvdb
<1>3. CASE NetLose /\ UNCHANGED <<pc, step, srvdb, cvars>>
  BY <1>3 DEF NetLose, SysTypeOK, SrvTypeOK, CliTypeOK, srvdb, cvars
<1>4. CASE UNCHANGED sysvars
  BY <1>4 DEF sysvars, svars, cvars, SysTypeOK, SrvTypeOK, CliTypeOK
<1> QED
  BY <1>1, <1>2, <1>3, <1>4 DEF SysNext

(* Clients and the network never touch the server's state.                 *)
LEMMA SysCases ==
  ASSUME [SysNext]_sysvars
  PROVE  SrvNext \/ UNCHANGED <<pc, step, dbfile, schema, rows, seq, granted>>
BY DEF SysNext, sysvars, svars, srvdb

(* What a step of the server adds to the network and to granted.           *)
LEMMA ServerAdds ==
  ASSUME "busy" \notin WriteFaults, SrvTypeOK, SrvNext
  PROVE  /\ granted \subseteq granted'
         /\ \A e \in net' \ net :
              /\ e.src = Server
              /\ e.id = "MSG_R_LOGIN" /\ e.res = 0 =>
                   \E d \in net : d.src = e.dst /\ <<e.dst, d.my>> \in granted'
<1>1. ASSUME NEW d \in net, LoginReject(d) \/ LoginUpdate(d) \/ LoginInsert(d)
      PROVE  /\ granted \subseteq granted'
             /\ \A e \in net' \ net :
                  e.src = Server /\ (e.res = 0 => d.src = e.dst /\ <<e.dst, d.my>> \in granted')
  <2>1. PICK v \in {0, 1} :
          /\ Exchange(d, {Response(d.src, "MSG_R_LOGIN", None, v)})
          /\ granted \subseteq granted'
          /\ v = 0 => <<d.src, d.my>> \in granted'
    BY <1>1, LoginEffect
  <2>2. \A e \in net' \ net : e = Response(d.src, "MSG_R_LOGIN", None, v)
    BY <2>1 DEF Exchange
  <2> QED
    BY <2>1, <2>2 DEF Response
<1>2. ASSUME NEW d \in net, Logout(d)
      PROVE  /\ granted' = granted
             /\ \A e \in net' \ net : e.src = Server /\ e.id # "MSG_R_LOGIN"
  <2>1. \A e \in net' \ net : e = Response(d.src, "MSG_R_LOGOUT", None, 0)
    BY <1>2, LogoutEffect DEF Exchange
  <2> QED
    BY <1>2, <2>1, LogoutEffect DEF Response
<1>3. ASSUME NEW d \in net,
             \/ GetPeers(d) \/ HeartBeat(d) \/ Hole(d) \/ HaveSendP2P(d)
             \/ Relay(d) \/ RelayBody(d) \/ Ignore(d)
      PROVE  /\ granted' = granted
             /\ \A e \in net' \ net : e.src = Server /\ e.id # "MSG_R_LOGIN"
  <2>1. \E out \in SUBSET T_Msg :
          Exchange(d, out) /\ \A e \in out : e.id # "MSG_R_LOGIN" /\ e.src = Server
    BY <1>3, OtherEffect
  <2>2. granted' = granted
    BY <1>3, OtherEffect DEF srvdb
  <2> QED
    BY <2>1, <2>2 DEF Exchange
<1>4. CASE SrvMain
  BY <1>4, MainEffect
<1> QED
  BY <1>1, <1>2, <1>3, <1>4, SrvCases

(* The three parts of SysInv beyond types, by who takes the step.          *)
LEMMA SysInvStep ==
  ASSUME "busy" \notin WriteFaults, SysInv, [SysNext]_sysvars
  PROVE  SysInv'
<1> USE DEF SysInv
<1>1. SysTypeOK'
  BY SysTypeStep
<1>2. \A c \in Clients, i \in 0..MaxRestarts : <<c, i>> # Server
  BY ClientAssumption, NetAssumption DEF ClientAssumption, NetAssumption
<1>3. CASE SrvNext /\ UNCHANGED cvars
  <2>1. /\ granted \subseteq granted'
        /\ \A e \in net' \ net :
             /\ e.src = Server
             /\ e.id = "MSG_R_LOGIN" /\ e.res = 0 =>
                  \E d \in net : d.src = e.dst /\ <<e.dst, d.my>> \in granted'
    BY <1>3, ServerAdds DEF SysTypeOK
  <2>2. OwnName'
    BY <1>2, <2>1 DEF OwnName
  <2>3. AnswersGranted'
    <3> SUFFICES ASSUME NEW e \in net', NEW c \in Clients, NEW i \in 0..MaxRestarts,
                        e.id = "MSG_R_LOGIN", e.res = 0, e.dst = <<c, i>>
                 PROVE  <<<<c, i>>, MyName[c]>> \in granted'
      BY DEF AnswersGranted
    <3>1. CASE e \in net
      BY <2>1, <3>1 DEF AnswersGranted
    <3>2. CASE e \notin net
      <4>1. PICK d \in net : d.src = e.dst /\ <<e.dst, d.my>> \in granted'
        BY <2>1, <3>2
      <4>2. d.my = MyName[c]
        BY <4>1 DEF OwnName
      <4> QED
        BY <4>1, <4>2
    <3> QED
      BY <3>1, <3>2
  <2>4. NoPhantomLogin'
    BY <1>3, <2>1 DEF NoPhantomLogin, Addr, cvars
  <2> QED
    BY <1>1, <2>2, <2>3, <2>4
<1>4. ASSUME NEW c \in Clients, CliNext(c), UNCHANGED <<pc, step, srvdb>>
      PROVE  SysInv'
  <2>1. granted' = granted
    BY <1>4 DEF srvdb
  <2>2. \A e \in net' \ net : e.src = Addr(c) /\ e.my = MyName[c] /\ e.id # "MSG_R_LOGIN"
    <3>1. ASSUME NEW i \in MsgIds \ {"MSG_R_LOGIN"}, NEW to \in Names \cup {None},
                 net' = net \cup {Request(Addr(c), i, MyName[c], to)}
          PROVE  \A e \in net' \ net :
                   e.src = Addr(c) /\ e.my = MyName[c] /\ e.id # "MSG_R_LOGIN"
      BY <3>1, SentByClient DEF SysTypeOK
    <3> QED
      BY <1>4, <3>1, ClientEffect
  <2>3. OwnName'
    <3>1. \A b \in Clients, i \in 0..MaxRestarts : Addr(c) = <<b, i>> => b = c
      BY DEF Addr
    <3> QED
      BY <2>2, <3>1 DEF OwnName
  <2>4. AnswersGranted'
    BY <2>1, <2>2 DEF AnswersGranted
  <2>5. NoPhantomLogin'
    <3> SUFFICES ASSUME NEW b \in Clients, bIsLogin'[b]
                 PROVE  <<Addr(b)', MyName[b]>> \in granted'
      BY DEF NoPhantomLogin
    <3>1. Addr(b)' = Addr(b)
      BY <1>4, ClientEffect
    <3>2. CASE bIsLogin[b]
      BY <2>1, <3>1, <3>2 DEF NoPhantomLogin
    <3>3. CASE \E d \in net : d.id = "MSG_R_LOGIN" /\ d.res = 0 /\ d.dst = Addr(b)
      <4>1. Addr(b) = <<b, inc[b]>> /\ inc[b] \in 0..MaxRestarts
        BY AddrType DEF Addr, SysTypeOK
      <4> QED
        BY <2>1, <3>1, <3>3, <4>1 DEF AnswersGranted
    <3> QED
      BY <1>4, <3>2, <3>3, ClientEffect
  <2> QED
    BY <1>1, <2>3, <2>4, <2>5
<1>5. CASE NetLose /\ UNCHANGED <<pc, step, srvdb, cvars>>
  <2>1. net' \subseteq net /\ granted' = granted /\ UNCHANGED cvars
    BY <1>5 DEF NetLose, srvdb, cvars
  <2> QED
    BY <1>1, <2>1 DEF OwnName, AnswersGranted, NoPhantomLogin, Addr, cvars
<1>6. CASE UNCHANGED sysvars
  BY <1>1, <1>6 DEF sysvars, svars, cvars, OwnName, AnswersGranted, NoPhantomLogin, Addr
<1> QED
  BY <1>3, <1>4, <1>5, <1>6 DEF SysNext

(* SysInv holds in the initial state.                                      *)
LEMMA SysInitInv == SysInit => SysInv
<1> SUFFICES ASSUME SysInit PROVE SysInv
  OBVIOUS
<1>1. SrvTypeOK
  BY SrvInitType DEF SysInit
<1>2. CliTypeOK
  BY ClientAssumption DEF SysInit, CliInit, CliTypeOK, ClientAssumption
<1>3. \A c \in Clients : ~ bIsLogin[c]
  BY DEF SysInit, CliInit
<1>4. net = {}
  BY DEF SysInit
<1> QED
  BY <1>1, <1>2, <1>3, <1>4 DEF SysInv, SysTypeOK, OwnName, AnswersGranted, NoPhantomLogin

-----------------------------------------------------------------------------

(* Type correctness of the composed system.                                *)
THEOREM SystemTypeCorrect == SysSpec => []SysTypeOK
<1>1. SysInit => SysTypeOK
  BY SysInitInv DEF SysInv
<1>2. SysTypeOK /\ [SysNext]_sysvars => SysTypeOK'
  BY SysTypeStep
<1> QED
  BY <1>1, <1>2, PTL DEF SysSpec

(* With any number of clients, restarts and commands, loss, duplication,   *)
(* reordering, crashes and failing (but not busy) writes, bIsLogin is true *)
(* only at a client the server has put online under its name and address.  *)
THEOREM NoPhantom == ASSUME "busy" \notin WriteFaults PROVE SysSpec => []NoPhantomLogin
<1>1. SysInv /\ [SysNext]_sysvars => SysInv'
  BY SysInvStep
<1>2. SysInv => NoPhantomLogin
  BY DEF SysInv
<1> QED
  BY <1>1, <1>2, SysInitInv, PTL DEF SysSpec

(* The composed system implements the login service.                       *)
THEOREM SystemRefines == SysSpec => RegistryIsLoginService
<1> DEFINE Inv == SysTypeOK /\ Table(rows, seq)
<1>1. SysInit => Inv /\ LS!LSInit
  <2> SUFFICES ASSUME SysInit PROVE Inv /\ LS!LSInit
    OBVIOUS
  <2>1. Inv
    BY SysInitInv, SrvInitType DEF SysInit, SysInv
  <2>2. net = {} /\ \A n \in Names : Matches(rows, n) = {}
    BY DEF SysInit, SrvInit, Matches
  <2>3. LS!LSInit
    BY <2>2 DEF Holders, HoldersIn, DoubledIn, LoginRequests, LS!LSInit
  <2> QED
    BY <2>1, <2>3
<1>2. Inv /\ [SysNext]_sysvars => Inv' /\ LS!LSNext
  <2> SUFFICES ASSUME Inv, [SysNext]_sysvars PROVE Inv' /\ LS!LSNext
    OBVIOUS
  <2>1. SysTypeOK'
    BY SysTypeStep
  <2>2. CASE SrvNext
    BY <2>1, <2>2, SrvTableStep DEF SysTypeOK
  <2>3. CASE UNCHANGED <<rows, seq>>
    BY <2>1, <2>3 DEF Holders, LS!LSNext, LS!Traffic
  <2> QED
    BY <2>2, <2>3, SysCases
<1> QED
  BY <1>1, <1>2, PTL DEF SysSpec, RegistryIsLoginService, LS!LSSpec

-----------------------------------------------------------------------------
(* What clients send.                                                      *)

ClientIds ==
  {"MSG_C_LOGIN", "MSG_C_LOGOUT", "MSG_C_GET_PEERS", "MSG_C_HEART_BEAT", "MSG_C_HOLE"}

(* What is on its way to the server was sent by a command or a heartbeat.  *)
FromCommands == \A d \in net : d.dst = Server => d.id \in ClientIds

(* The fields of an answer.                                                *)
LEMMA ResponseFields ==
  ASSUME NEW a, NEW i, NEW my, NEW r
  PROVE  /\ Response(a, i, my, r).src = Server /\ Response(a, i, my, r).dst = a
         /\ Response(a, i, my, r).id = i /\ Response(a, i, my, r).res = r
BY DEF Response

(* A client sends a command or a heartbeat with its address and name, or   *)
(* handles a datagram.                                                     *)
LEMMA ClientSends ==
  ASSUME SysTypeOK, NEW c \in Clients, CliNext(c), NEW e \in net' \ net
  PROVE  e.src = Addr(c) /\ e.dst = Server /\ e.my = MyName[c] /\ e.id \in ClientIds
<1>1. ASSUME NEW cmd \in Commands, DoInput(c, cmd)
      PROVE  e.src = Addr(c) /\ e.dst = Server /\ e.my = MyName[c] /\ e.id \in ClientIds
  <2>1. PICK to : e = Request(Addr(c), RequestId[cmd], MyName[c], to)
    BY <1>1 DEF DoInput
  <2>2. cmd \in {"login", "get", "connect", "logout"}
    BY ClientAssumption DEF ClientAssumption
  <2>3. RequestId[cmd] \in ClientIds
    BY <2>2 DEF RequestId, ClientIds
  <2> QED
    BY <2>1, <2>3 DEF Request
<1>2. CASE SendHeartbeat(c)
  <2>1. e = Request(Addr(c), "MSG_C_HEART_BEAT", MyName[c], None)
    BY <1>2 DEF SendHeartbeat
  <2> QED
    BY <2>1 DEF Request, ClientIds
<1>3. ASSUME NEW d \in net, P2PClientProc(c, d) PROVE FALSE
  BY <1>3 DEF P2PClientProc, RecvLogin, RecvLogout, RecvHole, Exchange
<1>4. CASE Restart(c)
  BY <1>4 DEF Restart
<1> QED
  BY <1>1, <1>2, <1>3, <1>4 DEF CliNext

(* The server answers clients only.                                        *)
LEMMA ServerAnswers ==
  ASSUME SrvTypeOK, SrvNext, NEW e \in net' \ net
  PROVE  e.dst \in Addrs
<1>1. SrvTypeOK'
  BY SrvTypeStep
<1>2. e.src = Server
  <2>1. ASSUME NEW d \in net, LoginReject(d) \/ LoginUpdate(d) \/ LoginInsert(d)
        PROVE  e.src = Server
    <3>1. PICK v : Exchange(d, {Response(d.src, "MSG_R_LOGIN", None, v)})
      BY <2>1, LoginEffect
    <3> QED
      BY <3>1, ResponseFields DEF Exchange
  <2>2. ASSUME NEW d \in net, Logout(d) PROVE e.src = Server
    <3>1. e = Response(d.src, "MSG_R_LOGOUT", None, 0)
      BY <2>2, LogoutEffect DEF Exchange
    <3> QED
      BY <3>1, ResponseFields
  <2>3. ASSUME NEW d \in net,
               \/ GetPeers(d) \/ HeartBeat(d) \/ Hole(d) \/ HaveSendP2P(d)
               \/ Relay(d) \/ RelayBody(d) \/ Ignore(d)
        PROVE  e.src = Server
    BY <2>3, OtherEffect DEF Exchange
  <2>4. ~ SrvMain
    BY MainEffect
  <2> QED
    BY <2>1, <2>2, <2>3, <2>4, SrvCases
<1> QED
  BY <1>1, <1>2, NetAssumption DEF SrvTypeOK, NetAssumption, T_Msg, T_Request, T_Response

(* Only what clients send is ever on its way to the server.                *)
LEMMA FromCommandsStep ==
  ASSUME SysTypeOK, FromCommands, [SysNext]_sysvars
  PROVE  FromCommands'
<1>1. CASE SrvNext
  <2>1. \A e \in net' \ net : e.dst # Server
    BY <1>1, ServerAnswers, NetAssumption DEF NetAssumption, SysTypeOK
  <2> QED
    BY <2>1 DEF FromCommands
<1>2. ASSUME NEW c \in Clients, CliNext(c)
      PROVE  FromCommands'
  BY <1>2, ClientSends DEF FromCommands
<1>3. CASE net' \subseteq net
  BY <1>3 DEF FromCommands
<1> QED
  BY <1>1, <1>2, <1>3 DEF SysNext, NetLose, sysvars, svars

-----------------------------------------------------------------------------
(* Patient users who keep their address and share their name with nobody,  *)
(* on a network that neither loses nor repeats.                            *)

Quiet ==
  /\ Patient /\ ~Dup /\ ~Lossy /\ MaxRestarts = 0
  /\ QueryFaults = {} /\ "busy" \notin WriteFaults
  /\ \A b, c \in Clients : MyName[b] = MyName[c] => b = c

(* A request is one of a client that is running.                           *)
OwnRequests ==
  \A d \in net : d.dst = Server => \E c \in Clients : d.src = Addr(c) /\ d.my = MyName[c]

LogoutOk == \A d \in net : d.id = "MSG_R_LOGOUT" => d.res = 0

OneAtATime == \A c \in Clients : \A d, e \in Outstanding(c) : d = e

(* No answer is on its way that changes what c believes.                   *)
Undecided(c) ==
  \A d \in net : d.dst = Addr(c) => d.id \notin {"MSG_R_LOGIN", "MSG_R_LOGOUT"}

(* What a client believes, or is about to, is what the table says.         *)
Believes ==
  \A c \in Clients :
    \/ bIsLogin[c] /\ Undecided(c)
    \/ \E d \in net : d.dst = Addr(c) /\ d.id = "MSG_R_LOGIN" /\ d.res = 0
    => Holders[MyName[c]] = {Addr(c)}

BeliefInv ==
  /\ SysTypeOK /\ Table(rows, seq) /\ FromCommands
  /\ OwnRequests /\ LogoutOk /\ OneAtATime /\ Believes

(* What the server does with a client's request d: it drops it and leaves  *)
(* the table alone, or it answers with e, and the holder of no other name  *)
(* changes.                                                                *)
Dropped(d) == net' = net \ {d} /\ Holders' = Holders

Answered(d, e) ==
  /\ net' = (net \ {d}) \cup {e} /\ e.src = Server /\ e.dst = d.src
  /\ d.dst = Server /\ d.id # "MSG_C_HEART_BEAT"
  /\ \A n \in Names : n # d.my => Holders'[n] = Holders[n]
  /\ e.id = "MSG_R_LOGIN" /\ e.res = 0 => Holders'[d.my] = {d.src}
  /\ e.id = "MSG_R_LOGOUT" => e.res = 0
  /\ e.id \notin {"MSG_R_LOGIN", "MSG_R_LOGOUT"} => Holders' = Holders

(* The login handler.                                                      *)
LEMMA LoginAnswered ==
  ASSUME Quiet, SrvTypeOK, Table(rows, seq), NEW d \in net,
         LoginReject(d) \/ LoginUpdate(d) \/ LoginInsert(d)
  PROVE  \E e : Answered(d, e)
<1>1. d.src \in Addrs /\ d.my \in Names
  BY LoginEffect
<1>2. d.dst = Server /\ d.id # "MSG_C_HEART_BEAT"
  BY DEF LoginReject, LoginUpdate, LoginInsert, Receives
<1>3. PICK v \in {0, 1} :
        /\ Exchange(d, {Response(d.src, "MSG_R_LOGIN", None, v)})
        /\ \/ rows' = rows /\ v = 1
           \/ Matches(rows, d.my) # {} /\ rows' = SetOnline(rows, d.my, d.src)
           \/ Matches(rows, d.my) = {} /\ rows' = rows \cup {NewRow(d.my, d.src)}
  BY LoginEffect DEF Quiet
<1> DEFINE e == Response(d.src, "MSG_R_LOGIN", None, v)
<1>4. /\ net' = (net \ {d}) \cup {e} /\ e.src = Server /\ e.dst = d.src
      /\ e.id = "MSG_R_LOGIN" /\ e.res = v
  BY <1>3, ResponseFields DEF Exchange, Quiet
<1>5. \/ Holders' = Holders /\ v = 1
      \/ Holders' = [Holders EXCEPT ![d.my] = {d.src}]
  <2>1. CASE Matches(rows, d.my) # {} /\ rows' = SetOnline(rows, d.my, d.src)
    BY <1>1, <2>1, OnlineTable DEF Holders
  <2>2. CASE Matches(rows, d.my) = {} /\ rows' = rows \cup {NewRow(d.my, d.src)}
    <3>1. HoldersIn(rows)[d.my] = {}
      BY <1>1, <2>2 DEF HoldersIn
    <3>2. HoldersIn(rows') = Joins(HoldersIn(rows), d.my, d.src)
      BY <1>1, <2>2, NewRowTable
    <3> QED
      BY <3>1, <3>2 DEF Holders, Joins
  <2> QED
    BY <1>3, <2>1, <2>2 DEF Holders
<1>6. Holders = [n \in Names |-> Holders[n]]
  BY DEF Holders, HoldersIn
<1> HIDE DEF e
<1>7. /\ \A n \in Names : n # d.my => Holders'[n] = Holders[n]
      /\ e.res = 0 => Holders'[d.my] = {d.src}
  BY ONLY <1>1, <1>4, <1>5, <1>6
<1> QED
  BY <1>2, <1>4, <1>7 DEF Answered

(* The logout handler: no answer means that the write failed.              *)
LEMMA LogoutAnswered ==
  ASSUME Quiet, SrvTypeOK, Table(rows, seq), NEW d \in net, Logout(d)
  PROVE  Dropped(d) \/ \E e : Answered(d, e)
<1>1. d.my \in Names /\ d.dst = Server /\ d.id # "MSG_C_HEART_BEAT"
  BY LogoutEffect DEF Logout, Receives
<1>2. PICK w \in WriteOutcomes :
        /\ rows' = IF w = "ok" THEN SetOffline(rows, d.my) ELSE rows
        /\ Exchange(d, IF WriteRet(w) = 0 THEN {Response(d.src, "MSG_R_LOGOUT", None, 0)}
                                          ELSE {})
  BY DEF Logout
<1>3. CASE w = "err"
  BY <1>2, <1>3 DEF WriteRet, Exchange, Quiet, Dropped, Holders
<1>4. CASE w # "err"
  <2> DEFINE e == Response(d.src, "MSG_R_LOGOUT", None, 0)
  <2>1. /\ net' = (net \ {d}) \cup {e} /\ e.src = Server /\ e.dst = d.src
        /\ e.id = "MSG_R_LOGOUT" /\ e.res = 0
    BY <1>2, <1>4, ResponseFields DEF WriteRet, Exchange, Quiet
  <2>2. Holders' = Holders \/ Holders' = [Holders EXCEPT ![d.my] = {}]
    BY <1>1, <1>2, OfflineTable DEF Holders
  <2> HIDE DEF e
  <2>3. \A n \in Names : n # d.my => Holders'[n] = Holders[n]
    BY <2>2 DEF Holders, HoldersIn
  <2> QED
    BY <1>1, <2>1, <2>3 DEF Answered
<1> QED
  BY <1>3, <1>4

(* The other handlers that a client can reach.                             *)
LEMMA OtherAnswered ==
  ASSUME Quiet, SrvTypeOK, FromCommands, NEW d \in net,
         \/ GetPeers(d) \/ HeartBeat(d) \/ Hole(d) \/ HaveSendP2P(d)
         \/ Relay(d) \/ RelayBody(d) \/ Ignore(d)
  PROVE  Dropped(d) \/ \E e : Answered(d, e)
<1>1. Holders' = Holders
  BY OtherEffect DEF srvdb, Holders
<1>2. CASE GetPeers(d) \/ HeartBeat(d) \/ RelayBody(d) \/ Ignore(d)
  BY <1>1, <1>2 DEF GetPeers, HeartBeat, RelayBody, Ignore, Exchange, Quiet, Dropped
<1>3. CASE Hole(d)
  <2> DEFINE e == Response(d.src, "MSG_R_HOLE", None, 1)
  <2>1. /\ net' = (net \ {d}) \cup {e} /\ e.src = Server /\ e.dst = d.src
        /\ e.id = "MSG_R_HOLE"
    BY <1>3, ResponseFields DEF Hole, Exchange, Quiet
  <2>2. d.dst = Server /\ d.id # "MSG_C_HEART_BEAT"
    BY <1>3 DEF Hole, Receives
  <2> HIDE DEF e
  <2> QED
    BY <1>1, <2>1, <2>2 DEF Answered
<1>4. ~ HaveSendP2P(d) /\ ~ Relay(d)
  BY DEF HaveSendP2P, Relay, Receives, FromCommands, ClientIds
<1> QED
  BY <1>2, <1>3, <1>4

(* A client that is not restarted keeps its address.                       *)
LEMMA OwnAddr ==
  ASSUME Quiet, CliTypeOK, NEW c \in Clients
  PROVE  Addr(c) = <<c, 0>> /\ Addr(c) # Server /\ ~ Restart(c)
<1>1. inc[c] = 0 /\ Addr(c) \in Addrs
  BY AddrType DEF Quiet, CliTypeOK
<1> QED
  BY <1>1, NetAssumption DEF NetAssumption, Addr, Restart, Quiet

(* The server's step.                                                      *)
LEMMA BeliefServer ==
  ASSUME Quiet, BeliefInv, SysTypeOK', SrvNext, UNCHANGED cvars
  PROVE  OwnRequests' /\ LogoutOk' /\ OneAtATime' /\ Believes'
<1>1. \A c \in Clients : Addr(c) = <<c, 0>> /\ Addr(c)' = Addr(c) /\ Addr(c) # Server
  BY OwnAddr DEF BeliefInv, SysTypeOK, Addr, cvars
<1>2. bIsLogin' = bIsLogin
  BY DEF cvars
<1>3. \A c \in Clients : MyName[c] \in Names
  BY ClientAssumption DEF ClientAssumption
<1>4. CASE UNCHANGED net /\ Holders' = Holders
  BY <1>1, <1>2, <1>4 DEF BeliefInv, OwnRequests, LogoutOk, OneAtATime, Believes, Outstanding,
     Undecided
<1>5. ASSUME NEW d \in net, d.dst = Server, Dropped(d)
      PROVE  OwnRequests' /\ LogoutOk' /\ OneAtATime' /\ Believes'
  <2>1. net' \subseteq net /\ Holders' = Holders /\ \A e \in net : e.dst # Server => e \in net'
    BY <1>5 DEF Dropped
  <2>2. OwnRequests' /\ LogoutOk'
    BY <1>1, <2>1 DEF BeliefInv, OwnRequests, LogoutOk
  <2>3. OneAtATime'
    BY <1>1, <2>1 DEF BeliefInv, OneAtATime, Outstanding
  <2>4. Believes'
    BY <1>1, <1>2, <2>1 DEF BeliefInv, Believes, Undecided
  <2> QED
    BY <2>2, <2>3, <2>4
<1>6. ASSUME NEW d \in net, NEW e, Answered(d, e)
      PROVE  OwnRequests' /\ LogoutOk' /\ OneAtATime' /\ Believes'
  <2>1. PICK c \in Clients : d.src = Addr(c) /\ d.my = MyName[c]
    BY <1>6 DEF Answered, BeliefInv, OwnRequests
  <2>2. net' = (net \ {d}) \cup {e} /\ e.src = Server /\ e.dst = Addr(c)
    BY <1>6, <2>1 DEF Answered
  <2>3. \A x \in Outstanding(c) : x = d
    BY <1>6, <2>1 DEF Answered, BeliefInv, OneAtATime, Outstanding
  <2>4. OwnRequests' /\ LogoutOk'
    BY <1>1, <1>6, <2>2 DEF Answered, BeliefInv, OwnRequests, LogoutOk
  <2>5. \A x \in Outstanding(c)' : x = e
    BY <1>1, <2>2, <2>3 DEF Outstanding
  <2>6. ASSUME NEW b \in Clients, b # c
        PROVE  /\ Outstanding(b)' \subseteq Outstanding(b)
               /\ \A x : x.dst = Addr(b) => (x \in net <=> x \in net')
               /\ Holders'[MyName[b]] = Holders[MyName[b]]
    <3>1. Addr(b) # Addr(c) /\ MyName[b] # MyName[c]
      BY <1>1, <2>6 DEF Quiet
    <3>2. d.dst = Server /\ Addr(b) # Server
      BY <1>1, <1>6 DEF Answered
    <3>3. Holders'[MyName[b]] = Holders[MyName[b]]
      BY <1>3, <1>6, <2>1, <3>1 DEF Answered
    <3> QED
      BY <1>1, <2>2, <3>1, <3>2, <3>3 DEF Outstanding
  <2>7. OneAtATime'
    <3>1. \A b \in Clients : \A x, y \in Outstanding(b)' : x = y
      BY <2>5, <2>6 DEF BeliefInv, OneAtATime
    <3> QED
      BY <3>1 DEF OneAtATime
  <2>8. Believes'
    <3> SUFFICES ASSUME NEW b \in Clients,
                        \/ bIsLogin[b] /\ Undecided(b)'
                        \/ \E x \in net' : x.dst = Addr(b) /\ x.id = "MSG_R_LOGIN" /\ x.res = 0
                 PROVE  Holders'[MyName[b]] = {Addr(b)}
      BY <1>1, <1>2 DEF Believes
    <3>1. CASE b # c
      <4>1. bIsLogin[b] /\ Undecided(b)' => bIsLogin[b] /\ Undecided(b)
        BY <1>1, <2>6, <3>1 DEF Undecided
      <4> QED
        BY <2>6, <3>1, <4>1 DEF BeliefInv, Believes
    <3>2. CASE b = c /\ e.id = "MSG_R_LOGIN" /\ e.res = 0
      BY <1>6, <2>1, <3>2 DEF Answered
    <3>3. CASE b = c /\ e.id \in {"MSG_R_LOGIN", "MSG_R_LOGOUT"} /\ ~(e.id = "MSG_R_LOGIN" /\ e.res = 0)
      <4>1. ~ Undecided(b)'
        BY <1>1, <2>2, <3>3 DEF Undecided
      <4>2. \A x \in net' : x.dst = Addr(b) => x = e
        BY <1>1, <2>5, <3>3 DEF Outstanding
      <4> QED
        BY <3>3, <4>1, <4>2
    <3>4. CASE b = c /\ e.id \notin {"MSG_R_LOGIN", "MSG_R_LOGOUT"}
      <4>1. \A x \in net' : x.dst = Addr(b) => x = e
        BY <1>1, <2>5, <3>4 DEF Outstanding
      <4>2. bIsLogin[b]
        BY <3>4, <4>1
      <4>3. Undecided(b)
        <5>1. \A x \in net : x.dst = Addr(b) => x = d
          BY <2>3, <3>4 DEF Outstanding
        <5> QED
          BY <1>1, <1>6, <5>1 DEF Undecided, Answered
      <4>4. Holders' = Holders
        BY <1>6, <3>4 DEF Answered
      <4> QED
        BY <4>2, <4>3, <4>4 DEF BeliefInv, Believes
    <3> QED
      BY <3>1, <3>2, <3>3, <3>4
  <2> QED
    BY <2>4, <2>7, <2>8
<1>7. ASSUME NEW d \in net, P2PSrvProc(d)
      PROVE  d.dst = Server /\ (Dropped(d) \/ \E e : Answered(d, e))
  <2>1. d.dst = Server
    BY <1>7 DEF P2PSrvProc, LoginReject, LoginUpdate, LoginInsert, Logout, GetPeers, HeartBeat,
       Hole, HaveSendP2P, Relay, RelayBody, Ignore, Receives
  <2> QED
    BY <1>7, <2>1, LoginAnswered, LogoutAnswered, OtherAnswered
    DEF P2PSrvProc, BeliefInv, SysTypeOK
<1>8. SrvMain => UNCHANGED net /\ Holders' = Holders
  BY MainEffect DEF BeliefInv, SysTypeOK, Holders
<1> QED
  BY <1>4, <1>5, <1>6, <1>7, <1>8 DEF SrvNext

(* A client's step.                                                        *)
LEMMA BeliefClient ==
  ASSUME Quiet, BeliefInv, SysTypeOK', NEW c \in Clients, CliNext(c),
         UNCHANGED <<pc, step, srvdb>>
  PROVE  OwnRequests' /\ LogoutOk' /\ OneAtATime' /\ Believes'
<1>1. \A b \in Clients : Addr(b) = <<b, 0>> /\ Addr(b)' = Addr(b) /\ Addr(b) # Server
  <2>1. \A b \in Clients : Addr(b) = <<b, 0>> /\ Addr(b) # Server
    BY OwnAddr DEF BeliefInv, SysTypeOK
  <2>2. inc' \in [Clients -> 0..MaxRestarts] /\ MaxRestarts = 0
    BY DEF SysTypeOK, CliTypeOK, Quiet
  <2>3. \A b \in Clients : inc'[b] = 0
    BY <2>2
  <2> QED
    BY <2>1, <2>3 DEF Addr
<1>2. Holders' = Holders
  BY DEF srvdb, Holders
<1>3. OwnRequests'
  BY <1>1, ClientSends DEF BeliefInv, OwnRequests
<1>4. LogoutOk'
  <2>1. \A e \in net' \ net : e.id # "MSG_R_LOGOUT"
    BY ClientSends DEF BeliefInv, ClientIds
  <2> QED
    BY <2>1 DEF BeliefInv, LogoutOk
<1>5. CASE \E cmd \in Commands : DoInput(c, cmd)
  <2>1. Outstanding(c) = {} /\ bIsLogin' = bIsLogin /\ net \subseteq net'
    BY <1>5 DEF DoInput, Quiet
  <2>2. PICK r : net' = net \cup {r}
    BY <1>5 DEF DoInput
  <2>3. r \in net \/ (r.src = Addr(c) /\ r.dst = Server)
    BY <2>2, ClientSends DEF BeliefInv
  <2>4. OneAtATime'
    <3>1. \A b \in Clients : b # c => Outstanding(b)' \subseteq Outstanding(b)
      BY <1>1, <2>2, <2>3 DEF Outstanding
    <3>2. \A x \in Outstanding(c)' : x = r
      BY <1>1, <2>1, <2>2 DEF Outstanding
    <3>3. \A b \in Clients : \A x, y \in Outstanding(b)' : x = y
      BY <3>1, <3>2 DEF BeliefInv, OneAtATime
    <3> QED
      BY <3>3 DEF OneAtATime
  <2>5. Believes'
    BY <1>1, <1>2, <2>1, <2>2, <2>3 DEF BeliefInv, Believes, Undecided
  <2> QED
    BY <1>3, <1>4, <2>4, <2>5
<1>6. CASE SendHeartbeat(c)
  <2> DEFINE h == Request(Addr(c), "MSG_C_HEART_BEAT", MyName[c], None)
  <2>1. net' = net \cup {h} /\ h.dst = Server /\ h.id = "MSG_C_HEART_BEAT"
        /\ bIsLogin' = bIsLogin
    BY <1>6 DEF SendHeartbeat, Request, cvars
  <2> HIDE DEF h
  <2>2. \A b \in Clients : Outstanding(b)' \subseteq Outstanding(b)
    BY <1>1, <2>1 DEF Outstanding
  <2>3. \A b \in Clients : \A x, y \in Outstanding(b)' : x = y
    BY <2>2 DEF BeliefInv, OneAtATime
  <2>4. OneAtATime'
    BY <2>3 DEF OneAtATime
  <2>5. Believes'
    BY <1>1, <1>2, <2>1 DEF BeliefInv, Believes, Undecided
  <2> QED
    BY <1>3, <1>4, <2>4, <2>5
<1>7. ASSUME NEW d \in net, P2PClientProc(c, d)
      PROVE  OneAtATime' /\ Believes'
  <2>1. d.dst = Addr(c) /\ net' = net \ {d}
    BY <1>7 DEF P2PClientProc, RecvLogin, RecvLogout, RecvHole, Gets, Exchange, Quiet
  <2>2. \A b \in Clients : Outstanding(b)' \subseteq Outstanding(b)
    BY <1>1, <2>1 DEF Outstanding
  <2>3. OneAtATime'
    <3>1. \A b \in Clients : \A x, y \in Outstanding(b)' : x = y
      BY <2>2 DEF BeliefInv, OneAtATime
    <3> QED
      BY <3>1 DEF OneAtATime
  <2>4. \A x \in net' : x.dst # Addr(c)
    BY <2>1 DEF BeliefInv, OneAtATime, Outstanding
  <2>5. bIsLogin \in [Clients -> BOOLEAN]
    BY DEF BeliefInv, SysTypeOK, CliTypeOK
  <2>6. bIsLogin'[c] => Holders[MyName[c]] = {Addr(c)}
    <3>1. CASE RecvLogin(c, d)
      BY <2>1, <2>5, <3>1 DEF RecvLogin, Gets, BeliefInv, Believes
    <3>2. CASE RecvLogout(c, d)
      BY <2>1, <2>5, <3>2 DEF RecvLogout, Gets, BeliefInv, LogoutOk
    <3>3. CASE RecvHole(c, d)
      <4>1. Undecided(c) /\ bIsLogin' = bIsLogin
        BY <2>1, <2>4, <3>3 DEF RecvHole, Gets, Undecided, cvars
      <4> QED
        BY <4>1 DEF BeliefInv, Believes
    <3> QED
      BY <1>7, <3>1, <3>2, <3>3 DEF P2PClientProc
  <2>7. \A b \in Clients : b # c => bIsLogin'[b] = bIsLogin[b]
    BY <1>7, <2>5 DEF P2PClientProc, RecvLogin, RecvLogout, RecvHole, cvars
  <2>8. Believes'
    <3> SUFFICES ASSUME NEW b \in Clients,
                        \/ bIsLogin'[b] /\ Undecided(b)'
                        \/ \E x \in net' : x.dst = Addr(b) /\ x.id = "MSG_R_LOGIN" /\ x.res = 0
                 PROVE  Holders[MyName[b]] = {Addr(b)}
      BY <1>1, <1>2 DEF Believes
    <3>1. CASE b = c
      BY <2>4, <2>6, <3>1
    <3>2. CASE b # c
      <4>1. d.dst # Addr(b)
        BY <1>1, <2>1, <3>2
      <4>2. Undecided(b)' => Undecided(b)
        BY <1>1, <2>1, <4>1 DEF Undecided
      <4> QED
        BY <2>1, <2>7, <3>2, <4>2 DEF BeliefInv, Believes
    <3> QED
      BY <3>1, <3>2
  <2> QED
    BY <2>3, <2>8
<1>8. ~ Restart(c)
  BY OwnAddr DEF BeliefInv, SysTypeOK
<1> QED
  BY <1>3, <1>4, <1>5, <1>6, <1>7, <1>8 DEF CliNext

(* BeliefInv is inductive.                                                 *)
LEMMA BeliefStep ==
  ASSUME Quiet, BeliefInv, [SysNext]_sysvars
  PROVE  BeliefInv'
<1>1. SysTypeOK' /\ FromCommands'
  BY SysTypeStep, FromCommandsStep DEF BeliefInv
<1>2. Table(rows, seq)'
  <2>1. CASE SrvNext
    BY <2>1, SrvTableStep DEF BeliefInv, SysTypeOK
  <2>2. CASE UNCHANGED <<rows, seq>>
    BY <2>2 DEF BeliefInv, Table
  <2> QED
    BY <2>1, <2>2, SysCases
<1>3. CASE SrvNext /\ UNCHANGED cvars
  BY <1>1, <1>2, <1>3, BeliefServer DEF BeliefInv
<1>4. ASSUME NEW c \in Clients, CliNext(c), UNCHANGED <<pc, step, srvdb>> PROVE BeliefInv'
  BY <1>1, <1>2, <1>4, BeliefClient DEF BeliefInv
<1>5. CASE UNCHANGED sysvars
  <2>1. OwnRequests' /\ LogoutOk' /\ OneAtATime'
    BY <1>5 DEF sysvars, svars, cvars, BeliefInv, OwnRequests, LogoutOk, OneAtATime,
       Outstanding, Addr
  <2>2. Believes'
    BY <1>5 DEF sysvars, svars, cvars, BeliefInv, Believes, Undecided, Holders, Addr
  <2> QED
    BY <1>1, <1>2, <2>1, <2>2 DEF BeliefInv
<1> QED
  BY <1>3, <1>4, <1>5 DEF SysNext, Quiet

(* BeliefMatchesRegistry: for any number of patient users with names of    *)
(* their own, whatever they type and whatever statements fail, a client    *)
(* that has no answer to wait for and believes it is logged in (bIsLogin)  *)
(* is the one whose address p2p_peerinfo has online.                       *)
THEOREM BeliefIsRegistry ==
  ASSUME Quiet
  PROVE  SysSpec => []BeliefMatchesRegistry
<1>1. SysInit => BeliefInv
  <2> SUFFICES ASSUME SysInit PROVE BeliefInv
    OBVIOUS
  <2>1. SysTypeOK /\ Table(rows, seq)
    BY SysInitInv, SrvInitType DEF SysInit, SysInv
  <2>2. net = {} /\ \A c \in Clients : ~ bIsLogin[c]
    BY DEF SysInit, CliInit
  <2> QED
    BY <2>1, <2>2 DEF BeliefInv, FromCommands, OwnRequests, LogoutOk, OneAtATime, Outstanding,
       Believes
<1>2. BeliefInv /\ [SysNext]_sysvars => BeliefInv'
  BY BeliefStep
<1>3. BeliefInv => BeliefMatchesRegistry
  BY DEF BeliefInv, Believes, Undecided, BeliefMatchesRegistry, Outstanding
<1> QED
  BY <1>1, <1>2, <1>3, PTL DEF SysSpec

=============================================================================
