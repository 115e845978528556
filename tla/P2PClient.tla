----------------------------- MODULE P2PClient ------------------------------
(***************************************************************************)
(* The Linux client (client.cpp): the main thread reads commands (DoInput) *)
(* and sends one datagram for each, SendHeartbeat sends one every 30 s     *)
(* while bIsLogin, and P2PClientProc handles what arrives.  bIsLogin is    *)
(* the only state they share: P2PClientProc writes it, SendHeartbeat reads *)
(* it.  No request is numbered, repeated or timed.                         *)
(*                                                                         *)
(* Modelled are the exchanges with the server as it is compiled, which     *)
(* never sends MSG_R_GET_PEERS or MSG_C_HOLE_REQ.                          *)
(***************************************************************************)
EXTENDS P2PNet

CONSTANTS Clients,
          MyName,       \* the argument -u of each client
          ToName,       \* the argument -r of each client
          Commands,     \* the commands its user types
          MaxCmds,      \* bound on the commands typed per client
          MaxRestarts,  \* bound on the restarts per client
          Patient       \* do users wait for an answer before the next command

ASSUME ClientAssumption ==
  /\ MyName \in [Clients -> Names] /\ ToName \in [Clients -> Names]
  /\ Commands \subseteq {"login", "get", "connect", "logout"}
  /\ MaxCmds \in Nat /\ MaxRestarts \in Nat /\ Patient \in BOOLEAN
  /\ \A c \in Clients, i \in 0..MaxRestarts : <<c, i>> \in Addrs

VARIABLES bIsLogin,    \* stPeerLocal.bIsLogin of each client
          inc,         \* how often each client was restarted
          cmds         \* commands typed so far by each user

cvars == <<bIsLogin, inc, cmds>>

(* main() binds sockCli to port 0: a restarted client has another address. *)
Addr(c) == <<c, inc[c]>>

CliInit ==
  /\ bIsLogin = [c \in Clients |-> FALSE]
  /\ inc = [c \in Clients |-> 0]
  /\ cmds = [c \in Clients |-> 0]

-----------------------------------------------------------------------------
(* DoInput: the datagram of each command.                                  *)

(* What is on the way for c: its requests but for heartbeats, and what was *)
(* sent to it.                                                             *)
Outstanding(c) ==
  {d \in net : (d.src = Addr(c) /\ d.id # "MSG_C_HEART_BEAT") \/ d.dst = Addr(c)}

(* The id of the request a command sends.                                  *)
RequestId ==
  [login |-> "MSG_C_LOGIN", get |-> "MSG_C_GET_PEERS",
   connect |-> "MSG_C_HOLE", logout |-> "MSG_C_LOGOUT"]

(* No command looks at bIsLogin.                                           *)
DoInput(c, cmd) ==
  /\ cmds[c] < MaxCmds
  /\ Patient => Outstanding(c) = {}
  /\ cmds' = [cmds EXCEPT ![c] = @ + 1]
  /\ net' = net \cup {Request(Addr(c), RequestId[cmd], MyName[c],
                              IF cmd = "connect" THEN ToName[c] ELSE None)}
  /\ UNCHANGED <<bIsLogin, inc>>

SendHeartbeat(c) ==
  /\ bIsLogin[c]
  /\ net' = net \cup {Request(Addr(c), "MSG_C_HEART_BEAT", MyName[c], None)}
  /\ UNCHANGED cvars

-----------------------------------------------------------------------------
(* P2PClientProc                                                           *)

Gets(c, d, i) == d \in net /\ d.dst = Addr(c) /\ d.id = i

(* Mutant: the result of MSG_R_LOGIN is not looked at.                     *)
RecvLoginAny(c, d) ==
  /\ Gets(c, d, "MSG_R_LOGIN")
  /\ bIsLogin' = [bIsLogin EXCEPT ![c] = TRUE]
  /\ Exchange(d, {})
  /\ UNCHANGED <<inc, cmds>>

(* MSG_R_LOGIN: the last answer decides.                                   *)
RecvLogin(c, d) ==
  /\ Gets(c, d, "MSG_R_LOGIN")
  /\ bIsLogin' = [bIsLogin EXCEPT ![c] = (d.res = 0)]
  /\ Exchange(d, {})
  /\ UNCHANGED <<inc, cmds>>

RecvLogout(c, d) ==
  /\ Gets(c, d, "MSG_R_LOGOUT")
  /\ bIsLogin' = [bIsLogin EXCEPT ![c] = IF d.res = 0 THEN FALSE ELSE @]
  /\ Exchange(d, {})
  /\ UNCHANGED <<inc, cmds>>

(* Mutant: a failed MSG_C_HOLE is sent again.                              *)
RecvHoleRetry(c, d) ==
  /\ Gets(c, d, "MSG_R_HOLE")
  /\ Exchange(d, {Request(Addr(c), "MSG_C_HOLE", MyName[c], ToName[c])})
  /\ UNCHANGED cvars

(* A failure is printed, nothing else.                                     *)
RecvHole(c, d) ==
  /\ Gets(c, d, "MSG_R_HOLE")
  /\ Exchange(d, {})
  /\ UNCHANGED cvars

P2PClientProc(c, d) == RecvLogin(c, d) \/ RecvLogout(c, d) \/ RecvHole(c, d)

(* The client is killed and started again; the server is not told.         *)
Restart(c) ==
  /\ inc[c] < MaxRestarts
  /\ inc' = [inc EXCEPT ![c] = @ + 1]
  /\ bIsLogin' = [bIsLogin EXCEPT ![c] = FALSE]
  /\ UNCHANGED <<net, cmds>>

CliNext(c) ==
  \/ \E cmd \in Commands : DoInput(c, cmd)
  \/ SendHeartbeat(c)
  \/ \E d \in net : P2PClientProc(c, d)
  \/ Restart(c)

CliTypeOK ==
  /\ bIsLogin \in [Clients -> BOOLEAN]
  /\ inc \in [Clients -> 0..MaxRestarts]
  /\ cmds \in [Clients -> 0..MaxCmds]

=============================================================================
