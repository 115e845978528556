----------------------------- MODULE P2PSystem ------------------------------
(***************************************************************************)
(* The server and the Linux clients on one network.                        *)
(***************************************************************************)
EXTENDS P2PServer, P2PClient

CONSTANT Lossy     \* may the network lose a datagram

(* A server killed inside a handler, after the commit and before the       *)
(* reply, loses the reply: it may crash only where replies may be lost.    *)
ASSUME SystemAssumption == Lossy \in BOOLEAN /\ (CrashPoints # {} => Lossy)

sysvars == <<svars, cvars>>

SysInit == SrvInit /\ CliInit /\ net = {}

SysNext ==
  \/ SrvNext /\ UNCHANGED cvars
  \/ \E c \in Clients : CliNext(c) /\ UNCHANGED <<pc, step, srvdb>>
  \/ Lossy /\ NetLose /\ UNCHANGED <<pc, step, srvdb, cvars>>

SysSpec == SysInit /\ [][SysNext]_sysvars

(* P2PSrvProc handles a request of kind i of client c.                     *)
Serves(c, i) ==
  /\ \E d \in net : d.src = Addr(c) /\ d.id = i /\ P2PSrvProc(d)
  /\ UNCHANGED cvars

(* P2PClientProc handles a datagram.                                       *)
Handles(c) ==
  /\ \E d \in net : P2PClientProc(c, d)
  /\ UNCHANGED <<pc, step, srvdb>>

(* The receive loops never block for good: what the kernel has queued on a *)
(* socket is read in order of arrival.                                     *)
SysFairSpec ==
  /\ SysSpec
  /\ \A c \in Clients :
       /\ \A i \in Handled : WF_sysvars(Serves(c, i))
       /\ WF_sysvars(Handles(c))

-----------------------------------------------------------------------------

(* Type invariant of the composed system.                                  *)
SysTypeOK == SrvTypeOK /\ CliTypeOK

(* A client that believes it is logged in (bIsLogin) was at some time put  *)
(* online by the server under its own name and its present address:        *)
(* neither a lost, late or repeated answer, nor one meant for an earlier   *)
(* process or for a user of the same name, makes it believe so.            *)
NoPhantomLogin ==
  \A c \in Clients : bIsLogin[c] => <<Addr(c), MyName[c]>> \in granted

(* Nothing of c's is in flight and c believes it is logged in: then the    *)
(* name is online at c's address and at no other, and a MSG_C_LOGIN from   *)
(* anyone else would be refused.                                           *)
BeliefMatchesRegistry ==
  \A c \in Clients :
    Outstanding(c) = {} /\ bIsLogin[c] => Holders[MyName[c]] = {Addr(c)}

(* If the server comes up for good, every command is answered or dropped   *)
(* and the answer handled: nothing stays in flight for ever.               *)
CommandsSettle ==
  <>[](pc = "run") => \A c \in Clients : Outstanding(c) # {} ~> Outstanding(c) = {}

(* A MSG_C_HOLE that names a user who is logged in makes the server call   *)
(* that user with MSG_C_HOLE_REQ.                                          *)
OnlineTargetIsCalled ==
  [][\A d \in net \ net' : d.id = "MSG_C_HOLE" /\ Holders[d.to] # {} =>
       \E e \in net' : e.id = "MSG_C_HOLE_REQ" /\ e.dst \in Holders[d.to]]_sysvars

=============================================================================
