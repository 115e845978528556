------------------------------- MODULE WinNet -------------------------------
(***************************************************************************)
(* The network between the Windows clients (clientDlg.cpp), the server     *)
(* they talk to and each other.  They exchange stCommMsg datagrams and     *)
(* chat texts, which travel as a datagram of their own behind a head.  UDP *)
(* delivers what is in net in any order.                                   *)
(*                                                                         *)
(* A client sits behind a NAT: an "open" one passes everything, a "cone"   *)
(* one what comes from an address the client has sent to (opened), a       *)
(* "closed" one only what the server sends.                                *)
(***************************************************************************)
EXTENDS Naturals

CONSTANTS Users,     \* the clients, also their names and public addresses
          Server,
          None,      \* a name nobody has; no text
          Texts,     \* what users say to each other
          NatType

ASSUME WinNetAssumption ==
  /\ Server \notin Users /\ None \notin Users /\ None \notin Texts
  /\ NatType \in [Users -> {"open", "cone", "closed"}]

VARIABLES net, opened

Ids == { "MSG_C_HEART_BEAT", "MSG_R_HEART_BEAT", "MSG_C_GET_PEERS", "MSG_R_GET_PEERS",
         "MSG_C_HOLE", "MSG_R_HOLE", "P2PMESSAGE", "P2PMESSAGEACK",
         "P2PSOMEONEWANTTOCALLYOU", "P2PPUNCH", "P2PHAVECONNECT1", "P2PCANSTART",
         "P2PPUNCH2", "P2PPUNCHOK", "RELAYMESSAGE", "RELAYMESSAGE2", "text" }

(* name: the one user name the receiver of the message reads (cToName in a *)
(* request, transMsg.userName, cP2PCommUserName or rlyMsg.sUserName else). *)
stCommMsg ==
  [ src : Users \cup {Server}, dst : Users \cup {Server}, id : Ids,
    name : Users \cup {None}, result : {0, 1}, text : Texts \cup {None} ]

Msg(s, d, i, n) ==
  [src |-> s, dst |-> d, id |-> i, name |-> n, result |-> 0, text |-> None]

Text(s, d, x) ==
  [src |-> s, dst |-> d, id |-> "text", name |-> None, result |-> 0, text |-> x]

(* The NAT of u passes what comes from v.                                  *)
Accepts(u, v) ==
  \/ v = Server
  \/ NatType[u] = "open"
  \/ NatType[u] = "cone" /\ v \in opened[u]

(* u takes the datagrams of in and sends those of out, which opens its NAT *)
(* for their receivers.                                                    *)
sendto(u, in, out) ==
  /\ net' = (net \ in) \cup out
  /\ opened' = [opened EXCEPT ![u] = @ \cup ({d.dst : d \in out} \ {Server})]

(* The network loses a datagram; a NAT drops one it does not pass.         *)
NetLose == \E d \in net : net' = net \ {d} /\ UNCHANGED opened
NatDrop ==
  \E d \in net : /\ d.dst # Server /\ ~Accepts(d.dst, d.src)
                 /\ net' = net \ {d} /\ UNCHANGED opened

=============================================================================
