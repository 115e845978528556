------------------------------- MODULE P2PNet -------------------------------
(***************************************************************************)
(* The UDP network between the P2P server (server.cpp) and the Linux       *)
(* clients (client.cpp), and the T_Msg datagrams they exchange             *)
(* (FTCMessage.h).  net is the set of datagrams in flight: UDP may reorder *)
(* them (any one may be received next), lose them (NetLose) and, if Dup,   *)
(* deliver them more than once.  A T_Msg always has the same 1440 bytes,   *)
(* so a datagram overwrites the receiver's whole buffer and a message is   *)
(* abstracted to the fields a handler reads.                               *)
(***************************************************************************)
EXTENDS Naturals

CONSTANTS Names,    \* user names (the S8 name[MAX_NAME_SIZE] fields)
          Addrs,    \* public socket addresses of the clients
          Server,   \* the server's socket address
          None,     \* an absent name
          Dup       \* may a datagram be delivered more than once

ASSUME NetAssumption ==
  Server \notin Addrs /\ None \notin Names /\ None \notin Addrs /\ Dup \in BOOLEAN

VARIABLE net

(* Message ids the two programs send or dispatch on.                       *)
MsgIds ==
  { "MSG_C_LOGIN", "MSG_R_LOGIN", "MSG_C_LOGOUT", "MSG_R_LOGOUT",
    "MSG_C_HEART_BEAT", "MSG_C_GET_PEERS", "MSG_R_GET_PEERS",
    "MSG_C_HOLE", "MSG_R_HOLE", "MSG_C_HOLE_REQ",
    "MSG_C_HAVE_SEND_P2P_REQ", "MSG_C_P2P_CAN_START_REQ",
    "MSG_C_P2P_START_REQ", "RELAYMESSAGE" }

(* my: the sender's name in a request; to: the peer's name (toName);       *)
(* res: the result byte of a response, 0 for success and 1 for failure.    *)
T_Request ==
  [ src : Addrs, dst : {Server}, id : MsgIds,
    my : Names, to : Names \cup {None}, res : {0} ]
T_Response ==
  [ src : {Server}, dst : Addrs, id : MsgIds,
    my : Names \cup {None}, to : {None}, res : {0, 1} ]
T_Msg == T_Request \cup T_Response

(* What a client puts on the wire for the server.                          *)
Request(a, i, my, to) ==
  [src |-> a, dst |-> Server, id |-> i, my |-> my, to |-> to, res |-> 0]

(* What the server puts on the wire for a client.                          *)
Response(a, i, my, r) ==
  [src |-> Server, dst |-> a, id |-> i, my |-> my, to |-> None, res |-> r]

(* FTC_Recvfrom2 takes d off the wire and FTC_Sendto2 puts the datagrams   *)
(* of out on it; a copy of d may stay behind if the network duplicates.    *)
(* Two equal datagrams in flight are one element of net.                   *)
Exchange(d, out) ==
  \/ net' = (net \ {d}) \cup out
  \/ Dup /\ net' = net \cup out

(* The network loses a datagram (external: UDP gives no delivery           *)
(* guarantee, and neither program retransmits).                            *)
NetLose == \E d \in net : net' = net \ {d}

=============================================================================
