---------------------------- MODULE P2PServerEnv ----------------------------
(***************************************************************************)
(* The server in an open environment: any address may send any datagram    *)
(* the switch of P2PSrvProc dispatches on, with any name, and one it does  *)
(* not know.  The clients of P2PClient send fewer.                         *)
(***************************************************************************)
EXTENDS P2PServer

CONSTANT MaxRequests      \* bound on the datagrams sent to the server

ASSUME EnvAssumption == MaxRequests \in Nat

VARIABLE reqs             \* datagrams sent so far

evars == <<svars, reqs>>

EnvInit == SrvInit /\ net = {} /\ reqs = 0

(* Some program sends the server a datagram.                               *)
EnvSend ==
  /\ reqs < MaxRequests
  /\ reqs' = reqs + 1
  /\ \E a \in Addrs, i \in Handled \cup {"MSG_R_HOLE"}, n \in Names :
       net' = net \cup {Request(a, i, n, n)}
  /\ UNCHANGED <<pc, step, srvdb>>

(* A datagram is lost, or read by a client (which is not modelled here).   *)
EnvTake == NetLose /\ UNCHANGED <<pc, step, srvdb, reqs>>

EnvNext == (SrvNext /\ UNCHANGED reqs) \/ EnvSend \/ EnvTake

EnvSpec == EnvInit /\ [][EnvNext]_evars

=============================================================================
