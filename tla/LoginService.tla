---------------------------- MODULE LoginService ----------------------------
(***************************************************************************)
(* What the registry of the P2P server promises to those who log in.  The  *)
(* holders of a name are the addresses it is online at.  They change only  *)
(* in answer to a request: a login gives a name that nobody holds to the   *)
(* address that asked, a logout takes it from all.  Nothing else (a crash, *)
(* a restart, a failed statement, a lost datagram) changes them.           *)
(*                                                                         *)
(* The exception is named: if a lookup may fail, a login may be granted    *)
(* blindly, whoever holds the name.  The name is doubled from then on, and *)
(* only a doubled name can have two holders, or be granted while held.     *)
(***************************************************************************)
CONSTANTS Names, Addrs,
          LookupFails,    \* may the lookup of a name fail
          Repeats         \* may a request be served more than once

VARIABLES holders,        \* [Names -> SUBSET Addrs]
          doubled,        \* the names that were once granted blindly
          requests        \* the login and logout requests under way

lsvars == <<holders, doubled, requests>>

LSInit ==
  /\ holders = [n \in Names |-> {}]
  /\ doubled = {}
  /\ requests = {}

(* A request that is served is used up, unless requests are repeated.      *)
Served(r) == requests' = requests \ {r} \/ (Repeats /\ requests' = requests)

Grant(r) ==
  /\ r.id = "MSG_C_LOGIN"
  /\ holders[r.my] = {} \/ r.my \in doubled
  /\ holders' = [holders EXCEPT ![r.my] = {r.src}]
  /\ doubled' = doubled
  /\ Served(r)

GrantBlindly(r) ==
  /\ LookupFails
  /\ r.id = "MSG_C_LOGIN"
  /\ holders' = [holders EXCEPT ![r.my] = @ \cup {r.src}]
  /\ doubled' = doubled \cup {r.my}
  /\ Served(r)

Release(r) ==
  /\ r.id = "MSG_C_LOGOUT"
  /\ holders' = [holders EXCEPT ![r.my] = {}]
  /\ doubled' = doubled
  /\ Served(r)

(* Requests are sent, lost, refused or served without effect.              *)
Traffic == UNCHANGED <<holders, doubled>>

LSNext == Traffic \/ \E r \in requests : Grant(r) \/ GrantBlindly(r) \/ Release(r)

LSSpec == LSInit /\ [][LSNext]_lsvars

=============================================================================
