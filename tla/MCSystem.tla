------------------------------ MODULE MCSystem ------------------------------
(* The composed system for TLC: two clients, each of which wants to talk   *)
(* to the other, with names of their own or with the same name.            *)
EXTENDS P2PSystem, TLC

CONSTANTS c1, c2, n1, n2

Symmetry == Permutations({c1, c2})

MCAddrs == Clients \X (0..MaxRestarts)
OwnNames == (c1 :> n1) @@ (c2 :> n2)
OtherNames == (c1 :> n2) @@ (c2 :> n1)
SameName == [c \in Clients |-> n1]

=============================================================================
