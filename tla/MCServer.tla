------------------------------ MODULE MCServer ------------------------------
(* The open server for TLC; names and addresses are interchangeable.       *)
EXTENDS P2PServerEnv, TLC

Symmetry == Permutations(Names) \cup Permutations(Addrs)

=============================================================================
