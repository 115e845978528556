------------------------------ MODULE MCPunch -------------------------------
EXTENDS HolePunch, TLC

CONSTANTS a, b, c

(* a and b name each other, c names b.                                     *)
MCToName == a :> b @@ b :> a @@ c :> b

MCCommands == a :> {"connect"} @@ b :> {"get", "connect"} @@ c :> {"connect"}
=============================================================================
