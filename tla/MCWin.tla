------------------------------- MODULE MCWin --------------------------------
(* Windows clients for TLC: two users who enter each other's names, or     *)
(* three.                                                                  *)
EXTENDS WinSystem, TLC

CONSTANTS a, b, c, hi, yo

Mutual == (a :> {b}) @@ (b :> {a})
Crowd == (a :> {b}) @@ (b :> {c}) @@ (c :> {b, None})

AnyList == SUBSET Users
AloneOrAll == {{c}, Users}

NoBeat == [u \in Users |-> 0]
OneBeat == [u \in Users |-> IF u = a THEN 1 ELSE 0]
OneClick == [u \in Users |-> 1]
CallerClicks == [u \in Users |-> IF u = a THEN 1 ELSE 0]
ChatClicks == [u \in Users |-> IF u = a THEN 2 ELSE IF u = c THEN 1 ELSE 0]

Cones == [u \in Users |-> "cone"]
ConeOpen == [u \in Users |-> IF u = b THEN "open" ELSE "cone"]

=============================================================================
