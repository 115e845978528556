--------------------------- MODULE DatagramQueue ----------------------------
(***************************************************************************)
(* What the receive loop of P2PSrvProc over FTCSock.c promises: the        *)
(* datagrams the socket accepted are read in the order of their arrival,   *)
(* each of them once, and nothing else is.  Each is handed to the switch,  *)
(* except the one right after a relay request, which is its body.          *)
(***************************************************************************)
EXTENDS Naturals, Sequences

VARIABLES accepted,    \* the datagrams the socket accepted, in order
          given        \* those read, in order, and what each was read for

QInit == accepted = <<>> /\ given = <<>>

(* One more is accepted.                                                   *)
Accept ==
  /\ Len(accepted') = Len(accepted) + 1
  /\ SubSeq(accepted', 1, Len(accepted)) = accepted
  /\ UNCHANGED given

(* A relay request still lacks its body.                                   *)
BodyIsNext == Len(given) > 0 /\ given[Len(given)].as = "relay"

(* The next one is read, as a body if one is due and only then.            *)
Give(as) ==
  /\ Len(given) < Len(accepted)
  /\ as = "body" <=> BodyIsNext
  /\ given' = Append(given, [d |-> accepted[Len(given) + 1], as |-> as])
  /\ UNCHANGED accepted

QNext == Accept \/ \E as \in {"request", "relay", "body"} : Give(as)

QSpec == QInit /\ [][QNext]_<<accepted, given>>

=============================================================================
