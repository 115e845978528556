------------------------------- MODULE MCTask -------------------------------
EXTENDS FTCTask

(* No limit, at once, and a few polls.                                     *)
MCTimeouts == {-1, 0, 3}

=============================================================================
