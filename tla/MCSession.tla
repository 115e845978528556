----------------------------- MODULE MCSession ------------------------------
EXTENDS WinSession

CONSTANTS r1, r2, h1, h2

MCReceivers == {r1, r2}
MCHearts == {h1, h2}
=============================================================================
