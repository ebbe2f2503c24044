------------------------------ MODULE MCBridge ------------------------------
(* Small instances of Bridge for TLC.                                       *)
EXTENDS Bridge, TLC

CONSTANTS c1, c2

TwoClients == {c1, c2}
=============================================================================
