---------------------------- MODULE MCBackendConn ----------------------------
(* Values of the constants of BackendConn for TLC.                         *)
EXTENDS BackendConn

CONSTANTS r1, r2, r3

NoRequests == {}
OneRead == {r1}
OnePing == {r3}
TwoRequests == {r1, r2}
ThreeRequests == {r1, r2, r3}
=============================================================================
