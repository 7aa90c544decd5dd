--------------------------- MODULE MCSmoltcpStack ---------------------------
(* Instances of SmoltcpStack for TLC.                                      *)
EXTENDS SmoltcpStack
CONSTANTS c1, c2
=============================================================================
