--------------------------- MODULE MCTunnelDaemon ---------------------------
(* Instances of TunnelDaemon for TLC.                                      *)
EXTENDS TunnelDaemon
CONSTANTS c1, c2
=============================================================================
