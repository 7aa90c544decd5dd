-------------------------- MODULE MCTunnelFraming --------------------------
(* Instances of TunnelFraming for TLC.                                     *)
EXTENDS TunnelFraming
\* Packets with and without payload, and two equal neighbours.
MCPayloads == <<1, 0, 2, 2>>
=============================================================================
