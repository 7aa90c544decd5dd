------------------------------ MODULE MCStack ------------------------------
(* What carries bytes through the tunnel, side by side: connecting, the     *)
(* bridge of one connection, the framing below and the daemon's proxy above;*)
(* one is at work in a behaviour, chosen at the start.                      *)
EXTENDS Bridge, SmoltcpStack, TunnelFraming, Proxy

CONSTANTS c1, c2

\* Packets with and without payload, and equal neighbours.
MCPayloads == <<2, 0, 1, 3, 0, 3, 1, 2>>

VARIABLE atWork

vars == <<atWork, bridgeVars, stackVars, framingVars, proxyVars>>

Init ==
  /\ atWork \in {"connect", "bridge", "framing", "proxy"}
  /\ BridgeInit /\ FramingInit /\ StackInit /\ ProxyInit
  /\ atWork # "connect" => ~unified
  /\ atWork # "framing" => answer = [magic |-> TRUE, params |-> TRUE]

Next ==
  \/ atWork = "connect" /\ StackNext /\ UNCHANGED <<atWork, bridgeVars, framingVars, proxyVars>>
  \/ atWork = "bridge" /\ BridgeNext /\ UNCHANGED <<atWork, stackVars, framingVars, proxyVars>>
  \/ atWork = "framing" /\ FramingNext /\ UNCHANGED <<atWork, bridgeVars, stackVars, proxyVars>>
  \/ atWork = "proxy" /\ ProxyNext /\ UNCHANGED <<atWork, bridgeVars, stackVars, framingVars>>

\* As in BridgeFairSpec, StackFairSpec and ProxySpec.
Fairness ==
  /\ WF_bridgeVars(atWork = "bridge" /\ PollThread) /\ WF_bridgeVars(atWork = "bridge" /\ LocalRead)
  /\ SF_bridgeVars(atWork = "bridge" /\ NetOut) /\ SF_bridgeVars(atWork = "bridge" /\ NetFinSent)
  /\ SF_bridgeVars(atWork = "bridge" /\ NetFin)
  /\ WF_stackVars(atWork = "connect" /\ Loop) /\ WF_stackVars(atWork = "connect" /\ ReaderRecv)
  /\ \A c \in Clients :
       /\ SF_stackVars(atWork = "connect" /\ ConnectSend(c))
       /\ WF_stackVars(atWork = "connect" /\ DevAnswer(c))
  /\ WF_proxyVars(atWork = "proxy" /\ MainLoop) /\ WF_proxyVars(atWork = "proxy" /\ BackLoop)
  /\ WF_proxyVars(atWork = "proxy" /\ CliReads) /\ WF_proxyVars(atWork = "proxy" /\ DevEndReads)

Spec == Init /\ [][Next]_vars /\ Fairness
=============================================================================
