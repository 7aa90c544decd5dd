------------------------------ MODULE MCRemote ------------------------------
(* What runs over, or opens, the tunnel, side by side: one of the parts is  *)
(* at work in a behaviour, chosen at the start; they share nothing.         *)
EXTENDS XcTest, RemoteXpc, RemotePairing, DeviceSession

VARIABLE atWork

vars == <<atWork, xcVars, rxVars, rpVars, dsVars>>

\* The choices of a session are made where it is at work.
Init ==
  /\ atWork \in {"xctest", "xpc", "pairing", "session"} /\ XcInit /\ RxInit /\ RpInit /\ DsInit
  /\ atWork # "session" => dsMode = "Auto" /\ ~dsEnv /\ dsNew /\ rsdUp /\ dsPaired

Next ==
  \/ atWork = "xctest" /\ XcNext /\ UNCHANGED <<atWork, rxVars, rpVars, dsVars>>
  \/ atWork = "xpc" /\ RxNext /\ UNCHANGED <<atWork, xcVars, rpVars, dsVars>>
  \/ atWork = "pairing" /\ RpNext /\ UNCHANGED <<atWork, xcVars, rxVars, dsVars>>
  \/ atWork = "session" /\ DsNext /\ UNCHANGED <<atWork, xcVars, rxVars, rpVars>>

\* The client reads, the device sends what it has begun; a session goes on.
Fairness ==
  /\ WF_vars(atWork = "xpc" /\ RxClient /\ UNCHANGED <<atWork, xcVars, rpVars, dsVars>>)
  /\ \A s \in Streams : WF_vars(atWork = "xpc" /\ DvData(s) /\ UNCHANGED <<atWork, xcVars, rpVars, dsVars>>)
  /\ WF_vars(atWork = "session" /\ Opens /\ UNCHANGED <<atWork, xcVars, rxVars, rpVars>>)

Spec == Init /\ [][Next]_vars /\ Fairness
=============================================================================
