------------------------------- MODULE MCHost -------------------------------
(* The client of usbmuxd and the lockdown sessions and pairings side by     *)
(* side: one of them is at work in a behaviour, chosen at the start.        *)
EXTENDS Usbmux, Lockdown

VARIABLE atWork

vars == <<atWork, muxVars, lockdownVars>>

Init ==
  /\ atWork \in {"usbmux", "lockdown"} /\ MuxInit /\ LockdownInit
  /\ atWork # "usbmux" => peer = "sim"
  /\ atWork # "lockdown" => record = NoHost

Next ==
  \/ atWork = "usbmux" /\ MuxNext /\ UNCHANGED <<atWork, lockdownVars>>
  \/ atWork = "lockdown" /\ LockdownNext /\ UNCHANGED <<atWork, muxVars>>

\* As in MuxSpec and LockdownSpec.
Fairness ==
  /\ WF_muxVars(atWork = "usbmux" /\ Client) /\ WF_muxVars(atWork = "usbmux" /\ Sim)
  /\ WF_muxVars(atWork = "usbmux" /\ UsbmuxdAnswer)
  /\ \A s \in Sessions :
       /\ WF_lockdownVars(atWork = "lockdown" /\ SessionStep(s))
       /\ WF_lockdownVars(atWork = "lockdown" /\ DeviceAnswers(s))

Spec == Init /\ [][Next]_vars /\ Fairness
=============================================================================
