----------------------------- MODULE MCServices -----------------------------
(* The services of a device, and the codecs everything sent to it goes     *)
(* through, side by side: one of them is at work in a behaviour, chosen at *)
(* the start; they share nothing.                                          *)
EXTENDS TLC, MCCodecs, Afc, PlistServices, Mounter

VARIABLE atWork

vars == <<atWork, afcVars, proxyVars, psVars, mtVars, codecVars>>

Init ==
  /\ atWork \in {"afc", "plist", "mount", "codecs"} /\ AfcInit /\ PsInit /\ MtInit /\ CodecInit
  /\ atWork # "codecs" => job.alg = "calendar"

Next ==
  \/ atWork = "afc" /\ AfcNext /\ UNCHANGED <<atWork, psVars, mtVars, codecVars>>
  \/ atWork = "plist" /\ PsNext /\ UNCHANGED <<atWork, afcVars, proxyVars, mtVars, codecVars>>
  \/ atWork = "mount" /\ MtNext /\ UNCHANGED <<atWork, afcVars, proxyVars, psVars, codecVars>>
  \/ atWork = "codecs" /\ CodecNext /\ UNCHANGED <<atWork, afcVars, proxyVars, psVars, mtVars>>

\* The mounting processes are alike; the run has no temporal property.
Symmetry == Permutations(Mounters)

Spec == Init /\ [][Next]_vars
=============================================================================
