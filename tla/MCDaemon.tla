------------------------------ MODULE MCDaemon ------------------------------
(* The daemon's life and its table side by side: one of them is at work in  *)
(* a behaviour, chosen at the start.                                        *)
EXTENDS TunnelDaemon, DaemonLifecycle

CONSTANTS c1, c2, s1, s2, s3, x1, x2

VARIABLE atWork

vars == <<atWork, tableVars, lifeVars>>

\* The clients are alike at the start: one of two initial states that differ
\* by their names is enough.
Rank(s) == CASE s = "_rsd" -> 0 [] s = "listed" -> 1 [] s = "unlisted" -> 2

Init ==
  /\ atWork \in {"table", "life"} /\ TableInit /\ LifeInit
  /\ Rank(service[c1]) <= Rank(service[c2])
  /\ atWork # "table" => paired /\ \A c \in Clients : service[c] = "_rsd"

Next ==
  \/ atWork = "table" /\ TableNext /\ UNCHANGED <<atWork, lifeVars>>
  \/ atWork = "life" /\ LifeNext /\ UNCHANGED <<atWork, tableVars>>

\* As in TableFairSpec and LifeFairSpec.
Fairness ==
  /\ WF_tableVars(atWork = "table" /\ WatcherDetached) /\ WF_tableVars(atWork = "table" /\ WatcherListens)
  /\ \A c \in Clients : WF_tableVars(atWork = "table" /\ Serve(c))
  /\ \A s \in Starters :
       WF_lifeVars(atWork = "life" /\ StarterStep(s)) /\ WF_lifeVars(atWork = "life" /\ DaemonStep(s))

Spec == Init /\ [][Next]_vars /\ Fairness
=============================================================================
