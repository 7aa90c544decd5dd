-------------------------- MODULE DaemonLifecycle --------------------------
(***************************************************************************)
(* Starting and stopping the tunnel daemon: daemon, start, stop and the    *)
(* Shutdown request of src/bin/ios/cmd/tunnel.rs, and daemon_is_running,   *)
(* spawn_daemon and wait_for_daemon of src/tunnel/device_session.rs, which *)
(* do what start does.  The processes share one path in the file system,   *)
(* DAEMON_SOCKET: whoever connects to it reaches the daemon whose socket   *)
(* was bound to it last.                                                   *)
(***************************************************************************)
EXTENDS Integers, FiniteSets

CONSTANTS
  Starters,    \* processes that want a daemon: start, or a DeviceSession
  Stoppers     \* processes that run stop

VARIABLES
  dpc,       \* daemon spawned by a starter: none, unlink, bind, serving, dead
  path,      \* the daemon DAEMON_SOCKET leads to, as a set of at most one
  spc,       \* a starter: ready, spawn, wait, ok, failed
  xpc,       \* a stopper: ready, send, stopped, failed
  peer,      \* the daemon a stopper is connected to, as a set
  killed,    \* ghost: daemons that were killed
  ended,     \* ghost: daemons that were shut down or killed
  endedThen  \* ghost: those that were when a starter spawned its daemon

ghostVars == <<killed, ended, endedThen>>
lifeVars == <<dpc, path, spc, xpc, peer, ghostVars>>

\* Values of the right shape.
LifeTypeOK ==
  /\ dpc \in [Starters -> {"none", "unlink", "bind", "serving", "dead"}]
  /\ path \subseteq Starters /\ Cardinality(path) <= 1
  /\ spc \in [Starters -> {"ready", "spawn", "wait", "ok", "failed"}]
  /\ xpc \in [Stoppers -> {"ready", "send", "stopped", "failed"}]
  /\ peer \in [Stoppers -> SUBSET Starters]
  /\ killed \subseteq ended /\ ended \subseteq Starters
  /\ endedThen \in [Starters -> SUBSET Starters]

LifeInit ==
  /\ dpc = [s \in Starters |-> "none"]
  /\ path = {}
  /\ spc = [s \in Starters |-> "ready"]
  /\ xpc = [x \in Stoppers |-> "ready"]
  /\ peer = [x \in Stoppers |-> {}]
  /\ killed = {} /\ ended = {} /\ endedThen = [s \in Starters |-> {}]

\* UnixStream::connect(DAEMON_SOCKET) succeeds.
Reachable == \E d \in path : dpc[d] = "serving"

-----------------------------------------------------------------------------
(* start, try_daemon_path.                                                 *)

Probe(s) ==
  /\ spc[s] = "ready"
  /\ spc' = [spc EXCEPT ![s] = IF Reachable THEN "ok" ELSE "spawn"]
  /\ UNCHANGED <<dpc, path, xpc, peer, ghostVars>>

\* The daemon a starter spawns goes by the starter's name.
Spawn(s) ==
  /\ spc[s] = "spawn"
  /\ spc' = [spc EXCEPT ![s] = "wait"]
  /\ dpc' = [dpc EXCEPT ![s] = "unlink"]
  /\ endedThen' = [endedThen EXCEPT ![s] = ended]
  /\ UNCHANGED <<path, xpc, peer, killed, ended>>

\* The wait loop: some daemon answers ...
Started(s) ==
  /\ spc[s] = "wait" /\ Reachable
  /\ spc' = [spc EXCEPT ![s] = "ok"]
  /\ UNCHANGED <<dpc, path, xpc, peer, ghostVars>>

\* ... or none does within 15 s, which is time enough for a daemon that has
\* been spawned to bind its socket.
StartTimeout(s) ==
  /\ spc[s] = "wait" /\ ~Reachable
  /\ \A d \in Starters : dpc[d] \notin {"unlink", "bind"}
  /\ spc' = [spc EXCEPT ![s] = "failed"]
  /\ UNCHANGED <<dpc, path, xpc, peer, ghostVars>>

-----------------------------------------------------------------------------
(* daemon.                                                                 *)

\* A fault: a socket file that is there is left alone.
UnlinkNothing(d) ==
  /\ dpc[d] = "unlink"
  /\ dpc' = [dpc EXCEPT ![d] = "bind"]
  /\ UNCHANGED <<path, spc, xpc, peer, ghostVars>>

\* remove_file(DAEMON_SOCKET), whosever it is.
Unlink(d) ==
  /\ dpc[d] = "unlink"
  /\ path' = {}
  /\ dpc' = [dpc EXCEPT ![d] = "bind"]
  /\ UNCHANGED <<spc, xpc, peer, ghostVars>>

\* A fault: a daemon that finds another one serving gives up, but only after it
\* has removed the socket file.
BindIfAlone(d) ==
  /\ dpc[d] = "bind"
  /\ IF path = {} /\ \A e \in Starters : dpc[e] # "serving"
       THEN path' = {d} /\ dpc' = [dpc EXCEPT ![d] = "serving"]
       ELSE dpc' = [dpc EXCEPT ![d] = "dead"] /\ UNCHANGED path
  /\ UNCHANGED <<spc, xpc, peer, ghostVars>>

\* UnixListener::bind, which fails when the path is taken; then the process ends.
Bind(d) ==
  /\ dpc[d] = "bind"
  /\ IF path = {}
       THEN path' = {d} /\ dpc' = [dpc EXCEPT ![d] = "serving"]
       ELSE dpc' = [dpc EXCEPT ![d] = "dead"] /\ UNCHANGED path
  /\ UNCHANGED <<spc, xpc, peer, ghostVars>>

\* A fault: the daemon exits and leaves its socket file behind.
ShutdownLeavesFile(d) ==
  /\ dpc[d] = "serving"
  /\ \E x \in Stoppers : xpc[x] = "stopped" /\ d \in peer[x]
  /\ dpc' = [dpc EXCEPT ![d] = "dead"] /\ ended' = ended \cup {d}
  /\ UNCHANGED <<path, spc, xpc, peer, killed, endedThen>>

\* The Shutdown request: the file is removed, whosever it is, and the process
\* exits.
Shutdown(d) ==
  /\ dpc[d] = "serving"
  /\ \E x \in Stoppers : xpc[x] = "stopped" /\ d \in peer[x]
  /\ path' = {}
  /\ dpc' = [dpc EXCEPT ![d] = "dead"] /\ ended' = ended \cup {d}
  /\ UNCHANGED <<spc, xpc, peer, killed, endedThen>>

\* The daemon is killed; its socket file stays.
Crash(d) ==
  /\ dpc[d] \in {"unlink", "bind", "serving"}
  /\ dpc' = [dpc EXCEPT ![d] = "dead"]
  /\ killed' = killed \cup {d} /\ ended' = ended \cup {d}
  /\ UNCHANGED <<path, spc, xpc, peer, endedThen>>

-----------------------------------------------------------------------------
(* stop.                                                                   *)

StopConnect(x) ==
  /\ xpc[x] = "ready"
  /\ IF Reachable
       THEN xpc' = [xpc EXCEPT ![x] = "send"] /\ peer' = [peer EXCEPT ![x] = path]
       ELSE xpc' = [xpc EXCEPT ![x] = "failed"] /\ UNCHANGED peer
  /\ UNCHANGED <<dpc, path, spc, ghostVars>>

\* The request is written and stop reports "daemon stopped".
StopSend(x) ==
  /\ xpc[x] = "send"
  /\ xpc' = [xpc EXCEPT ![x] =
               IF \E d \in peer[x] : dpc[d] = "serving" THEN "stopped" ELSE "failed"]
  /\ UNCHANGED <<dpc, path, spc, peer, ghostVars>>

-----------------------------------------------------------------------------
StarterStep(s) == Probe(s) \/ Spawn(s) \/ Started(s) \/ StartTimeout(s)
DaemonStep(d) == Unlink(d) \/ Bind(d) \/ Shutdown(d)
StopperStep(x) == StopConnect(x) \/ StopSend(x)

LifeNext ==
  \/ \E s \in Starters : StarterStep(s) \/ DaemonStep(s) \/ Crash(s)
  \/ \E x \in Stoppers : StopperStep(x)

LifeSpec == LifeInit /\ [][LifeNext]_lifeVars

\* Processes run.
LifeFairSpec ==
  LifeSpec /\ \A s \in Starters : WF_lifeVars(StarterStep(s)) /\ WF_lifeVars(DaemonStep(s))

-----------------------------------------------------------------------------
(* Properties.                                                             *)

\* As long as nobody kills a daemon, the path leads to a daemon that serves or
\* to nothing: connect never reaches a corpse, and the wait loop of a starter
\* ends with its answer (lines 44-50, 245-251).
PathLeadsToDaemon == killed = {} => \A d \in path : dpc[d] = "serving"

\* A starter fails only when a daemon was killed or shut down while it waited:
\* a socket file that an earlier, killed daemon left behind is no obstacle, and
\* neither are other starters (lines 44-50, 97-117).
StartFailsForCause == \A s \in Starters : spc[s] = "failed" => ended # endedThen[s]

\* Once a starter was told that the daemon runs, the path leads to a daemon for
\* good, however many starters race, unless somebody stops or kills a daemon
\* (lines 86-117, device_session.rs 325-373).
StaysReachable ==
  (\E s \in Starters : spc[s] = "ok") ~> ([]Reachable \/ ended # {})

\* The types, at most one daemon behind the socket file, which leads to one
\* that serves unless one was killed, and that a start fails only for a cause.
SocketFileSafe == LifeTypeOK /\ PathLeadsToDaemon /\ StartFailsForCause
=============================================================================
