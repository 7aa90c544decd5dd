---------------------------- MODULE TunnelDaemon ----------------------------
(***************************************************************************)
(* The tunnel table of the daemon of src/bin/ios/cmd/tunnel.rs: threads    *)
(* that serve one client each (handle_client, ensure_tunnel), the thread   *)
(* that removes the tunnels of devices that go away (watch_devices), and   *)
(* one device that is plugged in and out; usbmuxd gives it a new device id *)
(* every time, while its UDID, the key of the table, stays the same.       *)
(* A tunnel is a number; the RSD catalogue read through a tunnel gives     *)
(* ports that are good for that tunnel only.                               *)
(***************************************************************************)
EXTENDS Integers, Sequences, FiniteSets, SequencesExt

CONSTANTS
  Clients,    \* client threads, one request each
  MaxAttach,  \* bound: how often the device is plugged in
  CanFail     \* usbmuxd may drop the watcher's connection

ASSUME DaemonAssumption == MaxAttach \in Nat \ {0} /\ CanFail \in BOOLEAN

VARIABLES
  present,   \* device id of the attached device, 0 when there is none
  lastId,    \* device ids given out so far
  events,    \* detach events on their way to the watcher
  watcher,   \* watch_devices: starting, on, dead
  table,     \* the entry of the UDID: a set of at most one
  tunnels,   \* device id a tunnel was built on: a sequence
  deaf,      \* tunnels that read nothing any more although the device is there
  paired,    \* usbmuxd has the pair record of the device
  pc,        \* a client thread
  service,   \* what it asks for: _rsd, a catalogue service, one not listed
  dev,       \* device_id found by ensure_tunnel
  tun,       \* the tunnel in its hands
  port,      \* the tunnel whose catalogue gave the port
  reply,     \* response sent to the client: none, Ok, Error, or hung up (eof)
  uncovered  \* ghost: device ids whose removal the watcher cannot see to

deviceVars == <<present, lastId>>
clientVars == <<pc, service, dev, tun, port, reply>>
tunnelVars == <<tunnels, deaf, paired>>
tableVars == <<deviceVars, events, watcher, table, tunnelVars, clientVars, uncovered>>

Services == {"_rsd", "listed", "unlisted"}

\* Values of the right shape; one entry per UDID.
TableTypeOK ==
  /\ present \in 0..MaxAttach /\ lastId \in 0..MaxAttach
  /\ events \in Seq(1..MaxAttach) /\ watcher \in {"starting", "on", "dead"}
  /\ Cardinality(table) <= 1
  /\ table \subseteq [tun: DOMAIN tunnels, dev: 1..MaxAttach]
  /\ tunnels \in Seq(1..MaxAttach) /\ deaf \subseteq DOMAIN tunnels /\ paired \in BOOLEAN
  /\ pc \in [Clients -> {"ready", "ensure", "list", "connect", "hung", "catalog", "insert",
                         "rsd", "lookup", "clone", "dial", "done"}]
  /\ service \in [Clients -> Services]
  /\ dev \in [Clients -> 0..MaxAttach]
  /\ tun \in [Clients -> 0..Len(tunnels)] /\ port \in [Clients -> 0..Len(tunnels)]
  /\ reply \in [Clients -> {"none", "Ok", "Error", "eof"}]
  /\ uncovered \subseteq 1..MaxAttach

TableInit ==
  /\ present = 0 /\ lastId = 0
  /\ events = <<>> /\ watcher = "starting"
  /\ table = {} /\ tunnels = <<>> /\ deaf = {} /\ paired \in BOOLEAN
  /\ pc = [c \in Clients |-> "ready"]
  /\ service \in [Clients -> Services]
  /\ dev = [c \in Clients |-> 0]
  /\ tun = [c \in Clients |-> 0] /\ port = [c \in Clients |-> 0]
  /\ reply = [c \in Clients |-> "none"]
  /\ uncovered = {}

-----------------------------------------------------------------------------
(* The device and usbmuxd.                                                 *)

Attach ==
  /\ present = 0 /\ lastId < MaxAttach
  /\ lastId' = lastId + 1 /\ present' = lastId'
  /\ UNCHANGED <<events, watcher, table, tunnelVars, clientVars, uncovered>>

\* usbmuxd tells whoever listens.
Detach ==
  /\ present # 0
  /\ present' = 0
  /\ IF watcher = "on"
       THEN events' = Append(events, present) /\ UNCHANGED uncovered
       ELSE uncovered' = uncovered \cup {present} /\ UNCHANGED events
  /\ UNCHANGED <<lastId, watcher, table, tunnelVars, clientVars>>

-----------------------------------------------------------------------------
(* watch_devices.                                                          *)

WatcherListens ==
  /\ watcher = "starting" /\ watcher' = "on"
  /\ UNCHANGED <<deviceVars, events, table, tunnelVars, clientVars, uncovered>>

\* A fault: the event is consumed without a look at the table.
WatcherIgnores ==
  /\ watcher = "on" /\ events # <<>>
  /\ events' = Tail(events)
  /\ UNCHANGED <<deviceVars, watcher, table, tunnelVars, clientVars, uncovered>>

\* DeviceDetached: the entries built on that device id are removed.
WatcherDetached ==
  /\ watcher = "on" /\ events # <<>>
  /\ events' = Tail(events)
  /\ table' = {e \in table : e.dev # Head(events)}
  /\ UNCHANGED <<deviceVars, watcher, tunnelVars, clientVars, uncovered>>

\* An error from usbmuxd ends the thread, at the start or later.
WatcherDies ==
  /\ CanFail /\ watcher # "dead"
  /\ watcher' = "dead" /\ events' = <<>>
  /\ UNCHANGED <<deviceVars, table, tunnelVars, clientVars, uncovered>>

-----------------------------------------------------------------------------
(* ensure_tunnel.                                                          *)

Goto(c, label) == pc' = [pc EXCEPT ![c] = label]
Finish(c, r) == Goto(c, "done") /\ reply' = [reply EXCEPT ![c] = r]
AfterEnsure(c) == IF service[c] = "_rsd" THEN "rsd" ELSE "lookup"

Accept(c) ==
  /\ pc[c] = "ready"
  /\ Goto(c, "ensure")
  /\ UNCHANGED <<deviceVars, events, watcher, table, tunnelVars, service, dev, tun,
                 port, reply, uncovered>>

\* contains_key, in a lock section of its own.
EnsureCheck(c) ==
  /\ pc[c] = "ensure"
  /\ Goto(c, IF table # {} THEN AfterEnsure(c) ELSE "list")
  /\ UNCHANGED <<deviceVars, events, watcher, table, tunnelVars, service, dev, tun,
                 port, reply, uncovered>>

\* list_devices: the device's id, or the end of the request.
ListDevices(c) ==
  /\ pc[c] = "list"
  /\ IF present # 0
       THEN /\ dev' = [dev EXCEPT ![c] = present]
            /\ Goto(c, "connect") /\ UNCHANGED reply
       ELSE Finish(c, "Error") /\ UNCHANGED dev
  /\ UNCHANGED <<deviceVars, events, watcher, table, tunnelVars, service, tun, port, uncovered>>

\* detect_version and connect_via_lockdown_udid: a new tunnel, if the device is
\* still there and usbmuxd has its pair record.  Without the record open_paired
\* goes on waiting for it on the connection to usbmuxd (read_pair_record takes
\* the refusal for an event).  Any call may fail in any case.
BuildTunnel(c) ==
  /\ pc[c] = "connect"
  /\ \/ /\ dev[c] = present /\ paired
        /\ tunnels' = Append(tunnels, dev[c])
        /\ tun' = [tun EXCEPT ![c] = Len(tunnels')]
        /\ Goto(c, "catalog") /\ UNCHANGED reply
     \/ ~paired /\ Goto(c, "hung") /\ UNCHANGED <<tunnels, tun, reply>>
     \/ Finish(c, "Error") /\ UNCHANGED <<tunnels, tun>>
  /\ UNCHANGED <<deviceVars, events, watcher, table, deaf, paired, service, dev, port, uncovered>>

\* The wait for the record ends when usbmuxd closes the connection.
RecordWaitEnds(c) ==
  /\ pc[c] = "hung"
  /\ Finish(c, "Error")
  /\ UNCHANGED <<deviceVars, events, watcher, table, tunnelVars, service, dev, tun,
                 port, uncovered>>

\* The tunnel carries bytes: its device is there and its reader is too.
TunnelUp(t) == tunnels[t] = present
Carries(t) == TunnelUp(t) /\ t \notin deaf

\* The time-out of the handshake is left on a plain tunnel: ten idle seconds
\* end its reading, and what waits for the device then waits on (stack_idle).
TunnelIdle(t) ==
  /\ t \in DOMAIN tunnels \ deaf /\ TunnelUp(t)
  /\ deaf' = deaf \cup {t}
  /\ UNCHANGED <<deviceVars, events, watcher, table, tunnels, paired, clientVars, uncovered>>

\* connect_rsd: the catalogue is read through the new tunnel.
ReadCatalog(c) ==
  /\ pc[c] = "catalog" /\ Carries(tun[c])
  /\ (Goto(c, "insert") /\ UNCHANGED reply) \/ Finish(c, "Error")
  /\ UNCHANGED <<deviceVars, events, watcher, table, tunnelVars, service, dev, tun,
                 port, uncovered>>

\* Whether the detach event of a device id is still to be processed.
WillBeRemoved(d) == d = present \/ d \in ToSet(events)

\* A fault: insert in place of or_insert.
InsertOverwrites(c) ==
  /\ pc[c] = "insert"
  /\ table' = {[tun |-> tun[c], dev |-> dev[c]]}
  /\ uncovered' = IF WillBeRemoved(dev[c]) THEN uncovered ELSE uncovered \cup {dev[c]}
  /\ Goto(c, AfterEnsure(c))
  /\ UNCHANGED <<deviceVars, events, watcher, tunnelVars, service, dev, tun, port, reply>>

\* or_insert: the first entry stays.
Insert(c) ==
  /\ pc[c] = "insert"
  /\ table' = IF table = {} THEN {[tun |-> tun[c], dev |-> dev[c]]} ELSE table
  /\ uncovered' = IF WillBeRemoved(dev[c]) THEN uncovered ELSE uncovered \cup {dev[c]}
  /\ Goto(c, AfterEnsure(c))
  /\ UNCHANGED <<deviceVars, events, watcher, tunnelVars, service, dev, tun, port, reply>>

-----------------------------------------------------------------------------
(* The rest of handle_client.                                              *)

\* A fault: the thread waits for an entry that has vanished to come back.
LookupRsdWaits(c) ==
  /\ pc[c] = "rsd"
  /\ \E e \in table :
       /\ tun' = [tun EXCEPT ![c] = e.tun]
       /\ port' = [port EXCEPT ![c] = e.tun]
       /\ Goto(c, "dial") /\ UNCHANGED reply
  /\ UNCHANGED <<deviceVars, events, watcher, table, tunnelVars, service, dev, uncovered>>

\* "_rsd": tunnel and port are read in one lock section.  An entry that has
\* vanished ends the thread with an error of its own and no response.
LookupRsd(c) ==
  /\ pc[c] = "rsd"
  /\ \/ \E e \in table :
          /\ tun' = [tun EXCEPT ![c] = e.tun]
          /\ port' = [port EXCEPT ![c] = e.tun]
          /\ Goto(c, "dial") /\ UNCHANGED reply
     \/ table = {} /\ Finish(c, "eof") /\ UNCHANGED <<tun, port>>
  /\ UNCHANGED <<deviceVars, events, watcher, table, tunnelVars, service, dev, uncovered>>

\* A service: its port from the catalogue, in a first lock section ...
LookupPort(c) ==
  /\ pc[c] = "lookup"
  /\ \/ \E e \in table :
          /\ service[c] = "listed"
          /\ port' = [port EXCEPT ![c] = e.tun]
          /\ Goto(c, "clone") /\ UNCHANGED reply
     \/ /\ table # {} /\ service[c] = "unlisted"
        /\ Finish(c, "Error") /\ UNCHANGED port
     \/ /\ table = {} /\ Finish(c, "eof") /\ UNCHANGED port
  /\ UNCHANGED <<deviceVars, events, watcher, table, tunnelVars, service, dev, tun, uncovered>>

\* ... and the tunnel in a second one.
CloneTunnel(c) ==
  /\ pc[c] = "clone"
  /\ \/ \E e \in table :
          /\ tun' = [tun EXCEPT ![c] = e.tun]
          /\ Goto(c, "dial") /\ UNCHANGED reply
     \/ table = {} /\ Finish(c, "eof") /\ UNCHANGED tun
  /\ UNCHANGED <<deviceVars, events, watcher, table, tunnelVars, service, dev, port, uncovered>>

\* SmoltcpTunnel::connect and, for a shim, rsd_checkin: they may fail on any
\* tunnel.
Dial(c) ==
  /\ pc[c] = "dial" /\ Carries(tun[c])
  /\ Finish(c, "Ok") \/ Finish(c, "Error")
  /\ UNCHANGED <<deviceVars, events, watcher, table, tunnelVars, service, dev, tun,
                 port, uncovered>>

\* Nothing succeeds over a tunnel that carries nothing: the call fails, if it
\* ends at all.
DeadTunnelFails(c) ==
  /\ pc[c] \in {"catalog", "dial"} /\ ~Carries(tun[c])
  /\ Finish(c, "Error")
  /\ UNCHANGED <<deviceVars, events, watcher, table, tunnelVars, service, dev, tun,
                 port, uncovered>>

-----------------------------------------------------------------------------
Serve(c) ==
  \/ EnsureCheck(c) \/ ListDevices(c) \/ BuildTunnel(c) \/ ReadCatalog(c) \/ Insert(c)
  \/ LookupRsd(c) \/ LookupPort(c) \/ CloneTunnel(c) \/ Dial(c)

TableNext ==
  \/ \E c \in Clients : Accept(c) \/ Serve(c) \/ RecordWaitEnds(c) \/ DeadTunnelFails(c)
  \/ Attach \/ Detach \/ \E t \in DOMAIN tunnels : TunnelIdle(t)
  \/ WatcherListens \/ WatcherDetached \/ WatcherDies

TableSpec == TableInit /\ [][TableNext]_tableVars

\* The daemon's threads run, and a device that is there answers.  No end is
\* promised to the wait for a pair record that usbmuxd does not have, nor to a
\* call over a tunnel that carries nothing: the poll thread of a plain tunnel
\* goes on for ever without its device and without its reader (SmoltcpStack).
TableFairSpec ==
  TableSpec /\ WF_tableVars(WatcherDetached) /\ WF_tableVars(WatcherListens) /\ \A c \in Clients : WF_tableVars(Serve(c))

-----------------------------------------------------------------------------
(* Properties.                                                             *)

\* Two clients that reach the attached device reach it through the same
\* tunnel, whoever won the race to build it (lines 376-382).
WinnersTunnelUsed ==
  \A c, d \in Clients :
    /\ pc[c] = "dial" /\ pc[d] = "dial"
    /\ TunnelUp(tun[c]) /\ TunnelUp(tun[d])
    => tun[c] = tun[d]

\* A stale entry is about to be removed: its detach event is on its way to the
\* watcher, unless the device left before the watcher listened or before the
\* entry was made (lines 211-222).
DetachCovers ==
  \A e \in table :
    e.dev # present /\ watcher = "on" /\ e.dev \notin uncovered => e.dev \in ToSet(events)

\* A service is dialled at a port of the catalogue of the tunnel it is dialled
\* through (lines 292-318).
PortOfSameTunnel == \A c \in Clients : pc[c] = "dial" => port[c] = tun[c]

\* Every request ends, or waits at one of two places: in ensure_tunnel, for a
\* pair record that usbmuxd does not have (line 369 to connection.rs 61-70), and
\* in a call over a tunnel that has lost its device or, idle, its reader (lines
\* 371, 282, 315).  No wait comes from the threads themselves, whatever the
\* watcher takes out of the table meanwhile (lines 233-330).
RequestEnds ==
  \A c \in Clients :
    pc[c] = "ensure" ~> \/ pc[c] = "done"
                        \/ pc[c] = "hung" /\ ~paired
                        \/ pc[c] \in {"catalog", "dial"} /\ ~Carries(tun[c])

\* The types, at most one entry for a device, and that everybody goes on with
\* the tunnel that won.
TableSafe == TableTypeOK /\ WinnersTunnelUsed
=============================================================================
