--------------------------- MODULE DeviceSession ---------------------------
(***************************************************************************)
(* DeviceSession of src/tunnel/device_session.rs: which way a session goes *)
(* to a device (lockdown only, the tunnel daemon, a tunnel of its own by   *)
(* src/tunnel/ios17.rs) and how a command then gets a stream to a service. *)
(*                                                                         *)
(* The daemon may start and stop at any moment (its own life is in         *)
(* DaemonLifecycle, its requests in TunnelDaemon); any exchange with the   *)
(* device may fail.  A shim service answers RSDCheckin with dictionaries,  *)
(* StartService among them or not, and then speaks its own protocol.       *)
(***************************************************************************)
EXTENDS Integers, Sequences

CONSTANT ShimReplies   \* bound: the most dictionaries a shim answers with

ASSUME DsAssumption == ShimReplies \in Nat

VARIABLES
  ds,        \* where open, or the request for a stream, is
  dsMode,    \* argument of open
  dsEnv,     \* IOS_LEGACY is set
  dsNew,     \* iOS 17.4 or later
  dsInner,   \* inner, and with it active_path
  dsFailed,  \* history: the ways that have failed
  dsSsl,     \* enable_service_ssl of CoreDeviceProxy
  dsPaired,  \* usbmuxd has the pair record of the device
  dsHung,    \* read_pair_record was refused, and waits on
  rsdUp,     \* the daemon answers at its socket
  ask,       \* what the command asks the session for
  checkins,  \* RSDCheckins sent on the stream
  said,      \* history: what the service has sent on it
  stream,    \* what of it is there to be read
  reads      \* answers to RSDCheckin read

openVars == <<ds, dsInner, dsFailed, dsSsl, dsHung>>
inputVars == <<dsMode, dsEnv, dsNew>>
streamVars == <<ask, checkins, said, stream, reads>>
dsVars == <<openVars, inputVars, dsPaired, rsdUp, streamVars>>
openUnch == <<inputVars, dsPaired, rsdUp, streamVars>>
askUnch == <<inputVars, dsInner, dsFailed, dsSsl, dsHung, dsPaired, rsdUp>>

DsInit ==
  /\ ds = "start" /\ dsMode \in {"Auto", "Legacy", "Rsd"} /\ dsEnv \in BOOLEAN /\ dsNew \in BOOLEAN
  /\ dsInner = "none" /\ dsFailed = {} /\ dsSsl = FALSE /\ rsdUp \in BOOLEAN
  /\ dsPaired \in BOOLEAN /\ dsHung = FALSE
  /\ ask = "none" /\ checkins = 0 /\ said = <<>> /\ stream = <<>> /\ reads = 0

-----------------------------------------------------------------------------
(* open.                                                                   *)

\* from_env, with_legacy_flag.
EnvMode == IF dsEnv THEN "Legacy" ELSE "Auto"
Effective ==
  IF EnvMode = "Legacy" THEN "Legacy"
  ELSE IF dsMode = "Rsd" THEN "Rsd"
  ELSE IF dsMode = "Legacy" THEN "Legacy" ELSE EnvMode

To(label) == ds' = label /\ UNCHANGED <<dsInner, dsFailed, dsSsl, dsHung, openUnch>>
Opened(inner) == ds' = "open" /\ dsInner' = inner /\ UNCHANGED <<dsFailed, dsSsl, dsHung, openUnch>>

\* open_paired and read_from_usbmuxd get past the pair record only if usbmuxd
\* has it.
HasRecord == dsPaired /\ ~dsHung

\* The mode, the version, and the first way to try; detect_version may fail.
DsOpen ==
  /\ ds = "start"
  /\ \/ To("failed")
     \/ (Effective = "Legacy" \/ (Effective = "Auto" /\ ~dsNew)) /\ To("legacy")
     \/ Effective = "Rsd" /\ ~dsNew /\ To("failed")
     \/ Effective # "Legacy" /\ dsNew /\ To("daemon")

\* What a failure of the daemon's way, and of the direct one, leads to.
DaemonFails == ds' = "session" /\ dsFailed' = dsFailed \cup {"daemon"} /\ UNCHANGED <<dsInner, dsSsl, openUnch>>
DirectFails ==
  /\ dsFailed' = dsFailed \cup {"direct"} /\ ds' = IF Effective = "Rsd" THEN "failed" ELSE "legacy"
  /\ UNCHANGED <<dsInner, dsSsl, openUnch>>

\* try_daemon_path: it runs, or it is spawned.
TryDaemon ==
  /\ ds = "daemon"
  /\ \/ rsdUp /\ To("lockdown")
     \/ ~rsdUp /\ (To("wait") \/ (DaemonFails /\ UNCHANGED dsHung))

\* A fault: no deadline.
WaitDaemonForever == ds = "wait" /\ rsdUp /\ To("lockdown")

\* wait_for_daemon: it answers, or 15 s are over.
WaitDaemon == ds = "wait" /\ ((rsdUp /\ To("lockdown")) \/ (DaemonFails /\ UNCHANGED dsHung))

\* A fault: an error of the session ends the search for a way.
DaemonLockdownGivesUp ==
  /\ ds = "lockdown" /\ ~dsHung
  /\ \/ HasRecord /\ Opened("Daemon")
     \/ ds' = "legacy" /\ dsFailed' = dsFailed \cup {"daemon"} /\ UNCHANGED <<dsInner, dsSsl, dsHung, openUnch>>

\* The lockdown session beside the daemon; whether the daemon can reach the
\* device is not asked.
DaemonLockdown ==
  ds = "lockdown" /\ ~dsHung /\ ((HasRecord /\ Opened("Daemon")) \/ (DaemonFails /\ UNCHANGED dsHung))

\* try_rsd, connect_via_lockdown_udid: CoreDeviceProxy is started ...
DirectSession ==
  /\ ds = "session" /\ ~dsHung
  /\ \/ HasRecord /\ ds' = "dial" /\ dsSsl' \in BOOLEAN /\ UNCHANGED <<dsInner, dsFailed, dsHung, openUnch>>
     \/ DirectFails /\ UNCHANGED dsHung
\* ... a stream to it, through a TCP relay when usbmuxd gives a Unix socket ...
DirectDial == ds = "dial" /\ (To(IF dsSsl THEN "tls" ELSE "handshake") \/ (DirectFails /\ UNCHANGED dsHung))
\* ... TLS with the host's certificate, if asked for, out of the record read
\* again ...
DirectTls == ds = "tls" /\ ~dsHung /\ ((HasRecord /\ To("handshake")) \/ (DirectFails /\ UNCHANGED dsHung))
\* ... and the CDTunnel handshake, after which the stack runs.
DirectHandshake == ds = "handshake" /\ (To("beside") \/ (DirectFails /\ UNCHANGED dsHung))

\* The lockdown session beside the tunnel; the stack of a tunnel that is given
\* up here goes on running.
DirectLockdown ==
  ds = "beside" /\ ~dsHung /\ ((HasRecord /\ Opened("Rsd")) \/ (DirectFails /\ UNCHANGED dsHung))

OpenLegacy == ds = "legacy" /\ ~dsHung /\ ((HasRecord /\ Opened("Legacy")) \/ To("failed"))

\* read_pair_record takes a refusal for an event that is not for it, and waits
\* for the next one ...
RecordRefused ==
  /\ ds \in {"lockdown", "session", "tls", "beside", "legacy"} /\ ~dsPaired /\ ~dsHung
  /\ dsHung' = TRUE /\ UNCHANGED <<ds, dsInner, dsFailed, dsSsl, openUnch>>
\* ... until usbmuxd closes the connection, if it does.
UsbmuxdCloses ==
  /\ dsHung /\ dsHung' = FALSE
  /\ \/ ds = "lockdown" /\ DaemonFails
     \/ ds \in {"session", "tls", "beside"} /\ DirectFails
     \/ ds = "legacy" /\ ds' = "failed" /\ UNCHANGED <<dsInner, dsFailed, dsSsl, openUnch>>

Opens ==
  \/ DsOpen \/ TryDaemon \/ WaitDaemon \/ DaemonLockdown
  \/ DirectSession \/ DirectDial \/ DirectTls \/ DirectHandshake \/ DirectLockdown \/ OpenLegacy
  \/ RecordRefused

-----------------------------------------------------------------------------
(* A stream for a command: the catalogue itself ("rsd"), a shim, another   *)
(* service, or the tunnel.                                                 *)

Asks(a, label) == ds = "open" /\ ds' = label /\ ask' = a /\ checkins' = 0 /\ said' = <<>> /\ stream' = <<>> /\ reads' = 0 /\ UNCHANGED askUnch
Refused == ds' = "open" /\ UNCHANGED <<streamVars, askUnch>>
Handed == ds' = "have" /\ UNCHANGED <<ask, checkins, askUnch>>

\* What a shim says: n dictionaries, the k-th of them StartService (none, if k
\* is 0), and then its own protocol.
ShimSays(n, k) ==
  [i \in 1..(n + 1) |-> IF i = n + 1 THEN "data" ELSE IF i = k THEN "StartService" ELSE "dict"]
CheckIn(label) ==
  /\ ask = "shim" /\ ds' = label /\ checkins' = checkins + 1
  /\ \E n \in 0..ShimReplies : \E k \in 0..n : said' = ShimSays(n, k)
  /\ stream' = said' /\ UNCHANGED <<ask, reads, askUnch>>
Connected == ask # "shim" /\ said' = <<"data">> /\ stream' = said' /\ Handed /\ UNCHANGED reads

\* daemon_connect_service: the daemon has to be there now; there is no other
\* way.
AskDaemon == dsInner = "Daemon" /\ \E a \in {"rsd", "shim", "service"} : rsdUp /\ Asks(a, "asked")

\* The daemon's answer to a request (handle_client): an error, no answer at
\* all, a stream; a shim is checked in first.
DaemonAnswers == ds = "asked" /\ (Refused \/ (rsdUp /\ (Connected \/ CheckIn("daemonCheckin"))))

\* The direct way: the catalogue through the tunnel, the port, the service.
AskDirect == dsInner = "Rsd" /\ \E a \in {"rsd", "shim", "service"} : Asks(a, "dialled")
DirectAnswers == ds = "dialled" /\ (Refused \/ Connected \/ CheckIn("directCheckin"))

\* One answer, whatever it is; the last is StartService, or the fourth.  What
\* a service says of its own accord is framed like an answer, or breaks the
\* loop (Refused).
ReadsAnswer ==
  /\ stream # <<>> /\ stream' = Tail(stream) /\ reads' = reads + 1 /\ UNCHANGED said
  /\ IF Head(stream) = "StartService" \/ reads + 1 = 4
       THEN Handed ELSE UNCHANGED <<ds, ask, checkins, askUnch>>

\* A fault: the loop goes on after StartService.
CheckinDirectAll ==
  /\ ds = "directCheckin"
  /\ \/ Refused
     \/ /\ stream # <<>> /\ stream' = Tail(stream) /\ reads' = reads + 1 /\ UNCHANGED said
        /\ IF reads + 1 = 4 \/ stream' = <<>> THEN Handed ELSE UNCHANGED <<ds, ask, checkins, askUnch>>

CheckinDaemon == ds = "daemonCheckin" /\ (Refused \/ (rsdUp /\ ReadsAnswer))
CheckinDirect == ds = "directCheckin" /\ (Refused \/ ReadsAnswer)

\* smoltcp_tunnel_ref: what runtest and deviceip need.
AskTunnel ==
  /\ dsInner = "Rsd" /\ Asks("tunnel", "have")

\* The command is done with the stream.
Done == ds = "have" /\ Refused

-----------------------------------------------------------------------------
\* The daemon is started, by whoever, and ends.
RsdStarts == ~rsdUp /\ rsdUp' = TRUE /\ UNCHANGED <<openVars, inputVars, dsPaired, streamVars>>
RsdStops == rsdUp /\ rsdUp' = FALSE /\ UNCHANGED <<openVars, inputVars, dsPaired, streamVars>>

\* Another process pairs the device, or deletes its record.
RecordChanges == dsPaired' = ~dsPaired /\ UNCHANGED <<openVars, inputVars, rsdUp, streamVars>>

DsNext ==
  \/ Opens \/ AskDaemon \/ DaemonAnswers \/ AskDirect \/ DirectAnswers \/ CheckinDaemon \/ CheckinDirect \/ AskTunnel \/ Done
  \/ RsdStarts \/ RsdStops \/ RecordChanges \/ UsbmuxdCloses

\* open goes on, and a device that is there answers or closes its streams.
DsSpec == DsInit /\ [][DsNext]_dsVars /\ WF_dsVars(Opens)

-----------------------------------------------------------------------------
\* The table of device_session.rs 6-11, with IOS_LEGACY before all: a legacy
\* session only where it is asked for, where the device knows nothing else, or
\* once the daemon and the direct tunnel have both failed; never in its place
\* where RSD was forced; the direct tunnel only once the daemon has failed.  It
\* says nothing of a tunnel that the daemon turns out not to get: such a session
\* is open, and has no other way (mode.rs 5 says it falls back).
PathAsTable ==
  /\ dsInner = "Legacy" =>
       \/ dsEnv \/ dsMode = "Legacy" \/ ~dsNew \/ dsFailed = {"daemon", "direct"}
  /\ dsInner = "Legacy" /\ dsMode = "Rsd" => dsEnv
  /\ dsInner = "Rsd" => dsFailed = {"daemon"}
  /\ dsInner \in {"Rsd", "Daemon"} => dsNew /\ ~dsEnv /\ dsMode # "Legacy"

\* A command that asked for a shim gets a stream that was checked in once, by
\* the daemon or by itself, and of which nothing is missing but the answers to
\* the check-in: what the shim sent after StartService, if that is among its
\* first four answers, and what it sent after the fourth if it is not - then the
\* command is not told that StartService never came (device_session.rs 226-245,
\* tunnel.rs 406-418).  Any other stream is whole and not checked in.
StreamAtStart ==
  ds = "have" /\ ask # "tunnel" =>
    /\ checkins = (IF ask = "shim" THEN 1 ELSE 0)
    /\ reads <= 4 /\ stream = SubSeq(said, reads + 1, Len(said))
    /\ \A i \in 1..reads : said[i] = "StartService" => i = reads
    /\ ask = "shim" => reads = 4 \/ (reads > 0 /\ said[reads] = "StartService")
    /\ ask # "shim" => reads = 0

\* Once it has the version, open ends from wherever it is, though the daemon it
\* waits for may never come up, as long as the device answers or closes the
\* streams to it - unless usbmuxd refuses the pair record, which leaves open
\* waiting on its connection to usbmuxd (open_paired and ios17.rs 110 to
\* connection.rs 61-70).
Opening == {"daemon", "wait", "lockdown", "session", "dial", "tls", "handshake", "beside", "legacy"}
OpenEnds == ds \in Opening /\ ~dsHung ~> ds \in {"open", "failed"} \/ dsHung

\* The way a session goes is the one its mode and the failures on the way say,
\* and a stream is handed on after StartService or the fourth answer.
WaysSafe == PathAsTable /\ StreamAtStart
=============================================================================
