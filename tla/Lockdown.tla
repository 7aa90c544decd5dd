------------------------------ MODULE Lockdown ------------------------------
(***************************************************************************)
(* Pairing and lockdown sessions of several host processes with one        *)
(* device: pair, pair_supervised and unpair of src/lockdown/pairing.rs and *)
(* LockdownSession of src/lockdown/session.rs, from open_paired to Drop.   *)
(*                                                                         *)
(* The processes share the pair record that usbmuxd keeps for the device   *)
(* and the device's own list of trusted hosts.  Every session has its own  *)
(* stream; a request is one message and its reply another.  A HostID is    *)
(* the name of the process that generated it.                              *)
(***************************************************************************)
EXTENDS Integers, Sequences

CONSTANTS
  Pairers,      \* processes that run pair
  Supervised,   \* processes that run pair_supervised
  Unpairers,    \* processes that run unpair
  Sessions,     \* processes that open a session, use it and drop it
  FirstHost,    \* HostID of the pair record that is there at the start
  NoHost,       \* no pair record
  MaxOps        \* bound: requests of a session after StartSession

\* A process does one thing, and a HostID is a fresh UUID.
ASSUME LockdownAssumption ==
  /\ MaxOps \in Nat /\ NoHost # FirstHost /\ {NoHost, FirstHost} \cap (Pairers \cup Supervised) = {}
  /\ (Pairers \cup Supervised) \cap (Unpairers \cup Sessions) = {} /\ Unpairers \cap Sessions = {}

Hosts == Pairers \cup Supervised \cup {FirstHost}
Procs == Pairers \cup Supervised \cup Unpairers \cup Sessions

VARIABLES
  record,    \* HostID of the pair record in usbmuxd, or NoHost
  trusted,   \* HostIDs the device trusts
  unpairs,   \* Unpair requests on their way to the device
  pc,        \* where each process is
  host,      \* HostID each process works with
  stream,    \* sessions: "Plain", "Tls" or "Upgrading"
  sid,       \* sessions: session_id is set
  ops,       \* sessions: requests sent
  toDev,     \* sessions: requests on their way
  toHost,    \* sessions: replies on their way
  dev,       \* sessions: what the device speaks: "plain", "tls", "closed"
  taken,     \* history, sessions: the last request and the reply, at each reply taken
  panicked   \* history: a stream was used while Upgrading

shared == <<record, trusted, unpairs>>
link == <<toDev, toHost, dev>>
lockdownVars == <<shared, pc, host, stream, sid, ops, link, taken, panicked>>

LockdownInit ==
  /\ record \in {FirstHost, NoHost} /\ trusted = {record} \ {NoHost} /\ unpairs = {}
  /\ pc = [p \in Procs |-> "start"] /\ host = [p \in Procs |-> NoHost]
  /\ stream = [s \in Sessions |-> "Plain"] /\ sid = [s \in Sessions |-> FALSE]
  /\ ops = [s \in Sessions |-> 0]
  /\ toDev = [s \in Sessions |-> <<>>] /\ toHost = [s \in Sessions |-> <<>>]
  /\ dev = [s \in Sessions |-> "plain"]
  /\ taken = [s \in Sessions |-> <<>>] /\ panicked = FALSE

Goto(p, from, to) == pc[p] = from /\ pc' = [pc EXCEPT ![p] = to]

-----------------------------------------------------------------------------
(* Pairing.  The values read before, and the certificates, are constants   *)
(* here; each step may also fail, which ends the process.                  *)

PairVars == <<stream, sid, ops, link, taken, panicked>>

\* read_buid, connect, the two get_value calls and the certificates; a new
\* HostID.
PairPrepare(p) ==
  /\ Goto(p, "start", IF p \in Supervised THEN "challenge" ELSE "pair")
  /\ host' = [host EXCEPT ![p] = p]
  /\ UNCHANGED <<shared, PairVars>>

\* First round of a supervised pairing: the device sends a challenge.
PairChallenge(p) ==
  /\ Goto(p, "challenge", "pair")
  /\ UNCHANGED <<shared, host, PairVars>>

\* A fault: the error of the pair response is overlooked.
PairAskUnchecked(p) ==
  /\ \/ Goto(p, "pair", "save") /\ trusted' = trusted \cup {host[p]}
     \/ Goto(p, "pair", "save") /\ UNCHANGED trusted
  /\ UNCHANGED <<record, unpairs, host, PairVars>>

\* The Pair request: the device accepts, and from then on trusts the host,
\* or the answer is an error (a refusal, the open trust dialog).
PairAsk(p) ==
  /\ \/ Goto(p, "pair", "save") /\ trusted' = trusted \cup {host[p]}
     \/ Goto(p, "pair", "failed") /\ UNCHANGED trusted
  /\ UNCHANGED <<record, unpairs, host, PairVars>>

\* SavePairRecord replaces whatever record there is for the device.
PairSave(p) ==
  /\ \/ Goto(p, "save", "done") /\ record' = host[p]
     \/ Goto(p, "save", "failed") /\ UNCHANGED record
  /\ UNCHANGED <<trusted, unpairs, host, PairVars>>

\* An error, an accepted pairing without an escrow bag for one, or the process
\* is killed.
PairStops(p) ==
  /\ pc[p] \in {"start", "challenge", "save"} /\ pc' = [pc EXCEPT ![p] = "failed"]
  /\ UNCHANGED <<shared, host, PairVars>>

\* unpair connects to lockdownd; when it cannot it goes on without.
UnpairConnect(u) ==
  /\ Goto(u, "start", "read") \/ Goto(u, "start", "delete")
  /\ UNCHANGED <<shared, host, PairVars>>

\* read_pair_record: with no record, usbmuxd answers with a failure, which
\* read_pair_record does not know: the call waits as long as usbmuxd keeps
\* the connection open.
ReadRecord(p, next, onError) ==
  \/ record # NoHost /\ Goto(p, "read", next) /\ host' = [host EXCEPT ![p] = record]
  \/ record = NoHost /\ Goto(p, "read", "hung") /\ UNCHANGED host
  \/ Goto(p, "read", onError) /\ UNCHANGED host

\* An unreadable record is left out of the Unpair request.
UnpairRead(u) == ReadRecord(u, "send", "send") /\ UNCHANGED <<shared, PairVars>>

\* The request is sent and no answer waited for.
UnpairSend(u) ==
  /\ Goto(u, "send", "delete")
  /\ unpairs' = IF host[u] = NoHost THEN unpairs ELSE unpairs \cup {host[u]}
  /\ UNCHANGED <<record, trusted, host, PairVars>>

\* DeletePairRecord removes the record, whichever it is now.
UnpairDelete(u) ==
  /\ \/ Goto(u, "delete", "done") /\ record' = NoHost
     \/ Goto(u, "delete", "failed") /\ UNCHANGED record
  /\ UNCHANGED <<trusted, unpairs, host, PairVars>>

\* The device forgets a host, or the request was lost with its connection.
DeviceUnpairs ==
  /\ \E h \in unpairs :
       unpairs' = unpairs \ {h} /\ (trusted' = trusted \ {h} \/ UNCHANGED trusted)
  /\ UNCHANGED <<record, pc, host, PairVars>>

-----------------------------------------------------------------------------
(* A session.                                                              *)

\* Request number ops + 1 goes out over the stream as it is: writing to an
\* upgrading stream is unreachable!().
Send(s, op) ==
  /\ panicked' = (panicked \/ stream[s] = "Upgrading")
  /\ ops' = [ops EXCEPT ![s] = @ + 1]
  /\ toDev' = [toDev EXCEPT ![s] = Append(@, [op |-> op, n |-> ops[s] + 1, tls |-> stream[s] = "Tls"])]
  /\ UNCHANGED <<toHost, dev>>

\* recv_plist has a reply of one of the kinds, or the stream has ended.
Recv(s, kinds) ==
  /\ toHost[s] # <<>> /\ Head(toHost[s]).kind \in kinds
  /\ toHost' = [toHost EXCEPT ![s] = Tail(@)]
  /\ taken' = [taken EXCEPT ![s] = Append(@, <<ops[s], Head(toHost[s]).n>>)]
  /\ UNCHANGED <<toDev, dev, ops, panicked>>
Ended(s) ==
  /\ toHost[s] = <<>> /\ dev[s] = "closed"
  /\ UNCHANGED <<link, taken, ops, panicked>>

\* connect, then the pair record; an error drops the session, which has no
\* session_id yet.
OpenPaired(s) == Goto(s, "start", "read") /\ UNCHANGED <<shared, host, PairVars>>
SessionRead(s) == ReadRecord(s, "startSession", "done") /\ UNCHANGED <<shared, PairVars>>

\* start_session sends StartSession with the record's HostID.
StartSession(s) ==
  /\ Goto(s, "startSession", "starting") /\ Send(s, "StartSession")
  /\ UNCHANGED <<shared, host, stream, sid, taken>>

\* The reply: an error ends the session; a session_id is kept, and a session
\* that wants TLS is upgraded.
SessionStarted(s) ==
  /\ \/ /\ (Recv(s, {"error"}) \/ Ended(s)) /\ Goto(s, "starting", "drop") /\ UNCHANGED sid
     \/ /\ Recv(s, {"ok", "ssl"}) /\ sid' = [sid EXCEPT ![s] = TRUE]
        /\ Goto(s, "starting", IF Head(toHost[s]).kind = "ssl" THEN "upgrade" ELSE "open")
  /\ UNCHANGED <<shared, host, stream>>

\* upgrade_to_tls first builds the configuration from the certificates of the
\* record; when it cannot the stream stays plain.
BuildTlsConfig(s) ==
  /\ \/ Goto(s, "upgrade", "drop") /\ UNCHANGED stream
     \/ Goto(s, "upgrade", "handshake") /\ stream' = [stream EXCEPT ![s] = "Upgrading"]
  /\ UNCHANGED <<shared, host, sid, ops, link, taken, panicked>>

\* A fault: start_session goes on with a session whose upgrade failed.
UpgradeUnchecked(s) ==
  /\ \/ Goto(s, "handshake", "drop") /\ UNCHANGED stream
     \/ Goto(s, "handshake", "open") /\ stream' = [stream EXCEPT ![s] = "Plain"]
     \/ Goto(s, "handshake", "open") /\ dev[s] = "tls" /\ stream' = [stream EXCEPT ![s] = "Tls"]
  /\ UNCHANGED <<shared, host, sid, ops, link, taken, panicked>>

\* upgrade_to_tls, the stream taken out: the TLS client fails and leaves it
\* Upgrading; the handshake fails and puts the plain stream back; or the
\* stream becomes Tls.
UpgradeToTls(s) ==
  /\ \/ Goto(s, "handshake", "drop") /\ UNCHANGED stream
     \/ Goto(s, "handshake", "drop") /\ stream' = [stream EXCEPT ![s] = "Plain"]
     \/ Goto(s, "handshake", "open") /\ dev[s] = "tls" /\ stream' = [stream EXCEPT ![s] = "Tls"]
  /\ UNCHANGED <<shared, host, sid, ops, link, taken, panicked>>

\* get_value, set_value, get_all_values and query_type: one request.
Requests(s) ==
  /\ ops[s] <= MaxOps /\ Goto(s, "open", "wait") /\ Send(s, "Request")
  /\ UNCHANGED <<shared, host, stream, sid, taken>>

\* expect_response takes one reply, good or bad.
TakesReply(s) ==
  /\ Recv(s, {"ok", "error", "ssl"}) \/ Ended(s)
  /\ Goto(s, "wait", "open")
  /\ UNCHANGED <<shared, host, stream, sid>>

\* list_services asks for the services' domain first.
ListServices(s) ==
  /\ ops[s] <= MaxOps /\ Goto(s, "open", "listing") /\ Send(s, "Request")
  /\ UNCHANGED <<shared, host, stream, sid, taken>>

\* A fault: list_services does not wait for the first reply.
ListFallbackEarly(s) ==
  /\ \/ Recv(s, {"ok"}) /\ Goto(s, "listing", "open")
     \/ Goto(s, "listing", "again") /\ UNCHANGED <<link, taken, ops, panicked>>
     \/ Send(s, "Request") /\ Goto(s, "again", "wait") /\ UNCHANGED taken
  /\ UNCHANGED <<shared, host, stream, sid>>

\* Any failure of the first request makes it ask for everything.
ListFallback(s) ==
  /\ \/ Recv(s, {"ok"}) /\ Goto(s, "listing", "open")
     \/ (Recv(s, {"error", "ssl"}) \/ Ended(s)) /\ Goto(s, "listing", "again")
     \/ Send(s, "Request") /\ Goto(s, "again", "wait") /\ UNCHANGED taken
  /\ UNCHANGED <<shared, host, stream, sid>>

\* connect_service: StartService gives a port, to which a connection of its
\* own is opened and, if the service wants it, wrapped in TLS with the pair
\* record kept by start_session; any of it may fail, the session stays.
ConnectService(s) ==
  /\ \/ ops[s] <= MaxOps /\ Goto(s, "open", "service") /\ Send(s, "Request") /\ UNCHANGED taken
     \/ (Recv(s, {"error", "ssl"}) \/ Ended(s)) /\ Goto(s, "service", "open")
     \/ Recv(s, {"ok"}) /\ Goto(s, "service", "dial")
     \/ Goto(s, "dial", "open") /\ UNCHANGED <<link, taken, ops, panicked>>
  /\ UNCHANGED <<shared, host, stream, sid>>

\* The owner is done with the session.
Drop(s) == Goto(s, "open", "drop") /\ UNCHANGED <<shared, host, PairVars>>

\* A fault: the test for an unfinished upgrade is missing.
StopSessionUpgrading(s) ==
  /\ \/ ~sid[s] /\ Goto(s, "drop", "done") /\ UNCHANGED <<sid, ops, link, panicked>>
     \/ sid[s] /\ Goto(s, "drop", "stopping") /\ sid' = [sid EXCEPT ![s] = FALSE] /\ Send(s, "StopSession")
  /\ UNCHANGED <<shared, host, stream, taken>>

\* stop_session, from Drop: nothing to do without a session_id or while
\* Upgrading; otherwise StopSession and one reply.
StopSession(s) ==
  /\ \/ /\ (~sid[s] \/ stream[s] = "Upgrading") /\ Goto(s, "drop", "done")
        /\ sid' = [sid EXCEPT ![s] = FALSE] /\ UNCHANGED <<ops, link, panicked>>
     \/ /\ sid[s] /\ stream[s] # "Upgrading" /\ Goto(s, "drop", "stopping")
        /\ sid' = [sid EXCEPT ![s] = FALSE] /\ Send(s, "StopSession")
  /\ UNCHANGED <<shared, host, stream, taken>>

\* A fault: only a reply ends the wait.
StoppedByReply(s) ==
  /\ Recv(s, {"ok", "error", "ssl"})
  /\ Goto(s, "stopping", "done")
  /\ UNCHANGED <<shared, host, stream, sid>>

Stopped(s) ==
  /\ Recv(s, {"ok", "error", "ssl"}) \/ Ended(s)
  /\ Goto(s, "stopping", "done")
  /\ UNCHANGED <<shared, host, stream, sid>>

\* lockdownd answers one request: StartSession of a host it does not trust
\* is an error; a plain message on a stream that is to be encrypted ends it.
DeviceAnswers(s) ==
  /\ toDev[s] # <<>> /\ dev[s] # "closed"
  /\ LET m == Head(toDev[s])
         answer(kind, speak) ==
           /\ toHost' = [toHost EXCEPT ![s] = Append(@, [kind |-> kind, n |-> m.n])]
           /\ dev' = [dev EXCEPT ![s] = speak]
     IN /\ toDev' = [toDev EXCEPT ![s] = Tail(@)]
        /\ IF (dev[s] = "tls") # m.tls THEN dev' = [dev EXCEPT ![s] = "closed"] /\ UNCHANGED toHost
           ELSE IF m.op = "StartSession"
           THEN IF host[s] \in trusted THEN answer("ok", "plain") \/ answer("ssl", "tls")
                ELSE answer("error", "plain")
           ELSE answer("ok", dev[s]) \/ answer("error", dev[s])
  /\ UNCHANGED <<shared, pc, host, stream, sid, ops, taken, panicked>>

\* The device is unplugged or ends the session.
DeviceCloses(s) ==
  /\ dev[s] # "closed" /\ dev' = [dev EXCEPT ![s] = "closed"]
  /\ UNCHANGED <<shared, pc, host, stream, sid, ops, toDev, toHost, taken, panicked>>

SessionStep(s) ==
  \/ OpenPaired(s) \/ SessionRead(s) \/ StartSession(s) \/ SessionStarted(s)
  \/ BuildTlsConfig(s) \/ UpgradeToTls(s) \/ TakesReply(s) \/ ListFallback(s) \/ ConnectService(s) \/ Drop(s) \/ StopSession(s) \/ Stopped(s)

LockdownNext ==
  \/ \E p \in Pairers \cup Supervised :
       PairPrepare(p) \/ PairChallenge(p) \/ PairAsk(p) \/ PairSave(p) \/ PairStops(p)
  \/ \E u \in Unpairers : UnpairConnect(u) \/ UnpairRead(u) \/ UnpairSend(u) \/ UnpairDelete(u)
  \/ DeviceUnpairs
  \/ \E s \in Sessions : SessionStep(s) \/ Requests(s) \/ ListServices(s) \/ DeviceAnswers(s) \/ DeviceCloses(s)

\* A session's process runs, and the device answers or closes.
LockdownSpec == LockdownInit /\ [][LockdownNext]_lockdownVars
        /\ \A s \in Sessions : WF_lockdownVars(SessionStep(s)) /\ WF_lockdownVars(DeviceAnswers(s))

-----------------------------------------------------------------------------
\* The device trusts the host of the saved pair record, so that sessions can
\* start, whatever other processes pair and unpair at the same time
\* (pairing.rs 37-125, 130-262, 264-293): unless an unpair has told it
\* otherwise and has not deleted the record yet, or could not.
RecordTrusted ==
  record \in trusted \cup {NoHost}
    \/ \E u \in Unpairers : host[u] = record /\ pc[u] \in {"delete", "failed"}

\* Every reply a session takes is the reply to the request it sent last, also
\* after errors, and also the one stop_session drains (session.rs 287-303,
\* 339-370, 460-469).
ReplyToRequest == \A s \in Sessions : \A i \in DOMAIN taken[s] : taken[s][i][1] = taken[s][i][2]

\* Nobody reads or writes a stream that is Upgrading, "never visible to
\* callers" (session.rs 23, 32, 42, 49), whatever fails in the upgrade.
NeverUpgrading == ~panicked

\* Once the device wants the session encrypted nothing but a StopSession
\* goes out in plain (session.rs 280-282, 471-500).
PlainOnlyToStop ==
  \A s \in Sessions : dev[s] = "tls" =>
    \A i \in DOMAIN toDev[s] : toDev[s][i].tls \/ toDev[s][i].op = "StopSession"

\* Dropping a session returns: the acknowledgement comes or the stream ends
\* (session.rs 287-303, 513-517), also when the TLS handshake had failed.
DropReturns == \A s \in Sessions : (pc[s] = "drop") ~> (pc[s] = "done")

\* What holds of a session at every moment: replies in step with requests, a
\* stream to speak over whenever one is used, and nothing but a farewell in
\* plain to a device that wants TLS.
SessionSafe == ReplyToRequest /\ NeverUpgrading /\ PlainOnlyToStop
=============================================================================
