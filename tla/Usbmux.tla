------------------------------- MODULE Usbmux -------------------------------
(***************************************************************************)
(* One connection to usbmuxd: Codec, Connection and Listener of            *)
(* src/usbmux, against the simulator of src/usbmux/sim or a real usbmuxd.  *)
(* A client makes calls one after another; the last one may turn the       *)
(* connection into a listener or into a raw pipe to a device service.      *)
(*                                                                         *)
(* The byte stream to the client is a sequence of units: a frame is two    *)
(* units, the second of which completes it, a byte of a piped service one. *)
(* A read returns any non-empty prefix of what has arrived.                *)
(***************************************************************************)
EXTENDS Integers, Sequences

CONSTANTS
  MaxCalls,   \* bound: calls made on the connection
  MaxEmit,    \* bound: device events or service bytes the peer sends
  TagMax,     \* largest value of a tag: 2^32 - 1 in the code
  Devices     \* number of devices the simulator holds

ASSUME UsbmuxAssumption ==
  /\ MaxCalls \in Nat \ {0} /\ MaxEmit \in Nat /\ TagMax \in Nat \ {0} /\ Devices \in 0..MaxEmit

VARIABLES
  codec,     \* Codec: rx, events, nextTag, pending (pending_connects)
  decoding,  \* process_rx is at work on what the last read brought
  call,      \* the call that waits for its answer: kind, tag, id
  mode,      \* "calls", or what the connection has become: "listener", "pipe"
  log,       \* history: how each call returned
  toMux,     \* requests on their way to usbmuxd
  toClient,  \* units on their way to the client
  peer,      \* who answers: the simulator or a real usbmuxd
  state,     \* "serving", "listening", "pipe" or "closed", at the peer
  refused,   \* history: ids of the requests answered with a failure
  emitted,   \* history: number of device events or service bytes sent
  got        \* history: numbers of those Listener::next or the pipe returned

muxVars == <<codec, decoding, call, mode, log, toMux, toClient, peer, state, refused, emitted, got>>

Kinds == {"list", "buid", "readpair", "save", "delete", "connect"}
IsDeviceEvent(e) == e.kind \in {"Attached", "Detached"}
NoCall == [kind |-> "none", tag |-> 0, id |-> 0]
Idle == call = NoCall

(* Frames.  id is the request a frame answers and n the number of device   *)
(* events sent so far, its own included; the client sees neither.          *)
Frame(kind, tag, code, id, n) ==
  << [unit |-> "head", kind |-> kind, tag |-> tag, code |-> code, id |-> id, n |-> n],
     [unit |-> "body", kind |-> kind, tag |-> tag, code |-> code, id |-> id, n |-> n] >>
Result(req, code) == Frame("Result", req.tag, code, req.id, 0)
Answer(req, kind) == Frame(kind, req.tag, 0, req.id, 0)
DeviceEvent(kind, n) == Frame(kind, 0, 0, 0, n)
Byte(n) == << [unit |-> "raw", kind |-> "byte", tag |-> 0, code |-> 0, id |-> 0, n |-> n] >>

MuxInit ==
  /\ codec = [rx |-> <<>>, events |-> <<>>, nextTag |-> 1, pending |-> {}]
  /\ decoding = FALSE /\ call = NoCall /\ mode = "calls" /\ log = <<>>
  /\ toMux = <<>> /\ toClient = <<>>
  /\ peer \in {"sim", "usbmuxd"} /\ state = "serving"
  /\ refused = {} /\ emitted = 0 /\ got = <<>>

-----------------------------------------------------------------------------
(* The codec.                                                              *)

\* A fault: the first tag after the wrap is 0, the tag of unsolicited frames.
AllocTagZero(t) == (t + 1) % (TagMax + 1)

\* wrapping_add(1).max(1)
AllocTag(t) == LET u == (t + 1) % (TagMax + 1) IN IF u = 0 THEN 1 ELSE u

\* A fault: an accepted connect is reported like any other request.
DecodeFrameNoConnect(c, f) ==
  IF f.kind = "Paired" THEN c
  ELSE [c EXCEPT !.events = Append(@,
          IF f.kind = "Result"
          THEN [f EXCEPT !.kind = IF f.code = 0 THEN "RequestOk" ELSE "RequestFailed"]
          ELSE f)]

\* The event of a frame, if it has one, goes to the end of the queue; a
\* frame of an unknown type is dropped.  A Result settles a pending connect.
DecodeFrame(c, f) ==
  LET connect == f.kind = "Result" /\ f.tag \in c.pending
      name == IF f.kind # "Result" THEN f.kind
              ELSE IF f.code # 0 THEN "RequestFailed"
              ELSE IF connect THEN "Connected" ELSE "RequestOk"
  IN IF f.kind = "Paired" THEN c
     ELSE [c EXCEPT !.events = Append(@, [f EXCEPT !.kind = name]),
                    !.pending = IF connect THEN @ \ {f.tag} ELSE @]

-----------------------------------------------------------------------------
(* The client.                                                             *)

Request(kind) == [kind |-> kind, tag |-> codec.nextTag, id |-> Len(log) + 1]

\* A fault: delete_pair_record returns when its request is written.
StartForgets(kind) ==
  /\ mode = "calls" /\ Idle /\ Len(log) < MaxCalls
  /\ toMux' = Append(toMux, Request(kind))
  /\ codec' = [codec EXCEPT !.nextTag = AllocTag(@),
                            !.pending = IF kind = "connect" THEN @ \cup {codec.nextTag} ELSE @]
  /\ CASE kind = "listen" -> mode' = "listener" /\ UNCHANGED <<call, log>>
       [] kind = "delete" -> log' = Append(log, [kind |-> kind, id |-> 0, verdict |-> "ok", of |-> 0])
                             /\ UNCHANGED <<call, mode>>
       [] OTHER -> call' = Request(kind) /\ UNCHANGED <<mode, log>>
  /\ UNCHANGED <<decoding, toClient, peer, state, refused, emitted, got>>

\* A call writes its request and waits; listen does not wait.
Start(kind) ==
  /\ mode = "calls" /\ Idle /\ Len(log) < MaxCalls
  /\ toMux' = Append(toMux, Request(kind))
  /\ codec' = [codec EXCEPT !.nextTag = AllocTag(@),
                            !.pending = IF kind = "connect" THEN @ \cup {codec.nextTag} ELSE @]
  /\ IF kind = "listen" THEN mode' = "listener" /\ UNCHANGED call
                        ELSE call' = Request(kind) /\ UNCHANGED mode
  /\ UNCHANGED <<decoding, log, toClient, peer, state, refused, emitted, got>>

Listening == mode = "listener" /\ Idle
Reading == (~Idle \/ Listening) /\ ~decoding /\ codec.events = <<>>

\* next_event, nothing queued: one read of what has arrived, which push_data
\* puts behind what the buffer holds.
Read ==
  /\ Reading
  /\ \E k \in 1..Len(toClient) :
       /\ codec' = [codec EXCEPT !.rx = @ \o SubSeq(toClient, 1, k)]
       /\ toClient' = SubSeq(toClient, k + 1, Len(toClient))
  /\ decoding' = TRUE
  /\ UNCHANGED <<call, mode, log, toMux, peer, state, refused, emitted, got>>

\* The buffer begins with a whole frame.
Complete(rx) == Len(rx) >= 2 /\ rx[1].unit = "head" /\ rx[2].unit = "body"

\* A fault: the rest of the buffer goes with the first complete frame.
ProcessRxDropsRest ==
  /\ decoding
  /\ IF Complete(codec.rx)
     THEN codec' = DecodeFrame([codec EXCEPT !.rx = <<>>], codec.rx[1]) /\ UNCHANGED decoding
     ELSE decoding' = FALSE /\ UNCHANGED codec
  /\ UNCHANGED <<call, mode, log, toMux, toClient, peer, state, refused, emitted, got>>

\* One round of the loop: the frame the buffer begins with is drained and
\* decoded; without one the loop ends.  A service byte is never taken out.
ProcessRx ==
  /\ decoding
  /\ IF Complete(codec.rx)
     THEN /\ codec' = DecodeFrame([codec EXCEPT !.rx = SubSeq(@, 3, Len(@))], codec.rx[1])
          /\ UNCHANGED decoding
     ELSE decoding' = FALSE /\ UNCHANGED codec
  /\ UNCHANGED <<call, mode, log, toMux, toClient, peer, state, refused, emitted, got>>

\* A fault: list_devices waits on after a failure result.
VerdictListWaits(c, e) ==
  CASE c.kind = "list" -> IF e.kind = "DeviceList" THEN "ok" ELSE "skip"
    [] c.kind = "buid" -> IF e.kind = "Buid" THEN "ok" ELSE "skip"
    [] c.kind = "readpair" -> IF e.kind = "PairRecord" THEN "ok" ELSE "skip"
    [] c.kind \in {"save", "delete"} -> IF e.kind = "RequestFailed" THEN "err" ELSE "ok"
    [] c.kind = "connect" -> IF e.kind = "Connected" /\ e.tag = c.tag THEN "ok"
                             ELSE IF e.kind = "RequestFailed" THEN "err" ELSE "skip"

\* What a waiting call makes of an event: it returns, or skips it.
Verdict(c, e) ==
  CASE c.kind = "list" -> IF e.kind = "DeviceList" THEN "ok"
                          ELSE IF e.kind = "RequestFailed" /\ e.tag = c.tag THEN "err" ELSE "skip"
    [] c.kind = "buid" -> IF e.kind = "Buid" THEN "ok" ELSE "skip"
    [] c.kind = "readpair" -> IF e.kind = "PairRecord" THEN "ok" ELSE "skip"
    [] c.kind \in {"save", "delete"} -> IF e.kind = "RequestFailed" THEN "err" ELSE "ok"
    [] c.kind = "connect" -> IF e.kind = "Connected" /\ e.tag = c.tag THEN "ok"
                             ELSE IF e.kind = "RequestFailed" THEN "err" ELSE "skip"

Returned(verdict, id) == [kind |-> call.kind, id |-> call.id, verdict |-> verdict, of |-> id]

\* The waiting call looks at the next event; open_tunnel hands out the bare
\* socket, whatever the codec still holds.
TakeEvent ==
  /\ ~Idle /\ ~decoding /\ codec.events # <<>>
  /\ LET e == Head(codec.events)
         v == Verdict(call, e)
     IN /\ codec' = [codec EXCEPT !.events = Tail(@)]
        /\ IF v = "skip" THEN UNCHANGED <<call, log, mode>>
           ELSE /\ call' = NoCall
                /\ log' = Append(log, Returned(v, e.id))
                /\ mode' = IF call.kind = "connect"
                           THEN IF v = "ok" THEN "pipe" ELSE "dropped"
                           ELSE mode
  /\ UNCHANGED <<decoding, toMux, toClient, peer, state, refused, emitted, got>>

\* Listener::next: device events are returned, a failure ends the listener.
ListenerNext ==
  /\ Listening /\ ~decoding /\ codec.events # <<>>
  /\ LET e == Head(codec.events)
     IN /\ codec' = [codec EXCEPT !.events = Tail(@)]
        /\ got' = IF IsDeviceEvent(e) THEN Append(got, e.n) ELSE got
        /\ mode' = IF e.kind = "RequestFailed" THEN "dropped" ELSE mode
  /\ UNCHANGED <<decoding, call, log, toMux, toClient, peer, state, refused, emitted>>

\* The read returns 0: the call fails; a connection that was consumed by
\* open_tunnel or listen is gone.
ReadEof ==
  /\ Reading /\ toClient = <<>> /\ state = "closed"
  /\ mode' = IF Listening \/ call.kind = "connect" THEN "dropped" ELSE mode
  /\ IF Idle THEN UNCHANGED <<call, log>>
     ELSE call' = NoCall /\ log' = Append(log, Returned("closed", 0))
  /\ UNCHANGED <<codec, decoding, toMux, toClient, peer, state, refused, emitted, got>>

\* The caller of open_tunnel reads from the socket.
PipeRead ==
  /\ mode = "pipe" /\ toClient # <<>>
  /\ got' = Append(got, Head(toClient).n) /\ toClient' = Tail(toClient)
  /\ UNCHANGED <<codec, decoding, call, mode, log, toMux, peer, state, refused, emitted>>

-----------------------------------------------------------------------------
(* The peer.                                                               *)

\* One request is answered with the given units; st is the peer's next state.
Reply(units, st, failed) ==
  /\ toMux' = Tail(toMux) /\ toClient' = toClient \o units /\ state' = st
  /\ refused' = IF failed THEN refused \cup {Head(toMux).id} ELSE refused
  /\ UNCHANGED <<codec, decoding, call, mode, log, peer, emitted, got>>

Asked(kinds, who) == state = "serving" /\ peer = who /\ toMux # <<>> /\ Head(toMux).kind \in kinds

SimListDevices == Asked({"list"}, "sim") /\ Reply(Answer(Head(toMux), "DeviceList"), "serving", FALSE)
SimReadBuid == Asked({"buid"}, "sim") /\ Reply(Answer(Head(toMux), "Buid"), "serving", FALSE)

\* A result, then SimAttach for every device, then nothing but the open socket.
SimListen == Asked({"listen"}, "sim") /\ Reply(Result(Head(toMux), 0), "listening", FALSE)

SimAttach ==
  /\ state = "listening" /\ peer = "sim" /\ emitted < Devices
  /\ toClient' = toClient \o DeviceEvent("Attached", emitted + 1) /\ emitted' = emitted + 1
  /\ UNCHANGED <<codec, decoding, call, mode, log, toMux, peer, state, refused, got>>

\* BadDevice, ConnRefused or a pipe to the service; handle returns after it.
SimConnect ==
  /\ Asked({"connect"}, "sim")
  /\ \E code \in {0, 2, 3} :
       Reply(Result(Head(toMux), code), IF code = 0 THEN "pipe" ELSE "closed", code # 0)

\* Any other command: BadCommand, and the connection is closed.
SimOther ==
  /\ Asked({"readpair", "save", "delete"}, "sim")
  /\ Reply(Result(Head(toMux), 1), "closed", TRUE)

AnswerKind == [list |-> "DeviceList", buid |-> "Buid", readpair |-> "PairRecord"]

\* usbmuxd answers in order, with a failure or with what was asked for, and
\* goes on serving.
UsbmuxdAnswer ==
  /\ Asked(Kinds \cup {"listen"}, "usbmuxd")
  /\ LET r == Head(toMux)
     IN \/ Reply(Result(r, 2), "serving", TRUE)
        \/ Reply(IF r.kind \in DOMAIN AnswerKind THEN Answer(r, AnswerKind[r.kind]) ELSE Result(r, 0),
                 CASE r.kind = "listen" -> "listening" [] r.kind = "connect" -> "pipe" [] OTHER -> "serving",
                 FALSE)

\* A device comes or goes, a message no client of this version knows, or the
\* service at the other end of a pipe speaks.
Emit ==
  /\ emitted < MaxEmit
  /\ \/ /\ state = "listening" /\ peer = "usbmuxd"
        /\ \/ \E k \in {"Attached", "Detached"} : toClient' = toClient \o DeviceEvent(k, emitted + 1)
                                                  /\ emitted' = emitted + 1
           \/ toClient' = toClient \o DeviceEvent("Paired", emitted) /\ emitted' = emitted
              /\ Len(toClient) < 2
     \/ state = "pipe" /\ toClient' = toClient \o Byte(emitted + 1) /\ emitted' = emitted + 1
  /\ UNCHANGED <<codec, decoding, call, mode, log, toMux, peer, state, refused, got>>

\* usbmuxd ends, or the device is unplugged.
Close ==
  /\ state # "closed" /\ state' = "closed"
  /\ UNCHANGED <<codec, decoding, call, mode, log, toMux, toClient, peer, refused, emitted, got>>

Client == Read \/ ProcessRx \/ TakeEvent \/ ListenerNext \/ ReadEof \/ PipeRead
Sim == SimListDevices \/ SimReadBuid \/ SimListen \/ SimAttach \/ SimConnect \/ SimOther
MuxNext == (\E k \in Kinds \cup {"listen"} : Start(k)) \/ Client \/ Sim \/ UsbmuxdAnswer \/ Emit \/ Close

\* The client's thread runs; the peer answers what it is asked.
MuxSpec == MuxInit /\ [][MuxNext]_muxVars /\ WF_muxVars(Client) /\ WF_muxVars(Sim) /\ WF_muxVars(UsbmuxdAnswer)

-----------------------------------------------------------------------------
\* Values of the right shape; tag 0 is left to the peer's own messages
\* (codec.rs 129-133), whatever the number of calls.
MuxTypeOK ==
  /\ codec.nextTag \in 1..TagMax /\ codec.pending \subseteq 1..TagMax
  /\ call.kind \in Kinds \cup {"none"} /\ call.tag \in 0..TagMax
  /\ decoding \in BOOLEAN
  /\ mode \in {"calls", "listener", "pipe", "dropped"}
  /\ state \in {"serving", "listening", "pipe", "closed"}
  /\ emitted \in 0..MaxEmit /\ got \in Seq(1..MaxEmit)

\* A call that returns has been told so by the answer to its own request,
\* although most calls never look at the tag (connection.rs 36-103): nothing
\* an earlier call left behind is taken for it.
AnswerIsOwn == \A i \in DOMAIN log : log[i].verdict # "closed" => log[i].of = log[i].id

\* Each of the events stands right behind the one before it, the first of them
\* behind number m: no device event is missing between them, none comes twice.
Successive(s, m) ==
  \A i \in DOMAIN s :
    s[i].n = (IF i = 1 THEN m ELSE s[i - 1].n) + (IF IsDeviceEvent(s[i]) THEN 1 ELSE 0)

\* Whatever the reads cut the stream into, a listener returns the device
\* events in order, each once, and what is in the codec comes next
\* (connection.rs 111-148); a pipe continues where the codec's buffer ends
\* (connection.rs 93-103).
NothingLostInside ==
  /\ mode = "listener" => /\ \A i \in DOMAIN got : got[i] = i
                          /\ Successive(codec.events, Len(got))
  /\ mode = "pipe" => /\ \A i \in DOMAIN codec.rx : codec.rx[i].unit = "raw" /\ codec.rx[i].n = i
                      /\ \A i \in DOMAIN got : got[i] = Len(codec.rx) + i

\* A call returns once usbmuxd has answered or is gone, with one exception:
\* read_buid and read_pair_record do not know a failure result
\* (connection.rs 50-70) and wait on, as long as the connection is open.
CallReturns == ~Idle ~> (Idle \/ (call.kind \in {"buid", "readpair"} /\ call.id \in refused))

\* The types, no request with the tag of unsolicited messages, and that a call
\* returns the answer to its own request.
CallsSafe == MuxTypeOK /\ AnswerIsOwn
=============================================================================
