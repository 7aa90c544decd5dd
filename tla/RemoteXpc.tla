----------------------------- MODULE RemoteXpc -----------------------------
(***************************************************************************)
(* RemoteXpcConn of src/remotexpc (conn.rs over the frames of h2.rs): XPC  *)
(* messages over two HTTP/2 streams of one connection, and its two users:  *)
(* RsdClient of src/rsd/mod.rs, which waits for the device's Handshake,    *)
(* and request, which waits for a reply.                                   *)
(*                                                                         *)
(* A message is sent in one or two DATA frames of equal size; receive puts *)
(* the payloads of all streams into one buffer and takes a message when    *)
(* the buffer is as long as its header says.  The device is external.      *)
(***************************************************************************)
EXTENDS Integers, Sequences, FiniteSets

CONSTANTS
  MaxRequests,   \* bound: requests on a connection
  MaxEvents,     \* bound: messages of the device nobody asked for
  MaxRsd         \* bound: the same where the connection is RSD's, the Handshake among them

ASSUME RxAssumption == MaxRequests \in Nat /\ MaxEvents \in Nat /\ MaxRsd \in Nat

CS == 1
SC == 3
Streams == {CS, SC}

VARIABLES
  rx,        \* the client: "new", "settings", "ready", "rsd", "request", "closed", "have"
  rxUse,     \* what the connection is for: "rsd" or "app"
  rxBuf,     \* recv_buf: parts of messages
  rxNext,    \* next_msg_id
  rxReq,     \* id of the request that waits
  rxIn,      \* frames to the client
  rxAcks,    \* acknowledgements the client has sent: of SETTINGS and of PING
  rxGot,     \* what request returned: the id asked and the message
  dv,        \* device: has sent SETTINGS, its ACK, PINGs; is up; has been asked; events sent
  dvQueue,   \* device: messages to send on each stream
  dvPart,    \* device: parts sent of the first of them
  mixed      \* history: a message was begun while one of the other stream was half sent

rxVars == <<rx, rxUse, rxBuf, rxNext, rxReq, rxIn, rxAcks, rxGot, dv, dvQueue, dvPart, mixed>>
rxDevVars == <<dv, dvQueue, dvPart, mixed>>

NoMsg == [id |-> 0, reply |-> FALSE, body |-> "none", parts |-> 1]

RxInit ==
  /\ rx = "new" /\ rxUse = "app" /\ rxBuf = <<>> /\ rxNext = 1 /\ rxReq = 0
  /\ rxIn = <<>> /\ rxAcks = [settings |-> 0, ping |-> 0] /\ rxGot = {}
  /\ dv = [settings |-> 0, ack |-> 0, ping |-> 0, up |-> TRUE, events |-> 0]
  /\ dvQueue = [s \in Streams |-> <<>>] /\ dvPart = [s \in Streams |-> 0] /\ mixed = FALSE

-----------------------------------------------------------------------------
(* The client.                                                             *)

\* handshake, first half: the preface, SETTINGS, the window, both streams and
\* the three init messages, in one flush.
RxOpen ==
  /\ rx = "new" /\ rx' = "settings" /\ \E u \in {"rsd", "app"} : rxUse' = u
  /\ UNCHANGED <<rxBuf, rxNext, rxReq, rxIn, rxAcks, rxGot, rxDevVars>>

Frame == Head(rxIn)
Reads == rxIn # <<>> /\ rxIn' = Tail(rxIn)
Acks(what) == rxAcks' = [rxAcks EXCEPT ![what] = @ + 1]

\* handshake, second half: frames are dropped until the device's SETTINGS,
\* which are acknowledged, or its acknowledgement of ours.
RxHandshake ==
  /\ rx = "settings" /\ Reads
  /\ \/ Frame.type = "settings" /\ Acks("settings") /\ rx' = "ready"
     \/ Frame.type = "ack" /\ rx' = "ready" /\ UNCHANGED rxAcks
     \/ Frame.type \notin {"settings", "ack"} /\ UNCHANGED <<rx, rxAcks>>
  /\ UNCHANGED <<rxUse, rxBuf, rxNext, rxReq, rxGot, rxDevVars>>

\* send, from request: the client's ids are odd.
RxSend ==
  /\ rx = "ready" /\ rxUse = "app" /\ rxNext < 2 * MaxRequests
  /\ rx' = "request" /\ rxReq' = rxNext /\ rxNext' = rxNext + 2
  /\ dvQueue' = IF ~dv.up THEN dvQueue
                ELSE [dvQueue EXCEPT ![CS] = Append(@, [NoMsg EXCEPT !.id = rxNext, !.reply = TRUE, !.body = "open"])]
  /\ UNCHANGED <<rxUse, rxBuf, rxIn, rxAcks, rxGot, dv, dvPart, mixed>>

\* from_conn begins to receive.
RsdWaits ==
  /\ rx = "ready" /\ rxUse = "rsd" /\ rx' = "rsd"
  /\ UNCHANGED <<rxUse, rxBuf, rxNext, rxReq, rxIn, rxAcks, rxGot, rxDevVars>>

Receiving == rx \in {"rsd", "request"}

\* The buffer holds a whole message.
Complete == rxBuf # <<>> /\ Len(rxBuf) >= Head(rxBuf).msg.parts

\* A fault: SETTINGS are acknowledged without a look at the flag.
RxFrameAcksAck ==
  /\ Receiving /\ ~Complete /\ Reads
  /\ \/ Frame.type = "data" /\ rxBuf' = Append(rxBuf, Frame.part) /\ UNCHANGED <<rx, rxAcks>>
     \/ Frame.type \in {"settings", "ack"} /\ Acks("settings") /\ UNCHANGED <<rx, rxBuf>>
     \/ Frame.type = "ping" /\ Acks("ping") /\ UNCHANGED <<rx, rxBuf>>
     \/ Frame.type = "goaway" /\ rx' = "closed" /\ UNCHANGED <<rxBuf, rxAcks>>
  /\ UNCHANGED <<rxUse, rxNext, rxReq, rxGot, rxDevVars>>

\* receive, when the buffer holds no whole message: the next frame.
RxFrame ==
  /\ Receiving /\ ~Complete /\ Reads
  /\ \/ Frame.type = "data" /\ rxBuf' = Append(rxBuf, Frame.part) /\ UNCHANGED <<rx, rxAcks>>
     \/ Frame.type = "settings" /\ Acks("settings") /\ UNCHANGED <<rx, rxBuf>>
     \/ Frame.type = "ping" /\ Acks("ping") /\ UNCHANGED <<rx, rxBuf>>
     \/ Frame.type = "goaway" /\ rx' = "closed" /\ UNCHANGED <<rxBuf, rxAcks>>
     \/ Frame.type = "ack" /\ UNCHANGED <<rx, rxBuf, rxAcks>>
  /\ UNCHANGED <<rxUse, rxNext, rxReq, rxGot, rxDevVars>>

\* The first message of the buffer, if its bytes are those of one message.
Taken == SubSeq(rxBuf, 1, Head(rxBuf).msg.parts)
Whole == \A i \in DOMAIN Taken : Taken[i] = [msg |-> Head(rxBuf).msg, part |-> i]
Received == Head(rxBuf).msg

\* A fault: one frame's payload is drained, not the message.
DrainedFrame == rxBuf' = Tail(rxBuf)

Drained == rxBuf' = SubSeq(rxBuf, Received.parts + 1, Len(rxBuf))

\* decode_message fails: the buffer keeps the bytes.
RxBadMessage ==
  /\ Receiving /\ Complete /\ ~Whole /\ rx' = "closed"
  /\ UNCHANGED <<rxUse, rxBuf, rxNext, rxReq, rxIn, rxAcks, rxGot, rxDevVars>>

\* A fault: the first message with a body is the reply.
MatchesAny(msg) == msg.body # "none"

\* request: its own id, or any reply.
Matches(msg) == msg.id = rxReq \/ msg.reply

RxReply ==
  /\ rx = "request" /\ Complete /\ Whole /\ Drained
  /\ \/ Matches(Received) /\ Received.body # "none" /\ rx' = "ready"
        /\ rxGot' = rxGot \cup {[req |-> rxReq, msg |-> Received]}
     \/ Matches(Received) /\ Received.body = "none" /\ rx' = "closed" /\ UNCHANGED rxGot
     \/ ~Matches(Received) /\ UNCHANGED <<rx, rxGot>>
  /\ UNCHANGED <<rxUse, rxNext, rxReq, rxIn, rxAcks, rxDevVars>>

\* A fault: the first message with a body must be the Handshake.
RsdHandshakeFirst ==
  /\ rx = "rsd" /\ Complete /\ Whole /\ Drained
  /\ \/ Received.body = "handshake" /\ rx' = "have"
     \/ Received.body = "none" /\ UNCHANGED rx
     \/ Received.body \notin {"handshake", "none"} /\ rx' = "closed"
  /\ UNCHANGED <<rxUse, rxNext, rxReq, rxIn, rxAcks, rxGot, rxDevVars>>

\* from_conn: messages without a body, or without Properties, are skipped.
RsdHandshake ==
  /\ rx = "rsd" /\ Complete /\ Whole /\ Drained
  /\ \/ Received.body = "handshake" /\ rx' = "have"
     \/ Received.body # "handshake" /\ UNCHANGED rx
  /\ UNCHANGED <<rxUse, rxNext, rxReq, rxIn, rxAcks, rxGot, rxDevVars>>

\* read_exact: the connection is closed.
RxEof ==
  /\ rx \in {"settings", "rsd", "request"} /\ ~dv.up /\ rxIn = <<>> /\ (Receiving => ~Complete)
  /\ rx' = "closed"
  /\ UNCHANGED <<rxUse, rxBuf, rxNext, rxReq, rxIn, rxAcks, rxGot, rxDevVars>>

RxClient ==
  \/ RxOpen \/ RxHandshake \/ RsdWaits \/ RxFrame \/ RxBadMessage \/ RxReply \/ RsdHandshake \/ RxEof

-----------------------------------------------------------------------------
(* The device.                                                             *)

DvSends(type) == rxIn' = Append(rxIn, [type |-> type, part |-> [msg |-> NoMsg, part |-> 1]])
clientUnch == <<rx, rxUse, rxBuf, rxNext, rxReq, rxAcks, rxGot>>
Begun == dv.settings + dv.ack > 0

\* SETTINGS and the acknowledgement of the client's, in either order, and the
\* init messages of both streams; then what the connection is for.
DvSettings ==
  /\ dv.up /\ rx # "new" /\ dv.settings = 0 /\ DvSends("settings") /\ dv' = [dv EXCEPT !.settings = 1]
  /\ dvQueue' = [s \in Streams |-> <<NoMsg>> \o dvQueue[s]]
  /\ UNCHANGED <<dvPart, mixed, clientUnch>>
DvAck ==
  /\ dv.up /\ rx # "new" /\ dv.ack = 0 /\ DvSends("ack") /\ dv' = [dv EXCEPT !.ack = 1]
  /\ UNCHANGED <<dvQueue, dvPart, mixed, clientUnch>>
DvPing ==
  /\ dv.up /\ Begun /\ dv.ping = 0 /\ DvSends("ping") /\ dv' = [dv EXCEPT !.ping = 1]
  /\ UNCHANGED <<dvQueue, dvPart, mixed, clientUnch>>

\* The Handshake of RSD, or an event; the device's ids are even.
DvSpeaks ==
  /\ dv.up /\ dv.settings = 1 /\ dv.events < (IF rxUse = "rsd" THEN MaxRsd ELSE MaxEvents) /\ dv' = [dv EXCEPT !.events = @ + 1]
  /\ \E n \in 1..2, body \in {"event", "handshake"} :
       /\ body = "handshake" => rxUse = "rsd"
       /\ dvQueue' = [dvQueue EXCEPT ![SC] = Append(@, [id |-> 2 * dv.events + 2, reply |-> FALSE, body |-> body, parts |-> n])]
  /\ UNCHANGED <<rxIn, dvPart, mixed, clientUnch>>

\* The next DATA frame of a stream.  How a reply looks is decided when it is
\* begun.
DvData(s) ==
  /\ dv.up /\ dv.settings = 1 /\ dvQueue[s] # <<>>
  /\ \E n \in 1..2, body \in {"none", "value"} :
       LET first == Head(dvQueue[s])
           msg == IF first.body = "open" THEN [first EXCEPT !.body = body, !.parts = n] ELSE first
           k == dvPart[s] + 1
       IN /\ rxIn' = Append(rxIn, [type |-> "data", part |-> [msg |-> msg, part |-> k]])
          /\ dvPart' = [dvPart EXCEPT ![s] = IF k = msg.parts THEN 0 ELSE k]
          /\ dvQueue' = [dvQueue EXCEPT ![s] = IF k = msg.parts THEN Tail(@) ELSE <<msg>> \o Tail(@)]
  /\ mixed' = (mixed \/ \E t \in Streams \ {s} : dvPart[t] > 0)
  /\ UNCHANGED <<dv, clientUnch>>

DvGoesAway ==
  /\ dv.up /\ Begun /\ DvSends("goaway") /\ dv' = [dv EXCEPT !.up = FALSE]
  /\ UNCHANGED <<dvQueue, dvPart, mixed, clientUnch>>
DvCloses ==
  /\ dv.up /\ rx # "new" /\ dv' = [dv EXCEPT !.up = FALSE]
  /\ UNCHANGED <<rxIn, dvQueue, dvPart, mixed, clientUnch>>

RxNext ==
  \/ RxClient \/ RxSend
  \/ DvSettings \/ DvAck \/ DvPing \/ DvSpeaks \/ (\E s \in Streams : DvData(s)) \/ DvGoesAway \/ DvCloses

\* The client reads, the device sends what it has begun.
RxSpec ==
  /\ RxInit /\ [][RxNext]_rxVars
  /\ WF_rxVars(RxClient) /\ \A s \in Streams : WF_rxVars(DvData(s))

-----------------------------------------------------------------------------
\* request returns the reply to its own message, be there events or init
\* messages on the connection before it, of either stream, in one frame or
\* two, as long as the device does not mix the frames of two messages.
ReplyIsOwn == ~mixed => \A g \in rxGot : g.msg.reply /\ g.msg.id = g.req

\* No message is torn or made up, as long as the device does not mix the
\* frames of two messages: receive ignores the stream of a frame
\* (conn.rs 80-82).
NoTornMessage == ~mixed => (Receiving /\ Complete => Whole)

\* Every SETTINGS and PING the client has read is acknowledged once, in the
\* handshake or later, and an acknowledgement never.
AcksPaired ==
  /\ rxAcks.settings <= dv.settings /\ rxAcks.ping <= dv.ping
  /\ (Receiving /\ rxIn = <<>>) => rxAcks = [settings |-> dv.settings, ping |-> dv.ping]

\* Once the device has sent, or is about to send, its Handshake, RsdClient has
\* the catalogue: init messages without a body and events that are no Handshake
\* come before it or after it, and are skipped (rsd/mod.rs 88-95) - unless the
\* connection breaks or the device mixes the frames of two messages.
HandshakeOnItsWay ==
  /\ rx = "rsd"
  /\ \/ \E i \in DOMAIN dvQueue[SC] : dvQueue[SC][i].body = "handshake"
     \/ \E i \in DOMAIN rxIn : rxIn[i].part.msg.body = "handshake"
     \/ \E i \in DOMAIN rxBuf : rxBuf[i].msg.body = "handshake"
RsdKnows == HandshakeOnItsWay ~> (rx = "have" \/ ~dv.up \/ mixed)

\* What holds of a connection at every moment: a request returns its own reply,
\* messages are whole, and each SETTINGS and PING is acknowledged once.
MessagesSafe == ReplyIsOwn /\ NoTornMessage /\ AcksPaired
=============================================================================
