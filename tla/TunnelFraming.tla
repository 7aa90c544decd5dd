--------------------------- MODULE TunnelFraming ---------------------------
(***************************************************************************)
(* The tunnel's byte stream: do_handshake of src/tunnel/cdtunnel.rs, whose *)
(* answer is a frame, and after it recv_ipv6, called again and again by    *)
(* the reader thread of a plain tunnel, which ends with the first error,   *)
(* or by unified_loop, which goes on after a read timeout.                 *)
(*                                                                         *)
(* The stream is a sequence of units.  The first unit of a packet stands   *)
(* for its 40-byte header, the others for its payload; packet 0 is the     *)
(* answer of the handshake, its header magic and length.  Read as a        *)
(* header, the first unit gives the payload's length; a unit of payload    *)
(* read as a header gives any length at all.                               *)
(***************************************************************************)
EXTENDS Integers, Sequences

CONSTANTS
  Payloads,        \* payload length of each packet the device sends: a sequence
  AnswerLen,       \* length of the answer of the handshake
  MaxPayload,      \* bound: payload length a garbled header may announce
  RetryOnTimeout   \* unified_loop (TRUE) or the plain reader thread (FALSE)

ASSUME FramingAssumption ==
  /\ MaxPayload \in Nat /\ Payloads \in Seq(0..MaxPayload) /\ AnswerLen \in 0..MaxPayload
  /\ RetryOnTimeout \in BOOLEAN

VARIABLES
  stage,    \* "new", "handshake" (request sent), "packets" (parameters known)
  answer,   \* device: the answer has the right magic, and reads as parameters
  upNext,   \* the unit the device sends next
  stream,   \* units that have arrived
  part,     \* units the running recv_ipv6 has read
  need,     \* units it wants in all: 1 until the header is read
  packets,  \* packets recv_ipv6 has returned
  closed,   \* the device has closed the stream
  ended     \* the caller has stopped reading

framingVars == <<stage, answer, closed, upNext, stream, part, need, packets, ended>>

Unit == [packet: {0} \cup DOMAIN Payloads, pos: 0..MaxPayload]
UnitOrEnd == Unit \cup {[packet |-> Len(Payloads) + 1, pos |-> 0]}
LengthOf(p) == IF p = 0 THEN AnswerLen ELSE Payloads[p]
PacketUnits(p) == [i \in 1..(LengthOf(p) + 1) |-> [packet |-> p, pos |-> i - 1]]

\* The unit behind a unit: the packets follow each other without a gap.
After(u) ==
  IF u.pos < LengthOf(u.packet) THEN [packet |-> u.packet, pos |-> u.pos + 1]
  ELSE [packet |-> u.packet + 1, pos |-> 0]

\* Values of the right shape; never more units read than the packet has.
FramingTypeOK ==
  /\ upNext \in UnitOrEnd /\ stream \in Seq(Unit) /\ part \in Seq(Unit)
  /\ need \in 1..(MaxPayload + 1) /\ Len(part) <= need
  /\ packets \in Seq(Seq(Unit)) /\ ended \in BOOLEAN /\ closed \in BOOLEAN
  /\ stage \in {"new", "handshake", "packets"} /\ answer \in [magic: BOOLEAN, params: BOOLEAN]

FramingInit ==
  /\ stage = "new" /\ answer \in [magic: BOOLEAN, params: BOOLEAN] /\ closed = FALSE
  /\ upNext = [packet |-> 0, pos |-> 0]
  /\ stream = <<>> /\ part = <<>> /\ need = 1 /\ packets = <<>> /\ ended = FALSE

connVars == <<stage, answer>>
devSideVars == <<closed, upNext>>

\* send_frame: the request of the handshake.
SendHandshake ==
  /\ stage = "new" /\ ~ended /\ stage' = "handshake"
  /\ UNCHANGED <<answer, devSideVars, stream, part, need, packets, ended>>

\* The device answers the handshake and goes on with packets; its bytes arrive
\* in pieces of any size.
Arrive ==
  /\ stage # "new" /\ upNext \in Unit /\ ~closed
  /\ stream' = Append(stream, upNext) /\ upNext' = After(upNext)
  /\ UNCHANGED <<connVars, closed, part, need, packets, ended>>

DeviceCloses ==
  /\ ~closed /\ closed' = TRUE
  /\ UNCHANGED <<connVars, upNext, stream, part, need, packets, ended>>

\* The payload length a unit announces when it is taken for a header.
Announced(u) == IF u.pos = 0 THEN {LengthOf(u.packet)} ELSE 0..MaxPayload

\* A fault: the payload is read into a buffer of the payload's length only,
\* so that the last unit is left in the stream.
ReadHeaderShort ==
  /\ ~ended /\ stage # "new" /\ part = <<>> /\ stream # <<>>
  /\ \E n \in Announced(Head(stream)) : need' = IF n = 0 THEN 1 ELSE n
  /\ part' = <<Head(stream)>> /\ stream' = Tail(stream)
  /\ UNCHANGED <<connVars, devSideVars, packets, ended>>

\* The first read_exact has got the header: of recv_ipv6, or of recv_frame,
\* which fails if the magic is wrong.
ReadHeader ==
  /\ ~ended /\ stage # "new" /\ part = <<>> /\ stream # <<>>
  /\ \E n \in Announced(Head(stream)) : need' = n + 1
  /\ part' = <<Head(stream)>> /\ stream' = Tail(stream)
  /\ ended' = (stage = "handshake" /\ ~answer.magic)
  /\ UNCHANGED <<connVars, devSideVars, packets>>

\* A fault: one read past the end of the packet.
ReadPayloadPast ==
  /\ ~ended /\ part # <<>> /\ Len(part) <= need /\ stream # <<>>
  /\ part' = Append(part, Head(stream)) /\ stream' = Tail(stream)
  /\ UNCHANGED <<connVars, devSideVars, need, packets, ended>>

\* The second read_exact reads on, up to the length announced.
ReadPayload ==
  /\ ~ended /\ part # <<>> /\ Len(part) < need /\ stream # <<>>
  /\ part' = Append(part, Head(stream)) /\ stream' = Tail(stream)
  /\ UNCHANGED <<connVars, devSideVars, need, packets, ended>>

Whole == ~ended /\ part # <<>> /\ Len(part) = need

\* do_handshake takes the answer apart: addresses that are none end it.
HandshakeDone ==
  /\ stage = "handshake" /\ Whole
  /\ ended' = ~answer.params /\ stage' = IF answer.params THEN "packets" ELSE stage
  /\ part' = <<>> /\ need' = 1
  /\ UNCHANGED <<answer, devSideVars, stream, packets>>

\* recv_ipv6 returns the packet.
ReturnPacket ==
  /\ stage = "packets" /\ Whole
  /\ packets' = Append(packets, part)
  /\ part' = <<>> /\ need' = 1
  /\ UNCHANGED <<connVars, devSideVars, stream, ended>>

Waits == ~ended /\ stage # "new" /\ stream = <<>> /\ (part = <<>> \/ Len(part) < need)

\* The read timeout fires while more is waited for: what was read is dropped
\* with its buffer.  The handshake fails and the plain reader thread ends;
\* unified_loop takes the error for "nothing there yet".
ReadTimeout ==
  /\ Waits
  /\ part' = <<>> /\ need' = 1
  /\ ended' = (stage = "handshake" \/ ~RetryOnTimeout)
  /\ UNCHANGED <<connVars, devSideVars, stream, packets>>

\* The end of the stream ends handshake, thread and loop alike.
ReadEof ==
  /\ Waits /\ closed
  /\ part' = <<>> /\ need' = 1 /\ ended' = TRUE
  /\ UNCHANGED <<connVars, devSideVars, stream, packets>>

FramingNext ==
  \/ SendHandshake \/ Arrive \/ DeviceCloses \/ ReadHeader \/ ReadPayload
  \/ HandshakeDone \/ ReturnPacket \/ ReadTimeout \/ ReadEof

FramingSpec == FramingInit /\ [][FramingNext]_framingVars

\* After the handshake, which takes its answer and nothing behind it, the
\* reader is handed the device's packets, whole, in order, none missing, as
\* far as it has read (cdtunnel.rs lines 99-172, smoltcp_stack.rs 47-49 and
\* 213-220).
PacketsIntact == \A i \in DOMAIN packets : i \in DOMAIN Payloads /\ packets[i] = PacketUnits(i)

\* The types, no unit read past a packet's end, and the packets intact.
FramingSafe == FramingTypeOK /\ PacketsIntact
=============================================================================
