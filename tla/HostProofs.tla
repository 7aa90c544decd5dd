---------------------------- MODULE HostProofs ----------------------------
(***************************************************************************)
(* Proofs about Usbmux, for any number of calls, tags, device events and   *)
(* bytes and however reads cut the stream, and about Lockdown, for any     *)
(* number of processes that pair, unpair and hold sessions, and any number *)
(* of requests.                                                            *)
(***************************************************************************)
EXTENDS Usbmux, Lockdown, TLAPS

-----------------------------------------------------------------------------
(* Usbmux: what is on its way, phase by phase of the connection.           *)

EventKinds == {"Result", "DeviceList", "Buid", "PairRecord", "Attached", "Detached", "Paired",
               "byte", "Connected", "RequestOk", "RequestFailed"}

Units == [unit : {"head", "body", "raw"}, kind : EventKinds, tag : 0..TagMax, code : 0..3,
          id : Nat, n : 0..MaxEmit]
MuxRequests == [kind : Kinds \cup {"listen", "none"}, tag : 0..TagMax, id : Nat]
Codecs == [rx : Seq(Units), events : Seq(Units), nextTag : 1..TagMax, pending : SUBSET (1..TagMax)]
Outcomes == [kind : Kinds \cup {"none"}, id : Nat, verdict : {"ok", "err", "closed"}, of : Nat]

MuxTypes ==
  /\ codec \in Codecs /\ decoding \in BOOLEAN
  /\ call \in MuxRequests /\ call.kind # "listen"
  /\ mode \in {"calls", "listener", "pipe", "dropped"} /\ log \in Seq(Outcomes)
  /\ toMux \in Seq(MuxRequests) /\ toClient \in Seq(Units)
  /\ peer \in {"sim", "usbmuxd"} /\ state \in {"serving", "listening", "pipe", "closed"}
  /\ emitted \in 0..MaxEmit /\ got \in Seq(1..MaxEmit)

\* What has been sent to the client and not been decoded.
line == codec.rx \o toClient

\* What is left when a frame has been taken from the front.
Rest(s) == SubSeq(s, 3, Len(s))

\* Service bytes and nothing else, numbered from m + 1.
Bytes(s, m) == \A i \in 1..Len(s) : s[i].unit = "raw" /\ s[i].n = m + i

\* Whole frames.
Framed(s) ==
  /\ s # <<>> => s[1].unit = "head" /\ s[Len(s)].unit = "body"
  /\ \A i \in 1..Len(s) - 1 : /\ s[i].unit = "head" => s[i + 1].unit = "body"
                              /\ s[i].unit = "body" => s[i + 1].unit = "head"
  /\ \A i \in 1..Len(s) : s[i].unit # "raw"

\* A device event is counted at the first unit of its frame.
Step(u) == IF u.unit = "head" /\ IsDeviceEvent(u) THEN 1 ELSE 0

\* The units of s continue the numbers from m and lead to k.
Leads(s, m, k) ==
  /\ \A i \in 1..Len(s) : s[i].n = (IF i = 1 THEN m ELSE s[i - 1].n) + Step(s[i])
  /\ k = IF s = <<>> THEN m ELSE s[Len(s)].n

\* Between two calls nothing is on its way.
Resting ==
  /\ codec.events = <<>> /\ codec.rx = <<>> /\ toClient = <<>> /\ ~decoding
  /\ emitted = 0 /\ got = <<>>
  /\ state = "closed" \/ (state = "serving" /\ toMux = <<>>)

\* A call has sent its request ...
Sent == state = "serving" /\ toMux = <<call>> /\ codec.events = <<>> /\ line = <<>> /\ emitted = 0

\* ... its answer is on the way ...
Answered ==
  /\ codec.events = <<>> /\ Len(line) = emitted + 2
  /\ line[1].unit = "head" /\ line[2].unit = "body" /\ line[1].id = call.id
  /\ Bytes(Rest(line), 0)

\* ... or decoded; the event is taken and may have been skipped.
Settled ==
  /\ Len(codec.events) \in {0, 1} /\ (codec.events # <<>> => codec.events[1].id = call.id)
  /\ Bytes(line, 0) /\ Len(line) = emitted

AwaitsAnswer ==
  /\ mode = "calls" /\ got = <<>> /\ call.kind # "none"
  /\ Sent \/ ((state = "serving" => toMux = <<>>) /\ (Answered \/ Settled))
  /\ state # "listening" /\ ((state = "pipe" \/ emitted > 0) => call.kind = "connect")

Listens ==
  /\ state = "serving" /\ toMux # <<>> =>
       /\ Len(toMux) = 1 /\ toMux[1].kind = "listen"
       /\ codec.events = <<>> /\ line = <<>> /\ emitted = 0 /\ got = <<>>
  /\ state # "pipe"
  /\ \A i \in 1..Len(codec.events) : codec.events[i].unit = "head"
  /\ Framed(line) /\ Leads(codec.events \o line, Len(got), emitted)
  /\ \A i \in 1..Len(got) : got[i] = i

Pipes ==
  /\ state # "listening" /\ (state = "serving" => toMux = <<>>)
  /\ Bytes(codec.rx, 0) /\ Bytes(toClient, Len(codec.rx) + Len(got))
  /\ emitted = Len(codec.rx) + Len(got) + Len(toClient)
  /\ \A i \in 1..Len(got) : got[i] = Len(codec.rx) + i

MuxInv ==
  /\ MuxTypes /\ AnswerIsOwn
  /\ ~decoding => ~Complete(codec.rx)
  /\ mode = "calls" /\ Idle => Resting
  /\ ~Idle => AwaitsAnswer
  /\ mode = "listener" => Listens
  /\ mode = "pipe" => Pipes

-----------------------------------------------------------------------------
(* Sequences of units.                                                     *)

LEMMA ConcatUnits ==
  ASSUME NEW S, NEW a \in Seq(S), NEW b \in Seq(S)
  PROVE  /\ a \o b \in Seq(S) /\ Len(a) \in Nat /\ Len(b) \in Nat
         /\ Len(a \o b) = Len(a) + Len(b)
         /\ \A i \in 1..(Len(a) + Len(b)) : (a \o b)[i] = IF i <= Len(a) THEN a[i] ELSE b[i - Len(a)]
  OBVIOUS

LEMMA EqualUnits ==
  ASSUME NEW S, NEW s \in Seq(S), NEW t \in Seq(S),
         Len(s) = Len(t), \A i \in 1..Len(s) : s[i] = t[i]
  PROVE  s = t
  OBVIOUS

LEMMA NoUnits ==
  ASSUME NEW S
  PROVE  /\ <<>> \in Seq(S) /\ Len(<<>>) = 0
         /\ \A s \in Seq(S) : Len(s) \in Nat /\ (s = <<>> <=> Len(s) = 0)
  OBVIOUS

LEMMA CutUnits ==
  ASSUME NEW S, NEW s \in Seq(S), NEW k \in 0..Len(s)
  PROVE  /\ SubSeq(s, 1, k) \in Seq(S) /\ Len(SubSeq(s, 1, k)) = k
         /\ \A i \in 1..k : SubSeq(s, 1, k)[i] = s[i]
         /\ SubSeq(s, k + 1, Len(s)) \in Seq(S) /\ Len(SubSeq(s, k + 1, Len(s))) = Len(s) - k
         /\ \A i \in 1..(Len(s) - k) : SubSeq(s, k + 1, Len(s))[i] = s[i + k]
  OBVIOUS

LEMMA TailUnits ==
  ASSUME NEW S, NEW s \in Seq(S), s # <<>>
  PROVE  /\ Tail(s) \in Seq(S) /\ Len(Tail(s)) = Len(s) - 1 /\ Len(s) \in Nat \ {0}
         /\ Head(s) = s[1] /\ s[1] \in S
         /\ \A i \in 1..(Len(s) - 1) : Tail(s)[i] = s[i + 1]
  OBVIOUS

LEMMA AppendUnits ==
  ASSUME NEW S, NEW s \in Seq(S), NEW u \in S
  PROVE  /\ Append(s, u) \in Seq(S) /\ Len(Append(s, u)) = Len(s) + 1 /\ Len(s) \in Nat
         /\ \A i \in 1..(Len(s) + 1) : Append(s, u)[i] = IF i <= Len(s) THEN s[i] ELSE u
  OBVIOUS

LEMMA PairUnits ==
  ASSUME NEW S, NEW h \in S, NEW b \in S
  PROVE  /\ <<h, b>> \in Seq(S) /\ Len(<<h, b>>) = 2 /\ <<h, b>>[1] = h /\ <<h, b>>[2] = b
         /\ <<h>> \in Seq(S) /\ Len(<<h>>) = 1 /\ <<h>>[1] = h
  OBVIOUS

LEMMA ConcatOrder ==
  ASSUME NEW S, NEW a \in Seq(S), NEW b \in Seq(S), NEW c \in Seq(S)
  PROVE  (a \o b) \o c = a \o (b \o c)
  OBVIOUS

\* A read moves units from the connection into the buffer.
LEMMA ReadMoves ==
  ASSUME NEW S, NEW r \in Seq(S), NEW t \in Seq(S), NEW k \in 0..Len(t)
  PROVE  (r \o SubSeq(t, 1, k)) \o SubSeq(t, k + 1, Len(t)) = r \o t
  <1> DEFINE a == SubSeq(t, 1, k)
             b == SubSeq(t, k + 1, Len(t))
  <1>1. a \in Seq(S) /\ b \in Seq(S) /\ Len(a) = k /\ Len(b) = Len(t) - k
        /\ (\A i \in 1..k : a[i] = t[i]) /\ (\A i \in 1..(Len(t) - k) : b[i] = t[i + k])
    BY CutUnits
  <1> HIDE DEF a, b
  <1>2. a \o b \in Seq(S) /\ Len(a \o b) = Len(t) /\ Len(t) \in Nat
    BY <1>1, ConcatUnits, SMT
  <1>3. \A i \in 1..Len(a \o b) : (a \o b)[i] = t[i]
    <2> SUFFICES ASSUME NEW i \in 1..Len(t) PROVE (a \o b)[i] = t[i]
      BY <1>2
    <2>1. (a \o b)[i] = IF i <= k THEN a[i] ELSE b[i - k]
      BY <1>1, <1>2, ConcatUnits
    <2>2. CASE i <= k
      BY <2>1, <2>2, <1>1
    <2>3. CASE ~(i <= k)
      <3>1. i - k \in 1..(Len(t) - k) /\ (i - k) + k = i
        BY <2>3, <1>2
      <3> QED BY <2>1, <2>3, <3>1, <1>1
    <2> QED BY <2>2, <2>3
  <1>4. a \o b = t
    BY <1>2, <1>3, EqualUnits
  <1>5. (r \o a) \o b = r \o (a \o b)
    BY <1>1, ConcatOrder, SMTT(30)
  <1> QED BY <1>4, <1>5 DEF a, b

LEMMA RestUnits ==
  ASSUME NEW S, NEW s \in Seq(S), Len(s) >= 2
  PROVE  /\ Rest(s) \in Seq(S) /\ Len(Rest(s)) = Len(s) - 2 /\ Len(s) \in Nat
         /\ \A i \in 1..(Len(s) - 2) : Rest(s)[i] = s[i + 2]
         /\ s[1] \in S /\ s[2] \in S
  <1>1. Len(s) \in Nat /\ 2 \in 0..Len(s) /\ s[1] \in S /\ s[2] \in S
    OBVIOUS
  <1>2. \A m \in 1..(Len(s) + 1) :
          /\ SubSeq(s, m, Len(s)) \in Seq(S) /\ Len(SubSeq(s, m, Len(s))) = Len(s) - m + 1
          /\ \A i \in 1..(Len(s) - m + 1) : SubSeq(s, m, Len(s))[i] = s[i + m - 1]
    OBVIOUS
  <1>3. 3 \in 1..(Len(s) + 1)
    BY <1>1
  <1>4. /\ Rest(s) \in Seq(S) /\ Len(Rest(s)) = Len(s) - 3 + 1
        /\ \A i \in 1..(Len(s) - 3 + 1) : Rest(s)[i] = s[i + 3 - 1]
    BY <1>2, <1>3, Zenon DEF Rest
  <1> QED BY <1>1, <1>4

LEMMA RestOfLine ==
  ASSUME NEW S, NEW r \in Seq(S), NEW t \in Seq(S), Len(r) >= 2
  PROVE  /\ Rest(r) \o t = Rest(r \o t) /\ Len(r \o t) >= 2
         /\ (r \o t)[1] = r[1] /\ (r \o t)[2] = r[2]
  <1>1. r \o t \in Seq(S) /\ Len(r \o t) = Len(r) + Len(t) /\ Len(r) \in Nat /\ Len(t) \in Nat
        /\ \A i \in 1..(Len(r) + Len(t)) : (r \o t)[i] = IF i <= Len(r) THEN r[i] ELSE t[i - Len(r)]
    BY ConcatUnits
  <1>2. Len(r \o t) >= 2 /\ (r \o t)[1] = r[1] /\ (r \o t)[2] = r[2]
    BY <1>1
  <1>3. Rest(r) \in Seq(S) /\ Len(Rest(r)) = Len(r) - 2 /\ \A i \in 1..(Len(r) - 2) : Rest(r)[i] = r[i + 2]
    BY RestUnits
  <1>4. Rest(r \o t) \in Seq(S) /\ Len(Rest(r \o t)) = Len(r) + Len(t) - 2
        /\ \A i \in 1..(Len(r) + Len(t) - 2) : Rest(r \o t)[i] = (r \o t)[i + 2]
    <2> DEFINE p == r \o t
    <2>1. p \in Seq(S) /\ Len(p) >= 2 /\ Len(p) = Len(r) + Len(t)
      BY <1>1, <1>2
    <2> HIDE DEF p
    <2>2. Rest(p) \in Seq(S) /\ Len(Rest(p)) = Len(p) - 2 /\ \A i \in 1..(Len(p) - 2) : Rest(p)[i] = p[i + 2]
      BY <2>1, RestUnits
    <2>3. Len(Rest(p)) = Len(r) + Len(t) - 2 /\ \A i \in 1..(Len(r) + Len(t) - 2) : Rest(p)[i] = p[i + 2]
      BY <2>1, <2>2
    <2> QED BY <2>2, <2>3 DEF p
  <1>5. Rest(r) \o t \in Seq(S) /\ Len(Rest(r) \o t) = Len(r) - 2 + Len(t)
        /\ \A i \in 1..(Len(r) - 2 + Len(t)) :
             (Rest(r) \o t)[i] = IF i <= Len(r) - 2 THEN Rest(r)[i] ELSE t[i - (Len(r) - 2)]
    <2> DEFINE q == Rest(r)
    <2>1. q \in Seq(S) /\ Len(q) = Len(r) - 2
      BY <1>3
    <2> HIDE DEF q
    <2>2. q \o t \in Seq(S) /\ Len(q \o t) = Len(q) + Len(t)
          /\ \A i \in 1..(Len(q) + Len(t)) : (q \o t)[i] = IF i <= Len(q) THEN q[i] ELSE t[i - Len(q)]
      BY <2>1, ConcatUnits
    <2> QED BY <2>1, <2>2 DEF q
  <1>6. \A i \in 1..Len(Rest(r) \o t) : (Rest(r) \o t)[i] = Rest(r \o t)[i]
    <2> SUFFICES ASSUME NEW i \in 1..(Len(r) + Len(t) - 2) PROVE (Rest(r) \o t)[i] = Rest(r \o t)[i]
      BY <1>1, <1>5
    <2>1. Rest(r \o t)[i] = IF i + 2 <= Len(r) THEN r[i + 2] ELSE t[(i + 2) - Len(r)]
      BY <1>1, <1>4
    <2>2. (Rest(r) \o t)[i] = IF i <= Len(r) - 2 THEN r[i + 2] ELSE t[i - (Len(r) - 2)]
      BY <1>1, <1>3, <1>5
    <2>3. (i + 2) - Len(r) = i - (Len(r) - 2) /\ (i + 2 <= Len(r) <=> i <= Len(r) - 2)
      BY <1>1
    <2> QED BY <2>1, <2>2, <2>3
  <1>7. Len(Rest(r) \o t) = Len(Rest(r \o t))
    BY <1>1, <1>4, <1>5
  <1> QED BY <1>2, <1>4, <1>5, <1>6, <1>7, EqualUnits

-----------------------------------------------------------------------------
(* Bytes, frames and numbers along the line.                               *)

LEMMA UnitFields ==
  ASSUME NEW u \in Units
  PROVE  /\ u.n \in 0..MaxEmit /\ u.id \in Nat /\ u.tag \in 0..TagMax /\ u.kind \in EventKinds
         /\ u.unit \in {"head", "body", "raw"}
         /\ Step(u) \in {0, 1}
  BY DEF Units, Step

LEMMA UnitAt ==
  ASSUME NEW s \in Seq(Units), NEW i \in 1..Len(s)
  PROVE  s[i] \in Units
  OBVIOUS

LEMMA BytesAppend ==
  ASSUME NEW s \in Seq(Units), NEW m \in Nat, Bytes(s, m), NEW u \in Units,
         u.unit = "raw", u.n = m + Len(s) + 1
  PROVE  Bytes(s \o <<u>>, m)
  <1> DEFINE p == <<u>>
             q == s \o p
  <1>1. p \in Seq(Units) /\ Len(p) = 1 /\ p[1] = u
    BY PairUnits
  <1> HIDE DEF p
  <1>2. Len(q) = Len(s) + 1 /\ Len(s) \in Nat
        /\ \A i \in 1..(Len(s) + 1) : q[i] = IF i <= Len(s) THEN s[i] ELSE p[i - Len(s)]
    <2>1. q \in Seq(Units) /\ Len(q) = Len(s) + Len(p) /\ Len(s) \in Nat
          /\ \A i \in 1..(Len(s) + Len(p)) : q[i] = IF i <= Len(s) THEN s[i] ELSE p[i - Len(s)]
      BY <1>1, ConcatUnits
    <2> HIDE DEF q
    <2> QED BY <1>1, <2>1
  <1> HIDE DEF q
  <1>3. \A i \in 1..Len(q) : q[i].unit = "raw" /\ q[i].n = m + i
    <2> SUFFICES ASSUME NEW i \in 1..(Len(s) + 1) PROVE q[i].unit = "raw" /\ q[i].n = m + i
      BY <1>2
    <2>1. CASE i <= Len(s)
      BY <2>1, <1>2 DEF Bytes
    <2>2. CASE i = Len(s) + 1
      <3>1. q[i] = u
        BY <2>2, <1>1, <1>2
      <3> QED BY <3>1, <2>2, <1>2
    <2> QED BY <2>1, <2>2, <1>2
  <1>4. Bytes(q, m)
    BY <1>3 DEF Bytes
  <1> QED BY <1>4 DEF p, q

LEMMA BytesCut ==
  ASSUME NEW a \in Seq(Units), NEW b \in Seq(Units), NEW m \in Nat, Bytes(a \o b, m)
  PROVE  Bytes(a, m) /\ Bytes(b, m + Len(a))
  <1> DEFINE q == a \o b
  <1>1. Len(q) = Len(a) + Len(b) /\ Len(a) \in Nat /\ Len(b) \in Nat
        /\ \A i \in 1..(Len(a) + Len(b)) : q[i] = IF i <= Len(a) THEN a[i] ELSE b[i - Len(a)]
    BY ConcatUnits
  <1>2. \A i \in 1..(Len(a) + Len(b)) : q[i].unit = "raw" /\ q[i].n = m + i
    BY <1>1 DEF Bytes
  <1> HIDE DEF q
  <1>3. Bytes(a, m)
    BY <1>1, <1>2 DEF Bytes
  <1>4. \A i \in 1..Len(b) : b[i].unit = "raw" /\ b[i].n = m + Len(a) + i
    <2> TAKE i \in 1..Len(b)
    <2>1. Len(a) + i \in 1..(Len(a) + Len(b)) /\ ~(Len(a) + i <= Len(a)) /\ (Len(a) + i) - Len(a) = i
      BY <1>1
    <2>2. q[Len(a) + i] = b[i]
      BY <2>1, <1>1
    <2> QED BY <2>1, <2>2, <1>1, <1>2
  <1> QED BY <1>3, <1>4 DEF Bytes

LEMMA BytesTail ==
  ASSUME NEW s \in Seq(Units), NEW m \in Nat, Bytes(s, m), s # <<>>
  PROVE  Head(s).n = m + 1 /\ Bytes(Tail(s), m + 1)
  BY TailUnits DEF Bytes

LEMMA FramedAppend ==
  ASSUME NEW s \in Seq(Units), Framed(s), NEW h \in Units, NEW b \in Units,
         h.unit = "head", b.unit = "body"
  PROVE  Framed(s \o <<h, b>>)
  <1> DEFINE p == <<h, b>>
             q == s \o p
  <1>1. p \in Seq(Units) /\ Len(p) = 2 /\ p[1] = h /\ p[2] = b
    BY PairUnits
  <1> HIDE DEF p
  <1>2. q \in Seq(Units) /\ Len(q) = Len(s) + 2 /\ Len(s) \in Nat
        /\ \A i \in 1..(Len(s) + 2) : q[i] = IF i <= Len(s) THEN s[i] ELSE p[i - Len(s)]
    <2>1. q \in Seq(Units) /\ Len(q) = Len(s) + Len(p) /\ Len(s) \in Nat
          /\ \A i \in 1..(Len(s) + Len(p)) : q[i] = IF i <= Len(s) THEN s[i] ELSE p[i - Len(s)]
      BY <1>1, ConcatUnits
    <2> HIDE DEF q
    <2> QED BY <1>1, <2>1
  <1>3. q[Len(s) + 1] = h /\ q[Len(s) + 2] = b /\ \A i \in 1..Len(s) : q[i] = s[i]
    BY <1>1, <1>2
  <1>4. Len(s) > 0 => s[1].unit = "head" /\ s[Len(s)].unit = "body"
    BY NoUnits DEF Framed
  <1> HIDE DEF q
  <1>5. q[1].unit = "head" /\ q[Len(q)].unit = "body"
    <2>1. CASE Len(s) = 0
      BY <2>1, <1>2, <1>3
    <2>2. CASE Len(s) > 0
      BY <2>2, <1>2, <1>3, <1>4
    <2> QED BY <2>1, <2>2, <1>2
  <1>6. ASSUME NEW i \in 1..(Len(q) - 1)
        PROVE  /\ q[i].unit = "head" => q[i + 1].unit = "body"
               /\ q[i].unit = "body" => q[i + 1].unit = "head"
    <2>1. CASE i < Len(s)
      <3>1. q[i] = s[i] /\ q[i + 1] = s[i + 1] /\ i \in 1..(Len(s) - 1)
        BY <2>1, <1>2, <1>3
      <3> QED BY <3>1 DEF Framed
    <2>2. CASE i = Len(s)
      <3>1. q[i] = s[Len(s)] /\ q[i + 1] = h /\ Len(s) > 0
        BY <2>2, <1>2, <1>3
      <3> QED BY <3>1, <1>4
    <2>3. CASE i = Len(s) + 1
      <3>1. q[i] = h /\ q[i + 1] = b
        BY <2>3, <1>2, <1>3
      <3> QED BY <3>1
    <2> QED BY <2>1, <2>2, <2>3, <1>2
  <1>7. ASSUME NEW i \in 1..Len(q) PROVE q[i].unit # "raw"
    <2>1. CASE i <= Len(s)
      BY <2>1, <1>2, <1>3 DEF Framed
    <2>2. CASE i = Len(s) + 1 \/ i = Len(s) + 2
      BY <2>2, <1>3
    <2> QED BY <2>1, <2>2, <1>2
  <1>8. Framed(q)
    BY <1>5, <1>6, <1>7 DEF Framed
  <1> QED BY <1>8 DEF p, q

LEMMA FramedRest ==
  ASSUME NEW s \in Seq(Units), Framed(s), Len(s) >= 2
  PROVE  Framed(Rest(s)) /\ s[1].unit = "head" /\ s[2].unit = "body"
  <1> DEFINE r == Rest(s)
  <1>1. r \in Seq(Units) /\ Len(r) = Len(s) - 2 /\ Len(s) \in Nat /\ s # <<>>
        /\ \A i \in 1..(Len(s) - 2) : r[i] = s[i + 2]
    BY RestUnits, NoUnits
  <1>2. s[1].unit = "head" /\ s[2].unit = "body" /\ s[Len(s)].unit = "body"
    BY <1>1 DEF Framed
  <1> HIDE DEF r
  <1>3. r # <<>> => r[1].unit = "head" /\ r[Len(r)].unit = "body"
    <2> SUFFICES ASSUME Len(s) >= 3 PROVE r[1].unit = "head" /\ r[Len(r)].unit = "body"
      BY <1>1, NoUnits
    <2>1. r[1] = s[3] /\ r[Len(r)] = s[Len(s)]
      BY <1>1
    <2>2. s[3].unit = "head"
      <3>1. 2 \in 1..(Len(s) - 1) /\ 2 + 1 = 3
        BY <1>1
      <3> QED BY <3>1, <1>2 DEF Framed
    <2> QED BY <2>1, <2>2, <1>2
  <1>4. ASSUME NEW i \in 1..(Len(r) - 1)
        PROVE  /\ r[i].unit = "head" => r[i + 1].unit = "body"
               /\ r[i].unit = "body" => r[i + 1].unit = "head"
    <2>1. r[i] = s[i + 2] /\ r[i + 1] = s[(i + 2) + 1] /\ i + 2 \in 1..(Len(s) - 1)
      BY <1>1
    <2> QED BY <2>1 DEF Framed
  <1>5. ASSUME NEW i \in 1..Len(r) PROVE r[i].unit # "raw"
    <2>1. r[i] = s[i + 2] /\ i + 2 \in 1..Len(s)
      BY <1>1
    <2> QED BY <2>1 DEF Framed
  <1>6. Framed(r)
    BY <1>3, <1>4, <1>5 DEF Framed
  <1> QED BY <1>2, <1>6 DEF r

LEMMA LeadsAppend ==
  ASSUME NEW s \in Seq(Units), NEW m \in Nat, NEW k \in Nat, Leads(s, m, k),
         NEW h \in Units, NEW b \in Units, h.n = k + Step(h), b.n = h.n, Step(b) = 0
  PROVE  Leads(s \o <<h, b>>, m, h.n)
  <1> DEFINE p == <<h, b>>
             q == s \o p
  <1>1. p \in Seq(Units) /\ Len(p) = 2 /\ p[1] = h /\ p[2] = b
    BY PairUnits
  <1> HIDE DEF p
  <1>2. q \in Seq(Units) /\ Len(q) = Len(s) + 2 /\ Len(s) \in Nat
        /\ \A i \in 1..(Len(s) + 2) : q[i] = IF i <= Len(s) THEN s[i] ELSE p[i - Len(s)]
    <2>1. q \in Seq(Units) /\ Len(q) = Len(s) + Len(p) /\ Len(s) \in Nat
          /\ \A i \in 1..(Len(s) + Len(p)) : q[i] = IF i <= Len(s) THEN s[i] ELSE p[i - Len(s)]
      BY <1>1, ConcatUnits
    <2> HIDE DEF q
    <2> QED BY <1>1, <2>1
  <1>3. q[Len(s) + 1] = h /\ q[Len(s) + 2] = b /\ \A i \in 1..Len(s) : q[i] = s[i]
    BY <1>1, <1>2
  <1>4. q # <<>>
    BY <1>2, NoUnits
  <1>5. k = IF Len(s) = 0 THEN m ELSE s[Len(s)].n
    BY <1>2, NoUnits DEF Leads
  <1>6. b.n = h.n + Step(b)
    BY UnitFields
  <1> HIDE DEF q
  <1>7. ASSUME NEW i \in 1..Len(q)
        PROVE  q[i].n = (IF i = 1 THEN m ELSE q[i - 1].n) + Step(q[i])
    <2>1. CASE i <= Len(s)
      <3>1. q[i] = s[i] /\ (i # 1 => q[i - 1] = s[i - 1]) /\ i \in 1..Len(s)
        BY <2>1, <1>2, <1>3
      <3> QED BY <3>1 DEF Leads
    <2>2. CASE i = Len(s) + 1
      <3>1. q[i] = h /\ (i # 1 => q[i - 1] = s[Len(s)]) /\ (i = 1 <=> Len(s) = 0)
        BY <2>2, <1>2, <1>3
      <3> QED BY <3>1, <1>5
    <2>3. CASE i = Len(s) + 2
      <3>1. q[i] = b /\ q[i - 1] = h /\ i # 1
        BY <2>3, <1>2, <1>3
      <3> QED BY <3>1, <1>6
    <2> QED BY <2>1, <2>2, <2>3, <1>2
  <1>8. q[Len(q)].n = h.n
    BY <1>2, <1>3
  <1>9. Leads(q, m, h.n)
    BY <1>4, <1>7, <1>8 DEF Leads
  <1> QED BY <1>9 DEF p, q

\* A unit that counts nothing may leave the line.
LEMMA LeadsDrop ==
  ASSUME NEW p \in Seq(Units), NEW q \in Seq(Units), NEW m \in Nat, NEW k \in Nat, Leads(p, m, k),
         Len(p) = Len(q) + 1, NEW c \in 0..Len(q),
         \A i \in 1..c : q[i].n = p[i].n /\ Step(q[i]) = Step(p[i]),
         Step(p[c + 1]) = 0,
         \A i \in (c + 1)..Len(q) : q[i] = p[i + 1]
  PROVE  Leads(q, m, k)
  <1>1. Len(q) \in Nat /\ p # <<>>
    BY NoUnits
  <1>2. \A i \in 1..Len(p) : p[i] \in Units /\ p[i].n \in Nat /\ p[i].n = (IF i = 1 THEN m ELSE p[i - 1].n) + Step(p[i])
    BY UnitAt, UnitFields DEF Leads
  <1>3. k = p[Len(q) + 1].n
    BY <1>1 DEF Leads
  <1>4. p[c + 1].n = IF c = 0 THEN m ELSE p[c].n
    <2>1. c + 1 \in 1..Len(p) /\ (c + 1 = 1 <=> c = 0) /\ (c + 1) - 1 = c
      BY <1>1
    <2>2. p[c + 1].n = (IF c + 1 = 1 THEN m ELSE p[(c + 1) - 1].n) + 0
      BY <1>2, <2>1
    <2>3. c # 0 => p[c].n \in Nat
      BY <1>2, <1>1
    <2> QED BY <2>1, <2>2, <2>3
  <1>5. ASSUME NEW i \in 1..Len(q)
        PROVE  q[i].n = (IF i = 1 THEN m ELSE q[i - 1].n) + Step(q[i])
    <2>1. CASE i <= c
      <3>1. q[i].n = p[i].n /\ Step(q[i]) = Step(p[i]) /\ (i # 1 => q[i - 1].n = p[i - 1].n)
        BY <2>1, <1>1
      <3>2. i \in 1..Len(p)
        BY <1>1
      <3> QED BY <3>1, <3>2, <1>2
    <2>2. CASE i = c + 1
      <3>1. q[i] = p[i + 1] /\ i + 1 \in 1..Len(p) /\ i + 1 # 1 /\ (i + 1) - 1 = c + 1 /\ (i = 1 <=> c = 0)
        BY <2>2, <1>1
      <3>2. q[i].n = p[c + 1].n + Step(q[i])
        BY <3>1, <1>2
      <3>3. c # 0 => q[i - 1].n = p[c].n
        BY <2>2, <1>1
      <3> QED BY <3>1, <3>2, <3>3, <1>4
    <2>3. CASE i > c + 1
      <3>1. q[i] = p[i + 1] /\ q[i - 1] = p[i] /\ i # 1 /\ i + 1 \in 1..Len(p) /\ (i + 1) - 1 = i /\ i + 1 # 1
        BY <2>3, <1>1
      <3> QED BY <3>1, <1>2
    <2> QED BY <2>1, <2>2, <2>3, <1>1
  <1>6. k = IF q = <<>> THEN m ELSE q[Len(q)].n
    <2>1. CASE c = Len(q)
      <3>1. k = IF c = 0 THEN m ELSE p[c].n
        BY <2>1, <1>3, <1>4
      <3>2. c # 0 => q[c].n = p[c].n
        BY <1>1
      <3> QED BY <2>1, <3>1, <3>2, <1>1, NoUnits
    <2>2. CASE c < Len(q)
      <3>1. q[Len(q)] = p[Len(q) + 1] /\ Len(q) # 0
        BY <2>2, <1>1
      <3> QED BY <3>1, <1>3, NoUnits
    <2> QED BY <2>1, <2>2, <1>1
  <1> QED BY <1>5, <1>6 DEF Leads

LEMMA LeadsTail ==
  ASSUME NEW p \in Seq(Units), NEW m \in Nat, NEW k \in Nat, Leads(p, m, k), p # <<>>
  PROVE  p[1].n = m + Step(p[1]) /\ Leads(Tail(p), p[1].n, k)
  <1> DEFINE q == Tail(p)
  <1>1. q \in Seq(Units) /\ Len(q) = Len(p) - 1 /\ Len(p) \in Nat \ {0}
        /\ \A i \in 1..(Len(p) - 1) : q[i] = p[i + 1]
    BY TailUnits
  <1> HIDE DEF q
  <1>2. p[1].n = m + Step(p[1])
    BY <1>1 DEF Leads
  <1>3. ASSUME NEW i \in 1..Len(q)
        PROVE  q[i].n = (IF i = 1 THEN p[1].n ELSE q[i - 1].n) + Step(q[i])
    <2>1. q[i] = p[i + 1] /\ (i # 1 => q[i - 1] = p[i]) /\ i + 1 \in 1..Len(p) /\ i + 1 # 1 /\ (i + 1) - 1 = i
      BY <1>1
    <2>2. p[i + 1].n = p[i].n + Step(p[i + 1])
      BY <2>1 DEF Leads
    <2> QED BY <2>1, <2>2
  <1>4. k = IF q = <<>> THEN p[1].n ELSE q[Len(q)].n
    <2>1. k = p[Len(p)].n
      BY DEF Leads
    <2>2. CASE Len(p) = 1
      BY <2>1, <2>2, <1>1, NoUnits
    <2>3. CASE Len(p) > 1
      <3>1. q[Len(q)] = p[Len(p)] /\ Len(q) # 0
        BY <2>3, <1>1
      <3> QED BY <3>1, <2>1, <1>1, NoUnits
    <2> QED BY <2>2, <2>3, <1>1
  <1>5. Leads(q, p[1].n, k)
    BY <1>3, <1>4 DEF Leads
  <1> QED BY <1>2, <1>5 DEF q

\* A frame is decoded: its event, which counts as much, follows those queued.
LEMMA LeadsDecode ==
  ASSUME NEW e \in Seq(Units), NEW l \in Seq(Units), NEW m \in Nat, NEW k \in Nat,
         Leads(e \o l, m, k), Len(l) >= 2, Step(l[2]) = 0,
         NEW u \in Units, u.n = l[1].n, Step(u) = Step(l[1])
  PROVE  /\ Leads(Append(e, u) \o Rest(l), m, k)
         /\ Step(u) = 0 => Leads(e \o Rest(l), m, k)
  <1> DEFINE p == e \o l
             r == Rest(l)
             f == Append(e, u)
             q == f \o r
             g == e \o r
             c == Len(e)
  <1>1. p \in Seq(Units) /\ Len(p) = c + Len(l) /\ c \in Nat /\ Len(l) \in Nat
        /\ \A i \in 1..(c + Len(l)) : p[i] = IF i <= c THEN e[i] ELSE l[i - c]
    BY ConcatUnits
  <1>2. r \in Seq(Units) /\ Len(r) = Len(l) - 2 /\ \A i \in 1..(Len(l) - 2) : r[i] = l[i + 2]
    BY RestUnits
  <1>3. f \in Seq(Units) /\ Len(f) = c + 1 /\ \A i \in 1..(c + 1) : f[i] = IF i <= c THEN e[i] ELSE u
    BY AppendUnits
  <1> HIDE DEF r, f
  <1>4. q \in Seq(Units) /\ Len(q) = Len(f) + Len(r)
        /\ \A i \in 1..(Len(f) + Len(r)) : q[i] = IF i <= Len(f) THEN f[i] ELSE r[i - Len(f)]
    BY <1>2, <1>3, ConcatUnits
  <1>5. g \in Seq(Units) /\ Len(g) = c + Len(r)
        /\ \A i \in 1..(c + Len(r)) : g[i] = IF i <= c THEN e[i] ELSE r[i - c]
    BY <1>2, ConcatUnits
  <1> HIDE DEF p, q, g, c
  <1>6. Len(p) = Len(q) + 1 /\ c + 1 \in 0..Len(q) /\ Len(q) = Len(g) + 1 /\ c \in 0..Len(g)
    BY <1>1, <1>2, <1>3, <1>4, <1>5
  <1>7. \A i \in 1..c : q[i] = p[i] /\ q[i] = g[i]
    <2> TAKE i \in 1..c
    <2>1. i <= c /\ i <= Len(f) /\ i \in 1..(c + Len(l)) /\ i \in 1..(c + 1)
          /\ i \in 1..(Len(f) + Len(r)) /\ i \in 1..(c + Len(r))
      BY <1>1, <1>2, <1>3
    <2>2. p[i] = e[i] /\ f[i] = e[i] /\ q[i] = f[i] /\ g[i] = e[i]
      BY <2>1, <1>1, <1>3, <1>4, <1>5
    <2> QED BY <2>2
  <1>8. q[c + 1] = u /\ p[c + 1] = l[1] /\ p[(c + 1) + 1] = l[2]
    <2>1. q[c + 1] = u
      <3>1. c + 1 \in 1..(c + 1) /\ ~(c + 1 <= c) /\ c + 1 <= Len(f) /\ c + 1 \in 1..(Len(f) + Len(r))
        BY <1>1, <1>2, <1>3
      <3>2. q[c + 1] = f[c + 1] /\ f[c + 1] = u
        BY <3>1, <1>3, <1>4
      <3> QED BY <3>2
    <2>2. (c + 1) - c = 1 /\ ((c + 1) + 1) - c = 2 /\ ~(c + 1 <= c) /\ ~((c + 1) + 1 <= c)
          /\ c + 1 \in 1..(c + Len(l)) /\ (c + 1) + 1 \in 1..(c + Len(l))
      BY <1>1
    <2> QED BY <1>1, <2>1, <2>2
  <1>9. \A i \in ((c + 1) + 1)..Len(q) : q[i] = p[i + 1]
    <2> TAKE i \in ((c + 1) + 1)..Len(q)
    <2>1. q[i] = r[i - (c + 1)]
      <3>1. ~(i <= Len(f)) /\ i \in 1..(Len(f) + Len(r))
        BY <1>1, <1>2, <1>3, <1>4
      <3> QED BY <3>1, <1>3, <1>4
    <2>2. i - (c + 1) \in 1..(Len(l) - 2) /\ (i - (c + 1)) + 2 = (i + 1) - c /\ ~(i + 1 <= c) /\ i + 1 \in 1..(c + Len(l))
      BY <1>1, <1>2, <1>3, <1>4
    <2> QED BY <2>1, <2>2, <1>1, <1>2
  <1>10. \A i \in (c + 1)..Len(g) : g[i] = q[i + 1]
    <2> TAKE i \in (c + 1)..Len(g)
    <2>1. g[i] = r[i - c]
      <3>1. ~(i <= c) /\ i \in 1..(c + Len(r))
        <4>1. c \in Nat /\ Len(r) \in Nat /\ Len(g) = c + Len(r)
          BY <1>1, <1>2, <1>5, NoUnits
        <4> QED BY <4>1
      <3> QED BY <3>1, <1>5
    <2>2. (i + 1) - (c + 1) = i - c /\ ~(i + 1 <= c + 1) /\ i + 1 \in 1..((c + 1) + Len(r))
      BY <1>1, <1>2, <1>5
    <2> QED BY <2>1, <2>2, <1>3, <1>4
  <1>11. Leads(p, m, k)
    BY DEF p
  <1>12. \A i \in 1..(c + 1) : q[i].n = p[i].n /\ Step(q[i]) = Step(p[i])
    <2> TAKE i \in 1..(c + 1)
    <2>1. CASE i \in 1..c
      BY <2>1, <1>7
    <2>2. CASE i = c + 1
      BY <2>2, <1>8
    <2> QED BY <2>1, <2>2, <1>1
  <1>13. Leads(q, m, k)
    BY <1>1, <1>4, <1>6, <1>8, <1>9, <1>11, <1>12, LeadsDrop
  <1>14. ASSUME Step(u) = 0 PROVE Leads(g, m, k)
    BY <1>4, <1>5, <1>6, <1>7, <1>8, <1>10, <1>13, <1>14, LeadsDrop
  <1> QED BY <1>13, <1>14 DEF q, g, f, r

-----------------------------------------------------------------------------
(* The inductive invariant of the connection.                              *)

LEMMA CodecFields ==
  ASSUME NEW c \in Codecs
  PROVE  /\ c.rx \in Seq(Units) /\ c.events \in Seq(Units)
         /\ c.nextTag \in 1..TagMax /\ c.pending \in SUBSET (1..TagMax)
  BY DEF Codecs

LEMMA LineUnits ==
  ASSUME MuxTypes
  PROVE  /\ codec.rx \in Seq(Units) /\ codec.events \in Seq(Units) /\ toClient \in Seq(Units)
         /\ line \in Seq(Units) /\ Len(line) = Len(codec.rx) + Len(toClient)
         /\ line = <<>> <=> (codec.rx = <<>> /\ toClient = <<>>)
         /\ Len(codec.rx) \in Nat /\ Len(toClient) \in Nat /\ Len(line) \in Nat
  <1>1. codec.rx \in Seq(Units) /\ codec.events \in Seq(Units) /\ toClient \in Seq(Units)
    BY CodecFields DEF MuxTypes
  <1>2. line \in Seq(Units) /\ Len(line) = Len(codec.rx) + Len(toClient)
        /\ Len(codec.rx) \in Nat /\ Len(toClient) \in Nat /\ Len(line) \in Nat
    BY <1>1, ConcatUnits, NoUnits DEF line
  <1>3. /\ line = <<>> <=> Len(line) = 0
        /\ codec.rx = <<>> <=> Len(codec.rx) = 0
        /\ toClient = <<>> <=> Len(toClient) = 0
    BY <1>1, <1>2, NoUnits
  <1> QED BY <1>1, <1>2, <1>3

LEMMA EmptyLine ==
  ASSUME NEW m \in Nat
  PROVE  Bytes(<<>>, m) /\ Framed(<<>>) /\ Leads(<<>>, m, m) /\ <<>> \o <<>> = <<>>
         /\ ~Complete(<<>>)
  BY NoUnits DEF Bytes, Framed, Leads, Complete

LEMMA TagsWrap ==
  ASSUME NEW t \in 1..TagMax
  PROVE  AllocTag(t) \in 1..TagMax
  <1>1. TagMax \in Nat \ {0} /\ TagMax + 1 \in Nat /\ TagMax + 1 > 0 /\ t + 1 \in Nat
    BY UsbmuxAssumption
  <1>2. (t + 1) % (TagMax + 1) \in 0..TagMax
    BY <1>1
  <1> QED BY <1>1, <1>2 DEF AllocTag

LEMMA MuxInvInit == MuxInit => MuxInv
  <1> SUFFICES ASSUME MuxInit PROVE MuxInv
    OBVIOUS
  <1>1. 1 \in 1..TagMax /\ 0 \in 0..TagMax /\ 0 \in 0..MaxEmit
    BY UsbmuxAssumption
  <1>2. NoCall \in MuxRequests /\ NoCall.kind = "none"
    BY <1>1 DEF NoCall, MuxRequests
  <1>3. codec \in Codecs /\ codec.rx = <<>> /\ codec.events = <<>>
    BY <1>1, NoUnits DEF MuxInit, Codecs
  <1>4. MuxTypes
    BY <1>1, <1>2, <1>3, NoUnits DEF MuxInit, MuxTypes
  <1>5. AnswerIsOwn
    BY NoUnits DEF MuxInit, AnswerIsOwn
  <1>6. ~Complete(codec.rx)
    BY <1>3, EmptyLine
  <1>7. Resting /\ Idle /\ mode = "calls"
    BY <1>3 DEF MuxInit, Resting, Idle
  <1> QED BY <1>4, <1>5, <1>6, <1>7 DEF MuxInv

LEMMA StartInv ==
  ASSUME MuxInv, NEW kind \in Kinds \cup {"listen"}, Start(kind)
  PROVE  MuxInv'
  <1>1. MuxTypes /\ AnswerIsOwn /\ mode = "calls" /\ Idle /\ Resting
    BY DEF MuxInv, Start
  <1>2. UNCHANGED <<decoding, log, toClient, peer, state, refused, emitted, got>>
    BY DEF Start
  <1>3. codec.nextTag \in 1..TagMax /\ codec.rx = <<>> /\ codec.events = <<>> /\ toClient = <<>> /\ ~decoding
    BY <1>1, CodecFields DEF MuxTypes, Resting
  <1>4. /\ codec' \in Codecs /\ codec'.rx = <<>> /\ codec'.events = <<>>
    <2>1. AllocTag(codec.nextTag) \in 1..TagMax
      BY <1>3, TagsWrap
    <2>2. codec' = [codec EXCEPT !.nextTag = AllocTag(codec.nextTag),
                                 !.pending = IF kind = "connect" THEN codec.pending \cup {codec.nextTag} ELSE codec.pending]
      BY DEF Start
    <2> QED BY <1>1, <1>3, <2>1, <2>2 DEF Codecs, MuxTypes
  <1>5. Request(kind) \in MuxRequests /\ Request(kind).kind = kind /\ (kind # "listen" => kind # "none")
    <2>1. Len(log) + 1 \in Nat
      BY <1>1, NoUnits DEF MuxTypes
    <2>2. codec.nextTag \in 0..TagMax
      BY <1>3, UsbmuxAssumption
    <2> QED BY <2>1, <2>2 DEF Request, MuxRequests, Kinds
  <1>6. toMux' = Append(toMux, Request(kind)) /\ toMux' \in Seq(MuxRequests)
    BY <1>1, <1>5, AppendUnits DEF Start, MuxTypes
  <1>7. toMux = <<>> => toMux' = <<Request(kind)>>
    BY <1>6
  <1>8. line' = <<>> /\ emitted' = 0 /\ got' = <<>> /\ (state' = "closed" \/ (state' = "serving" /\ toMux = <<>>))
    BY <1>1, <1>2, <1>3, <1>4, EmptyLine DEF line, Resting
  <1>9. ~Complete(codec.rx)'
    BY <1>4, EmptyLine
  <1>10. AnswerIsOwn'
    BY <1>1, <1>2 DEF AnswerIsOwn
  <1>11. CASE kind = "listen"
    <2>1. mode' = "listener" /\ call' = call
      BY <1>11 DEF Start
    <2>2. MuxTypes' /\ Idle'
      BY <1>1, <1>2, <1>4, <1>6, <2>1 DEF MuxTypes, Idle
    <2>3. state' = "serving" => Len(toMux') = 1 /\ toMux'[1].kind = "listen"
      BY <1>5, <1>7, <1>8, <1>11, PairUnits
    <2>4. Len(got') = 0 /\ codec'.events \o line' = <<>> /\ Len(codec'.events) = 0
      BY <1>4, <1>8, NoUnits, EmptyLine
    <2>5. Listens'
      BY <1>4, <1>8, <2>3, <2>4, EmptyLine DEF Listens
    <2> QED BY <1>9, <1>10, <2>1, <2>2, <2>5 DEF MuxInv
  <1>12. CASE kind # "listen"
    <2>1. mode' = "calls" /\ call' = Request(kind)
      BY <1>1, <1>12 DEF Start
    <2>2. MuxTypes'
      BY <1>1, <1>2, <1>4, <1>5, <1>6, <1>12, <2>1 DEF MuxTypes
    <2>3. call'.kind # "none"
      BY <1>5, <1>12, <2>1
    <2>4. ~Idle'
      BY <2>3 DEF Idle, NoCall
    <2>5. state' = "serving" => Sent'
      BY <1>4, <1>7, <1>8, <2>1 DEF Sent
    <2>6. Settled'
      BY <1>4, <1>8, NoUnits, EmptyLine DEF Settled
    <2>7. AwaitsAnswer'
      BY <1>8, <2>1, <2>3, <2>5, <2>6 DEF AwaitsAnswer
    <2> QED BY <1>9, <1>10, <2>1, <2>2, <2>4, <2>7 DEF MuxInv
  <1> QED BY <1>11, <1>12

LEMMA ReadInv ==
  ASSUME MuxInv, Read
  PROVE  MuxInv'
  <1>1. MuxTypes /\ AnswerIsOwn /\ Reading
    BY DEF MuxInv, Read
  <1>2. UNCHANGED <<call, mode, log, toMux, peer, state, refused, emitted, got>> /\ decoding' = TRUE
    BY DEF Read
  <1>3. PICK k \in 1..Len(toClient) :
          /\ codec' = [codec EXCEPT !.rx = codec.rx \o SubSeq(toClient, 1, k)]
          /\ toClient' = SubSeq(toClient, k + 1, Len(toClient))
    BY DEF Read
  <1>4. codec.rx \in Seq(Units) /\ toClient \in Seq(Units) /\ k \in 0..Len(toClient)
        /\ toClient # <<>> /\ Len(toClient) \in Nat /\ line # <<>>
    BY <1>1, LineUnits, NoUnits
  <1>5. SubSeq(toClient, 1, k) \in Seq(Units) /\ toClient' \in Seq(Units)
    BY <1>3, <1>4, CutUnits
  <1>6. codec.rx \o SubSeq(toClient, 1, k) \in Seq(Units)
    BY <1>4, <1>5, ConcatUnits
  <1>7. codec' \in Codecs /\ codec'.events = codec.events /\ codec'.rx = codec.rx \o SubSeq(toClient, 1, k)
    BY <1>1, <1>3, <1>6 DEF MuxTypes, Codecs
  <1>8. line' = line
    BY <1>3, <1>4, <1>7, ReadMoves DEF line
  <1>9. MuxTypes'
    BY <1>1, <1>2, <1>5, <1>7 DEF MuxTypes
  <1>10. AnswerIsOwn'
    BY <1>1, <1>2 DEF AnswerIsOwn
  <1>11. ~Idle' => AwaitsAnswer'
    <2> SUFFICES ASSUME AwaitsAnswer PROVE AwaitsAnswer'
      BY <1>2 DEF MuxInv, Idle
    <2> QED BY <1>2, <1>7, <1>8 DEF AwaitsAnswer, Sent, Answered, Settled
  <1>12. mode' = "listener" => Listens'
    <2> SUFFICES ASSUME Listens PROVE Listens'
      BY <1>2 DEF MuxInv
    <2> QED BY <1>2, <1>7, <1>8 DEF Listens
  <1>13. ~(mode' = "calls" /\ Idle')
    BY <1>1, <1>2 DEF Reading, Listening, Idle
  <1>14. mode' # "pipe"
    BY <1>1, <1>2 DEF MuxInv, Reading, Listening, AwaitsAnswer
  <1> QED BY <1>2, <1>9, <1>10, <1>11, <1>12, <1>13, <1>14 DEF MuxInv

\* What decode_frame makes of a frame.
LEMMA Decoded ==
  ASSUME NEW c \in Codecs, NEW f \in Units, f.unit = "head"
  PROVE  /\ DecodeFrame(c, f) \in Codecs /\ DecodeFrame(c, f).rx = c.rx
         /\ \/ DecodeFrame(c, f).events = c.events /\ Step(f) = 0
            \/ \E u \in Units : /\ DecodeFrame(c, f).events = Append(c.events, u)
                                /\ u.unit = "head" /\ u.n = f.n /\ u.id = f.id /\ Step(u) = Step(f)
  <1> DEFINE connect == f.kind = "Result" /\ f.tag \in c.pending
             name == IF f.kind # "Result" THEN f.kind
                     ELSE IF f.code # 0 THEN "RequestFailed"
                     ELSE IF connect THEN "Connected" ELSE "RequestOk"
             u == [f EXCEPT !.kind = name]
             left == IF connect THEN c.pending \ {f.tag} ELSE c.pending
  <1>1. CASE f.kind = "Paired"
    <2>1. DecodeFrame(c, f) = c
      BY <1>1 DEF DecodeFrame
    <2>2. Step(f) = 0
      BY <1>1 DEF Step, IsDeviceEvent
    <2> QED BY <2>1, <2>2
  <1>2. CASE f.kind # "Paired"
    <2>1. DecodeFrame(c, f) = [c EXCEPT !.events = Append(c.events, u), !.pending = left]
      BY <1>2 DEF DecodeFrame
    <2>2. name \in EventKinds
      BY UnitFields DEF EventKinds
    <2>3. IsDeviceEvent(f) <=> name \in {"Attached", "Detached"}
      BY DEF IsDeviceEvent
    <2> HIDE DEF name, connect
    <2>4. u \in Units /\ u.unit = "head" /\ u.n = f.n /\ u.id = f.id /\ u.kind = name
      BY <2>2 DEF Units
    <2>5. Step(u) = Step(f)
      BY <2>3, <2>4 DEF Step, IsDeviceEvent
    <2> HIDE DEF u
    <2>6. Append(c.events, u) \in Seq(Units)
      BY <2>4, CodecFields, AppendUnits
    <2>7. left \in SUBSET (1..TagMax)
      BY CodecFields
    <2> HIDE DEF left
    <2>8. DecodeFrame(c, f) \in Codecs /\ DecodeFrame(c, f).rx = c.rx
          /\ DecodeFrame(c, f).events = Append(c.events, u)
      BY <2>1, <2>6, <2>7 DEF Codecs
    <2> QED BY <2>4, <2>5, <2>8
  <1> QED BY <1>1, <1>2

LEMMA ProcessRxInv ==
  ASSUME MuxInv, ProcessRx
  PROVE  MuxInv'
  <1>1. MuxTypes /\ AnswerIsOwn /\ decoding
    BY DEF MuxInv, ProcessRx
  <1>2. UNCHANGED <<call, mode, log, toMux, toClient, peer, state, refused, emitted, got>>
    BY DEF ProcessRx
  <1>3. ~(mode' = "calls" /\ Idle')
    BY <1>1, <1>2 DEF MuxInv, Resting, Idle
  <1>4. AnswerIsOwn'
    BY <1>1, <1>2 DEF AnswerIsOwn
  <1>5. CASE ~Complete(codec.rx)
    <2>1. codec' = codec /\ decoding' = FALSE
      BY <1>5 DEF ProcessRx
    <2>2. MuxTypes' /\ line' = line
      BY <1>1, <1>2, <2>1 DEF MuxTypes, line
    <2>3. ~Idle' => AwaitsAnswer'
      BY <1>2, <2>1, <2>2 DEF MuxInv, Idle, AwaitsAnswer, Sent, Answered, Settled
    <2>4. mode' = "listener" => Listens'
      BY <1>2, <2>1, <2>2 DEF MuxInv, Listens
    <2>5. mode' = "pipe" => Pipes'
      BY <1>2, <2>1 DEF MuxInv, Pipes
    <2> QED BY <1>3, <1>4, <1>5, <2>1, <2>2, <2>3, <2>4, <2>5 DEF MuxInv
  <1>6. CASE Complete(codec.rx)
    <2> DEFINE f == codec.rx[1]
               c == [codec EXCEPT !.rx = Rest(codec.rx)]
    <2>1. codec' = DecodeFrame(c, f) /\ decoding' = decoding
      BY <1>6 DEF ProcessRx, Rest
    <2>2. codec.rx \in Seq(Units) /\ codec.events \in Seq(Units) /\ toClient \in Seq(Units) /\ line \in Seq(Units)
      BY <1>1, LineUnits
    <2>3. Len(codec.rx) >= 2 /\ f.unit = "head" /\ codec.rx[2].unit = "body"
      BY <1>6 DEF Complete
    <2>4. f \in Units /\ Rest(codec.rx) \in Seq(Units)
      BY <2>2, <2>3, RestUnits
    <2>5. c \in Codecs /\ c.rx = Rest(codec.rx) /\ c.events = codec.events
      BY <1>1, <2>4 DEF Codecs, MuxTypes
    <2>6. Rest(codec.rx) \o toClient = Rest(line) /\ Len(line) >= 2 /\ line[1] = f /\ line[2] = codec.rx[2]
      BY <2>2, <2>3, RestOfLine DEF line
    <2> HIDE DEF f, c
    <2>7. codec' \in Codecs /\ codec'.rx = Rest(codec.rx)
      BY <2>1, <2>3, <2>4, <2>5, Decoded
    <2>8. line' = Rest(line)
      BY <1>2, <2>6, <2>7 DEF line
    <2>9. MuxTypes'
      BY <1>1, <1>2, <2>1, <2>7 DEF MuxTypes
    <2>10. \/ codec'.events = codec.events /\ Step(f) = 0
           \/ \E u \in Units : /\ codec'.events = Append(codec.events, u)
                               /\ u.unit = "head" /\ u.n = f.n /\ u.id = f.id /\ Step(u) = Step(f)
      <3>1. \/ DecodeFrame(c, f).events = c.events /\ Step(f) = 0
            \/ \E u \in Units : /\ DecodeFrame(c, f).events = Append(c.events, u)
                                /\ u.unit = "head" /\ u.n = f.n /\ u.id = f.id /\ Step(u) = Step(f)
        BY <2>3, <2>4, <2>5, Decoded, Zenon
      <3> QED BY <3>1, <2>1, <2>5, Zenon
    <2>11. ~Idle' => AwaitsAnswer'
      <3> SUFFICES ASSUME AwaitsAnswer PROVE AwaitsAnswer'
        BY <1>2 DEF MuxInv, Idle
      <3>1. ~Sent
        BY <2>6, NoUnits DEF Sent
      <3>2. ~Settled
        <4> SUFFICES ASSUME Bytes(line, 0) PROVE FALSE
          BY DEF Settled
        <4>1. 1 \in 1..Len(line)
          BY <2>2, <2>6, NoUnits
        <4> QED BY <4>1, <2>3, <2>6 DEF Bytes
      <3>3. Answered /\ (state = "serving" => toMux = <<>>)
        BY <3>1, <3>2 DEF AwaitsAnswer
      <3>4. Bytes(line', 0) /\ Len(line') = emitted'
        <4>1. Len(Rest(line)) = Len(line) - 2 /\ emitted \in Nat
          BY <2>2, <2>6, RestUnits, UsbmuxAssumption, <1>1 DEF MuxTypes
        <4> QED BY <3>3, <4>1, <2>8, <1>2 DEF Answered
      <3>5. Len(codec'.events) \in {0, 1} /\ (codec'.events # <<>> => codec'.events[1].id = call'.id)
        <4>1. codec.events = <<>> /\ f.id = call.id
          BY <3>3, <2>6 DEF Answered
        <4>2. CASE codec'.events = codec.events
          BY <4>1, <4>2, NoUnits
        <4>3. CASE \E u \in Units : codec'.events = Append(codec.events, u) /\ u.id = f.id
          <5>1. PICK u \in Units : codec'.events = Append(codec.events, u) /\ u.id = f.id
            BY <4>3
          <5>2. codec'.events = <<u>>
            BY <4>1, <5>1
          <5> QED BY <4>1, <5>1, <5>2, <1>2, PairUnits
        <4> QED BY <2>10, <4>2, <4>3
      <3>6. Settled'
        BY <3>4, <3>5 DEF Settled
      <3> QED BY <3>3, <3>6, <1>2 DEF AwaitsAnswer
    <2>12. mode' = "listener" => Listens'
      <3> SUFFICES ASSUME Listens PROVE Listens'
        BY <1>2 DEF MuxInv
      <3>1. Framed(line) /\ Leads(codec.events \o line, Len(got), emitted)
        BY DEF Listens
      <3>2. Framed(line')
        BY <2>2, <2>6, <2>8, <3>1, FramedRest
      <3>3. Step(line[2]) = 0 /\ Len(got) \in Nat /\ emitted \in Nat
        <4>1. Step(line[2]) = 0
          BY <2>3, <2>6 DEF Step
        <4> QED BY <4>1, <1>1, NoUnits, UsbmuxAssumption DEF MuxTypes
      <3>4. line # <<>>
        BY <2>6, <2>2, NoUnits
      <3>5. CASE codec'.events = codec.events /\ Step(f) = 0
        <4>1. Leads(codec'.events \o line', Len(got), emitted)
          BY <2>2, <2>4, <2>6, <2>8, <3>1, <3>3, <3>5, LeadsDecode
        <4> QED BY <3>2, <3>4, <3>5, <4>1, <1>2 DEF Listens
      <3>6. CASE \E u \in Units : /\ codec'.events = Append(codec.events, u)
                                  /\ u.unit = "head" /\ u.n = f.n /\ u.id = f.id /\ Step(u) = Step(f)
        <4>1. PICK u \in Units : /\ codec'.events = Append(codec.events, u)
                                 /\ u.unit = "head" /\ u.n = f.n /\ Step(u) = Step(f)
          BY <3>6
        <4>2. Leads(codec'.events \o line', Len(got), emitted)
          BY <2>2, <2>6, <2>8, <3>1, <3>3, <4>1, LeadsDecode
        <4>3. \A i \in 1..Len(codec'.events) : codec'.events[i].unit = "head"
          <5>1. Len(codec'.events) = Len(codec.events) + 1 /\ Len(codec.events) \in Nat
                /\ \A i \in 1..(Len(codec.events) + 1) :
                     codec'.events[i] = IF i <= Len(codec.events) THEN codec.events[i] ELSE u
            BY <2>2, <4>1, AppendUnits
          <5>2. \A i \in 1..Len(codec.events) : codec.events[i].unit = "head"
            BY DEF Listens
          <5> QED BY <4>1, <5>1, <5>2
        <4> QED BY <3>2, <3>4, <4>2, <4>3, <1>2 DEF Listens
      <3> QED BY <2>10, <3>5, <3>6
    <2>13. mode' # "pipe"
      <3> SUFFICES ASSUME Pipes PROVE FALSE
        BY <1>2 DEF MuxInv
      <3>1. 1 \in 1..Len(codec.rx)
        BY <2>2, <2>3, NoUnits
      <3> QED BY <3>1, <2>3 DEF Pipes, Bytes, f
    <2> QED BY <1>1, <1>3, <1>4, <2>1, <2>9, <2>11, <2>12, <2>13 DEF MuxInv
  <1> QED BY <1>5, <1>6

LEMMA VerdictOf ==
  ASSUME NEW c, NEW e, c.kind \in Kinds
  PROVE  Verdict(c, e) \in {"ok", "err", "skip"}
  <1>1. CASE c.kind = "list"
    BY <1>1 DEF Verdict
  <1>2. CASE c.kind = "buid"
    BY <1>2 DEF Verdict
  <1>3. CASE c.kind = "readpair"
    BY <1>3 DEF Verdict
  <1>4. CASE c.kind \in {"save", "delete"}
    BY <1>4 DEF Verdict
  <1>5. CASE c.kind = "connect"
    BY <1>5 DEF Verdict
  <1> QED BY <1>1, <1>2, <1>3, <1>4, <1>5 DEF Kinds

\* A return is logged.
LEMMA Logged ==
  ASSUME MuxTypes, AnswerIsOwn, call.kind \in Kinds, NEW v \in {"ok", "err", "closed"}, NEW id \in Nat,
         v # "closed" => id = call.id,
         log' = Append(log, Returned(v, id))
  PROVE  log' \in Seq(Outcomes) /\ AnswerIsOwn'
  <1>1. Returned(v, id) \in Outcomes /\ Returned(v, id).verdict = v /\ Returned(v, id).of = id
        /\ Returned(v, id).id = call.id
    BY DEF MuxTypes, MuxRequests, Returned, Outcomes
  <1> DEFINE r == Returned(v, id)
  <1> HIDE DEF r
  <1>2. log \in Seq(Outcomes)
    BY DEF MuxTypes
  <1>3. Append(log, r) \in Seq(Outcomes) /\ Len(Append(log, r)) = Len(log) + 1 /\ Len(log) \in Nat
        /\ \A i \in 1..(Len(log) + 1) : Append(log, r)[i] = IF i <= Len(log) THEN log[i] ELSE r
    BY <1>1, <1>2, AppendUnits DEF r
  <1>4. DOMAIN log = 1..Len(log) /\ DOMAIN Append(log, r) = 1..(Len(log) + 1)
    BY <1>2, <1>3
  <1>5. log' = Append(log, r)
    BY DEF r
  <1>6. ASSUME NEW i \in 1..(Len(log) + 1), log'[i].verdict # "closed"
        PROVE  log'[i].of = log'[i].id
    <2>1. CASE i <= Len(log)
      <3>1. log'[i] = log[i] /\ i \in DOMAIN log
        BY <2>1, <1>3, <1>4, <1>5
      <3> QED BY <3>1, <1>6 DEF AnswerIsOwn
    <2>2. CASE ~(i <= Len(log))
      <3>1. log'[i] = r
        BY <2>2, <1>3, <1>5
      <3> QED BY <3>1, <1>1, <1>6 DEF r
    <2> QED BY <2>1, <2>2
  <1> QED BY <1>3, <1>4, <1>5, <1>6 DEF AnswerIsOwn

\* A call other than connect that returns leaves nothing behind.
LEMMA ComesToRest ==
  ASSUME MuxTypes, AwaitsAnswer, call.kind # "connect", Len(line) = emitted \/ line = <<>>,
         state # "serving" \/ toMux = <<>>
  PROVE  /\ codec.rx = <<>> /\ toClient = <<>> /\ emitted = 0 /\ got = <<>>
         /\ state = "closed" \/ (state = "serving" /\ toMux = <<>>)
  <1>1. emitted = 0 /\ got = <<>> /\ state \notin {"pipe", "listening"}
    BY UsbmuxAssumption DEF AwaitsAnswer, MuxTypes
  <1>2. line = <<>>
    BY <1>1, LineUnits, NoUnits
  <1> QED BY <1>1, <1>2, LineUnits DEF MuxTypes

LEMMA IdleHolds ==
  NoCall \in MuxRequests /\ NoCall.kind = "none"
  BY UsbmuxAssumption DEF NoCall, MuxRequests

LEMMA TakeEventInv ==
  ASSUME MuxInv, TakeEvent
  PROVE  MuxInv'
  <1> DEFINE e == Head(codec.events)
             v == Verdict(call, e)
  <1>1. MuxTypes /\ AnswerIsOwn /\ AwaitsAnswer /\ ~Idle /\ ~decoding /\ codec.events # <<>> /\ ~Complete(codec.rx)
    BY DEF MuxInv, TakeEvent
  <1>2. UNCHANGED <<decoding, toMux, toClient, peer, state, refused, emitted, got>>
        /\ codec' = [codec EXCEPT !.events = Tail(codec.events)]
    BY DEF TakeEvent
  <1>3. codec.events \in Seq(Units) /\ codec.rx \in Seq(Units) /\ toClient \in Seq(Units) /\ line \in Seq(Units)
    BY <1>1, LineUnits
  <1>4. Settled /\ (state = "serving" => toMux = <<>>)
    BY <1>1 DEF AwaitsAnswer, Sent, Answered
  <1>5. Len(codec.events) = 1 /\ codec.events[1].id = call.id
    BY <1>1, <1>3, <1>4, NoUnits DEF Settled
  <1>6. Tail(codec.events) \in Seq(Units) /\ Tail(codec.events) = <<>> /\ e = codec.events[1] /\ e \in Units
    <2>1. Tail(codec.events) \in Seq(Units) /\ Len(Tail(codec.events)) = Len(codec.events) - 1
          /\ e = codec.events[1] /\ e \in Units
      BY <1>1, <1>3, TailUnits
    <2>2. Len(Tail(codec.events)) = 0
      BY <1>5, <2>1
    <2> QED BY <2>1, <2>2, NoUnits
  <1>7. e.id \in Nat /\ e.id = call.id
    BY <1>5, <1>6, UnitFields
  <1> HIDE DEF e
  <1>8. codec' \in Codecs /\ codec'.rx = codec.rx /\ codec'.events = <<>> /\ line' = line
    BY <1>1, <1>2, <1>6 DEF MuxTypes, Codecs, line
  <1>9. call.kind \in Kinds
    BY <1>1 DEF MuxTypes, MuxRequests, AwaitsAnswer
  <1>10. v \in {"ok", "err", "skip"}
    BY <1>9, VerdictOf
  <1> HIDE DEF v
  <1>11. CASE v = "skip"
    <2>1. UNCHANGED <<call, log, mode>>
      BY <1>11 DEF TakeEvent, v, e
    <2>2. MuxTypes' /\ AnswerIsOwn'
      BY <1>1, <1>2, <1>8, <2>1 DEF MuxTypes, AnswerIsOwn
    <2>3. Settled'
      BY <1>2, <1>4, <1>8, NoUnits DEF Settled
    <2>4. AwaitsAnswer'
      BY <1>1, <1>2, <1>4, <2>1, <2>3 DEF AwaitsAnswer
    <2>5. ~Idle' /\ mode' = "calls"
      BY <1>1, <2>1 DEF Idle, AwaitsAnswer
    <2> QED BY <1>1, <1>8, <2>2, <2>4, <2>5 DEF MuxInv
  <1>12. CASE v # "skip"
    <2>1. /\ call' = NoCall /\ log' = Append(log, Returned(v, e.id))
          /\ mode' = IF call.kind = "connect" THEN IF v = "ok" THEN "pipe" ELSE "dropped" ELSE mode
      BY <1>12 DEF TakeEvent, v, e
    <2>2. log' \in Seq(Outcomes) /\ AnswerIsOwn'
      BY <1>1, <1>7, <1>9, <1>10, <1>12, <2>1, Logged
    <2>3. mode' \in {"calls", "pipe", "dropped"} /\ Idle'
      BY <1>1, <2>1 DEF AwaitsAnswer, Idle
    <2>4. MuxTypes'
      BY <1>1, <1>2, <1>8, <2>1, <2>2, <2>3, IdleHolds DEF MuxTypes
    <2>5. mode' = "calls" => Resting'
      <3> SUFFICES ASSUME call.kind # "connect" PROVE Resting'
        BY <2>1
      <3>1. Len(line) = emitted
        BY <1>4 DEF Settled
      <3>2. /\ codec.rx = <<>> /\ toClient = <<>> /\ emitted = 0 /\ got = <<>>
            /\ state = "closed" \/ (state = "serving" /\ toMux = <<>>)
        BY <1>1, <1>4, <3>1, ComesToRest
      <3> QED BY <1>1, <1>2, <1>8, <3>2 DEF Resting
    <2>6. mode' = "pipe" => Pipes'
      <3>1. Bytes(codec.rx, 0) /\ Bytes(toClient, 0 + Len(codec.rx)) /\ Len(line) = emitted
        BY <1>3, <1>4, BytesCut DEF Settled, line
      <3>2. got = <<>> /\ Len(got) = 0 /\ state # "listening"
        BY <1>1, NoUnits DEF AwaitsAnswer
      <3>3. Len(line) = Len(codec.rx) + Len(toClient) /\ Len(codec.rx) \in Nat /\ Len(toClient) \in Nat
        BY <1>1, LineUnits
      <3>4. 0 + Len(codec.rx) = Len(codec.rx) + Len(got) /\ emitted = Len(codec.rx) + Len(got) + Len(toClient)
        BY <3>1, <3>2, <3>3
      <3>5. \A i \in 1..Len(got) : got[i] = Len(codec.rx) + i
        BY <3>2
      <3>6. Bytes(toClient, Len(codec.rx) + Len(got))
        BY <3>1, <3>4
      <3>7. Pipes
        BY <1>4, <3>1, <3>2, <3>4, <3>5, <3>6 DEF Pipes
      <3> QED BY <1>2, <1>8, <3>7 DEF Pipes
    <2> QED BY <1>1, <1>8, <2>2, <2>3, <2>4, <2>5, <2>6 DEF MuxInv
  <1> QED BY <1>11, <1>12

LEMMA ReadEofInv ==
  ASSUME MuxInv, ReadEof
  PROVE  MuxInv'
  <1>1. MuxTypes /\ AnswerIsOwn /\ ~decoding /\ codec.events = <<>> /\ toClient = <<>> /\ state = "closed"
        /\ ~Complete(codec.rx) /\ (~Idle \/ Listening)
    BY DEF MuxInv, ReadEof, Reading
  <1>2. UNCHANGED <<codec, decoding, toMux, toClient, peer, state, refused, emitted, got>>
    BY DEF ReadEof
  <1>3. CASE Idle
    <2>1. mode' = "dropped" /\ UNCHANGED <<call, log>>
      BY <1>1, <1>3 DEF ReadEof, Listening
    <2>2. MuxTypes' /\ AnswerIsOwn' /\ Idle'
      BY <1>1, <1>2, <1>3, <2>1 DEF MuxTypes, AnswerIsOwn, Idle
    <2> QED BY <1>1, <1>2, <2>1, <2>2 DEF MuxInv
  <1>4. CASE ~Idle
    <2>1. AwaitsAnswer
      BY <1>4 DEF MuxInv
    <2>2. call' = NoCall /\ log' = Append(log, Returned("closed", 0))
          /\ mode' = IF call.kind = "connect" THEN "dropped" ELSE mode
      BY <1>4 DEF ReadEof, Listening
    <2>3. call.kind \in Kinds
      BY <1>1, <2>1 DEF MuxTypes, MuxRequests, AwaitsAnswer
    <2>4. log' \in Seq(Outcomes) /\ AnswerIsOwn'
      BY <1>1, <2>2, <2>3, Logged
    <2>5. mode' \in {"calls", "dropped"} /\ Idle'
      BY <2>1, <2>2 DEF AwaitsAnswer, Idle
    <2>6. MuxTypes'
      BY <1>1, <1>2, <2>2, <2>4, <2>5, IdleHolds DEF MuxTypes
    <2>7. mode' = "calls" => Resting'
      <3> SUFFICES ASSUME call.kind # "connect" PROVE Resting'
        BY <2>2
      <3>1. ~Answered
        <4> SUFFICES ASSUME Answered PROVE FALSE
          OBVIOUS
        <4>1. line = codec.rx
          BY <1>1, LineUnits DEF line
        <4>2. Len(codec.rx) >= 2
          BY <4>1, <1>1, UsbmuxAssumption DEF Answered, MuxTypes
        <4> QED BY <1>1, <4>1, <4>2 DEF Answered, Complete
      <3>2. Len(line) = emitted \/ line = <<>>
        BY <2>1, <3>1 DEF AwaitsAnswer, Sent, Settled
      <3>3. codec.rx = <<>> /\ emitted = 0 /\ got = <<>>
        BY <1>1, <2>1, <3>2, ComesToRest
      <3> QED BY <1>1, <1>2, <3>3 DEF Resting
    <2> QED BY <1>1, <1>2, <2>4, <2>5, <2>6, <2>7 DEF MuxInv
  <1> QED BY <1>3, <1>4

LEMMA ListenerNextInv ==
  ASSUME MuxInv, ListenerNext
  PROVE  MuxInv'
  <1> DEFINE e == Head(codec.events)
  <1>1. MuxTypes /\ AnswerIsOwn /\ mode = "listener" /\ Listens /\ Idle /\ ~decoding /\ codec.events # <<>>
        /\ ~Complete(codec.rx)
    BY DEF MuxInv, ListenerNext, Listening
  <1>2. UNCHANGED <<decoding, call, log, toMux, toClient, peer, state, refused, emitted>>
        /\ codec' = [codec EXCEPT !.events = Tail(codec.events)]
        /\ got' = (IF IsDeviceEvent(e) THEN Append(got, e.n) ELSE got)
        /\ mode' = (IF e.kind = "RequestFailed" THEN "dropped" ELSE mode)
    BY DEF ListenerNext
  <1>3. codec.events \in Seq(Units) /\ line \in Seq(Units) /\ got \in Seq(1..MaxEmit) /\ Len(got) \in Nat /\ emitted \in Nat
    BY <1>1, LineUnits, NoUnits, UsbmuxAssumption DEF MuxTypes
  <1>4. Tail(codec.events) \in Seq(Units) /\ Len(Tail(codec.events)) = Len(codec.events) - 1
        /\ Len(codec.events) \in Nat \ {0} /\ e = codec.events[1] /\ e \in Units
        /\ \A i \in 1..(Len(codec.events) - 1) : Tail(codec.events)[i] = codec.events[i + 1]
    BY <1>1, <1>3, TailUnits
  <1>5. codec' \in Codecs /\ codec'.rx = codec.rx /\ codec'.events = Tail(codec.events) /\ line' = line
    BY <1>1, <1>2, <1>4 DEF MuxTypes, Codecs, line
  <1> DEFINE p == codec.events \o line
  <1>6. p \in Seq(Units) /\ p # <<>> /\ p[1] = e /\ Tail(p) = Tail(codec.events) \o line
    <2> DEFINE q == Tail(codec.events) \o line
    <2>1. p \in Seq(Units) /\ Len(p) = Len(codec.events) + Len(line) /\ Len(line) \in Nat
          /\ \A i \in 1..(Len(codec.events) + Len(line)) :
               p[i] = IF i <= Len(codec.events) THEN codec.events[i] ELSE line[i - Len(codec.events)]
      BY <1>3, ConcatUnits
    <2>2. q \in Seq(Units) /\ Len(q) = Len(Tail(codec.events)) + Len(line)
          /\ \A i \in 1..(Len(Tail(codec.events)) + Len(line)) :
               q[i] = IF i <= Len(Tail(codec.events)) THEN Tail(codec.events)[i] ELSE line[i - Len(Tail(codec.events))]
      BY <1>3, <1>4, ConcatUnits
    <2> HIDE DEF p, q
    <2>3. p # <<>> /\ p[1] = e
      BY <2>1, <1>4, NoUnits
    <2>4. Tail(p) \in Seq(Units) /\ Len(Tail(p)) = Len(p) - 1 /\ \A i \in 1..(Len(p) - 1) : Tail(p)[i] = p[i + 1]
      BY <2>1, <2>3, TailUnits
    <2>5. Len(q) = Len(Tail(p))
      BY <2>1, <2>2, <2>4, <1>4
    <2>6. \A i \in 1..Len(q) : q[i] = Tail(p)[i]
      <3> TAKE i \in 1..Len(q)
      <3>1. Tail(p)[i] = p[i + 1] /\ i + 1 \in 1..(Len(codec.events) + Len(line))
            /\ i \in 1..(Len(Tail(codec.events)) + Len(line))
        BY <2>1, <2>2, <2>4, <2>5, <1>4
      <3>2. CASE i <= Len(codec.events) - 1
        <4>1. i <= Len(Tail(codec.events)) /\ i + 1 <= Len(codec.events) /\ i \in 1..(Len(codec.events) - 1)
          BY <3>2, <3>1, <1>4
        <4> QED BY <4>1, <3>1, <2>1, <2>2, <1>4
      <3>3. CASE ~(i <= Len(codec.events) - 1)
        <4>1. ~(i <= Len(Tail(codec.events))) /\ ~(i + 1 <= Len(codec.events))
              /\ (i + 1) - Len(codec.events) = i - Len(Tail(codec.events))
          <5> DEFINE a == Len(codec.events)
                     b == Len(Tail(codec.events))
          <5>1. a \in Nat /\ b = a - 1 /\ ~(i <= a - 1) /\ i \in Nat
            BY <3>3, <1>4, <2>5
          <5> HIDE DEF a, b
          <5>2. ~(i <= b) /\ ~(i + 1 <= a) /\ (i + 1) - a = i - b
            BY <5>1
          <5> QED BY <5>2 DEF a, b
        <4> QED BY <4>1, <3>1, <2>1, <2>2
      <3> QED BY <3>2, <3>3
    <2>7. q = Tail(p)
      BY <2>2, <2>4, <2>5, <2>6, EqualUnits
    <2> QED BY <2>1, <2>3, <2>7 DEF q
  <1>7. Leads(p, Len(got), emitted) /\ e.unit = "head"
    BY <1>1, <1>4 DEF Listens
  <1>8. e.n = Len(got) + Step(e) /\ Leads(codec'.events \o line', e.n, emitted)
    <2> HIDE DEF p, e
    <2>1. p[1].n = Len(got) + Step(p[1]) /\ Leads(Tail(p), p[1].n, emitted)
      BY <1>3, <1>6, <1>7, LeadsTail, Zenon
    <2> QED BY <1>5, <1>6, <2>1
  <1>9. e.n \in 0..MaxEmit
    BY <1>4, UnitFields
  <1> HIDE DEF e, p
  <1>10. got' \in Seq(1..MaxEmit) /\ Len(got') = e.n /\ \A i \in 1..Len(got') : got'[i] = i
    <2>1. CASE IsDeviceEvent(e)
      <3>1. e.n = Len(got) + 1 /\ e.n \in 1..MaxEmit
        BY <2>1, <1>3, <1>7, <1>8, <1>9 DEF Step
      <3>2. got' \in Seq(1..MaxEmit) /\ Len(got') = Len(got) + 1
            /\ \A i \in 1..(Len(got) + 1) : got'[i] = IF i <= Len(got) THEN got[i] ELSE e.n
        BY <2>1, <1>2, <1>3, <3>1, AppendUnits
      <3> QED BY <1>1, <1>3, <3>1, <3>2 DEF Listens
    <2>2. CASE ~IsDeviceEvent(e)
      <3>1. e.n = Len(got) /\ got' = got
        BY <2>2, <1>2, <1>3, <1>8 DEF Step
      <3> QED BY <1>1, <1>3, <3>1 DEF Listens
    <2> QED BY <2>1, <2>2
  <1>11. mode' \in {"listener", "dropped"} /\ Idle'
    BY <1>1, <1>2 DEF Idle
  <1>12. MuxTypes' /\ AnswerIsOwn'
    BY <1>1, <1>2, <1>5, <1>10, <1>11 DEF MuxTypes, AnswerIsOwn
  <1>13. Listens'
    <2>1. \A i \in 1..Len(codec'.events) : codec'.events[i].unit = "head"
      BY <1>1, <1>4, <1>5 DEF Listens
    <2>2. ~(state = "serving" /\ toMux # <<>>)
      BY <1>1 DEF Listens
    <2>3. Framed(line') /\ Leads(codec'.events \o line', Len(got'), emitted')
      BY <1>1, <1>2, <1>5, <1>8, <1>10 DEF Listens
    <2>4. state # "pipe"
      BY <1>1 DEF Listens
    <2> QED BY <1>2, <1>10, <2>1, <2>2, <2>3, <2>4 DEF Listens
  <1> QED BY <1>1, <1>2, <1>5, <1>11, <1>12, <1>13 DEF MuxInv

LEMMA PipeReadInv ==
  ASSUME MuxInv, PipeRead
  PROVE  MuxInv'
  <1>1. MuxTypes /\ AnswerIsOwn /\ mode = "pipe" /\ Pipes /\ toClient # <<>>
    BY DEF MuxInv, PipeRead
  <1>2. UNCHANGED <<codec, decoding, call, mode, log, toMux, peer, state, refused, emitted>>
        /\ got' = Append(got, Head(toClient).n) /\ toClient' = Tail(toClient)
    BY DEF PipeRead
  <1>3. toClient \in Seq(Units) /\ got \in Seq(1..MaxEmit) /\ Len(got) \in Nat /\ Len(codec.rx) \in Nat
        /\ Len(codec.rx) + Len(got) \in Nat
    <2>1. toClient \in Seq(Units) /\ got \in Seq(1..MaxEmit) /\ Len(codec.rx) \in Nat
      BY <1>1, LineUnits DEF MuxTypes
    <2>2. Len(got) \in Nat
      BY <2>1, NoUnits
    <2> QED BY <2>1, <2>2
  <1>4. toClient' \in Seq(Units) /\ Len(toClient') = Len(toClient) - 1 /\ Len(toClient) \in Nat \ {0}
        /\ Head(toClient) \in Units
    BY <1>1, <1>2, <1>3, TailUnits
  <1>5. Head(toClient).n = (Len(codec.rx) + Len(got)) + 1 /\ Bytes(toClient', (Len(codec.rx) + Len(got)) + 1)
    BY <1>1, <1>2, <1>3, BytesTail DEF Pipes
  <1>6. Head(toClient).n \in 1..MaxEmit
    <2>1. Head(toClient).n \in 0..MaxEmit
      BY <1>4, UnitFields
    <2> QED BY <2>1, <1>3, <1>5
  <1>7. got' \in Seq(1..MaxEmit) /\ Len(got') = Len(got) + 1
        /\ \A i \in 1..(Len(got) + 1) : got'[i] = IF i <= Len(got) THEN got[i] ELSE Head(toClient).n
    BY <1>2, <1>3, <1>6, AppendUnits
  <1>8. MuxTypes' /\ AnswerIsOwn'
    BY <1>1, <1>2, <1>4, <1>7 DEF MuxTypes, AnswerIsOwn
  <1>9. (Len(codec.rx) + Len(got)) + 1 = Len(codec.rx) + Len(got')
        /\ Len(codec.rx) + Len(got) + Len(toClient) = Len(codec.rx) + Len(got') + Len(toClient')
    <2> DEFINE x == Len(codec.rx)
               g == Len(got)
               h == Len(got')
               t == Len(toClient)
               r == Len(toClient')
    <2>1. x \in Nat /\ g \in Nat /\ h = g + 1 /\ t \in Nat /\ r = t - 1
      BY <1>3, <1>4, <1>7
    <2> HIDE DEF x, g, h, t, r
    <2>2. (x + g) + 1 = x + h /\ x + g + t = x + h + r
      BY <2>1
    <2> QED BY <2>2 DEF x, g, h, t, r
  <1>10. \A i \in 1..Len(got') : got'[i] = Len(codec.rx) + i
    <2> SUFFICES ASSUME NEW i \in 1..(Len(got) + 1) PROVE got'[i] = Len(codec.rx) + i
      BY <1>7
    <2>1. CASE i <= Len(got)
      <3>1. got'[i] = got[i] /\ i \in 1..Len(got)
        BY <2>1, <1>3, <1>7
      <3> QED BY <3>1, <1>1 DEF Pipes
    <2>2. CASE ~(i <= Len(got))
      <3>1. got'[i] = (Len(codec.rx) + Len(got)) + 1
        BY <2>2, <1>5, <1>7
      <3>2. i = Len(got) + 1 /\ (Len(codec.rx) + Len(got)) + 1 = Len(codec.rx) + (Len(got) + 1)
        <4>1. \A x \in Nat, g \in Nat : \A j \in 1..(g + 1) :
                ~(j <= g) => j = g + 1 /\ (x + g) + 1 = x + (g + 1)
          OBVIOUS
        <4> QED BY <2>2, <1>3, <4>1, Zenon
      <3> QED BY <3>1, <3>2
    <2> QED BY <2>1, <2>2
  <1>11. Bytes(toClient', Len(codec.rx) + Len(got'))
    BY <1>5, <1>9
  <1>12. Pipes'
    BY <1>1, <1>2, <1>9, <1>10, <1>11 DEF Pipes
  <1>13. Idle'
    BY <1>1, <1>2 DEF MuxInv, AwaitsAnswer, Idle
  <1> QED BY <1>1, <1>2, <1>8, <1>12, <1>13 DEF MuxInv

LEMMA FrameUnits ==
  ASSUME NEW kind \in EventKinds, NEW tag \in 0..TagMax, NEW code \in 0..3, NEW id \in Nat, NEW n \in 0..MaxEmit
  PROVE  \E h \in Units, b \in Units :
           /\ Frame(kind, tag, code, id, n) = <<h, b>>
           /\ h.unit = "head" /\ b.unit = "body" /\ h.id = id /\ h.n = n /\ b.n = n
           /\ Step(h) = (IF kind \in {"Attached", "Detached"} THEN 1 ELSE 0) /\ Step(b) = 0
  <1> DEFINE h == [unit |-> "head", kind |-> kind, tag |-> tag, code |-> code, id |-> id, n |-> n]
             b == [unit |-> "body", kind |-> kind, tag |-> tag, code |-> code, id |-> id, n |-> n]
  <1>1. h \in Units /\ b \in Units
    BY DEF Units
  <1>2. Frame(kind, tag, code, id, n) = <<h, b>>
    BY DEF Frame
  <1>3. h.unit = "head" /\ b.unit = "body" /\ h.id = id /\ h.n = n /\ b.n = n /\ h.kind = kind
    OBVIOUS
  <1> HIDE DEF h, b
  <1>4. Step(h) = (IF kind \in {"Attached", "Detached"} THEN 1 ELSE 0) /\ Step(b) = 0
    BY <1>3 DEF Step, IsDeviceEvent
  <1> QED BY <1>1, <1>2, <1>3, <1>4

LEMMA LineGrows ==
  ASSUME MuxTypes, NEW u \in Seq(Units), toClient' = toClient \o u, codec' = codec
  PROVE  toClient' \in Seq(Units) /\ line' = line \o u
  <1>1. codec.rx \in Seq(Units) /\ toClient \in Seq(Units)
    BY LineUnits
  <1>2. toClient \o u \in Seq(Units)
    BY <1>1, ConcatUnits
  <1>3. (codec.rx \o toClient) \o u = codec.rx \o (toClient \o u)
    <2> DEFINE r == codec.rx
    <2>1. r \in Seq(Units)
      BY <1>1
    <2> HIDE DEF r
    <2>2. (r \o toClient) \o u = r \o (toClient \o u)
      BY <1>1, <2>1, ConcatOrder, SMTT(30)
    <2> QED BY <2>2 DEF r
  <1> QED BY <1>2, <1>3 DEF line

\* The peer answers the request it has been sent with one frame.
LEMMA ReplyInv ==
  ASSUME MuxInv, state = "serving", toMux # <<>>,
         NEW h \in Units, NEW b \in Units, NEW st \in {"serving", "listening", "pipe", "closed"}, NEW failed \in BOOLEAN,
         Reply(<<h, b>>, st, failed),
         h.unit = "head", b.unit = "body", h.id = Head(toMux).id, h.n = 0, b.n = 0, Step(h) = 0, Step(b) = 0,
         st = "listening" => Head(toMux).kind = "listen",
         st = "pipe" => Head(toMux).kind = "connect"
  PROVE  MuxInv'
  <1> DEFINE u == <<h, b>>
  <1>1. MuxTypes /\ AnswerIsOwn
    BY DEF MuxInv
  <1>2. UNCHANGED <<codec, decoding, call, mode, log, peer, emitted, got>>
        /\ toMux' = Tail(toMux) /\ toClient' = toClient \o u /\ state' = st
    BY DEF Reply
  <1>3. u \in Seq(Units) /\ Len(u) = 2 /\ u[1] = h /\ u[2] = b
    BY PairUnits
  <1> HIDE DEF u
  <1>4. toClient' \in Seq(Units) /\ line' = line \o u
    BY <1>1, <1>2, <1>3, LineGrows
  <1>5. toMux' \in Seq(MuxRequests) /\ Len(toMux') = Len(toMux) - 1 /\ Head(toMux) = toMux[1]
    BY <1>1, <1>2, TailUnits DEF MuxTypes
  <1>6. MuxTypes' /\ AnswerIsOwn'
    BY <1>1, <1>2, <1>4, <1>5 DEF MuxTypes, AnswerIsOwn
  <1>7. line = <<>> => line' = u
    BY <1>3, <1>4
  <1>8. ~(mode' = "calls" /\ Idle') /\ mode' # "pipe"
    BY <1>2 DEF MuxInv, Resting, Pipes, Idle
  <1>9. ~Idle' => AwaitsAnswer'
    <2> SUFFICES ASSUME AwaitsAnswer PROVE AwaitsAnswer'
      BY <1>2 DEF MuxInv, Idle
    <2>1. Sent /\ toMux = <<call>>
      BY DEF AwaitsAnswer, Sent
    <2>2. Head(toMux) = call /\ toMux' = <<>>
      BY <2>1, <1>2
    <2>3. line' = u /\ emitted' = 0 /\ codec'.events = <<>>
      BY <2>1, <1>2, <1>7 DEF Sent
    <2>4. Bytes(Rest(line'), 0)
      <3>1. Len(u) >= 2 /\ Len(u) - 2 = 0
        BY <1>3
      <3>2. Len(Rest(u)) = 0
        BY <3>1, <1>3, RestUnits
      <3> QED BY <3>2, <2>3 DEF Bytes
    <2>5. Answered'
      BY <2>2, <2>3, <2>4, <1>2, <1>3 DEF Answered
    <2>6. call.kind # "listen"
      BY <1>1 DEF MuxTypes
    <2>7. mode = "calls" /\ got = <<>> /\ call.kind # "none"
      BY DEF AwaitsAnswer
    <2> QED BY <2>2, <2>3, <2>5, <2>6, <2>7, <1>2 DEF AwaitsAnswer
  <1>10. mode' = "listener" => Listens'
    <2> SUFFICES ASSUME Listens PROVE Listens'
      BY <1>2 DEF MuxInv
    <2>1. Len(toMux) = 1 /\ toMux[1].kind = "listen" /\ codec.events = <<>> /\ line = <<>> /\ emitted = 0 /\ got = <<>>
      BY DEF Listens
    <2>2. toMux' = <<>> /\ Head(toMux).kind = "listen"
      BY <2>1, <1>5, NoUnits
    <2>3. line' = u /\ codec'.events = <<>> /\ emitted' = 0 /\ got' = <<>> /\ Len(got') = 0
      BY <2>1, <1>2, <1>7, NoUnits
    <2>4. Framed(line') /\ Leads(line', 0, h.n)
      <3>1. <<>> \o u = u
        BY <1>3
      <3>2. Framed(<<>> \o <<h, b>>)
        BY NoUnits, EmptyLine, FramedAppend
      <3>3. Leads(<<>>, 0, 0) /\ <<>> \in Seq(Units)
        BY EmptyLine, NoUnits
      <3>4. Leads(<<>> \o <<h, b>>, 0, h.n)
        <4>1. h.n = 0 + Step(h) /\ b.n = h.n /\ 0 \in Nat
          OBVIOUS
        <4> QED BY <3>3, <4>1, LeadsAppend
      <3> QED BY <3>1, <3>2, <3>4, <2>3 DEF u
    <2>5. codec'.events \o line' = line' /\ Len(codec'.events) = 0
      BY <2>3, <1>3, NoUnits
    <2>6. state' # "pipe"
      BY <2>2, <1>2
    <2>7. Leads(codec'.events \o line', Len(got'), emitted')
      BY <2>3, <2>4, <2>5
    <2> QED BY <2>2, <2>3, <2>4, <2>5, <2>6, <2>7 DEF Listens
  <1> QED BY <1>2, <1>6, <1>8, <1>9, <1>10 DEF MuxInv

LEMMA AskedFacts ==
  ASSUME MuxInv, toMux # <<>>
  PROVE  Head(toMux).tag \in 0..TagMax /\ Head(toMux).id \in Nat
  <1>1. toMux \in Seq(MuxRequests)
    BY DEF MuxInv, MuxTypes
  <1>2. Head(toMux) \in MuxRequests
    BY <1>1, TailUnits
  <1> QED BY <1>2 DEF MuxRequests

\* Every answer of a peer is such a frame.
LEMMA AnswerInv ==
  ASSUME MuxInv, state = "serving", toMux # <<>>,
         NEW kind \in {"Result", "DeviceList", "Buid", "PairRecord"}, NEW code \in 0..3,
         NEW st \in {"serving", "listening", "pipe", "closed"}, NEW failed \in BOOLEAN,
         Reply(Frame(kind, Head(toMux).tag, code, Head(toMux).id, 0), st, failed),
         st = "listening" => Head(toMux).kind = "listen",
         st = "pipe" => Head(toMux).kind = "connect"
  PROVE  MuxInv'
  <1>1. kind \in EventKinds /\ 0 \in 0..MaxEmit /\ kind \notin {"Attached", "Detached"}
    BY UsbmuxAssumption DEF EventKinds
  <1>2. PICK h \in Units, b \in Units :
           /\ Frame(kind, Head(toMux).tag, code, Head(toMux).id, 0) = <<h, b>>
           /\ h.unit = "head" /\ b.unit = "body" /\ h.id = Head(toMux).id /\ h.n = 0 /\ b.n = 0
           /\ Step(h) = (IF kind \in {"Attached", "Detached"} THEN 1 ELSE 0) /\ Step(b) = 0
    BY <1>1, AskedFacts, FrameUnits
  <1>3. Step(h) = 0 /\ Reply(<<h, b>>, st, failed)
    BY <1>1, <1>2
  <1> QED BY <1>2, <1>3, ReplyInv

LEMMA SimAnswersInv ==
  ASSUME MuxInv, SimListDevices \/ SimReadBuid \/ SimListen \/ SimConnect \/ SimOther
  PROVE  MuxInv'
  <1>0. 0 \in 0..3 /\ 1 \in 0..3
    OBVIOUS
  <1>1. CASE SimListDevices
    <2>1. Reply(Frame("DeviceList", Head(toMux).tag, 0, Head(toMux).id, 0), "serving", FALSE)
          /\ state = "serving" /\ toMux # <<>>
      BY <1>1 DEF SimListDevices, Asked, Answer
    <2> QED BY <1>0, <2>1, AnswerInv
  <1>2. CASE SimReadBuid
    <2>1. Reply(Frame("Buid", Head(toMux).tag, 0, Head(toMux).id, 0), "serving", FALSE)
          /\ state = "serving" /\ toMux # <<>>
      BY <1>2 DEF SimReadBuid, Asked, Answer
    <2> QED BY <1>0, <2>1, AnswerInv
  <1>3. CASE SimListen
    <2>1. Reply(Frame("Result", Head(toMux).tag, 0, Head(toMux).id, 0), "listening", FALSE)
          /\ state = "serving" /\ toMux # <<>> /\ Head(toMux).kind = "listen"
      BY <1>3 DEF SimListen, Asked, Result
    <2> QED BY <1>0, <2>1, AnswerInv
  <1>4. CASE SimConnect
    <2>1. PICK code \in {0, 2, 3} :
            Reply(Frame("Result", Head(toMux).tag, code, Head(toMux).id, 0),
                  IF code = 0 THEN "pipe" ELSE "closed", code # 0)
      BY <1>4 DEF SimConnect, Result
    <2>2. state = "serving" /\ toMux # <<>> /\ Head(toMux).kind = "connect" /\ code \in 0..3
      BY <1>4 DEF SimConnect, Asked
    <2>3. (IF code = 0 THEN "pipe" ELSE "closed") \in {"serving", "listening", "pipe", "closed"}
          /\ (IF code = 0 THEN "pipe" ELSE "closed") # "listening" /\ (code # 0) \in BOOLEAN
      OBVIOUS
    <2> QED BY <2>1, <2>2, <2>3, AnswerInv
  <1>5. CASE SimOther
    <2>1. Reply(Frame("Result", Head(toMux).tag, 1, Head(toMux).id, 0), "closed", TRUE)
          /\ state = "serving" /\ toMux # <<>>
      BY <1>5 DEF SimOther, Asked, Result
    <2> QED BY <1>0, <2>1, AnswerInv
  <1> QED BY <1>1, <1>2, <1>3, <1>4, <1>5

LEMMA UsbmuxdAnswerInv ==
  ASSUME MuxInv, UsbmuxdAnswer
  PROVE  MuxInv'
  <1> DEFINE r == Head(toMux)
             st == CASE r.kind = "listen" -> "listening" [] r.kind = "connect" -> "pipe" [] OTHER -> "serving"
  <1>1. state = "serving" /\ toMux # <<>> /\ 0 \in 0..3 /\ 2 \in 0..3
    BY DEF UsbmuxdAnswer, Asked
  <1>2. CASE Reply(Result(r, 2), "serving", TRUE)
    <2>1. Reply(Frame("Result", Head(toMux).tag, 2, Head(toMux).id, 0), "serving", TRUE)
      BY <1>2 DEF Result
    <2> QED BY <1>1, <2>1, AnswerInv
  <1>3. CASE Reply(IF r.kind \in DOMAIN AnswerKind THEN Answer(r, AnswerKind[r.kind]) ELSE Result(r, 0), st, FALSE)
    <2>1. st \in {"serving", "listening", "pipe", "closed"}
          /\ (st = "listening" => r.kind = "listen") /\ (st = "pipe" => r.kind = "connect")
      OBVIOUS
    <2> HIDE DEF st
    <2>2. CASE r.kind \in DOMAIN AnswerKind
      <3> DEFINE k == AnswerKind[r.kind]
      <3>1. k \in {"Result", "DeviceList", "Buid", "PairRecord"}
        BY <2>2 DEF AnswerKind
      <3>2. Reply(Frame(k, Head(toMux).tag, 0, Head(toMux).id, 0), st, FALSE)
        BY <1>3, <2>2 DEF Answer
      <3> HIDE DEF k
      <3> QED BY <1>1, <2>1, <3>1, <3>2, AnswerInv
    <2>3. CASE r.kind \notin DOMAIN AnswerKind
      <3>1. Reply(Frame("Result", Head(toMux).tag, 0, Head(toMux).id, 0), st, FALSE)
        BY <1>3, <2>3 DEF Result
      <3> QED BY <1>1, <2>1, <3>1, AnswerInv
    <2> QED BY <2>2, <2>3
  <1> QED BY <1>2, <1>3 DEF UsbmuxdAnswer

\* A device event, or a message nobody knows, reaches the line of a listener.
LEMMA EventInv ==
  ASSUME MuxInv, state = "listening",
         NEW h \in Units, NEW b \in Units, toClient' = toClient \o <<h, b>>, emitted' = h.n,
         UNCHANGED <<codec, decoding, call, mode, log, toMux, peer, state, refused, got>>,
         h.unit = "head", b.unit = "body", h.n = emitted + Step(h), b.n = h.n, Step(b) = 0
  PROVE  MuxInv'
  <1> DEFINE u == <<h, b>>
  <1>1. MuxTypes /\ AnswerIsOwn
    BY DEF MuxInv
  <1>2. u \in Seq(Units)
    BY PairUnits
  <1>3. toClient' \in Seq(Units) /\ line' = line \o u
    BY <1>1, <1>2, LineGrows
  <1>4. MuxTypes' /\ AnswerIsOwn'
    BY <1>1, <1>3, UnitFields DEF MuxTypes, AnswerIsOwn
  <1>5. mode' # "pipe" /\ Idle' /\ ~(mode' = "calls" /\ Idle')
    BY DEF MuxInv, Pipes, AwaitsAnswer, Resting, Idle
  <1>6. mode' = "listener" => Listens'
    <2> SUFFICES ASSUME Listens PROVE Listens'
      BY DEF MuxInv
    <2>1. line \in Seq(Units) /\ codec.events \in Seq(Units) /\ Len(got) \in Nat /\ emitted \in Nat
      BY <1>1, LineUnits, NoUnits, UsbmuxAssumption DEF MuxTypes
    <2>2. codec.events \o line \in Seq(Units)
      BY <2>1, ConcatUnits
    <2>3. Framed(line')
      BY <1>3, <2>1, FramedAppend DEF Listens
    <2> DEFINE e == codec.events
    <2>4. Leads((e \o line) \o u, Len(got), h.n)
      BY <2>1, <2>2, LeadsAppend DEF Listens
    <2>5. (e \o line) \o u = e \o (line \o u)
      <3>1. e \in Seq(Units)
        BY <2>1
      <3>2. \A x, y, z \in Seq(Units) : (x \o y) \o z = x \o (y \o z)
        BY ConcatOrder, SMTT(30)
      <3> HIDE DEF e, u
      <3> QED BY <1>2, <2>1, <3>1, <3>2, Zenon
    <2>6. Leads(codec'.events \o line', Len(got'), emitted')
      BY <1>3, <2>4, <2>5
    <2> QED BY <2>3, <2>6 DEF Listens
  <1> QED BY <1>4, <1>5, <1>6 DEF MuxInv

LEMMA SimAttachInv ==
  ASSUME MuxInv, SimAttach
  PROVE  MuxInv'
  <1>1. emitted + 1 \in 0..MaxEmit /\ emitted \in Nat /\ 0 \in 0..TagMax /\ 0 \in 0..3 /\ 0 \in Nat
    BY UsbmuxAssumption DEF MuxInv, MuxTypes, SimAttach
  <1>2. "Attached" \in EventKinds
    BY DEF EventKinds
  <1>3. PICK h \in Units, b \in Units :
           /\ Frame("Attached", 0, 0, 0, emitted + 1) = <<h, b>>
           /\ h.unit = "head" /\ b.unit = "body" /\ h.n = emitted + 1 /\ b.n = emitted + 1
           /\ Step(h) = (IF "Attached" \in {"Attached", "Detached"} THEN 1 ELSE 0) /\ Step(b) = 0
    BY <1>1, <1>2, FrameUnits
  <1>4. toClient' = toClient \o <<h, b>> /\ emitted' = emitted + 1 /\ state = "listening"
        /\ UNCHANGED <<codec, decoding, call, mode, log, toMux, peer, state, refused, got>>
    BY <1>3 DEF SimAttach, DeviceEvent
  <1>5. h.n = emitted + Step(h) /\ emitted' = h.n /\ b.n = h.n
    BY <1>3, <1>4
  <1> QED BY <1>3, <1>4, <1>5, EventInv

\* A byte of the service reaches the line of a pipe, or of a call of connect.
LEMMA ByteInv ==
  ASSUME MuxInv, state = "pipe", emitted < MaxEmit,
         toClient' = toClient \o Byte(emitted + 1), emitted' = emitted + 1,
         UNCHANGED <<codec, decoding, call, mode, log, toMux, peer, state, refused, got>>
  PROVE  MuxInv'
  <1> DEFINE u == [unit |-> "raw", kind |-> "byte", tag |-> 0, code |-> 0, id |-> 0, n |-> emitted + 1]
  <1>1. MuxTypes /\ AnswerIsOwn
    BY DEF MuxInv
  <1>2. emitted \in Nat /\ emitted + 1 \in 0..MaxEmit
    BY <1>1, UsbmuxAssumption DEF MuxTypes
  <1>3. u \in Units /\ u.unit = "raw" /\ u.n = emitted + 1 /\ Byte(emitted + 1) = <<u>>
    BY <1>2, UsbmuxAssumption DEF Units, EventKinds, Byte
  <1> HIDE DEF u
  <1>4. <<u>> \in Seq(Units) /\ Len(<<u>>) = 1
    BY <1>3, PairUnits
  <1>5. toClient' \in Seq(Units) /\ line' = line \o <<u>>
    BY <1>1, <1>3, <1>4, LineGrows
  <1>6. MuxTypes' /\ AnswerIsOwn'
    BY <1>1, <1>2, <1>5 DEF MuxTypes, AnswerIsOwn
  <1>7. line \in Seq(Units) /\ toClient \in Seq(Units) /\ Len(line') = Len(line) + 1 /\ Len(line) \in Nat
    <2>1. line \in Seq(Units) /\ toClient \in Seq(Units) /\ Len(line) \in Nat
      BY <1>1, LineUnits
    <2>2. Len(line \o <<u>>) = Len(line) + Len(<<u>>)
      BY <2>1, <1>4, ConcatUnits
    <2> QED BY <2>1, <2>2, <1>4, <1>5
  <1>8. mode' # "listener" /\ ~(mode' = "calls" /\ Idle')
    BY DEF MuxInv, Listens, Resting, Idle
  <1>9. ~Idle' => AwaitsAnswer'
    <2> SUFFICES ASSUME AwaitsAnswer PROVE AwaitsAnswer'
      BY DEF MuxInv, Idle
    <2>1. Answered \/ Settled
      BY DEF AwaitsAnswer, Sent
    <2>2. CASE Answered
      <3>1. Len(line) = emitted + 2 /\ line[1].unit = "head" /\ line[2].unit = "body" /\ line[1].id = call.id
            /\ Bytes(Rest(line), 0) /\ codec.events = <<>>
        BY <2>2 DEF Answered
      <3>2. Len(line) >= 2 /\ Len(line) - 2 = emitted
        BY <1>2, <3>1
      <3>3. Rest(line) \o <<u>> = Rest(line') /\ line'[1] = line[1] /\ line'[2] = line[2]
        BY <1>4, <1>5, <1>7, <3>2, RestOfLine
      <3>4. Rest(line) \in Seq(Units) /\ Len(Rest(line)) = emitted
        BY <1>7, <3>2, RestUnits
      <3>5. u.n = 0 + Len(Rest(line)) + 1 /\ 0 \in Nat
        BY <1>2, <1>3, <3>4
      <3>6. Bytes(Rest(line'), 0)
        BY <1>3, <3>1, <3>3, <3>4, <3>5, BytesAppend
      <3>7. Len(line') = emitted' + 2
        BY <1>2, <1>7, <3>1
      <3>8. Answered'
        BY <3>1, <3>3, <3>6, <3>7 DEF Answered
      <3> QED BY <3>8 DEF AwaitsAnswer
    <2>3. CASE Settled
      <3>1. Bytes(line, 0) /\ Len(line) = emitted
        BY <2>3 DEF Settled
      <3>2. u.n = 0 + Len(line) + 1 /\ 0 \in Nat
        BY <1>2, <1>3, <3>1
      <3>3. Bytes(line', 0)
        BY <1>3, <1>5, <1>7, <3>1, <3>2, BytesAppend
      <3>4. Settled'
        BY <1>7, <2>3, <3>1, <3>3 DEF Settled
      <3> QED BY <3>4 DEF AwaitsAnswer
    <2> QED BY <2>1, <2>2, <2>3
  <1>10. mode' = "pipe" => Pipes'
    <2> SUFFICES ASSUME Pipes PROVE Pipes'
      BY DEF MuxInv
    <2> DEFINE m == Len(codec.rx) + Len(got)
    <2>1. Bytes(toClient, m) /\ emitted = m + Len(toClient)
      BY DEF Pipes
    <2>2. m \in Nat /\ Len(toClient) \in Nat
      <3>1. Len(codec.rx) \in Nat /\ Len(toClient) \in Nat /\ got \in Seq(1..MaxEmit)
        BY <1>1, LineUnits DEF MuxTypes
      <3>2. Len(got) \in Nat
        BY <3>1, NoUnits
      <3> QED BY <3>1, <3>2
    <2> HIDE DEF m
    <2>3. Len(toClient') = Len(toClient) + Len(<<u>>)
      <3> DEFINE p == <<u>>
      <3>1. toClient' = toClient \o p /\ p \in Seq(Units)
        BY <1>3, <1>4
      <3> HIDE DEF p
      <3>2. Len(toClient') = Len(toClient) + Len(p)
        BY <1>7, <3>1, ConcatUnits
      <3> QED BY <3>2 DEF p
    <2>4. u.n = m + Len(toClient) + 1 /\ emitted' = m + Len(toClient')
      BY <1>3, <1>4, <2>1, <2>2, <2>3
    <2>5. Bytes(toClient', m)
      BY <1>3, <1>7, <2>1, <2>2, <2>4, BytesAppend
    <2> QED BY <2>4, <2>5 DEF Pipes, m
  <1> QED BY <1>6, <1>8, <1>9, <1>10 DEF MuxInv

LEMMA EmitInv ==
  ASSUME MuxInv, Emit
  PROVE  MuxInv'
  <1>1. emitted + 1 \in 0..MaxEmit /\ emitted \in 0..MaxEmit /\ emitted \in Nat /\ 0 \in 0..TagMax /\ 0 \in 0..3 /\ 0 \in Nat
    BY UsbmuxAssumption DEF MuxInv, MuxTypes, Emit
  <1>2. UNCHANGED <<codec, decoding, call, mode, log, toMux, peer, state, refused, got>> /\ emitted < MaxEmit
    BY DEF Emit
  <1>3. CASE state = "listening" /\ \E k \in {"Attached", "Detached"} :
               toClient' = toClient \o DeviceEvent(k, emitted + 1) /\ emitted' = emitted + 1
    <2>1. PICK k \in {"Attached", "Detached"} :
            toClient' = toClient \o DeviceEvent(k, emitted + 1) /\ emitted' = emitted + 1
      BY <1>3
    <2>2. k \in EventKinds
      BY DEF EventKinds
    <2>3. PICK h \in Units, b \in Units :
             /\ Frame(k, 0, 0, 0, emitted + 1) = <<h, b>>
             /\ h.unit = "head" /\ b.unit = "body" /\ h.n = emitted + 1 /\ b.n = emitted + 1
             /\ Step(h) = (IF k \in {"Attached", "Detached"} THEN 1 ELSE 0) /\ Step(b) = 0
      BY <1>1, <2>2, FrameUnits
    <2>4. toClient' = toClient \o <<h, b>> /\ h.n = emitted + Step(h) /\ emitted' = h.n /\ b.n = h.n
      BY <2>1, <2>3 DEF DeviceEvent
    <2> QED BY <1>2, <1>3, <2>3, <2>4, EventInv
  <1>4. CASE state = "listening" /\ toClient' = toClient \o DeviceEvent("Paired", emitted) /\ emitted' = emitted
    <2> DEFINE k == "Paired"
    <2>1. k \in EventKinds /\ k \notin {"Attached", "Detached"}
      BY DEF EventKinds
    <2>0. toClient' = toClient \o Frame(k, 0, 0, 0, emitted)
      BY <1>4 DEF DeviceEvent
    <2> HIDE DEF k
    <2>2. PICK h \in Units, b \in Units :
             /\ Frame(k, 0, 0, 0, emitted) = <<h, b>>
             /\ h.unit = "head" /\ b.unit = "body" /\ h.n = emitted /\ b.n = emitted
             /\ Step(h) = (IF k \in {"Attached", "Detached"} THEN 1 ELSE 0) /\ Step(b) = 0
      BY <1>1, <2>1, FrameUnits
    <2>3. toClient' = toClient \o <<h, b>> /\ b.n = h.n /\ emitted' = h.n
      BY <1>4, <2>0, <2>2
    <2>4. h.n = emitted + Step(h)
      BY <1>1, <2>1, <2>2
    <2> QED BY <1>2, <1>4, <2>2, <2>3, <2>4, EventInv
  <1>5. CASE state = "pipe" /\ toClient' = toClient \o Byte(emitted + 1) /\ emitted' = emitted + 1
    BY <1>2, <1>5, ByteInv
  <1> QED BY <1>3, <1>4, <1>5 DEF Emit

LEMMA CloseInv ==
  ASSUME MuxInv, Close
  PROVE  MuxInv'
  <1>1. state' = "closed"
        /\ UNCHANGED <<codec, decoding, call, mode, log, toMux, toClient, peer, refused, emitted, got>>
    BY DEF Close
  <1>2. MuxTypes' /\ AnswerIsOwn' /\ line' = line
    BY <1>1 DEF MuxInv, MuxTypes, AnswerIsOwn, line
  <1>3. mode' = "calls" /\ Idle' => Resting'
    BY <1>1 DEF MuxInv, Resting, Idle
  <1>4. ~Idle' => AwaitsAnswer'
    <2> SUFFICES ASSUME AwaitsAnswer PROVE AwaitsAnswer'
      BY <1>1 DEF MuxInv, Idle
    <2>1. Sent => Settled'
      BY <1>1, <1>2, NoUnits, EmptyLine DEF Sent, Settled
    <2>2. (Answered => Answered') /\ (Settled => Settled')
      BY <1>1, <1>2 DEF Answered, Settled
    <2> QED BY <1>1, <2>1, <2>2 DEF AwaitsAnswer
  <1>5. mode' = "listener" => Listens'
    BY <1>1, <1>2 DEF MuxInv, Listens
  <1>6. mode' = "pipe" => Pipes'
    BY <1>1 DEF MuxInv, Pipes
  <1> QED BY <1>1, <1>2, <1>3, <1>4, <1>5, <1>6 DEF MuxInv

LEMMA MuxStutter ==
  ASSUME MuxInv, UNCHANGED muxVars
  PROVE  MuxInv'
  <1>1. UNCHANGED <<codec, decoding, call, mode, log, toMux, toClient, peer, state, refused, emitted, got>>
    BY DEF muxVars
  <1>2. line' = line
    BY <1>1 DEF line
  <1>3. MuxTypes' /\ AnswerIsOwn'
    BY <1>1 DEF MuxInv, MuxTypes, AnswerIsOwn
  <1>4. mode' = "calls" /\ Idle' => Resting'
    BY <1>1 DEF MuxInv, Resting, Idle
  <1>5. ~Idle' => AwaitsAnswer'
    BY <1>1, <1>2 DEF MuxInv, Idle, AwaitsAnswer, Sent, Answered, Settled
  <1>6. mode' = "listener" => Listens'
    BY <1>1, <1>2 DEF MuxInv, Listens
  <1>7. mode' = "pipe" => Pipes'
    BY <1>1 DEF MuxInv, Pipes
  <1> QED BY <1>1, <1>3, <1>4, <1>5, <1>6, <1>7 DEF MuxInv

LEMMA MuxInvStep == MuxInv /\ [MuxNext]_muxVars => MuxInv'
  <1> SUFFICES ASSUME MuxInv, [MuxNext]_muxVars PROVE MuxInv'
    OBVIOUS
  <1>1. CASE \E k \in Kinds \cup {"listen"} : Start(k)
    BY <1>1, StartInv
  <1>2. CASE Client
    BY <1>2, ReadInv, ProcessRxInv, TakeEventInv, ListenerNextInv, ReadEofInv, PipeReadInv DEF Client
  <1>3. CASE Sim
    BY <1>3, SimAnswersInv, SimAttachInv DEF Sim
  <1>4. CASE UsbmuxdAnswer
    BY <1>4, UsbmuxdAnswerInv
  <1>5. CASE Emit
    BY <1>5, EmitInv
  <1>6. CASE Close
    BY <1>6, CloseInv
  <1>7. CASE UNCHANGED muxVars
    BY <1>7, MuxStutter
  <1> QED BY <1>1, <1>2, <1>3, <1>4, <1>5, <1>6, <1>7 DEF MuxNext

LEMMA MuxHolds == MuxSpec => []MuxInv
  BY MuxInvInit, MuxInvStep, PTL DEF MuxSpec

\* Every call on a connection to usbmuxd that returns has been told so by the
\* answer to its own request, and no request has the tag of the peer's own
\* messages: Connection and Codec, for any number of calls, tags, events and
\* bytes, and however the reads cut the stream.
THEOREM AnswersOwn == MuxSpec => []CallsSafe
  <1>1. MuxInv => CallsSafe
    <2> SUFFICES ASSUME MuxInv PROVE CallsSafe
      OBVIOUS
    <2>1. codec.nextTag \in 1..TagMax /\ codec.pending \subseteq 1..TagMax
      BY CodecFields DEF MuxInv, MuxTypes
    <2>2. call.kind \in Kinds \cup {"none"} /\ call.tag \in 0..TagMax
      BY DEF MuxInv, MuxTypes, MuxRequests
    <2> QED BY <2>1, <2>2 DEF MuxInv, MuxTypes, CallsSafe, MuxTypeOK
  <1> QED BY <1>1, MuxHolds, PTL

\* A listener returns the device events of usbmuxd in order and each once, and
\* a pipe goes on where the buffer of the codec ends: nothing is lost or comes
\* twice inside the connection.
THEOREM NothingLost == MuxSpec => []NothingLostInside
  <1>1. MuxInv => NothingLostInside
    <2> SUFFICES ASSUME MuxInv PROVE NothingLostInside
      OBVIOUS
    <2>1. codec.rx \in Seq(Units) /\ codec.events \in Seq(Units) /\ line \in Seq(Units) /\ got \in Seq(1..MaxEmit)
      BY LineUnits DEF MuxInv, MuxTypes
    <2>2. DOMAIN codec.rx = 1..Len(codec.rx) /\ DOMAIN codec.events = 1..Len(codec.events) /\ DOMAIN got = 1..Len(got)
      BY <2>1
    <2>3. ASSUME mode = "listener" PROVE Successive(codec.events, Len(got)) /\ \A i \in DOMAIN got : got[i] = i
      <3> DEFINE e == codec.events
                 p == e \o line
      <3>1. Listens
        BY <2>3 DEF MuxInv
      <3>2. \A i \in 1..Len(e) : p[i] = e[i] /\ i \in 1..Len(p)
        <4>1. e \in Seq(Units)
          BY <2>1
        <4> HIDE DEF e
        <4>2. Len(p) = Len(e) + Len(line) /\ Len(e) \in Nat /\ Len(line) \in Nat
              /\ \A i \in 1..(Len(e) + Len(line)) : p[i] = IF i <= Len(e) THEN e[i] ELSE line[i - Len(e)]
          BY <2>1, <4>1, ConcatUnits
        <4> HIDE DEF p
        <4> QED BY <4>2
      <3>3. \A i \in 1..Len(p) : p[i].n = (IF i = 1 THEN Len(got) ELSE p[i - 1].n) + Step(p[i])
        BY <3>1 DEF Listens, Leads
      <3>4. \A i \in 1..Len(e) : e[i].unit = "head"
        BY <3>1 DEF Listens
      <3>5. Len(e) \in Nat
        BY <2>1, NoUnits
      <3> HIDE DEF p
      <3>6. ASSUME NEW i \in DOMAIN e
            PROVE  e[i].n = (IF i = 1 THEN Len(got) ELSE e[i - 1].n) + (IF IsDeviceEvent(e[i]) THEN 1 ELSE 0)
        <4>1. i \in 1..Len(e)
          BY <2>2
        <4> HIDE DEF e
        <4>2. i # 1 => i - 1 \in 1..Len(e)
          BY <4>1, <3>5
        <4>3. p[i] = e[i] /\ (i # 1 => p[i - 1] = e[i - 1]) /\ i \in 1..Len(p)
          BY <4>1, <4>2, <3>2
        <4>4. Step(p[i]) = IF IsDeviceEvent(e[i]) THEN 1 ELSE 0
          BY <4>1, <4>3, <3>4 DEF Step
        <4> QED BY <4>3, <4>4, <3>3
      <3> QED BY <3>1, <3>6, <2>2 DEF Successive, Listens
    <2>4. mode = "pipe" => /\ \A i \in DOMAIN codec.rx : codec.rx[i].unit = "raw" /\ codec.rx[i].n = i
                           /\ \A i \in DOMAIN got : got[i] = Len(codec.rx) + i
      BY <2>2 DEF MuxInv, Pipes, Bytes
    <2> QED BY <2>3, <2>4 DEF NothingLostInside
  <1> QED BY <1>1, MuxHolds, PTL

-----------------------------------------------------------------------------
(* Lockdown: pairing.                                                      *)

Pairing == Pairers \cup Supervised

-----------------------------------------------------------------------------
(* The pair record and the device's list of hosts.                         *)

PairTypes ==
  /\ DOMAIN pc = Procs /\ DOMAIN host = Procs
  /\ record \in Hosts \cup {NoHost} /\ trusted \subseteq Hosts /\ unpairs \subseteq Hosts
  /\ \A u \in Unpairers : host[u] \in Hosts \cup {NoHost}

\* A process works with its own HostID, which the device trusts when the
\* record is to be saved.
OwnHost ==
  \A p \in Pairing :
    /\ pc[p] \in {"challenge", "pair", "save"} => host[p] = p
    /\ pc[p] = "save" => p \in trusted

\* A HostID is seen by others only once its process is done with pairing.
SeenWhenDone ==
  \A p \in Pairing :
    (record = p \/ p \in unpairs \/ \E u \in Unpairers : host[u] = p) => pc[p] = "done"

\* An unpair that has sent its request has still to delete the record, or
\* could not.
Told(h) == \E u \in Unpairers : host[u] = h /\ pc[u] \in {"delete", "failed"}
UnpairsTold == record \in unpairs => Told(record)

PairInv == PairTypes /\ OwnHost /\ SeenWhenDone /\ UnpairsTold /\ RecordTrusted

-----------------------------------------------------------------------------
(* The sessions.                                                           *)

Waiting == {"starting", "wait", "listing", "service", "stopping"}
Before == {"start", "read", "hung", "startSession", "starting"}

SessionTypes ==
  /\ DOMAIN pc = Procs
  /\ stream \in [Sessions -> {"Plain", "Upgrading", "Tls"}] /\ ops \in [Sessions -> Nat]
  /\ toDev \in [Sessions -> Seq([op: {"StartSession", "Request", "StopSession"}, n: Nat, tls: BOOLEAN])]
  /\ toHost \in [Sessions -> Seq([kind: {"ok", "error", "ssl"}, n: Nat])]
  /\ dev \in [Sessions -> {"plain", "tls", "closed"}]
  /\ taken \in [Sessions -> Seq(Nat \X Nat)]

\* One request or one reply is under way, the last one, and only while the
\* session waits; what a closed device does not read does not count.
InTurn(s) ==
  /\ toHost[s] # <<>> =>
       /\ Len(toHost[s]) = 1 /\ toHost[s][1].n = ops[s] /\ pc[s] \in Waiting
       /\ dev[s] # "closed" => toDev[s] = <<>>
  /\ toDev[s] # <<>> /\ dev[s] # "closed" =>
       /\ Len(toDev[s]) = 1 /\ toDev[s][1].n = ops[s] /\ pc[s] \in Waiting
       /\ toDev[s][1].op = "StartSession" <=> pc[s] = "starting"

\* A stream is Upgrading from the handshake to the drop only, and plain before.
StreamInTurn(s) ==
  /\ stream[s] = "Upgrading" => pc[s] \in {"handshake", "drop", "done"}
  /\ pc[s] \in Before => stream[s] = "Plain"

\* A device that wants TLS has said so, or has it, or is about to be left.
TlsAnnounced(s) ==
  dev[s] = "tls" =>
    \/ stream[s] = "Tls"
    \/ pc[s] = "starting" /\ toHost[s] # <<>> /\ toHost[s][1].kind = "ssl"
    \/ pc[s] \in {"upgrade", "handshake", "drop", "stopping", "done"}

\* The parts of SessionSafe for one session.
InStep(s) == \A i \in DOMAIN taken[s] : taken[s][i][1] = taken[s][i][2]
Farewell(s) ==
  dev[s] = "tls" => \A i \in DOMAIN toDev[s] : toDev[s][i].tls \/ toDev[s][i].op = "StopSession"

SessionOK(s) == InTurn(s) /\ StreamInTurn(s) /\ TlsAnnounced(s) /\ InStep(s) /\ Farewell(s)
SessionInv == SessionTypes /\ NeverUpgrading /\ \A s \in Sessions : SessionOK(s)

-----------------------------------------------------------------------------
(* PairInv is inductive.                                                   *)

LEMMA PairInvInit == LockdownInit => PairInv
  <1> SUFFICES ASSUME LockdownInit PROVE PairInv
    OBVIOUS
  <1> USE LockdownAssumption DEF LockdownInit, Hosts, Pairing
  <1>1. Pairing \subseteq Procs /\ Unpairers \subseteq Procs
    BY DEF Procs
  <1> QED BY <1>1 DEF PairInv, PairTypes, OwnHost, SeenWhenDone, UnpairsTold, RecordTrusted

\* Steps of processes that neither pair nor unpair.
LEMMA PairUntouched ==
  ASSUME PairInv, UNCHANGED shared, DOMAIN pc' = Procs, DOMAIN host' = Procs,
         \A p \in Pairing \cup Unpairers : pc'[p] = pc[p] /\ host'[p] = host[p]
  PROVE  PairInv'
  BY DEF PairInv, PairTypes, OwnHost, SeenWhenDone, UnpairsTold, Told, RecordTrusted, shared

LEMMA PairingInv ==
  ASSUME PairInv, NEW p \in Pairing,
         PairPrepare(p) \/ PairChallenge(p) \/ PairAsk(p) \/ PairSave(p) \/ PairStops(p)
  PROVE  PairInv'
  <1>0. p \in Procs /\ p \in Hosts /\ p \notin Unpairers /\ Unpairers \subseteq Procs /\ p # NoHost
        /\ Pairing \subseteq Procs
    BY LockdownAssumption DEF Pairing, Procs, Hosts
  <1> USE <1>0 DEF PairInv, PairTypes, OwnHost, SeenWhenDone, UnpairsTold, Told, RecordTrusted,
                   shared, Goto
  <1>1. CASE PairPrepare(p)
    BY <1>1 DEF PairPrepare
  <1>2. CASE PairChallenge(p)
    BY <1>2 DEF PairChallenge
  <1>3. CASE PairAsk(p)
    BY <1>3 DEF PairAsk
  <1>4. CASE PairSave(p)
    BY <1>4 DEF PairSave
  <1>5. CASE PairStops(p)
    BY <1>5 DEF PairStops
  <1> QED BY <1>1, <1>2, <1>3, <1>4, <1>5

LEMMA UnpairInv ==
  ASSUME PairInv, NEW u \in Unpairers,
         UnpairConnect(u) \/ UnpairRead(u) \/ UnpairSend(u) \/ UnpairDelete(u)
  PROVE  PairInv'
  <1>0. u \in Procs /\ u \notin Pairing /\ Unpairers \subseteq Procs /\ Pairing \subseteq Procs
        /\ NoHost \notin Hosts /\ NoHost \notin Pairing
    BY LockdownAssumption DEF Pairing, Procs, Hosts
  <1> USE <1>0 DEF PairInv, PairTypes, OwnHost, SeenWhenDone, UnpairsTold, Told, RecordTrusted,
                   shared, Goto
  <1>1. CASE UnpairConnect(u)
    BY <1>1 DEF UnpairConnect
  <1>2. CASE UnpairRead(u)
    BY <1>2 DEF UnpairRead, ReadRecord
  <1>3. CASE UnpairSend(u)
    BY <1>3 DEF UnpairSend
  <1>4. CASE UnpairDelete(u)
    BY <1>4 DEF UnpairDelete
  <1> QED BY <1>1, <1>2, <1>3, <1>4

LEMMA DeviceUnpairsInv ==
  ASSUME PairInv, DeviceUnpairs
  PROVE  PairInv'
  <1>1. PICK h \in unpairs :
          /\ unpairs' = unpairs \ {h} /\ (trusted' = trusted \ {h} \/ UNCHANGED trusted)
          /\ UNCHANGED <<record, pc, host>>
    BY DEF DeviceUnpairs
  <1>2. h \in Pairing => pc[h] = "done"
    BY DEF PairInv, SeenWhenDone
  <1> QED BY <1>1, <1>2 DEF PairInv, PairTypes, OwnHost, SeenWhenDone, UnpairsTold, Told, RecordTrusted

\* Steps of a session and of its device.
LEMMA SessionsApart ==
  ASSUME PairInv, NEW s \in Sessions,
         SessionStep(s) \/ Requests(s) \/ ListServices(s) \/ DeviceAnswers(s) \/ DeviceCloses(s)
  PROVE  PairInv'
  <1>1. UNCHANGED shared
    BY DEF SessionStep, Requests, ListServices, DeviceAnswers, DeviceCloses, OpenPaired, SessionRead,
       StartSession, SessionStarted, BuildTlsConfig, UpgradeToTls, TakesReply, ListFallback,
       ConnectService, Drop, StopSession, Stopped
  <1>2. pc' = pc \/ \E l : pc' = [pc EXCEPT ![s] = l]
    BY DEF SessionStep, Requests, ListServices, DeviceAnswers, DeviceCloses, OpenPaired, SessionRead,
       ReadRecord, StartSession, SessionStarted, BuildTlsConfig, UpgradeToTls, TakesReply,
       ListFallback, ConnectService, Drop, StopSession, Stopped, Goto
  <1>3. host' = host \/ \E h : host' = [host EXCEPT ![s] = h]
    BY DEF SessionStep, Requests, ListServices, DeviceAnswers, DeviceCloses, OpenPaired, SessionRead,
       ReadRecord, StartSession, SessionStarted, BuildTlsConfig, UpgradeToTls, TakesReply,
       ListFallback, ConnectService, Drop, StopSession, Stopped
  <1>4. s \notin Pairing \cup Unpairers /\ Pairing \cup Unpairers \subseteq Procs
    BY LockdownAssumption DEF Pairing, Procs
  <1>5. DOMAIN pc = Procs /\ DOMAIN host = Procs
    BY DEF PairInv, PairTypes
  <1> QED BY <1>1, <1>2, <1>3, <1>4, <1>5, PairUntouched

\* Whatever processes pair and unpair at the same time, the device trusts the
\* host of the saved pair record, unless an unpair has told it otherwise and
\* has not deleted the record yet, or could not (pairing.rs 37-293).
THEOREM TrustFollowsRecord == LockdownSpec => []RecordTrusted
  <1>1. PairInv /\ [LockdownNext]_lockdownVars => PairInv'
    <2> SUFFICES ASSUME PairInv, [LockdownNext]_lockdownVars PROVE PairInv'
      OBVIOUS
    <2>1. CASE UNCHANGED lockdownVars
      BY <2>1, PairUntouched DEF lockdownVars, PairInv, PairTypes
    <2> QED BY <2>1, PairingInv, UnpairInv, DeviceUnpairsInv, SessionsApart DEF LockdownNext, Pairing
  <1>2. PairInv => RecordTrusted
    BY DEF PairInv
  <1> QED BY <1>1, <1>2, PairInvInit, PTL DEF LockdownSpec

-----------------------------------------------------------------------------
(* SessionInv is inductive.  A step of a session sends a request, takes a  *)
(* reply, or only moves on; each kind has a lemma.                         *)

LEMMA AppendFacts ==
  ASSUME NEW S, NEW q \in Seq(S), NEW e \in S
  PROVE  /\ Append(q, e) \in Seq(S) /\ Append(q, e) # <<>> /\ Len(Append(q, e)) = Len(q) + 1
         /\ Append(q, e)[Len(q) + 1] = e
  OBVIOUS

LEMMA NoneLeft ==
  ASSUME NEW S, NEW q \in Seq(S), Len(q) = 0
  PROVE  q = <<>>
  OBVIOUS

LEMMA LastOneTaken ==
  ASSUME NEW S, NEW q \in Seq(S), Len(q) = 1
  PROVE  Tail(q) = <<>>
  <1>1. q # <<>>
    OBVIOUS
  <1>2. Tail(q) \in Seq(S) /\ Len(Tail(q)) = 0
    BY <1>1
  <1> QED BY <1>2, NoneLeft

LEMMA SessionInvInit == LockdownInit => SessionInv
  BY DEF LockdownInit, SessionInv, SessionTypes, NeverUpgrading, SessionOK, InTurn, StreamInTurn,
         TlsAnnounced, InStep, Farewell

\* What a session has does not depend on the others.
LEMMA SessionUntouched ==
  ASSUME NEW t \in Sessions, SessionOK(t), pc'[t] = pc[t], stream'[t] = stream[t],
         ops'[t] = ops[t], toDev'[t] = toDev[t], toHost'[t] = toHost[t], dev'[t] = dev[t],
         taken'[t] = taken[t]
  PROVE  SessionOK(t)'
  BY DEF SessionOK, InTurn, StreamInTurn, TlsAnnounced, InStep, Farewell

LEMMA OneSession ==
  ASSUME SessionInv, SessionTypes', NeverUpgrading', NEW s \in Sessions, SessionOK(s)',
         \A t \in Sessions \ {s} :
           /\ pc'[t] = pc[t] /\ stream'[t] = stream[t] /\ ops'[t] = ops[t] /\ toDev'[t] = toDev[t]
           /\ toHost'[t] = toHost[t] /\ dev'[t] = dev[t] /\ taken'[t] = taken[t]
  PROVE  SessionInv'
  <1> SUFFICES ASSUME NEW t \in Sessions PROVE SessionOK(t)'
    BY DEF SessionInv
  <1>1. CASE t = s
    BY <1>1
  <1>2. CASE t # s
    BY <1>2, SessionUntouched DEF SessionInv
  <1> QED BY <1>1, <1>2

LEMMA SendKeeps ==
  ASSUME SessionInv, NEW s \in Sessions, NEW op \in {"StartSession", "Request", "StopSession"},
         NEW w \in Waiting, pc[s] \notin Waiting, pc' = [pc EXCEPT ![s] = w], Send(s, op),
         UNCHANGED <<stream, taken>>, stream[s] # "Upgrading",
         op = "StartSession" <=> w = "starting", w = "starting" => pc[s] \in Before,
         dev[s] = "tls" => stream[s] = "Tls" \/ (w = "stopping" /\ op = "StopSession")
  PROVE  SessionInv'
  <1> DEFINE m == [op |-> op, n |-> ops[s] + 1, tls |-> stream[s] = "Tls"]
  <1> USE DEF SessionInv, SessionTypes
  <1>1. /\ toDev' = [toDev EXCEPT ![s] = Append(toDev[s], m)] /\ ops' = [ops EXCEPT ![s] = @ + 1]
        /\ UNCHANGED <<toHost, dev>> /\ panicked' = (panicked \/ stream[s] = "Upgrading")
    BY DEF Send
  <1>2. m \in [op: {"StartSession", "Request", "StopSession"}, n: Nat, tls: BOOLEAN]
    OBVIOUS
  <1>3. s \in DOMAIN pc
    BY DEF Procs
  <1>4. InTurn(s) /\ StreamInTurn(s) /\ TlsAnnounced(s) /\ InStep(s) /\ Farewell(s)
    BY DEF SessionOK
  <1>5. toHost[s] = <<>> /\ (toDev[s] = <<>> \/ dev[s] = "closed")
    BY <1>4 DEF InTurn
  <1>6. m.op = op /\ m.n = ops[s] + 1 /\ m.tls = (stream[s] = "Tls")
    OBVIOUS
  <1> HIDE DEF m
  <1>7. /\ Append(toDev[s], m) # <<>> /\ Len(Append(toDev[s], m)) = Len(toDev[s]) + 1
        /\ Append(toDev[s], m)[Len(toDev[s]) + 1] = m
    <2> DEFINE M == [op: {"StartSession", "Request", "StopSession"}, n: Nat, tls: BOOLEAN]
    <2>1. toDev[s] \in Seq(M) /\ m \in M
      BY <1>2
    <2> HIDE DEF M
    <2> QED BY ONLY <2>1, AppendFacts
  <1>8. SessionTypes'
    BY <1>1, <1>2
  <1>9. NeverUpgrading'
    BY <1>1 DEF NeverUpgrading
  <1>10. InTurn(s)'
    BY <1>1, <1>3, <1>5, <1>6, <1>7 DEF InTurn
  <1>11. StreamInTurn(s)'
    BY <1>1, <1>3, <1>4 DEF StreamInTurn, Waiting, Before
  <1>12. TlsAnnounced(s)'
    BY <1>1, <1>3, <1>4 DEF TlsAnnounced, Waiting
  <1>13. Farewell(s)'
    BY <1>1, <1>2, <1>5, <1>6, <1>7 DEF Farewell
  <1>14. InStep(s)'
    BY <1>4 DEF InStep
  <1>15. SessionOK(s)'
    BY <1>10, <1>11, <1>12, <1>13, <1>14 DEF SessionOK
  <1>16. \A t \in Sessions \ {s} :
           /\ pc'[t] = pc[t] /\ stream'[t] = stream[t] /\ ops'[t] = ops[t] /\ toDev'[t] = toDev[t]
           /\ toHost'[t] = toHost[t] /\ dev'[t] = dev[t] /\ taken'[t] = taken[t]
    BY <1>1 DEF Procs
  <1> QED BY <1>8, <1>9, <1>15, <1>16, OneSession

LEMMA RecvKeeps ==
  ASSUME SessionInv, NEW s \in Sessions, NEW kinds, NEW l, l \notin Before,
         pc[s] \in Waiting, pc' = [pc EXCEPT ![s] = l], Recv(s, kinds), UNCHANGED stream,
         dev[s] = "tls" => stream[s] = "Tls" \/ l \in {"upgrade", "drop", "done"}
  PROVE  SessionInv'
  <1> USE DEF SessionInv, SessionTypes
  <1>1. /\ toHost[s] # <<>> /\ toHost' = [toHost EXCEPT ![s] = Tail(toHost[s])]
        /\ taken' = [taken EXCEPT ![s] = Append(taken[s], <<ops[s], Head(toHost[s]).n>>)]
        /\ UNCHANGED <<toDev, dev, ops, panicked>>
    BY DEF Recv
  <1>2. s \in DOMAIN pc
    BY DEF Procs
  <1>3. InTurn(s) /\ StreamInTurn(s) /\ TlsAnnounced(s) /\ InStep(s) /\ Farewell(s)
    BY DEF SessionOK
  <1>4. /\ Len(toHost[s]) = 1 /\ Head(toHost[s]) = toHost[s][1] /\ toHost[s][1].n = ops[s]
        /\ dev[s] # "closed" => toDev[s] = <<>>
    BY <1>1, <1>3 DEF InTurn
  <1>5. Tail(toHost[s]) = <<>>
    <2> DEFINE R == [kind: {"ok", "error", "ssl"}, n: Nat]
    <2>1. toHost[s] \in Seq(R)
      OBVIOUS
    <2> HIDE DEF R
    <2> QED BY <1>4, <2>1, LastOneTaken
  <1>6. Head(toHost[s]).n = ops[s] /\ ops[s] \in Nat
    BY <1>4
  <1>7. SessionTypes'
    BY <1>1, <1>5, <1>6
  <1>8. NeverUpgrading'
    BY <1>1 DEF NeverUpgrading
  <1>9. InTurn(s)'
    BY <1>1, <1>4, <1>5 DEF InTurn
  <1>10. StreamInTurn(s)' /\ TlsAnnounced(s)'
    BY <1>1, <1>2, <1>3 DEF StreamInTurn, TlsAnnounced, Waiting
  <1>11. InStep(s)'
    <2> DEFINE r == <<ops[s], ops[s]>>
    <2>1. taken'[s] = Append(taken[s], r) /\ r \in Nat \X Nat /\ taken[s] \in Seq(Nat \X Nat)
      BY <1>1, <1>6
    <2>2. r[1] = r[2]
      OBVIOUS
    <2> HIDE DEF r
    <2>3. \A i \in DOMAIN Append(taken[s], r) :
            Append(taken[s], r)[i] = IF i \in DOMAIN taken[s] THEN taken[s][i] ELSE r
      BY <2>1
    <2> QED BY <1>3, <2>1, <2>2, <2>3 DEF InStep
  <1>12. Farewell(s)'
    BY <1>1, <1>3 DEF Farewell
  <1>13. SessionOK(s)'
    BY <1>9, <1>10, <1>11, <1>12 DEF SessionOK
  <1>14. \A t \in Sessions \ {s} :
           /\ pc'[t] = pc[t] /\ stream'[t] = stream[t] /\ ops'[t] = ops[t] /\ toDev'[t] = toDev[t]
           /\ toHost'[t] = toHost[t] /\ dev'[t] = dev[t] /\ taken'[t] = taken[t]
    BY <1>1 DEF Procs
  <1> QED BY <1>7, <1>8, <1>13, <1>14, OneSession

LEMMA MoveKeeps ==
  ASSUME SessionInv, NEW s \in Sessions, NEW l, NEW x \in {"Plain", "Upgrading", "Tls"},
         UNCHANGED <<link, taken, ops, panicked>>,
         pc' = [pc EXCEPT ![s] = l], stream' = [stream EXCEPT ![s] = x],
         pc[s] \notin Waiting \/ Ended(s),
         x = "Upgrading" => l \in {"handshake", "drop", "done"}, l \in Before => x = "Plain",
         dev[s] = "tls" => x = "Tls" \/ l \in {"upgrade", "handshake", "drop", "done"}
  PROVE  SessionInv'
  <1> USE DEF SessionInv, SessionTypes, link
  <1>1. s \in DOMAIN pc
    BY DEF Procs
  <1>2. SessionTypes' /\ NeverUpgrading'
    BY DEF NeverUpgrading
  <1>3. toHost[s] = <<>> /\ (toDev[s] = <<>> \/ dev[s] = "closed")
    BY DEF SessionOK, InTurn, Ended
  <1>4. SessionOK(s)'
    BY <1>1, <1>3 DEF SessionOK, InTurn, StreamInTurn, TlsAnnounced, InStep, Farewell
  <1>5. \A t \in Sessions \ {s} :
           /\ pc'[t] = pc[t] /\ stream'[t] = stream[t] /\ ops'[t] = ops[t] /\ toDev'[t] = toDev[t]
           /\ toHost'[t] = toHost[t] /\ dev'[t] = dev[t] /\ taken'[t] = taken[t]
    BY DEF Procs
  <1> QED BY <1>2, <1>4, <1>5, OneSession

\* Steps of processes that hold no session.
LEMMA SessionsUntouched ==
  ASSUME SessionInv, UNCHANGED PairVars, DOMAIN pc' = Procs, \A t \in Sessions : pc'[t] = pc[t]
  PROVE  SessionInv'
  <1> USE DEF PairVars, link
  <1>1. SessionTypes' /\ NeverUpgrading'
    BY DEF SessionInv, SessionTypes, NeverUpgrading
  <1>2. ASSUME NEW t \in Sessions PROVE SessionOK(t)'
    BY <1>2, SessionUntouched DEF SessionInv
  <1> QED BY <1>1, <1>2 DEF SessionInv

\* stream may be said to be set to what it was.
LEMMA StreamStays ==
  ASSUME SessionInv, NEW s \in Sessions, UNCHANGED stream
  PROVE  stream[s] \in {"Plain", "Upgrading", "Tls"} /\ stream' = [stream EXCEPT ![s] = stream[s]]
  BY DEF SessionInv, SessionTypes

LEMMA SessionStepInv ==
  ASSUME SessionInv, NEW s \in Sessions, SessionStep(s) \/ Requests(s) \/ ListServices(s)
  PROVE  SessionInv'
  <1>1. /\ stream[s] = "Upgrading" => pc[s] \in {"handshake", "drop", "done"}
        /\ pc[s] \in Before => stream[s] = "Plain"
        /\ dev[s] = "tls" =>
             \/ stream[s] = "Tls"
             \/ pc[s] = "starting" /\ toHost[s] # <<>> /\ toHost[s][1].kind = "ssl"
             \/ pc[s] \in {"upgrade", "handshake", "drop", "stopping", "done"}
    BY DEF SessionInv, SessionOK, StreamInTurn, TlsAnnounced
  <1>2. stream[s] \in {"Plain", "Upgrading", "Tls"}
    BY DEF SessionInv, SessionTypes
  <1> USE DEF Goto, Waiting, Before
  <1>3. CASE OpenPaired(s) \/ Drop(s)
    BY <1>1, <1>2, <1>3, StreamStays, MoveKeeps DEF OpenPaired, Drop, PairVars
  <1>4. CASE SessionRead(s)
    BY <1>1, <1>2, <1>4, StreamStays, MoveKeeps DEF SessionRead, ReadRecord, PairVars
  <1>5. CASE StartSession(s)
    BY <1>1, <1>5, SendKeeps DEF StartSession
  <1>6. CASE SessionStarted(s)
    <2>1. CASE Ended(s)
      BY <1>1, <1>2, <1>6, <2>1, StreamStays, MoveKeeps DEF SessionStarted, Ended, Recv
    <2>2. CASE Recv(s, {"error"}) /\ Goto(s, "starting", "drop")
      BY <1>1, <1>6, <2>2, RecvKeeps DEF SessionStarted
    <2>3. CASE Recv(s, {"ok", "ssl"})
              /\ Goto(s, "starting", IF Head(toHost[s]).kind = "ssl" THEN "upgrade" ELSE "open")
      <3>1. Head(toHost[s]) = toHost[s][1] /\ Head(toHost[s]).kind \in {"ok", "ssl"}
        BY <2>3 DEF Recv
      <3> QED BY <1>1, <1>6, <2>3, <3>1, RecvKeeps DEF SessionStarted
    <2> QED BY <1>6, <2>1, <2>2, <2>3 DEF SessionStarted
  <1>7. CASE BuildTlsConfig(s)
    BY <1>1, <1>2, <1>7, StreamStays, MoveKeeps DEF BuildTlsConfig
  <1>8. CASE UpgradeToTls(s)
    BY <1>1, <1>2, <1>8, StreamStays, MoveKeeps DEF UpgradeToTls
  <1>9. CASE Requests(s) \/ ListServices(s)
    BY <1>1, <1>9, SendKeeps DEF Requests, ListServices
  <1>10. CASE TakesReply(s) \/ Stopped(s)
    BY <1>1, <1>2, <1>10, StreamStays, MoveKeeps, RecvKeeps, ZenonT(30) DEF TakesReply, Stopped, Ended
  <1>11. CASE ListFallback(s)
    BY <1>1, <1>2, <1>11, StreamStays, MoveKeeps, RecvKeeps, SendKeeps, ZenonT(30) DEF ListFallback, Ended
  <1>12. CASE ConnectService(s)
    BY <1>1, <1>2, <1>12, StreamStays, MoveKeeps, RecvKeeps, SendKeeps DEF ConnectService, Ended
  <1>13. CASE StopSession(s)
    BY <1>1, <1>2, <1>13, StreamStays, MoveKeeps, SendKeeps DEF StopSession
  <1> QED BY <1>3, <1>4, <1>5, <1>6, <1>7, <1>8, <1>9, <1>10, <1>11, <1>12, <1>13 DEF SessionStep

LEMMA DeviceStepInv ==
  ASSUME SessionInv, NEW s \in Sessions, DeviceAnswers(s) \/ DeviceCloses(s)
  PROVE  SessionInv'
  <1> USE DEF SessionInv, SessionTypes
  <1>1. InTurn(s) /\ StreamInTurn(s) /\ TlsAnnounced(s) /\ InStep(s) /\ Farewell(s)
    BY DEF SessionOK
  <1>2. CASE DeviceCloses(s)
    <2>1. SessionOK(s)'
      BY <1>1, <1>2 DEF DeviceCloses, SessionOK, InTurn, StreamInTurn, TlsAnnounced, InStep, Farewell
    <2>2. SessionTypes' /\ NeverUpgrading'
      BY <1>2 DEF DeviceCloses, NeverUpgrading
    <2> QED BY <1>2, <2>1, <2>2, OneSession DEF DeviceCloses
  <1>3. CASE DeviceAnswers(s)
    <2> DEFINE m == Head(toDev[s])
    <2>1. /\ toDev[s] # <<>> /\ dev[s] # "closed" /\ Len(toDev[s]) = 1 /\ m = toDev[s][1]
          /\ m.n = ops[s] /\ pc[s] \in Waiting /\ (m.op = "StartSession" <=> pc[s] = "starting")
          /\ toHost[s] = <<>> /\ m.n \in Nat
      BY <1>1, <1>3 DEF DeviceAnswers, InTurn
    <2>2. Tail(toDev[s]) = <<>>
      <3> DEFINE M == [op: {"StartSession", "Request", "StopSession"}, n: Nat, tls: BOOLEAN]
      <3>1. toDev[s] \in Seq(M)
        OBVIOUS
      <3> HIDE DEF M
      <3> QED BY <2>1, <3>1, LastOneTaken
    <2>3. UNCHANGED <<pc, stream, ops, taken, panicked>> /\ toDev' = [toDev EXCEPT ![s] = <<>>]
      BY <1>3, <2>2 DEF DeviceAnswers
    <2>4. CASE UNCHANGED toHost /\ dev' = [dev EXCEPT ![s] = "closed"]
      <3>1. SessionOK(s)'
        BY <1>1, <2>1, <2>3, <2>4 DEF SessionOK, InTurn, StreamInTurn, TlsAnnounced, InStep, Farewell
      <3>2. SessionTypes' /\ NeverUpgrading'
        BY <2>3, <2>4 DEF NeverUpgrading
      <3> QED BY <2>3, <2>4, <3>1, <3>2, OneSession
    <2>5. ASSUME NEW kind \in {"ok", "error", "ssl"}, NEW speak \in {"plain", "tls"},
                 toHost' = [toHost EXCEPT ![s] = Append(@, [kind |-> kind, n |-> m.n])],
                 dev' = [dev EXCEPT ![s] = speak],
                 speak = "tls" => (m.op = "StartSession" /\ kind = "ssl")
                                    \/ (m.op # "StartSession" /\ dev[s] = "tls")
          PROVE  SessionInv'
      <3> DEFINE r == [kind |-> kind, n |-> m.n]
      <3>1. toHost' = [toHost EXCEPT ![s] = <<r>>]
        BY <2>1, <2>5
      <3>2. r \in [kind: {"ok", "error", "ssl"}, n: Nat] /\ r.n = ops[s] /\ r.kind = kind
        BY <2>1
      <3> HIDE DEF r, m
      <3>3. /\ toHost'[s] = <<r>> /\ toDev'[s] = <<>> /\ dev'[s] = speak
            /\ <<r>> # <<>> /\ Len(<<r>>) = 1 /\ <<r>>[1] = r
        BY <2>3, <2>5, <3>1
      <3>4. SessionTypes' /\ NeverUpgrading'
        <4> DEFINE R == [kind: {"ok", "error", "ssl"}, n: Nat]
        <4>1. toHost \in [Sessions -> Seq(R)] /\ r \in R
          BY <3>2
        <4> HIDE DEF R
        <4>2. toHost' \in [Sessions -> Seq(R)]
          BY <3>1, <4>1
        <4>3. toHost' \in [Sessions -> Seq([kind: {"ok", "error", "ssl"}, n: Nat])]
          BY <4>2 DEF R
        <4>4. toDev' \in [Sessions -> Seq([op: {"StartSession", "Request", "StopSession"}, n: Nat, tls: BOOLEAN])]
          BY <2>3
        <4> QED BY <2>3, <2>5, <4>3, <4>4 DEF NeverUpgrading
      <3>5. InTurn(s)'
        BY <2>1, <2>3, <3>2, <3>3 DEF InTurn
      <3>6. StreamInTurn(s)' /\ InStep(s)' /\ Farewell(s)'
        BY <1>1, <2>3, <3>3 DEF StreamInTurn, InStep, Farewell
      <3>7. TlsAnnounced(s)'
        BY <1>1, <2>1, <2>3, <2>5, <3>2, <3>3 DEF TlsAnnounced
      <3>8. SessionOK(s)'
        BY <3>5, <3>6, <3>7 DEF SessionOK
      <3> QED BY <2>3, <2>5, <3>1, <3>4, <3>8, OneSession
    <2>6. dev[s] \in {"plain", "tls"}
      BY <2>1
    <2>7. CASE (dev[s] = "tls") # m.tls
      BY <1>3, <2>4, <2>7 DEF DeviceAnswers
    <2>8. CASE (dev[s] = "tls") = m.tls /\ m.op = "StartSession"
      BY <1>3, <2>5, <2>8 DEF DeviceAnswers
    <2>9. CASE (dev[s] = "tls") = m.tls /\ m.op # "StartSession"
      BY <1>3, <2>5, <2>6, <2>9 DEF DeviceAnswers
    <2> QED BY <2>7, <2>8, <2>9
  <1> QED BY <1>2, <1>3

\* Replies stay in step with requests whatever fails, nobody uses a stream
\* whose upgrade is unfinished, and a device that wants TLS is sent nothing in
\* plain but a farewell (session.rs 23-49, 280-303, 339-370, 460-517), for any
\* number of sessions and requests.
THEOREM SessionsInStep == LockdownSpec => []SessionSafe
  <1>1. SessionInv /\ [LockdownNext]_lockdownVars => SessionInv'
    <2> SUFFICES ASSUME SessionInv, [LockdownNext]_lockdownVars PROVE SessionInv'
      OBVIOUS
    <2>1. DOMAIN pc = Procs
      BY DEF SessionInv, SessionTypes
    <2>2. CASE UNCHANGED lockdownVars
      BY <2>1, <2>2, SessionsUntouched DEF lockdownVars, PairVars
    <2>3. ASSUME NEW p \in Pairing \cup Unpairers, NEW l, UNCHANGED PairVars,
                 pc' = [pc EXCEPT ![p] = l]
          PROVE  SessionInv'
      <3>1. p \notin Sessions /\ Sessions \subseteq Procs
        BY LockdownAssumption DEF Pairing, Procs
      <3> QED BY <2>1, <2>3, <3>1, SessionsUntouched
    <2>4. ASSUME NEW p \in Pairing,
                 PairPrepare(p) \/ PairChallenge(p) \/ PairAsk(p) \/ PairSave(p) \/ PairStops(p)
          PROVE  SessionInv'
      BY <2>3, <2>4 DEF PairPrepare, PairChallenge, PairAsk, PairSave, PairStops, Goto
    <2>5. ASSUME NEW u \in Unpairers,
                 UnpairConnect(u) \/ UnpairRead(u) \/ UnpairSend(u) \/ UnpairDelete(u)
          PROVE  SessionInv'
      BY <2>3, <2>5 DEF UnpairConnect, UnpairRead, ReadRecord, UnpairSend, UnpairDelete, Goto
    <2>6. CASE DeviceUnpairs
      BY <2>1, <2>6, SessionsUntouched DEF DeviceUnpairs
    <2> QED BY <2>2, <2>4, <2>5, <2>6, SessionStepInv, DeviceStepInv DEF LockdownNext, Pairing
  <1>2. SessionInv => SessionSafe
    BY DEF SessionInv, SessionOK, InStep, Farewell, SessionSafe, ReplyToRequest, PlainOnlyToStop
  <1> QED BY <1>1, <1>2, SessionInvInit, PTL DEF LockdownSpec
=============================================================================
