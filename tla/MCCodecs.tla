------------------------------ MODULE MCCodecs ------------------------------
(***************************************************************************)
(* The pure algorithms of XpcCodec and Der, run on bounded inputs.  A job  *)
(* is an algorithm and an input; n counts what the job goes through: the   *)
(* bytes of a message that have arrived, days, lengths of a content.       *)
(***************************************************************************)
EXTENDS XpcCodec, Der

CONSTANTS
  MaxDay,    \* bound: days after 1970-01-01
  Chunk      \* bytes of a TLV8 entry: 255 in the code

ASSUME CodecsAssumption == MaxDay \in Nat /\ Chunk \in Nat \ {0}

VARIABLES job, n

Eight(b) == <<b, 0, 0, 0, 0, 0, 0, b>>
Null == [type |-> "null"]
Num(t, val) == [type |-> t, bytes |-> val]
Str(len) == [type |-> "string", bytes |-> [i \in 1..len |-> 96 + i]]
Scalars ==
  {Null, Num("bool", <<0>>), Num("bool", <<1>>), Num("int64", Eight(1)), Num("uint64", Eight(0)),
   Num("double", Eight(200)), Num("uuid", Eight(1) \o Eight(2))}
  \cup {Str(len) : len \in 0..5}
  \cup {[type |-> "data", bytes |-> [i \in 1..len |-> i % 2]] : len \in 0..5}
Few == {Null, Num("bool", <<1>>), Str(3), Str(4)}
Arrays(vs) == {[type |-> "array", items |-> s] : s \in {<<>>} \cup {<<v>> : v \in vs} \cup {<<v, w>> : v, w \in vs}}
Key(len) == [i \in 1..len |-> 97 + len]
Pair(len, v) == [key |-> Key(len), value |-> v]
Dicts(vs) == {[type |-> "dict", pairs |-> <<>>]}
  \cup {[type |-> "dict", pairs |-> <<Pair(j, v), Pair(4, w)>>] : j \in {1, 3}, v, w \in vs}
Flat == Arrays(Few) \cup Dicts(Few)
Nested == {[type |-> "array", items |-> <<c, Str(1)>>] : c \in Flat}
          \cup {[type |-> "dict", pairs |-> <<Pair(2, c), Pair(3, Str(1))>>] : c \in Dicts(Few)}
Values == {NoBody} \cup Scalars \cup Flat \cup Nested
\* Tags that differ from the named ones in any of their four bytes.
NoTags == {<<0, 192, 0, 0>>, <<0, 96, 0, 0>>, <<1, 144, 0, 0>>, <<0, 144, 1, 0>>, <<0, 144, 0, 1>>}

Bytes(len) == [i \in 1..len |-> i]
Entries == { << <<6, Bytes(1)>>, <<3, Bytes(a)>>, <<4, Bytes(b)>> >> : a, b \in 0..(3 * Chunk + 1) }

Jobs ==
  {[alg |-> "xpc", body |-> v] : v \in Values}
  \cup {[alg |-> "tlv", entries |-> e] : e \in Entries}
  \cup {[alg |-> "base64", bytes |-> b] : b \in UNION {[1..k -> {0, 1, 63, 170, 255}] : k \in 0..4}}
  \cup {[alg |-> "der", base |-> b] : b \in {0, 65400}}
  \cup {[alg |-> "calendar"]}
  \cup {[alg |-> "cert", version |-> v, serial |-> k] : v \in {<<>>, << <<160, 3, 2, 1, 2>> >>}, k \in 1..2}

\* How far n goes in a job.
Steps(j) ==
  CASE j.alg = "xpc" -> Len(EncodeMessage(j.body))
    [] j.alg = "der" -> 300
    [] j.alg = "calendar" -> MaxDay
    [] j.alg = "cert" -> 140
    [] OTHER -> 0

codecVars == <<job, n>>
CodecInit == job \in Jobs /\ n = 0
CodecNext == n < Steps(job) /\ n' = n + 1 /\ UNCHANGED job

-----------------------------------------------------------------------------
\* While a message arrives, receive gets nothing from a part of it and the
\* value that was encoded, or none, with the right length, from the whole, also
\* with bytes of the next message behind it (xpc/codec.rs 46-88, 226-317;
\* remotexpc/conn.rs 66-76).
XpcMessageWhole ==
  job.alg = "xpc" =>
    LET msg == EncodeMessage(job.body)
        got == DecodeMessage(SubSeq(msg \o <<1, 2, 3>>, 1, IF n = Len(msg) THEN n + 3 ELSE n))
    IN got = IF n < Len(msg) THEN <<TooShort, 0>> ELSE <<job.body, Len(msg)>>

\* A message that ends early, by the length its wrapper states, is refused or
\* read as the value that was cut, of which only padding is missing: never as
\* another one (xpc/codec.rs 69-206).  Refused is also the panic on the key
\* behind a value whose padding is cut (191).  What is no message is BadMagic.
XpcCutBody ==
  job.alg = "xpc" =>
    LET msg == EncodeMessage(job.body)
        cut == [msg EXCEPT ![9] = n % 256, ![10] = n \div 256]
        got == DecodeMessage(cut)
    IN /\ n + 24 <= Len(msg) =>
            got[2] = n + 24 /\ (IF n < 8 THEN got[1] = NoBody ELSE got[1] \in Refusal \cup {job.body})
       /\ n \in 1..4 => DecodeMessage([msg EXCEPT ![n] = 0])[1] = BadMagic
       /\ (n \in 25..28 /\ n <= Len(msg)) => DecodeMessage([msg EXCEPT ![n] = 0])[1] = BadMagic

\* A value of 8 bytes of a type the decoder has no name for, whatever its tag,
\* costs the value only: the rest of the dictionary is read ("so callers can
\* still traverse the surrounding dict/array", xpc/codec.rs 214-219).  Of any
\* other size it is not: the decoder cannot know where it ends.
XpcSkipsUnknown ==
  (job.alg = "xpc" /\ job.body \in Few /\ n = 0) =>
    LET d == [type |-> "dict", pairs |-> <<Pair(1, Num("double", Eight(1))), Pair(4, job.body)>>]
        msg == EncodeMessage(d)
        with(tag) == SubSeq(msg, 1, 48) \o tag \o SubSeq(msg, 53, Len(msg))
    IN \A tag \in NoTags :
         DecodeMessage(with(tag))[1].pairs = <<Pair(1, Null), Pair(4, job.body)>>

\* A value longer than one TLV8 entry comes back whole (tlv8.rs 24-54).
TlvWhole ==
  job.alg = "tlv" =>
    LET m == TlvDecode(TlvEncode(job.entries, Chunk))
    IN DOMAIN m = {3, 4, 6} /\ \A i \in DOMAIN job.entries : m[job.entries[i][1]] = job.entries[i][2]

\* The length of a DER object is read back as it was written, at the limits
\* of the one, two and three byte forms (pairing.rs 462-477, 582-602): up to
\* 65535 bytes.
DerLengthExact ==
  (job.alg = "der" /\ job.base + n <= 65535) =>
    PeelLength(DerLength(job.base + n)) =
      [len |-> job.base + n, start |-> Len(DerLength(job.base + n))]

\* A certificate: version if it is not the first, serial number, algorithm,
\* issuer, the rest.
Certificate(version, serial, alg, issuer, more) ==
  DerSeq(<<DerSeq(version \o <<DerTag(2, serial), DerTag(48, alg), DerTag(48, issuer), more>>), DerTag(48, alg)>>)

\* Issuer and serial number of a certificate are found with and without a
\* version, whatever their lengths (pairing.rs 851-908).
IssuerAndSerialFound ==
  job.alg = "cert" =>
    LET serial == Bytes(job.serial)
        issuer == Bytes(n)
        cert == Certificate(job.version, serial, Bytes(9), issuer, <<5, 0>>)
    IN ExtractIssuerSerial(cert) = [serial |-> DerTag(2, serial), issuer |-> DerTag(48, issuer)]

\* The day a date stands for, counted from the years before it.
DayNumber(y, m, d) ==
  LET before == y - 1
      leaps == before \div 4 - before \div 100 + before \div 400 - 477
      months == FoldLeft(LAMBDA a, b : a + b, 0, SubSeq(<<31, 28, 31, 30, 31, 30, 31, 31, 30, 31, 30, 31>>, 1, m - 1))
      leapDay == IF m > 2 /\ y % 4 = 0 /\ (y % 100 # 0 \/ y % 400 = 0) THEN 1 ELSE 0
  IN (y - 1970) * 365 + leaps + months + leapDay + d - 1

\* The year two digits stand for in a UTCTime of a certificate (RFC 5280).
FullYear(yy) == IF yy < 50 THEN 2000 + yy ELSE 1900 + yy

\* The date in a certificate is the one of the day it was made for, and is read
\* as such for days before 2050; from then on the two digits of the year are
\* read a century early, and the ten years a certificate is valid for end later
\* than that from 2040 on (pairing.rs 520-535, 604-644).
CalendarExact ==
  job.alg = "calendar" =>
    LET t == DaysToYmd(n)
    IN /\ t.month \in 1..12 /\ t.day \in 1..31 /\ DayNumber(t.year, t.month, t.day) = n
       /\ FullYear(UtcYear(n)) = IF n < DayNumber(2050, 1, 1) THEN t.year ELSE t.year - 100

\* base64_decode of cmd/pair.rs undoes base64_encode of pairing.rs, whatever
\* the length.
Base64Exact == job.alg = "base64" => Base64Decode(Base64Encode(job.bytes)) = job.bytes

\* Every algorithm gives what its reference definition gives.
CodecsExact ==
  /\ XpcMessageWhole /\ XpcCutBody /\ XpcSkipsUnknown /\ TlvWhole
  /\ DerLengthExact /\ IssuerAndSerialFound /\ CalendarExact /\ Base64Exact
=============================================================================
