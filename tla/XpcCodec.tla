------------------------------ MODULE XpcCodec ------------------------------
(***************************************************************************)
(* The XPC object codec of src/xpc/codec.rs and the TLV8 codec of          *)
(* src/tunnel/remote_pairing/tlv8.rs, as operators on sequences of bytes.  *)
(*                                                                         *)
(* A value is a record with its type and content: the bytes of a string,   *)
(* of raw data (text is ASCII) and of a number, of which there are a few   *)
(* patterns; the items of an array; the pairs of a dictionary, in the      *)
(* order its HashMap happens to have.  A length is below 2^31.             *)
(***************************************************************************)
EXTENDS Integers, Sequences, SequencesExt

Tag == [null |-> 16, bool |-> 32, int64 |-> 48, uint64 |-> 64, double |-> 80, date |-> 112,
        data |-> 128, string |-> 144, uuid |-> 160, array |-> 224, dict |-> 240]
WrapperMagic == <<146, 11, 176, 41>>
PayloadMagic == <<66, 55, 19, 66>>

\* XpcError, and the panic of a slice that starts behind the end.
TooShort == [type |-> "TooShort"]
BadMagic == [type |-> "BadMagic"]
InvalidUtf8 == [type |-> "InvalidUtf8"]
Panics == [type |-> "panic"]
Refusal == {TooShort, BadMagic, InvalidUtf8, Panics}

\* A message without a body.
NoBody == [type |-> "none"]

Zeros(n) == [i \in 1..n |-> 0]

Pad4(n) == ((n + 3) \div 4) * 4

U32(n) == <<n % 256, (n \div 256) % 256, (n \div 65536) % 256, n \div 16777216>>
TypeTag(t) == <<0, Tag[t], 0, 0>>
Word(buf, p) == SubSeq(buf, p + 1, p + 4)   \* p counts from 0
ReadU32(buf, p) == LET w == Word(buf, p) IN w[1] + 256 * w[2] + 65536 * w[3] + 16777216 * w[4]
Has(buf, p, n) == p + n <= Len(buf)
Padded(s) == s \o Zeros(Pad4(Len(s)) - Len(s))
EncodeDictKey(k) == Padded(Append(k, 0))

RECURSIVE EncodeValue(_)
EncodeValue(v) ==
  LET container(items) == LET all == FlattenSeq(items) IN U32(4 + Len(all)) \o U32(Len(items)) \o all
  IN TypeTag(v.type) \o
     CASE v.type = "null" -> <<>>
       [] v.type = "bool" -> v.bytes \o Zeros(3)
       [] v.type \in {"int64", "uint64", "double", "uuid"} -> v.bytes
       [] v.type = "data" -> U32(Len(v.bytes)) \o Padded(v.bytes)
       [] v.type = "string" -> U32(Len(v.bytes) + 1) \o Padded(Append(v.bytes, 0))
       [] v.type = "array" -> container([i \in DOMAIN v.items |-> EncodeValue(v.items[i])])
       [] v.type = "dict" -> container([i \in DOMAIN v.pairs |->
                               EncodeDictKey(v.pairs[i].key) \o EncodeValue(v.pairs[i].value)])

\* A message: the wrapper with flags, length of the body and number, then
\* magic, version and value if there is a body.
EncodeMessage(body) ==
  LET payload == IF body = NoBody THEN <<>> ELSE PayloadMagic \o U32(5) \o EncodeValue(body)
  IN WrapperMagic \o U32(1) \o U32(Len(payload)) \o Zeros(4) \o U32(1) \o Zeros(4) \o payload

\* The content up to its first NUL.
UpToNul(s) == LET nul == SelectInSeq(s, LAMBDA b : b = 0)
              IN IF nul = 0 THEN s ELSE SubSeq(s, 1, nul - 1)

\* A fault: a word is skipped.
UnknownSizeWord == 4

\* The bytes taken for the value of a type without a name.
UnknownSize == 8

\* Value and position after it.  Every type but the two containers is read
\* here; a type without a name is skipped.
DecodeScalar(buf, p, t) ==
  LET size == CASE t \in {"null"} -> 0 [] t = "bool" -> 1 [] t = "uuid" -> 16 [] OTHER -> 8
      n == ReadU32(buf, p)
  IN IF t \in {"data", "string"}
     THEN IF ~Has(buf, p, 4) \/ ~Has(buf, p + 4, n) THEN <<TooShort, p>>
          ELSE LET raw == SubSeq(buf, p + 5, p + 4 + n)
               IN <<[type |-> t, bytes |-> IF t = "string" THEN UpToNul(raw) ELSE raw], p + 4 + Pad4(n)>>
     ELSE IF t = "unknown" THEN <<[type |-> "null"], p + UnknownSize>>
     ELSE IF ~Has(buf, p, size) THEN <<TooShort, p>>
     ELSE IF t = "null" THEN <<[type |-> t], p>>
     ELSE IF t = "bool" THEN <<[type |-> t, bytes |-> IF buf[p + 1] = 0 THEN <<0>> ELSE <<1>>], p + 4>>
     ELSE <<[type |-> IF t = "date" THEN "double" ELSE t, bytes |-> SubSeq(buf, p + 1, p + size)], p + size>>

\* Where a container ends, by the size it states.
EndOf(p, size) == p + 4 + size

\* A fault: the second byte of the tag is the type.
TypeOfByte(word) ==
  LET named == {t \in DOMAIN Tag : Tag[t] = word[2]} IN IF named = {} THEN "unknown" ELSE CHOOSE t \in named : TRUE

TypeOf(word) ==
  LET named == {t \in DOMAIN Tag : TypeTag(t) = word} IN IF named = {} THEN "unknown" ELSE CHOOSE t \in named : TRUE

RECURSIVE DecodeValue(_, _), DecodeItems(_, _, _, _)
\* count items, from position p; keys before the values in a dictionary.  The
\* last item is the error that ends the loop, if one does.
DecodeItems(buf, p, count, keyed) ==
  LET rest == SubSeq(buf, p + 1, Len(buf))
      key == UpToNul(rest)
      at == IF keyed THEN p + Pad4(Len(key) + 1) ELSE p
      d == DecodeValue(buf, at)
  IN CASE count = 0 -> <<>>
       [] count > 0 /\ keyed /\ p > Len(buf) -> <<Panics>>
       [] count > 0 /\ keyed /\ p <= Len(buf) /\ key = rest -> <<InvalidUtf8>>
       [] OTHER -> IF d[1] \in Refusal THEN <<d[1]>>
                   ELSE <<IF keyed THEN [key |-> key, value |-> d[1]] ELSE d[1]>> \o DecodeItems(buf, d[2], count - 1, keyed)

DecodeValue(buf, pos) ==
  IF ~Has(buf, pos, 4) THEN <<TooShort, pos>>
  ELSE LET t == TypeOf(Word(buf, pos))
           p == pos + 4
       IN IF t \notin {"array", "dict"} THEN DecodeScalar(buf, p, t)
          ELSE IF ~Has(buf, p, 8) THEN <<TooShort, p>>
          ELSE LET items == DecodeItems(buf, p + 8, ReadU32(buf, p + 4), t = "dict")
               IN IF items # <<>> /\ Last(items) \in Refusal THEN <<Last(items), p>>
                  ELSE <<IF t = "dict" THEN [type |-> t, pairs |-> items] ELSE [type |-> t, items |-> items], EndOf(p, ReadU32(buf, p))>>

\* The body of a message: none if it has no room for magic and version.
DecodeBody(pb) ==
  IF Len(pb) < 8 THEN NoBody ELSE IF Word(pb, 0) # PayloadMagic THEN BadMagic ELSE DecodeValue(pb, 8)[1]

\* A fault: the header is not counted.
DecodeMessageNoHeader(buf) ==
  LET body == ReadU32(buf, 8)
  IN IF Len(buf) < 24 THEN <<TooShort, 0>>
     ELSE IF Word(buf, 0) # WrapperMagic THEN <<BadMagic, 0>>
     ELSE IF Len(buf) < 24 + body THEN <<TooShort, 0>>
     ELSE <<DecodeBody(SubSeq(buf, 25, 24 + body)), body>>

\* The body of the first message in the buffer and the bytes the message takes
\* up; nothing unless it is all there.
DecodeMessage(buf) ==
  LET body == ReadU32(buf, 8)
  IN IF Len(buf) < 24 THEN <<TooShort, 0>>
     ELSE IF Word(buf, 0) # WrapperMagic THEN <<BadMagic, 0>>
     ELSE IF Len(buf) < 24 + body THEN <<TooShort, 0>>
     ELSE <<DecodeBody(SubSeq(buf, 25, 24 + body)), 24 + body>>

-----------------------------------------------------------------------------
(* TLV8: entries of a type, a length and at most Chunk bytes, 255 in the   *)
(* code.                                                                   *)

Chunks(v, c) == [i \in 1..((Len(v) + c - 1) \div c) |->
                   SubSeq(v, (i - 1) * c + 1, IF i * c < Len(v) THEN i * c ELSE Len(v))]

TlvEncode(entries, c) ==
  FlattenSeq([i \in DOMAIN entries |->
    LET typ == entries[i][1]
        parts == IF entries[i][2] = <<>> THEN << <<>> >> ELSE Chunks(entries[i][2], c)
    IN FlattenSeq([j \in DOMAIN parts |-> <<typ, Len(parts[j])>> \o parts[j]])])

\* A fault: a second entry of a type replaces the first.
TlvInsertReplaces(map, typ, v) == [t \in DOMAIN map \cup {typ} |-> IF t = typ THEN v ELSE map[t]]

\* An entry extends the value its type has so far.
TlvInsert(map, typ, v) ==
  [t \in DOMAIN map \cup {typ} |->
     IF t # typ THEN map[t] ELSE IF typ \in DOMAIN map THEN map[typ] \o v ELSE v]

RECURSIVE TlvDecodeFrom(_, _)
TlvDecodeFrom(data, map) ==
  IF Len(data) < 2 THEN map
  ELSE LET end == IF 2 + data[2] < Len(data) THEN 2 + data[2] ELSE Len(data)
       IN TlvDecodeFrom(SubSeq(data, end + 1, Len(data)), TlvInsert(map, data[1], SubSeq(data, 3, end)))
TlvDecode(data) == TlvDecodeFrom(data, [t \in {} |-> <<>>])
=============================================================================
