-------------------------------- MODULE Der --------------------------------
(***************************************************************************)
(* The pure algorithms of src/lockdown/pairing.rs and cmd/pair.rs: DER     *)
(* lengths, the walk through a certificate, the calendar of UTCTime and    *)
(* base64.  A DER object is its header and an opaque content.              *)
(***************************************************************************)
EXTENDS Integers, Sequences, SequencesExt

\* A fault: the two-byte form goes one too far.
DerLengthLate(len) ==
  IF len < 128 THEN <<len>>
  ELSE IF len <= 256 THEN <<129, len % 256>>
  ELSE <<130, (len \div 256) % 256, len % 256>>

\* der_tag: length in one, two or three bytes; the high byte is cut to a byte.
DerLength(len) ==
  IF len < 128 THEN <<len>>
  ELSE IF len < 256 THEN <<129, len>>
  ELSE <<130, (len \div 256) % 256, len % 256>>

DerTag(tag, content) == <<tag>> \o DerLength(Len(content)) \o content
DerSeq(items) == DerTag(48, FlattenSeq(items))

\* peel_length: the length stated and the number of bytes that state it.
PeelLength(buf) ==
  LET n == buf[1] - 128
      big == FoldLeft(LAMBDA a, b : a * 256 + b, 0, SubSeq(buf, 2, 1 + n))
  IN IF buf[1] < 128 THEN [len |-> buf[1], start |-> 1] ELSE [len |-> big, start |-> 1 + n]

None == <<-1>>
Nothing == [content |-> None, rest |-> None]

\* peel_tag and peel_tlv (tag 0): the content of the first object and what
\* follows it.
Peel(buf, tag) ==
  IF Len(buf) < 2 \/ (tag # 0 /\ buf[1] # tag) \/ Len(buf) < buf[2] - 126 THEN Nothing
  ELSE LET l == PeelLength(Tail(buf))
           end == l.start + l.len
       IN IF Len(buf) - 1 < end THEN Nothing
          ELSE [content |-> SubSeq(buf, l.start + 2, end + 1), rest |-> SubSeq(buf, end + 2, Len(buf))]

\* A fault: the version is not skipped.
SkipVersionNever(tbs) == tbs

SkipVersion(tbs) == IF tbs # <<>> /\ tbs[1] = 160 THEN Peel(tbs, 0).rest ELSE tbs

\* extract_issuer_serial: the two objects, header and content.
ExtractIssuerSerial(cert) ==
  LET tbs == Peel(Peel(cert, 48).content, 48).content
      pos == SkipVersion(tbs)
      afterSerial == Peel(pos, 2).rest
      afterAlg == Peel(afterSerial, 0).rest
      raw(p, rest) == SubSeq(p, 1, Len(p) - Len(rest))
  IN [serial |-> raw(pos, afterSerial), issuer |-> raw(afterAlg, Peel(afterAlg, 48).rest)]

-----------------------------------------------------------------------------
\* A fault: every fourth year is a leap year.
IsLeapJulian(y) == y % 4 = 0

IsLeap(y) == y % 4 = 0 /\ (y % 100 # 0 \/ y % 400 = 0)
YearLength(y) == IF IsLeap(y) THEN 366 ELSE 365
Months(y) == <<31, IF IsLeap(y) THEN 29 ELSE 28, 31, 30, 31, 30, 31, 31, 30, 31, 30, 31>>

RECURSIVE YearOf(_, _), MonthOf(_, _, _)
YearOf(days, y) == IF days < YearLength(y) THEN <<y, days>> ELSE YearOf(days - YearLength(y), y + 1)
MonthOf(days, m, months) ==
  IF m > 12 \/ days < months[m] THEN <<m, days + 1>> ELSE MonthOf(days - months[m], m + 1, months)

DaysToYmd(days) ==
  LET y == YearOf(days, 1970)
      m == MonthOf(y[2], 1, Months(y[1]))
  IN [year |-> y[1], month |-> m[1], day |-> m[2]]

\* der_utc_time keeps two digits of the year.
UtcYear(days) == DaysToYmd(days).year % 100

-----------------------------------------------------------------------------
\* base64: three bytes are four digits; a digit is its value, "=" is 64.
B64Group(g) ==
  LET b == g \o [i \in 1..(3 - Len(g)) |-> 0]
      digits == <<b[1] \div 4, (b[1] % 4) * 16 + b[2] \div 16, (b[2] % 16) * 4 + b[3] \div 64, b[3] % 64>>
  IN [i \in 1..4 |-> IF i <= Len(g) + 1 THEN digits[i] ELSE 64]

Groups(s, n) == [i \in 1..((Len(s) + n - 1) \div n) |->
                   SubSeq(s, (i - 1) * n + 1, IF i * n < Len(s) THEN i * n ELSE Len(s))]

Base64Encode(input) == FlattenSeq([i \in 1..Len(Groups(input, 3)) |-> B64Group(Groups(input, 3)[i])])

\* A fault: a last group of three digits is taken for one of two.
B64UngroupShort(c) ==
  IF Len(c) < 2 THEN <<>>
  ELSE <<(c[1] * 4 + c[2] \div 16) % 256>>
       \o (IF Len(c) > 3 THEN <<((c[2] % 16) * 16 + c[3] \div 4) % 256>> ELSE <<>>)
       \o (IF Len(c) > 3 THEN <<((c[3] % 4) * 64 + c[4]) % 256>> ELSE <<>>)

B64Ungroup(c) ==
  IF Len(c) < 2 THEN <<>>
  ELSE <<(c[1] * 4 + c[2] \div 16) % 256>>
       \o (IF Len(c) > 2 THEN <<((c[2] % 16) * 16 + c[3] \div 4) % 256>> ELSE <<>>)
       \o (IF Len(c) > 3 THEN <<((c[3] % 4) * 64 + c[4]) % 256>> ELSE <<>>)

\* cmd/pair.rs base64_decode: padding is dropped, then groups of four.
Base64Decode(digits) ==
  LET d == SelectSeq(digits, LAMBDA x : x # 64)
  IN FlattenSeq([i \in 1..Len(Groups(d, 4)) |-> B64Ungroup(Groups(d, 4)[i])])
=============================================================================
