---------------------------- MODULE TunnelProofs ----------------------------
(***************************************************************************)
(* Proofs about Proxy, for any number of bytes and any size of its         *)
(* sockets, about TunnelFraming, for packets of any number and length, and *)
(* about Bridge, for buffers and chunks of any size.                       *)
(***************************************************************************)
EXTENDS Bridge, Proxy, TunnelFraming, TLAPS

\* The bytes of a stream that are under way follow the last one read, one by
\* one, up to the last one sent.
Numbered(f, got, sent) ==
  /\ f \in Seq(Nat) /\ sent = got + Len(f)
  /\ \A i \in 1..Len(f) : f[i] = got + i

-----------------------------------------------------------------------------
(* Three buffers in a row, as one sequence.                                *)

LEMMA ConcatThree ==
  ASSUME NEW a \in Seq(Nat), NEW b \in Seq(Nat), NEW c \in Seq(Nat)
  PROVE  /\ a \o b \o c \in Seq(Nat)
         /\ Len(a \o b \o c) = Len(a) + Len(b) + Len(c)
         /\ \A i \in 1..(Len(a) + Len(b) + Len(c)) :
              (a \o b \o c)[i] = IF i <= Len(a) THEN a[i]
                                 ELSE IF i <= Len(a) + Len(b) THEN b[i - Len(a)]
                                 ELSE c[i - Len(a) - Len(b)]
  OBVIOUS

LEMMA SameSeq ==
  ASSUME NEW s \in Seq(Nat), NEW t \in Seq(Nat),
         Len(s) = Len(t), \A i \in 1..Len(s) : s[i] = t[i]
  PROVE  s = t
  OBVIOUS

\* A byte taken from the last buffer into an empty middle one, and from the
\* middle one into the first, stays where it is in the stream.
LEMMA ShiftToHands ==
  ASSUME NEW a \in Seq(Nat), NEW c \in Seq(Nat), c # <<>>
  PROVE  a \o <<Head(c)>> \o Tail(c) = a \o <<>> \o c
  <1>1. <<Head(c)>> \in Seq(Nat) /\ Tail(c) \in Seq(Nat) /\ <<>> \in Seq(Nat) /\ Len(c) \in Nat \ {0}
        /\ Len(Tail(c)) = Len(c) - 1
    OBVIOUS
  <1>2. \A i \in 1..(Len(c) - 1) : Tail(c)[i] = c[i + 1]
    OBVIOUS
  <1>3. Len(a \o <<Head(c)>> \o Tail(c)) = Len(a \o <<>> \o c)
    BY <1>1, ConcatThree
  <1>4. \A i \in 1..Len(a \o <<>> \o c) : (a \o <<Head(c)>> \o Tail(c))[i] = (a \o <<>> \o c)[i]
    BY <1>1, <1>2, ConcatThree
  <1> QED BY <1>1, <1>3, <1>4, ConcatThree, SameSeq

LEMMA ShiftOut ==
  ASSUME NEW a \in Seq(Nat), NEW b \in Seq(Nat), NEW c \in Seq(Nat)
  PROVE  (a \o b) \o <<>> \o c = a \o b \o c
  OBVIOUS

\* A byte enters at the end and leaves at the front.
LEMMA Enters ==
  ASSUME NEW a \in Seq(Nat), NEW b \in Seq(Nat), NEW c \in Seq(Nat), NEW x \in Nat
  PROVE  a \o b \o Append(c, x) = Append(a \o b \o c, x)
  <1>1. Append(c, x) \in Seq(Nat) /\ Len(Append(c, x)) = Len(c) + 1
        /\ \A i \in 1..(Len(c) + 1) : Append(c, x)[i] = IF i <= Len(c) THEN c[i] ELSE x
    OBVIOUS
  <1>2. \A f \in Seq(Nat) : Append(f, x) \in Seq(Nat) /\ Len(Append(f, x)) = Len(f) + 1
        /\ \A i \in 1..(Len(f) + 1) : Append(f, x)[i] = IF i <= Len(f) THEN f[i] ELSE x
    OBVIOUS
  <1> DEFINE f == a \o b \o c
             g == a \o b \o Append(c, x)
  <1>3. f \in Seq(Nat) /\ g \in Seq(Nat) /\ Append(f, x) \in Seq(Nat) /\ Len(g) = Len(Append(f, x))
    BY <1>1, <1>2, ConcatThree
  <1>4. \A i \in 1..Len(g) : g[i] = Append(f, x)[i]
    BY <1>1, <1>2, <1>3, ConcatThree
  <1> HIDE DEF f, g
  <1>5. g = Append(f, x)
    BY <1>3, <1>4, SameSeq
  <1> QED BY <1>5 DEF f, g

LEMMA Leaves ==
  ASSUME NEW a \in Seq(Nat), NEW b \in Seq(Nat), NEW c \in Seq(Nat), a # <<>>
  PROVE  /\ a \o b \o c # <<>>
         /\ Tail(a) \o b \o c = Tail(a \o b \o c)
  <1> DEFINE f == a \o b \o c
             g == Tail(a) \o b \o c
  <1>1. Tail(a) \in Seq(Nat) /\ Len(Tail(a)) = Len(a) - 1 /\ Len(a) \in Nat \ {0}
        /\ \A i \in 1..(Len(a) - 1) : Tail(a)[i] = a[i + 1]
    OBVIOUS
  <1>2. f \in Seq(Nat) /\ g \in Seq(Nat) /\ Len(f) = Len(g) + 1
    BY <1>1, ConcatThree
  <1>3. f # <<>> /\ Tail(f) \in Seq(Nat) /\ Len(Tail(f)) = Len(g)
        /\ \A i \in 1..Len(g) : Tail(f)[i] = f[i + 1]
    <2> HIDE DEF f, g
    <2> QED BY <1>2
  <1>4. \A i \in 1..Len(g) : g[i] = f[i + 1]
    BY <1>1, ConcatThree
  <1> HIDE DEF f, g
  <1>5. g = Tail(f)
    BY <1>2, <1>3, <1>4, SameSeq
  <1> QED BY <1>3, <1>5 DEF f, g

LEMMA NumberedEnters ==
  ASSUME NEW f, NEW got \in Nat, NEW sent \in Nat, Numbered(f, got, sent)
  PROVE  Numbered(Append(f, sent + 1), got, sent + 1)
  BY DEF Numbered

LEMMA NumberedLeaves ==
  ASSUME NEW f, NEW got \in Nat, NEW sent \in Nat, Numbered(f, got, sent), f # <<>>
  PROVE  Head(f) = got + 1 /\ Numbered(Tail(f), got + 1, sent)
  BY DEF Numbered

-----------------------------------------------------------------------------
(* The inductive invariant of the proxy.                                   *)

upFlight == smcUp \o hereUp \o ipcUp
downFlight == ipcDown \o hereDown \o smcDown

UpTypes ==
  /\ main \in {"read", "write", "done"} /\ cli \in {"open", "half", "gone"}
  /\ smcUp \in Seq(Nat) /\ hereUp \in Seq(Nat) /\ ipcUp \in Seq(Nat)
  /\ cliSent \in Nat /\ devGot \in Nat
DownTypes ==
  /\ back \in {"read", "write", "done"} /\ devEnd \in {"open", "gone"}
  /\ ipcDown \in Seq(Nat) /\ hereDown \in Seq(Nat) /\ smcDown \in Seq(Nat)
  /\ devSent \in Nat /\ cliGot \in Nat

\* As long as its reader is there, a direction holds the bytes between the
\* last one read and the last one sent.  A loop has a byte in its hands only
\* between its read and its write.
UpWhole == devEnd = "open" => Numbered(upFlight, devGot, cliSent)
DownWhole == cli # "gone" => Numbered(downFlight, cliGot, devSent)
HandsEmpty == (main # "write" => hereUp = <<>>) /\ (back # "write" => hereDown = <<>>)

\* A loop is over when its writer sends no more and nothing is left to read,
\* or its reader is gone.
MainOver == main = "done" => (cli # "open" /\ ipcUp = <<>>) \/ devEnd = "gone"
BackOver == back = "done" => (devEnd = "gone" /\ smcDown = <<>>) \/ cli = "gone"

\* The end of a stream was read after both loops were over.
EndsLast == (cliEof \/ devEof) => ~SocketsHeld

UpInv == UpTypes /\ UpWhole
DownInv == DownTypes /\ DownWhole
ProxyInv ==
  UpInv /\ DownInv /\ HandsEmpty /\ MainOver /\ BackOver /\ EndsLast /\ EndAfterAll

LEMMA ProxyInvInit == ProxyInit => ProxyInv
  <1> SUFFICES ASSUME ProxyInit PROVE ProxyInv
    OBVIOUS
  <1>1. upFlight = <<>> /\ downFlight = <<>> /\ <<>> \in Seq(Nat)
    BY DEF ProxyInit, upFlight, downFlight
  <1>2. UpInv /\ DownInv
    BY <1>1 DEF ProxyInit, UpInv, DownInv, UpTypes, DownTypes, UpWhole, DownWhole, Numbered
  <1> QED BY <1>2 DEF ProxyInit, ProxyInv, HandsEmpty, MainOver, BackOver, EndsLast, EndAfterAll

LEMMA ProxyTypes ==
  ASSUME ProxyInv, [ProxyNext]_proxyVars
  PROVE  UpTypes' /\ DownTypes'
  <1>0. UpTypes /\ DownTypes
    BY DEF ProxyInv, UpInv, DownInv
  <1> USE <1>0 DEF UpTypes, DownTypes, upVars, downVars, cliVars, devEndVars
  <1>1. CASE MainLoop
    <2>1. ipcUp # <<>> => Tail(ipcUp) \in Seq(Nat) /\ <<Head(ipcUp)>> \in Seq(Nat)
      OBVIOUS
    <2>2. smcUp \o hereUp \in Seq(Nat) /\ <<>> \in Seq(Nat)
      OBVIOUS
    <2> QED BY <1>1, <2>1, <2>2 DEF MainLoop, MainReads, MainEof, MainWrites
  <1>2. CASE BackLoop
    <2>1. smcDown # <<>> => Tail(smcDown) \in Seq(Nat) /\ <<Head(smcDown)>> \in Seq(Nat)
      OBVIOUS
    <2>2. ipcDown \o hereDown \in Seq(Nat) /\ <<>> \in Seq(Nat)
      OBVIOUS
    <2> QED BY <1>2, <2>1, <2>2 DEF BackLoop, BackReads, BackEof, BackWrites
  <1>3. CASE CliSends \/ CliCloses \/ CliReads
    <2>1. CASE CliSends
      <3>1. ipcUp' = Append(ipcUp, cliSent + 1) /\ cliSent' = cliSent + 1
        BY <2>1 DEF CliSends
      <3>2. ipcUp' \in Seq(Nat) /\ cliSent' \in Nat
        BY <3>1
      <3> QED BY <2>1, <3>2 DEF CliSends
    <2>2. CASE CliCloses
      BY <2>2 DEF CliCloses
    <2>3. CASE CliReads
      <3>0. ipcDown # <<>> => Tail(ipcDown) \in Seq(Nat)
        OBVIOUS
      <3>1. \/ ipcDown # <<>> /\ ipcDown' = Tail(ipcDown) /\ cliGot' = cliGot + 1
            \/ UNCHANGED <<ipcDown, cliGot>>
        BY <2>3, Zenon DEF CliReads
      <3>2. ipcDown' \in Seq(Nat) /\ cliGot' \in Nat
        <4>1. CASE ipcDown # <<>> /\ ipcDown' = Tail(ipcDown) /\ cliGot' = cliGot + 1
          BY <3>0, <4>1
        <4>2. CASE UNCHANGED <<ipcDown, cliGot>>
          BY <4>2
        <4> QED BY <3>1, <4>1, <4>2
      <3> QED BY <2>3, <3>2 DEF CliReads
    <2> QED BY <1>3, <2>1, <2>2, <2>3
  <1>4. CASE DevEndSends \/ DevEndLeaves \/ DevEndReads
    <2>1. CASE DevEndSends
      <3>1. smcDown' = Append(smcDown, devSent + 1) /\ devSent' = devSent + 1
        BY <2>1 DEF DevEndSends
      <3>2. smcDown' \in Seq(Nat) /\ devSent' \in Nat
        BY <3>1
      <3> QED BY <2>1, <3>2 DEF DevEndSends
    <2>2. CASE DevEndLeaves
      BY <2>2 DEF DevEndLeaves
    <2>3. CASE DevEndReads
      <3>0. smcUp # <<>> => Tail(smcUp) \in Seq(Nat)
        OBVIOUS
      <3>1. \/ smcUp # <<>> /\ smcUp' = Tail(smcUp) /\ devGot' = devGot + 1
            \/ UNCHANGED <<smcUp, devGot>>
        BY <2>3, Zenon DEF DevEndReads
      <3>2. smcUp' \in Seq(Nat) /\ devGot' \in Nat
        <4>1. CASE smcUp # <<>> /\ smcUp' = Tail(smcUp) /\ devGot' = devGot + 1
          BY <3>0, <4>1
        <4>2. CASE UNCHANGED <<smcUp, devGot>>
          BY <4>2
        <4> QED BY <3>1, <4>1, <4>2
      <3> QED BY <2>3, <3>2 DEF DevEndReads
    <2> QED BY <1>4, <2>1, <2>2, <2>3
  <1>5. CASE UNCHANGED proxyVars
    BY <1>5 DEF proxyVars
  <1> QED BY <1>1, <1>2, <1>3, <1>4, <1>5 DEF ProxyNext

\* What a step does to the bytes of a direction whose reader is there:
\* nothing, one more at the end, or one less at the front.
Carries(f, fNew, got, gotNew, sent, sentNew) ==
  \/ fNew = f /\ gotNew = got /\ sentNew = sent
  \/ fNew = Append(f, sent + 1) /\ gotNew = got /\ sentNew = sent + 1
  \/ f # <<>> /\ fNew = Tail(f) /\ gotNew = got + 1 /\ sentNew = sent

LEMMA UpStep ==
  ASSUME ProxyInv, [ProxyNext]_proxyVars, devEnd' = "open"
  PROVE  devEnd = "open" /\ Carries(upFlight, upFlight', devGot, devGot', cliSent, cliSent')
  <1>0. UpTypes /\ DownTypes /\ HandsEmpty
    BY DEF ProxyInv, UpInv, DownInv
  <1> USE DEF Carries
  <1>1. CASE MainReads
    <2>1. upFlight = smcUp \o <<>> \o ipcUp /\ ipcUp # <<>>
          /\ upFlight' = smcUp \o <<Head(ipcUp)>> \o Tail(ipcUp)
      BY <1>0, <1>1 DEF MainReads, upFlight, HandsEmpty
    <2>2. upFlight' = upFlight
      BY <1>0, <2>1, ShiftToHands DEF UpTypes
    <2>3. UNCHANGED <<devEnd, devGot, cliSent>>
      BY <1>1 DEF MainReads, cliVars, devEndVars
    <2> QED BY <2>2, <2>3
  <1>2. CASE MainWrites
    <2>1. UNCHANGED <<ipcUp, devEnd, devGot, cliSent>> /\ smcUp' = smcUp \o hereUp /\ hereUp' = <<>>
      BY <1>2 DEF MainWrites, cliVars, devEndVars
    <2>2. upFlight' = upFlight
      BY <1>0, <2>1, ShiftOut DEF upFlight, UpTypes
    <2> QED BY <2>1, <2>2
  <1>3. CASE CliSends
    <2>1. upFlight' = smcUp \o hereUp \o Append(ipcUp, cliSent + 1) /\ cliSent + 1 \in Nat
      BY <1>0, <1>3 DEF CliSends, upFlight, UpTypes
    <2>2. upFlight' = Append(upFlight, cliSent + 1)
      BY <1>0, <2>1, Enters, ZenonT(30) DEF upFlight, UpTypes
    <2> QED BY <1>3, <2>2 DEF CliSends, devEndVars
  <1>4. CASE DevEndReads
    <2>1. CASE smcUp # <<>> /\ smcUp' = Tail(smcUp) /\ devGot' = devGot + 1
      <3>1. upFlight' = Tail(smcUp) \o hereUp \o ipcUp
        BY <1>4, <2>1 DEF DevEndReads, upFlight
      <3>2. upFlight # <<>> /\ upFlight' = Tail(upFlight)
        BY <1>0, <2>1, <3>1, Leaves DEF upFlight, UpTypes
      <3> QED BY <1>4, <2>1, <3>2 DEF DevEndReads, cliVars
    <2>2. CASE UNCHANGED <<smcUp, devGot>>
      BY <1>4, <2>2 DEF DevEndReads, upFlight, cliVars
    <2> QED BY <1>4, <2>1, <2>2 DEF DevEndReads
  <1>5. CASE UNCHANGED <<smcUp, hereUp, ipcUp, devEnd, devGot, cliSent>>
    BY <1>5 DEF upFlight
  <1>6. MainEof \/ BackLoop \/ CliCloses \/ CliReads \/ DevEndSends \/ DevEndLeaves \/ UNCHANGED proxyVars
          => UNCHANGED <<smcUp, hereUp, ipcUp, devEnd, devGot, cliSent>>
    BY DEF MainEof, BackLoop, BackReads, BackEof, BackWrites, CliCloses, CliReads,
       DevEndSends, DevEndLeaves, proxyVars, upVars, cliVars, devEndVars
  <1> QED BY <1>1, <1>2, <1>3, <1>4, <1>5, <1>6 DEF ProxyNext, MainLoop

LEMMA DownStep ==
  ASSUME ProxyInv, [ProxyNext]_proxyVars, cli' # "gone"
  PROVE  cli # "gone" /\ Carries(downFlight, downFlight', cliGot, cliGot', devSent, devSent')
  <1>0. UpTypes /\ DownTypes /\ HandsEmpty
    BY DEF ProxyInv, UpInv, DownInv
  <1> USE DEF Carries
  <1>1. CASE BackReads
    <2>1. downFlight = ipcDown \o <<>> \o smcDown /\ smcDown # <<>>
          /\ downFlight' = ipcDown \o <<Head(smcDown)>> \o Tail(smcDown)
      BY <1>0, <1>1 DEF BackReads, downFlight, HandsEmpty
    <2>2. downFlight' = downFlight
      BY <1>0, <2>1, ShiftToHands DEF DownTypes
    <2>3. UNCHANGED <<cli, cliGot, devSent>> /\ cli # "gone"
      BY <1>1 DEF BackReads, cliVars, devEndVars
    <2> QED BY <2>2, <2>3
  <1>2. CASE BackWrites
    <2>1. UNCHANGED <<smcDown, cli, cliGot, devSent>> /\ ipcDown' = ipcDown \o hereDown
          /\ hereDown' = <<>>
      BY <1>2 DEF BackWrites, cliVars, devEndVars
    <2>2. downFlight' = downFlight
      BY <1>0, <2>1, ShiftOut DEF downFlight, DownTypes
    <2> QED BY <2>1, <2>2
  <1>3. CASE DevEndSends
    <2>1. downFlight' = ipcDown \o hereDown \o Append(smcDown, devSent + 1) /\ devSent + 1 \in Nat
      BY <1>0, <1>3 DEF DevEndSends, downFlight, DownTypes
    <2>2. downFlight' = Append(downFlight, devSent + 1)
      BY <1>0, <2>1, Enters, ZenonT(30) DEF downFlight, DownTypes
    <2> QED BY <1>3, <2>2 DEF DevEndSends, cliVars
  <1>4. CASE CliReads
    <2>1. CASE ipcDown # <<>> /\ ipcDown' = Tail(ipcDown) /\ cliGot' = cliGot + 1
      <3>1. downFlight' = Tail(ipcDown) \o hereDown \o smcDown
        BY <1>4, <2>1 DEF CliReads, downFlight
      <3>2. downFlight # <<>> /\ downFlight' = Tail(downFlight)
        BY <1>0, <2>1, <3>1, Leaves DEF downFlight, DownTypes
      <3> QED BY <1>4, <2>1, <3>2 DEF CliReads, devEndVars
    <2>2. CASE UNCHANGED <<ipcDown, cliGot>>
      BY <1>4, <2>2 DEF CliReads, downFlight, devEndVars
    <2> QED BY <1>4, <2>1, <2>2 DEF CliReads
  <1>5. CASE UNCHANGED <<ipcDown, hereDown, smcDown, cli, cliGot, devSent>>
    BY <1>5 DEF downFlight
  <1>6. CASE CliCloses
    <2>1. cli # "gone"
      BY <1>0, <1>6 DEF CliCloses, UpTypes
    <2> QED BY <1>6, <2>1 DEF CliCloses, downFlight, downVars, devEndVars
  <1>7. BackEof \/ MainLoop \/ CliSends \/ DevEndReads \/ DevEndLeaves \/ UNCHANGED proxyVars
          => UNCHANGED <<ipcDown, hereDown, smcDown, cli, cliGot, devSent>>
    BY DEF BackEof, MainLoop, MainReads, MainEof, MainWrites, CliSends, DevEndReads,
       DevEndLeaves, proxyVars, downVars, cliVars, devEndVars
  <1> QED BY <1>1, <1>2, <1>3, <1>4, <1>5, <1>6, <1>7 DEF ProxyNext, BackLoop

\* Such a step keeps the bytes numbered.
LEMMA CarriesNumbered ==
  ASSUME NEW f, NEW fNew, NEW got \in Nat, NEW gotNew, NEW sent \in Nat, NEW sentNew,
         Numbered(f, got, sent), Carries(f, fNew, got, gotNew, sent, sentNew)
  PROVE  Numbered(fNew, gotNew, sentNew)
  <1>1. CASE fNew = f /\ gotNew = got /\ sentNew = sent
    BY <1>1
  <1>2. CASE fNew = Append(f, sent + 1) /\ gotNew = got /\ sentNew = sent + 1
    BY <1>2, NumberedEnters
  <1>3. CASE f # <<>> /\ fNew = Tail(f) /\ gotNew = got + 1 /\ sentNew = sent
    BY <1>3, NumberedLeaves
  <1> QED BY <1>1, <1>2, <1>3 DEF Carries

\* The loops: hands are empty outside a write, and a loop ends for a cause.
LEMMA LoopsStep ==
  ASSUME ProxyInv, [ProxyNext]_proxyVars
  PROVE  HandsEmpty' /\ MainOver' /\ BackOver'
  <1>0. UpTypes /\ DownTypes /\ HandsEmpty /\ MainOver /\ BackOver
    BY DEF ProxyInv, UpInv, DownInv
  <1> USE <1>0 DEF UpTypes, DownTypes, HandsEmpty, MainOver, BackOver,
                   upVars, downVars, cliVars, devEndVars
  <1>1. CASE MainLoop
    BY <1>1 DEF MainLoop, MainReads, MainEof, MainWrites
  <1>2. CASE BackLoop
    BY <1>2 DEF BackLoop, BackReads, BackEof, BackWrites
  <1>3. CASE CliSends \/ CliCloses \/ CliReads
    BY <1>3 DEF CliSends, CliCloses, CliReads
  <1>4. CASE DevEndSends \/ DevEndLeaves \/ DevEndReads
    BY <1>4 DEF DevEndSends, DevEndLeaves, DevEndReads
  <1>5. CASE UNCHANGED proxyVars
    BY <1>5 DEF proxyVars
  <1> QED BY <1>1, <1>2, <1>3, <1>4, <1>5 DEF ProxyNext

\* The end of a stream, and what was read before it.
LEMMA EndsStep ==
  ASSUME ProxyInv, [ProxyNext]_proxyVars
  PROVE  EndsLast' /\ EndAfterAll'
  <1>0. UpTypes /\ DownTypes /\ HandsEmpty /\ MainOver /\ BackOver /\ EndsLast /\ EndAfterAll
        /\ UpWhole /\ DownWhole
    BY DEF ProxyInv, UpInv, DownInv
  <1>1. CASE CliReads
    <2>1. CASE ipcDown # <<>> /\ cliGot' = cliGot + 1 /\ UNCHANGED cliEof
      <3>1. Len(downFlight) > 0
        BY <1>0, <2>1, ConcatThree DEF downFlight, DownTypes
      <3>2. cliGot # devSent /\ ~cliEof
        BY <1>0, <1>1, <3>1 DEF CliReads, DownWhole, Numbered, DownTypes, EndAfterAll
      <3> QED BY <1>0, <1>1, <2>1, <3>2
              DEF CliReads, EndsLast, EndAfterAll, SocketsHeld, upVars, devEndVars
    <2>2. CASE ipcDown = <<>> /\ ~SocketsHeld /\ cliEof' = TRUE /\ UNCHANGED cliGot
      <3>1. smcDown = <<>> /\ hereDown = <<>>
        BY <1>0, <1>1, <2>2 DEF CliReads, SocketsHeld, BackOver, HandsEmpty
      <3>2. cliGot = devSent
        BY <1>0, <1>1, <2>2, <3>1 DEF CliReads, DownWhole, Numbered, DownTypes, downFlight
      <3> QED BY <1>0, <1>1, <2>2, <3>2
              DEF CliReads, EndsLast, EndAfterAll, SocketsHeld, upVars, devEndVars
    <2> QED BY <1>1, <2>1, <2>2 DEF CliReads
  <1>2. CASE DevEndReads
    <2>1. CASE smcUp # <<>> /\ devGot' = devGot + 1 /\ UNCHANGED devEof
      <3>1. Len(upFlight) > 0
        BY <1>0, <2>1, ConcatThree DEF upFlight, UpTypes
      <3>2. devGot # cliSent /\ ~devEof
        BY <1>0, <1>2, <3>1 DEF DevEndReads, UpWhole, Numbered, UpTypes, EndAfterAll
      <3> QED BY <1>0, <1>2, <2>1, <3>2
              DEF DevEndReads, EndsLast, EndAfterAll, SocketsHeld, downVars, cliVars
    <2>2. CASE smcUp = <<>> /\ ~SocketsHeld /\ devEof' = TRUE /\ UNCHANGED devGot
      <3>1. ipcUp = <<>> /\ hereUp = <<>>
        BY <1>0, <1>2, <2>2 DEF DevEndReads, SocketsHeld, MainOver, HandsEmpty
      <3>2. devGot = cliSent
        BY <1>0, <1>2, <2>2, <3>1 DEF DevEndReads, UpWhole, Numbered, UpTypes, upFlight
      <3> QED BY <1>0, <1>2, <2>2, <3>2
              DEF DevEndReads, EndsLast, EndAfterAll, SocketsHeld, downVars, cliVars
    <2> QED BY <1>2, <2>1, <2>2 DEF DevEndReads
  <1>3. CASE CliSends \/ DevEndSends
    BY <1>0, <1>3 DEF CliSends, DevEndSends, EndsLast, EndAfterAll, SocketsHeld,
       upVars, downVars, cliVars, devEndVars
  <1>4. CASE /\ UNCHANGED <<cliSent, cliGot, cliEof, devSent, devGot, devEof>>
             /\ SocketsHeld' => SocketsHeld
    BY <1>0, <1>4 DEF EndsLast, EndAfterAll
  <1>5. MainLoop \/ BackLoop \/ CliCloses \/ DevEndLeaves \/ UNCHANGED proxyVars
          => /\ UNCHANGED <<cliSent, cliGot, cliEof, devSent, devGot, devEof>>
             /\ SocketsHeld' => SocketsHeld
    BY DEF MainLoop, MainReads, MainEof, MainWrites, BackLoop, BackReads, BackEof, BackWrites,
       CliCloses, DevEndLeaves, SocketsHeld, proxyVars, upVars, downVars, cliVars, devEndVars
  <1> QED BY <1>1, <1>2, <1>3, <1>4, <1>5 DEF ProxyNext

LEMMA ProxyInvStep ==
  ASSUME ProxyInv, [ProxyNext]_proxyVars
  PROVE  ProxyInv'
  <1>0. UpTypes /\ UpWhole /\ DownTypes /\ DownWhole
    BY DEF ProxyInv, UpInv, DownInv
  <1>1. UpWhole'
    <2> SUFFICES ASSUME devEnd' = "open" PROVE Numbered(upFlight', devGot', cliSent')
      BY DEF UpWhole
    <2>1. Carries(upFlight, upFlight', devGot, devGot', cliSent, cliSent')
          /\ Numbered(upFlight, devGot, cliSent)
      BY <1>0, UpStep DEF UpWhole
    <2> QED BY <1>0, <2>1, CarriesNumbered DEF UpTypes
  <1>2. DownWhole'
    <2> SUFFICES ASSUME cli' # "gone" PROVE Numbered(downFlight', cliGot', devSent')
      BY DEF DownWhole
    <2>1. Carries(downFlight, downFlight', cliGot, cliGot', devSent, devSent')
          /\ Numbered(downFlight, cliGot, devSent)
      BY <1>0, DownStep DEF DownWhole
    <2> QED BY <1>0, <2>1, CarriesNumbered DEF DownTypes
  <1> QED BY <1>1, <1>2, ProxyTypes, LoopsStep, EndsStep DEF ProxyInv, UpInv, DownInv

LEMMA ProxyInvariant == ProxySpec => []ProxyInv
  <1>1. ProxyInv /\ [ProxyNext]_proxyVars => ProxyInv'
    BY ProxyInvStep
  <1> QED BY <1>1, ProxyInvInit, PTL DEF ProxySpec

\* Whoever reads the end of the stream has read all that was sent, whatever
\* the number of bytes and the size of the sockets (proxy, 421-437).
THEOREM EndComesLast == ProxySpec => []EndAfterAll
  <1>1. ProxyInv => EndAfterAll
    BY DEF ProxyInv
  <1> QED BY <1>1, ProxyInvariant, PTL

-----------------------------------------------------------------------------
(* Both directions implement BytePipe: a step maps to Send, Recv, Cut or   *)
(* nothing.                                                                *)

LEMMA UpRefines ==
  ASSUME ProxyInv, [ProxyNext]_proxyVars
  PROVE  [Up!Next]_(Up!pipeVars)
  <1>0. UpTypes /\ DownTypes /\ UpWhole
    BY DEF ProxyInv, UpInv, DownInv
  <1>1. CASE devEnd' = "open"
    <2>1. devEnd = "open" /\ Numbered(upFlight, devGot, cliSent)
      BY <1>0, <1>1, UpStep DEF UpWhole
    <2>2. CASE upFlight' = upFlight /\ devGot' = devGot /\ cliSent' = cliSent
      BY <1>1, <2>1, <2>2 DEF Up!pipeVars, upFlight
    <2>3. CASE upFlight' = Append(upFlight, cliSent + 1) /\ devGot' = devGot /\ cliSent' = cliSent + 1
      <3>1. Up!Send
        BY <1>1, <2>1, <2>3 DEF Up!Send, upFlight
      <3> QED BY <3>1 DEF Up!Next
    <2>4. CASE upFlight # <<>> /\ upFlight' = Tail(upFlight) /\ devGot' = devGot + 1 /\ cliSent' = cliSent
      <3>1. Head(upFlight) = devGot + 1
        BY <1>0, <2>1, <2>4, NumberedLeaves DEF UpTypes
      <3>2. Up!Recv
        BY <1>1, <2>1, <2>4, <3>1 DEF Up!Recv, upFlight
      <3> QED BY <3>2 DEF Up!Next
    <2> QED BY <1>1, <2>2, <2>3, <2>4, UpStep DEF Carries
  <1>2. CASE devEnd' # "open"
    <2>1. CASE devEnd = "open"
      <3>1. DevEndLeaves
        BY <1>2, <2>1 DEF ProxyNext, proxyVars, MainLoop, BackLoop, MainReads, MainEof, MainWrites,
           BackReads, BackEof, BackWrites, CliSends, CliCloses, CliReads, DevEndSends, DevEndReads,
           devEndVars
      <3>2. upFlight \in Seq(Nat)
        BY <1>0, ConcatThree DEF upFlight, UpTypes
      <3>3. 0 \in 0..Len(upFlight) /\ SubSeq(upFlight, 1, 0) = <<>>
        BY <3>2
      <3>4. Up!Cut
        BY <1>2, <2>1, <3>1, <3>3 DEF DevEndLeaves, Up!Cut, cliVars, upFlight
      <3> QED BY <3>4 DEF Up!Next
    <2>2. CASE devEnd # "open"
      <3>0. devEnd = "gone" /\ devEnd' = "gone" /\ devGot' = devGot
        BY <1>0, <2>2 DEF DownTypes, ProxyNext, proxyVars, MainLoop, BackLoop, MainReads, MainEof,
           MainWrites, BackReads, BackEof, BackWrites, CliSends, CliCloses, CliReads, DevEndSends,
           DevEndLeaves, DevEndReads, devEndVars
      <3>1. CASE CliSends
        <4>1. Up!Send
          BY <3>0, <3>1 DEF CliSends, Up!Send
        <4> QED BY <4>1 DEF Up!Next
      <3>2. CASE ~CliSends
        <4>1. cliSent' = cliSent
          BY <3>2 DEF ProxyNext, proxyVars, MainLoop, BackLoop, MainReads, MainEof,
             MainWrites, BackReads, BackEof, BackWrites, CliCloses, CliReads, DevEndSends,
             DevEndLeaves, DevEndReads, cliVars
        <4> QED BY <3>0, <4>1 DEF Up!pipeVars
      <3> QED BY <3>1, <3>2
    <2> QED BY <2>1, <2>2
  <1> QED BY <1>1, <1>2

LEMMA DownRefines ==
  ASSUME ProxyInv, [ProxyNext]_proxyVars
  PROVE  [Down!Next]_(Down!pipeVars)
  <1>0. UpTypes /\ DownTypes /\ DownWhole
    BY DEF ProxyInv, UpInv, DownInv
  <1>1. CASE cli' # "gone"
    <2>1. cli # "gone" /\ Numbered(downFlight, cliGot, devSent)
      BY <1>0, <1>1, DownStep DEF DownWhole
    <2>2. CASE downFlight' = downFlight /\ cliGot' = cliGot /\ devSent' = devSent
      BY <1>1, <2>1, <2>2 DEF Down!pipeVars, downFlight
    <2>3. CASE downFlight' = Append(downFlight, devSent + 1) /\ cliGot' = cliGot /\ devSent' = devSent + 1
      <3>1. Down!Send
        BY <1>1, <2>1, <2>3 DEF Down!Send, downFlight
      <3> QED BY <3>1 DEF Down!Next
    <2>4. CASE downFlight # <<>> /\ downFlight' = Tail(downFlight) /\ cliGot' = cliGot + 1 /\ devSent' = devSent
      <3>1. Head(downFlight) = cliGot + 1
        BY <1>0, <2>1, <2>4, NumberedLeaves DEF DownTypes
      <3>2. Down!Recv
        BY <1>1, <2>1, <2>4, <3>1 DEF Down!Recv, downFlight
      <3> QED BY <3>2 DEF Down!Next
    <2> QED BY <1>1, <2>2, <2>3, <2>4, DownStep DEF Carries
  <1>2. CASE cli' = "gone"
    <2>1. CASE cli # "gone"
      <3>1. CliCloses
        BY <1>2, <2>1 DEF ProxyNext, proxyVars, MainLoop, BackLoop, MainReads, MainEof, MainWrites,
           BackReads, BackEof, BackWrites, CliSends, CliReads, DevEndSends, DevEndLeaves, DevEndReads,
           cliVars
      <3>2. downFlight \in Seq(Nat)
        BY <1>0, ConcatThree DEF downFlight, DownTypes
      <3>3. 0 \in 0..Len(downFlight) /\ SubSeq(downFlight, 1, 0) = <<>>
        BY <3>2
      <3>4. Down!Cut
        BY <1>2, <2>1, <3>1, <3>3 DEF CliCloses, Down!Cut, devEndVars, downFlight
      <3> QED BY <3>4 DEF Down!Next
    <2>2. CASE cli = "gone"
      <3>0. cliGot' = cliGot
        BY <2>2 DEF ProxyNext, proxyVars, MainLoop, BackLoop, MainReads, MainEof, MainWrites,
           BackReads, BackEof, BackWrites, CliSends, CliCloses, CliReads, DevEndSends, DevEndLeaves,
           DevEndReads, cliVars
      <3>1. CASE DevEndSends
        <4>1. Down!Send
          BY <1>2, <2>2, <3>0, <3>1 DEF DevEndSends, Down!Send
        <4> QED BY <4>1 DEF Down!Next
      <3>2. CASE ~DevEndSends
        <4>1. devSent' = devSent
          BY <3>2 DEF ProxyNext, proxyVars, MainLoop, BackLoop, MainReads, MainEof, MainWrites,
             BackReads, BackEof, BackWrites, CliSends, CliCloses, CliReads, DevEndLeaves,
             DevEndReads, devEndVars
        <4> QED BY <1>2, <2>2, <3>0, <4>1 DEF Down!pipeVars
      <3> QED BY <3>1, <3>2
    <2> QED BY <2>1, <2>2
  <1> QED BY <1>1, <1>2

\* Both directions of the proxy implement the abstract byte pipe, whatever the
\* interleaving of the two loops, the client and the device (421-437).
THEOREM ProxyImplementsPipes == ProxySpec => ProxyPipes
  <1>1. ProxyInit => Up!Init /\ Down!Init
    BY DEF ProxyInit, Up!Init, Down!Init
  <1>2. ProxyInv /\ [ProxyNext]_proxyVars => [Up!Next]_(Up!pipeVars) /\ [Down!Next]_(Down!pipeVars)
    BY UpRefines, DownRefines
  <1> QED BY <1>1, <1>2, ProxyInvariant, PTL
          DEF ProxySpec, ProxyPipes, UpPipe, DownPipe, Up!Spec, Down!Spec

-----------------------------------------------------------------------------
(* The framing: the inductive invariant of a reader that never goes on     *)
(* after it has dropped units.                                             *)

\* The packet to be read next, and the unit the reader meets next.
Current == IF stage = "packets" THEN Len(packets) + 1 ELSE 0
Front == IF stream = <<>> THEN upNext ELSE stream[1]

\* What has arrived is a run of units that the next one to be sent continues.
StreamRuns ==
  \A i \in 1..Len(stream) :
    After(stream[i]) = IF i = Len(stream) THEN upNext ELSE stream[i + 1]

\* A reader at work is at the start of the current packet, or has read a
\* part of it and knows its length.
AtStart == part = <<>> => Front = [packet |-> Current, pos |-> 0]
InPacket ==
  part # <<>> =>
    /\ Current \in {0} \cup DOMAIN Payloads /\ need = LengthOf(Current) + 1
    /\ \A i \in 1..Len(part) : part[i] = [packet |-> Current, pos |-> i - 1]
    /\ Front = After(part[Len(part)])
InStep == ~ended => AtStart /\ InPacket

NoneBefore == stage # "packets" => packets = <<>>

FramingInv == FramingSafe /\ StreamRuns /\ InStep /\ NoneBefore

LEMMA LengthType ==
  ASSUME NEW p \in {0} \cup DOMAIN Payloads
  PROVE  LengthOf(p) \in 0..MaxPayload
  BY FramingAssumption DEF LengthOf

LEMMA PayloadsDomain == Len(Payloads) \in Nat /\ DOMAIN Payloads = 1..Len(Payloads)
  BY FramingAssumption

LEMMA AfterType ==
  ASSUME NEW u \in Unit
  PROVE  After(u) \in UnitOrEnd
  <1>1. u.packet \in 0..Len(Payloads) /\ u.pos \in 0..MaxPayload /\ MaxPayload \in Nat
    BY PayloadsDomain, FramingAssumption DEF Unit
  <1>2. LengthOf(u.packet) \in 0..MaxPayload
    BY LengthType DEF Unit
  <1>3. CASE u.pos < LengthOf(u.packet)
    BY <1>1, <1>2, <1>3, PayloadsDomain DEF After, Unit, UnitOrEnd
  <1>4. CASE ~(u.pos < LengthOf(u.packet))
    <2>1. After(u) = [packet |-> u.packet + 1, pos |-> 0]
      BY <1>4 DEF After
    <2>2. CASE u.packet = Len(Payloads)
      BY <2>1, <2>2 DEF UnitOrEnd
    <2>3. CASE u.packet # Len(Payloads)
      <3>1. u.packet + 1 \in DOMAIN Payloads
        BY <1>1, <2>3, PayloadsDomain
      <3> QED BY <1>1, <2>1, <3>1 DEF UnitOrEnd, Unit
    <2> QED BY <2>2, <2>3
  <1> QED BY <1>3, <1>4

\* The types, for either kind of reader.
FramingTypeInv == FramingTypeOK /\ (part = <<>> => need = 1)

LEMMA FramingTypeInit == FramingInit => FramingTypeInv
  <1> SUFFICES ASSUME FramingInit PROVE FramingTypeInv
    OBVIOUS
  <1>1. MaxPayload \in Nat
    BY FramingAssumption
  <1>2. upNext \in UnitOrEnd
    BY <1>1 DEF FramingInit, UnitOrEnd, Unit
  <1>3. <<>> \in Seq(Unit) /\ <<>> \in Seq(Seq(Unit)) /\ Len(<<>>) = 0
    OBVIOUS
  <1>4. ended \in BOOLEAN /\ closed \in BOOLEAN
    BY Zenon DEF FramingInit
  <1> QED BY <1>1, <1>2, <1>3, <1>4 DEF FramingInit, FramingTypeInv, FramingTypeOK

LEMMA FramingTypeStep ==
  ASSUME FramingTypeInv, [FramingNext]_framingVars
  PROVE  FramingTypeInv'
  <1>0. MaxPayload \in Nat /\ <<>> \in Seq(Unit) /\ Len(<<>>) = 0
    BY FramingAssumption
  <1>1. ASSUME stream # <<>>
        PROVE  /\ Head(stream) \in Unit /\ Tail(stream) \in Seq(Unit)
               /\ <<Head(stream)>> \in Seq(Unit) /\ Len(<<Head(stream)>>) = 1
               /\ Append(part, Head(stream)) \in Seq(Unit)
               /\ Len(Append(part, Head(stream))) = Len(part) + 1
    BY <1>1 DEF FramingTypeInv, FramingTypeOK
  <1> USE DEF FramingTypeInv, FramingTypeOK, connVars, devSideVars
  <1>2. CASE SendHandshake
    BY <1>2 DEF SendHandshake
  <1>3. CASE Arrive
    <2>1. stream' \in Seq(Unit) /\ upNext' \in UnitOrEnd
      BY <1>3, AfterType DEF Arrive
    <2> QED BY <1>3, <2>1 DEF Arrive
  <1>4. CASE DeviceCloses
    BY <1>4 DEF DeviceCloses
  <1>5. CASE ReadHeader
    <2>1. Announced(Head(stream)) \subseteq 0..MaxPayload
      BY <1>1, <1>5, LengthType DEF ReadHeader, Announced, Unit
    <2>2. need' \in 1..(MaxPayload + 1)
      BY <1>0, <1>5, <2>1 DEF ReadHeader
    <2>3. ended' \in BOOLEAN
      BY <1>5, Zenon DEF ReadHeader
    <2>4. part' \in Seq(Unit) /\ Len(part') = 1 /\ stream' \in Seq(Unit) /\ part' # <<>>
      BY <1>1, <1>5 DEF ReadHeader
    <2> QED BY <1>0, <1>5, <2>2, <2>3, <2>4 DEF ReadHeader
  <1>6. CASE ReadPayload
    <2>1. /\ part' \in Seq(Unit) /\ Len(part') = Len(part) + 1 /\ stream' \in Seq(Unit)
          /\ Len(part) < need /\ part' # <<>>
      BY <1>1, <1>6 DEF ReadPayload
    <2> QED BY <1>6, <2>1 DEF ReadPayload
  <1>7. CASE HandshakeDone
    <2>1. ended' \in BOOLEAN
      BY <1>7, Zenon DEF HandshakeDone
    <2> QED BY <1>0, <1>7, <2>1 DEF HandshakeDone
  <1>8. CASE ReturnPacket
    <2>1. packets' \in Seq(Seq(Unit))
      BY <1>8 DEF ReturnPacket
    <2> QED BY <1>0, <1>8, <2>1 DEF ReturnPacket
  <1>9. CASE ReadTimeout
    <2>1. ended' \in BOOLEAN
      BY <1>9, Zenon DEF ReadTimeout
    <2> QED BY <1>0, <1>9, <2>1 DEF ReadTimeout
  <1>10. CASE ReadEof
    BY <1>0, <1>10 DEF ReadEof
  <1>11. CASE UNCHANGED framingVars
    BY <1>11 DEF framingVars
  <1> QED BY <1>2, <1>3, <1>4, <1>5, <1>6, <1>7, <1>8, <1>9, <1>10, <1>11 DEF FramingNext

\* A unit arrives behind the others, or is taken from the front.
LEMMA ArriveRuns ==
  ASSUME FramingTypeInv, StreamRuns, Arrive
  PROVE  StreamRuns' /\ Front' = Front
  <1>1. /\ stream \in Seq(Unit) /\ upNext \in Unit
        /\ stream' = Append(stream, upNext) /\ upNext' = After(upNext)
    BY DEF Arrive, FramingTypeInv, FramingTypeOK
  <1>2. /\ Len(stream') = Len(stream) + 1 /\ Len(stream) \in Nat
        /\ \A i \in 1..Len(stream) : stream'[i] = stream[i]
        /\ stream'[Len(stream) + 1] = upNext
    BY <1>1
  <1>3. ASSUME NEW i \in 1..Len(stream')
        PROVE  After(stream'[i]) = IF i = Len(stream') THEN upNext' ELSE stream'[i + 1]
    BY <1>1, <1>2 DEF StreamRuns
  <1>4. Front' = Front
    BY <1>1, <1>2 DEF Front
  <1> QED BY <1>3, <1>4 DEF StreamRuns, After, LengthOf

LEMMA TakeRuns ==
  ASSUME FramingTypeInv, StreamRuns, stream # <<>>, stream' = Tail(stream), UNCHANGED upNext
  PROVE  StreamRuns' /\ Front = Head(stream) /\ Front' = After(Head(stream))
  <1>1. stream \in Seq(Unit)
    BY DEF FramingTypeInv, FramingTypeOK
  <1>2. /\ Len(stream') = Len(stream) - 1 /\ Len(stream) \in Nat \ {0} /\ stream' \in Seq(Unit)
        /\ \A i \in 1..(Len(stream) - 1) : stream'[i] = stream[i + 1]
    BY <1>1
  <1>3. Head(stream) = stream[1]
    BY <1>1
  <1>4. stream' = <<>> <=> Len(stream) = 1
    <2>1. \A s \in Seq(Unit) : s = <<>> <=> Len(s) = 0
      OBVIOUS
    <2>2. stream' = <<>> <=> Len(stream') = 0
      BY <1>2, <2>1, Zenon
    <2>3. Len(stream') = 0 <=> Len(stream) = 1
      BY <1>2
    <2> QED BY <2>2, <2>3, Zenon
  <1>5. ASSUME NEW i \in 1..Len(stream')
        PROVE  After(stream'[i]) = IF i = Len(stream') THEN upNext' ELSE stream'[i + 1]
    <2>1. i + 1 \in 1..Len(stream) /\ stream'[i] = stream[i + 1]
      BY <1>2
    <2>2. After(stream[i + 1]) = IF i + 1 = Len(stream) THEN upNext ELSE stream[(i + 1) + 1]
      BY <2>1 DEF StreamRuns
    <2>3. i # Len(stream') => stream'[i + 1] = stream[(i + 1) + 1]
      <3>0. ASSUME NEW n \in Nat, NEW m \in Nat, n = m - 1, i \in 1..n, i # n
            PROVE  i + 1 \in 1..(m - 1)
        BY <3>0
      <3>1. i # Len(stream') => i + 1 \in 1..(Len(stream) - 1)
        <4>1. Len(stream') \in Nat /\ Len(stream) \in Nat /\ Len(stream') = Len(stream) - 1
          BY <1>2
        <4> QED BY <3>0, <4>1, Zenon
      <3> QED BY <1>2, <3>1, Zenon
    <2>4. i = Len(stream') <=> i + 1 = Len(stream)
      BY <1>2
    <2> QED BY <2>1, <2>2, <2>3, <2>4
  <1>6. Front' = After(Head(stream))
    <2>1. 1 \in 1..Len(stream)
      BY <1>2
    <2>2. After(stream[1]) = IF 1 = Len(stream) THEN upNext ELSE stream[1 + 1]
      BY <2>1 DEF StreamRuns
    <2>3. Len(stream) # 1 => stream'[1] = stream[1 + 1]
      BY <1>2
    <2> QED BY <1>3, <1>4, <2>2, <2>3 DEF Front
  <1> QED BY <1>3, <1>5, <1>6 DEF StreamRuns, Front, After, LengthOf

\* A whole packet has the units of the packet.
LEMMA WholePacket ==
  ASSUME FramingTypeInv, InPacket, Whole
  PROVE  /\ Current \in {0} \cup DOMAIN Payloads /\ part = PacketUnits(Current)
         /\ Front = [packet |-> Current + 1, pos |-> 0]
  <1>1. /\ part \in Seq(Unit) /\ part # <<>> /\ Len(part) = need /\ need = LengthOf(Current) + 1
        /\ Current \in {0} \cup DOMAIN Payloads
        /\ \A i \in 1..Len(part) : part[i] = [packet |-> Current, pos |-> i - 1]
        /\ Front = After(part[Len(part)])
    BY DEF FramingTypeInv, FramingTypeOK, InPacket, Whole
  <1>2. LengthOf(Current) \in Nat /\ Current \in Nat
    BY <1>1, LengthType, PayloadsDomain, FramingAssumption
  <1>3. part = [i \in 1..Len(part) |-> part[i]]
    BY <1>1
  <1>4. part = PacketUnits(Current)
    BY <1>1, <1>2, <1>3 DEF PacketUnits
  <1>5. part[Len(part)] = [packet |-> Current, pos |-> LengthOf(Current)]
    BY <1>1, <1>2
  <1> QED BY <1>1, <1>2, <1>4, <1>5 DEF After

LEMMA FramingInvInit == FramingInit => FramingInv
  <1> SUFFICES ASSUME FramingInit PROVE FramingInv
    OBVIOUS
  <1>1. FramingTypeOK
    BY FramingTypeInit DEF FramingTypeInv
  <1>2. PacketsIntact /\ StreamRuns /\ NoneBefore
    BY DEF FramingInit, PacketsIntact, StreamRuns, NoneBefore
  <1>3. InStep
    BY DEF FramingInit, InStep, AtStart, InPacket, Front, Current
  <1> QED BY <1>1, <1>2, <1>3 DEF FramingInv, FramingSafe

LEMMA FramingInvStep ==
  ASSUME ~RetryOnTimeout, FramingTypeInv, FramingInv, [FramingNext]_framingVars
  PROVE  FramingInv'
  <1>0. FramingTypeInv' /\ FramingTypeOK'
    BY FramingTypeStep DEF FramingTypeInv
  <1>1. PacketsIntact /\ StreamRuns /\ InStep /\ NoneBefore /\ FramingTypeOK
    BY DEF FramingInv, FramingSafe
  <1> SUFFICES PacketsIntact' /\ StreamRuns' /\ InStep' /\ NoneBefore'
    BY <1>0 DEF FramingInv, FramingSafe
  <1> USE DEF connVars, devSideVars
  <1>2. CASE UNCHANGED <<packets, stream, upNext>> /\ ended' /\ NoneBefore'
    BY <1>1, <1>2 DEF PacketsIntact, PacketUnits, StreamRuns, After, LengthOf, InStep
  <1>3. CASE SendHandshake
    BY <1>1, <1>3 DEF SendHandshake, PacketsIntact, PacketUnits, StreamRuns, After, LengthOf,
       InStep, NoneBefore, AtStart, InPacket, Front, Current
  <1>4. CASE Arrive
    <2>1. StreamRuns' /\ Front' = Front
      BY <1>1, <1>4, ArriveRuns
    <2>2. UNCHANGED <<stage, part, need, packets, ended>>
      BY <1>4 DEF Arrive
    <2> QED BY <1>1, <2>1, <2>2 DEF PacketsIntact, InStep, NoneBefore, AtStart, InPacket, Current
  <1>5. CASE DeviceCloses \/ UNCHANGED framingVars
    <2>1. UNCHANGED <<stage, upNext, stream, part, need, packets, ended>>
      BY <1>5 DEF DeviceCloses, framingVars
    <2> QED BY <1>1, <2>1 DEF PacketsIntact, StreamRuns, InStep, NoneBefore, AtStart, InPacket,
            Front, Current
  <1>6. CASE ReadHeader
    <2>1. /\ ~ended /\ part = <<>> /\ stream # <<>> /\ stream' = Tail(stream)
          /\ part' = <<Head(stream)>> /\ UNCHANGED <<stage, upNext, packets>>
          /\ \E n \in Announced(Head(stream)) : need' = n + 1
      BY <1>6 DEF ReadHeader
    <2>2. StreamRuns' /\ Front = Head(stream) /\ Front' = After(Head(stream))
      BY <1>1, <2>1, TakeRuns
    <2>3. Head(stream) = [packet |-> Current, pos |-> 0]
      BY <1>1, <2>1, <2>2 DEF InStep, AtStart
    <2>4. need' = LengthOf(Current) + 1
      BY <2>1, <2>3 DEF Announced
    <2>5. Current \in {0} \cup DOMAIN Payloads
      <3>1. Head(stream) \in Unit
        BY <1>1, <2>1 DEF FramingTypeOK
      <3>2. Head(stream).packet = Current
        BY <2>3
      <3> QED BY <3>1, <3>2 DEF Unit
    <2>6. Current' = Current
      BY <2>1 DEF Current
    <2>7. part' # <<>> /\ Len(part') = 1 /\ part'[1] = Head(stream)
      BY <2>1
    <2>8. InPacket' /\ AtStart'
      <3>1. \A i \in 1..Len(part') : part'[i] = [packet |-> Current', pos |-> i - 1]
        <4>1. 1..Len(part') = {1}
          BY <2>7
        <4>2. part'[1] = [packet |-> Current', pos |-> 1 - 1]
          BY <2>3, <2>6, <2>7
        <4> QED BY <4>1, <4>2
      <3>2. Front' = After(part'[Len(part')])
        BY <2>2, <2>7
      <3> QED BY <2>4, <2>5, <2>6, <2>7, <3>1, <3>2 DEF InPacket, AtStart, LengthOf, After
    <2> QED BY <1>1, <2>1, <2>2, <2>8 DEF PacketsIntact, InStep, NoneBefore
  <1>7. CASE ReadPayload
    <2>1. /\ ~ended /\ part # <<>> /\ Len(part) < need /\ stream # <<>> /\ stream' = Tail(stream)
          /\ part' = Append(part, Head(stream)) /\ UNCHANGED <<stage, upNext, packets, need, ended>>
      BY <1>7 DEF ReadPayload
    <2>2. StreamRuns' /\ Front = Head(stream) /\ Front' = After(Head(stream))
      BY <1>1, <2>1, TakeRuns
    <2>3. InPacket
      BY <1>1, <2>1 DEF InStep
    <2>4. LengthOf(Current) \in Nat
      BY <2>1, <2>3, LengthType, FramingAssumption DEF InPacket
    <2>5. /\ Len(part') = Len(part) + 1 /\ Len(part) \in Nat \ {0} /\ part' # <<>>
          /\ \A i \in 1..Len(part) : part'[i] = part[i]
          /\ part'[Len(part) + 1] = Head(stream)
      BY <1>1, <2>1, SMTT(30) DEF FramingTypeOK
    <2>6. Head(stream) = [packet |-> Current, pos |-> Len(part)]
      <3>1. part[Len(part)] = [packet |-> Current, pos |-> Len(part) - 1] /\ Len(part) <= LengthOf(Current)
        BY <2>1, <2>3, <2>4, <2>5 DEF InPacket
      <3>2. After(part[Len(part)]) = [packet |-> Current, pos |-> Len(part)]
        BY <2>4, <2>5, <3>1 DEF After
      <3> QED BY <2>1, <2>2, <2>3, <3>2 DEF InPacket
    <2>7. Current' = Current
      BY <2>1 DEF Current
    <2>8. \A i \in 1..Len(part') : part'[i] = [packet |-> Current', pos |-> i - 1]
      BY <2>1, <2>3, <2>5, <2>6, <2>7, SMTT(30) DEF InPacket
    <2>9. InPacket' /\ AtStart'
      BY <2>1, <2>2, <2>3, <2>5, <2>7, <2>8 DEF InPacket, AtStart, LengthOf
    <2> QED BY <1>1, <2>1, <2>2, <2>9 DEF PacketsIntact, InStep, NoneBefore
  <1>8. CASE HandshakeDone
    <2>1. /\ stage = "handshake" /\ Whole /\ part' = <<>> /\ UNCHANGED <<upNext, stream, packets>>
          /\ ended' = ~answer.params /\ stage' = IF answer.params THEN "packets" ELSE stage
      BY <1>8 DEF HandshakeDone
    <2>2. InPacket
      BY <1>1, <2>1 DEF InStep, Whole
    <2>3. Current = 0 /\ Front = [packet |-> 1, pos |-> 0] /\ Front' = Front
      BY <1>1, <2>1, <2>2, WholePacket DEF Current, Front
    <2>4. ~ended' => Current' = 1
      <3>1. ~ended' => stage' = "packets"
        BY <2>1, Zenon
      <3>2. Len(packets') = 0
        BY <1>1, <2>1 DEF NoneBefore
      <3> QED BY <3>1, <3>2 DEF Current
    <2>5. InStep'
      BY <2>1, <2>3, <2>4 DEF InStep, AtStart, InPacket
    <2> QED BY <1>1, <2>1, <2>5 DEF PacketsIntact, StreamRuns, NoneBefore
  <1>9. CASE ReturnPacket
    <2>1. /\ stage = "packets" /\ Whole /\ packets' = Append(packets, part) /\ part' = <<>>
          /\ UNCHANGED <<stage, upNext, stream, ended>>
      BY <1>9 DEF ReturnPacket
    <2>2. InPacket
      BY <1>1, <2>1 DEF InStep, Whole
    <2>3. /\ Current = Len(packets) + 1 /\ Current \in DOMAIN Payloads
          /\ part = PacketUnits(Current) /\ Front = [packet |-> Current + 1, pos |-> 0]
      <3>1. Current = Len(packets) + 1 /\ Len(packets) \in Nat
        BY <1>1, <2>1 DEF Current, FramingTypeOK
      <3> QED BY <2>1, <2>2, <3>1, WholePacket
    <2>4. /\ Len(packets') = Len(packets) + 1 /\ Len(packets) \in Nat
          /\ DOMAIN packets' = 1..(Len(packets) + 1) /\ DOMAIN packets = 1..Len(packets)
          /\ \A i \in 1..Len(packets) : packets'[i] = packets[i]
          /\ packets'[Len(packets) + 1] = part
      BY <1>1, <2>1 DEF FramingTypeOK
    <2>5. PacketsIntact'
      BY <1>1, <2>3, <2>4 DEF PacketsIntact, PacketUnits, LengthOf
    <2>6. Current' = Current + 1 /\ Front' = Front
      BY <2>1, <2>3, <2>4 DEF Current, Front
    <2> QED BY <1>1, <2>1, <2>3, <2>5, <2>6 DEF StreamRuns, InStep, AtStart, InPacket, NoneBefore
  <1>10. ReadTimeout \/ ReadEof => UNCHANGED <<packets, stream, upNext>> /\ ended' /\ NoneBefore'
    BY <1>1 DEF ReadTimeout, ReadEof, NoneBefore
  <1> QED BY <1>2, <1>3, <1>4, <1>5, <1>6, <1>7, <1>8, <1>9, <1>10 DEF FramingNext

\* The types hold for either kind of reader: no read goes past the length a
\* header announced (recv_ipv6, cdtunnel.rs 148-172).
THEOREM FramingTypeCorrect == FramingSpec => []FramingTypeOK
  <1>1. FramingTypeInv /\ [FramingNext]_framingVars => FramingTypeInv'
    BY FramingTypeStep
  <1>2. FramingTypeInv => FramingTypeOK
    BY DEF FramingTypeInv
  <1> QED BY <1>1, <1>2, FramingTypeInit, PTL DEF FramingSpec

\* The plain reader, which ends with the first error, is handed the device's
\* packets whole, in order and none missing, however many and however long
\* they are and in whatever pieces they arrive (cdtunnel.rs 99-172).
THEOREM PlainReaderIntact ==
  ASSUME ~RetryOnTimeout
  PROVE  FramingSpec => []FramingSafe
  <1>1. FramingTypeInv /\ FramingInv /\ [FramingNext]_framingVars => FramingTypeInv' /\ FramingInv'
    BY FramingTypeStep, FramingInvStep
  <1>2. FramingInv => FramingSafe
    BY DEF FramingInv
  <1> QED BY <1>1, <1>2, FramingTypeInit, FramingInvInit, PTL DEF FramingSpec

-----------------------------------------------------------------------------
(* The byte bridge, for buffers and chunks of any size.                    *)

inFlight == pipeIn \o wbuf \o sockRx
outFlight == sockTx \o <<>> \o pipeOut

\* Saved bytes are out before new ones are taken, and a connection is removed
\* with nothing left in its socket.
SavedFirst == (pc = "recv" => wbuf = <<>>) /\ (pc = "removed" => sockRx = <<>>)

\* As long as no chunk was torn, a direction holds the bytes between the last
\* one read and the last one sent, while its reader is there.
InWhole == local # "gone" /\ "in" \notin torn => Numbered(inFlight, Len(localGot), remSent)
OutWhole == ~rst /\ "out" \notin torn => Numbered(outFlight, Len(remoteGot), localSent)

\* The socket is closed when the local end sends no more and its last bytes
\* are in the send buffer, and the FIN follows those.
ClosedLast ==
  /\ locFin => pipeOut = <<>> /\ local # "open"
  /\ finSent => locFin /\ sockTx = <<>>

BridgeInv == BridgeTypeOK /\ SavedFirst /\ InWhole /\ OutWhole /\ ClosedLast /\ CloseAfterData

LEMMA Typed ==
  ASSUME BridgeTypeOK
  PROVE  /\ pipeIn \in Seq(Nat) /\ wbuf \in Seq(Nat) /\ sockRx \in Seq(Nat) /\ localGot \in Seq(Nat)
         /\ pipeOut \in Seq(Nat) /\ sockTx \in Seq(Nat) /\ remoteGot \in Seq(Nat)
         /\ Len(localGot) \in Nat /\ Len(remoteGot) \in Nat /\ remSent \in Nat /\ localSent \in Nat
         /\ <<>> \in Seq(Nat)
  <1>1. \A n \in Nat : \A s \in Seq(1..n) : s \in Seq(Nat) /\ Len(s) \in Nat
    OBVIOUS
  <1> QED BY <1>1, BridgeAssumption DEF BridgeTypeOK

\* A sequence falls into what is taken from it and what is left.
LEMMA Split ==
  ASSUME NEW S, NEW s \in Seq(S), NEW n \in Nat
  PROVE  /\ Fits(s, n) \in Nat /\ Fits(s, n) <= n /\ Fits(s, n) <= Len(s)
         /\ Take(s, n) \in Seq(S) /\ Drop(s, n) \in Seq(S)
         /\ Len(Take(s, n)) = Fits(s, n) /\ Len(Drop(s, n)) = Len(s) - Fits(s, n)
         /\ \A i \in 1..Fits(s, n) : Take(s, n)[i] = s[i]
         /\ \A i \in 1..(Len(s) - Fits(s, n)) : Drop(s, n)[i] = s[i + Fits(s, n)]
  <1>1. Fits(s, n) \in Nat /\ Fits(s, n) <= n /\ Fits(s, n) <= Len(s)
    BY DEF Fits
  <1> DEFINE k == Fits(s, n)
  <1> HIDE DEF k
  <1>2. /\ SubSeq(s, 1, k) \in Seq(S) /\ SubSeq(s, k + 1, Len(s)) \in Seq(S)
        /\ Len(SubSeq(s, 1, k)) = k /\ Len(SubSeq(s, k + 1, Len(s))) = Len(s) - k
        /\ \A i \in 1..k : SubSeq(s, 1, k)[i] = s[i]
        /\ \A i \in 1..(Len(s) - k) : SubSeq(s, k + 1, Len(s))[i] = s[i + k]
    <2>1. k \in 0..Len(s) /\ Len(s) \in Nat
      BY <1>1 DEF k
    <2>2. /\ SubSeq(s, 1, k) \in Seq(S) /\ Len(SubSeq(s, 1, k)) = k
          /\ \A i \in 1..k : SubSeq(s, 1, k)[i] = s[i]
      BY <2>1, SMTT(30)
    <2>3. /\ SubSeq(s, k + 1, Len(s)) \in Seq(S) /\ Len(SubSeq(s, k + 1, Len(s))) = Len(s) - k
          /\ \A i \in 1..(Len(s) - k) : SubSeq(s, k + 1, Len(s))[i] = s[i + k]
      BY <2>1, SMTT(30)
    <2> QED BY <2>2, <2>3
  <1> QED BY <1>1, <1>2 DEF Take, Drop, k

LEMMA TakeAll ==
  ASSUME NEW S, NEW s \in Seq(S), NEW n \in Nat, Len(s) <= n
  PROVE  Take(s, n) = s
  BY DEF Take, Fits

LEMMA TakeNone ==
  ASSUME NEW S, NEW s \in Seq(S)
  PROVE  Take(s, 0) = <<>>
  BY DEF Take, Fits

\* A chunk that goes from the last buffer to the first, past an empty middle
\* one, or to the middle one, stays where it is in the stream.
LEMMA ChunkMoves ==
  ASSUME NEW a \in Seq(Nat), NEW c \in Seq(Nat), NEW n \in Nat
  PROVE  /\ (a \o Take(c, n)) \o <<>> \o Drop(c, n) = a \o <<>> \o c
         /\ a \o Take(c, n) \o Drop(c, n) = a \o <<>> \o c
  <1> DEFINE t == Take(c, n)
             d == Drop(c, n)
             k == Fits(c, n)
  <1>1. /\ k \in Nat /\ k <= Len(c) /\ t \in Seq(Nat) /\ d \in Seq(Nat) /\ <<>> \in Seq(Nat)
        /\ Len(t) = k /\ Len(d) = Len(c) - k
        /\ \A i \in 1..k : t[i] = c[i]
        /\ \A i \in 1..(Len(c) - k) : d[i] = c[i + k]
    <2>1. /\ k \in Nat /\ k <= Len(c) /\ t \in Seq(Nat) /\ d \in Seq(Nat)
          /\ Len(t) = k /\ Len(d) = Len(c) - k
          /\ \A i \in 1..k : t[i] = c[i]
          /\ \A i \in 1..(Len(c) - k) : d[i] = c[i + k]
      BY Split, Zenon
    <2> QED BY <2>1
  <1> HIDE DEF t, d, k
  <1>2. a \o t \in Seq(Nat) /\ (a \o t) \o <<>> \o d = a \o t \o d
    BY <1>1, ShiftOut
  <1> DEFINE f == a \o t \o d
             g == a \o <<>> \o c
  <1>3. /\ f \in Seq(Nat) /\ Len(f) = Len(a) + Len(t) + Len(d)
        /\ \A i \in 1..(Len(a) + Len(t) + Len(d)) :
             f[i] = IF i <= Len(a) THEN a[i]
                    ELSE IF i <= Len(a) + Len(t) THEN t[i - Len(a)] ELSE d[i - Len(a) - Len(t)]
    BY <1>1, ConcatThree, ZenonT(30)
  <1>4. /\ g \in Seq(Nat) /\ Len(g) = Len(a) + Len(c)
        /\ \A i \in 1..(Len(a) + Len(c)) : g[i] = IF i <= Len(a) THEN a[i] ELSE c[i - Len(a)]
    BY <1>1
  <1> HIDE DEF f, g
  <1>5. Len(a) \in Nat /\ Len(c) \in Nat /\ Len(f) = Len(g)
    BY <1>1, <1>3, <1>4
  <1>6. ASSUME NEW i \in 1..Len(f) PROVE f[i] = g[i]
    <2>0. /\ i \in 1..(Len(a) + Len(t) + Len(d)) /\ i \in 1..(Len(a) + Len(c)) /\ i \in Nat
          /\ Len(t) = k /\ Len(d) = Len(c) - k
      BY <1>1, <1>3, <1>4, <1>5
    <2>1. CASE i <= Len(a)
      <3>1. f[i] = a[i] /\ g[i] = a[i]
        BY <1>3, <1>4, <2>0, <2>1, Zenon
      <3> QED BY <3>1
    <2>2. CASE ~(i <= Len(a)) /\ i <= Len(a) + Len(t)
      <3>1. f[i] = t[i - Len(a)] /\ g[i] = c[i - Len(a)]
        BY <1>3, <1>4, <2>0, <2>2, Zenon
      <3>2. i - Len(a) \in 1..k
        BY <1>1, <1>5, <2>0, <2>2
      <3> QED BY <1>1, <3>1, <3>2
    <2>3. CASE ~(i <= Len(a)) /\ ~(i <= Len(a) + Len(t))
      <3>1. f[i] = d[i - Len(a) - Len(t)] /\ g[i] = c[i - Len(a)]
        BY <1>3, <1>4, <2>0, <2>3, Zenon
      <3>2. i - Len(a) - Len(t) \in 1..(Len(c) - k) /\ i - Len(a) - Len(t) + k = i - Len(a)
        BY <1>1, <1>5, <2>0, <2>3
      <3> QED BY <1>1, <3>1, <3>2
    <2> QED BY <2>1, <2>2, <2>3
  <1>7. f = g
    BY <1>3, <1>4, <1>5, <1>6, SameSeq
  <1> QED BY <1>2, <1>7 DEF f, g, t, d

\* write_all on the pair: how much was written.
LEMMA WriteFacts ==
  ASSUME BridgeTypeOK, NEW b \in Seq(1..InBytes), WriteAll(b)
  PROVE  /\ Written(b) \in Nat /\ Written(b) <= Len(b)
         /\ pipeIn' \in Seq(1..InBytes) /\ Len(pipeIn') <= PipeCap
         /\ torn' \subseteq {"in", "out"} /\ torn \subseteq torn' /\ torn' \subseteq torn \cup {"in"}
         /\ WriteAllOk(b) => pipeIn' = pipeIn \o b
         /\ ~WriteAllOk(b) /\ "in" \notin torn' => pipeIn' = pipeIn
  <1> DEFINE w == Written(b)
  <1>1. PipeCap - Len(pipeIn) \in Nat /\ pipeIn \in Seq(1..InBytes) /\ Len(pipeIn) \in Nat /\ PipeCap \in Nat
    BY BridgeAssumption DEF BridgeTypeOK
  <1>2. w \in Nat /\ w <= Len(b) /\ w <= PipeCap - Len(pipeIn)
    <2>1. Fits(b, PipeCap - Len(pipeIn)) \in Nat /\ Fits(b, PipeCap - Len(pipeIn)) <= Len(b)
          /\ Fits(b, PipeCap - Len(pipeIn)) <= PipeCap - Len(pipeIn)
      BY <1>1, Split
    <2> QED BY <1>1, <2>1 DEF Written
  <1>3. pipeIn' = pipeIn \o Take(b, w) /\ Take(b, w) \in Seq(1..InBytes) /\ Len(Take(b, w)) = w
    BY <1>2, Split DEF WriteAll, Fits
  <1>4. pipeIn' \in Seq(1..InBytes) /\ Len(pipeIn') <= PipeCap
    BY <1>1, <1>2, <1>3
  <1>5. torn' = IF w \in 1..Len(b) - 1 THEN torn \cup {"in"} ELSE torn
    BY DEF WriteAll
  <1>6. torn' \subseteq {"in", "out"} /\ torn \subseteq torn' /\ torn' \subseteq torn \cup {"in"}
    BY <1>5 DEF BridgeTypeOK
  <1>7. WriteAllOk(b) => pipeIn' = pipeIn \o b
    <2>1. w = Len(b) => Take(b, w) = b
      BY <1>2, TakeAll
    <2> QED BY <1>3, <2>1 DEF WriteAllOk
  <1>8. ASSUME ~WriteAllOk(b), "in" \notin torn' PROVE pipeIn' = pipeIn
    <2>1. w = 0
      <3>1. CASE local = "gone"
        BY <3>1 DEF Written
      <3>2. CASE local # "gone"
        BY <1>2, <1>5, <1>8, <3>2 DEF WriteAllOk
      <3> QED BY <3>1, <3>2
    <2>2. Take(b, w) = <<>>
      BY <2>1, TakeNone
    <2> QED BY <1>1, <1>3, <2>2
  <1> QED BY <1>2, <1>4, <1>6, <1>7, <1>8

-----------------------------------------------------------------------------
(* What every step of the bridge keeps.                                    *)

LEMMA Nothing == ASSUME NEW S PROVE <<>> \in Seq(S) /\ Len(<<>>) = 0
  OBVIOUS

LEMMA BridgeInvInit == BridgeInit => BridgeInv
  <1> SUFFICES ASSUME BridgeInit PROVE BridgeInv
    OBVIOUS
  <1>1. BridgeTypeOK
    <2>1. <<>> \in Seq(1..InBytes) /\ <<>> \in Seq(1..OutBytes) /\ Len(<<>>) = 0
      BY Nothing
    <2>2. 0 \in 0..InBytes /\ 0 \in 0..OutBytes /\ 0 <= RxCap /\ 0 <= Chunk /\ 0 <= PipeCap /\ 0 <= TxCap
      BY BridgeAssumption
    <2> QED BY <2>1, <2>2 DEF BridgeInit, BridgeTypeOK
  <1>2. inFlight = <<>> /\ outFlight = <<>>
    BY DEF BridgeInit, inFlight, outFlight
  <1>3. Numbered(<<>>, 0, 0) /\ Len(<<>>) = 0
    BY DEF Numbered
  <1> QED BY <1>1, <1>2, <1>3 DEF BridgeInit, BridgeInv, SavedFirst, InWhole, OutWhole, ClosedLast, CloseAfterData

LEMMA FlushTypes ==
  ASSUME BridgeInv, Flush
  PROVE  BridgeTypeOK' /\ SavedFirst'
  <1>0. BridgeTypeOK /\ SavedFirst
    BY DEF BridgeInv
  <1>1. /\ pc = "flush" /\ pc' \in {"recv", "poll"} /\ (pc' = "recv" => wbuf' = <<>>)
        /\ wbuf' \in {wbuf, <<>>} /\ (WriteAll(wbuf) \/ UNCHANGED <<pipeIn, torn>>)
        /\ UNCHANGED <<remSent, sockRx, localGot, outVars, tcpVars, local>>
    BY DEF Flush
  <1>2. pipeIn' \in Seq(1..InBytes) /\ Len(pipeIn') <= PipeCap /\ torn' \subseteq {"in", "out"}
    <2>1. CASE WriteAll(wbuf)
      BY <1>0, <2>1, WriteFacts DEF BridgeTypeOK
    <2>2. CASE UNCHANGED <<pipeIn, torn>>
      BY <1>0, <2>2 DEF BridgeTypeOK
    <2> QED BY <1>1, <2>1, <2>2
  <1>3. wbuf' \in Seq(1..InBytes) /\ Len(wbuf') <= Chunk
    <2>1. <<>> \in Seq(1..InBytes) /\ Len(<<>>) = 0 /\ 0 <= Chunk
      BY Nothing, BridgeAssumption
    <2> QED BY <1>0, <1>1, <2>1 DEF BridgeTypeOK
  <1> QED BY <1>0, <1>1, <1>2, <1>3 DEF BridgeTypeOK, SavedFirst, outVars, tcpVars

LEMMA ReceiveTypes ==
  ASSUME BridgeInv, Receive
  PROVE  BridgeTypeOK' /\ SavedFirst'
  <1>0. BridgeTypeOK /\ SavedFirst /\ pc = "recv" /\ wbuf = <<>>
    BY DEF BridgeInv, Receive, SavedFirst
  <1>1. UNCHANGED <<remSent, localGot, outVars, tcpVars, local>>
    BY DEF Receive
  <1>2. CASE CanRecv
    <2> DEFINE b == Take(sockRx, Chunk)
    <2>1. /\ b \in Seq(1..InBytes) /\ Len(b) <= Chunk /\ Drop(sockRx, Chunk) \in Seq(1..InBytes)
          /\ Len(Drop(sockRx, Chunk)) <= RxCap
      <3>1. sockRx \in Seq(1..InBytes) /\ Len(sockRx) <= RxCap /\ Len(sockRx) \in Nat /\ Chunk \in Nat /\ RxCap \in Nat
        BY <1>0, BridgeAssumption DEF BridgeTypeOK
      <3>2. /\ Fits(sockRx, Chunk) \in Nat /\ Fits(sockRx, Chunk) <= Chunk /\ Fits(sockRx, Chunk) <= Len(sockRx)
            /\ b \in Seq(1..InBytes) /\ Drop(sockRx, Chunk) \in Seq(1..InBytes)
            /\ Len(b) = Fits(sockRx, Chunk) /\ Len(Drop(sockRx, Chunk)) = Len(sockRx) - Fits(sockRx, Chunk)
        BY <3>1, Split, Zenon
      <3> HIDE DEF b
      <3> QED BY <3>1, <3>2
    <2>2. /\ sockRx' = Drop(sockRx, Chunk) /\ WriteAll(b)
          /\ pc' \in {"recv", "send"} /\ (pc' = "recv" => wbuf' = wbuf) /\ wbuf' \in {wbuf, wbuf \o b}
      BY <1>0, <1>2 DEF Receive
    <2> HIDE DEF b
    <2>3. wbuf' \in Seq(1..InBytes) /\ Len(wbuf') <= Chunk
      <3>1. <<>> \in Seq(1..InBytes) /\ Len(<<>>) = 0 /\ 0 <= Chunk
        BY Nothing, BridgeAssumption
      <3>2. <<>> \o b = b
        BY <2>1
      <3> QED BY <1>0, <2>1, <2>2, <3>1, <3>2
    <2>4. pipeIn' \in Seq(1..InBytes) /\ Len(pipeIn') <= PipeCap /\ torn' \subseteq {"in", "out"}
      BY <1>0, <2>1, <2>2, WriteFacts
    <2> QED BY <1>0, <1>1, <2>1, <2>2, <2>3, <2>4 DEF BridgeTypeOK, SavedFirst, outVars, tcpVars
  <1>3. CASE ~CanRecv
    <2>1. pc' = "send" /\ UNCHANGED <<sockRx, pipeIn, wbuf, torn>>
      BY <1>3 DEF Receive
    <2> QED BY <1>0, <1>1, <2>1 DEF BridgeTypeOK, SavedFirst, outVars, tcpVars
  <1> QED BY <1>2, <1>3

\* What the socket takes of a chunk.
LEMMA SendFacts ==
  ASSUME BridgeTypeOK, SendSlice
  PROVE  /\ pipeOut' \in Seq(1..OutBytes) /\ Len(pipeOut') <= PipeCap
         /\ sockTx' \in Seq(1..OutBytes) /\ Len(sockTx') <= TxCap
         /\ torn' \subseteq {"in", "out"} /\ torn \subseteq torn' /\ torn' \subseteq torn \cup {"out"}
         /\ pipeOut' = Drop(pipeOut, Chunk)
         /\ Len(sockTx) < TxCap /\ "out" \notin torn' => sockTx' = sockTx \o Take(pipeOut, Chunk)
  <1> DEFINE b == Take(pipeOut, Chunk)
             room == TxCap - Len(sockTx)
  <1>1. /\ pipeOut \in Seq(1..OutBytes) /\ sockTx \in Seq(1..OutBytes) /\ room \in Nat /\ Chunk \in Nat
        /\ Len(pipeOut) \in Nat /\ Len(sockTx) \in Nat /\ PipeCap \in Nat /\ TxCap \in Nat /\ Len(pipeOut) <= PipeCap
    BY BridgeAssumption DEF BridgeTypeOK
  <1>2. /\ Fits(pipeOut, Chunk) \in Nat /\ Fits(pipeOut, Chunk) <= Len(pipeOut)
        /\ b \in Seq(1..OutBytes) /\ Drop(pipeOut, Chunk) \in Seq(1..OutBytes)
        /\ Len(Drop(pipeOut, Chunk)) = Len(pipeOut) - Fits(pipeOut, Chunk)
    BY <1>1, Split, Zenon
  <1>3. /\ pipeOut' = Drop(pipeOut, Chunk) /\ sockTx' = sockTx \o Take(b, room)
        /\ torn' = IF room \in 1..Len(b) - 1 THEN torn \cup {"out"} ELSE torn
    BY DEF SendSlice
  <1> HIDE DEF b
  <1>4. /\ Fits(b, room) \in Nat /\ Fits(b, room) <= room /\ Take(b, room) \in Seq(1..OutBytes)
        /\ Len(Take(b, room)) = Fits(b, room)
    BY <1>1, <1>2, Split, Zenon
  <1>5. sockTx' \in Seq(1..OutBytes) /\ Len(sockTx') <= TxCap
    BY <1>1, <1>3, <1>4
  <1>6. Len(pipeOut') <= PipeCap
    BY <1>1, <1>2, <1>3
  <1>7. ASSUME Len(sockTx) < TxCap, "out" \notin torn' PROVE Take(b, room) = b
    <2>1. Len(b) <= room
      BY <1>1, <1>2, <1>3, <1>7
    <2> HIDE DEF room
    <2> QED BY <1>1, <1>2, <2>1, TakeAll
  <1>8. torn' \subseteq {"in", "out"} /\ torn \subseteq torn' /\ torn' \subseteq torn \cup {"out"}
    BY <1>3 DEF BridgeTypeOK
  <1> QED BY <1>2, <1>3, <1>5, <1>6, <1>7, <1>8 DEF b

LEMMA TransmitTypes ==
  ASSUME BridgeInv, Transmit
  PROVE  BridgeTypeOK' /\ SavedFirst'
  <1>0. BridgeTypeOK /\ SavedFirst /\ pc = "send" /\ pc' \in {"send", "reap"}
    BY DEF BridgeInv, Transmit
  <1>1. /\ SendSlice \/ UNCHANGED <<pipeOut, sockTx, torn>>
        /\ locFin' \in {locFin, TRUE}
        /\ UNCHANGED <<inVars, localSent, remoteGot, remFin, finSent, rst, local>>
    BY DEF Transmit
  <1>2. /\ pipeOut' \in Seq(1..OutBytes) /\ Len(pipeOut') <= PipeCap
        /\ sockTx' \in Seq(1..OutBytes) /\ Len(sockTx') <= TxCap /\ torn' \subseteq {"in", "out"}
    BY <1>0, <1>1, SendFacts DEF BridgeTypeOK
  <1> QED BY <1>0, <1>1, <1>2 DEF BridgeTypeOK, SavedFirst, inVars

LEMMA BridgeTypesStep ==
  ASSUME BridgeInv, [BridgeNext]_bridgeVars
  PROVE  BridgeTypeOK' /\ SavedFirst'
  <1>0. BridgeTypeOK /\ SavedFirst
    BY DEF BridgeInv
  <1> USE DEF inVars, outVars, tcpVars
  <1>1. CASE PassBegins \/ Reap \/ UNCHANGED bridgeVars \/ LocalShutdown \/ NetFin \/ NetFinSent
    BY <1>0, <1>1 DEF PassBegins, Reap, bridgeVars, LocalShutdown, NetFin, NetFinSent, BridgeTypeOK, SavedFirst,
       Polling, CanRecv
  <1>2. CASE NetIn
    <2>1. remSent' \in 0..InBytes /\ remSent' \in 1..InBytes
      BY <1>0, <1>2, BridgeAssumption DEF NetIn, BridgeTypeOK
    <2>2. sockRx' \in Seq(1..InBytes) /\ Len(sockRx') <= RxCap
      BY <1>0, <1>2, <2>1, BridgeAssumption DEF NetIn, BridgeTypeOK
    <2> QED BY <1>0, <1>2, <2>1, <2>2 DEF NetIn, BridgeTypeOK, SavedFirst, Polling
  <1>3. CASE NetOut
    <2>1. /\ sockTx' \in Seq(1..OutBytes) /\ Len(sockTx') <= TxCap /\ remoteGot' \in Seq(1..OutBytes)
      BY <1>0, <1>3, BridgeAssumption, SMTT(30) DEF NetOut, BridgeTypeOK
    <2> QED BY <1>0, <1>3, <2>1 DEF NetOut, BridgeTypeOK, SavedFirst, Polling
  <1>4. CASE NetReset
    BY <1>0, <1>4, BridgeAssumption DEF NetReset, BridgeTypeOK, SavedFirst, Polling
  <1>5. CASE LocalRead
    <2>1. /\ pipeIn' \in Seq(1..InBytes) /\ Len(pipeIn') <= PipeCap /\ localGot' \in Seq(1..InBytes)
      BY <1>0, <1>5, BridgeAssumption, SMTT(30) DEF LocalRead, BridgeTypeOK
    <2> QED BY <1>0, <1>5, <2>1 DEF LocalRead, BridgeTypeOK, SavedFirst
  <1>6. CASE LocalWrite
    <2>1. localSent' \in 0..OutBytes /\ localSent' \in 1..OutBytes
      BY <1>0, <1>6, BridgeAssumption DEF LocalWrite, BridgeTypeOK
    <2>2. pipeOut' \in Seq(1..OutBytes) /\ Len(pipeOut') <= PipeCap
      BY <1>0, <1>6, <2>1, BridgeAssumption DEF LocalWrite, BridgeTypeOK
    <2> QED BY <1>0, <1>6, <2>1, <2>2 DEF LocalWrite, BridgeTypeOK, SavedFirst
  <1>7. CASE LocalDrop
    BY <1>0, <1>7, BridgeAssumption DEF LocalDrop, BridgeTypeOK, SavedFirst
  <1> QED BY <1>1, <1>2, <1>3, <1>4, <1>5, <1>6, <1>7, FlushTypes, ReceiveTypes, TransmitTypes
          DEF BridgeNext, PollThread, Network, User

LEMMA TornStays ==
  ASSUME BridgeInv, [BridgeNext]_bridgeVars
  PROVE  torn \subseteq torn'
  <1>0. BridgeTypeOK
    BY DEF BridgeInv
  <1>1. CASE Flush
    <2>1. CASE WriteAll(wbuf)
      BY <1>0, <2>1, WriteFacts DEF BridgeTypeOK
    <2> QED BY <1>1, <2>1 DEF Flush
  <1>2. CASE Receive
    <2>1. CASE WriteAll(Take(sockRx, Chunk))
      BY <2>1 DEF WriteAll
    <2> QED BY <1>2, <2>1 DEF Receive
  <1>3. CASE Transmit
    BY <1>0, <1>3, SendFacts DEF Transmit
  <1> QED BY <1>1, <1>2, <1>3 DEF BridgeNext, PollThread, Network, User, PassBegins, Reap, NetIn, NetFin, NetOut,
          NetFinSent, NetReset, LocalRead, LocalWrite, LocalShutdown, LocalDrop, bridgeVars

\* The order in which the two ends are closed.
LEMMA BridgeClosedStep ==
  ASSUME BridgeInv, [BridgeNext]_bridgeVars
  PROVE  ClosedLast' /\ CloseAfterData'
  <1>0. BridgeTypeOK /\ ClosedLast /\ CloseAfterData /\ OutWhole /\ torn \subseteq torn'
    BY TornStays DEF BridgeInv
  <1>1. CASE Transmit
    <2>1. UNCHANGED <<localSent, remoteGot, finSent, local>>
      BY <1>1 DEF Transmit
    <2>2. CASE CanSend /\ SendSlice /\ UNCHANGED locFin
      <3>1. ~locFin /\ ~locFin'
        BY <1>1, <2>2 DEF Transmit, CanSend
      <3>2. ~finSent
        BY <1>0, <3>1 DEF ClosedLast
      <3> QED BY <2>1, <3>1, <3>2 DEF ClosedLast, CloseAfterData
    <2>3. CASE CanSend /\ pipeOut = <<>> /\ local # "open" /\ UNCHANGED <<pipeOut, sockTx, torn>>
      BY <1>0, <2>1, <2>3 DEF ClosedLast, CloseAfterData, CanSend
    <2>4. CASE UNCHANGED <<pipeOut, sockTx, torn, locFin>>
      BY <1>0, <2>1, <2>4 DEF ClosedLast, CloseAfterData
    <2> QED BY <1>1, <2>2, <2>3, <2>4 DEF Transmit
  <1>2. CASE NetFinSent
    <2>1. ASSUME "out" \notin torn' PROVE Len(remoteGot) = localSent
      <3>1. sockTx = <<>> /\ pipeOut = <<>> /\ Numbered(outFlight, Len(remoteGot), localSent)
        BY <1>0, <1>2, <2>1 DEF NetFinSent, ClosedLast, OutWhole
      <3>2. outFlight = <<>>
        BY <3>1 DEF outFlight
      <3>3. Len(remoteGot) \in Nat
        BY <1>0, Typed
      <3> QED BY <3>1, <3>2, <3>3 DEF Numbered
    <2> QED BY <1>0, <1>2, <2>1 DEF NetFinSent, ClosedLast, CloseAfterData, outVars
  <1>3. CASE NetOut \/ LocalWrite \/ NetReset
    <2>1. CASE finSent
      BY <1>0, <1>3, <2>1 DEF NetOut, LocalWrite, NetReset, ClosedLast, CloseAfterData, tcpVars
    <2>2. CASE ~finSent
      BY <1>0, <1>3, <2>2 DEF NetOut, LocalWrite, NetReset, ClosedLast, CloseAfterData, tcpVars
    <2> QED BY <2>1, <2>2
  <1>4. CASE UNCHANGED <<outVars, locFin, finSent>> /\ (local # "open" => local' # "open")
    BY <1>0, <1>4 DEF ClosedLast, CloseAfterData, outVars
  <1>5. PassBegins \/ Flush \/ Receive \/ Reap \/ NetIn \/ NetFin \/ LocalRead \/ LocalShutdown \/ LocalDrop
          \/ UNCHANGED bridgeVars => UNCHANGED <<outVars, locFin, finSent>> /\ (local # "open" => local' # "open")
    BY DEF PassBegins, Flush, Receive, Reap, NetIn, NetFin, LocalRead, LocalShutdown, LocalDrop, bridgeVars, tcpVars
  <1> QED BY <1>1, <1>2, <1>3, <1>4, <1>5 DEF BridgeNext, PollThread, Network, User

LEMMA BridgeInCarries ==
  ASSUME BridgeInv, [BridgeNext]_bridgeVars, local' # "gone", "in" \notin torn'
  PROVE  /\ local # "gone" /\ "in" \notin torn
         /\ Carries(inFlight, inFlight', Len(localGot), Len(localGot)', remSent, remSent')
  <1>0. BridgeTypeOK /\ SavedFirst /\ torn \subseteq torn'
    BY TornStays DEF BridgeInv
  <1>t. /\ pipeIn \in Seq(Nat) /\ wbuf \in Seq(Nat) /\ sockRx \in Seq(Nat) /\ localGot \in Seq(Nat)
        /\ remSent \in Nat
    BY <1>0, Typed
  <1>g. local # "gone" /\ "in" \notin torn
    BY <1>0 DEF BridgeNext, PollThread, Network, User, PassBegins, Flush, Receive, Transmit, Reap, NetIn, NetFin,
       NetOut, NetFinSent, NetReset, LocalRead, LocalWrite, LocalShutdown, LocalDrop, bridgeVars
  <1> SUFFICES Carries(inFlight, inFlight', Len(localGot), Len(localGot)', remSent, remSent')
    BY <1>g
  <1>1. CASE UNCHANGED inVars
    BY <1>1 DEF inVars, inFlight, Carries
  <1>2. CASE NetIn
    <2>1. inFlight' = pipeIn \o wbuf \o Append(sockRx, remSent + 1) /\ remSent' = remSent + 1 /\ localGot' = localGot
      BY <1>2 DEF NetIn, inFlight
    <2>2. inFlight' = Append(inFlight, remSent + 1)
      <3>1. remSent + 1 \in Nat
        BY <1>t
      <3> QED BY <1>t, <2>1, <3>1, Enters, ZenonT(30) DEF inFlight
    <2> QED BY <2>1, <2>2 DEF Carries
  <1>3. CASE LocalRead
    <2>1. /\ pipeIn # <<>> /\ inFlight' = Tail(pipeIn) \o wbuf \o sockRx /\ remSent' = remSent
          /\ localGot' = Append(localGot, Head(pipeIn))
      BY <1>3 DEF LocalRead, inFlight
    <2>2. inFlight # <<>> /\ inFlight' = Tail(inFlight)
      BY <1>t, <2>1, Leaves, ZenonT(30) DEF inFlight
    <2>3. Len(localGot)' = Len(localGot) + 1
      BY <1>t, <2>1
    <2> QED BY <2>1, <2>2, <2>3 DEF Carries
  <1>4. CASE Flush
    <2>1. UNCHANGED <<remSent, sockRx, localGot>>
      BY <1>4 DEF Flush
    <2>2. CASE UNCHANGED <<pipeIn, wbuf>>
      BY <2>1, <2>2 DEF inFlight, Carries
    <2>3. CASE WriteAllOk(wbuf) /\ WriteAll(wbuf) /\ wbuf' = <<>>
      <3>1. pipeIn' = pipeIn \o wbuf
        BY <1>0, <2>3, WriteFacts DEF BridgeTypeOK
      <3>2. inFlight' = inFlight
        BY <1>t, <2>1, <2>3, <3>1, ShiftOut DEF inFlight
      <3> QED BY <2>1, <3>2 DEF Carries
    <2>4. CASE ~WriteAllOk(wbuf) /\ WriteAll(wbuf) /\ wbuf' = wbuf
      <3>1. pipeIn' = pipeIn
        BY <1>0, <2>4, WriteFacts DEF BridgeTypeOK
      <3> QED BY <2>1, <2>4, <3>1 DEF inFlight, Carries
    <2> QED BY <1>4, <2>2, <2>3, <2>4 DEF Flush
  <1>5. CASE Receive
    <2> DEFINE b == Take(sockRx, Chunk)
    <2>1. UNCHANGED <<remSent, localGot>> /\ wbuf = <<>>
      BY <1>0, <1>5 DEF Receive, SavedFirst
    <2>2. CASE UNCHANGED <<sockRx, pipeIn, wbuf>>
      BY <2>1, <2>2 DEF inFlight, Carries
    <2>3. CASE sockRx' = Drop(sockRx, Chunk) /\ WriteAll(b)
      <3>1. b \in Seq(1..InBytes) /\ b \in Seq(Nat)
        <4>1. Chunk \in Nat /\ sockRx \in Seq(1..InBytes)
          BY <1>0, BridgeAssumption DEF BridgeTypeOK
        <4> QED BY <1>t, <4>1, Split
      <3>2. /\ (pipeIn \o b) \o <<>> \o Drop(sockRx, Chunk) = pipeIn \o <<>> \o sockRx
            /\ pipeIn \o b \o Drop(sockRx, Chunk) = pipeIn \o <<>> \o sockRx
        BY <1>t, ChunkMoves, BridgeAssumption
      <3>3. CASE WriteAllOk(b)
        <4>1. wbuf' = wbuf /\ pipeIn' = pipeIn \o b
          BY <1>0, <1>5, <2>3, <3>1, <3>3, WriteFacts DEF Receive
        <4>2. inFlight' = inFlight
          BY <2>1, <2>3, <3>2, <4>1 DEF inFlight
        <4> QED BY <2>1, <4>2 DEF Carries
      <3>4. CASE ~WriteAllOk(b)
        <4>1. CanRecv \/ UNCHANGED <<sockRx, pipeIn, wbuf>>
          BY <1>5 DEF Receive
        <4>2. CASE CanRecv
          <5>1. wbuf' = <<>> \o b
            BY <1>5, <2>1, <3>4, <4>2 DEF Receive
          <5>2. pipeIn' = pipeIn
            BY <1>0, <2>3, <3>1, <3>4, WriteFacts
          <5>3. <<>> \o b = b
            BY <3>1
          <5>4. inFlight' = inFlight
            BY <2>1, <2>3, <3>2, <5>1, <5>2, <5>3 DEF inFlight
          <5> QED BY <2>1, <5>4 DEF Carries
        <4> QED BY <2>2, <4>1, <4>2
      <3> QED BY <3>3, <3>4
    <2> QED BY <1>5, <2>2, <2>3 DEF Receive
  <1>6. PassBegins \/ Transmit \/ Reap \/ NetFin \/ NetOut \/ NetFinSent \/ NetReset \/ LocalWrite \/ LocalShutdown
          \/ UNCHANGED bridgeVars => UNCHANGED inVars
    BY DEF PassBegins, Transmit, Reap, NetFin, NetOut, NetFinSent, NetReset, LocalWrite, LocalShutdown, bridgeVars
  <1>7. ~LocalDrop
    BY DEF LocalDrop
  <1> QED BY <1>1, <1>2, <1>3, <1>4, <1>5, <1>6, <1>7 DEF BridgeNext, PollThread, Network, User

LEMMA BridgeOutCarries ==
  ASSUME BridgeInv, [BridgeNext]_bridgeVars, ~rst', "out" \notin torn'
  PROVE  /\ ~rst /\ "out" \notin torn
         /\ Carries(outFlight, outFlight', Len(remoteGot), Len(remoteGot)', localSent, localSent')
  <1>0. BridgeTypeOK /\ torn \subseteq torn'
    BY TornStays DEF BridgeInv
  <1>t. /\ pipeOut \in Seq(Nat) /\ sockTx \in Seq(Nat) /\ remoteGot \in Seq(Nat) /\ localSent \in Nat
        /\ <<>> \in Seq(Nat)
    BY <1>0, Typed
  <1>g. ~rst /\ "out" \notin torn
    BY <1>0 DEF BridgeNext, PollThread, Network, User, PassBegins, Flush, Receive, Transmit, Reap, NetIn, NetFin,
       NetOut, NetFinSent, NetReset, LocalRead, LocalWrite, LocalShutdown, LocalDrop, bridgeVars, tcpVars
  <1> SUFFICES Carries(outFlight, outFlight', Len(remoteGot), Len(remoteGot)', localSent, localSent')
    BY <1>g
  <1>1. CASE UNCHANGED outVars
    BY <1>1 DEF outVars, outFlight, Carries
  <1>2. CASE LocalWrite
    <2>1. /\ outFlight' = sockTx \o <<>> \o Append(pipeOut, localSent + 1) /\ localSent' = localSent + 1
          /\ remoteGot' = remoteGot
      BY <1>2 DEF LocalWrite, outFlight
    <2>2. outFlight' = Append(outFlight, localSent + 1)
      <3>1. localSent + 1 \in Nat
        BY <1>t
      <3> QED BY <1>t, <2>1, <3>1, Enters, ZenonT(30) DEF outFlight
    <2> QED BY <2>1, <2>2 DEF Carries
  <1>3. CASE NetOut
    <2>1. /\ sockTx # <<>> /\ outFlight' = Tail(sockTx) \o <<>> \o pipeOut /\ localSent' = localSent
          /\ remoteGot' = Append(remoteGot, Head(sockTx))
      BY <1>3 DEF NetOut, outFlight
    <2>2. outFlight # <<>> /\ outFlight' = Tail(outFlight)
      BY <1>t, <2>1, Leaves DEF outFlight
    <2>3. Len(remoteGot)' = Len(remoteGot) + 1
      BY <1>t, <2>1
    <2> QED BY <2>1, <2>2, <2>3 DEF Carries
  <1>4. CASE Transmit
    <2>1. UNCHANGED <<localSent, remoteGot>>
      BY <1>4 DEF Transmit
    <2>2. CASE UNCHANGED <<pipeOut, sockTx>>
      BY <2>1, <2>2 DEF outFlight, Carries
    <2>3. CASE CanSend /\ SendSlice
      <3>1. pipeOut' = Drop(pipeOut, Chunk) /\ sockTx' = sockTx \o Take(pipeOut, Chunk)
        BY <1>0, <2>3, SendFacts DEF CanSend
      <3>2. (sockTx \o Take(pipeOut, Chunk)) \o <<>> \o Drop(pipeOut, Chunk) = sockTx \o <<>> \o pipeOut
        BY <1>t, ChunkMoves, BridgeAssumption
      <3>3. outFlight' = outFlight
        BY <3>1, <3>2 DEF outFlight
      <3> QED BY <2>1, <3>3 DEF Carries
    <2> QED BY <1>4, <2>2, <2>3 DEF Transmit
  <1>5. PassBegins \/ Flush \/ Receive \/ Reap \/ NetIn \/ NetFin \/ NetFinSent \/ LocalRead \/ LocalShutdown
          \/ LocalDrop \/ UNCHANGED bridgeVars => UNCHANGED outVars
    BY DEF PassBegins, Flush, Receive, Reap, NetIn, NetFin, NetFinSent, LocalRead, LocalShutdown, LocalDrop, bridgeVars
  <1>6. ~NetReset
    BY DEF NetReset
  <1> QED BY <1>1, <1>2, <1>3, <1>4, <1>5, <1>6 DEF BridgeNext, PollThread, Network, User

LEMMA BridgeInvStep == BridgeInv /\ [BridgeNext]_bridgeVars => BridgeInv'
  <1> SUFFICES ASSUME BridgeInv, [BridgeNext]_bridgeVars PROVE BridgeInv'
    OBVIOUS
  <1>0. /\ BridgeTypeOK /\ InWhole /\ OutWhole
        /\ Len(localGot) \in Nat /\ Len(remoteGot) \in Nat /\ remSent \in Nat /\ localSent \in Nat
    BY Typed DEF BridgeInv
  <1>1. InWhole'
    <2> SUFFICES ASSUME local' # "gone", "in" \notin torn' PROVE Numbered(inFlight', Len(localGot)', remSent')
      BY DEF InWhole
    <2>1. /\ Numbered(inFlight, Len(localGot), remSent)
          /\ Carries(inFlight, inFlight', Len(localGot), Len(localGot)', remSent, remSent')
      BY <1>0, BridgeInCarries DEF InWhole
    <2> QED BY <1>0, <2>1, CarriesNumbered
  <1>2. OutWhole'
    <2> SUFFICES ASSUME ~rst', "out" \notin torn' PROVE Numbered(outFlight', Len(remoteGot)', localSent')
      BY DEF OutWhole
    <2>1. /\ Numbered(outFlight, Len(remoteGot), localSent)
          /\ Carries(outFlight, outFlight', Len(remoteGot), Len(remoteGot)', localSent, localSent')
      BY <1>0, BridgeOutCarries DEF OutWhole
    <2> QED BY <1>0, <2>1, CarriesNumbered
  <1> QED BY <1>1, <1>2, BridgeTypesStep, BridgeClosedStep DEF BridgeInv

LEMMA BridgeInvariant == BridgeSpec => []BridgeInv
  <1> QED BY BridgeInvInit, BridgeInvStep, PTL DEF BridgeSpec

\* At every moment, for any sizes of the buffers and the chunk: no buffer
\* overflows; the FIN follows all data of the user and only saved bytes are
\* lost when the connection is removed, unless a chunk was torn (284-341).
THEOREM BridgeHolds == BridgeSpec => []BridgeSafe
  <1>1. BridgeInv => BridgeSafe
    <2> SUFFICES ASSUME BridgeInv, pc = "removed", local # "gone", "in" \notin torn
                 PROVE  Len(localGot) + Len(pipeIn) + Len(wbuf) = remSent
      BY DEF BridgeInv, BridgeSafe, OnlySavedBytesLost
    <2>1. sockRx = <<>> /\ Numbered(inFlight, Len(localGot), remSent) /\ BridgeTypeOK
      BY DEF BridgeInv, SavedFirst, InWhole
    <2>2. /\ pipeIn \in Seq(Nat) /\ wbuf \in Seq(Nat) /\ <<>> \in Seq(Nat) /\ Len(localGot) \in Nat
          /\ Len(<<>>) = 0 /\ Len(pipeIn) \in Nat /\ Len(wbuf) \in Nat
      BY <2>1, Typed, Nothing
    <2>3. Len(inFlight) = Len(pipeIn) + Len(wbuf) + Len(<<>>)
      BY <2>1, <2>2, ConcatThree DEF inFlight
    <2> QED BY <2>1, <2>2, <2>3 DEF Numbered
  <1> QED BY <1>1, BridgeInvariant, PTL

-----------------------------------------------------------------------------
(* Both directions of the bridge implement BytePipe until a chunk is torn. *)

LEMMA BridgeInRefines ==
  ASSUME BridgeInv, [BridgeNext]_bridgeVars, "in" \notin torn'
  PROVE  [In!Next]_(In!pipeVars)
  <1>0. BridgeTypeOK /\ InWhole /\ SavedFirst /\ "in" \notin torn
    BY TornStays DEF BridgeInv
  <1>t. /\ pipeIn \in Seq(Nat) /\ wbuf \in Seq(Nat) /\ sockRx \in Seq(Nat) /\ Len(localGot) \in Nat
        /\ remSent \in Nat
    BY <1>0, Typed
  <1>1. CASE local' # "gone" /\ pc' # "removed"
    <2>1. /\ local # "gone" /\ Numbered(inFlight, Len(localGot), remSent)
          /\ Carries(inFlight, inFlight', Len(localGot), Len(localGot)', remSent, remSent')
      BY <1>0, <1>1, BridgeInCarries DEF InWhole
    <2>2. pc # "removed"
      BY <1>1 DEF BridgeNext, PollThread, Network, User, PassBegins, Flush, Receive, Transmit, Reap, NetIn, NetFin,
         NetOut, NetFinSent, NetReset, LocalRead, LocalWrite, LocalShutdown, LocalDrop, bridgeVars, Polling
    <2>3. CASE inFlight' = inFlight /\ Len(localGot)' = Len(localGot) /\ remSent' = remSent
      BY <1>1, <2>1, <2>2, <2>3 DEF In!pipeVars, inFlight
    <2>4. CASE inFlight' = Append(inFlight, remSent + 1) /\ Len(localGot)' = Len(localGot) /\ remSent' = remSent + 1
      <3>1. In!Send
        BY <1>1, <2>1, <2>2, <2>4 DEF In!Send, inFlight
      <3> QED BY <3>1 DEF In!Next
    <2>5. CASE inFlight # <<>> /\ inFlight' = Tail(inFlight) /\ Len(localGot)' = Len(localGot) + 1 /\ remSent' = remSent
      <3>1. Head(inFlight) = Len(localGot) + 1
        BY <1>t, <2>1, <2>5, NumberedLeaves
      <3>2. In!Recv
        BY <1>1, <2>1, <2>2, <2>5, <3>1 DEF In!Recv, inFlight
      <3> QED BY <3>2 DEF In!Next
    <2> QED BY <2>1, <2>3, <2>4, <2>5 DEF Carries
  <1>2. CASE local' # "gone" /\ pc' = "removed" /\ pc # "removed"
    <2>1. UNCHANGED <<inVars, local>>
      BY <1>2 DEF BridgeNext, PollThread, Network, User, PassBegins, Flush, Receive, Transmit, Reap, NetIn, NetFin,
         NetOut, NetFinSent, NetReset, LocalRead, LocalWrite, LocalShutdown, LocalDrop, bridgeVars, Polling
    <2>2. Len(pipeIn) \in 0..Len(inFlight) /\ SubSeq(inFlight, 1, Len(pipeIn)) = pipeIn
      <3> DEFINE f == pipeIn \o wbuf \o sockRx
      <3>1. /\ f \in Seq(Nat) /\ Len(f) = Len(pipeIn) + Len(wbuf) + Len(sockRx)
            /\ \A i \in 1..(Len(pipeIn) + Len(wbuf) + Len(sockRx)) :
                 f[i] = IF i <= Len(pipeIn) THEN pipeIn[i]
                        ELSE IF i <= Len(pipeIn) + Len(wbuf) THEN wbuf[i - Len(pipeIn)]
                        ELSE sockRx[i - Len(pipeIn) - Len(wbuf)]
        BY <1>t, ConcatThree, Zenon
      <3> HIDE DEF f
      <3>2. Len(pipeIn) \in Nat /\ Len(wbuf) \in Nat /\ Len(sockRx) \in Nat
        BY <1>t
      <3>3. Len(pipeIn) \in 0..Len(f) /\ \A i \in 1..Len(pipeIn) : f[i] = pipeIn[i]
        BY <3>1, <3>2
      <3>4. /\ SubSeq(f, 1, Len(pipeIn)) \in Seq(Nat) /\ Len(SubSeq(f, 1, Len(pipeIn))) = Len(pipeIn)
            /\ \A i \in 1..Len(pipeIn) : SubSeq(f, 1, Len(pipeIn))[i] = f[i]
        BY <3>1, <3>2, <3>3
      <3>5. SubSeq(f, 1, Len(pipeIn)) = pipeIn
        BY <1>t, <3>3, <3>4, SameSeq
      <3> QED BY <3>3, <3>5 DEF f, inFlight
    <2>3. In!Cut
      BY <1>2, <2>1, <2>2 DEF In!Cut, inVars, inFlight
    <2> QED BY <2>3 DEF In!Next
  <1>3. CASE local' # "gone" /\ pc = "removed"
    <2>1. local # "gone" /\ Numbered(inFlight, Len(localGot), remSent)
      BY <1>0, <1>3, BridgeInCarries DEF InWhole
    <2>2. pc' = "removed" /\ (LocalRead \/ UNCHANGED inVars)
      BY <1>3 DEF BridgeNext, PollThread, Network, User, PassBegins, Flush, Receive, Transmit, Reap, NetIn, NetFin,
         NetOut, NetFinSent, NetReset, LocalRead, LocalWrite, LocalShutdown, LocalDrop, bridgeVars, Polling
    <2>3. CASE LocalRead
      <3>1. /\ pipeIn # <<>> /\ pipeIn' = Tail(pipeIn) /\ remSent' = remSent /\ localGot' = Append(localGot, Head(pipeIn))
        BY <2>3 DEF LocalRead
      <3>2. Len(localGot)' = Len(localGot) + 1
        BY <1>0, <3>1 DEF BridgeTypeOK
      <3>3. Head(pipeIn) = Len(localGot) + 1
        <4>1. Head(inFlight) = Head(pipeIn) /\ inFlight # <<>>
          BY <1>t, <3>1, Leaves DEF inFlight
        <4>2. Head(inFlight) = Len(localGot) + 1
          BY <1>t, <2>1, <4>1, NumberedLeaves
        <4> QED BY <4>1, <4>2
      <3>4. In!Recv
        BY <1>3, <2>1, <2>2, <3>1, <3>2, <3>3 DEF In!Recv
      <3> QED BY <3>4 DEF In!Next
    <2>4. CASE UNCHANGED inVars
      BY <1>3, <2>1, <2>2, <2>4 DEF In!pipeVars, inVars
    <2> QED BY <2>2, <2>3, <2>4
  <1>4. CASE local' = "gone" /\ local # "gone"
    <2>1. LocalDrop
      BY <1>4 DEF BridgeNext, PollThread, Network, User, PassBegins, Flush, Receive, Transmit, Reap, NetIn, NetFin,
         NetOut, NetFinSent, NetReset, LocalRead, LocalWrite, LocalShutdown, bridgeVars
    <2>2. \A f \in Seq(Nat) : 0 \in 0..Len(f) /\ SubSeq(f, 1, 0) = <<>>
      OBVIOUS
    <2>3. inFlight \in Seq(Nat)
      BY <1>t, ConcatThree DEF inFlight
    <2>4. In!Cut
      BY <1>4, <1>t, <2>1, <2>2, <2>3 DEF In!Cut, LocalDrop, inFlight
    <2> QED BY <2>4 DEF In!Next
  <1>5. CASE local' = "gone" /\ local = "gone"
    <2>1. localGot' = localGot /\ (NetIn \/ remSent' = remSent)
      BY <1>5 DEF BridgeNext, PollThread, Network, User, PassBegins, Flush, Receive, Transmit, Reap, NetIn, NetFin,
         NetOut, NetFinSent, NetReset, LocalRead, LocalWrite, LocalShutdown, LocalDrop, bridgeVars, inVars
    <2>2. CASE NetIn
      <3>1. In!Send
        BY <1>5, <2>1, <2>2 DEF In!Send, NetIn
      <3> QED BY <3>1 DEF In!Next
    <2>3. CASE remSent' = remSent
      BY <1>5, <2>1, <2>3 DEF In!pipeVars
    <2> QED BY <2>1, <2>2, <2>3
  <1> QED BY <1>1, <1>2, <1>3, <1>4, <1>5

LEMMA BridgeOutRefines ==
  ASSUME BridgeInv, [BridgeNext]_bridgeVars, "out" \notin torn'
  PROVE  [Out!Next]_(Out!pipeVars)
  <1>0. BridgeTypeOK /\ OutWhole /\ "out" \notin torn
    BY TornStays DEF BridgeInv
  <1>t. /\ pipeOut \in Seq(Nat) /\ sockTx \in Seq(Nat) /\ Len(remoteGot) \in Nat /\ localSent \in Nat
    BY <1>0, Typed
  <1>f. sockTx \o pipeOut = outFlight /\ outFlight \in Seq(Nat)
    BY <1>t DEF outFlight
  <1>h. (sockTx \o pipeOut)' = outFlight'
    <2>1. pipeOut' \in Seq(Nat) /\ sockTx' \in Seq(Nat)
      <3>1. BridgeTypeOK'
        BY BridgeTypesStep
      <3>2. \A s \in Seq(1..OutBytes) : s \in Seq(Nat)
        BY BridgeAssumption
      <3> QED BY <3>1, <3>2 DEF BridgeTypeOK
    <2> QED BY <2>1 DEF outFlight
  <1>1. CASE ~rst' /\ pc' # "removed"
    <2>1. /\ ~rst /\ Numbered(outFlight, Len(remoteGot), localSent)
          /\ Carries(outFlight, outFlight', Len(remoteGot), Len(remoteGot)', localSent, localSent')
      BY <1>0, <1>1, BridgeOutCarries DEF OutWhole
    <2>2. pc # "removed"
      BY <1>1 DEF BridgeNext, PollThread, Network, User, PassBegins, Flush, Receive, Transmit, Reap, NetIn, NetFin,
         NetOut, NetFinSent, NetReset, LocalRead, LocalWrite, LocalShutdown, LocalDrop, bridgeVars, Polling
    <2>3. CASE outFlight' = outFlight /\ Len(remoteGot)' = Len(remoteGot) /\ localSent' = localSent
      BY <1>1, <1>f, <1>h, <2>1, <2>2, <2>3 DEF Out!pipeVars
    <2>4. CASE /\ outFlight' = Append(outFlight, localSent + 1) /\ Len(remoteGot)' = Len(remoteGot)
               /\ localSent' = localSent + 1
      <3>1. Out!Send
        BY <1>1, <1>f, <1>h, <2>1, <2>2, <2>4 DEF Out!Send
      <3> QED BY <3>1 DEF Out!Next
    <2>5. CASE /\ outFlight # <<>> /\ outFlight' = Tail(outFlight) /\ Len(remoteGot)' = Len(remoteGot) + 1
               /\ localSent' = localSent
      <3>1. Head(outFlight) = Len(remoteGot) + 1
        BY <1>t, <2>1, <2>5, NumberedLeaves
      <3>2. Out!Recv
        BY <1>1, <1>f, <1>h, <2>1, <2>2, <2>5, <3>1 DEF Out!Recv
      <3> QED BY <3>2 DEF Out!Next
    <2> QED BY <2>1, <2>3, <2>4, <2>5 DEF Carries
  <1>2. CASE (rst' \/ pc' = "removed") /\ ~rst /\ pc # "removed"
    <2>1. UNCHANGED <<localSent, remoteGot>>
      BY <1>2 DEF BridgeNext, PollThread, Network, User, PassBegins, Flush, Receive, Transmit, Reap, NetIn, NetFin,
         NetOut, NetFinSent, NetReset, LocalRead, LocalWrite, LocalShutdown, LocalDrop, bridgeVars, Polling,
         tcpVars, outVars
    <2>2. 0 \in 0..Len(outFlight) /\ SubSeq(outFlight, 1, 0) = <<>>
      BY <1>f
    <2>3. Out!Cut
      BY <1>2, <1>f, <2>1, <2>2 DEF Out!Cut
    <2> QED BY <2>3 DEF Out!Next
  <1>3. CASE rst \/ pc = "removed"
    <2>1. /\ (rst' \/ pc' = "removed") /\ remoteGot' = remoteGot
          /\ LocalWrite \/ localSent' = localSent
      BY <1>3 DEF BridgeNext, PollThread, Network, User, PassBegins, Flush, Receive, Transmit, Reap, NetIn, NetFin,
         NetOut, NetFinSent, NetReset, LocalRead, LocalWrite, LocalShutdown, LocalDrop, bridgeVars, Polling,
         tcpVars, outVars
    <2>2. CASE LocalWrite
      <3>1. Out!Send
        BY <1>3, <2>1, <2>2 DEF Out!Send, LocalWrite
      <3> QED BY <3>1 DEF Out!Next
    <2>3. CASE localSent' = localSent
      BY <1>3, <2>1, <2>3 DEF Out!pipeVars
    <2> QED BY <2>1, <2>2, <2>3
  <1> QED BY <1>1, <1>2, <1>3

\* Both directions of a bridged connection implement the abstract byte pipe,
\* for any sizes of the buffers and the chunk, until a chunk is written or
\* sent only in part (284-341).
THEOREM BridgeImplementsPipes == BridgeSpec => BridgePipes
  <1>1. BridgeInit => In!Init /\ Out!Init
    BY DEF BridgeInit, In!Init, Out!Init
  <1>2. BridgeInv /\ [BridgeNext]_bridgeVars =>
          /\ [In!Next \/ "in" \in torn']_(In!pipeVars)
          /\ [Out!Next \/ "out" \in torn']_(Out!pipeVars)
    BY BridgeInRefines, BridgeOutRefines
  <1> QED BY <1>1, <1>2, BridgeInvariant, PTL DEF BridgeSpec, BridgePipes, InboundPipe, OutboundPipe
=============================================================================
