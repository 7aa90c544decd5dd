---------------------------- MODULE RemoteProofs ----------------------------
(***************************************************************************)
(* Proofs about the parts that run over, or open, the tunnel:              *)
(* DeviceSession for any mode, version and daemon, RemotePairing for any   *)
(* number of processes and runs, XcTest for any number of classes, and     *)
(* RemoteXpc for any number of requests and events.                        *)
(***************************************************************************)
EXTENDS DeviceSession, RemotePairing, RemoteXpc, XcTest, TLAPS

-----------------------------------------------------------------------------
(* Which way a session goes.                                               *)

DaemonWay == {"daemon", "wait", "lockdown"}
DirectWay == {"session", "dial", "tls", "handshake", "beside"}
AfterOpen == {"open", "asked", "dialled", "daemonCheckin", "directCheckin", "have"}

\* Where open is says what has failed before, and why it got there.
WayInv ==
  /\ dsMode \in {"Auto", "Legacy", "Rsd"} /\ dsEnv \in BOOLEAN /\ dsNew \in BOOLEAN
  /\ ds \in {"start", "failed", "legacy"} \cup DaemonWay \cup DirectWay \cup AfterOpen
  /\ ds = "start" => dsFailed = {}
  /\ ds \notin AfterOpen => dsInner = "none"
  /\ ds \in DaemonWay => dsFailed = {} /\ dsNew /\ Effective # "Legacy"
  /\ ds \in DirectWay => dsFailed = {"daemon"} /\ dsNew /\ Effective # "Legacy"
  /\ ds = "legacy" =>
       \/ Effective = "Legacy" \/ (Effective = "Auto" /\ ~dsNew)
       \/ dsFailed = {"daemon", "direct"} /\ Effective = "Auto"
  /\ PathAsTable

\* A stream holds what the service has sent and nobody has read; while answers
\* are read, StartService was not among them.
StreamInv ==
  /\ said \in Seq({"dict", "StartService", "data"}) /\ checkins \in Nat /\ reads \in Nat
  /\ ds \in {"asked", "dialled"} => checkins = 0 /\ reads = 0
  /\ ds \in {"daemonCheckin", "directCheckin"} =>
       /\ ask = "shim" /\ checkins = 1 /\ reads < 4
       /\ stream = SubSeq(said, reads + 1, Len(said))
       /\ \A i \in 1..reads : said[i] # "StartService"
  /\ StreamAtStart

-----------------------------------------------------------------------------
LEMMA WayInvInit == DsInit => WayInv
  BY DEF DsInit, WayInv, DaemonWay, DirectWay, AfterOpen, PathAsTable

LEMMA WayInvNext == WayInv /\ [DsNext]_dsVars => WayInv'
  <1> SUFFICES ASSUME WayInv, [DsNext]_dsVars PROVE WayInv'
    OBVIOUS
  <1> USE DEF WayInv, DaemonWay, DirectWay, AfterOpen, PathAsTable, Effective, EnvMode
  <1>1. CASE DsOpen
    BY <1>1 DEF DsOpen, To, openUnch, inputVars
  <1>2. CASE TryDaemon \/ WaitDaemon \/ DaemonLockdown
    BY <1>2 DEF TryDaemon, WaitDaemon, DaemonLockdown, DaemonFails, To, Opened, openUnch, inputVars
  <1>3. CASE DirectSession \/ DirectDial \/ DirectTls
    BY <1>3 DEF DirectSession, DirectDial, DirectTls, DirectFails, To, openUnch, inputVars
  <1>4. CASE DirectHandshake \/ DirectLockdown
    BY <1>4 DEF DirectHandshake, DirectLockdown, DirectFails, To, Opened, openUnch, inputVars
  <1>5. CASE OpenLegacy
    BY <1>5 DEF OpenLegacy, To, Opened, openUnch, inputVars
  <1>6. CASE AskDaemon \/ AskDirect \/ AskTunnel
    BY <1>6 DEF AskDaemon, AskDirect, AskTunnel, Asks, askUnch, inputVars
  <1>7. CASE DaemonAnswers \/ DirectAnswers \/ Done
    BY <1>7 DEF DaemonAnswers, DirectAnswers, Done, Connected, CheckIn, Refused, Handed, askUnch, inputVars
  <1>8. CASE CheckinDaemon \/ CheckinDirect
    BY <1>8 DEF CheckinDaemon, CheckinDirect, ReadsAnswer, Refused, Handed, askUnch, inputVars
  <1>9. CASE RsdStarts \/ RsdStops \/ RecordChanges \/ UNCHANGED dsVars
    BY <1>9 DEF RsdStarts, RsdStops, RecordChanges, dsVars, openVars, inputVars
  <1>10. CASE RecordRefused
    BY <1>10 DEF RecordRefused, openUnch, inputVars
  <1>11. CASE UsbmuxdCloses
    BY <1>11 DEF UsbmuxdCloses, DaemonFails, DirectFails, openUnch, inputVars
  <1> QED BY <1>1, <1>2, <1>3, <1>4, <1>5, <1>6, <1>7, <1>8, <1>9, <1>10, <1>11 DEF DsNext, Opens

LEMMA StreamInvInit == DsInit => StreamInv
  BY DEF DsInit, StreamInv, StreamAtStart

\* What a shim answers with is a sequence of the three kinds.
LEMMA ShimSaysType ==
  ASSUME NEW n \in Nat, NEW k
  PROVE  ShimSays(n, k) \in Seq({"dict", "StartService", "data"})
  BY DEF ShimSays

LEMMA SubSeqAll ==
  ASSUME NEW S, NEW q \in Seq(S)
  PROVE  SubSeq(q, 1, Len(q)) = q
  OBVIOUS

LEMMA SubSeqFacts ==
  ASSUME NEW S, NEW q \in Seq(S), NEW n \in Nat, SubSeq(q, n + 1, Len(q)) # <<>>
  PROVE  /\ n < Len(q) /\ Head(SubSeq(q, n + 1, Len(q))) = q[n + 1]
         /\ Tail(SubSeq(q, n + 1, Len(q))) = SubSeq(q, n + 2, Len(q))
  <1>1. n < Len(q)
    OBVIOUS
  <1> DEFINE t == SubSeq(q, n + 1, Len(q))
  <1>2. /\ t \in Seq(S) /\ Len(t) = Len(q) - n
        /\ \A i \in 1..(Len(q) - n) : t[i] = q[n + i]
    BY <1>1
  <1>3. Head(t) = q[n + 1]
    BY <1>1, <1>2
  <1> DEFINE u == SubSeq(q, n + 2, Len(q))
  <1>4. /\ u \in Seq(S) /\ Len(u) = Len(q) - n - 1
        /\ \A i \in 1..(Len(q) - n - 1) : u[i] = q[n + 1 + i]
    BY <1>1
  <1>5. /\ Tail(t) \in Seq(S) /\ Len(Tail(t)) = Len(q) - n - 1
        /\ \A i \in 1..(Len(q) - n - 1) : Tail(t)[i] = t[i + 1]
    BY <1>1, <1>2
  <1>6. \A i \in 1..(Len(q) - n - 1) : Tail(t)[i] = u[i]
    BY <1>1, <1>2, <1>4, <1>5
  <1>7. Tail(t) = u
    BY <1>4, <1>5, <1>6
  <1> QED BY <1>1, <1>3, <1>7

\* Reading an answer leaves the rest.
LEMMA AnswerRead ==
  ASSUME StreamInv, ds \in {"daemonCheckin", "directCheckin"}, ReadsAnswer
  PROVE  StreamInv'
  <1>1. /\ said \in Seq({"dict", "StartService", "data"}) /\ reads \in Nat /\ reads < 4
        /\ ask = "shim" /\ checkins = 1 /\ stream = SubSeq(said, reads + 1, Len(said))
        /\ \A i \in 1..reads : said[i] # "StartService"
    BY DEF StreamInv
  <1>2. /\ stream # <<>> /\ stream' = Tail(stream) /\ reads' = reads + 1
        /\ UNCHANGED <<said, ask, checkins>>
        /\ IF Head(stream) = "StartService" \/ reads + 1 = 4 THEN ds' = "have" ELSE ds' = ds
    BY DEF ReadsAnswer, Handed
  <1>3. Head(stream) = said[reads + 1] /\ stream' = SubSeq(said', reads' + 1, Len(said'))
    <2>1. stream' = SubSeq(said, reads + 2, Len(said)) /\ Head(stream) = said[reads + 1]
      BY <1>1, <1>2, SubSeqFacts
    <2>2. reads' + 1 = reads + 2
      BY <1>1, <1>2
    <2> QED BY <1>2, <2>1, <2>2
  <1>4. \A i \in 1..reads' : i \in 1..reads \/ i = reads'
    BY <1>1, <1>2
  <1>5. reads' \in Nat /\ reads' <= 4 /\ reads' > 0
    BY <1>1, <1>2
  <1>6. CASE Head(stream) = "StartService" \/ reads + 1 = 4
    BY <1>1, <1>2, <1>3, <1>4, <1>5, <1>6 DEF StreamInv, StreamAtStart
  <1>7. CASE ~(Head(stream) = "StartService" \/ reads + 1 = 4)
    BY <1>1, <1>2, <1>3, <1>4, <1>5, <1>7 DEF StreamInv, StreamAtStart
  <1> QED BY <1>6, <1>7

LEMMA StreamInvNext == StreamInv /\ [DsNext]_dsVars => StreamInv'
  <1> SUFFICES ASSUME StreamInv, [DsNext]_dsVars PROVE StreamInv'
    OBVIOUS
  <1> USE DEF StreamInv, StreamAtStart
  <1>1. CASE Opens \/ UsbmuxdCloses
    <2>1. /\ UNCHANGED <<ask, checkins, said, stream, reads>>
          /\ ds' \notin {"asked", "dialled", "daemonCheckin", "directCheckin", "have"}
      BY <1>1 DEF Opens, DsOpen, TryDaemon, WaitDaemon, DaemonLockdown, DaemonFails, DirectSession, DirectDial,
         DirectTls, DirectHandshake, DirectLockdown, DirectFails, OpenLegacy, RecordRefused, UsbmuxdCloses,
         To, Opened, openUnch, streamVars
    <2> QED BY <2>1
  <1>2. CASE AskDaemon \/ AskDirect \/ AskTunnel
    <2>1. PICK a \in {"rsd", "shim", "service", "tunnel"}, label \in {"asked", "dialled", "have"} :
            Asks(a, label) /\ (label = "have" => a = "tunnel")
      BY <1>2 DEF AskDaemon, AskDirect, AskTunnel
    <2>2. said' = <<>> /\ checkins' = 0 /\ reads' = 0 /\ ds' = label /\ ask' = a
      BY <2>1 DEF Asks
    <2> QED BY <2>1, <2>2
  <1>3. CASE Refused
    BY <1>3 DEF Refused, streamVars
  <1>4. ASSUME ds \in {"asked", "dialled"}, Connected
        PROVE  StreamInv'
    <2>1. /\ said' = <<"data">> /\ stream' = said' /\ reads' = 0 /\ checkins' = 0
          /\ ask' # "shim" /\ ds' = "have"
      BY <1>4 DEF Connected, Handed
    <2>2. said' \in Seq({"dict", "StartService", "data"})
      BY <2>1
    <2>3. stream' = SubSeq(said', reads' + 1, Len(said'))
      BY <2>1, <2>2, SubSeqAll
    <2> QED BY <2>1, <2>2, <2>3
  <1>5. ASSUME ds \in {"asked", "dialled"}, NEW label \in {"daemonCheckin", "directCheckin"},
               CheckIn(label)
        PROVE  StreamInv'
    <2>1. PICK n \in 0..ShimReplies : \E k \in 0..n : said' = ShimSays(n, k)
      BY <1>5 DEF CheckIn
    <2>2. said' \in Seq({"dict", "StartService", "data"})
      BY <2>1, ShimSaysType, DsAssumption
    <2>3. stream' = said' /\ reads' = 0 /\ checkins' = 1 /\ ask' = "shim" /\ ds' = label
      BY <1>5 DEF CheckIn
    <2>4. stream' = SubSeq(said', reads' + 1, Len(said'))
      BY <2>2, <2>3, SubSeqAll
    <2> QED BY <2>2, <2>3, <2>4
  <1>6. CASE DaemonAnswers \/ DirectAnswers
    <2> HIDE DEF StreamInv
    <2> QED BY <1>3, <1>4, <1>5, <1>6 DEF DaemonAnswers, DirectAnswers
  <1>7. CASE CheckinDaemon \/ CheckinDirect \/ Done
    BY <1>3, <1>7, AnswerRead DEF CheckinDaemon, CheckinDirect, Done
  <1>8. CASE RsdStarts \/ RsdStops \/ RecordChanges \/ UNCHANGED dsVars
    BY <1>8 DEF RsdStarts, RsdStops, RecordChanges, dsVars, openVars, streamVars
  <1> QED BY <1>1, <1>2, <1>6, <1>7, <1>8 DEF DsNext

\* A session goes the way its mode and the failures before it say, and whatever
\* a shim answers, with StartService or without, a command gets the stream after
\* StartService or after the fourth answer, checked in once, by whichever of the
\* two (device_session.rs 6-11, 69-150, 226-245; tunnel.rs 406-418).
THEOREM WaysAsTold == DsSpec => []WaysSafe
  <1>1. WayInv /\ StreamInv => WaysSafe
    BY DEF WayInv, StreamInv, WaysSafe
  <1> QED BY <1>1, WayInvInit, WayInvNext, StreamInvInit, StreamInvNext, PTL DEF DsSpec

-----------------------------------------------------------------------------
(* Remote pairing.                                                         *)

Asking == {"caps", "pv1", "pv3", "srp1", "srp3", "srp5", "listen"}
Known == trusted \cup forgot

PairShapes ==
  /\ DOMAIN rp = Pairers /\ DOMAIN runs = Pairers /\ DOMAIN rec = Pairers /\ DOMAIN rpOut = Pairers
  /\ DOMAIN rpIn = Pairers /\ DOMAIN rpSeq = Pairers /\ DOMAIN rpKey = Pairers /\ DOMAIN devKey = Pairers
  /\ DOMAIN recFile = {"id", "peer", "whole"} /\ \A p \in Pairers : DOMAIN rec[p] = {"id", "peer", "whole"}

\* A process that waits has one message under way, its last, and what it is
\* about to read says what the device has done.
Quiet(p) == rpOut[p] = <<>> /\ rpIn[p] = <<>>
Asked(p) ==
  /\ rpIn[p] = <<>>
  /\ \E m :
       /\ rpOut[p] = <<m>> /\ m.num = rpSeq[p] /\ m.id = rec[p].id
       /\ m.what = IF rp[p] = "caps" THEN "hello" ELSE rp[p]
Told(p) ==
  /\ rpOut[p] = <<>>
  /\ \E a :
       /\ rpIn[p] = <<a>> /\ a.num = rpSeq[p]
       /\ a.ok /\ rp[p] = "pv3" => devKey[p] = <<"pv", runs[p]>>
       /\ a.ok /\ rp[p] = "srp5" => devKey[p] = <<"srp", runs[p]>> /\ rec[p].id \in Known
TurnOK(p) == IF rp[p] \in Asking THEN Asked(p) \/ Told(p) ELSE Quiet(p)

KeyOK(p) == rp[p] \in {"save", "saving", "paired", "listen", "tunnel"} => rpKey[p] = devKey[p]

\* What is about to be saved the device has accepted.
SaveOK(p) == rp[p] \in {"save", "saving"} => rec[p].id \in Known

DialogueOK(p) == TurnOK(p) /\ KeyOK(p) /\ SaveOK(p)
RpInv == PairShapes /\ RecordVerifies /\ \A p \in Pairers : DialogueOK(p)

LEMMA Single ==
  ASSUME NEW m
  PROVE  Append(<<>>, m) = <<m>> /\ Head(<<m>>) = m /\ Tail(<<m>>) = <<>> /\ Len(<<m>>) = 1
         /\ <<m>> # <<>> /\ DOMAIN <<m>> = {1} /\ <<m>>[1] = m /\ Len(<<>>) = 0 /\ DOMAIN <<>> = {}
  OBVIOUS

LEMMA RpInvInit == RpInit => RpInv
  BY DEF RpInit, RpInv, PairShapes, RecordVerifies, NoRecord, DialogueOK, TurnOK, KeyOK, SaveOK, Quiet,
         Asking

\* A dialogue does not depend on the others: what the device knows only grows.
LEMMA DialogueUntouched ==
  ASSUME NEW q \in Pairers, DialogueOK(q), Known \subseteq Known', rp'[q] = rp[q], runs'[q] = runs[q],
         rec'[q] = rec[q], rpOut'[q] = rpOut[q], rpIn'[q] = rpIn[q], rpSeq'[q] = rpSeq[q],
         rpKey'[q] = rpKey[q], devKey'[q] = devKey[q]
  PROVE  DialogueOK(q)'
  <1>1. KeyOK(q)' /\ SaveOK(q)'
    BY DEF DialogueOK, KeyOK, SaveOK
  <1>2. Quiet(q) => Quiet(q)'
    BY DEF Quiet
  <1>3. Asked(q) => Asked(q)'
    BY DEF Asked
  <1>4. Told(q) => Told(q)'
    BY DEF Told
  <1> QED BY <1>1, <1>2, <1>3, <1>4 DEF DialogueOK, TurnOK

\* The step is one of p, or of the device with p.
Only(p) ==
  \A q \in Pairers \ {p} :
    /\ rp'[q] = rp[q] /\ runs'[q] = runs[q] /\ rec'[q] = rec[q] /\ rpOut'[q] = rpOut[q]
    /\ rpIn'[q] = rpIn[q] /\ rpSeq'[q] = rpSeq[q] /\ rpKey'[q] = rpKey[q] /\ devKey'[q] = devKey[q]

LEMMA OneDialogue ==
  ASSUME RpInv, PairShapes', RecordVerifies', Known \subseteq Known', NEW p \in Pairers, DialogueOK(p)',
         Only(p)
  PROVE  RpInv'
  <1> SUFFICES ASSUME NEW q \in Pairers PROVE DialogueOK(q)'
    BY DEF RpInv
  <1>1. CASE q = p
    BY <1>1
  <1>2. CASE q # p
    BY <1>2, DialogueUntouched DEF RpInv, Only
  <1> QED BY <1>1, <1>2

LEMMA ProcessShapes ==
  ASSUME RpInv, NEW p \in Pairers, RpProcess(p)
  PROVE  PairShapes' /\ Only(p) /\ Known \subseteq Known'
  <1> USE DEF RpInv, PairShapes, Only, Known, rpDevVars, Receives, Goes, Sends
  <1>1. CASE Load(p)
    <2>1. DOMAIN rec'[p] = {"id", "peer", "whole"}
      <3>1. DOMAIN [id |-> <<p, runs[p] + 1>>, peer |-> FALSE, whole |-> TRUE] = {"id", "peer", "whole"}
        OBVIOUS
      <3> QED BY <1>1, <3>1 DEF Load
    <2> QED BY <1>1, <2>1 DEF Load
  <1>2. CASE Open(p) \/ CreateListener(p) \/ Caps(p)
    BY <1>2 DEF Open, CreateListener, Caps
  <1>3. CASE PairVerify1(p) \/ PairVerify3(p)
    BY <1>3 DEF PairVerify1, PairVerify3, FallBack
  <1>4. CASE SrpStart(p) \/ SrpProof(p)
    BY <1>4 DEF SrpStart, SrpProof
  <1>5. CASE SrpIdentity(p)
    BY <1>5 DEF SrpIdentity
  <1>6. CASE SaveBegins(p)
    BY <1>6 DEF SaveBegins, NoRecord
  <1>7. CASE SaveEnds(p) \/ OpenTunnel(p)
    BY <1>7 DEF SaveEnds, OpenTunnel
  <1>8. CASE Ends(p)
    BY <1>8 DEF Ends, NoRecord
  <1> QED BY <1>1, <1>2, <1>3, <1>4, <1>5, <1>6, <1>7, <1>8 DEF RpProcess

\* A process with nothing under way sends a message and waits.
LEMMA SendsKeeps ==
  ASSUME RpInv, NEW p \in Pairers, RpProcess(p), NEW what, NEW to \in Asking, Sends(p, what, to),
         rpOut[p] = <<>>, rpIn'[p] = <<>>,
         what = (IF to = "caps" THEN "hello" ELSE to), to = "listen" => rpKey[p] = devKey[p],
         UNCHANGED <<rec, recFile, rpKey, trusted, devKey, forgot>>
  PROVE  RpInv'
  <1> DEFINE m == [what |-> what, id |-> rec[p].id, num |-> rpSeq[p] + 1]
  <1>1. rp' = [rp EXCEPT ![p] = to] /\ rpSeq' = [rpSeq EXCEPT ![p] = @ + 1] /\ rpOut' = [rpOut EXCEPT ![p] = <<m>>]
    BY Single DEF Sends
  <1>2. m.what = what /\ m.id = rec[p].id /\ m.num = rpSeq[p] + 1
    OBVIOUS
  <1> HIDE DEF m
  <1> USE DEF RpInv, PairShapes
  <1>3. Asked(p)'
    BY <1>1, <1>2 DEF Asked
  <1>4. DialogueOK(p)'
    BY <1>1, <1>3 DEF DialogueOK, TurnOK, KeyOK, SaveOK, Asking
  <1>5. RecordVerifies'
    BY DEF RecordVerifies
  <1> QED BY <1>4, <1>5, ProcessShapes, OneDialogue

\* A process moves on with nothing under way.
LEMMA MovesKeeps ==
  ASSUME RpInv, NEW p \in Pairers, RpProcess(p), NEW to, to \notin Asking, rp' = [rp EXCEPT ![p] = to],
         Quiet(p)', RecordVerifies', KeyOK(p)', SaveOK(p)'
  PROVE  RpInv'
  <1>1. DialogueOK(p)'
    BY DEF RpInv, PairShapes, DialogueOK, TurnOK
  <1> QED BY <1>1, ProcessShapes, OneDialogue

\* An answer is read: nothing is under way any more.
LEMMA AnswerTaken ==
  ASSUME RpInv, NEW p \in Pairers, NEW in \in Asking, Receives(p, in)
  PROVE  /\ rp[p] = in /\ rpOut[p] = <<>> /\ rpIn'[p] = <<>>
         /\ Good(p) /\ in = "pv3" => devKey[p] = <<"pv", runs[p]>>
         /\ Good(p) /\ in = "srp5" => devKey[p] = <<"srp", runs[p]>> /\ rec[p].id \in Known
  <1>1. rp[p] = in /\ rpIn[p] # <<>> /\ rpIn' = [rpIn EXCEPT ![p] = Tail(rpIn[p])]
    BY DEF Receives
  <1>2. Told(p)
    BY <1>1 DEF RpInv, DialogueOK, TurnOK, Asked
  <1>3. PICK a : /\ rpIn[p] = <<a>> /\ a.num = rpSeq[p]
                 /\ a.ok /\ rp[p] = "pv3" => devKey[p] = <<"pv", runs[p]>>
                 /\ a.ok /\ rp[p] = "srp5" => devKey[p] = <<"srp", runs[p]>> /\ rec[p].id \in Known
    BY <1>2, Zenon DEF Told
  <1>4. Tail(rpIn[p]) = <<>> /\ Head(rpIn[p]) = a
    BY <1>3, Single
  <1>5. rpOut[p] = <<>>
    BY <1>2 DEF Told
  <1>6. rpIn'[p] = <<>>
    BY <1>1, <1>4 DEF RpInv, PairShapes
  <1>7. Good(p) = a.ok
    BY <1>4 DEF Good, Resp
  <1> QED BY <1>1, <1>3, <1>5, <1>6, <1>7, Zenon

LEMMA ProcessInv ==
  ASSUME RpInv, NEW p \in Pairers, RpProcess(p)
  PROVE  RpInv'
  <1> USE DEF rpDevVars, Asking
  <1>0. rp[p] \notin Asking => rpOut[p] = <<>> /\ rpIn[p] = <<>>
    BY DEF RpInv, DialogueOK, TurnOK, Quiet
  <1>1. p \in DOMAIN rp /\ p \in DOMAIN rpOut /\ p \in DOMAIN rpIn /\ p \in DOMAIN rpKey /\ p \in DOMAIN rec
    BY DEF RpInv, PairShapes
  <1>2. KeyOK(p) /\ SaveOK(p) /\ RecordVerifies
    BY DEF RpInv, DialogueOK
  <1> USE <1>1, <1>2
  <1>3. CASE Load(p)
    BY <1>0, <1>3, MovesKeeps DEF Load, KeyOK, SaveOK, Quiet, RecordVerifies
  <1>4. CASE Open(p) \/ CreateListener(p)
    BY <1>0, <1>4, SendsKeeps DEF Open, CreateListener, KeyOK
  <1>5. CASE Caps(p)
    BY <1>5, AnswerTaken, SendsKeeps DEF Caps
  <1>6. CASE PairVerify1(p)
    BY <1>6, AnswerTaken, SendsKeeps DEF PairVerify1, FallBack
  <1>7. CASE PairVerify3(p)
    <2>1. CASE Good(p) /\ Goes(p, "paired") /\ rpKey' = [rpKey EXCEPT ![p] = <<"pv", runs[p]>>]
      BY <1>7, <2>1, AnswerTaken, MovesKeeps DEF PairVerify3, Goes, KeyOK, SaveOK, Quiet, RecordVerifies
    <2>2. CASE FallBack(p) /\ UNCHANGED rpKey
      BY <1>7, <2>2, AnswerTaken, SendsKeeps DEF PairVerify3, FallBack
    <2> QED BY <1>7, <2>1, <2>2 DEF PairVerify3
  <1>8. CASE (SrpStart(p) \/ SrpProof(p)) /\ Goes(p, "failed")
    BY <1>8, AnswerTaken, MovesKeeps DEF SrpStart, SrpProof, Goes, KeyOK, SaveOK, Quiet, RecordVerifies
  <1>9. CASE SrpStart(p) /\ Sends(p, "srp3", "srp3")
    BY <1>9, AnswerTaken, SendsKeeps DEF SrpStart
  <1>10. CASE SrpProof(p) /\ Sends(p, "srp5", "srp5")
    BY <1>10, AnswerTaken, SendsKeeps DEF SrpProof
  <1>11. CASE SrpIdentity(p)
    <2>1. CASE Good(p) /\ Goes(p, "save") /\ rpKey' = [rpKey EXCEPT ![p] = <<"srp", runs[p]>>]
               /\ rec' = [rec EXCEPT ![p].peer = @ \/ Resp(p).identity]
      <3>1. rec'[p].id = rec[p].id
        BY <2>1 DEF RpInv, PairShapes
      <3> QED BY <1>11, <2>1, <3>1, AnswerTaken, MovesKeeps DEF SrpIdentity, Goes, KeyOK, SaveOK, Quiet,
                 RecordVerifies, Known
    <2>2. CASE ~Good(p) /\ Goes(p, "failed") /\ UNCHANGED <<rpKey, rec>>
      BY <1>11, <2>2, AnswerTaken, MovesKeeps DEF SrpIdentity, Goes, KeyOK, SaveOK, Quiet, RecordVerifies
    <2> QED BY <1>11, <2>1, <2>2 DEF SrpIdentity
  <1>12. CASE SaveBegins(p)
    BY <1>0, <1>12, MovesKeeps DEF SaveBegins, Goes, KeyOK, SaveOK, Quiet, RecordVerifies, NoRecord, Known
  <1>13. CASE SaveEnds(p)
    BY <1>0, <1>13, MovesKeeps DEF SaveEnds, Goes, KeyOK, SaveOK, Quiet, RecordVerifies, Known
  <1>14. CASE OpenTunnel(p)
    BY <1>14, AnswerTaken, MovesKeeps DEF OpenTunnel, Goes, KeyOK, SaveOK, Quiet, RecordVerifies
  <1>15. CASE Ends(p)
    BY <1>15, MovesKeeps DEF Ends, KeyOK, SaveOK, Quiet, RecordVerifies
  <1>16. CASE SrpStart(p) \/ SrpProof(p)
    BY <1>8, <1>9, <1>10, <1>16 DEF SrpStart, SrpProof
  <1> QED BY <1>3, <1>4, <1>5, <1>6, <1>7, <1>11, <1>12, <1>13, <1>14, <1>15, <1>16 DEF RpProcess

LEMMA DialogueDevice ==
  ASSUME RpInv, NEW p \in Pairers, RpDevAccepts(p) \/ RpDevRefuses(p)
  PROVE  RpInv'
  <1>1. Asked(p) /\ rp[p] \in Asking
    BY DEF RpDevAccepts, RpDevRefuses, RpInv, DialogueOK, TurnOK, Quiet, Told
  <1>2. PICK m : /\ rpOut[p] = <<m>> /\ m.num = rpSeq[p] /\ m.id = rec[p].id
                 /\ m.what = IF rp[p] = "caps" THEN "hello" ELSE rp[p]
    BY <1>1, Zenon DEF Asked
  <1>3. rpIn[p] = <<>> /\ Head(rpOut[p]) = m /\ Tail(rpOut[p]) = <<>>
    BY <1>1, <1>2, Single DEF Asked
  <1>4. PICK ok \in BOOLEAN, identity \in BOOLEAN :
          /\ Answer(p, ok, identity)
          /\ \/ ~ok /\ UNCHANGED <<trusted, devKey>>
             \/ m.what \notin {"pv3", "srp5"} /\ UNCHANGED <<trusted, devKey>>
             \/ m.what = "pv3" /\ devKey' = [devKey EXCEPT ![p] = <<"pv", runs[p]>>] /\ UNCHANGED trusted
             \/ /\ m.what = "srp5" /\ trusted' = trusted \cup {m.id}
                /\ devKey' = [devKey EXCEPT ![p] = <<"srp", runs[p]>>]
    BY <1>3 DEF RpDevAccepts, RpDevRefuses
  <1> DEFINE a == [ok |-> ok, identity |-> identity, num |-> m.num]
  <1>5. /\ rpOut' = [rpOut EXCEPT ![p] = <<>>] /\ rpIn' = [rpIn EXCEPT ![p] = <<a>>]
        /\ UNCHANGED <<rp, runs, rec, recFile, rpSeq, rpKey, forgot>>
    BY <1>3, <1>4, Single DEF Answer
  <1>6. a.ok = ok /\ a.num = rpSeq[p]
    BY <1>2
  <1> HIDE DEF a
  <1>7. PairShapes' /\ RecordVerifies' /\ Known \subseteq Known' /\ Only(p)
    BY <1>4, <1>5 DEF RpInv, PairShapes, RecordVerifies, Known, Only
  <1>8. ok /\ rp[p] = "pv3" => devKey'[p] = <<"pv", runs[p]>>
    BY <1>2, <1>4 DEF RpInv, PairShapes
  <1>9. ok /\ rp[p] = "srp5" => devKey'[p] = <<"srp", runs[p]>> /\ rec[p].id \in Known'
    BY <1>2, <1>4 DEF RpInv, PairShapes, Known
  <1>10. rpOut'[p] = <<>> /\ rpIn'[p] = <<a>> /\ rp'[p] = rp[p] /\ runs'[p] = runs[p] /\ rec'[p] = rec[p]
         /\ rpSeq'[p] = rpSeq[p] /\ rpKey'[p] = rpKey[p]
    BY <1>5 DEF RpInv, PairShapes
  <1>11. Told(p)'
    BY <1>6, <1>8, <1>9, <1>10 DEF Told
  <1>12. KeyOK(p)'
    BY <1>1, <1>2, <1>4, <1>10 DEF KeyOK, Asking, RpInv, DialogueOK
  <1>13. DialogueOK(p)'
    BY <1>1, <1>10, <1>11, <1>12 DEF DialogueOK, TurnOK, SaveOK, Asking
  <1> QED BY <1>7, <1>13, OneDialogue

\* Whatever processes pair, are refused or are killed at the same time: a
\* record file that is whole holds an identity the device has accepted; every
\* answer is that to the last message, also after a fall-back on the same
\* stream; both ends derive one key (remote_pairing/session.rs, credentials.rs).
THEOREM PairingsSound == RpSpec => []PairingSafe
  <1>1. RpInv /\ [RpNext]_rpVars => RpInv'
    <2> SUFFICES ASSUME RpInv, [RpNext]_rpVars PROVE RpInv'
      OBVIOUS
    <2>1. ASSUME NEW id \in trusted, RpDevForgets(id) PROVE RpInv'
      <3>1. PairShapes' /\ RecordVerifies' /\ Known \subseteq Known'
        BY <2>1 DEF RpDevForgets, RpInv, PairShapes, RecordVerifies, Known
      <3>2. ASSUME NEW q \in Pairers PROVE DialogueOK(q)'
        BY <2>1, <3>1, DialogueUntouched DEF RpDevForgets, RpInv
      <3> QED BY <3>1, <3>2 DEF RpInv
    <2>2. CASE UNCHANGED rpVars
      <3>1. PairShapes' /\ RecordVerifies' /\ Known \subseteq Known'
        BY <2>2 DEF rpVars, RpInv, PairShapes, RecordVerifies, Known
      <3>2. ASSUME NEW q \in Pairers PROVE DialogueOK(q)'
        BY <2>2, <3>1, DialogueUntouched DEF rpVars, RpInv
      <3> QED BY <3>1, <3>2 DEF RpInv
    <2> QED BY <2>1, <2>2, ProcessInv, DialogueDevice DEF RpNext
  <1>2. RpInv => PairingSafe
    <2> SUFFICES ASSUME RpInv, NEW p \in Pairers
                 PROVE  /\ Len(rpOut[p]) + Len(rpIn[p]) <= 1
                        /\ \A i \in DOMAIN rpIn[p] : rpIn[p][i].num = rpSeq[p]
      BY DEF RpInv, DialogueOK, KeyOK, PairingSafe, PairingInStep, KeysAgree
    <2>1. CASE Quiet(p)
      BY <2>1, Single DEF Quiet
    <2>2. CASE Asked(p)
      BY <2>2, Single DEF Asked
    <2>3. CASE Told(p)
      <3>1. rpOut[p] = <<>> /\ \E a : rpIn[p] = <<a>> /\ a.num = rpSeq[p]
        BY <2>3, Zenon DEF Told
      <3> QED BY <3>1, Single
    <2> QED BY <2>1, <2>2, <2>3 DEF RpInv, DialogueOK, TurnOK
  <1> QED BY <1>1, <1>2, RpInvInit, PTL DEF RpSpec

-----------------------------------------------------------------------------
(* A test run.                                                             *)

Selectors == {"requestDriver", "ready", "log", "suite", "case", "plan"}
Nums == 1..2 * Classes + 5
RunMsg == {m \in [chan: {Root, Ide}, sel: Selectors, num: Nums] :
             m.sel = RunnerScript[m.num] /\ m.chan = ChannelOf(m.sel)}

LEMMA Concat ==
  ASSUME NEW S, NEW x \in Seq(S), NEW y \in Seq(S)
  PROVE  /\ x \o y \in Seq(S) /\ Len(x \o y) = Len(x) + Len(y)
         /\ \A i \in 1..Len(x) : (x \o y)[i] = x[i]
         /\ \A i \in Len(x) + 1..Len(x) + Len(y) : (x \o y)[i] = y[i - Len(x)]
  OBVIOUS

LEMMA ScriptFacts ==
  /\ RunnerScript \in Seq(Selectors) /\ Len(RunnerScript) = 2 * Classes + 5 /\ DOMAIN RunnerScript = Nums
  /\ RunnerScript[1] = "requestDriver" /\ RunnerScript[2] = "ready" /\ RunnerScript[3] = "log"
  /\ \A i \in Nums : i > 3 => RunnerScript[i] \in {"suite", "case", "plan"}
  <1> DEFINE a == <<"requestDriver", "ready", "log", "suite">>
             b == [i \in 1..2 * Classes |-> IF i % 2 = 1 THEN "case" ELSE "suite"]
             c == <<"plan">>
  <1>1. Classes \in Nat /\ 2 * Classes \in Nat
    BY XcAssumption
  <1>2. a \in Seq(Selectors) /\ Len(a) = 4 /\ a[1] = "requestDriver" /\ a[2] = "ready" /\ a[3] = "log" /\ a[4] = "suite"
    BY DEF Selectors
  <1>3. b \in Seq(Selectors) /\ Len(b) = 2 * Classes /\ \A i \in 1..2 * Classes : b[i] \in {"case", "suite"}
    BY <1>1 DEF Selectors
  <1>4. c \in Seq(Selectors) /\ Len(c) = 1 /\ c[1] = "plan"
    BY DEF Selectors
  <1>5. RunnerScript = (a \o b) \o c
    BY DEF RunnerScript
  <1> HIDE DEF a, b, c
  <1> DEFINE ab == a \o b
             abc == ab \o c
  <1>6. /\ ab \in Seq(Selectors) /\ Len(ab) = 4 + 2 * Classes
        /\ \A i \in 1..4 : ab[i] = a[i]
        /\ \A i \in 5..4 + 2 * Classes : ab[i] = b[i - 4]
    <2>0. a \in Seq(Selectors) /\ b \in Seq(Selectors)
      BY <1>2, <1>3
    <2>1. /\ ab \in Seq(Selectors) /\ Len(ab) = Len(a) + Len(b)
          /\ \A i \in 1..Len(a) : ab[i] = a[i]
          /\ \A i \in Len(a) + 1..Len(a) + Len(b) : ab[i] = b[i - Len(a)]
      BY ONLY <2>0, Concat, ZenonT(30)
    <2> HIDE DEF ab
    <2> QED BY <1>1, <1>2, <1>3, <2>1
  <1>7. /\ abc \in Seq(Selectors) /\ Len(abc) = 2 * Classes + 5
        /\ \A i \in 1..4 + 2 * Classes : abc[i] = ab[i]
        /\ abc[2 * Classes + 5] = "plan"
    <2> HIDE DEF ab
    <2>1. /\ abc \in Seq(Selectors) /\ Len(abc) = Len(ab) + Len(c)
          /\ \A i \in 1..Len(ab) : abc[i] = ab[i]
          /\ \A i \in Len(ab) + 1..Len(ab) + Len(c) : abc[i] = c[i - Len(ab)]
      BY ONLY <1>4, <1>6, Concat
    <2> HIDE DEF abc
    <2> QED BY <1>1, <1>4, <1>6, <2>1
  <1>0. RunnerScript = abc
    BY <1>5
  <1> HIDE DEF ab, abc
  <1>8. \A i \in Nums : i > 3 => RunnerScript[i] \in {"suite", "case", "plan"}
    <2> SUFFICES ASSUME NEW i \in Nums, i > 3 PROVE RunnerScript[i] \in {"suite", "case", "plan"}
      OBVIOUS
    <2>1. CASE i = 4
      BY <1>0, <1>1, <1>2, <1>6, <1>7, <2>1
    <2>2. CASE i \in 5..4 + 2 * Classes
      <3>1. i - 4 \in 1..2 * Classes
        BY <1>1, <2>2
      <3> QED BY <1>0, <1>1, <1>3, <1>6, <1>7, <2>2, <3>1
    <2>3. CASE i = 2 * Classes + 5
      BY <1>0, <1>7, <2>3
    <2> QED BY <1>1, <2>1, <2>2, <2>3 DEF Nums
  <1> QED BY <1>0, <1>1, <1>2, <1>6, <1>7, <1>8 DEF Nums

QueueOK == queue \in [{Root, Ide} -> Seq(RunMsg \cup Asides)] /\ queue[Ide] \in Seq(RunMsg)
RunTypes ==
  /\ registered \subseteq {Root, Ide} /\ sent \in 0..2 * Classes + 5
  /\ QueueOK /\ wireX \in Seq(RunMsg)
  /\ invoke \in {Unknown, -DriverCode} /\ DOMAIN answers = Nums /\ repeated \in BOOLEAN
  /\ starts \in Seq({Unknown, -DriverCode}) /\ stdio \in BOOLEAN

\* Both channels have their queue before the runner runs.
BothRegistered ==
  /\ xc \in {"registered", "initiated", "spawned", "launched", "wait", "passed"} => registered = {Root, Ide}
  /\ stdio \/ sent > 0 => registered = {Root, Ide}

\* The request for the driver channel goes first, and is on its way until it
\* has been handled.
RequestFirst ==
  /\ sent = 0 => wireX = <<>> /\ queue[Ide] = <<>> /\ ~Unread /\ invoke = Unknown
  /\ \A i \in DOMAIN wireX : wireX[i].num = 1 => i = 1 /\ queue[Ide] = <<>> /\ ~Unread /\ invoke = Unknown
  /\ \A i, j \in DOMAIN queue[Root] :
       queue[Root][i].sel = "requestDriver" /\ queue[Root][j].sel = "requestDriver" => i = j
  /\ Unread => invoke = Unknown
  /\ sent > 0 => \/ invoke = -DriverCode \/ Unread
                 \/ wireX # <<>> /\ wireX[1].num = 1

StartInv ==
  /\ Len(starts) = IF planStarted THEN 1 ELSE 0
  /\ \A i \in DOMAIN starts : starts[i] = IF early THEN Unknown ELSE -DriverCode

\* Messages are under way in the order of their numbers, each once.
InOrder ==
  /\ \A i \in DOMAIN wireX : wireX[i].num <= sent
  /\ \A i, j \in DOMAIN wireX : i < j => wireX[i].num < wireX[j].num
  /\ \A i, j \in DOMAIN queue[Ide] : i < j => queue[Ide][i].num < queue[Ide][j].num
  /\ \A i \in DOMAIN queue[Ide], j \in DOMAIN wireX : queue[Ide][i].num < wireX[j].num
  /\ \A i \in DOMAIN queue[Ide] : queue[Ide][i].num <= sent /\ queue[Ide][i].num > 1

\* A message has been answered as often as it was sent, less the one time that
\* is under way, as its selector asks.
UnderWay(n) ==
  (\E i \in DOMAIN wireX : wireX[i].num = n) \/ (\E i \in DOMAIN queue[Ide] : queue[Ide][i].num = n)
Times(n) == IF n > sent THEN 0 ELSE IF n = 3 /\ repeated THEN 2 ELSE 1
AnswerDue(n) ==
  /\ n = 1 => answers[n] = <<>>
  /\ n > 1 => /\ answers[n] \in Seq({IF n = 2 THEN "config" ELSE "ack"})
              /\ Len(answers[n]) = Times(n) - (IF UnderWay(n) THEN 1 ELSE 0)
AnswersDue == (\A n \in Nums : AnswerDue(n)) /\ (repeated => sent >= 3)

ACase == \E n \in Nums : RunnerScript[n] \in {"case", "plan"} /\ answers[n] # <<>>
CaseKnown == caseDone \/ done \/ why = "done" => ACase

XcInv ==
  /\ RunTypes /\ BothRegistered /\ RequestFirst /\ StartInv /\ InOrder /\ AnswersDue /\ CaseKnown

LEMMA XcInvInit == XcInit => XcInv
  <1> SUFFICES ASSUME XcInit PROVE XcInv
    OBVIOUS
  <1> USE ScriptFacts, XcAssumption DEF XcInit
  <1>1. DOMAIN answers = Nums /\ \A n \in Nums : answers[n] = <<>>
    BY DEF Nums
  <1>2. RunTypes
    <2>1. sent \in 0..2 * Classes + 5
      OBVIOUS
    <2>2. QueueOK /\ wireX \in Seq(RunMsg)
      BY DEF QueueOK, Root, Ide
    <2>3. stdio \in BOOLEAN /\ repeated \in BOOLEAN /\ registered \subseteq {Root, Ide}
      OBVIOUS
    <2> QED BY <1>1, <2>1, <2>2, <2>3 DEF RunTypes
  <1>3. BothRegistered /\ RequestFirst /\ StartInv /\ InOrder /\ CaseKnown
    BY DEF BothRegistered, RequestFirst, Unread, StartInv, InOrder, CaseKnown, Root, Ide
  <1>4. AnswersDue
    <2> SUFFICES ASSUME NEW n \in Nums PROVE AnswerDue(n)
      BY DEF AnswersDue
    <2>1. ~UnderWay(n)
      BY DEF UnderWay, Ide, Root
    <2>2. answers[n] = <<>> /\ Len(answers[n]) = 0 /\ n > sent /\ answers[n] \in Seq({IF n = 2 THEN "config" ELSE "ack"})
      BY <1>1 DEF Nums
    <2> QED BY <2>1, <2>2 DEF AnswerDue, Times
  <1> QED BY <1>2, <1>3, <1>4 DEF XcInv

\* Steps of the main thread.
LEMMA MainInv ==
  ASSUME XcInv, XcOpen \/ XcRegister \/ XcInitiate \/ XcSpawn \/ XcLaunch \/ XcAuthorize \/ XcFails \/ XcEnds
  PROVE  XcInv'
  <1> USE DEF XcInv, mainUnch
  <1>1. /\ UNCHANGED <<queue, invoke, caseDone, planStarted, done, sent, repeated, wireX, got, answers, starts, early>>
        /\ registered' \in {registered, {Root, Ide}} /\ stdio' \in {stdio, TRUE}
        /\ xc' \in {"registered", "initiated", "spawned", "launched", "wait", "passed"} => registered' = {Root, Ide}
        /\ stdio' = TRUE /\ stdio # TRUE => registered' = {Root, Ide}
        /\ why' = "done" => why = "done" \/ done
    BY DEF XcOpen, XcRegister, XcInitiate, XcSpawn, XcLaunch, XcAuthorize, XcFails, XcEnds, MainStep,
       BothRegistered, RunTypes
  <1>2. RunTypes'
    BY <1>1 DEF RunTypes, QueueOK
  <1>3. BothRegistered'
    BY <1>1 DEF BothRegistered, RunTypes
  <1>4. RequestFirst' /\ StartInv' /\ InOrder'
    BY <1>1 DEF RequestFirst, Unread, StartInv, InOrder
  <1>5. AnswersDue'
    BY <1>1 DEF AnswersDue, AnswerDue, Times, UnderWay
  <1>6. CaseKnown'
    BY <1>1 DEF CaseKnown, ACase
  <1> QED BY <1>2, <1>3, <1>4, <1>5, <1>6

LEMMA FirstOut ==
  ASSUME NEW S, NEW q \in Seq(S), q # <<>>
  PROVE  /\ Head(q) = q[1] /\ q[1] \in S /\ Tail(q) \in Seq(S) /\ 1 \in DOMAIN q
         /\ \A i \in DOMAIN Tail(q) : i \in DOMAIN q /\ i + 1 \in DOMAIN q /\ Tail(q)[i] = q[i + 1]
         /\ \A i \in DOMAIN q : i # 1 => i - 1 \in DOMAIN Tail(q) /\ Tail(q)[i - 1] = q[i]
         /\ \A i \in DOMAIN q : i \in Nat
         /\ \A i \in DOMAIN Tail(q) : i \in Nat \ {0}
  OBVIOUS

LEMMA LastIn ==
  ASSUME NEW S, NEW q \in Seq(S), NEW e \in S
  PROVE  /\ Append(q, e) \in Seq(S) /\ Append(q, e) # <<>> /\ Append(q, e)[Len(q) + 1] = e
         /\ Len(q) + 1 \in DOMAIN Append(q, e)
         /\ \A i \in DOMAIN q : i \in DOMAIN Append(q, e) /\ Append(q, e)[i] = q[i] /\ i < Len(q) + 1
         /\ \A i \in DOMAIN Append(q, e) : i # Len(q) + 1 => i \in DOMAIN q
         /\ \A i \in DOMAIN Append(q, e) : i \in Nat
  OBVIOUS

LEMMA MsgFacts ==
  ASSUME NEW m \in RunMsg
  PROVE  /\ m.num \in Nums /\ m.num \in Nat /\ m.sel = RunnerScript[m.num] /\ m.chan \in {Root, Ide}
         /\ m.chan = Root <=> m.num = 1
         /\ m.sel = "ready" <=> m.num = 2
         /\ m.sel = "log" <=> m.num = 3
  <1>1. m.num \in Nums /\ m.sel = RunnerScript[m.num] /\ m.chan = ChannelOf(m.sel) /\ m.chan \in {Root, Ide}
    BY DEF RunMsg
  <1>2. m.num \in Nat /\ m.num > 0
    BY <1>1, XcAssumption DEF Nums
  <1>3. m.num = 1 \/ m.num = 2 \/ m.num = 3 \/ m.num > 3
    BY <1>2
  <1>4. m.num > 3 => m.sel \in {"suite", "case", "plan"}
    BY <1>1, ScriptFacts
  <1>5. /\ m.num = 1 => m.sel = "requestDriver"
        /\ m.num = 2 => m.sel = "ready"
        /\ m.num = 3 => m.sel = "log"
    BY <1>1, ScriptFacts
  <1> QED BY <1>1, <1>2, <1>3, <1>4, <1>5 DEF ChannelOf, Root, Ide

\* What AnswersDue needs of a step that leaves the answers alone.
LEMMA AnswersKept ==
  ASSUME AnswersDue, UNCHANGED <<answers, sent, repeated>>,
         \A n \in Nums : n # 1 => (UnderWay(n)' <=> UnderWay(n))
  PROVE  AnswersDue'
  <1> SUFFICES ASSUME NEW n \in Nums PROVE AnswerDue(n)'
    BY DEF AnswersDue
  <1>1. n > 1 => n # 1
    BY XcAssumption DEF Nums
  <1>2. AnswerDue(n) /\ Times(n)' = Times(n)
    BY DEF AnswersDue, Times
  <1> QED BY <1>1, <1>2 DEF AnswerDue

\* A handler of the IDE channel takes a message and answers it.
LEMMA IdeStep ==
  ASSUME XcInv, Takes(Ide), NEW how, Answered(how), how = (IF Msg.num = 2 THEN "config" ELSE "ack"),
         UNCHANGED <<invoke, sent, repeated, wireX, stdio, xc, registered>>
  PROVE  /\ QueueOK' /\ DOMAIN answers' = Nums
         /\ BothRegistered' /\ RequestFirst' /\ InOrder' /\ AnswersDue'
         /\ Msg \in RunMsg /\ answers'[Msg.num] # <<>>
         /\ \A n \in Nums : answers[n] # <<>> => answers'[n] # <<>>
  <1> DEFINE q == queue[Ide]
             m == q[1]
  <1> USE DEF XcInv
  <1>1. q \in Seq(RunMsg) /\ q # <<>> /\ queue' = [queue EXCEPT ![Ide] = Tail(q)] /\ Ide \in {Root, Ide} /\ Ide # Root
    BY DEF RunTypes, QueueOK, Takes, Root, Ide
  <1>2. Msg = m
    BY <1>1 DEF Msg
  <1>3. /\ Head(q) = q[1] /\ q[1] \in RunMsg /\ Tail(q) \in Seq(RunMsg) /\ 1 \in DOMAIN q
        /\ \A i \in DOMAIN Tail(q) : i \in DOMAIN q /\ i + 1 \in DOMAIN q /\ Tail(q)[i] = q[i + 1]
        /\ \A i \in DOMAIN q : i # 1 => i - 1 \in DOMAIN Tail(q) /\ Tail(q)[i - 1] = q[i]
        /\ \A i \in DOMAIN q : i \in Nat
        /\ \A i \in DOMAIN Tail(q) : i \in Nat \ {0}
    BY <1>1, FirstOut
  <1>4. m.num \in Nums /\ m.num \in Nat /\ m.num > 1 /\ m.num <= sent /\ sent \in Nat
    BY <1>3, MsgFacts, XcAssumption DEF InOrder, RunTypes
  <1>5. /\ queue'[Ide] = Tail(q) /\ queue'[Root] = queue[Root]
        /\ QueueOK'
    <2>1. queue \in [{Root, Ide} -> Seq(RunMsg \cup Asides)] /\ Tail(q) \in Seq(RunMsg \cup Asides)
      BY <1>3 DEF RunTypes, QueueOK
    <2> QED BY <1>1, <1>3, <2>1 DEF QueueOK
  <1>6. BothRegistered'
    BY DEF BothRegistered
  <1>7. RequestFirst'
    <2>1. Unread' <=> Unread
      BY <1>5 DEF Unread
    <2> QED BY <1>1, <1>4, <1>5, <2>1 DEF RequestFirst
  <1>8. \A i \in DOMAIN Tail(q) : Tail(q)[i].num > m.num /\ Tail(q)[i].num \in Nat
    BY <1>3, MsgFacts DEF InOrder
  <1>9. InOrder'
    <2>1. ASSUME NEW i \in DOMAIN Tail(q), NEW j \in DOMAIN Tail(q), i < j PROVE Tail(q)[i].num < Tail(q)[j].num
      <3>1. i + 1 \in DOMAIN q /\ j + 1 \in DOMAIN q /\ i + 1 < j + 1
        BY <1>3, <2>1
      <3>2. q[i + 1].num < q[j + 1].num
        BY <3>1 DEF InOrder
      <3> QED BY <1>3, <3>2
    <2>2. \A i \in DOMAIN Tail(q), j \in DOMAIN wireX : Tail(q)[i].num < wireX[j].num
      BY <1>3 DEF InOrder
    <2>3. \A i \in DOMAIN Tail(q) : Tail(q)[i].num <= sent /\ Tail(q)[i].num > 1
      BY <1>3 DEF InOrder
    <2> QED BY <1>5, <2>1, <2>2, <2>3 DEF InOrder
  <1>10. \A j \in DOMAIN wireX : wireX[j].num # m.num
    BY <1>3, <1>4 DEF InOrder
  <1>11. ASSUME NEW n \in Nums, n = m.num PROVE ~UnderWay(n)'
    <2>1. \A i \in DOMAIN queue'[Ide] : queue'[Ide][i].num # n
      BY <1>4, <1>5, <1>8, <1>11
    <2> QED BY <1>10, <1>11, <2>1 DEF UnderWay
  <1>12. \A n \in Nums : n # m.num => (UnderWay(n)' <=> UnderWay(n))
    <2> SUFFICES ASSUME NEW n \in Nums, n # m.num PROVE UnderWay(n)' <=> UnderWay(n)
      OBVIOUS
    <2>1. (\E i \in DOMAIN Tail(q) : Tail(q)[i].num = n) <=> (\E i \in DOMAIN q : q[i].num = n)
      <3>1. ASSUME NEW i \in DOMAIN Tail(q), Tail(q)[i].num = n PROVE \E k \in DOMAIN q : q[k].num = n
        BY <1>3, <3>1
      <3>2. ASSUME NEW i \in DOMAIN q, q[i].num = n PROVE \E k \in DOMAIN Tail(q) : Tail(q)[k].num = n
        BY <1>3, <3>2
      <3> QED BY <3>1, <3>2
    <2> QED BY <1>5, <2>1 DEF UnderWay
  <1>13. answers' = [answers EXCEPT ![m.num] = Append(@, how)] /\ DOMAIN answers = Nums
    BY <1>2 DEF Answered, RunTypes
  <1>14. UnderWay(m.num)
    BY <1>3 DEF UnderWay
  <1>15. /\ answers[m.num] \in Seq({how}) /\ Len(answers[m.num]) = Times(m.num) - 1
         /\ answers'[m.num] = Append(answers[m.num], how)
    BY <1>2, <1>4, <1>13, <1>14 DEF AnswersDue, AnswerDue
  <1>16. answers'[m.num] \in Seq({how}) /\ Len(answers'[m.num]) = Len(answers[m.num]) + 1 /\ answers'[m.num] # <<>>
    BY <1>15
  <1>17. answers'[m.num] # <<>> /\ \A n \in Nums : n = m.num => Len(answers'[n]) = Times(n)'
    <2>1. \A n \in Nums : Times(n) \in Nat /\ Times(n)' = Times(n)
      BY DEF Times
    <2>2. Times(m.num) \in Nat /\ Len(answers'[m.num]) = Times(m.num)
      BY <1>4, <1>15, <1>16, <2>1
    <2> QED BY <1>16, <2>1, <2>2
  <1>18. \A n \in Nums : n # m.num => answers'[n] = answers[n]
    BY <1>4, <1>13
  <1>19. AnswersDue'
    <2>0. repeated' => sent' >= 3
      BY DEF AnswersDue
    <2> SUFFICES ASSUME NEW n \in Nums PROVE AnswerDue(n)'
      BY <2>0 DEF AnswersDue
    <2>1. CASE n = m.num
      <3>1. ~UnderWay(n)' /\ n # 1
        BY <1>4, <1>11, <2>1
      <3>2. how = (IF n = 2 THEN "config" ELSE "ack")
        BY <1>2, <2>1
      <3>3. Times(n)' \in Nat
        BY DEF Times
      <3>4. answers'[n] \in Seq({IF n = 2 THEN "config" ELSE "ack"}) /\ Len(answers'[n]) = Times(n)'
        BY <1>16, <1>17, <2>1, <3>2
      <3> QED BY <3>1, <3>3, <3>4 DEF AnswerDue
    <2>2. CASE n # m.num
      <3>1. AnswerDue(n) /\ Times(n)' = Times(n)
        BY DEF AnswersDue, Times
      <3> QED BY <1>12, <1>18, <2>2, <3>1 DEF AnswerDue
    <2> QED BY <2>1, <2>2
  <1>20. \A n \in Nums : answers[n] # <<>> => answers'[n] # <<>>
    BY <1>17, <1>18
  <1> QED BY <1>2, <1>3, <1>5, <1>6, <1>7, <1>9, <1>13, <1>17, <1>19, <1>20

\* The handlers of the IDE channel.
LEMMA HandlerInv ==
  ASSUME XcInv, RunnerReady \/ PlanFinished \/ CaseFinished \/ SuiteFinished \/ LogMessage
  PROVE  XcInv'
  <1> USE DEF ideUnch
  <1>1. PICK how : Answered(how) /\ how = (IF Msg.num = 2 THEN "config" ELSE "ack")
    <2>1. Takes(Ide) /\ Msg \in RunMsg
      <3>1. Takes(Ide)
        BY DEF RunnerReady, PlanFinished, CaseFinished, SuiteFinished, LogMessage
      <3>2. queue[Ide] \in Seq(RunMsg) /\ queue[Ide] # <<>>
        BY <3>1 DEF XcInv, RunTypes, QueueOK, Takes, Root, Ide
      <3> QED BY <3>1, <3>2, FirstOut DEF Msg
    <2>2. Msg.sel = "ready" <=> Msg.num = 2
      BY <2>1, MsgFacts
    <2> QED BY <2>2 DEF RunnerReady, PlanFinished, CaseFinished, SuiteFinished, LogMessage
  <1>2. Takes(Ide) /\ UNCHANGED <<invoke, sent, repeated, wireX, stdio, xc, registered, why>>
    BY DEF RunnerReady, PlanFinished, CaseFinished, SuiteFinished, LogMessage
  <1>3. /\ QueueOK' /\ DOMAIN answers' = Nums
        /\ BothRegistered' /\ RequestFirst' /\ InOrder' /\ AnswersDue'
        /\ Msg \in RunMsg /\ answers'[Msg.num] # <<>>
        /\ \A n \in Nums : answers[n] # <<>> => answers'[n] # <<>>
    BY <1>1, <1>2, IdeStep
  <1>4. \/ UNCHANGED <<planStarted, starts, early>>
        \/ ~planStarted /\ planStarted' = TRUE /\ starts' = Append(starts, invoke) /\ early' = Unread
    BY DEF RunnerReady, PlanFinished, CaseFinished, SuiteFinished, LogMessage
  <1>5. starts' \in Seq({Unknown, -DriverCode}) /\ StartInv'
    <2>1. CASE UNCHANGED <<planStarted, starts, early>>
      BY <2>1 DEF XcInv, RunTypes, StartInv
    <2>2. CASE ~planStarted /\ planStarted' = TRUE /\ starts' = Append(starts, invoke) /\ early' = Unread
      <3>1. starts = <<>> /\ invoke \in {Unknown, -DriverCode} /\ starts' = <<invoke>>
        <4>1. starts \in Seq({Unknown, -DriverCode}) /\ Len(starts) = 0 /\ invoke \in {Unknown, -DriverCode}
          BY <2>2 DEF XcInv, StartInv, RunTypes
        <4>2. starts = <<>>
          BY ONLY <4>1
        <4> QED BY <2>2, <4>1, <4>2, Single
      <3>2. invoke = IF Unread THEN Unknown ELSE -DriverCode
        <4>1. sent > 0 /\ queue[Ide] # <<>>
          <5>1. sent \in Nat /\ queue[Ide] # <<>>
            BY <1>2, XcAssumption DEF XcInv, RunTypes, Takes
          <5> QED BY <5>1 DEF XcInv, RequestFirst
        <4>2. ~(wireX # <<>> /\ wireX[1].num = 1)
          <5>1. wireX # <<>> => 1 \in DOMAIN wireX
            BY FirstOut DEF XcInv, RunTypes
          <5> QED BY <4>1, <5>1 DEF XcInv, RequestFirst
        <4> QED BY <4>1, <4>2 DEF XcInv, RequestFirst
      <3>3. invoke = IF early' THEN Unknown ELSE -DriverCode
        BY <2>2, <3>2
      <3>4. /\ starts' \in Seq({Unknown, -DriverCode}) /\ Len(starts') = 1
            /\ \A i \in DOMAIN starts' : starts'[i] = invoke
        BY ONLY <3>1
      <3> QED BY <2>2, <3>3, <3>4 DEF StartInv
    <2> QED BY <1>4, <2>1, <2>2
  <1>6. RunTypes'
    BY <1>2, <1>3, <1>5 DEF XcInv, RunTypes
  <1>7. CaseKnown'
    <2>1. ACase => ACase'
      BY <1>3 DEF ACase
    <2>2. (Msg.sel \in {"case", "plan"}) => ACase'
      BY <1>3, MsgFacts DEF ACase
    <2>3. \/ caseDone' = caseDone /\ done' = (done \/ caseDone)
          \/ UNCHANGED <<caseDone, done>>
          \/ Msg.sel \in {"case", "plan"}
      BY DEF RunnerReady, PlanFinished, CaseFinished, SuiteFinished, LogMessage
    <2> QED BY <1>2, <2>1, <2>2, <2>3 DEF XcInv, CaseKnown
  <1> QED BY <1>3, <1>5, <1>6, <1>7 DEF XcInv

LEMMA RootInv == ASSUME XcInv, RootHandler PROVE XcInv'
  <1> DEFINE q == queue[Root]
             t == Tail(q)
  <1> USE DEF XcInv, runUnch
  <1>1. q \in Seq(RunMsg \cup Asides) /\ q # <<>> /\ Root # Ide
    BY DEF RunTypes, QueueOK, RootHandler, Takes, Root, Ide
  <1>2. /\ Head(q) = q[1] /\ t \in Seq(RunMsg \cup Asides) /\ 1 \in DOMAIN q
        /\ \A i \in DOMAIN t : i \in DOMAIN q /\ i + 1 \in DOMAIN q /\ t[i] = q[i + 1]
        /\ \A i \in DOMAIN q : i # 1 => i - 1 \in DOMAIN t /\ t[i - 1] = q[i]
        /\ \A i \in DOMAIN t : i \in Nat \ {0}
    BY <1>1, FirstOut
  <1>3. queue'[Ide] = queue[Ide] /\ queue'[Root] = t /\ QueueOK'
    BY <1>1, <1>2 DEF RunTypes, QueueOK, RootHandler, Takes
  <1>0. /\ UNCHANGED <<caseDone, planStarted, done, sent, repeated, wireX, answers, starts, early, stdio, xc, registered, why>>
        /\ invoke' = IF q[1].sel = "requestDriver" THEN -DriverCode ELSE invoke
    BY <1>2 DEF RootHandler
  <1> HIDE DEF q, t
  <1>4. RunTypes'
    BY <1>0, <1>3 DEF RunTypes
  <1>5. BothRegistered' /\ StartInv' /\ CaseKnown'
    BY <1>0 DEF BothRegistered, StartInv, CaseKnown, ACase
  <1>6. \A i, j \in DOMAIN q : q[i].sel = "requestDriver" /\ q[j].sel = "requestDriver" => i = j
    BY DEF RequestFirst, q
  <1>7. Unread <=> \E i \in DOMAIN q : q[i].sel = "requestDriver"
    BY DEF Unread, q
  <1>8. Unread' <=> \E i \in DOMAIN t : t[i].sel = "requestDriver"
    BY <1>3 DEF Unread
  <1>9. ASSUME q[1].sel = "requestDriver" PROVE RequestFirst'
    <2>1. ~Unread'
      <3> SUFFICES ASSUME NEW i \in DOMAIN t, t[i].sel = "requestDriver" PROVE FALSE
        BY <1>8
      <3>1. i + 1 \in DOMAIN q /\ q[i + 1].sel = "requestDriver" /\ i + 1 # 1
        BY <1>2
      <3> QED BY <1>2, <1>6, <1>9, <3>1
    <2>2. Unread /\ invoke' = -DriverCode
      BY <1>0, <1>2, <1>7, <1>9
    <2>3. sent # 0 /\ \A i \in DOMAIN wireX : wireX[i].num # 1
      BY <2>2 DEF RequestFirst
    <2>4. \A i, j \in DOMAIN t : ~(t[i].sel = "requestDriver")
      BY <1>8, <2>1
    <2> QED BY <1>0, <1>3, <2>1, <2>2, <2>3, <2>4 DEF RequestFirst
  <1>10. ASSUME q[1].sel # "requestDriver" PROVE RequestFirst'
    <2>1. Unread' <=> Unread
      BY <1>2, <1>7, <1>8, <1>10
    <2>2. \A i, j \in DOMAIN t : t[i].sel = "requestDriver" /\ t[j].sel = "requestDriver" => i = j
      <3> SUFFICES ASSUME NEW i \in DOMAIN t, NEW j \in DOMAIN t,
                          t[i].sel = "requestDriver", t[j].sel = "requestDriver" PROVE i = j
        OBVIOUS
      <3>1. i + 1 = j + 1
        BY <1>2, <1>6
      <3> QED BY <1>2, <3>1
    <2>3. invoke' = invoke
      BY <1>0, <1>10
    <2> QED BY <1>0, <1>3, <2>1, <2>2, <2>3 DEF RequestFirst
  <1>11. RequestFirst'
    BY <1>9, <1>10
  <1>12. InOrder'
    BY <1>0, <1>3 DEF InOrder
  <1>13. AnswersDue'
    <2>1. \A n \in Nums : UnderWay(n)' <=> UnderWay(n)
      BY <1>0, <1>3 DEF UnderWay
    <2> QED BY <1>0, <2>1, AnswersKept
  <1> QED BY <1>4, <1>5, <1>11, <1>12, <1>13

\* Something else is queued behind what is there.
LEMMA AsideInv == ASSUME XcInv, RootAside PROVE XcInv'
  <1> USE DEF XcInv, runUnch
  <1>1. PICK m \in Asides : queue' = [queue EXCEPT ![Root] = Append(@, m)]
    BY DEF RootAside
  <1> DEFINE q == queue[Root]
             e == Append(q, m)
  <1>2. q \in Seq(RunMsg \cup Asides) /\ Root # Ide /\ m \in RunMsg \cup Asides /\ m.sel # "requestDriver"
    BY DEF RunTypes, QueueOK, Root, Ide, Asides
  <1>3. /\ e \in Seq(RunMsg \cup Asides) /\ e[Len(q) + 1] = m /\ Len(q) + 1 \in DOMAIN e
        /\ \A i \in DOMAIN q : i \in DOMAIN e /\ e[i] = q[i] /\ i < Len(q) + 1
        /\ \A i \in DOMAIN e : i # Len(q) + 1 => i \in DOMAIN q
    BY ONLY <1>2, LastIn
  <1>4. queue'[Ide] = queue[Ide] /\ queue'[Root] = e /\ QueueOK'
    BY <1>1, <1>2, <1>3 DEF RunTypes, QueueOK
  <1>5. UNCHANGED <<invoke, caseDone, planStarted, done, sent, repeated, wireX, answers, starts, early, stdio, xc, registered, why>>
    BY DEF RootAside
  <1> HIDE DEF e
  <1>6. Unread' <=> Unread
    BY <1>2, <1>3, <1>4 DEF Unread
  <1>7. \A i, j \in DOMAIN e : e[i].sel = "requestDriver" /\ e[j].sel = "requestDriver" => i = j
    BY <1>2, <1>3 DEF RequestFirst
  <1>8. RequestFirst'
    BY <1>4, <1>5, <1>6, <1>7 DEF RequestFirst
  <1>9. RunTypes' /\ BothRegistered' /\ StartInv' /\ CaseKnown'
    BY <1>4, <1>5 DEF RunTypes, BothRegistered, StartInv, CaseKnown, ACase
  <1>10. InOrder'
    BY <1>4, <1>5 DEF InOrder
  <1>11. AnswersDue'
    <2>1. \A n \in Nums : UnderWay(n)' <=> UnderWay(n)
      BY <1>4, <1>5 DEF UnderWay
    <2> QED BY <1>5, <2>1, AnswersKept
  <1> QED BY <1>8, <1>9, <1>10, <1>11

LEMMA DispatchInv == ASSUME XcInv, XcDispatch PROVE XcInv'
  <1> DEFINE m == wireX[1]
             q == queue[Ide]
             e == Append(q, m)
             t == Tail(wireX)
  <1> USE DEF XcInv, runUnch
  <1>1. /\ wireX \in Seq(RunMsg) /\ wireX # <<>> /\ q \in Seq(RunMsg) /\ queue[Root] \in Seq(RunMsg \cup Asides)
        /\ Root # Ide /\ wireX' = t /\ UNCHANGED <<answers, sent, repeated, invoke>>
    BY DEF RunTypes, QueueOK, XcDispatch, Root, Ide
  <1>2. /\ Head(wireX) = m /\ m \in RunMsg /\ t \in Seq(RunMsg) /\ 1 \in DOMAIN wireX
        /\ \A i \in DOMAIN t : i \in DOMAIN wireX /\ i + 1 \in DOMAIN wireX /\ t[i] = wireX[i + 1]
        /\ \A i \in DOMAIN wireX : i # 1 => i - 1 \in DOMAIN t /\ t[i - 1] = wireX[i]
        /\ \A i \in DOMAIN wireX : i \in Nat
        /\ \A i \in DOMAIN t : i \in Nat \ {0}
    BY ONLY <1>1, FirstOut
  <1>3. sent # 0 /\ sent \in Nat /\ sent > 0
    <2>1. sent # 0 /\ sent \in Nat
      BY <1>1, XcAssumption DEF RequestFirst, RunTypes
    <2> QED BY <2>1
  <1>4. m.num \in Nat /\ m.num \in Nums /\ m.chan \in {Root, Ide} /\ (m.chan = Root <=> m.num = 1)
    BY <1>2, MsgFacts
  <1>5. queue' = [queue EXCEPT ![m.chan] = Append(@, m)]
    BY <1>2, <1>3, <1>4 DEF XcDispatch, BothRegistered
  <1>6. \A i \in DOMAIN t : t[i].num > m.num /\ t[i].num # 1 /\ t[i].num \in Nat
    <2> SUFFICES ASSUME NEW i \in DOMAIN t PROVE t[i].num > m.num /\ t[i].num # 1 /\ t[i].num \in Nat
      OBVIOUS
    <2>1. i + 1 \in DOMAIN wireX /\ t[i] = wireX[i + 1] /\ 1 < i + 1 /\ i + 1 # 1 /\ t[i] \in RunMsg
      BY <1>1, <1>2
    <2>2. m.num < wireX[i + 1].num /\ wireX[i + 1].num # 1
      BY <1>2, <2>1 DEF InOrder, RequestFirst
    <2> QED BY <1>4, <2>1, <2>2, MsgFacts
  <1>7. \A i, j \in DOMAIN t : i < j => t[i].num < t[j].num
    <2> SUFFICES ASSUME NEW i \in DOMAIN t, NEW j \in DOMAIN t, i < j PROVE t[i].num < t[j].num
      OBVIOUS
    <2>1. i + 1 \in DOMAIN wireX /\ j + 1 \in DOMAIN wireX /\ i + 1 < j + 1
      BY <1>2
    <2>2. wireX[i + 1].num < wireX[j + 1].num
      BY <2>1 DEF InOrder
    <2> QED BY <1>2, <2>2
  <1>8. \A i \in DOMAIN t : t[i].num <= sent
    BY <1>2 DEF InOrder
  <1>9. \A n \in Nums : n # m.num => ((\E i \in DOMAIN t : t[i].num = n) <=> (\E i \in DOMAIN wireX : wireX[i].num = n))
    <2> SUFFICES ASSUME NEW n \in Nums, n # m.num
                 PROVE (\E i \in DOMAIN t : t[i].num = n) <=> (\E i \in DOMAIN wireX : wireX[i].num = n)
      OBVIOUS
    <2>1. ASSUME NEW i \in DOMAIN t, t[i].num = n PROVE \E k \in DOMAIN wireX : wireX[k].num = n
      BY <1>2, <2>1
    <2>2. ASSUME NEW i \in DOMAIN wireX, wireX[i].num = n PROVE \E k \in DOMAIN t : t[k].num = n
      BY <1>2, <2>2
    <2> QED BY <2>1, <2>2
  <1>10. /\ BothRegistered' /\ StartInv' /\ CaseKnown'
    BY DEF XcDispatch, BothRegistered, StartInv, CaseKnown, ACase
  <1> HIDE DEF t
  <1>11. CASE m.num = 1
    <2>0. q = <<>> /\ ~Unread /\ invoke = Unknown /\ m.sel = "requestDriver"
      BY <1>2, <1>11, MsgFacts, ScriptFacts DEF RequestFirst
    <2> DEFINE u == Append(queue[Root], m)
    <2>1. /\ queue'[Ide] = q /\ queue'[Root] = u /\ q = <<>> /\ QueueOK'
      <3>2. u \in Seq(RunMsg \cup Asides)
        <4>1. m \in RunMsg \cup Asides
          BY <1>2
        <4> QED BY ONLY <1>1, <4>1, LastIn
      <3>3. queue' = [queue EXCEPT ![Root] = u]
        BY <1>4, <1>5, <1>11
      <3> QED BY <1>1, <2>0, <3>2, <3>3 DEF RunTypes, QueueOK
    <2>2. /\ u[Len(queue[Root]) + 1] = m /\ Len(queue[Root]) + 1 \in DOMAIN u
          /\ \A i \in DOMAIN u : i # Len(queue[Root]) + 1 => i \in DOMAIN queue[Root] /\ u[i] = queue[Root][i]
      <3>1. m \in RunMsg \cup Asides
        BY <1>2
      <3> QED BY ONLY <1>1, <3>1, LastIn
    <2> HIDE DEF u
    <2>3. RunTypes'
      BY <1>1, <1>2, <2>1 DEF RunTypes, XcDispatch
    <2>4. RequestFirst'
      <3>1. Unread'
        BY <2>0, <2>1, <2>2 DEF Unread
      <3>2. \A i \in DOMAIN u : u[i].sel = "requestDriver" => i = Len(queue[Root]) + 1
        BY <2>0, <2>2 DEF Unread
      <3> QED BY <1>1, <1>3, <1>6, <2>0, <2>1, <3>1, <3>2 DEF RequestFirst
    <2>5. InOrder'
      <3>1. queue'[Ide] = queue[Ide] /\ \A i \in DOMAIN queue[Ide] : FALSE
        BY <2>1
      <3> QED BY <1>1, <1>7, <1>8, <3>1 DEF InOrder, XcDispatch
    <2>6. ASSUME NEW n \in Nums, n # 1 PROVE UnderWay(n)' <=> UnderWay(n)
      BY <1>1, <1>9, <1>11, <2>1, <2>6 DEF UnderWay
    <2>7. AnswersDue'
      BY <1>1, <2>6, AnswersKept
    <2> QED BY <1>10, <2>3, <2>4, <2>5, <2>7
  <1>12. CASE m.num # 1
    <2>0. m.num > 1
      BY <1>2, <1>4, <1>12, XcAssumption DEF Nums
    <2>1. /\ e \in Seq(RunMsg) /\ e # <<>> /\ e[Len(q) + 1] = m /\ Len(q) + 1 \in DOMAIN e
          /\ \A i \in DOMAIN q : i \in DOMAIN e /\ e[i] = q[i] /\ i < Len(q) + 1
          /\ \A i \in DOMAIN e : i # Len(q) + 1 => i \in DOMAIN q
          /\ \A i \in DOMAIN e : i \in Nat
      BY ONLY <1>1, <1>2, LastIn
    <2>2. /\ queue'[Ide] = e /\ queue'[Root] = queue[Root]
          /\ QueueOK'
      <3>1. e \in Seq(RunMsg \cup Asides) /\ queue \in [{Root, Ide} -> Seq(RunMsg \cup Asides)]
        BY <2>1 DEF RunTypes, QueueOK
      <3>2. queue' = [queue EXCEPT ![Ide] = e]
        BY <1>4, <1>5, <1>12
      <3> QED BY <1>1, <2>1, <3>1, <3>2 DEF QueueOK
    <2> HIDE DEF e
    <2>3. RunTypes'
      BY <1>1, <1>2, <2>2 DEF RunTypes, XcDispatch
    <2>4. RequestFirst'
      <3>1. Unread' <=> Unread
        BY <2>2 DEF Unread
      <3>2. \A i \in DOMAIN t : t[i].num # 1
        BY <1>6
      <3>3. wireX[1].num # 1
        BY <1>12
      <3> QED BY <1>1, <1>3, <2>2, <3>1, <3>2, <3>3 DEF RequestFirst
    <2>5. InOrder'
      <3>1. \A i \in DOMAIN q : q[i].num < m.num /\ q[i].num <= sent /\ q[i].num > 1
        BY <1>2 DEF InOrder
      <3>2. \A i \in DOMAIN e : e[i].num <= m.num /\ e[i].num <= sent /\ e[i].num > 1 /\ e[i].num \in Nat
        <4>1. ASSUME NEW i \in DOMAIN e PROVE e[i].num <= m.num /\ e[i].num <= sent /\ e[i].num > 1 /\ e[i].num \in Nat
          <5>1. CASE i = Len(q) + 1
            BY <1>2, <1>4, <2>0, <2>1, <5>1 DEF InOrder
          <5>2. CASE i \in DOMAIN q
            <6>1. q[i] \in RunMsg /\ e[i] = q[i]
              BY <1>1, <2>1, <5>2
            <6> QED BY <1>4, <3>1, <5>2, <6>1, MsgFacts
          <5> QED BY <2>1, <5>1, <5>2
        <4> QED BY <4>1
      <3>3. ASSUME NEW i \in DOMAIN e, NEW j \in DOMAIN e, i < j PROVE e[i].num < e[j].num
        <4>0. i \in Nat /\ j \in Nat /\ Len(q) \in Nat
          BY <1>1, <2>1
        <4>1. CASE j = Len(q) + 1
          <5>1. i \in DOMAIN q
            BY <2>1, <3>3, <4>0, <4>1
          <5> QED BY <2>1, <3>1, <4>1, <5>1
        <4>2. CASE j \in DOMAIN q
          <5>1. i \in DOMAIN q
            BY <2>1, <3>3, <4>0, <4>2
          <5> QED BY <2>1, <3>3, <4>2, <5>1 DEF InOrder
        <4> QED BY <2>1, <4>1, <4>2
      <3>4. ASSUME NEW i \in DOMAIN e, NEW j \in DOMAIN t PROVE e[i].num < t[j].num
        <4>1. e[i].num <= m.num /\ t[j].num > m.num /\ e[i].num \in Nat /\ t[j].num \in Nat
          BY <1>6, <3>2
        <4> QED BY <1>4, <4>1
      <3> QED BY <1>1, <1>7, <1>8, <2>2, <3>2, <3>3, <3>4, ZenonT(30) DEF InOrder, XcDispatch
    <2>6. ASSUME NEW n \in Nums PROVE UnderWay(n)' <=> UnderWay(n)
      <3>1. CASE n = m.num
        <4>1. UnderWay(n)
          BY <1>2, <3>1 DEF UnderWay
        <4>2. UnderWay(n)'
          BY <2>1, <2>2, <3>1 DEF UnderWay
        <4> QED BY <4>1, <4>2
      <3>2. CASE n # m.num
        <4>1. (\E i \in DOMAIN e : e[i].num = n) <=> (\E i \in DOMAIN q : q[i].num = n)
          BY <2>1, <3>2
        <4> QED BY <1>1, <1>9, <2>2, <3>2, <4>1 DEF UnderWay
      <3> QED BY <3>1, <3>2
    <2>7. AnswersDue'
      BY <1>1, <2>6, AnswersKept
    <2> QED BY <1>10, <2>3, <2>4, <2>5, <2>7
  <1> QED BY <1>11, <1>12

LEMMA SendInv == ASSUME XcInv, RunnerSends PROVE XcInv'
  <1> DEFINE k == sent + 1
             m == [chan |-> ChannelOf(RunnerScript[k]), sel |-> RunnerScript[k], num |-> k]
             e == Append(wireX, m)
  <1> USE DEF XcInv, runUnch
  <1>1. /\ sent \in Nat /\ k \in Nat /\ k \in Nums /\ sent < k /\ sent' = k /\ k > 0
        /\ wireX' = e /\ wireX \in Seq(RunMsg) /\ queue' = queue /\ answers' = answers /\ repeated' = repeated
    BY ScriptFacts, XcAssumption DEF RunTypes, RunnerSends, Nums
  <1>2. m \in RunMsg /\ m.num = k
    <2>1. RunnerScript[k] \in Selectors
      BY <1>1, ScriptFacts
    <2> QED BY <1>1, <2>1 DEF RunMsg, ChannelOf, Root, Ide
  <1> HIDE DEF m
  <1>3. /\ e \in Seq(RunMsg) /\ e # <<>> /\ e[Len(wireX) + 1] = m /\ Len(wireX) + 1 \in DOMAIN e
        /\ \A i \in DOMAIN wireX : i \in DOMAIN e /\ e[i] = wireX[i] /\ i < Len(wireX) + 1
        /\ \A i \in DOMAIN e : i # Len(wireX) + 1 => i \in DOMAIN wireX
        /\ \A i \in DOMAIN e : i \in Nat
    BY ONLY <1>1, <1>2, LastIn
  <1> HIDE DEF e
  <1>4. RunTypes'
    BY <1>1, <1>3 DEF RunTypes, QueueOK, RunnerSends, Nums
  <1>5. BothRegistered' /\ StartInv' /\ CaseKnown'
    BY DEF RunnerSends, BothRegistered, StartInv, CaseKnown, ACase
  <1>6. \A i \in DOMAIN wireX : wireX[i].num <= sent /\ wireX[i].num < k /\ wireX[i].num \in Nat
    <2> SUFFICES ASSUME NEW i \in DOMAIN wireX PROVE wireX[i].num <= sent /\ wireX[i].num < k /\ wireX[i].num \in Nat
      OBVIOUS
    <2>1. wireX[i].num \in Nat
      BY <1>1, MsgFacts
    <2> QED BY <1>1, <2>1 DEF InOrder
  <1>7. \A i \in DOMAIN queue[Ide] : queue[Ide][i].num < k /\ queue[Ide][i].num <= k /\ queue[Ide][i].num > 1
    <2> SUFFICES ASSUME NEW i \in DOMAIN queue[Ide]
                 PROVE queue[Ide][i].num < k /\ queue[Ide][i].num <= k /\ queue[Ide][i].num > 1
      OBVIOUS
    <2>1. queue[Ide][i].num \in Nat
      BY MsgFacts DEF RunTypes, QueueOK, Ide, Root
    <2> QED BY <1>1, <2>1 DEF InOrder
  <1>8. RequestFirst'
    <2>1. \A i \in DOMAIN e : e[i].num = 1 => i = 1 /\ queue[Ide] = <<>> /\ ~Unread /\ invoke = Unknown
      <3> SUFFICES ASSUME NEW i \in DOMAIN e, e[i].num = 1
                   PROVE i = 1 /\ queue[Ide] = <<>> /\ ~Unread /\ invoke = Unknown
        OBVIOUS
      <3>1. CASE i \in DOMAIN wireX
        BY <1>3, <3>1 DEF RequestFirst
      <3>2. CASE i = Len(wireX) + 1
        <4>1. k = 1
          BY <1>2, <1>3, <3>2
        <4>2. sent = 0
          BY <1>1, <4>1
        <4>3. wireX = <<>> /\ queue[Ide] = <<>> /\ ~Unread /\ invoke = Unknown
          BY <4>2 DEF RequestFirst
        <4>4. Len(wireX) + 1 = 1
          BY ONLY <4>3
        <4> QED BY <3>2, <4>3, <4>4
      <3> QED BY <1>3, <3>1, <3>2
    <2>2. invoke = -DriverCode \/ Unread \/ (e # <<>> /\ e[1].num = 1)
      <3>1. CASE sent = 0
        <4>1. wireX = <<>>
          BY <3>1 DEF RequestFirst
        <4>2. Len(wireX) + 1 = 1
          BY ONLY <4>1
        <4> QED BY <1>2, <1>3, <3>1, <4>2
      <3>2. CASE sent # 0
        <4>1. invoke = -DriverCode \/ Unread \/ (wireX # <<>> /\ wireX[1].num = 1)
          BY <1>1, <3>2 DEF RequestFirst
        <4>2. wireX # <<>> => 1 \in DOMAIN wireX
          BY ONLY <1>1, FirstOut
        <4> QED BY <1>3, <4>1, <4>2
      <3> QED BY <3>1, <3>2
    <2>3. invoke' = invoke /\ (Unread' <=> Unread)
      BY DEF RunnerSends, Unread
    <2> QED BY <1>1, <2>1, <2>2, <2>3 DEF RequestFirst
  <1>9. InOrder'
    <2>1. ASSUME NEW i \in DOMAIN e PROVE e[i].num <= k
      <3>1. CASE i \in DOMAIN wireX
        BY <1>1, <1>3, <1>6, <3>1
      <3>2. CASE i = Len(wireX) + 1
        BY <1>1, <1>2, <1>3, <3>2
      <3> QED BY <1>3, <3>1, <3>2
    <2>2. ASSUME NEW i \in DOMAIN e, NEW j \in DOMAIN e, i < j PROVE e[i].num < e[j].num
      <3>0. i \in Nat /\ j \in Nat /\ Len(wireX) \in Nat
        BY <1>1, <1>3
      <3>1. CASE j = Len(wireX) + 1
        <4>1. i \in DOMAIN wireX
          BY <1>3, <2>2, <3>0, <3>1
        <4> QED BY <1>2, <1>3, <1>6, <3>1, <4>1
      <3>2. CASE j \in DOMAIN wireX
        <4>1. i \in DOMAIN wireX
          BY <1>3, <2>2, <3>0, <3>2
        <4> QED BY <1>3, <2>2, <3>2, <4>1 DEF InOrder
      <3> QED BY <1>3, <3>1, <3>2
    <2>3. ASSUME NEW i \in DOMAIN queue[Ide], NEW j \in DOMAIN e PROVE queue[Ide][i].num < e[j].num
      <3>1. CASE j \in DOMAIN wireX
        BY <1>3, <3>1 DEF InOrder
      <3>2. CASE j = Len(wireX) + 1
        BY <1>2, <1>3, <1>7, <3>2
      <3> QED BY <1>3, <3>1, <3>2
    <2> QED BY <1>1, <1>7, <2>1, <2>2, <2>3 DEF InOrder
  <1>10. ASSUME NEW n \in Nums PROVE UnderWay(n)' <=> UnderWay(n) \/ n = k
    <2>1. (\E i \in DOMAIN e : e[i].num = n) <=> (\E i \in DOMAIN wireX : wireX[i].num = n) \/ n = k
      BY <1>2, <1>3
    <2> QED BY <1>1, <2>1 DEF UnderWay
  <1>11. AnswersDue'
    <2>0. repeated' => sent' >= 3
      BY <1>1 DEF AnswersDue
    <2> SUFFICES ASSUME NEW n \in Nums PROVE AnswerDue(n)'
      BY <2>0 DEF AnswersDue
    <2>1. AnswerDue(n) /\ n \in Nat
      BY XcAssumption DEF AnswersDue, Nums
    <2>2. CASE n = k
      <3>1. ~UnderWay(n)
        <4>1. \A i \in DOMAIN wireX : wireX[i].num # n
          BY <1>1, <1>6, <2>2
        <4>2. \A i \in DOMAIN queue[Ide] : queue[Ide][i].num # n
          <5> SUFFICES ASSUME NEW i \in DOMAIN queue[Ide], queue[Ide][i].num = n PROVE FALSE
            OBVIOUS
          <5>1. k < k
            BY <1>7, <2>2
          <5> QED BY <1>1, <5>1
        <4> QED BY <4>1, <4>2 DEF UnderWay
      <3>2. Times(n) = 0
        BY <1>1, <2>2 DEF Times
      <3>3. Times(n)' = 1
        <4>1. ~(n > sent')
          BY <1>1, <2>2
        <4>2. repeated => n # 3
          BY <1>1, <2>2 DEF AnswersDue
        <4> QED BY <1>1, <4>1, <4>2 DEF Times
      <3>4. UnderWay(n)'
        BY <1>10, <2>2
      <3> QED BY <1>1, <2>1, <3>1, <3>2, <3>3, <3>4 DEF AnswerDue
    <2>3. CASE n # k
      <3>1. n > sent' <=> n > sent
        BY <1>1, <2>1, <2>3
      <3>2. Times(n)' = Times(n)
        BY <1>1, <3>1 DEF Times
      <3>3. UnderWay(n)' <=> UnderWay(n)
        BY <1>10, <2>3
      <3> QED BY <1>1, <2>1, <3>2, <3>3 DEF AnswerDue
    <2> QED BY <2>2, <2>3
  <1> QED BY <1>4, <1>5, <1>8, <1>9, <1>11

\* The repeated log line is the third message again.
LEMMA RepeatInv == ASSUME XcInv, RunnerRepeats PROVE XcInv'
  <1> DEFINE m == [chan |-> Ide, sel |-> "log", num |-> 3]
  <1> USE DEF XcInv, runUnch
  <1>1. /\ wireX' = <<m>> /\ wireX = <<>> /\ queue[Ide] = <<>> /\ sent = 3 /\ sent' = 3
        /\ queue' = queue /\ answers' = answers /\ invoke' = invoke
        /\ repeated = FALSE /\ repeated' = TRUE
    BY DEF RunnerRepeats, RunTypes
  <1>2. 3 \in Nums /\ m \in RunMsg /\ m.num = 3
    <2>1. 3 \in Nums
      BY XcAssumption DEF Nums
    <2> QED BY <2>1, ScriptFacts DEF RunMsg, ChannelOf, Root, Ide, Selectors
  <1> HIDE DEF m
  <1>3. <<m>> \in Seq(RunMsg) /\ DOMAIN <<m>> = {1} /\ <<m>>[1] = m /\ <<m>> # <<>>
    BY ONLY <1>2
  <1>4. RunTypes'
    BY <1>1, <1>3 DEF RunTypes, QueueOK, RunnerRepeats
  <1>5. BothRegistered' /\ StartInv' /\ CaseKnown'
    BY DEF RunnerRepeats, BothRegistered, StartInv, CaseKnown, ACase
  <1>6. RequestFirst'
    BY <1>1, <1>2, <1>3 DEF RequestFirst, Unread
  <1>7. InOrder'
    <2>1. \A i \in DOMAIN queue[Ide] : FALSE
      BY <1>1
    <2> QED BY <1>1, <1>2, <1>3, <2>1 DEF InOrder
  <1>8. AnswersDue'
    <2> SUFFICES ASSUME NEW n \in Nums PROVE AnswerDue(n)'
      BY <1>1 DEF AnswersDue
    <2>1. UnderWay(n)' <=> n = 3
      BY <1>1, <1>2, <1>3 DEF UnderWay
    <2>2. ~UnderWay(n)
      BY <1>1 DEF UnderWay
    <2>3. AnswerDue(n)
      BY DEF AnswersDue
    <2>4. CASE n = 3
      <3>1. Times(n) = 1 /\ Times(n)' = 2
        BY <1>1, <2>4 DEF Times
      <3> QED BY <1>1, <2>1, <2>2, <2>3, <2>4, <3>1 DEF AnswerDue
    <2>5. CASE n # 3
      <3>1. Times(n)' = Times(n)
        BY <1>1, <2>5 DEF Times
      <3> QED BY <1>1, <2>1, <2>2, <2>3, <2>5, <3>1 DEF AnswerDue
    <2> QED BY <2>4, <2>5
  <1> QED BY <1>4, <1>5, <1>6, <1>7, <1>8

\* A test run at every moment, for any number of test classes: the start command
\* goes out once, to the driver unless the runner's request for its channel lies
\* unread in the queue of channel 0; a message on the IDE channel is answered as
\* often as it was sent, and nothing on channel 0; and the run is not over by the
\* runner's word before a case is (xctest/mod.rs 344-453).
THEOREM RunsSound == XcSpec => []RunSafe
  <1>1. XcInv /\ [XcNext]_xcVars => XcInv'
    <2> SUFFICES ASSUME XcInv, [XcNext]_xcVars PROVE XcInv'
      OBVIOUS
    <2>1. CASE RunnerExits
      BY <2>1 DEF RunnerExits, runUnch, XcInv, RunTypes, QueueOK, BothRegistered, RequestFirst, Unread, StartInv,
         InOrder, AnswersDue, AnswerDue, Times, UnderWay, CaseKnown, ACase
    <2>2. CASE UNCHANGED xcVars
      BY <2>2 DEF xcVars, XcInv, RunTypes, QueueOK, BothRegistered, RequestFirst, Unread, StartInv, InOrder,
         AnswersDue, AnswerDue, Times, UnderWay, CaseKnown, ACase
    <2> QED BY <2>1, <2>2, MainInv, DispatchInv, RootInv, AsideInv, HandlerInv, SendInv, RepeatInv DEF XcNext
  <1>2. XcInv => RunSafe
    <2> SUFFICES ASSUME XcInv PROVE RunSafe
      OBVIOUS
    <2> USE DEF XcInv
    <2>1. StartOnDriverChannel
      <3>1. Len(starts) <= 1
        BY DEF StartInv
      <3> QED BY <3>1 DEF StartInv, StartOnDriverChannel
    <2>2. DoneAfterACase
      BY DEF CaseKnown, ACase, DoneAfterACase, RunTypes
    <2>3. AnsweredOnce
      <3> SUFFICES ASSUME NEW n \in Nums
                   PROVE  /\ ChannelOf(RunnerScript[n]) = Root => answers[n] = <<>>
                          /\ \A k \in DOMAIN answers[n] : answers[n][k] = AnswerTo(RunnerScript[n])
                          /\ Len(answers[n]) <= TimesSent(n)
                          /\ ChannelOf(RunnerScript[n]) = Ide /\ wireX = <<>> /\ queue[Ide] = <<>>
                               => Len(answers[n]) = TimesSent(n)
        BY DEF AnsweredOnce, RunTypes
      <3>1. (n = 1 \/ n = 2 \/ n = 3 \/ n > 3) /\ n \in Nat
        BY XcAssumption DEF Nums
      <3>2. /\ n = 1 => RunnerScript[n] = "requestDriver"
            /\ n = 2 => RunnerScript[n] = "ready"
            /\ n = 3 => RunnerScript[n] = "log"
            /\ n > 3 => RunnerScript[n] \in {"suite", "case", "plan"}
        BY ScriptFacts
      <3>3. wireX = <<>> /\ queue[Ide] = <<>> => ~UnderWay(n)
        BY DEF UnderWay
      <3>4. AnswerDue(n)
        BY DEF AnswersDue
      <3>5. RunnerScript[n] = "log" <=> n = 3
        BY <3>1, <3>2
      <3>6. TimesSent(n) = Times(n) /\ Times(n) \in Nat
        BY <3>5 DEF TimesSent, Times
      <3>7. CASE n = 1
        <4>1. answers[n] = <<>> /\ ChannelOf(RunnerScript[n]) # Ide /\ Len(answers[n]) = 0
          BY <3>2, <3>4, <3>7 DEF AnswerDue, ChannelOf, Root, Ide
        <4> QED BY <3>6, <4>1
      <3>8. CASE n # 1
        <4>1. n > 1 /\ ChannelOf(RunnerScript[n]) # Root
          BY <3>1, <3>2, <3>8 DEF ChannelOf, Root, Ide
        <4>2. AnswerTo(RunnerScript[n]) = IF n = 2 THEN "config" ELSE "ack"
          BY <3>1, <3>2, <3>8 DEF AnswerTo
        <4>3. /\ answers[n] \in Seq({AnswerTo(RunnerScript[n])})
              /\ Len(answers[n]) = Times(n) - (IF UnderWay(n) THEN 1 ELSE 0)
          BY <3>4, <4>1, <4>2 DEF AnswerDue
        <4>4. \A k \in DOMAIN answers[n] : answers[n][k] = AnswerTo(RunnerScript[n])
          BY <4>3
        <4> QED BY <3>3, <3>6, <4>1, <4>3, <4>4
      <3> QED BY <3>7, <3>8
    <2> QED BY <2>1, <2>2, <2>3 DEF RunSafe
  <1> QED BY <1>1, <1>2, XcInvInit, PTL DEF XcSpec

-----------------------------------------------------------------------------
(* RemoteXPC.                                                              *)

RxMsg == [id: Nat, reply: BOOLEAN, body: {"none", "open", "value", "event", "handshake"}, parts: 1..2]
RxPart == {p \in [msg: RxMsg, part: 1..2] : p.part <= p.msg.parts}
RxFrames == [type: {"settings", "ack", "ping", "goaway", "data"}, part: RxPart]

Even(n) == \E k \in Nat : n = 2 * k

RxTypes ==
  /\ rx \in {"new", "settings", "ready", "rsd", "request", "closed", "have"}
  /\ rxBuf \in Seq(RxPart) /\ rxIn \in Seq(RxFrames) /\ rxNext \in Nat /\ ~Even(rxNext) /\ rxReq \in Nat
  /\ rxAcks \in [settings: 0..1, ping: 0..1]
  /\ dv \in [settings: 0..1, ack: 0..1, ping: 0..1, up: BOOLEAN, events: Nat]
  /\ dvQueue \in [Streams -> Seq(RxMsg)] /\ dvPart \in [Streams -> 0..1] /\ mixed \in BOOLEAN

\* A message of two parts has been begun.
HalfSent ==
  \A s \in Streams : dvPart[s] = 1 =>
    dv.settings = 1 /\ dvQueue[s] # <<>> /\ Head(dvQueue[s]).parts = 2 /\ Head(dvQueue[s]).body # "open"

Carried(type) == \E i \in DOMAIN rxIn : rxIn[i].type = type
Once(type) == \A i, j \in DOMAIN rxIn : rxIn[i].type = type /\ rxIn[j].type = type => i = j

\* The device begins with SETTINGS or an acknowledgement, which is why the
\* handshake drops nothing; what it has sent of each kind is on the stream or
\* acknowledged.
AcksDue ==
  /\ rx = "new" => ~Begun
  /\ ~Begun => rxIn = <<>> /\ dv.ping = 0
  /\ rx = "settings" /\ Begun => rxIn # <<>> /\ rxIn[1].type \in {"settings", "ack"}
  /\ Once("settings") /\ Once("ping")
  /\ IF Carried("settings") THEN rxAcks.settings = 0 /\ dv.settings = 1 ELSE rxAcks.settings = dv.settings
  /\ IF Carried("ping") THEN rxAcks.ping = 0 /\ dv.ping = 1 ELSE rxAcks.ping = dv.ping

\* The data frames on the stream.
Data(i) == i \in DOMAIN rxIn /\ rxIn[i].type = "data"
Final(p) == p.part = p.msg.parts

\* q is the part that comes after p.
Follows(p, q) == IF Final(p) THEN q.part = 1 ELSE q = [msg |-> p.msg, part |-> p.part + 1]

\* The device goes on after p: with the rest of a message, or with a new one.
Rest(p) ==
  IF Final(p) THEN \A s \in Streams : dvPart[s] = 0
  ELSE \E s \in Streams : /\ dvPart[s] = p.part /\ dvQueue[s] # <<>> /\ Head(dvQueue[s]) = p.msg
                          /\ \A t \in Streams \ {s} : dvPart[t] = 0

\* The buffer holds parts of one message; parts follow one another from the
\* buffer over the stream to the device.
BufferOK ==
  /\ Len(rxBuf) <= 2
  /\ rxBuf # <<>> => rxBuf[1].part = 1 /\ Len(rxBuf) <= rxBuf[1].msg.parts
  /\ Len(rxBuf) = 2 => rxBuf[2] = [msg |-> rxBuf[1].msg, part |-> 2]
FirstOK ==
  \A j \in DOMAIN rxIn : Data(j) /\ (\A i \in 1..j - 1 : ~Data(i)) =>
    IF rxBuf = <<>> THEN rxIn[j].part.part = 1 ELSE Follows(rxBuf[Len(rxBuf)], rxIn[j].part)
NextOK ==
  \A i, j \in DOMAIN rxIn : i < j /\ Data(i) /\ Data(j) /\ (\A k \in i + 1..j - 1 : ~Data(k)) =>
    Follows(rxIn[i].part, rxIn[j].part)
LastOK ==
  /\ \A i \in DOMAIN rxIn : Data(i) /\ (\A k \in i + 1..Len(rxIn) : ~Data(k)) => Rest(rxIn[i].part)
  /\ ~Carried("data") =>
       IF rxBuf = <<>> THEN \A s \in Streams : dvPart[s] = 0 ELSE Rest(rxBuf[Len(rxBuf)])
NoneYet ==
  dv.settings = 0 => rxBuf = <<>> /\ ~Carried("data") /\ \A s \in Streams : dvPart[s] = 0
PartsInv == BufferOK /\ FirstOK /\ NextOK /\ LastOK /\ NoneYet

\* A reply has the id of the last request, which is odd, another message an
\* even one.
IdOK(msg) == IF msg.reply THEN rx \in {"request", "closed"} /\ msg.id = rxReq ELSE Even(msg.id)
IdsOK ==
  /\ \A i \in DOMAIN rxBuf : IdOK(rxBuf[i].msg)
  /\ \A i \in DOMAIN rxIn : IdOK(rxIn[i].part.msg)
  /\ \A s \in Streams : \A i \in DOMAIN dvQueue[s] : IdOK(dvQueue[s][i])
  /\ rx = "request" => ~Even(rxReq)

\* There is one reply: after its last part comes none, and the device has none.
LastOfReply(p) == p.msg.reply /\ Final(p)
OneReply ==
  /\ \A i, j \in DOMAIN rxIn : i < j /\ LastOfReply(rxIn[i].part) => ~rxIn[j].part.msg.reply
  /\ (\E i \in DOMAIN rxBuf : LastOfReply(rxBuf[i])) => \A j \in DOMAIN rxIn : ~rxIn[j].part.msg.reply
  /\ \/ \E i \in DOMAIN rxBuf : LastOfReply(rxBuf[i])
     \/ \E i \in DOMAIN rxIn : LastOfReply(rxIn[i].part)
     => \A s \in Streams : \A i \in DOMAIN dvQueue[s] : ~dvQueue[s][i].reply
  /\ \A s, t \in Streams : \A i \in DOMAIN dvQueue[s], j \in DOMAIN dvQueue[t] :
       dvQueue[s][i].reply /\ dvQueue[t][j].reply => s = t /\ i = j
RepliesInv == IdsOK /\ OneReply /\ ReplyIsOwn

RxInv == RxTypes /\ HalfSent /\ AcksDue /\ (~mixed => PartsInv /\ RepliesInv)

LEMMA TailOf ==
  ASSUME NEW S, NEW q \in Seq(S), q # <<>>
  PROVE  /\ Tail(q) \in Seq(S) /\ Len(q) \in Nat /\ Len(q) > 0 /\ Len(Tail(q)) = Len(q) - 1
         /\ DOMAIN q = 1..Len(q) /\ DOMAIN Tail(q) = 1..Len(q) - 1
         /\ \A i \in 1..Len(q) - 1 : Tail(q)[i] = q[i + 1]
         /\ Head(q) = q[1] /\ q[1] \in S
  OBVIOUS

LEMMA AppendTo ==
  ASSUME NEW S, NEW q \in Seq(S), NEW e \in S
  PROVE  /\ Append(q, e) \in Seq(S) /\ Len(q) \in Nat /\ Len(Append(q, e)) = Len(q) + 1
         /\ DOMAIN q = 1..Len(q) /\ DOMAIN Append(q, e) = 1..Len(q) + 1
         /\ \A i \in 1..Len(q) : Append(q, e)[i] = q[i]
         /\ Append(q, e)[Len(q) + 1] = e /\ Append(q, e) # <<>>
         /\ Head(Append(q, e)) = IF q = <<>> THEN e ELSE Head(q)
  OBVIOUS

LEMMA NoMsgType == NoMsg \in RxMsg /\ [msg |-> NoMsg, part |-> 1] \in RxPart
  BY DEF NoMsg, RxMsg, RxPart

LEMMA EvenFacts ==
  /\ Even(0)
  /\ \A n \in Nat : Even(2 * n + 2)
  /\ ~Even(1)
  /\ \A n \in Nat : ~Even(n) => ~Even(n + 2)
  <1>1. Even(0)
    BY DEF Even
  <1>2. ASSUME NEW n \in Nat PROVE Even(2 * n + 2)
    <2>1. n + 1 \in Nat /\ 2 * n + 2 = 2 * (n + 1)
      OBVIOUS
    <2> QED BY <2>1 DEF Even
  <1>3. ~Even(1)
    BY DEF Even
  <1>4. ASSUME NEW n \in Nat, ~Even(n) PROVE ~Even(n + 2)
    <2> SUFFICES ASSUME NEW k \in Nat, n + 2 = 2 * k PROVE FALSE
      BY DEF Even
    <2>1. k - 1 \in Nat /\ n = 2 * (k - 1)
      OBVIOUS
    <2> QED BY <2>1, <1>4 DEF Even
  <1> QED BY <1>1, <1>2, <1>3, <1>4

LEMMA RxInvInit == RxInit => RxInv
  <1> SUFFICES ASSUME RxInit PROVE RxInv
    OBVIOUS
  <1> USE DEF RxInit
  <1>1. RxTypes
    <2>1. /\ dv.up \in BOOLEAN /\ mixed \in BOOLEAN
      OBVIOUS
    <2>4. /\ dv \in [settings: 0..1, ack: 0..1, ping: 0..1, up: BOOLEAN, events: Nat]
          /\ rxAcks \in [settings: 0..1, ping: 0..1]
      BY <2>1
    <2>2. rxBuf \in Seq(RxPart) /\ rxIn \in Seq(RxFrames) /\ dvQueue \in [Streams -> Seq(RxMsg)]
      OBVIOUS
    <2>3. dvPart \in [Streams -> 0..1]
      OBVIOUS
    <2> QED BY <2>1, <2>2, <2>3, <2>4, EvenFacts DEF RxTypes
  <1>2. AcksDue
    BY DEF AcksDue, Begun, Once, Carried
  <1>3. PartsInv
    BY DEF PartsInv, BufferOK, FirstOK, NextOK, LastOK, NoneYet, Carried, Data
  <1>4. RepliesInv
    BY EvenFacts DEF RepliesInv, IdsOK, OneReply, ReplyIsOwn
  <1>5. HalfSent
    BY DEF HalfSent
  <1> QED BY <1>1, <1>2, <1>3, <1>4, <1>5 DEF RxInv

-----------------------------------------------------------------------------
(* Steps that move no message.                                             *)

LEMMA NothingMoves ==
  ASSUME RxInv, UNCHANGED <<rxBuf, rxNext, rxReq, rxIn, rxAcks, rxGot, dvQueue, dvPart, mixed>>,
         dv' = dv \/ (rx' = rx /\ dv' = [dv EXCEPT !.up = FALSE]),
         rx' \in {"new", "settings", "ready", "rsd", "request", "closed", "have"},
         rx' = "new" => rx = "new",
         rx' = "settings" => rx \in {"new", "settings"},
         rx \in {"request", "closed"} => rx' \in {"request", "closed"},
         rx' = "request" => rx = "request"
  PROVE  RxInv'
  <1>0. /\ dv' \in [settings: 0..1, ack: 0..1, ping: 0..1, up: BOOLEAN, events: Nat]
        /\ dv'.settings = dv.settings /\ dv'.ack = dv.ack /\ dv'.ping = dv.ping
    BY DEF RxInv, RxTypes
  <1>1. RxTypes'
    BY <1>0 DEF RxInv, RxTypes
  <1>2. AcksDue'
    BY <1>0 DEF RxInv, RxTypes, AcksDue, Begun, Once, Carried
  <1>3. ~mixed => PartsInv'
    BY <1>0 DEF RxInv, PartsInv, BufferOK, FirstOK, NextOK, LastOK, NoneYet, Carried, Data, Rest, Follows, Final
  <1>4. ~mixed => RepliesInv'
    BY <1>0 DEF RxInv, RepliesInv, IdsOK, OneReply, ReplyIsOwn, IdOK, LastOfReply, Final
  <1>5. HalfSent'
    BY <1>0 DEF RxInv, HalfSent
  <1> QED BY <1>1, <1>2, <1>3, <1>4, <1>5 DEF RxInv

LEMMA StillSteps ==
  ASSUME RxInv, RxOpen \/ RsdWaits \/ RxBadMessage \/ RxEof \/ DvCloses \/ UNCHANGED rxVars
  PROVE  RxInv'
  <1>0. rx \in {"new", "settings", "ready", "rsd", "request", "closed", "have"}
    BY DEF RxInv, RxTypes
  <1>1. CASE RxOpen
    BY <1>0, <1>1, NothingMoves DEF RxOpen, rxDevVars
  <1>2. CASE RsdWaits
    BY <1>0, <1>2, NothingMoves DEF RsdWaits, rxDevVars
  <1>3. CASE RxBadMessage
    BY <1>0, <1>3, NothingMoves DEF RxBadMessage, rxDevVars
  <1>4. CASE RxEof
    BY <1>0, <1>4, NothingMoves DEF RxEof, rxDevVars
  <1>5. CASE DvCloses
    BY <1>0, <1>5, NothingMoves DEF DvCloses, clientUnch
  <1>6. CASE UNCHANGED rxVars
    BY <1>0, <1>6, NothingMoves DEF rxVars
  <1> QED BY <1>1, <1>2, <1>3, <1>4, <1>5, <1>6

-----------------------------------------------------------------------------
(* The client reads a frame.                                               *)

\* A frame that carries no data leaves the messages alone.
LEMMA FrameSkipped ==
  ASSUME RxTypes, rxIn # <<>>, rxIn[1].type # "data", rxIn' = Tail(rxIn),
         UNCHANGED <<rxBuf, rxNext, rxReq, rxGot, dv, dvQueue, dvPart, mixed>>,
         rx' = rx \/ (rx' = "closed" /\ rx = "request") \/ (rx' \in {"ready", "closed"} /\ rx \notin {"request", "closed"}),
         PartsInv, RepliesInv, ~mixed
  PROVE  PartsInv' /\ RepliesInv'
  <1>1. /\ Len(rxIn) \in Nat /\ Len(rxIn) > 0 /\ Len(rxIn') = Len(rxIn) - 1
        /\ DOMAIN rxIn = 1..Len(rxIn) /\ DOMAIN rxIn' = 1..Len(rxIn) - 1
        /\ \A i \in 1..Len(rxIn) - 1 : rxIn'[i] = rxIn[i + 1]
    BY TailOf DEF RxTypes
  <1>2. \A i \in DOMAIN rxIn' : i + 1 \in DOMAIN rxIn /\ rxIn'[i] = rxIn[i + 1] /\ (Data(i)' <=> Data(i + 1))
    BY <1>1 DEF Data
  <1>3. ~Data(1)
    BY DEF Data
  <1>4. FirstOK'
    <2> SUFFICES ASSUME NEW j \in DOMAIN rxIn', Data(j)', \A i \in 1..j - 1 : ~Data(i)'
                 PROVE  IF rxBuf = <<>> THEN rxIn[j + 1].part.part = 1 ELSE Follows(rxBuf[Len(rxBuf)], rxIn[j + 1].part)
      BY <1>2 DEF FirstOK, Follows, Final
    <2>1. j \in Nat /\ j > 0 /\ j + 1 \in DOMAIN rxIn /\ Data(j + 1)
      BY <1>1, <1>2
    <2>2. ASSUME NEW i \in 1..(j + 1) - 1 PROVE ~Data(i)
      <3>1. CASE i = 1
        BY <3>1, <1>3
      <3>2. CASE i # 1
        <4>1. i - 1 \in 1..j - 1 /\ i - 1 \in DOMAIN rxIn'
          BY <3>2, <2>1, <1>1
        <4>2. (i - 1) + 1 = i
          BY <3>2
        <4> QED BY <4>1, <4>2, <1>2
      <3> QED BY <3>1, <3>2
    <2> QED BY <2>1, <2>2 DEF PartsInv, FirstOK
  <1>5. NextOK'
    <2> SUFFICES ASSUME NEW i \in DOMAIN rxIn', NEW j \in DOMAIN rxIn', i < j, Data(i)', Data(j)',
                        \A k \in i + 1..j - 1 : ~Data(k)'
                 PROVE  Follows(rxIn[i + 1].part, rxIn[j + 1].part)
      BY <1>2 DEF NextOK, Follows, Final
    <2>1. i \in Nat /\ j \in Nat /\ i + 1 \in DOMAIN rxIn /\ j + 1 \in DOMAIN rxIn /\ Data(i + 1) /\ Data(j + 1)
      BY <1>1, <1>2
    <2>2. ASSUME NEW k \in (i + 1) + 1..(j + 1) - 1 PROVE ~Data(k)
      <3>1. k - 1 \in i + 1..j - 1 /\ k - 1 \in DOMAIN rxIn' /\ (k - 1) + 1 = k
        BY <2>1, <1>1
      <3> QED BY <3>1, <1>2
    <2>3. i + 1 < j + 1
      BY <2>1
    <2> QED BY <2>1, <2>2, <2>3 DEF PartsInv, NextOK
  <1>6. Carried("data")' <=> Carried("data")
    <2>1. ASSUME NEW i \in DOMAIN rxIn, rxIn[i].type = "data" PROVE Carried("data")'
      <3>1. i # 1
        BY <2>1
      <3>2. i - 1 \in DOMAIN rxIn' /\ (i - 1) + 1 = i
        BY <3>1, <1>1
      <3> QED BY <3>2, <1>2, <2>1 DEF Carried
    <2> QED BY <2>1, <1>2 DEF Carried
  <1>7. LastOK'
    <2>1. ASSUME NEW i \in DOMAIN rxIn', Data(i)', \A k \in i + 1..Len(rxIn') : ~Data(k)'
          PROVE  Rest(rxIn[i + 1].part)
      <3>1. i \in Nat /\ i + 1 \in DOMAIN rxIn /\ Data(i + 1)
        BY <2>1, <1>1, <1>2
      <3>2. ASSUME NEW k \in (i + 1) + 1..Len(rxIn) PROVE ~Data(k)
        <4>1. k - 1 \in i + 1..Len(rxIn') /\ k - 1 \in DOMAIN rxIn' /\ (k - 1) + 1 = k
          BY <3>1, <1>1
        <4> QED BY <4>1, <1>2, <2>1
      <3> QED BY <3>1, <3>2 DEF PartsInv, LastOK
    <2>2. ~Carried("data") => IF rxBuf = <<>> THEN \A s \in Streams : dvPart[s] = 0 ELSE Rest(rxBuf[Len(rxBuf)])
      BY DEF PartsInv, LastOK
    <2> QED BY <2>1, <2>2, <1>2, <1>6 DEF LastOK, Rest, Final
  <1>8. PartsInv'
    BY <1>4, <1>5, <1>6, <1>7 DEF PartsInv, BufferOK, NoneYet
  <1>9. IdsOK'
    BY <1>1, <1>2 DEF RepliesInv, IdsOK, IdOK
  <1>10. OneReply'
    <2>1. ASSUME NEW i \in DOMAIN rxIn', NEW j \in DOMAIN rxIn', i < j, LastOfReply(rxIn'[i].part)
          PROVE  ~rxIn'[j].part.msg.reply
      <3>1. i + 1 < j + 1
        BY <2>1, <1>1
      <3> QED BY <2>1, <3>1, <1>2 DEF RepliesInv, OneReply
    <2> QED BY <2>1, <1>2 DEF RepliesInv, OneReply, LastOfReply, Final
  <1> QED BY <1>8, <1>9, <1>10 DEF RepliesInv, ReplyIsOwn

\* What is left to acknowledge after a frame was read.
LEMMA AcksAfterRead ==
  ASSUME RxTypes, AcksDue, rxIn # <<>>, rxIn' = Tail(rxIn), dv' = dv, rx # "new", rx' \notin {"new", "settings"},
         rxAcks' = IF rxIn[1].type = "settings" THEN [rxAcks EXCEPT !.settings = @ + 1]
                   ELSE IF rxIn[1].type = "ping" THEN [rxAcks EXCEPT !.ping = @ + 1] ELSE rxAcks
  PROVE  AcksDue' /\ rxAcks' \in [settings: 0..1, ping: 0..1]
  <1>1. /\ Len(rxIn) \in Nat /\ Len(rxIn) > 0 /\ Len(rxIn') = Len(rxIn) - 1
        /\ DOMAIN rxIn = 1..Len(rxIn) /\ DOMAIN rxIn' = 1..Len(rxIn) - 1
        /\ \A i \in 1..Len(rxIn) - 1 : rxIn'[i] = rxIn[i + 1]
    BY TailOf DEF RxTypes
  <1>2. \A i \in DOMAIN rxIn' : i + 1 \in DOMAIN rxIn /\ rxIn'[i] = rxIn[i + 1]
    BY <1>1
  <1>3. ASSUME NEW type PROVE /\ Carried(type)' => Carried(type)
                              /\ Once(type) => Once(type)' /\ (rxIn[1].type = type => ~Carried(type)')
                              /\ rxIn[1].type # type => (Carried(type)' <=> Carried(type))
                              /\ rxIn[1].type = type => Carried(type)
    <2>1. Carried(type)' => Carried(type)
      BY <1>2 DEF Carried
    <2>2. ASSUME Once(type) PROVE Once(type)'
      <3> SUFFICES ASSUME NEW i \in DOMAIN rxIn', NEW j \in DOMAIN rxIn', rxIn'[i].type = type, rxIn'[j].type = type
                   PROVE  i = j
        BY DEF Once
      <3>1. i + 1 = j + 1
        BY <2>2, <1>2 DEF Once
      <3> QED BY <3>1, <1>1
    <2>3. ASSUME Once(type), rxIn[1].type = type, Carried(type)' PROVE FALSE
      <3>1. PICK i \in DOMAIN rxIn' : rxIn'[i].type = type
        BY <2>3 DEF Carried
      <3>2. i + 1 = 1
        BY <3>1, <2>3, <1>1, <1>2 DEF Once
      <3> QED BY <3>2, <1>1
    <2>4. ASSUME rxIn[1].type # type, Carried(type) PROVE Carried(type)'
      <3>1. PICK i \in DOMAIN rxIn : rxIn[i].type = type
        BY <2>4 DEF Carried
      <3>2. i # 1
        BY <3>1, <2>4
      <3>3. i - 1 \in DOMAIN rxIn' /\ (i - 1) + 1 = i
        BY <3>2, <1>1
      <3> QED BY <3>1, <3>3, <1>2 DEF Carried
    <2>5. rxIn[1].type = type => Carried(type)
      BY <1>1 DEF Carried
    <2> QED BY <2>1, <2>2, <2>3, <2>4, <2>5
  <1>4. Begun
    BY DEF AcksDue
  <1>5. rxAcks' \in [settings: 0..1, ping: 0..1]
    BY <1>3, SMTT(20) DEF RxTypes, AcksDue
  <1> QED BY <1>1, <1>3, <1>4, <1>5, SMTT(30) DEF RxTypes, AcksDue, Begun

LEMMA HandshakeStep ==
  ASSUME RxInv, RxHandshake
  PROVE  RxInv'
  <1> USE DEF Reads, Frame, Acks
  <1>1. /\ rx = "settings" /\ rxIn # <<>> /\ rxIn' = Tail(rxIn) /\ Head(rxIn) = rxIn[1] /\ Tail(rxIn) \in Seq(RxFrames)
        /\ UNCHANGED <<rxUse, rxBuf, rxNext, rxReq, rxGot, dv, dvQueue, dvPart, mixed>>
    BY TailOf DEF RxHandshake, RxInv, RxTypes, rxDevVars
  <1>2. rxIn[1].type \in {"settings", "ack"}
    BY <1>1 DEF RxInv, AcksDue
  <1>3. /\ rx' = "ready"
        /\ rxAcks' = IF rxIn[1].type = "settings" THEN [rxAcks EXCEPT !.settings = @ + 1] ELSE rxAcks
    BY <1>1, <1>2 DEF RxHandshake
  <1>4. AcksDue' /\ rxAcks' \in [settings: 0..1, ping: 0..1]
    BY <1>1, <1>2, <1>3, AcksAfterRead DEF RxInv
  <1>5. RxTypes'
    BY <1>1, <1>3, <1>4 DEF RxInv, RxTypes
  <1>6. ~mixed => PartsInv' /\ RepliesInv'
    BY <1>1, <1>2, <1>3, FrameSkipped DEF RxInv
  <1> QED BY <1>1, <1>4, <1>5, <1>6 DEF RxInv, HalfSent

LEMMA OneOfTwo == \A n \in Nat, k \in 1..2 : n > 0 /\ n < k => k = 2 /\ n = 1
  OBVIOUS

LEMMA BufferGrows ==
  ASSUME NEW b \in Seq(RxPart), NEW p \in RxPart,
         b # <<>> => b[1].part = 1 /\ Len(b) < b[1].msg.parts,
         IF b = <<>> THEN p.part = 1 ELSE Follows(b[Len(b)], p)
  PROVE  LET a == Append(b, p)
         IN /\ Len(a) <= 2 /\ a[1].part = 1 /\ Len(a) <= a[1].msg.parts
            /\ Len(a) = 2 => a[2] = [msg |-> a[1].msg, part |-> 2]
  <1>1. p.msg.parts \in 1..2 /\ p.part \in 1..2
    BY DEF RxPart, RxMsg
  <1>2. CASE b = <<>>
    BY <1>1, <1>2
  <1>3. CASE b # <<>>
    <2>1. b[1] \in RxPart /\ Len(b) \in Nat /\ Len(b) > 0
      BY <1>3
    <2>6. b[1].msg.parts \in 1..2
      BY <2>1 DEF RxPart, RxMsg
    <2>7. Len(b) < b[1].msg.parts
      BY <1>3
    <2>2. b[1].msg.parts = 2 /\ Len(b) = 1
      BY <2>1, <2>6, <2>7, OneOfTwo, Zenon
    <2>3. Follows(b[1], p) /\ ~Final(b[1])
      BY <1>3, <2>2 DEF Final
    <2>4. p = [msg |-> b[1].msg, part |-> 2]
      BY <1>3, <2>3 DEF Follows
    <2>8. /\ Len(Append(b, p)) = Len(b) + 1 /\ Append(b, p)[Len(b) + 1] = p
          /\ \A i \in 1..Len(b) : Append(b, p)[i] = b[i]
      BY AppendTo
    <2>9. 1 + 1 = 2 /\ 1 \in 1..1
      OBVIOUS
    <2>5. Len(Append(b, p)) = 2 /\ Append(b, p)[1] = b[1] /\ Append(b, p)[2] = p
      BY <2>2, <2>8, <2>9, Zenon
    <2> QED BY <2>2, <2>4, <2>5, <1>3
  <1> QED BY <1>2, <1>3

\* A data frame goes to the end of the buffer.
LEMMA DataRead ==
  ASSUME RxTypes, rxIn # <<>>, rxIn[1].type = "data", rxIn' = Tail(rxIn), rxBuf' = Append(rxBuf, rxIn[1].part),
         Receiving, ~Complete, UNCHANGED <<rx, rxNext, rxReq, rxGot, dv, dvQueue, dvPart, mixed>>,
         PartsInv, RepliesInv, ~mixed
  PROVE  PartsInv' /\ RepliesInv'
  <1>1. /\ Len(rxIn) \in Nat /\ Len(rxIn) > 0 /\ Len(rxIn') = Len(rxIn) - 1
        /\ DOMAIN rxIn = 1..Len(rxIn) /\ DOMAIN rxIn' = 1..Len(rxIn) - 1
        /\ \A i \in 1..Len(rxIn) - 1 : rxIn'[i] = rxIn[i + 1]
        /\ rxIn[1] \in RxFrames
    BY TailOf DEF RxTypes
  <1>2. \A i \in DOMAIN rxIn' : i + 1 \in DOMAIN rxIn /\ rxIn'[i] = rxIn[i + 1] /\ (Data(i)' <=> Data(i + 1))
    BY <1>1 DEF Data
  <1> DEFINE p == rxIn[1].part
  <1>3. Data(1) /\ p \in RxPart
    BY <1>1 DEF Data, RxFrames
  <1>4. /\ Len(rxBuf) \in Nat /\ Len(rxBuf') = Len(rxBuf) + 1 /\ rxBuf'[Len(rxBuf')] = p /\ rxBuf' # <<>>
        /\ DOMAIN rxBuf = 1..Len(rxBuf) /\ DOMAIN rxBuf' = 1..Len(rxBuf) + 1
        /\ \A i \in 1..Len(rxBuf) : rxBuf'[i] = rxBuf[i]
    <2>1. rxBuf \in Seq(RxPart) /\ rxBuf' = Append(rxBuf, p)
      BY DEF RxTypes
    <2> HIDE DEF p
    <2> QED BY <2>1, <1>3, AppendTo
  <1>5. IF rxBuf = <<>> THEN p.part = 1 ELSE Follows(rxBuf[Len(rxBuf)], p)
    <2>1. \A i \in 1..1 - 1 : ~Data(i)
      OBVIOUS
    <2> QED BY <2>1, <1>1, <1>3 DEF PartsInv, FirstOK
  <1>6. rxBuf # <<>> => rxBuf[1].part = 1 /\ Len(rxBuf) < rxBuf[1].msg.parts
    <2>1. rxBuf # <<>> => Head(rxBuf) = rxBuf[1] /\ rxBuf[1] \in RxPart
      BY DEF RxTypes
    <2> QED BY <2>1, <1>4 DEF PartsInv, BufferOK, Complete, RxPart, RxMsg
  <1>7. BufferOK'
    <2>1. rxBuf \in Seq(RxPart)
      BY DEF RxTypes
    <2> HIDE DEF p
    <2>2. LET a == Append(rxBuf, p)
          IN /\ Len(a) <= 2 /\ a[1].part = 1 /\ Len(a) <= a[1].msg.parts
             /\ Len(a) = 2 => a[2] = [msg |-> a[1].msg, part |-> 2]
      BY <2>1, <1>3, <1>5, <1>6, BufferGrows
    <2> QED BY <2>2, Zenon DEF BufferOK, p
  <1>8. FirstOK'
    <2> SUFFICES ASSUME NEW j \in DOMAIN rxIn', Data(j)', \A i \in 1..j - 1 : ~Data(i)'
                 PROVE  Follows(p, rxIn[j + 1].part)
      BY <1>2, <1>4 DEF FirstOK, Follows, Final
    <2>1. j \in Nat /\ j + 1 \in DOMAIN rxIn /\ Data(j + 1) /\ 1 < j + 1 /\ 1 \in DOMAIN rxIn
      BY <1>1, <1>2
    <2>2. ASSUME NEW k \in 1 + 1..(j + 1) - 1 PROVE ~Data(k)
      <3>1. k - 1 \in 1..j - 1 /\ k - 1 \in DOMAIN rxIn' /\ (k - 1) + 1 = k
        BY <2>1, <1>1
      <3> QED BY <3>1, <1>2
    <2> QED BY <2>1, <2>2, <1>3 DEF PartsInv, NextOK
  <1>9. NextOK'
    <2> SUFFICES ASSUME NEW i \in DOMAIN rxIn', NEW j \in DOMAIN rxIn', i < j, Data(i)', Data(j)',
                        \A k \in i + 1..j - 1 : ~Data(k)'
                 PROVE  Follows(rxIn[i + 1].part, rxIn[j + 1].part)
      BY <1>2 DEF NextOK, Follows, Final
    <2>1. i \in Nat /\ j \in Nat /\ i + 1 \in DOMAIN rxIn /\ j + 1 \in DOMAIN rxIn /\ Data(i + 1) /\ Data(j + 1)
      BY <1>1, <1>2
    <2>2. ASSUME NEW k \in (i + 1) + 1..(j + 1) - 1 PROVE ~Data(k)
      <3>1. k - 1 \in i + 1..j - 1 /\ k - 1 \in DOMAIN rxIn' /\ (k - 1) + 1 = k
        BY <2>1, <1>1
      <3> QED BY <3>1, <1>2
    <2>3. i + 1 < j + 1
      BY <2>1
    <2> QED BY <2>1, <2>2, <2>3 DEF PartsInv, NextOK
  <1>10. LastOK'
    <2>1. ASSUME NEW i \in DOMAIN rxIn', Data(i)', \A k \in i + 1..Len(rxIn') : ~Data(k)'
          PROVE  Rest(rxIn[i + 1].part)
      <3>1. i \in Nat /\ i + 1 \in DOMAIN rxIn /\ Data(i + 1)
        BY <2>1, <1>1, <1>2
      <3>2. ASSUME NEW k \in (i + 1) + 1..Len(rxIn) PROVE ~Data(k)
        <4>1. k - 1 \in i + 1..Len(rxIn') /\ k - 1 \in DOMAIN rxIn' /\ (k - 1) + 1 = k
          BY <3>1, <1>1
        <4> QED BY <4>1, <1>2, <2>1
      <3> QED BY <3>1, <3>2 DEF PartsInv, LastOK
    <2>2. ASSUME ~Carried("data")' PROVE Rest(p)
      <3>1. ASSUME NEW k \in 1 + 1..Len(rxIn) PROVE ~Data(k)
        <4>1. k - 1 \in DOMAIN rxIn' /\ (k - 1) + 1 = k
          BY <1>1
        <4> QED BY <4>1, <1>2, <2>2 DEF Carried, Data
      <3>2. 1 \in DOMAIN rxIn
        BY <1>1
      <3> QED BY <3>1, <3>2, <1>3 DEF PartsInv, LastOK
    <2> QED BY <2>1, <2>2, <1>2, <1>4 DEF LastOK, Rest, Final
  <1>11. NoneYet'
    BY <1>1 DEF PartsInv, NoneYet, Carried
  <1>12. IdsOK'
    <2>1. 1 \in DOMAIN rxIn
      BY <1>1
    <2>2. \A i \in DOMAIN rxBuf' : IdOK(rxBuf'[i].msg)
      BY <2>1, <1>4 DEF RepliesInv, IdsOK
    <2> QED BY <2>2, <1>2 DEF RepliesInv, IdsOK, IdOK
  <1>13. OneReply'
    <2>0. 1 \in DOMAIN rxIn /\ DOMAIN rxIn \subseteq Nat
      BY <1>1
    <2>1. ASSUME NEW i \in DOMAIN rxIn', NEW j \in DOMAIN rxIn', i < j, LastOfReply(rxIn'[i].part)
          PROVE  ~rxIn'[j].part.msg.reply
      <3>1. i + 1 < j + 1
        BY <2>1, <1>1
      <3> QED BY <2>1, <3>1, <1>2 DEF RepliesInv, OneReply
    <2>2. ASSUME NEW i \in DOMAIN rxBuf', LastOfReply(rxBuf'[i])
          PROVE  \A j \in DOMAIN rxIn' : ~rxIn'[j].part.msg.reply
      <3> SUFFICES ASSUME NEW j \in DOMAIN rxIn' PROVE ~rxIn[j + 1].part.msg.reply
        BY <1>2
      <3>1. CASE i = Len(rxBuf')
        <4>1. 1 < j + 1 /\ LastOfReply(rxIn[1].part)
          BY <3>1, <2>2, <1>1, <1>4
        <4> QED BY <4>1, <2>0, <1>2 DEF RepliesInv, OneReply
      <3>2. CASE i # Len(rxBuf')
        <4>1. i \in DOMAIN rxBuf /\ LastOfReply(rxBuf[i])
          BY <3>2, <2>2, <1>4
        <4> QED BY <4>1, <1>2 DEF RepliesInv, OneReply
      <3> QED BY <3>1, <3>2
    <2>3. ASSUME \/ \E i \in DOMAIN rxBuf' : LastOfReply(rxBuf'[i])
                 \/ \E i \in DOMAIN rxIn' : LastOfReply(rxIn'[i].part)
          PROVE  \A s \in Streams : \A i \in DOMAIN dvQueue[s] : ~dvQueue[s][i].reply
      <3>1. CASE \E i \in DOMAIN rxIn' : LastOfReply(rxIn'[i].part)
        BY <3>1, <1>2 DEF RepliesInv, OneReply
      <3>2. CASE \E i \in DOMAIN rxBuf' : LastOfReply(rxBuf'[i])
        <4>1. PICK i \in DOMAIN rxBuf' : LastOfReply(rxBuf'[i])
          BY <3>2
        <4>2. i = Len(rxBuf') => LastOfReply(rxIn[1].part)
          BY <4>1, <1>4
        <4>3. i # Len(rxBuf') => i \in DOMAIN rxBuf /\ LastOfReply(rxBuf[i])
          BY <4>1, <1>4
        <4> QED BY <4>2, <4>3, <2>0 DEF RepliesInv, OneReply
      <3> QED BY <2>3, <3>1, <3>2
    <2>4. \A s, t \in Streams : \A i \in DOMAIN dvQueue[s], j \in DOMAIN dvQueue[t] :
            dvQueue[s][i].reply /\ dvQueue[t][j].reply => s = t /\ i = j
      BY DEF RepliesInv, OneReply
    <2> QED BY <2>1, <2>2, <2>3, <2>4 DEF OneReply, LastOfReply, Final
  <1> QED BY <1>7, <1>8, <1>9, <1>10, <1>11, <1>12, <1>13 DEF PartsInv, RepliesInv, ReplyIsOwn

LEMMA FrameStep ==
  ASSUME RxInv, RxFrame
  PROVE  RxInv'
  <1> USE DEF Reads, Frame, Acks
  <1>1. /\ rx \in {"rsd", "request"} /\ rxIn # <<>> /\ rxIn' = Tail(rxIn) /\ Head(rxIn) = rxIn[1]
        /\ rxIn[1] \in RxFrames /\ rxIn' \in Seq(RxFrames)
        /\ UNCHANGED <<rxUse, rxNext, rxReq, rxGot, dv, dvQueue, dvPart, mixed>>
    BY TailOf DEF RxFrame, Receiving, RxInv, RxTypes, rxDevVars
  <1>2. /\ rx' = rx \/ (rx' = "closed" /\ rxIn[1].type = "goaway")
        /\ rxAcks' = IF rxIn[1].type = "settings" THEN [rxAcks EXCEPT !.settings = @ + 1]
                     ELSE IF rxIn[1].type = "ping" THEN [rxAcks EXCEPT !.ping = @ + 1] ELSE rxAcks
    BY <1>1 DEF RxFrame
  <1>3. AcksDue' /\ rxAcks' \in [settings: 0..1, ping: 0..1]
    BY <1>1, <1>2, AcksAfterRead DEF RxInv
  <1>4. CASE rxIn[1].type = "data"
    <2>1. rxBuf' = Append(rxBuf, rxIn[1].part) /\ rx' = rx
      BY <1>1, <1>4 DEF RxFrame
    <2>2. rxBuf' \in Seq(RxPart)
      BY <2>1, <1>1, AppendTo DEF RxInv, RxTypes, RxFrames
    <2>3. RxTypes'
      BY <2>1, <2>2, <1>1, <1>3 DEF RxInv, RxTypes
    <2>4. ~mixed => PartsInv' /\ RepliesInv'
      <3>1. Receiving /\ ~Complete
        BY DEF RxFrame
      <3>2. RxTypes /\ (~mixed => PartsInv /\ RepliesInv)
        BY DEF RxInv
      <3>3. UNCHANGED <<rx, rxNext, rxReq, rxGot, dv, dvQueue, dvPart, mixed>>
        BY <1>1, <2>1
      <3>4. rxIn # <<>> /\ rxIn' = Tail(rxIn)
        BY <1>1
      <3>5. CASE mixed
        BY <3>5
      <3>6. CASE ~mixed
        BY <3>1, <3>2, <3>3, <3>4, <3>6, <2>1, <1>4, DataRead
      <3> QED BY <3>5, <3>6
    <2> QED BY <2>3, <2>4, <1>1, <1>3 DEF RxInv, HalfSent
  <1>5. CASE rxIn[1].type # "data"
    <2>1. rxBuf' = rxBuf
      BY <1>1, <1>5 DEF RxFrame
    <2>3. RxTypes'
      BY <2>1, <1>1, <1>2, <1>3 DEF RxInv, RxTypes
    <2>4. ~mixed => PartsInv' /\ RepliesInv'
      <3>1. rx' = rx \/ (rx' = "closed" /\ rx = "request") \/ (rx' \in {"ready", "closed"} /\ rx \notin {"request", "closed"})
        BY <1>1, <1>2
      <3>2. RxTypes /\ (~mixed => PartsInv /\ RepliesInv)
        BY DEF RxInv
      <3>3. UNCHANGED <<rxBuf, rxNext, rxReq, rxGot, dv, dvQueue, dvPart, mixed>>
        BY <1>1, <2>1
      <3>4. rxIn # <<>> /\ rxIn' = Tail(rxIn)
        BY <1>1
      <3> QED BY <3>1, <3>2, <3>3, <3>4, <1>5, FrameSkipped
    <2> QED BY <2>3, <2>4, <1>1, <1>3 DEF RxInv, HalfSent
  <1> QED BY <1>4, <1>5

-----------------------------------------------------------------------------
(* A message is taken from the buffer.                                     *)

\* As long as nothing was mixed it leaves the buffer empty, and its last part
\* was the last in the buffer.
LEMMA Drains ==
  ASSUME RxTypes, Complete, Drained
  PROVE  /\ rxBuf' \in Seq(RxPart) /\ rxBuf # <<>> /\ 1 \in DOMAIN rxBuf /\ Len(rxBuf) \in DOMAIN rxBuf
         /\ Received = rxBuf[1].msg
         /\ BufferOK => rxBuf' = <<>> /\ rxBuf[Len(rxBuf)].msg = Received /\ Final(rxBuf[Len(rxBuf)])
  <1> DEFINE n == Len(rxBuf)
             k == Received.parts
  <1>1. /\ rxBuf \in Seq(RxPart) /\ rxBuf # <<>> /\ n \in Nat /\ n > 0 /\ DOMAIN rxBuf = 1..n
        /\ Head(rxBuf) = rxBuf[1] /\ rxBuf[1] \in RxPart
    BY DEF RxTypes, Complete
  <1>2. Received = rxBuf[1].msg /\ k \in 1..2 /\ n >= k
    BY <1>1 DEF Complete, Received, RxPart, RxMsg
  <1>3. rxBuf' = SubSeq(rxBuf, k + 1, n)
    BY DEF Drained
  <1>4. rxBuf' \in Seq(RxPart)
    <2> HIDE DEF n, k
    <2>1. \A i \in k + 1..n : rxBuf[i] \in RxPart
      BY <1>1, <1>2 DEF n
    <2> QED BY <2>1, <1>1, <1>2, <1>3
  <1>5. ASSUME BufferOK
        PROVE  rxBuf' = <<>> /\ rxBuf[n].msg = Received /\ Final(rxBuf[n])
    <2>1. n = k
      BY <1>1, <1>2, <1>5 DEF BufferOK
    <2>2. rxBuf' = <<>>
      <3>1. SubSeq(rxBuf, k + 1, k) = <<>>
        <4> HIDE DEF k
        <4> QED BY <1>1, <1>2
      <3> QED BY <3>1, <2>1, <1>3
    <2>3. rxBuf[n].msg = Received /\ rxBuf[n].part = k
      <3>1. CASE k = 1
        BY <3>1, <2>1, <1>1, <1>2, <1>5 DEF BufferOK
      <3>2. CASE k = 2
        BY <3>2, <2>1, <1>1, <1>2, <1>5 DEF BufferOK
      <3> QED BY <3>1, <3>2, <1>2
    <2> QED BY <2>2, <2>3 DEF Final
  <1> QED BY <1>1, <1>2, <1>4, <1>5

LEMMA MessageTaken ==
  ASSUME RxInv, Complete, Drained, UNCHANGED <<rxNext, rxReq, rxIn, rxAcks, dv, dvQueue, dvPart, mixed>>,
         rx \in {"rsd", "request"}, rx' \in {rx, "closed", "have", "ready"},
         rx' \in {"have", "ready"} /\ rx = "request" => rx' = "ready" /\ Matches(Received),
         rxGot' = rxGot \/ (rx = "request" /\ Matches(Received) /\ rxGot' = rxGot \cup {[req |-> rxReq, msg |-> Received]})
  PROVE  RxInv'
  <1>1. /\ rxBuf' \in Seq(RxPart) /\ rxBuf # <<>> /\ 1 \in DOMAIN rxBuf /\ Len(rxBuf) \in DOMAIN rxBuf
        /\ Received = rxBuf[1].msg
        /\ BufferOK => rxBuf' = <<>> /\ rxBuf[Len(rxBuf)].msg = Received /\ Final(rxBuf[Len(rxBuf)])
    BY Drains DEF RxInv
  <1>2. RxTypes'
    BY <1>1 DEF RxInv, RxTypes
  <1>3. HalfSent' /\ AcksDue'
    BY DEF RxInv, HalfSent, AcksDue, Begun, Once, Carried
  <1>4. ASSUME ~mixed PROVE PartsInv' /\ RepliesInv'
    <2> DEFINE p == rxBuf[Len(rxBuf)]
    <2>1. /\ BufferOK /\ FirstOK /\ NextOK /\ LastOK /\ NoneYet /\ IdsOK /\ OneReply /\ ReplyIsOwn
      BY <1>4 DEF RxInv, PartsInv, RepliesInv
    <2>2. rxBuf' = <<>> /\ p.msg = Received /\ Final(p)
      BY <1>1, <2>1
    <2>3. BufferOK' /\ NoneYet'
      BY <2>1, <2>2 DEF BufferOK, NoneYet, Carried
    <2>4. FirstOK'
      BY <2>1, <2>2, <1>1 DEF FirstOK, Follows, Data
    <2>5. NextOK'
      BY <2>1 DEF NextOK, Follows, Final, Data
    <2>6. LastOK'
      <3>1. ~Carried("data") => \A s \in Streams : dvPart[s] = 0
        BY <2>1, <2>2, <1>1 DEF LastOK, Rest
      <3>2. \A i \in DOMAIN rxIn : Data(i) /\ (\A k \in i + 1..Len(rxIn) : ~Data(k)) => Rest(rxIn[i].part)
        BY <2>1 DEF LastOK
      <3> QED BY <2>2, <3>1, <3>2 DEF LastOK, Rest, Final, Data, Carried
    <2>7. ASSUME rx = "request", Matches(Received) PROVE Received.reply /\ Received.id = rxReq
      BY <2>1, <2>7, <1>1 DEF IdsOK, IdOK, Matches
    <2>8. ASSUME rx = "request", Matches(Received)
          PROVE  /\ \A j \in DOMAIN rxIn : ~rxIn[j].part.msg.reply
                 /\ \A s \in Streams : \A i \in DOMAIN dvQueue[s] : ~dvQueue[s][i].reply
      <3>1. LastOfReply(p)
        BY <2>2, <2>7, <2>8 DEF LastOfReply
      <3> QED BY <3>1, <2>1, <1>1 DEF OneReply
    <2>9. IdsOK'
      <3>1. CASE rx = "request" /\ rx' = "ready"
        BY <3>1, <2>1, <2>2, <2>8 DEF IdsOK, IdOK
      <3>2. CASE ~(rx = "request" /\ rx' = "ready")
        BY <3>2, <2>1, <2>2 DEF IdsOK, IdOK
      <3> QED BY <3>1, <3>2
    <2>10. OneReply'
      BY <2>1, <2>2 DEF OneReply, LastOfReply, Final
    <2>11. ReplyIsOwn'
      BY <2>1, <2>7, <1>4 DEF ReplyIsOwn
    <2> QED BY <2>3, <2>4, <2>5, <2>6, <2>9, <2>10, <2>11 DEF PartsInv, RepliesInv
  <1> QED BY <1>2, <1>3, <1>4 DEF RxInv

LEMMA TakingSteps ==
  ASSUME RxInv, RxReply \/ RsdHandshake
  PROVE  RxInv'
  <1>1. CASE RxReply
    BY <1>1, MessageTaken DEF RxReply, rxDevVars
  <1>2. CASE RsdHandshake
    BY <1>2, MessageTaken DEF RsdHandshake, rxDevVars
  <1> QED BY <1>1, <1>2

-----------------------------------------------------------------------------
(* A message is queued at the device.                                      *)

LEMMA Queued ==
  ASSUME RxInv, NEW s \in Streams, NEW msg \in RxMsg, dvQueue' \in [Streams -> Seq(RxMsg)],
         \A t \in Streams : dvQueue[t] # <<>> => dvQueue'[t] # <<>> /\ Head(dvQueue'[t]) = Head(dvQueue[t]),
         \A t \in Streams : \A i \in DOMAIN dvQueue'[t] :
            \/ i \in DOMAIN dvQueue[t] /\ dvQueue'[t][i] = dvQueue[t][i]
            \/ t = s /\ i = Len(dvQueue[s]) + 1 /\ dvQueue'[t][i] = msg,
         UNCHANGED <<rxBuf, rxIn, rxAcks, rxGot, dvPart, mixed>>,
         dv' \in [settings: 0..1, ack: 0..1, ping: 0..1, up: BOOLEAN, events: Nat],
         dv'.settings = dv.settings, dv'.ack = dv.ack, dv'.ping = dv.ping,
         \/ rx' = rx /\ rxNext' = rxNext /\ rxReq' = rxReq /\ ~msg.reply /\ Even(msg.id)
         \/ rx = "ready" /\ rx' = "request" /\ msg.reply /\ msg.id = rxNext /\ rxReq' = rxNext /\ rxNext' = rxNext + 2
  PROVE  RxInv'
  <1>3. \A t \in Streams : dvQueue[t] # <<>> => dvQueue'[t] # <<>> /\ Head(dvQueue'[t]) = Head(dvQueue[t])
    OBVIOUS
  <1>4. \A t \in Streams : \A i \in DOMAIN dvQueue'[t] :
          \/ i \in DOMAIN dvQueue[t] /\ dvQueue'[t][i] = dvQueue[t][i]
          \/ t = s /\ i = Len(dvQueue[s]) + 1 /\ dvQueue'[t][i] = msg
    OBVIOUS
  <1>5. RxTypes'
    <2>1. rxNext' \in Nat /\ ~Even(rxNext') /\ rxReq' \in Nat
      <3>1. rxNext \in Nat /\ ~Even(rxNext) /\ rxReq \in Nat
        BY DEF RxInv, RxTypes
      <3>2. ~Even(rxNext + 2) /\ rxNext + 2 \in Nat
        BY <3>1, EvenFacts
      <3> QED BY <3>1, <3>2, Zenon
    <2> QED BY <2>1 DEF RxInv, RxTypes
  <1>6. HalfSent' /\ AcksDue'
    BY <1>3 DEF RxInv, RxTypes, HalfSent, AcksDue, Begun, Once, Carried
  <1>7. ASSUME ~mixed PROVE PartsInv' /\ RepliesInv'
    <2>1. PartsInv /\ IdsOK /\ OneReply /\ ReplyIsOwn
      BY <1>7 DEF RxInv, RepliesInv
    <2>2. ASSUME NEW p, Rest(p) PROVE Rest(p)'
      BY <2>2, <1>3 DEF Rest, Final
    <2>3. LastOK'
      <3>1. ASSUME NEW i \in DOMAIN rxIn, Data(i), \A k \in i + 1..Len(rxIn) : ~Data(k) PROVE Rest(rxIn[i].part)'
        BY <2>1, <2>2, <3>1 DEF PartsInv, LastOK
      <3>2. ASSUME ~Carried("data"), rxBuf # <<>> PROVE Rest(rxBuf[Len(rxBuf)])'
        BY <2>1, <2>2, <3>2 DEF PartsInv, LastOK
      <3>3. ~Carried("data") /\ rxBuf = <<>> => \A t \in Streams : dvPart[t] = 0
        BY <2>1 DEF PartsInv, LastOK
      <3> QED BY <3>1, <3>2, <3>3 DEF LastOK, Data, Carried
    <2>4. PartsInv'
      BY <2>1, <2>3 DEF PartsInv, BufferOK, FirstOK, NextOK, NoneYet, Data, Carried, Follows, Final
    <2>5. ASSUME rx = "ready"
          PROVE  /\ \A i \in DOMAIN rxBuf : ~rxBuf[i].msg.reply
                 /\ \A i \in DOMAIN rxIn : ~rxIn[i].part.msg.reply
                 /\ \A t \in Streams : \A i \in DOMAIN dvQueue[t] : ~dvQueue[t][i].reply
      BY <2>1, <2>5 DEF IdsOK, IdOK
    <2>6. IdsOK'
      <3>1. CASE rx' = rx /\ rxNext' = rxNext /\ rxReq' = rxReq /\ ~msg.reply /\ Even(msg.id)
        <4>1. \A t \in Streams : \A i \in DOMAIN dvQueue'[t] : IdOK(dvQueue'[t][i])
          BY <3>1, <2>1, <1>4 DEF IdsOK, IdOK
        <4> QED BY <4>1, <3>1, <2>1 DEF IdsOK, IdOK
      <3>2. CASE rx = "ready" /\ rx' = "request" /\ msg.reply /\ msg.id = rxNext /\ rxReq' = rxNext
        <4>1. (\A t \in Streams : \A i \in DOMAIN dvQueue[t] : IdOK(dvQueue[t][i]))'
          BY <3>2, <2>1, <2>5, <1>4 DEF IdsOK, IdOK
        <4>2. ~Even(rxNext)
          BY DEF RxInv, RxTypes
        <4> QED BY <4>1, <4>2, <3>2, <2>1, <2>5 DEF IdsOK, IdOK
      <3> QED BY <3>1, <3>2
    <2>7. OneReply'
      <3>1. CASE ~msg.reply
        <4>1. \A t \in Streams : \A i \in DOMAIN dvQueue'[t] :
                dvQueue'[t][i].reply => i \in DOMAIN dvQueue[t] /\ dvQueue[t][i].reply
          BY <3>1, <1>4
        <4>2. ASSUME NEW t \in Streams, NEW u \in Streams, NEW i \in DOMAIN dvQueue'[t], NEW j \in DOMAIN dvQueue'[u],
                     dvQueue'[t][i].reply, dvQueue'[u][j].reply
              PROVE  t = u /\ i = j
          BY <4>1, <4>2, <2>1 DEF OneReply
        <4>3. ASSUME (\E i \in DOMAIN rxBuf : LastOfReply(rxBuf[i])) \/ (\E i \in DOMAIN rxIn : LastOfReply(rxIn[i].part)),
                     NEW t \in Streams, NEW i \in DOMAIN dvQueue'[t]
              PROVE  ~dvQueue'[t][i].reply
          BY <4>1, <4>3, <2>1 DEF OneReply
        <4>4. /\ \A i, j \in DOMAIN rxIn : i < j /\ LastOfReply(rxIn[i].part) => ~rxIn[j].part.msg.reply
              /\ (\E i \in DOMAIN rxBuf : LastOfReply(rxBuf[i])) => \A j \in DOMAIN rxIn : ~rxIn[j].part.msg.reply
          BY <2>1 DEF OneReply
        <4> QED BY <4>2, <4>3, <4>4 DEF OneReply, LastOfReply, Final
      <3>2. CASE rx = "ready"
        <4>1. ASSUME NEW t \in Streams, NEW u \in Streams, NEW i \in DOMAIN dvQueue'[t], NEW j \in DOMAIN dvQueue'[u],
                     dvQueue'[t][i].reply, dvQueue'[u][j].reply
              PROVE  t = u /\ i = j
          BY <3>2, <4>1, <2>5, <1>4
        <4>2. /\ \A i \in DOMAIN rxBuf : ~rxBuf[i].msg.reply
              /\ \A i \in DOMAIN rxIn : ~rxIn[i].part.msg.reply
          BY <3>2, <2>5
        <4> QED BY <4>1, <4>2 DEF OneReply, LastOfReply, Final
      <3> QED BY <3>1, <3>2
    <2> QED BY <2>1, <2>4, <2>6, <2>7 DEF RepliesInv, ReplyIsOwn
  <1> QED BY <1>5, <1>6, <1>7 DEF RxInv

\* The queue of one stream gets longer.
LEMMA QueueGrows ==
  ASSUME RxTypes, NEW s \in Streams, NEW msg \in RxMsg, dvQueue' = [dvQueue EXCEPT ![s] = Append(@, msg)]
  PROVE  /\ dvQueue' \in [Streams -> Seq(RxMsg)]
         /\ \A t \in Streams : dvQueue[t] # <<>> => dvQueue'[t] # <<>> /\ Head(dvQueue'[t]) = Head(dvQueue[t])
         /\ \A t \in Streams : \A i \in DOMAIN dvQueue'[t] :
              \/ i \in DOMAIN dvQueue[t] /\ dvQueue'[t][i] = dvQueue[t][i]
              \/ t = s /\ i = Len(dvQueue[s]) + 1 /\ dvQueue'[t][i] = msg
  <1>1. /\ dvQueue \in [Streams -> Seq(RxMsg)] /\ dvQueue' \in [Streams -> Seq(RxMsg)]
        /\ \A t \in Streams : t # s => dvQueue'[t] = dvQueue[t]
        /\ dvQueue'[s] = Append(dvQueue[s], msg)
    BY AppendTo DEF RxTypes
  <1>2. /\ Len(dvQueue[s]) \in Nat /\ DOMAIN dvQueue[s] = 1..Len(dvQueue[s])
        /\ DOMAIN dvQueue'[s] = 1..Len(dvQueue[s]) + 1
        /\ \A i \in 1..Len(dvQueue[s]) : dvQueue'[s][i] = dvQueue[s][i]
        /\ dvQueue'[s][Len(dvQueue[s]) + 1] = msg /\ dvQueue'[s] # <<>>
        /\ dvQueue[s] # <<>> => Head(dvQueue'[s]) = Head(dvQueue[s])
    BY <1>1, AppendTo
  <1> QED BY <1>1, <1>2

LEMMA SendStep ==
  ASSUME RxInv, RxSend
  PROVE  RxInv'
  <1> DEFINE m == [NoMsg EXCEPT !.id = rxNext, !.reply = TRUE, !.body = "open"]
  <1>0. RxTypes /\ rxNext \in Nat /\ dv \in [settings: 0..1, ack: 0..1, ping: 0..1, up: BOOLEAN, events: Nat]
    BY DEF RxInv, RxTypes
  <1>1. m \in RxMsg /\ m.reply /\ m.id = rxNext
    BY <1>0, NoMsgType DEF RxMsg
  <1>2. /\ rx = "ready" /\ rx' = "request" /\ rxReq' = rxNext /\ rxNext' = rxNext + 2
        /\ UNCHANGED <<rxUse, rxBuf, rxIn, rxAcks, rxGot, dv, dvPart, mixed>>
    BY DEF RxSend
  <1>3. CS \in Streams
    BY DEF Streams
  <1>4. CASE dv.up
    <2>1. dvQueue' = [dvQueue EXCEPT ![CS] = Append(@, m)]
      BY <1>4 DEF RxSend
    <2> HIDE DEF m
    <2>2. /\ dvQueue' \in [Streams -> Seq(RxMsg)]
          /\ \A t \in Streams : dvQueue[t] # <<>> => dvQueue'[t] # <<>> /\ Head(dvQueue'[t]) = Head(dvQueue[t])
          /\ \A t \in Streams : \A i \in DOMAIN dvQueue'[t] :
               \/ i \in DOMAIN dvQueue[t] /\ dvQueue'[t][i] = dvQueue[t][i]
               \/ t = CS /\ i = Len(dvQueue[CS]) + 1 /\ dvQueue'[t][i] = m
      BY <2>1, <1>0, <1>1, <1>3, QueueGrows
    <2> QED BY <2>2, <1>0, <1>1, <1>2, <1>3, Queued
  <1>5. CASE ~dv.up
    <2>1. dvQueue' = dvQueue /\ dvQueue \in [Streams -> Seq(RxMsg)]
      BY <1>0, <1>5 DEF RxSend, RxTypes
    <2> HIDE DEF m
    <2> QED BY <2>1, <1>0, <1>1, <1>2, <1>3, Queued
  <1> QED BY <1>4, <1>5

LEMMA SpeaksStep ==
  ASSUME RxInv, DvSpeaks
  PROVE  RxInv'
  <1>0. RxTypes /\ dv.events \in Nat
    BY DEF RxInv, RxTypes
  <1>1. PICK n \in 1..2, body \in {"event", "handshake"} :
          dvQueue' = [dvQueue EXCEPT ![SC] = Append(@, [id |-> 2 * dv.events + 2, reply |-> FALSE, body |-> body, parts |-> n])]
    BY DEF DvSpeaks
  <1> DEFINE m == [id |-> 2 * dv.events + 2, reply |-> FALSE, body |-> body, parts |-> n]
  <1>2. m \in RxMsg /\ ~m.reply /\ m.id = 2 * dv.events + 2
    BY <1>0 DEF RxMsg
  <1>3. Even(m.id)
    BY <1>0, <1>2, EvenFacts
  <1>4. UNCHANGED <<rx, rxUse, rxBuf, rxNext, rxReq, rxIn, rxAcks, rxGot, dvPart, mixed>>
    BY DEF DvSpeaks, clientUnch
  <1>5. /\ dv' \in [settings: 0..1, ack: 0..1, ping: 0..1, up: BOOLEAN, events: Nat]
        /\ dv'.settings = dv.settings /\ dv'.ack = dv.ack /\ dv'.ping = dv.ping
    <2>1. dv.events + 1 \in Nat /\ dv \in [settings: 0..1, ack: 0..1, ping: 0..1, up: BOOLEAN, events: Nat]
      BY <1>0 DEF RxTypes
    <2> QED BY <2>1 DEF DvSpeaks
  <1>6. SC \in Streams /\ dvQueue' = [dvQueue EXCEPT ![SC] = Append(@, m)]
    BY <1>1 DEF Streams
  <1> HIDE DEF m
  <1>7. /\ dvQueue' \in [Streams -> Seq(RxMsg)]
        /\ \A t \in Streams : dvQueue[t] # <<>> => dvQueue'[t] # <<>> /\ Head(dvQueue'[t]) = Head(dvQueue[t])
        /\ \A t \in Streams : \A i \in DOMAIN dvQueue'[t] :
             \/ i \in DOMAIN dvQueue[t] /\ dvQueue'[t][i] = dvQueue[t][i]
             \/ t = SC /\ i = Len(dvQueue[SC]) + 1 /\ dvQueue'[t][i] = m
    BY <1>0, <1>2, <1>6, QueueGrows
  <1> QED BY <1>2, <1>3, <1>4, <1>5, <1>6, <1>7, Queued

-----------------------------------------------------------------------------
(* The device sends a frame.                                               *)

LEMMA AcksAfterSend ==
  ASSUME RxTypes, AcksDue, NEW f \in RxFrames, rxIn' = Append(rxIn, f), UNCHANGED <<rx, rxAcks>>, rx # "new",
         dv' \in [settings: 0..1, ack: 0..1, ping: 0..1, up: BOOLEAN, events: Nat],
         dv'.settings + dv'.ack > 0, Begun \/ f.type \in {"settings", "ack"},
         dv'.settings = IF f.type = "settings" THEN dv.settings + 1 ELSE dv.settings,
         dv'.ping = IF f.type = "ping" THEN dv.ping + 1 ELSE dv.ping
  PROVE  AcksDue'
  <1>1. /\ Len(rxIn) \in Nat /\ DOMAIN rxIn = 1..Len(rxIn) /\ DOMAIN rxIn' = 1..Len(rxIn) + 1
        /\ \A i \in 1..Len(rxIn) : rxIn'[i] = rxIn[i]
        /\ rxIn'[Len(rxIn) + 1] = f /\ rxIn' # <<>>
    BY AppendTo DEF RxTypes
  <1>2. ASSUME NEW type
        PROVE  /\ Carried(type)' <=> Carried(type) \/ f.type = type
               /\ Once(type) /\ (f.type = type => ~Carried(type)) => Once(type)'
    <2>1. Len(rxIn) + 1 \in DOMAIN rxIn' /\ \A i \in DOMAIN rxIn' : i \in DOMAIN rxIn \/ i = Len(rxIn) + 1
      BY <1>1
    <2> QED BY <1>1, <2>1 DEF Carried, Once
  <1>3. /\ f.type = "settings" => ~Carried("settings") /\ dv.settings = 0
        /\ f.type = "ping" => ~Carried("ping") /\ dv.ping = 0
    <2>1. dv.settings \in 0..1 /\ dv.ping \in 0..1 /\ dv'.settings \in 0..1 /\ dv'.ping \in 0..1
      BY DEF RxTypes
    <2> QED BY <2>1 DEF AcksDue
  <1>4. rx = "settings" => rxIn'[1].type \in {"settings", "ack"}
    <2>1. CASE rxIn = <<>>
      BY <2>1, <1>1 DEF AcksDue
    <2>2. CASE rxIn # <<>>
      <3>1. 1 \in 1..Len(rxIn)
        BY <2>2, <1>1 DEF RxTypes
      <3> QED BY <2>2, <3>1, <1>1 DEF AcksDue
    <2> QED BY <2>1, <2>2
  <1>5. Begun'
    BY DEF Begun
  <1>6. Once("settings")' /\ Once("ping")'
    BY <1>2, <1>3 DEF AcksDue
  <1>7. IF Carried("settings")' THEN rxAcks.settings = 0 /\ dv'.settings = 1 ELSE rxAcks.settings = dv'.settings
    BY <1>2, <1>3 DEF AcksDue
  <1>8. IF Carried("ping")' THEN rxAcks.ping = 0 /\ dv'.ping = 1 ELSE rxAcks.ping = dv'.ping
    BY <1>2, <1>3 DEF AcksDue
  <1> QED BY <1>1, <1>4, <1>5, <1>6, <1>7, <1>8 DEF AcksDue

\* A frame without data, and the init messages that wait behind SETTINGS.
LEMMA ControlSent ==
  ASSUME RxInv, NEW f \in RxFrames, f.type # "data", f.part = [msg |-> NoMsg, part |-> 1], rxIn' = Append(rxIn, f),
         UNCHANGED <<rx, rxBuf, rxNext, rxReq, rxAcks, rxGot, dvPart, mixed>>, AcksDue',
         dv' \in [settings: 0..1, ack: 0..1, ping: 0..1, up: BOOLEAN, events: Nat],
         \/ dvQueue' = dvQueue /\ dv'.settings = dv.settings
         \/ dv.settings = 0 /\ dv'.settings = 1 /\ dvQueue' = [s \in Streams |-> <<NoMsg>> \o dvQueue[s]]
  PROVE  RxInv'
  <1>0. RxTypes
    BY DEF RxInv
  <1>1. /\ Len(rxIn) \in Nat /\ DOMAIN rxIn = 1..Len(rxIn) /\ DOMAIN rxIn' = 1..Len(rxIn) + 1
        /\ \A i \in 1..Len(rxIn) : rxIn'[i] = rxIn[i]
        /\ rxIn'[Len(rxIn) + 1] = f /\ rxIn' # <<>> /\ rxIn' \in Seq(RxFrames) /\ Len(rxIn') = Len(rxIn) + 1
    BY <1>0, AppendTo DEF RxTypes
  <1>2. ASSUME dvQueue' # dvQueue, NEW s \in Streams
        PROVE  /\ dvQueue'[s] \in Seq(RxMsg) /\ DOMAIN dvQueue'[s] = 1..Len(dvQueue[s]) + 1
               /\ DOMAIN dvQueue[s] = 1..Len(dvQueue[s]) /\ Len(dvQueue[s]) \in Nat
               /\ dvQueue'[s][1] = NoMsg /\ \A i \in 1..Len(dvQueue[s]) : dvQueue'[s][i + 1] = dvQueue[s][i]
    <2>1. dvQueue[s] \in Seq(RxMsg) /\ dvQueue'[s] = <<NoMsg>> \o dvQueue[s]
      BY <1>0, <1>2 DEF RxTypes
    <2> QED BY <2>1, NoMsgType
  <1>3. dvQueue' \in [Streams -> Seq(RxMsg)]
    BY <1>0, <1>2 DEF RxTypes
  <1>4. RxTypes'
    BY <1>0, <1>1, <1>3 DEF RxTypes
  <1>5. HalfSent'
    BY <1>0 DEF RxInv, HalfSent
  <1>6. ASSUME ~mixed PROVE PartsInv' /\ RepliesInv'
    <2>1. PartsInv /\ IdsOK /\ OneReply /\ ReplyIsOwn
      BY <1>6 DEF RxInv, RepliesInv
    <2>2. /\ \A i \in DOMAIN rxIn' : Data(i)' <=> i \in DOMAIN rxIn /\ Data(i)
          /\ \A i \in DOMAIN rxIn : i \in DOMAIN rxIn' /\ rxIn'[i] = rxIn[i]
      BY <1>1 DEF Data
    <2>3. Carried("data")' <=> Carried("data")
      BY <1>1 DEF Carried
    <2>4. FirstOK'
      <3> SUFFICES ASSUME NEW j \in DOMAIN rxIn', Data(j)', \A i \in 1..j - 1 : ~Data(i)'
                   PROVE  IF rxBuf = <<>> THEN rxIn'[j].part.part = 1 ELSE Follows(rxBuf[Len(rxBuf)], rxIn'[j].part)
        BY DEF FirstOK, Follows, Final
      <3>1. j \in DOMAIN rxIn /\ Data(j) /\ rxIn'[j] = rxIn[j] /\ \A i \in 1..j - 1 : i \in DOMAIN rxIn'
        BY <1>1, <2>2
      <3>2. \A i \in 1..j - 1 : ~Data(i)
        BY <3>1, <2>2 DEF Data
      <3> QED BY <3>1, <3>2, <2>1 DEF PartsInv, FirstOK
    <2>5. NextOK'
      <3> SUFFICES ASSUME NEW i \in DOMAIN rxIn', NEW j \in DOMAIN rxIn', i < j, Data(i)', Data(j)',
                          \A k \in i + 1..j - 1 : ~Data(k)'
                   PROVE  Follows(rxIn'[i].part, rxIn'[j].part)
        BY DEF NextOK, Follows, Final
      <3>1. /\ i \in DOMAIN rxIn /\ Data(i) /\ rxIn'[i] = rxIn[i] /\ j \in DOMAIN rxIn /\ Data(j) /\ rxIn'[j] = rxIn[j]
            /\ \A k \in i + 1..j - 1 : k \in DOMAIN rxIn'
        BY <1>1, <2>2
      <3>2. \A k \in i + 1..j - 1 : ~Data(k)
        BY <3>1, <2>2 DEF Data
      <3> QED BY <3>1, <3>2, <2>1 DEF PartsInv, NextOK
    <2>6. LastOK'
      <3>1. CASE dvQueue' = dvQueue
        <4>1. ASSUME NEW i \in DOMAIN rxIn', Data(i)', \A k \in i + 1..Len(rxIn') : ~Data(k)'
              PROVE  Rest(rxIn'[i].part)
          <5>1. i \in DOMAIN rxIn /\ Data(i) /\ rxIn'[i] = rxIn[i] /\ \A k \in i + 1..Len(rxIn) : k \in DOMAIN rxIn'
            BY <4>1, <1>1, <2>2
          <5>2. \A k \in i + 1..Len(rxIn) : ~Data(k)
            BY <4>1, <5>1, <1>1, <2>2 DEF Data
          <5> QED BY <5>1, <5>2, <2>1 DEF PartsInv, LastOK
        <4>2. ~Carried("data") => IF rxBuf = <<>> THEN \A s \in Streams : dvPart[s] = 0 ELSE Rest(rxBuf[Len(rxBuf)])
          BY <2>1 DEF PartsInv, LastOK
        <4> QED BY <3>1, <4>1, <4>2, <2>3, SMTT(30) DEF LastOK, Rest, Final
      <3>2. CASE dvQueue' # dvQueue
        BY <3>2, <2>1, <2>2, <2>3 DEF PartsInv, NoneYet, LastOK, Data, Carried
      <3> QED BY <3>1, <3>2
    <2>7. PartsInv'
      BY <2>1, <2>3, <2>4, <2>5, <2>6 DEF PartsInv, BufferOK, NoneYet
    <2>8. f.part.msg = NoMsg /\ ~NoMsg.reply /\ NoMsg.id = 0 /\ Even(0)
      BY EvenFacts DEF NoMsg
    <2>9. \A i \in DOMAIN rxIn' : (i \in DOMAIN rxIn /\ rxIn'[i] = rxIn[i]) \/ rxIn'[i].part.msg = NoMsg
      BY <1>1, <2>8
    <2>10. \A s \in Streams : \A i \in DOMAIN dvQueue'[s] :
             \/ dvQueue'[s][i] = NoMsg
             \/ dvQueue' = dvQueue
             \/ i - 1 \in DOMAIN dvQueue[s] /\ dvQueue'[s][i] = dvQueue[s][i - 1]
      <3> SUFFICES ASSUME NEW s \in Streams, NEW i \in DOMAIN dvQueue'[s], dvQueue' # dvQueue, i # 1
                   PROVE  i - 1 \in DOMAIN dvQueue[s] /\ dvQueue'[s][i] = dvQueue[s][i - 1]
        BY <1>2
      <3>1. i - 1 \in 1..Len(dvQueue[s]) /\ (i - 1) + 1 = i
        BY <1>2
      <3> QED BY <3>1, <1>2
    <2>11. IdsOK'
      <3>1. \A s \in Streams : \A i \in DOMAIN dvQueue'[s] : IdOK(dvQueue'[s][i])
        BY <2>1, <2>8, <2>10 DEF IdsOK, IdOK
      <3>2. \A i \in DOMAIN rxIn' : IdOK(rxIn'[i].part.msg)
        BY <2>1, <2>8, <2>9 DEF IdsOK, IdOK
      <3> QED BY <3>1, <3>2, <2>1 DEF IdsOK, IdOK
    <2>12. OneReply'
      <3>1. \A i, j \in DOMAIN rxIn' : i < j /\ LastOfReply(rxIn'[i].part) => ~rxIn'[j].part.msg.reply
        BY <2>1, <2>8, <2>9 DEF OneReply, LastOfReply
      <3>2. (\E i \in DOMAIN rxBuf : LastOfReply(rxBuf[i])) => \A j \in DOMAIN rxIn' : ~rxIn'[j].part.msg.reply
        BY <2>1, <2>8, <2>9 DEF OneReply
      <3>3. ASSUME (\E i \in DOMAIN rxBuf : LastOfReply(rxBuf[i])) \/ (\E i \in DOMAIN rxIn' : LastOfReply(rxIn'[i].part)),
                   NEW s \in Streams, NEW i \in DOMAIN dvQueue'[s]
            PROVE  ~dvQueue'[s][i].reply
        <4>1. \A t \in Streams : \A j \in DOMAIN dvQueue[t] : ~dvQueue[t][j].reply
          BY <3>3, <2>1, <2>8, <2>9 DEF OneReply, LastOfReply
        <4> QED BY <4>1, <2>8, <2>10
      <3>4. ASSUME NEW s \in Streams, NEW t \in Streams, NEW i \in DOMAIN dvQueue'[s], NEW j \in DOMAIN dvQueue'[t],
                   dvQueue'[s][i].reply, dvQueue'[t][j].reply
            PROVE  s = t /\ i = j
        <4>1. CASE dvQueue' = dvQueue
          BY <3>4, <4>1, <2>1 DEF OneReply
        <4>2. CASE dvQueue' # dvQueue
          <5>3. i - 1 \in DOMAIN dvQueue[s] /\ dvQueue[s][i - 1].reply
            BY <3>4, <4>2, <2>8, <2>10
          <5>4. j - 1 \in DOMAIN dvQueue[t] /\ dvQueue[t][j - 1].reply
            BY <3>4, <4>2, <2>8, <2>10
          <5>1. s = t /\ i - 1 = j - 1
            BY <5>3, <5>4, <2>1 DEF OneReply
          <5>2. i \in Nat /\ j \in Nat
            BY <4>2, <1>2
          <5> QED BY <5>1, <5>2
        <4> QED BY <4>1, <4>2
      <3> QED BY <3>1, <3>2, <3>3, <3>4 DEF OneReply, LastOfReply, Final
    <2> QED BY <2>1, <2>7, <2>11, <2>12 DEF RepliesInv, ReplyIsOwn
  <1> QED BY <1>4, <1>5, <1>6 DEF RxInv

LEMMA ControlSteps ==
  ASSUME RxInv, DvSettings \/ DvAck \/ DvPing \/ DvGoesAway
  PROVE  RxInv'
  <1> DEFINE f(type) == [type |-> type, part |-> [msg |-> NoMsg, part |-> 1]]
  <1>0. RxTypes /\ AcksDue /\ dv \in [settings: 0..1, ack: 0..1, ping: 0..1, up: BOOLEAN, events: Nat]
    BY DEF RxInv, RxTypes
  <1>1. ASSUME NEW type \in {"settings", "ack", "ping", "goaway"}
        PROVE  /\ f(type) \in RxFrames /\ f(type).type = type /\ f(type).type # "data"
               /\ f(type).part = [msg |-> NoMsg, part |-> 1]
    BY NoMsgType DEF RxFrames
  <1>2. UNCHANGED <<rx, rxUse, rxBuf, rxNext, rxReq, rxAcks, rxGot, dvPart, mixed>> /\ rx # "new"
    BY <1>0 DEF DvSettings, DvAck, DvPing, DvGoesAway, clientUnch, AcksDue
  <1> HIDE DEF f
  <1>3. CASE DvSettings
    <2>1. /\ rxIn' = Append(rxIn, f("settings")) /\ dv.settings = 0 /\ dv' = [dv EXCEPT !.settings = 1]
          /\ dvQueue' = [s \in Streams |-> <<NoMsg>> \o dvQueue[s]]
      BY <1>3 DEF DvSettings, DvSends, f
    <2>2. /\ dv' \in [settings: 0..1, ack: 0..1, ping: 0..1, up: BOOLEAN, events: Nat] /\ dv'.settings = 1
          /\ dv'.ping = dv.ping /\ dv'.ack \in 0..1 /\ dv'.settings + dv'.ack > 0 /\ dv'.settings = dv.settings + 1
      BY <1>0, <2>1
    <2>3. AcksDue'
      BY <1>0, <1>1, <1>2, <2>1, <2>2, AcksAfterSend
    <2> QED BY <1>1, <1>2, <2>1, <2>2, <2>3, ControlSent
  <1>4. CASE DvAck
    <2>1. rxIn' = Append(rxIn, f("ack")) /\ dv' = [dv EXCEPT !.ack = 1] /\ dvQueue' = dvQueue
      BY <1>4 DEF DvAck, DvSends, f
    <2>2. /\ dv' \in [settings: 0..1, ack: 0..1, ping: 0..1, up: BOOLEAN, events: Nat] /\ dv'.settings = dv.settings
          /\ dv'.ping = dv.ping /\ dv'.settings + dv'.ack > 0
      BY <1>0, <2>1
    <2>3. AcksDue'
      BY <1>0, <1>1, <1>2, <2>1, <2>2, AcksAfterSend
    <2> QED BY <1>1, <1>2, <2>1, <2>2, <2>3, ControlSent
  <1>5. CASE DvPing
    <2>1. rxIn' = Append(rxIn, f("ping")) /\ dv' = [dv EXCEPT !.ping = 1] /\ dvQueue' = dvQueue /\ Begun /\ dv.ping = 0
      BY <1>5 DEF DvPing, DvSends, f
    <2>2. /\ dv' \in [settings: 0..1, ack: 0..1, ping: 0..1, up: BOOLEAN, events: Nat] /\ dv'.settings = dv.settings
          /\ dv'.ping = dv.ping + 1 /\ dv'.settings + dv'.ack > 0
      BY <1>0, <2>1 DEF Begun
    <2>3. AcksDue'
      BY <1>0, <1>1, <1>2, <2>1, <2>2, AcksAfterSend
    <2> QED BY <1>1, <1>2, <2>1, <2>2, <2>3, ControlSent
  <1>6. CASE DvGoesAway
    <2>1. rxIn' = Append(rxIn, f("goaway")) /\ dv' = [dv EXCEPT !.up = FALSE] /\ dvQueue' = dvQueue /\ Begun
      BY <1>6 DEF DvGoesAway, DvSends, f
    <2>2. /\ dv' \in [settings: 0..1, ack: 0..1, ping: 0..1, up: BOOLEAN, events: Nat] /\ dv'.settings = dv.settings
          /\ dv'.ping = dv.ping /\ dv'.settings + dv'.ack > 0
      BY <1>0, <2>1 DEF Begun
    <2>3. AcksDue'
      BY <1>0, <1>1, <1>2, <2>1, <2>2, AcksAfterSend
    <2> QED BY <1>1, <1>2, <2>1, <2>2, <2>3, ControlSent
  <1> QED BY <1>3, <1>4, <1>5, <1>6

-----------------------------------------------------------------------------
(* The device sends a part of a message.                                   *)

LEMMA DataStep ==
  ASSUME RxInv, NEW s \in Streams, DvData(s)
  PROVE  RxInv'
  <1> DEFINE q == dvQueue[s]
             first == Head(q)
             k == dvPart[s] + 1
  <1>0. RxTypes /\ HalfSent /\ AcksDue
    BY DEF RxInv
  <1>1. /\ q \in Seq(RxMsg) /\ q # <<>> /\ first = q[1] /\ first \in RxMsg /\ Len(q) \in Nat /\ Len(q) > 0
        /\ DOMAIN q = 1..Len(q) /\ dvPart[s] \in 0..1
    BY <1>0 DEF DvData, RxTypes
  <1>2. PICK n \in 1..2, body \in {"none", "value"} :
          LET msg == IF first.body = "open" THEN [first EXCEPT !.body = body, !.parts = n] ELSE first
          IN /\ rxIn' = Append(rxIn, [type |-> "data", part |-> [msg |-> msg, part |-> k]])
             /\ dvPart' = [dvPart EXCEPT ![s] = IF k = msg.parts THEN 0 ELSE k]
             /\ dvQueue' = [dvQueue EXCEPT ![s] = IF k = msg.parts THEN Tail(@) ELSE <<msg>> \o Tail(@)]
    BY DEF DvData
  <1> DEFINE msg == IF first.body = "open" THEN [first EXCEPT !.body = body, !.parts = n] ELSE first
             part == [msg |-> msg, part |-> k]
             f == [type |-> "data", part |-> part]
  <1>3. /\ UNCHANGED <<rx, rxUse, rxBuf, rxNext, rxReq, rxAcks, rxGot, dv>> /\ dv.settings = 1
        /\ mixed' = (mixed \/ \E t \in Streams \ {s} : dvPart[t] > 0)
    BY DEF DvData, clientUnch
  <1>4. /\ msg \in RxMsg /\ msg.reply = first.reply /\ msg.id = first.id /\ msg.body # "open"
        /\ first.body # "open" => msg = first
    BY <1>1 DEF RxMsg
  <1>5. k \in 1..2 /\ k <= msg.parts /\ msg.parts \in 1..2
    <2>1. msg.parts \in 1..2
      BY <1>4 DEF RxMsg
    <2>2. CASE dvPart[s] = 0
      BY <2>1, <2>2
    <2>3. CASE dvPart[s] = 1
      <3>1. msg.parts = 2
        BY <2>3, <1>0, <1>4 DEF HalfSent
      <3> QED BY <2>3, <3>1
    <2> QED BY <2>1, <2>2, <2>3, <1>1
  <1> HIDE DEF msg, k, first
  <1>6. part \in RxPart /\ f \in RxFrames /\ part.msg = msg /\ part.part = k
    BY <1>4, <1>5 DEF RxPart, RxFrames
  <1>7. /\ rxIn' = Append(rxIn, f)
        /\ dvPart' = [dvPart EXCEPT ![s] = IF k = msg.parts THEN 0 ELSE k]
        /\ dvQueue' = [dvQueue EXCEPT ![s] = IF k = msg.parts THEN Tail(q) ELSE <<msg>> \o Tail(q)]
    BY <1>2 DEF msg
  <1> HIDE DEF f, part, q
  <1>8. /\ Len(rxIn) \in Nat /\ DOMAIN rxIn = 1..Len(rxIn) /\ DOMAIN rxIn' = 1..Len(rxIn) + 1
        /\ \A i \in 1..Len(rxIn) : rxIn'[i] = rxIn[i]
        /\ rxIn'[Len(rxIn) + 1] = f /\ rxIn' # <<>> /\ rxIn' \in Seq(RxFrames) /\ Len(rxIn') = Len(rxIn) + 1
    BY <1>0, <1>6, <1>7, AppendTo DEF RxTypes
  <1>9. f.type = "data" /\ f.part = part
    BY DEF f
  \* The queue afterwards.
  <1>10. /\ \A t \in Streams \ {s} : dvPart'[t] = dvPart[t] /\ dvQueue'[t] = dvQueue[t]
         /\ dvPart'[s] = IF k = msg.parts THEN 0 ELSE k
         /\ dvQueue'[s] = IF k = msg.parts THEN Tail(q) ELSE <<msg>> \o Tail(q)
    BY <1>0, <1>7 DEF RxTypes
  <1>11. k # msg.parts => k = 1 /\ msg.parts = 2
    BY <1>5
  <1>12. dvQueue'[s] \in Seq(RxMsg) /\ dvPart'[s] \in 0..1
    <2>1. Tail(q) \in Seq(RxMsg)
      BY <1>1
    <2>2. <<msg>> \o Tail(q) \in Seq(RxMsg)
      BY <2>1, <1>4
    <2> QED BY <2>1, <2>2, <1>10, <1>11
  <1>13. /\ k = msg.parts => /\ DOMAIN dvQueue'[s] = 1..Len(q) - 1
                             /\ \A i \in 1..Len(q) - 1 : dvQueue'[s][i] = q[i + 1]
         /\ k # msg.parts => /\ dvQueue'[s] # <<>> /\ Head(dvQueue'[s]) = msg
                             /\ DOMAIN dvQueue'[s] = 1..Len(q) /\ dvQueue'[s][1] = msg
                             /\ \A i \in 2..Len(q) : dvQueue'[s][i] = q[i]
    <2>1. /\ Tail(q) \in Seq(RxMsg) /\ Len(Tail(q)) = Len(q) - 1 /\ DOMAIN Tail(q) = 1..Len(q) - 1
          /\ \A i \in 1..Len(q) - 1 : Tail(q)[i] = q[i + 1]
      BY <1>1
    <2>2. /\ <<msg>> \o Tail(q) # <<>> /\ Head(<<msg>> \o Tail(q)) = msg /\ (<<msg>> \o Tail(q))[1] = msg
          /\ DOMAIN (<<msg>> \o Tail(q)) = 1..Len(q)
          /\ \A i \in 2..Len(q) : (<<msg>> \o Tail(q))[i] = q[i]
      BY <2>1, <1>1, <1>4
    <2> QED BY <2>1, <2>2, <1>10
  <1>14. RxTypes'
    <2>1. dvQueue' \in [Streams -> Seq(RxMsg)] /\ dvPart' \in [Streams -> 0..1]
      <3>1. /\ dvQueue \in [Streams -> Seq(RxMsg)] /\ dvPart \in [Streams -> 0..1]
            /\ DOMAIN dvQueue' = Streams /\ DOMAIN dvPart' = Streams
        BY <1>0, <1>7 DEF RxTypes
      <3>2. \A t \in Streams : dvQueue'[t] \in Seq(RxMsg) /\ dvPart'[t] \in 0..1
        BY <3>1, <1>10, <1>12
      <3>3. /\ dvQueue' = [t \in Streams |-> dvQueue'[t]] /\ dvPart' = [t \in Streams |-> dvPart'[t]]
        BY <1>7, <3>1
      <3> QED BY <3>2, <3>3
    <2>2. mixed' \in BOOLEAN
      BY <1>3
    <2> QED BY <2>1, <2>2, <1>0, <1>3, <1>8 DEF RxTypes
  <1>15. HalfSent'
    <2> SUFFICES ASSUME NEW t \in Streams, dvPart'[t] = 1
                 PROVE  dv.settings = 1 /\ dvQueue'[t] # <<>> /\ Head(dvQueue'[t]).parts = 2 /\ Head(dvQueue'[t]).body # "open"
      BY <1>3 DEF HalfSent
    <2>1. CASE t = s
      BY <2>1, <1>3, <1>4, <1>10, <1>11, <1>13
    <2>2. CASE t # s
      BY <2>2, <1>0, <1>10 DEF HalfSent
    <2> QED BY <2>1, <2>2
  <1>16. AcksDue'
    <2>1. /\ dv' \in [settings: 0..1, ack: 0..1, ping: 0..1, up: BOOLEAN, events: Nat] /\ dv' = dv
          /\ dv.settings + dv.ack > 0
      BY <1>0, <1>3 DEF RxTypes
    <2>2. Begun /\ rx # "new"
      BY <2>1, <1>0 DEF Begun, AcksDue
    <2> QED BY <2>1, <2>2, <1>0, <1>3, <1>6, <1>7, <1>9, AcksAfterSend
  <1>17. ASSUME ~mixed' PROVE PartsInv' /\ RepliesInv'
    <2>1. PartsInv /\ IdsOK /\ OneReply /\ ReplyIsOwn /\ ~mixed /\ \A t \in Streams \ {s} : dvPart[t] = 0
      <3>1. ~mixed /\ ~\E t \in Streams \ {s} : dvPart[t] > 0
        BY <1>3, <1>17
      <3>2. \A t \in Streams \ {s} : dvPart[t] \in 0..1
        BY <1>0 DEF RxTypes
      <3>3. \A t \in Streams \ {s} : dvPart[t] = 0
        BY <3>1, <3>2
      <3> QED BY <3>1, <3>3 DEF RxInv, RepliesInv
    <2>2. ASSUME NEW p \in RxPart, Rest(p) PROVE Follows(p, part)
      <3>0. p.part \in 1..2
        BY DEF RxPart
      <3>1. CASE Final(p)
        BY <3>1, <2>2, <1>6 DEF Rest, Follows, k
      <3>2. CASE ~Final(p)
        <4>1. PICK t \in Streams : dvPart[t] = p.part /\ dvQueue[t] # <<>> /\ Head(dvQueue[t]) = p.msg
          BY <2>2, <3>2 DEF Rest
        <4>2. t = s
          BY <4>1, <3>0, <2>1
        <4>3. dvPart[s] = 1
          BY <4>1, <4>2, <3>0, <1>1
        <4>4. msg = first /\ first = p.msg /\ k = p.part + 1
          BY <4>1, <4>2, <4>3, <1>0, <1>4 DEF HalfSent, first, q, k
        <4> QED BY <3>2, <4>4 DEF Follows, part
      <3> QED BY <3>1, <3>2
    \* The part and its place, by names that a prime leaves alone.
    <2>20. PICK p0 : p0 = part
      OBVIOUS
    <2>21. PICK N \in Nat : N = Len(rxIn)
      BY <1>8
    <2>3. Rest(p0)'
      <3>1. CASE k = msg.parts
        BY <3>1, <2>1, <2>20, <1>6, <1>10 DEF Rest, Final
      <3>2. CASE k # msg.parts
        BY <3>2, <2>1, <2>20, <1>6, <1>10, <1>11, <1>13 DEF Rest, Final
      <3> QED BY <3>1, <3>2
    <2>4. /\ \A i \in DOMAIN rxIn : i \in DOMAIN rxIn' /\ rxIn'[i] = rxIn[i] /\ (Data(i)' <=> Data(i))
          /\ N + 1 \in DOMAIN rxIn' /\ Data(N + 1)' /\ rxIn'[N + 1].part = part
          /\ \A i \in DOMAIN rxIn' : i \in DOMAIN rxIn \/ i = N + 1
      BY <1>8, <1>9, <2>21 DEF Data
    <2>5. FirstOK'
      <3> SUFFICES ASSUME NEW j \in DOMAIN rxIn', Data(j)', \A i \in 1..j - 1 : ~Data(i)'
                   PROVE  IF rxBuf = <<>> THEN rxIn'[j].part.part = 1 ELSE Follows(rxBuf[Len(rxBuf)], rxIn'[j].part)
        BY <1>3 DEF FirstOK, Follows, Final
      <3>1. CASE j \in DOMAIN rxIn
        <4>1. \A i \in 1..j - 1 : i \in DOMAIN rxIn
          BY <3>1, <1>8
        <4> QED BY <3>1, <4>1, <2>1, <2>4 DEF PartsInv, FirstOK
      <3>2. CASE j = N + 1
        <4>1. ~Carried("data")
          BY <3>2, <1>8, <2>4, <2>21 DEF Carried, Data
        <4>2. CASE rxBuf = <<>>
          BY <4>1, <4>2, <3>2, <2>1, <2>4, <1>6 DEF PartsInv, LastOK, k
        <4>3. CASE rxBuf # <<>>
          <5>1. rxBuf[Len(rxBuf)] \in RxPart
            BY <4>3, <1>0 DEF RxTypes
          <5>2. Rest(rxBuf[Len(rxBuf)])
            BY <4>1, <4>3, <2>1 DEF PartsInv, LastOK
          <5> QED BY <5>1, <5>2, <4>3, <3>2, <2>2, <2>4
        <4> QED BY <4>2, <4>3
      <3> QED BY <3>1, <3>2, <2>4
    <2>6. NextOK'
      <3> SUFFICES ASSUME NEW i \in DOMAIN rxIn', NEW j \in DOMAIN rxIn', i < j, Data(i)', Data(j)',
                          \A l \in i + 1..j - 1 : ~Data(l)'
                   PROVE  Follows(rxIn'[i].part, rxIn'[j].part)
        BY DEF NextOK, Follows, Final
      <3>1. i \in DOMAIN rxIn /\ \A l \in i + 1..j - 1 : l \in DOMAIN rxIn
        BY <1>8
      <3>2. \A l \in i + 1..j - 1 : ~Data(l)
        BY <3>1, <2>4
      <3>3. CASE j \in DOMAIN rxIn
        BY <3>1, <3>2, <3>3, <2>1, <2>4 DEF PartsInv, NextOK
      <3>4. CASE j = N + 1
        <4>1. \A l \in i + 1..Len(rxIn) : ~Data(l)
          BY <3>2, <3>4, <1>8, <2>21
        <4>2. Rest(rxIn[i].part)
          BY <4>1, <3>1, <2>1, <2>4 DEF PartsInv, LastOK
        <4>3. rxIn[i].part \in RxPart
          <5>1. rxIn[i] \in RxFrames
            BY <3>1, <1>0 DEF RxTypes
          <5> QED BY <5>1 DEF RxFrames
        <4> QED BY <4>2, <4>3, <3>1, <3>4, <2>2, <2>4
      <3> QED BY <3>3, <3>4, <2>4
    <2>7. LastOK'
      <3>1. ASSUME NEW i \in DOMAIN rxIn', Data(i)', \A l \in i + 1..Len(rxIn') : ~Data(l)'
            PROVE  i = N + 1
        <4>1. CASE i \in DOMAIN rxIn
          <5>1. N + 1 \in i + 1..Len(rxIn')
            BY <4>1, <1>8, <2>21
          <5> QED BY <5>1, <3>1, <2>4
        <4> QED BY <4>1, <2>4
      <3>2. Carried("data")'
        BY <2>4 DEF Carried, Data
      <3>3. (\A i \in DOMAIN rxIn : Data(i) /\ (\A l \in i + 1..Len(rxIn) : ~Data(l)) => Rest(rxIn[i].part))'
        <4>1. rxIn'[N + 1].part = p0
          BY <2>4, <2>20
        <4> QED BY <3>1, <4>1, <2>3
      <3> QED BY <3>2, <3>3 DEF LastOK
    <2>8. PartsInv'
      BY <2>1, <2>5, <2>6, <2>7, <1>3 DEF PartsInv, BufferOK, NoneYet
    <2>9. s \in Streams /\ 1 \in DOMAIN dvQueue[s] /\ first = dvQueue[s][1]
      BY <1>1 DEF q
    \* What is in the queue was there before, if perhaps without its shape.
    <2>10. \A t \in Streams : \A i \in DOMAIN dvQueue'[t] :
             \E j \in DOMAIN dvQueue[t] :
               /\ dvQueue'[t][i].reply = dvQueue[t][j].reply /\ dvQueue'[t][i].id = dvQueue[t][j].id
               /\ j = IF t = s /\ k = msg.parts THEN i + 1 ELSE i
      <3> SUFFICES ASSUME NEW i \in DOMAIN dvQueue'[s]
                   PROVE  \E j \in DOMAIN dvQueue[s] :
                            /\ dvQueue'[s][i].reply = dvQueue[s][j].reply /\ dvQueue'[s][i].id = dvQueue[s][j].id
                            /\ j = IF k = msg.parts THEN i + 1 ELSE i
        BY <1>10, ZenonT(60)
      <3>1. CASE k = msg.parts
        <4>1. i + 1 \in DOMAIN q /\ dvQueue'[s][i] = q[i + 1]
          BY <3>1, <1>1, <1>13
        <4> QED BY <3>1, <4>1 DEF q
      <3>2. CASE k # msg.parts
        <4>1. i \in DOMAIN q /\ (i = 1 => dvQueue'[s][i] = msg) /\ (i # 1 => dvQueue'[s][i] = q[i])
          BY <3>2, <1>1, <1>13
        <4> QED BY <3>2, <4>1, <1>1, <1>4 DEF q
      <3> QED BY <3>1, <3>2
    <2>11. IdsOK'
      <3>1. \A t \in Streams : \A i \in DOMAIN dvQueue'[t] : IdOK(dvQueue'[t][i])
        BY <2>1, <2>10 DEF IdsOK, IdOK
      <3>2. IdOK(part.msg)
        BY <2>1, <2>9, <1>4, <1>6 DEF IdsOK, IdOK
      <3>3. \A i \in DOMAIN rxIn' : IdOK(rxIn'[i].part.msg)
        BY <3>2, <2>1, <2>4 DEF IdsOK
      <3> QED BY <3>1, <3>3, <2>1, <1>3 DEF IdsOK, IdOK
    <2>12. OneReply'
      <3>0. part.msg.reply = dvQueue[s][1].reply /\ (Final(part) <=> k = msg.parts)
        BY <2>9, <1>4, <1>6 DEF Final
      <3>1. part.msg.reply => /\ \A i \in DOMAIN rxBuf : ~LastOfReply(rxBuf[i])
                              /\ \A i \in DOMAIN rxIn : ~LastOfReply(rxIn[i].part)
        BY <3>0, <2>1, <2>9 DEF OneReply
      <3>2. ASSUME NEW i \in DOMAIN rxIn', NEW j \in DOMAIN rxIn', i < j, LastOfReply(rxIn'[i].part)
            PROVE  ~rxIn'[j].part.msg.reply
        <4>1. i \in DOMAIN rxIn /\ rxIn'[i] = rxIn[i]
          BY <3>2, <1>8
        <4> QED BY <3>1, <3>2, <4>1, <2>1, <2>4 DEF OneReply
      <3>3. (\E i \in DOMAIN rxBuf : LastOfReply(rxBuf[i])) => \A j \in DOMAIN rxIn' : ~rxIn'[j].part.msg.reply
        BY <3>1, <2>1, <2>4 DEF OneReply
      <3>4. ASSUME (\E i \in DOMAIN rxBuf : LastOfReply(rxBuf[i])) \/ (\E i \in DOMAIN rxIn' : LastOfReply(rxIn'[i].part)),
                   NEW t \in Streams, NEW i \in DOMAIN dvQueue'[t]
            PROVE  ~dvQueue'[t][i].reply
        <4>1. CASE (\E j \in DOMAIN rxBuf : LastOfReply(rxBuf[j])) \/ (\E j \in DOMAIN rxIn : LastOfReply(rxIn[j].part))
          BY <4>1, <2>1, <2>10 DEF OneReply
        <4>2. CASE LastOfReply(part)
          <5>1. k = msg.parts /\ dvQueue[s][1].reply
            BY <4>2, <3>0 DEF LastOfReply
          <5>2. PICK j \in DOMAIN dvQueue[t] : /\ dvQueue'[t][i].reply = dvQueue[t][j].reply
                                               /\ j = IF t = s /\ k = msg.parts THEN i + 1 ELSE i
            BY <2>10
          <5>3. t = s => j # 1
            BY <5>1, <5>2, <1>1, <1>13
          <5> QED BY <5>1, <5>2, <5>3, <2>1, <2>9 DEF OneReply
        <4> QED BY <3>4, <4>1, <4>2, <2>4
      <3>5. ASSUME NEW t \in Streams, NEW u \in Streams, NEW i \in DOMAIN dvQueue'[t], NEW j \in DOMAIN dvQueue'[u],
                   dvQueue'[t][i].reply, dvQueue'[u][j].reply
            PROVE  t = u /\ i = j
        <4>1. PICK a \in DOMAIN dvQueue[t] : dvQueue[t][a].reply /\ a = IF t = s /\ k = msg.parts THEN i + 1 ELSE i
          BY <3>5, <2>10
        <4>2. PICK b \in DOMAIN dvQueue[u] : dvQueue[u][b].reply /\ b = IF u = s /\ k = msg.parts THEN j + 1 ELSE j
          BY <3>5, <2>10
        <4>3. t = u /\ a = b
          BY <4>1, <4>2, <2>1 DEF OneReply
        <4>4. i \in Nat /\ j \in Nat
          BY <1>14 DEF RxTypes
        <4> QED BY <4>1, <4>2, <4>3, <4>4
      <3> QED BY <3>2, <3>3, <3>4, <3>5, <1>3 DEF OneReply, LastOfReply, Final
    <2> QED BY <2>1, <2>8, <2>11, <2>12, <1>3 DEF RepliesInv, ReplyIsOwn
  <1> QED BY <1>14, <1>15, <1>16, <1>17 DEF RxInv

LEMMA RxInvNext == RxInv /\ [RxNext]_rxVars => RxInv'
  BY StillSteps, HandshakeStep, FrameStep, TakingSteps, SendStep, SpeaksStep, ControlSteps, DataStep
     DEF RxNext, RxClient

LEMMA RxInvSafe == RxInv => MessagesSafe
  <1> SUFFICES ASSUME RxInv PROVE MessagesSafe
    OBVIOUS
  <1>1. ReplyIsOwn
    BY DEF RxInv, RepliesInv, ReplyIsOwn
  <1>2. NoTornMessage
    <2> SUFFICES ASSUME ~mixed, Complete PROVE Whole
      BY DEF NoTornMessage
    <2>1. BufferOK /\ rxBuf \in Seq(RxPart) /\ rxBuf # <<>>
      BY DEF RxInv, PartsInv, RxTypes, Complete
    <2>2. /\ Len(rxBuf) \in Nat /\ Head(rxBuf) = rxBuf[1] /\ rxBuf[1] \in RxPart /\ DOMAIN rxBuf = 1..Len(rxBuf)
          /\ \A i \in 1..Len(rxBuf) : rxBuf[i] \in RxPart
      BY <2>1
    <2>3. rxBuf[1].msg.parts = Len(rxBuf) /\ Len(rxBuf) \in 1..2 /\ rxBuf[1].part = 1
      BY <2>1, <2>2 DEF BufferOK, Complete, RxPart, RxMsg
    <2>4. DOMAIN Taken = 1..Len(rxBuf) /\ \A i \in 1..Len(rxBuf) : Taken[i] = rxBuf[i]
      <3>1. Taken = SubSeq(rxBuf, 1, Len(rxBuf))
        BY <2>2, <2>3 DEF Taken
      <3> QED BY <3>1, <2>1, <2>2
    <2>5. ASSUME NEW i \in 1..Len(rxBuf) PROVE rxBuf[i] = [msg |-> rxBuf[1].msg, part |-> i]
      <3>1. CASE i = 1
        BY <3>1, <2>2, <2>3 DEF RxPart
      <3>2. CASE i = 2
        BY <3>2, <2>1, <2>3 DEF BufferOK
      <3> QED BY <3>1, <3>2, <2>3
    <2> QED BY <2>2, <2>4, <2>5 DEF Whole
  <1>3. AcksPaired
    <2>1. /\ rxAcks \in [settings: 0..1, ping: 0..1] /\ dv.settings \in 0..1 /\ dv.ping \in 0..1
      BY DEF RxInv, RxTypes
    <2>2. rxAcks.settings <= dv.settings /\ rxAcks.ping <= dv.ping
      BY <2>1 DEF RxInv, AcksDue
    <2>3. ASSUME rxIn = <<>> PROVE rxAcks.settings = dv.settings /\ rxAcks.ping = dv.ping
      BY <2>3 DEF RxInv, AcksDue, Carried
    <2> QED BY <2>1, <2>2, <2>3 DEF AcksPaired
  <1> QED BY <1>1, <1>2, <1>3 DEF MessagesSafe

\* MessagesSafe (conn.rs 45-116 and the handshake, 133-190): a request returns the reply to itself and
\* messages are taken whole, as long as the device mixes no frames of two
\* messages, and every SETTINGS and PING is acknowledged once - for any number
\* of requests and events.
THEOREM MessagesWhole == RxSpec => []MessagesSafe
  BY RxInvInit, RxInvNext, RxInvSafe, PTL DEF RxSpec
=============================================================================
