----------------------------- MODULE DtxProofs -----------------------------
(***************************************************************************)
(* Proofs about Dtx for any number of threads, channels, calls and         *)
(* messages and any queue capacity.                                        *)
(***************************************************************************)
EXTENDS Dtx, TLAPS

\* What TypeOK needs to be inductive: a live call has a number and an id, the
\* reader holds a message whenever it works on one, and the tag of a reply
\* names a call.
CallNumbered ==
  \A c \in Callers : Live(c) => cur[c] \in 1..MaxCalls /\ id[c] \in 1..(IdMod - 1)
ReaderHolds == reader \in {"ack", "dispatch", "sending"} => rmsg # <<>>
RepliesTagged ==
  \A j \in DOMAIN toHost : toHost[j].conv > 0 => toHost[j].tag \in 1..MaxCalls
TypeInv == TypeOK /\ CallNumbered /\ ReaderHolds /\ RepliesTagged

\* The id after an id is an id; it is the successor unless the ids wrap.
LEMMA NextIdType ==
  ASSUME NEW i \in 1..(IdMod - 1)
  PROVE  /\ NextIdAfter(i) \in 1..(IdMod - 1)
         /\ i + 1 < IdMod => NextIdAfter(i) = i + 1
  BY DtxAssumption DEF NextIdAfter

\* Recording an answer keeps the type of answers, whatever the message.
LEMMA AnswerType ==
  ASSUME answers \in [1..MaxDevMsgs -> [Answerers -> Nat]],
         NEW k, NEW who \in Answerers
  PROVE  Answer(k, who) \in [1..MaxDevMsgs -> [Answerers -> Nat]]
  <1>1. CASE k \in 1..MaxDevMsgs
    <2>1. answers[k] \in [Answerers -> Nat] /\ answers[k][who] + 1 \in Nat
      BY <1>1
    <2>2. [answers[k] EXCEPT ![who] = answers[k][who] + 1] \in [Answerers -> Nat]
      BY <2>1
    <2> QED BY <1>1, <2>2 DEF Answer
  <1>2. CASE k \notin 1..MaxDevMsgs
    BY <1>2, Zenon DEF Answer
  <1> QED BY <1>1, <1>2

\* Taking the head of a queue of messages and appending to one.
LEMMA SeqFacts ==
  ASSUME NEW S, NEW s \in Seq(S)
  PROVE  /\ s # <<>> => Head(s) \in S /\ Tail(s) \in Seq(S)
         /\ s # <<>> => Head(s) = s[1] /\ 1 \in DOMAIN s
         /\ s # <<>> => \A j \in DOMAIN Tail(s) : j + 1 \in DOMAIN s /\ Tail(s)[j] = s[j + 1]
         /\ \A e \in S : <<e>> \in Seq(S) /\ Append(s, e) \in Seq(S)
         /\ \A e \in S : \A j \in DOMAIN Append(s, e) :
              (j \in DOMAIN s /\ Append(s, e)[j] = s[j]) \/ Append(s, e)[j] = e
  OBVIOUS

-----------------------------------------------------------------------------
(* Type correctness.                                                       *)

\* The sub-action of the clients that a thread takes.
ClientStep(c) ==
  \/ CallRegister(c) \/ CallWrite(c) \/ CallEnds(c) \/ CallAsync(c) \/ Register(c)
  \/ \E ch \in Channels : RegisterStart(c, ch) \/ SpawnHandler(c, ch)

LEMMA TypeInit == Init => TypeInv
  <1> SUFFICES ASSUME Init PROVE TypeInv
    OBVIOUS
  <1>1. ClientTypes /\ WaiterTypes
    BY DtxAssumption DEF Init, ClientTypes, WaiterTypes
  <1>2. <<>> \in Seq(Message)
    OBVIOUS
  <1>3. HandlerTypes /\ ReaderTypes /\ toHost \in Seq(Message)
    BY <1>2 DEF Init, HandlerTypes, ReaderTypes
  <1>4. DeviceTypes
    <2>1. devCalls \subseteq [id: 1..(IdMod - 1), call: 1..MaxCalls] /\ devMsgs \in 0..MaxDevMsgs
      BY DtxAssumption DEF Init
    <2>2. closed \in BOOLEAN
      BY Zenon DEF Init
    <2>3. invoked \in [Channels -> Seq(Message)]
      BY <1>2 DEF Init
    <2> QED BY <2>1, <2>2, <2>3 DEF DeviceTypes
  <1>5. AnswerTypes
    BY Zenon, 0 \in Nat DEF Init, AnswerTypes
  <1>6. CallNumbered /\ ReaderHolds /\ RepliesTagged
    BY DEF Init, CallNumbered, Live, ReaderHolds, RepliesTagged
  <1> QED BY <1>1, <1>3, <1>4, <1>5, <1>6 DEF TypeInv, TypeOK

\* A message is a record of its header fields.
LEMMA MessageFields ==
  ASSUME NEW m \in Message
  PROVE  /\ m.conv \in {0, 1} /\ m.id \in Nat /\ m.chan \in Channels
         /\ m.expects \in BOOLEAN /\ m.frags \in BOOLEAN /\ m.tag \in Nat
  BY DEF Message

\* The parts of TypeInv depend on disjoint groups of variables.
LEMMA TypeParts ==
  ASSUME TypeInv
  PROVE  /\ UNCHANGED waiters => WaiterTypes'
         /\ UNCHANGED handlerVars => HandlerTypes'
         /\ UNCHANGED readerVars => ReaderTypes' /\ ReaderHolds'
         /\ UNCHANGED deviceVars => DeviceTypes'
         /\ UNCHANGED answers => AnswerTypes'
         /\ UNCHANGED toHost => toHost' \in Seq(Message) /\ RepliesTagged'
         /\ UNCHANGED <<pc, cur, id, slot, want, nextId, calls>> => ClientTypes' /\ CallNumbered'
  BY DEF TypeInv, TypeOK, ClientTypes, WaiterTypes, HandlerTypes, ReaderTypes,
     DeviceTypes, AnswerTypes, CallNumbered, Live, ReaderHolds, RepliesTagged,
     handlerVars, readerVars, deviceVars

LEMMA TypeClient ==
  ASSUME TypeInv, NEW c \in Callers, ClientStep(c)
  PROVE  TypeInv'
  <1> USE TypeParts DEF handlerVars, readerVars, deviceVars
  <1>0. ClientTypes /\ WaiterTypes /\ HandlerTypes /\ DeviceTypes /\ CallNumbered
    BY DEF TypeInv, TypeOK
  <1>1. CASE CallRegister(c)
    <2>1. nextId \in 1..(IdMod - 1) /\ nextId' \in 1..(IdMod - 1) /\ calls' \in 1..MaxCalls
      BY <1>0, <1>1, NextIdType, DtxAssumption DEF ClientTypes, CallRegister
    <2>2. ClientTypes' /\ CallNumbered'
      <3>1. 0 \in 0..MaxCalls /\ nextId \in 0..(IdMod - 1) /\ calls' \in 0..MaxCalls
        BY <2>1, DtxAssumption
      <3>2. ClientTypes'
        BY <1>0, <1>1, <2>1, <3>1 DEF ClientTypes, CallRegister
      <3>3. CallNumbered'
        BY <1>0, <1>1, <2>1 DEF ClientTypes, CallNumbered, Live, CallRegister
      <3> QED BY <3>2, <3>3
    <2>3. WaiterTypes'
      BY <1>0, <1>1, <2>1 DEF WaiterTypes, CallRegister
    <2> QED BY <1>1, <2>2, <2>3 DEF CallRegister, TypeInv, TypeOK
  <1>2. CASE CallWrite(c)
    <2>1. ClientTypes' /\ CallNumbered'
      <3>1. CASE EndCall(c)
        <4>1. UNCHANGED <<want, nextId, calls>>
          BY <1>2 DEF CallWrite
        <4> QED BY <1>0, <3>1, <4>1, DtxAssumption DEF ClientTypes, CallNumbered, Live, EndCall
      <3>2. CASE pc' = [pc EXCEPT ![c] = "wait"] /\ UNCHANGED <<cur, id, slot>>
        BY <1>0, <1>2, <3>2 DEF ClientTypes, CallNumbered, Live, CallWrite
      <3> QED BY <1>2, <3>1, <3>2 DEF CallWrite
    <2>2. DeviceTypes'
      BY <1>0, <1>2 DEF DeviceTypes, CallNumbered, Live, CallWrite
    <2> QED BY <1>2, <2>1, <2>2 DEF CallWrite, TypeInv, TypeOK
  <1>3. CASE CallEnds(c)
    <2>1. EndCall(c) /\ UNCHANGED <<want, nextId, calls, waiters, handlerVars,
                                    readerVars, toHost, deviceVars, answers>>
      BY <1>3 DEF CallEnds, CallRecv, CallTimeout, CallDisconnected
    <2>2. ClientTypes' /\ CallNumbered'
      BY <1>0, <2>1, DtxAssumption DEF ClientTypes, CallNumbered, Live, EndCall
    <2> QED BY <2>1, <2>2 DEF TypeInv, TypeOK
  <1>4. CASE CallAsync(c)
    <2>1. nextId' \in 1..(IdMod - 1)
      BY <1>0, <1>4, NextIdType DEF ClientTypes, CallAsync
    <2>2. ClientTypes' /\ CallNumbered'
      BY <1>0, <1>4, <2>1, DtxAssumption DEF ClientTypes, CallNumbered, Live, CallAsync
    <2> QED BY <1>4, <2>2 DEF CallAsync, TypeInv, TypeOK
  <1>5. CASE Register(c)
    <2>1. ClientTypes' /\ CallNumbered'
      BY <1>0, <1>5, DtxAssumption DEF ClientTypes, CallNumbered, Live, Register
    <2>2. HandlerTypes'
      BY <1>0, <1>5 DEF HandlerTypes, ClientTypes, Register
    <2> QED BY <1>5, <2>1, <2>2 DEF Register, TypeInv, TypeOK
  <1>6. ASSUME NEW ch \in Channels, RegisterStart(c, ch)
        PROVE  TypeInv'
    <2>1. ClientTypes' /\ CallNumbered'
      BY <1>0, <1>6, DtxAssumption DEF ClientTypes, CallNumbered, Live, RegisterStart
    <2> QED BY <1>6, <2>1 DEF RegisterStart, TypeInv, TypeOK
  <1>7. ASSUME NEW ch \in Channels, SpawnHandler(c, ch)
        PROVE  TypeInv'
    <2>1. HandlerTypes'
      BY <1>0, <1>7 DEF HandlerTypes, SpawnHandler
    <2> QED BY <1>7, <2>1 DEF SpawnHandler, TypeInv, TypeOK, clientVars
  <1> QED BY <1>1, <1>2, <1>3, <1>4, <1>5, <1>6, <1>7 DEF ClientStep

LEMMA TypeHandler ==
  ASSUME TypeInv, NEW ch \in Channels,
         HandlerRecv(ch) \/ HandlerDone(ch) \/ HandlerQuit(ch)
  PROVE  TypeInv'
  <1> USE TypeParts DEF clientVars, readerVars, deviceVars
  <1>0. HandlerTypes /\ AnswerTypes
    BY DEF TypeInv, TypeOK
  <1>1. CASE HandlerRecv(ch)
    <2>1. Head(queue[ch]) \in Message /\ Tail(queue[ch]) \in Seq(Message)
      BY <1>0, <1>1, SeqFacts DEF HandlerTypes, HandlerRecv
    <2>2. <<Head(queue[ch])>> \in Seq(Message)
      BY <2>1
    <2>3. HandlerTypes'
      BY <1>0, <1>1, <2>1, <2>2 DEF HandlerTypes, HandlerRecv
    <2> QED BY <1>1, <2>3 DEF HandlerRecv, TypeInv, TypeOK
  <1>2. CASE HandlerDone(ch)
    <2>1. Head(hand[ch]) \in Message /\ handled[ch] \in Seq(Message)
      BY <1>0, <1>2, SeqFacts DEF HandlerTypes, HandlerDone
    <2>2. Append(handled[ch], Head(hand[ch])) \in Seq(Message) /\ <<>> \in Seq(Message)
      BY <2>1
    <2>3. HandlerTypes'
      BY <1>0, <1>2, <2>2 DEF HandlerTypes, HandlerDone
    <2>4. AnswerTypes'
      <3>1. CASE answers' = Answer(Head(hand[ch]).tag, "handler")
        BY <1>0, <3>1, AnswerType DEF AnswerTypes, Answerers
      <3>2. CASE UNCHANGED answers
        BY <1>0, <3>2 DEF AnswerTypes
      <3> QED BY <1>2, <3>1, <3>2 DEF HandlerDone
    <2> QED BY <1>2, <2>3, <2>4 DEF HandlerDone, TypeInv, TypeOK
  <1>3. CASE HandlerQuit(ch)
    <2>1. HandlerTypes'
      BY <1>0, <1>3 DEF HandlerTypes, HandlerQuit
    <2> QED BY <1>3, <2>1 DEF HandlerQuit, TypeInv, TypeOK
  <1> QED BY <1>1, <1>2, <1>3

\* Taking the first message off the socket.
LEMMA TakeFacts ==
  ASSUME TypeInv, toHost # <<>>
  PROVE  /\ Head(toHost) \in Message /\ Tail(toHost) \in Seq(Message)
         /\ Head(toHost).conv > 0 => Head(toHost).tag \in 1..MaxCalls
         /\ toHost' = Tail(toHost) => RepliesTagged'
  <1>1. toHost \in Seq(Message)
    BY DEF TypeInv, TypeOK
  <1>2. /\ Head(toHost) \in Message /\ Tail(toHost) \in Seq(Message)
        /\ Head(toHost) = toHost[1] /\ 1 \in DOMAIN toHost
        /\ \A j \in DOMAIN Tail(toHost) : j + 1 \in DOMAIN toHost /\ Tail(toHost)[j] = toHost[j + 1]
    BY <1>1, SeqFacts
  <1> QED BY <1>2 DEF TypeInv, RepliesTagged

LEMMA TypeReader ==
  ASSUME TypeInv, ReaderStep
  PROVE  TypeInv'
  <1> USE TypeParts DEF clientVars, handlerVars, readerVars, deviceVars
  <1>0. /\ ClientTypes /\ WaiterTypes /\ HandlerTypes /\ ReaderTypes /\ AnswerTypes
        /\ CallNumbered /\ ReaderHolds
    BY DEF TypeInv, TypeOK
  <1>1. CASE ReaderReply
    <2>1. /\ toHost # <<>> /\ toHost' = Tail(toHost) /\ Head(toHost).conv > 0
      BY <1>1 DEF ReaderReply, ReadsOne
    <2>2. toHost' \in Seq(Message) /\ RepliesTagged' /\ Head(toHost).tag \in 1..MaxCalls
      BY <2>1, TakeFacts
    <2>3. WaiterTypes'
      BY <1>0, <1>1 DEF WaiterTypes, ReaderReply
    <2>4. slot' \in [Callers -> 0..MaxCalls]
      BY <1>0, <1>1, <2>2, DtxAssumption DEF ClientTypes, ReaderReply
    <2>5. ClientTypes' /\ CallNumbered'
      BY <1>0, <1>1, <2>4 DEF ClientTypes, CallNumbered, Live, ReaderReply
    <2> QED BY <1>1, <2>2, <2>3, <2>5 DEF ReaderReply, TypeInv, TypeOK
  <1>2. CASE ReaderAck
    BY <1>2, TakeFacts DEF ReaderAck, ReadsOne, TypeInv, TypeOK
  <1>3. CASE ReaderInvoke
    <2>1. toHost # <<>> /\ toHost' = Tail(toHost) /\ rmsg' = <<Head(toHost)>>
      BY <1>3 DEF ReaderInvoke, ReadsOne
    <2>2. toHost' \in Seq(Message) /\ RepliesTagged' /\ rmsg' \in Seq(Message) /\ rmsg' # <<>>
      BY <2>1, TakeFacts
    <2>3. ReaderTypes' /\ ReaderHolds'
      BY <1>3, <2>2 DEF ReaderTypes, ReaderHolds, ReaderInvoke
    <2>4. AnswerTypes'
      <3>1. CASE Head(toHost).frags
        BY <1>0, <1>3, <3>1, AnswerType DEF AnswerTypes, ReaderInvoke, FragmentAcks, Answerers
      <3>2. CASE ~Head(toHost).frags
        BY <1>0, <1>3, <3>2 DEF AnswerTypes, ReaderInvoke, FragmentAcks
      <3> QED BY <3>1, <3>2
    <2> QED BY <1>3, <2>2, <2>3, <2>4 DEF ReaderInvoke, TypeInv, TypeOK
  <1>4. CASE ReaderAutoAck
    <2>1. AnswerTypes'
      BY <1>0, <1>4, AnswerType DEF AnswerTypes, ReaderAutoAck, Answerers
    <2>2. ReaderTypes' /\ ReaderHolds'
      BY <1>0, <1>4 DEF ReaderTypes, ReaderHolds, ReaderAutoAck
    <2> QED BY <1>4, <2>1, <2>2 DEF ReaderAutoAck, TypeInv, TypeOK
  <1>5. CASE ReaderDispatch \/ ReaderSend
    <2>1. rmsg # <<>> /\ rmsg \in Seq(Message) /\ <<>> \in Seq(Message)
      BY <1>0, <1>5 DEF ReaderTypes, ReaderHolds, ReaderDispatch, ReaderSend
    <2>2. Head(rmsg) \in Message
      BY <2>1, SeqFacts
    <2>3. Head(rmsg).chan \in Channels
      BY <2>2, MessageFields
    <2>4. Append(queue[Head(rmsg).chan], Head(rmsg)) \in Seq(Message)
      BY <1>0, <2>2, <2>3 DEF HandlerTypes
    <2>5. HandlerTypes'
      BY <1>0, <1>5, <2>4 DEF HandlerTypes, ReaderDispatch, ReaderSend, Deliver
    <2>6. ReaderTypes' /\ ReaderHolds'
      BY <1>0, <1>5, <2>1 DEF ReaderTypes, ReaderHolds, ReaderDispatch, ReaderSend
    <2> QED BY <1>5, <2>5, <2>6 DEF ReaderDispatch, ReaderSend, TypeInv, TypeOK
  <1>6. CASE ReaderExit
    <2>1. ReaderTypes' /\ ReaderHolds'
      BY <1>0, <1>6 DEF ReaderTypes, ReaderHolds, ReaderExit
    <2> QED BY <1>6, <2>1 DEF ReaderExit, TypeInv, TypeOK
  <1> QED BY <1>1, <1>2, <1>3, <1>4, <1>5, <1>6 DEF ReaderStep

LEMMA TypeDevice ==
  ASSUME TypeInv, DeviceStep
  PROVE  TypeInv'
  <1> USE TypeParts DEF clientVars, handlerVars, readerVars, deviceVars
  <1>0. DeviceTypes /\ toHost \in Seq(Message) /\ RepliesTagged
    BY DEF TypeInv, TypeOK
  <1>1. ASSUME NEW m \in Message, m.conv > 0 => m.tag \in 1..MaxCalls, DeviceSends(m),
               invoked' \in [Channels -> Seq(Message)]
        PROVE  TypeInv'
    <2>1. toHost' = Append(toHost, m) /\ toHost' \in Seq(Message)
      BY <1>0, <1>1 DEF DeviceSends
    <2>2. RepliesTagged'
      BY <1>0, <1>1, <2>1, SeqFacts DEF RepliesTagged
    <2>3. DeviceTypes'
      BY <1>0, <1>1, DtxAssumption DEF DeviceTypes, DeviceSends
    <2> QED BY <1>1, <2>1, <2>2, <2>3 DEF DeviceSends, TypeInv, TypeOK
  <1>2. CASE DevReply
    <2>1. PICK k \in devCalls, t \in {"Ack", "Reply"} :
            DeviceSends([conv |-> 1, type |-> t, id |-> k.id, chan |-> 0,
                         expects |-> FALSE, frags |-> FALSE, tag |-> k.call])
      BY <1>2 DEF DevReply
    <2>2. k.id \in Nat /\ k.call \in 1..MaxCalls /\ k.call \in Nat
      BY <1>0, DtxAssumption DEF DeviceTypes
    <2>3. [conv |-> 1, type |-> t, id |-> k.id, chan |-> 0, expects |-> FALSE,
           frags |-> FALSE, tag |-> k.call] \in Message
      BY <2>2, DtxAssumption DEF Message
    <2>4. invoked' \in [Channels -> Seq(Message)]
      BY <1>0, <1>2 DEF DevReply, DeviceTypes
    <2> QED BY <1>1, <2>1, <2>2, <2>3, <2>4
  <1>3. ASSUME NEW ch \in Channels, NEW e \in BOOLEAN, NEW f \in BOOLEAN,
               NEW i \in 1..(IdMod - 1), DevInvoke(ch, e, f, i)
        PROVE  TypeInv'
    <2> DEFINE m == [conv |-> 0, type |-> "MethodInvoke", id |-> i,
                     chan |-> ch, expects |-> e, frags |-> f, tag |-> devMsgs + 1]
    <2>1. DeviceSends(m) /\ invoked' = [invoked EXCEPT ![ch] = Append(@, m)]
      BY <1>3 DEF DevInvoke
    <2>2. m \in Message
      BY <1>0, DtxAssumption DEF DeviceTypes, Message
    <2>3. Append(invoked[ch], m) \in Seq(Message)
      BY <1>0, <2>2 DEF DeviceTypes
    <2>4. invoked' \in [Channels -> Seq(Message)]
      BY <1>0, <2>1, <2>3 DEF DeviceTypes
    <2>5. ~(m.conv > 0)
      OBVIOUS
    <2> HIDE DEF m
    <2> QED BY <1>1, <2>1, <2>2, <2>4, <2>5
  <1>4. CASE DevNoise
    <2>1. PICK t \in {"Ack", "Bad"} :
            DeviceSends([conv |-> 0, type |-> t, id |-> FirstId, chan |-> 0,
                         expects |-> FALSE, frags |-> FALSE, tag |-> devMsgs + 1])
      BY <1>4 DEF DevNoise
    <2>2. [conv |-> 0, type |-> t, id |-> FirstId, chan |-> 0,
           expects |-> FALSE, frags |-> FALSE, tag |-> devMsgs + 1] \in Message
      BY <1>0, DtxAssumption DEF DeviceTypes, Message
    <2>3. invoked' \in [Channels -> Seq(Message)]
      BY <1>0, <1>4 DEF DevNoise, DeviceTypes
    <2> QED BY <1>1, <2>1, <2>2, <2>3
  <1>5. CASE DevClose
    <2>1. DeviceTypes'
      BY <1>0, <1>5 DEF DevClose, DeviceTypes
    <2> QED BY <1>5, <2>1 DEF DevClose, TypeInv, TypeOK
  <1> QED BY <1>2, <1>3, <1>4, <1>5 DEF DeviceStep

LEMMA TypeNext == TypeInv /\ [Next]_vars => TypeInv'
  <1> SUFFICES ASSUME TypeInv, [Next]_vars PROVE TypeInv'
    OBVIOUS
  <1>1. CASE UNCHANGED vars
    BY <1>1, TypeParts DEF vars, clientVars, TypeInv, TypeOK
  <1>2. CASE Next
    <2>1. ASSUME NEW c \in Callers, ClientStep(c) PROVE TypeInv'
      BY <2>1, TypeClient
    <2> QED BY <1>2, <2>1, TypeHandler, TypeReader, TypeDevice DEF Next, ClientStep
  <1> QED BY <1>1, <1>2

\* Every reachable state of the connection is well typed; in particular no
\* message is ever sent under id 0, even after the ids have wrapped.
THEOREM TypeCorrect == Spec => []TypeOK
  <1>1. Spec => []TypeInv
    BY TypeInit, TypeNext, PTL DEF Spec
  <1>2. TypeInv => TypeOK
    BY DEF TypeInv
  <1> QED BY <1>1, <1>2, PTL

-----------------------------------------------------------------------------
(* Replies reach the calls they answer.  The n-th message of the clients   *)
(* has the id IdOf(n) as long as ids do not wrap, and everything that      *)
(* carries an id - the live calls, the waiter map, the calls the device    *)
(* knows and the replies on the socket - agrees with that.                 *)

IdOf(n) == FirstId + n - 1

NextIdFollows == FirstId + calls < IdMod => nextId = FirstId + calls
CallerIds == \A c \in Callers : Live(c) => cur[c] \in 1..calls /\ id[c] = IdOf(cur[c])
WaiterIds == \A i \in DOMAIN waiters : waiters[i] \in 1..calls /\ i = IdOf(waiters[i])
DeviceIds == \A k \in devCalls : k.id = IdOf(k.call)
ReplyIds == \A j \in DOMAIN toHost : toHost[j].conv > 0 => toHost[j].id = IdOf(toHost[j].tag)

CallInv ==
  /\ TypeInv /\ IdsFresh /\ NextIdFollows
  /\ CallerIds /\ WaiterIds /\ DeviceIds /\ ReplyIds
  /\ ReplyMatchesCall /\ WaiterRegistered

LEMMA CallInit == Init => CallInv
  <1> SUFFICES ASSUME Init PROVE CallInv
    OBVIOUS
  <1>1. TypeInv
    BY TypeInit
  <1>2. \A c \in Callers : ~Live(c)
    BY DEF Init, Live
  <1>3. DOMAIN waiters = {} /\ devCalls = {} /\ DOMAIN toHost = {} /\ NextIdFollows /\ IdsFresh
    BY DtxAssumption DEF Init, NextIdFollows, IdsFresh
  <1> QED BY <1>1, <1>2, <1>3 DEF CallInv, CallerIds, WaiterIds, DeviceIds, ReplyIds,
             ReplyMatchesCall, WaiterRegistered

\* Steps that touch neither the calls, the waiters, the device's calls nor
\* the socket.
LEMMA CallUntouched ==
  ASSUME CallInv, TypeInv',
         UNCHANGED <<pc, cur, id, slot, nextId, calls, waiters, devCalls, toHost>>
  PROVE  CallInv'
  BY DEF CallInv, CallerIds, WaiterIds, DeviceIds, ReplyIds, ReplyMatchesCall,
     WaiterRegistered, SenderAlive, Live, IdsFresh, NextIdFollows

\* Steps of a call that end it or let it wait.
LEMMA CallAdvances ==
  ASSUME CallInv, TypeInv', NEW c \in Callers, UNCHANGED <<nextId, calls, waiters>>,
         DeviceIds', ReplyIds',
         \A d \in Callers : Live(d)' => /\ Live(d)
                                        /\ cur'[d] = cur[d] /\ id'[d] = id[d] /\ slot'[d] = slot[d]
  PROVE  CallInv'
  BY DEF CallInv, CallerIds, WaiterIds, ReplyMatchesCall,
     WaiterRegistered, SenderAlive, IdOf, IdsFresh, NextIdFollows

\* A fresh id is not in use.
LEMMA CallStarts ==
  ASSUME CallInv, TypeInv', IdsFresh', NEW c \in Callers, CallRegister(c)
  PROVE  CallInv'
  <1> USE DEF clientVars, handlerVars, readerVars, deviceVars
  <1>0. /\ CallerIds /\ WaiterIds /\ ClientTypes /\ WaiterTypes
        /\ calls \in 0..MaxCalls /\ calls' = calls + 1 /\ nextId' = NextIdAfter(nextId)
    BY DEF CallInv, TypeInv, TypeOK, ClientTypes, CallRegister
  <1>1. nextId = FirstId + calls /\ nextId \in 1..(IdMod - 1)
    BY <1>0, DtxAssumption DEF CallInv, NextIdFollows, IdsFresh, ClientTypes
  <1>2. NextIdFollows' /\ calls' = calls + 1 /\ nextId = IdOf(calls')
    BY <1>0, <1>1, NextIdType, DtxAssumption DEF NextIdFollows, IdOf
  <1>3. \A d \in Callers : d # c => /\ pc'[d] = pc[d] /\ cur'[d] = cur[d]
                                    /\ id'[d] = id[d] /\ slot'[d] = slot[d]
    BY <1>0 DEF CallRegister, ClientTypes
  <1>4. pc'[c] = "write" /\ cur'[c] = calls' /\ id'[c] = nextId /\ slot'[c] = 0
    BY <1>0 DEF CallRegister, ClientTypes
  <1>5. CallerIds'
    BY <1>0, <1>2, <1>3, <1>4 DEF CallerIds, Live, IdOf
  <1>6. DOMAIN waiters' = DOMAIN waiters \cup {nextId} /\ waiters'[nextId] = calls'
        /\ \A i \in DOMAIN waiters : i # nextId => waiters'[i] = waiters[i]
    BY DEF CallRegister
  <1>7. WaiterIds'
    BY <1>0, <1>2, <1>6 DEF WaiterIds, IdOf
  <1>8. DeviceIds' /\ ReplyIds'
    BY DEF CallInv, CallRegister, DeviceIds, ReplyIds, IdOf
  <1>9. ReplyMatchesCall'
    BY <1>3, <1>4 DEF CallInv, ReplyMatchesCall, Live
  <1>10. WaiterRegistered'
    <2> SUFFICES ASSUME NEW d \in Callers, Live(d)', slot'[d] = 0 PROVE SenderAlive(d)'
      BY DEF WaiterRegistered
    <2>1. CASE d = c
      BY <1>4, <1>6, <2>1 DEF SenderAlive
    <2>2. CASE d # c
      <3>1. Live(d) /\ SenderAlive(d)
        BY <1>3, <2>2 DEF CallInv, WaiterRegistered, Live
      <3>2. id[d] # nextId
        BY <1>0, <1>1, <3>1, DtxAssumption DEF CallerIds, IdOf
      <3> QED BY <1>3, <1>6, <2>2, <3>1, <3>2 DEF SenderAlive
    <2> QED BY <2>1, <2>2
  <1> QED BY <1>2, <1>5, <1>7, <1>8, <1>9, <1>10 DEF CallInv

\* The reader hands a reply to the call it answers.
LEMMA ReplyDelivered ==
  ASSUME CallInv, TypeInv', ReaderReply
  PROVE  CallInv'
  <1> DEFINE m == Head(toHost)
  <1>1. /\ toHost # <<>> /\ toHost \in Seq(Message) /\ m.conv > 0 /\ toHost' = Tail(toHost)
        /\ UNCHANGED <<pc, cur, id, nextId, calls, devCalls>>
    BY DEF ReaderReply, ReadsOne, CallInv, TypeInv, TypeOK, deviceVars
  <1>2. /\ DOMAIN waiters' = DOMAIN waiters \ {m.id}
        /\ \A i \in DOMAIN waiters' : waiters'[i] = waiters[i]
    BY DEF ReaderReply
  <1>3. \A c \in Callers :
          slot'[c] = IF m.id \in DOMAIN waiters /\ Live(c) /\ cur[c] = waiters[m.id]
                       THEN m.tag ELSE slot[c]
    BY DEF ReaderReply
  <1>4. m.tag \in 1..MaxCalls /\ m.tag \in Nat
    BY <1>1, TakeFacts, DtxAssumption DEF CallInv
  <1>5. /\ m = toHost[1] /\ 1 \in DOMAIN toHost
        /\ \A j \in DOMAIN Tail(toHost) : j + 1 \in DOMAIN toHost /\ Tail(toHost)[j] = toHost[j + 1]
    BY <1>1, SeqFacts
  <1>6. m.id = IdOf(m.tag) /\ ReplyIds'
    BY <1>1, <1>5 DEF CallInv, ReplyIds, IdOf
  <1>7. m.id \in DOMAIN waiters => waiters[m.id] = m.tag
    <2>1. ASSUME m.id \in DOMAIN waiters PROVE waiters[m.id] \in Nat /\ m.id = IdOf(waiters[m.id])
      BY <2>1, DtxAssumption DEF CallInv, WaiterIds, TypeInv, TypeOK, ClientTypes
    <2> QED BY <1>4, <1>6, <2>1, DtxAssumption DEF IdOf
  <1> HIDE DEF m
  <1>8. CallerIds' /\ WaiterIds' /\ DeviceIds' /\ NextIdFollows' /\ IdsFresh'
    BY <1>1, <1>2 DEF CallInv, CallerIds, WaiterIds, DeviceIds, Live, IdOf, NextIdFollows, IdsFresh
  <1>9. ReplyMatchesCall'
    BY <1>1, <1>3, <1>7 DEF CallInv, ReplyMatchesCall, Live
  <1>10. WaiterRegistered'
    <2> SUFFICES ASSUME NEW c \in Callers, Live(c)', slot'[c] = 0 PROVE SenderAlive(c)'
      BY DEF WaiterRegistered
    <2>1. Live(c) /\ slot[c] = 0
      BY <1>1, <1>3, <1>4 DEF Live
    <2>2. SenderAlive(c) /\ id[c] # m.id
      BY <1>1, <1>3, <1>4, <2>1 DEF CallInv, WaiterRegistered, SenderAlive
    <2> QED BY <1>1, <1>2, <2>2 DEF SenderAlive
  <1> QED BY <1>6, <1>8, <1>9, <1>10 DEF CallInv

LEMMA CallNext ==
  ASSUME CallInv, IdsFresh', [Next]_vars
  PROVE  CallInv'
  <1> USE DEF clientVars, handlerVars, readerVars, deviceVars
  <1>0. TypeInv' /\ ClientTypes /\ DeviceIds /\ ReplyIds
    BY TypeNext DEF CallInv, TypeInv, TypeOK
  <1>1. CASE UNCHANGED vars
    BY <1>0, <1>1, CallUntouched DEF vars
  <1>2. ASSUME NEW c \in Callers, CallRegister(c) PROVE CallInv'
    BY <1>0, <1>2, CallStarts
  <1>3. ASSUME NEW c \in Callers, CallWrite(c) PROVE CallInv'
    <2>1. ReplyIds' /\ UNCHANGED <<nextId, calls, waiters>>
      BY <1>0, <1>3 DEF CallWrite, ReplyIds, IdOf
    <2>2. DeviceIds'
      <3>1. id[c] = IdOf(cur[c])
        BY <1>3 DEF CallWrite, Live, CallInv, CallerIds
      <3> QED BY <1>0, <1>3, <3>1 DEF CallWrite, DeviceIds, IdOf
    <2>3. \A d \in Callers : Live(d)' => /\ Live(d)
                                        /\ cur'[d] = cur[d] /\ id'[d] = id[d] /\ slot'[d] = slot[d]
      <3>1. CASE EndCall(c)
        BY <1>0, <3>1 DEF EndCall, Live, ClientTypes
      <3>2. CASE pc' = [pc EXCEPT ![c] = "wait"] /\ UNCHANGED <<cur, id, slot>>
        BY <1>0, <1>3, <3>2 DEF CallWrite, Live, ClientTypes
      <3> QED BY <1>3, <3>1, <3>2 DEF CallWrite
    <2> QED BY <1>0, <2>1, <2>2, <2>3, CallAdvances
  <1>4. ASSUME NEW c \in Callers, CallEnds(c) PROVE CallInv'
    <2>1. EndCall(c) /\ UNCHANGED <<nextId, calls, waiters, toHost, devCalls>>
      BY <1>4 DEF CallEnds, CallRecv, CallTimeout, CallDisconnected
    <2>2. \A d \in Callers : Live(d)' => /\ Live(d)
                                        /\ cur'[d] = cur[d] /\ id'[d] = id[d] /\ slot'[d] = slot[d]
      BY <1>0, <2>1 DEF EndCall, Live, ClientTypes
    <2>3. DeviceIds' /\ ReplyIds'
      BY <1>0, <2>1 DEF DeviceIds, ReplyIds, IdOf
    <2> QED BY <1>0, <2>1, <2>2, <2>3, CallAdvances
  <1>5. ASSUME NEW c \in Callers, CallAsync(c) PROVE CallInv'
    <2>1. /\ calls \in 0..MaxCalls /\ calls' = calls + 1 /\ nextId' = NextIdAfter(nextId)
          /\ nextId \in 1..(IdMod - 1) /\ NextIdFollows
      BY <1>5 DEF CallAsync, CallInv, TypeInv, TypeOK, ClientTypes
    <2>2. NextIdFollows'
      BY <2>1, NextIdType, DtxAssumption DEF NextIdFollows, IdsFresh
    <2>3. CallerIds' /\ WaiterIds' /\ DeviceIds' /\ ReplyIds'
      BY <1>0, <1>5, <2>1, <2>2 DEF CallAsync, CallInv, CallerIds, WaiterIds, DeviceIds, ReplyIds,
         Live, IdOf
    <2>4. ReplyMatchesCall' /\ WaiterRegistered'
      BY <1>5 DEF CallAsync, CallInv, ReplyMatchesCall, WaiterRegistered, SenderAlive, Live
    <2> QED BY <1>0, <2>2, <2>3, <2>4 DEF CallInv
  <1>6. ASSUME NEW c \in Callers, NEW ch \in Channels,
               Register(c) \/ RegisterStart(c, ch) \/ SpawnHandler(c, ch)
        PROVE  CallInv'
    <2>1. CASE SpawnHandler(c, ch)
      BY <1>0, <2>1, CallUntouched DEF SpawnHandler
    <2>2. CASE Register(c) \/ RegisterStart(c, ch)
      <3>1. UNCHANGED <<nextId, calls, waiters, toHost, devCalls, cur, id, slot>>
        BY <2>2 DEF Register, RegisterStart
      <3>2. \A d \in Callers : Live(d)' => Live(d)
        BY <1>0, <2>2 DEF Register, RegisterStart, Live, ClientTypes
      <3>3. DeviceIds' /\ ReplyIds'
        BY <1>0, <3>1 DEF DeviceIds, ReplyIds, IdOf
      <3> QED BY <1>0, <3>1, <3>2, <3>3, CallAdvances
    <2> QED BY <1>6, <2>1, <2>2
  <1>7. ASSUME NEW ch \in Channels, HandlerRecv(ch) \/ HandlerDone(ch) \/ HandlerQuit(ch)
        PROVE  CallInv'
    BY <1>0, <1>7, CallUntouched DEF HandlerRecv, HandlerDone, HandlerQuit
  <1>8. CASE ReaderReply
    BY <1>0, <1>8, ReplyDelivered
  <1>9. CASE ReaderAck \/ ReaderInvoke
    <2>1. /\ toHost # <<>> /\ toHost' = Tail(toHost) /\ toHost \in Seq(Message)
          /\ UNCHANGED <<pc, cur, id, slot, nextId, calls, waiters, devCalls>>
      BY <1>9 DEF ReaderAck, ReaderInvoke, ReadsOne, CallInv, TypeInv, TypeOK
    <2>2. ReplyIds'
      <3>1. \A j \in DOMAIN Tail(toHost) : j + 1 \in DOMAIN toHost /\ Tail(toHost)[j] = toHost[j + 1]
        BY <2>1, SeqFacts
      <3> QED BY <1>0, <2>1, <3>1 DEF ReplyIds, IdOf
    <2> QED BY <1>0, <2>1, <2>2 DEF CallInv, CallerIds, WaiterIds, DeviceIds, ReplyMatchesCall,
               WaiterRegistered, SenderAlive, Live, IdOf, IdsFresh, NextIdFollows
  <1>10. CASE ReaderAutoAck \/ ReaderDispatch \/ ReaderSend \/ ReaderExit
    BY <1>0, <1>10, CallUntouched DEF ReaderAutoAck, ReaderDispatch, ReaderSend, ReaderExit
  <1>11. ASSUME NEW m \in Message, DeviceSends(m), m.conv > 0 => m.id = IdOf(m.tag)
         PROVE  CallInv'
    <2>1. /\ toHost' = Append(toHost, m) /\ toHost \in Seq(Message)
          /\ UNCHANGED <<pc, cur, id, slot, nextId, calls, waiters, devCalls>>
      BY <1>11 DEF DeviceSends, CallInv, TypeInv, TypeOK
    <2>2. ReplyIds'
      BY <1>0, <1>11, <2>1, SeqFacts DEF ReplyIds, IdOf
    <2> QED BY <1>0, <2>1, <2>2 DEF CallInv, CallerIds, WaiterIds, DeviceIds, ReplyMatchesCall,
               WaiterRegistered, SenderAlive, Live, IdOf, IdsFresh, NextIdFollows
  <1>12. CASE DevReply
    <2>1. PICK k \in devCalls, t \in {"Ack", "Reply"} :
            DeviceSends([conv |-> 1, type |-> t, id |-> k.id, chan |-> 0,
                         expects |-> FALSE, frags |-> FALSE, tag |-> k.call])
      BY <1>12 DEF DevReply
    <2>2. k.id \in Nat /\ k.call \in Nat /\ k.id = IdOf(k.call)
      BY <1>0, DtxAssumption DEF CallInv, TypeInv, TypeOK, DeviceTypes, DeviceIds
    <2>3. [conv |-> 1, type |-> t, id |-> k.id, chan |-> 0, expects |-> FALSE,
           frags |-> FALSE, tag |-> k.call] \in Message
      BY <2>2, DtxAssumption DEF Message
    <2> QED BY <1>11, <2>1, <2>2, <2>3
  <1>13. ASSUME NEW ch \in Channels, NEW e \in BOOLEAN, NEW f \in BOOLEAN,
               NEW i \in 1..(IdMod - 1), DevInvoke(ch, e, f, i)
         PROVE  CallInv'
    <2> DEFINE m == [conv |-> 0, type |-> "MethodInvoke", id |-> i,
                     chan |-> ch, expects |-> e, frags |-> f, tag |-> devMsgs + 1]
    <2>1. DeviceSends(m)
      BY <1>13 DEF DevInvoke
    <2>2. m \in Message /\ ~(m.conv > 0)
      BY DtxAssumption DEF CallInv, TypeInv, TypeOK, DeviceTypes, Message
    <2> HIDE DEF m
    <2> QED BY <1>11, <2>1, <2>2
  <1>14. CASE DevNoise
    <2>1. PICK t \in {"Ack", "Bad"} :
            DeviceSends([conv |-> 0, type |-> t, id |-> FirstId, chan |-> 0,
                         expects |-> FALSE, frags |-> FALSE, tag |-> devMsgs + 1])
      BY <1>14 DEF DevNoise
    <2>2. [conv |-> 0, type |-> t, id |-> FirstId, chan |-> 0,
           expects |-> FALSE, frags |-> FALSE, tag |-> devMsgs + 1] \in Message
      BY DtxAssumption DEF CallInv, TypeInv, TypeOK, DeviceTypes, Message
    <2> QED BY <1>11, <2>1, <2>2
  <1>15. CASE DevClose
    BY <1>0, <1>15, CallUntouched DEF DevClose
  <1>16. CASE Next
    BY <1>16, <1>2, <1>3, <1>4, <1>5, <1>6, <1>7, <1>8, <1>9, <1>10, <1>12, <1>13, <1>14, <1>15,
       DtxAssumption
       DEF Next, ReaderStep, DeviceStep
  <1> QED BY <1>1, <1>16

\* The invariant for a whole behaviour: CallInv until the ids wrap.
FreshInv == TypeInv /\ (IdsFresh => CallInv)

LEMMA CallsGrow == TypeInv /\ [Next]_vars => calls \in Nat /\ (calls' = calls \/ calls' = calls + 1)
  <1> USE DEF clientVars, handlerVars, readerVars, deviceVars
  <1> SUFFICES ASSUME TypeInv, [Next]_vars PROVE calls \in Nat /\ (calls' = calls \/ calls' = calls + 1)
    OBVIOUS
  <1>1. calls \in Nat
    BY DtxAssumption DEF TypeInv, TypeOK, ClientTypes
  <1>2. CASE UNCHANGED vars
    BY <1>1, <1>2 DEF vars
  <1>3. ASSUME NEW c \in Callers, ClientStep(c) PROVE calls' = calls \/ calls' = calls + 1
    BY <1>3 DEF ClientStep, CallRegister, CallWrite, CallEnds, CallRecv, CallTimeout,
       CallDisconnected, CallAsync, Register, RegisterStart, SpawnHandler
  <1>4. ASSUME NEW ch \in Channels, HandlerRecv(ch) \/ HandlerDone(ch) \/ HandlerQuit(ch)
        PROVE  calls' = calls
    BY <1>4 DEF HandlerRecv, HandlerDone, HandlerQuit
  <1>5. ReaderStep => calls' = calls
    BY DEF ReaderStep, ReaderReply, ReaderAck, ReaderInvoke, ReaderAutoAck, ReaderDispatch,
       ReaderSend, ReaderExit
  <1>6. DeviceStep => calls' = calls
    BY DEF DeviceStep, DevReply, DevNoise, DevClose, DevInvoke, DeviceSends
  <1> QED BY <1>1, <1>2, <1>3, <1>4, <1>5, <1>6 DEF Next, ClientStep

LEMMA FreshNext == FreshInv /\ [Next]_vars => FreshInv'
  <1> SUFFICES ASSUME FreshInv, [Next]_vars PROVE FreshInv'
    OBVIOUS
  <1>1. TypeInv /\ TypeInv'
    BY TypeNext DEF FreshInv
  <1>2. IdsFresh' => IdsFresh
    BY <1>1, CallsGrow, DtxAssumption DEF IdsFresh
  <1>3. IdsFresh' => CallInv'
    BY <1>2, CallNext DEF FreshInv
  <1> QED BY <1>1, <1>3 DEF FreshInv

\* For any number of threads, channels and messages, as long as no id has been
\* used twice: a call gets the reply to itself and no other, however late,
\* duplicated or reordered the device's replies are and whatever ids the
\* device gives to its own messages (reader_loop).
THEOREM RepliesMatch == Spec => []ReplyMatchesCall
  <1>1. Init => FreshInv
    BY CallInit, TypeInit DEF FreshInv
  <1>2. FreshInv => ReplyMatchesCall
    BY DEF FreshInv, CallInv, ReplyMatchesCall
  <1> QED BY <1>1, <1>2, FreshNext, PTL DEF Spec

\* As long as no id has been used twice, no reply to a waiting call can be lost
\* for want of a waiter (call, call_full, reader_loop).
THEOREM WaitersRegistered == Spec => []WaiterRegistered
  <1>1. Init => FreshInv
    BY CallInit, TypeInit DEF FreshInv
  <1>2. FreshInv => WaiterRegistered
    BY DEF FreshInv, CallInv, WaiterRegistered
  <1> QED BY <1>1, <1>2, FreshNext, PTL DEF Spec

-----------------------------------------------------------------------------
(* The reader never blocks on a reply.  This does not depend on ids: a     *)
(* call stands in the waiter map at most once, and a reply takes it out.   *)

CallerCounted == \A c \in Callers : Live(c) => cur[c] \in 1..calls
WaiterCounted == \A i \in DOMAIN waiters : waiters[i] \in 1..calls
WaiterUnique == \A i, j \in DOMAIN waiters : waiters[i] = waiters[j] => i = j
OnceInv == TypeInv /\ CallerCounted /\ WaiterCounted /\ WaiterUnique /\ ReplyNeverBlocks

LEMMA OnceInit == Init => OnceInv
  BY TypeInit DEF Init, OnceInv, CallerCounted, WaiterCounted, WaiterUnique, ReplyNeverBlocks, Live

\* Steps that end calls, or touch neither calls nor waiters.
LEMMA OnceKept ==
  ASSUME OnceInv, TypeInv', UNCHANGED waiters, calls' = calls \/ calls' = calls + 1,
         \A d \in Callers : Live(d)' => Live(d) /\ cur'[d] = cur[d] /\ slot'[d] = slot[d]
  PROVE  OnceInv'
  <1>1. calls \in Nat
    BY DtxAssumption DEF OnceInv, TypeInv, TypeOK, ClientTypes
  <1> QED BY <1>1 DEF OnceInv, CallerCounted, WaiterCounted, WaiterUnique, ReplyNeverBlocks

LEMMA OnceNext == OnceInv /\ [Next]_vars => OnceInv'
  <1> USE DEF clientVars, handlerVars, readerVars, deviceVars
  <1> SUFFICES ASSUME OnceInv, [Next]_vars PROVE OnceInv'
    OBVIOUS
  <1>0. TypeInv' /\ ClientTypes /\ calls \in Nat
    BY TypeNext, DtxAssumption DEF OnceInv, TypeInv, TypeOK, ClientTypes
  <1>1. CASE UNCHANGED <<pc, cur, slot, waiters, calls>>
    BY <1>0, <1>1, OnceKept DEF Live
  <1>2. ASSUME NEW c \in Callers, CallRegister(c) PROVE OnceInv'
    <2>1. /\ calls' = calls + 1 /\ pc'[c] = "write" /\ cur'[c] = calls' /\ slot'[c] = 0
          /\ \A d \in Callers : d # c => pc'[d] = pc[d] /\ cur'[d] = cur[d] /\ slot'[d] = slot[d]
      BY <1>0, <1>2 DEF CallRegister, ClientTypes
    <2>2. DOMAIN waiters' = DOMAIN waiters \cup {nextId} /\ waiters'[nextId] = calls'
          /\ \A i \in DOMAIN waiters : i # nextId => waiters'[i] = waiters[i]
      BY <1>2 DEF CallRegister
    <2>3. CallerCounted' /\ WaiterCounted'
      BY <1>0, <2>1, <2>2 DEF OnceInv, CallerCounted, WaiterCounted, Live
    <2>4. WaiterUnique'
      BY <1>0, <2>1, <2>2 DEF OnceInv, WaiterCounted, WaiterUnique
    <2>5. ReplyNeverBlocks'
      BY <1>0, <2>1, <2>2 DEF OnceInv, CallerCounted, ReplyNeverBlocks, Live
    <2> QED BY <1>0, <2>3, <2>4, <2>5 DEF OnceInv
  <1>3. ASSUME NEW c \in Callers, CallWrite(c) \/ CallEnds(c) \/ CallAsync(c) \/ Register(c)
        PROVE  OnceInv'
    <2>1. UNCHANGED waiters /\ (calls' = calls \/ calls' = calls + 1)
      BY <1>3 DEF CallWrite, CallEnds, CallRecv, CallTimeout, CallDisconnected, CallAsync, Register
    <2>2. \A d \in Callers : Live(d)' => Live(d) /\ cur'[d] = cur[d] /\ slot'[d] = slot[d]
      BY <1>0, <1>3 DEF CallWrite, CallEnds, CallRecv, CallTimeout, CallDisconnected, CallAsync,
         Register, EndCall, Live, ClientTypes
    <2> QED BY <1>0, <2>1, <2>2, OnceKept
  <1>4. ASSUME NEW c \in Callers, NEW ch \in Channels, RegisterStart(c, ch) \/ SpawnHandler(c, ch)
        PROVE  OnceInv'
    <2>1. UNCHANGED <<waiters, calls, cur, slot>> /\ \A d \in Callers : Live(d)' => Live(d)
      BY <1>0, <1>4 DEF RegisterStart, SpawnHandler, Live, ClientTypes
    <2> QED BY <1>0, <2>1, OnceKept
  <1>5. CASE ReaderReply
    <2> DEFINE n == Head(toHost).id
    <2>1. /\ DOMAIN waiters' = DOMAIN waiters \ {n}
          /\ \A i \in DOMAIN waiters' : waiters'[i] = waiters[i]
          /\ \A c \in Callers : n \notin DOMAIN waiters \/ cur[c] # waiters[n] => slot'[c] = slot[c]
          /\ UNCHANGED <<pc, cur, calls>>
      BY <1>5 DEF ReaderReply
    <2> HIDE DEF n
    <2>2. CallerCounted' /\ WaiterCounted' /\ WaiterUnique'
      BY <2>1 DEF OnceInv, CallerCounted, WaiterCounted, WaiterUnique, Live
    <2>3. ReplyNeverBlocks'
      BY <2>1 DEF OnceInv, WaiterUnique, ReplyNeverBlocks, Live
    <2> QED BY <1>0, <2>2, <2>3 DEF OnceInv
  <1>6. ASSUME NEW ch \in Channels, HandlerRecv(ch) \/ HandlerDone(ch) \/ HandlerQuit(ch)
        PROVE  OnceInv'
    BY <1>1, <1>6 DEF HandlerRecv, HandlerDone, HandlerQuit
  <1>7. CASE ReaderAck \/ ReaderInvoke \/ ReaderAutoAck \/ ReaderDispatch \/ ReaderSend \/ ReaderExit
    BY <1>1, <1>7 DEF ReaderAck, ReaderInvoke, ReaderAutoAck, ReaderDispatch, ReaderSend, ReaderExit
  <1>8. CASE DeviceStep
    BY <1>1, <1>8 DEF DeviceStep, DevReply, DevNoise, DevClose, DevInvoke, DeviceSends
  <1>9. CASE UNCHANGED vars
    BY <1>1, <1>9 DEF vars
  <1> QED BY <1>2, <1>3, <1>4, <1>5, <1>6, <1>7, <1>8, <1>9 DEF Next, ReaderStep

\* For any number of threads and messages, wrapped ids included: the reader
\* never blocks on a call's channel while it holds the waiters lock
\* (reader_loop).
THEOREM RepliesNeverBlock == Spec => []ReplyNeverBlocks
  <1>1. OnceInv => ReplyNeverBlocks
    BY DEF OnceInv
  <1> QED BY <1>1, OnceInit, OnceNext, PTL DEF Spec

-----------------------------------------------------------------------------
(* The device's method calls: their order, and their answers.  They carry  *)
(* serial numbers; what the socket carries of them is in the order of the  *)
(* numbers, and the reader holds one message at a time.                    *)

IsInvoke(m) == m.type = "MethodInvoke"

Serial ==
  \A ch \in Channels :
    /\ \A k \in DOMAIN invoked[ch] :
         LET m == invoked[ch][k]
         IN IsInvoke(m) /\ m.conv = 0 /\ m.chan = ch /\ m.tag \in 1..devMsgs
    /\ \A k, l \in DOMAIN invoked[ch] : k < l => invoked[ch][k].tag < invoked[ch][l].tag
OnSocket ==
  /\ \A j \in DOMAIN toHost : IsInvoke(toHost[j]) =>
       /\ toHost[j].conv = 0 /\ toHost[j].tag \in 1..devMsgs
       /\ \E k \in DOMAIN invoked[toHost[j].chan] : invoked[toHost[j].chan][k] = toHost[j]
  /\ \A i, j \in DOMAIN toHost : i < j /\ IsInvoke(toHost[i]) /\ IsInvoke(toHost[j]) => toHost[i].tag < toHost[j].tag
OneAtATime ==
  /\ reader \in {"read", "exited"} => rmsg = <<>>
  /\ reader \in {"ack", "dispatch", "sending"} => Len(rmsg) = 1
  /\ \A ch \in Channels : Len(hand[ch]) <= 1
Unheard ==
  \A ch \in Channels : rx[ch] = "none" =>
    /\ handled[ch] = <<>> /\ hand[ch] = <<>> /\ queue[ch] = <<>>
    /\ ~(reader = "sending" /\ Head(rmsg).chan = ch)

\* What the channel has seen ends with the n-th call of the device, and the
\* socket carries those after it.
UpTo(ch, n) ==
  /\ {k \in DOMAIN invoked[ch] : invoked[ch][k] \in ToSet(toHost)} = n + 1..Len(invoked[ch])
  /\ Len(Seen(ch)) <= n
  /\ \A i \in DOMAIN Seen(ch) : Seen(ch)[i] = invoked[ch][n - Len(Seen(ch)) + i]
InOrder(ch) == rx[ch] # "dropped" => \E n \in 0..Len(invoked[ch]) : UpTo(ch, n)

\* A channel is registered once.
RegisteredOnce ==
  \A c \in Callers : pc[c] = "reg" =>
    rx[want[c]] = "none" /\ \A d \in Callers : pc[d] = "reg" /\ want[d] = want[c] => d = c

OrderInv ==
  /\ TypeInv /\ Serial /\ OnSocket /\ OneAtATime /\ Unheard /\ RegisteredOnce
  /\ \A ch \in Channels : InOrder(ch)

LEMMA OrderInit == Init => OrderInv
  <1> SUFFICES ASSUME Init PROVE OrderInv
    OBVIOUS
  <1>1. TypeInv
    BY TypeInit
  <1>2. Serial /\ OnSocket /\ OneAtATime /\ Unheard /\ RegisteredOnce
    BY DEF Init, Serial, OnSocket, OneAtATime, Unheard, RegisteredOnce
  <1>3. ASSUME NEW ch \in Channels PROVE UpTo(ch, 0) /\ 0 \in 0..Len(invoked[ch])
    <2>1. Seen(ch) = <<>> /\ invoked[ch] = <<>> /\ toHost = <<>>
      BY DEF Init, Seen
    <2> QED BY <2>1 DEF UpTo
  <1> QED BY <1>1, <1>2, <1>3 DEF OrderInv, InOrder

\* Concatenations of messages.
LEMMA Joined ==
  ASSUME NEW S, NEW x \in Seq(S), NEW y \in Seq(S)
  PROVE  /\ x \o y \in Seq(S) /\ Len(x \o y) = Len(x) + Len(y)
         /\ \A i \in 1..Len(x) : (x \o y)[i] = x[i]
         /\ \A i \in Len(x) + 1..Len(x) + Len(y) : (x \o y)[i] = y[i - Len(x)]
  OBVIOUS

LEMMA Nothing == ASSUME NEW S, NEW x \in Seq(S) PROVE x \o <<>> = x /\ <<>> \o x = x
  OBVIOUS

LEMMA Appended == ASSUME NEW S, NEW x \in Seq(S), NEW m \in S PROVE Append(x, m) = x \o <<m>>
  OBVIOUS

LEMMA Single == ASSUME NEW S, NEW m \in S PROVE <<m>> \in Seq(S) /\ Len(<<m>>) = 1 /\ <<m>>[1] = m
  OBVIOUS

LEMMA Pop ==
  ASSUME NEW S, NEW x \in Seq(S), NEW y \in Seq(S), y # <<>> PROVE (x \o <<Head(y)>>) \o Tail(y) = x \o y
  OBVIOUS

\* A step after which the channel has seen the same, and the same of its calls
\* are on the socket.
LEMMA InOrderKept ==
  ASSUME NEW ch \in Channels, InOrder(ch), rx'[ch] # "dropped" => rx[ch] # "dropped" /\ Seen(ch)' = Seen(ch),
         invoked'[ch] = invoked[ch],
         \A k \in DOMAIN invoked[ch] : invoked[ch][k] \in ToSet(toHost') <=> invoked[ch][k] \in ToSet(toHost)
  PROVE  InOrder(ch)'
  <1> SUFFICES ASSUME rx'[ch] # "dropped" PROVE \E n \in 0..Len(invoked[ch]) : UpTo(ch, n)'
    BY DEF InOrder
  <1>1. PICK n \in 0..Len(invoked[ch]) : UpTo(ch, n)
    BY DEF InOrder
  <1>2. {k \in DOMAIN invoked[ch] : invoked[ch][k] \in ToSet(toHost')}
          = {k \in DOMAIN invoked[ch] : invoked[ch][k] \in ToSet(toHost)}
    OBVIOUS
  <1>3. UpTo(ch, n)'
    BY <1>1, <1>2 DEF UpTo
  <1> QED BY <1>3

LEMMA ClientKeepsRx ==
  ASSUME OrderInv, NEW c \in Callers, ClientStep(c)
  PROVE  /\ RegisteredOnce'
         /\ \A ch \in Channels : /\ rx'[ch] = "none" => rx[ch] = "none"
                                 /\ rx'[ch] # "dropped" => rx[ch] # "dropped"
  <1> USE DEF clientVars, handlerVars, readerVars, deviceVars
  <1>0. ClientTypes /\ HandlerTypes
    BY DEF OrderInv, TypeInv, TypeOK
  <1>1. CASE CallRegister(c) \/ CallWrite(c) \/ CallEnds(c) \/ CallAsync(c)
    <2>1. UNCHANGED <<rx, want>> /\ \A d \in Callers : pc'[d] = "reg" => pc[d] = "reg"
      BY <1>0, <1>1 DEF CallRegister, CallWrite, CallEnds, CallRecv, CallTimeout, CallDisconnected, CallAsync,
         EndCall, ClientTypes
    <2> QED BY <2>1 DEF OrderInv, RegisteredOnce
  <1>2. CASE Register(c)
    <2>1. /\ want[c] \in Channels /\ rx[want[c]] = "none"
          /\ \A d \in Callers : pc[d] = "reg" /\ want[d] = want[c] => d = c
      BY <1>0, <1>2 DEF OrderInv, RegisteredOnce, Register, ClientTypes
    <2>2. /\ \A d \in Callers : d # c => pc'[d] = pc[d] /\ want'[d] = want[d]
          /\ \A ch \in Channels : ch # want[c] => rx'[ch] = rx[ch]
          /\ rx'[want[c]] \in {"served", "held"} /\ pc'[c] = "idle"
      BY <1>0, <1>2, <2>1 DEF Register, ClientTypes, HandlerTypes
    <2>3. \A d \in Callers : want[d] \in Channels
      BY <1>0 DEF ClientTypes
    <2>4. RegisteredOnce'
      BY <2>1, <2>2, <2>3 DEF OrderInv, RegisteredOnce
    <2> QED BY <2>1, <2>2, <2>4
  <1>3. ASSUME NEW ch \in Channels, RegisterStart(c, ch)
        PROVE  RegisteredOnce' /\ UNCHANGED rx
    <2>1. /\ \A d \in Callers : d # c => pc'[d] = pc[d] /\ want'[d] = want[d]
          /\ pc'[c] = "reg" /\ want'[c] = ch /\ UNCHANGED rx
      BY <1>0, <1>3 DEF RegisterStart, ClientTypes
    <2> QED BY <1>3, <2>1 DEF OrderInv, RegisteredOnce, RegisterStart
  <1>4. ASSUME NEW ch \in Channels, SpawnHandler(c, ch)
        PROVE  /\ RegisteredOnce'
               /\ \A x \in Channels : /\ rx'[x] = "none" => rx[x] = "none"
                                      /\ rx'[x] # "dropped" => rx[x] # "dropped"
    <2>1. /\ rx[ch] = "held" /\ rx'[ch] = "served" /\ UNCHANGED <<pc, want>>
          /\ \A x \in Channels : x # ch => rx'[x] = rx[x]
      BY <1>0, <1>4 DEF SpawnHandler, HandlerTypes
    <2>2. \A d \in Callers : want[d] \in Channels
      BY <1>0 DEF ClientTypes
    <2> QED BY <2>1, <2>2 DEF OrderInv, RegisteredOnce
  <1> QED BY <1>1, <1>2, <1>3, <1>4 DEF ClientStep

\* A step of the clients: it registers or spawns at most.
LEMMA OrderClient ==
  ASSUME OrderInv, TypeInv', NEW c \in Callers, ClientStep(c)
  PROVE  OrderInv'
  <1> USE DEF clientVars, handlerVars, readerVars, deviceVars
  <1>0. ClientTypes /\ HandlerTypes
    BY DEF OrderInv, TypeInv, TypeOK
  <1>1. UNCHANGED <<handled, hand, queue, readerVars, toHost, invoked, devMsgs>>
    BY DEF ClientStep, CallRegister, CallWrite, CallEnds, CallRecv, CallTimeout, CallDisconnected, CallAsync,
       Register, RegisterStart, SpawnHandler
  <1>2. /\ RegisteredOnce'
        /\ \A ch \in Channels : /\ rx'[ch] = "none" => rx[ch] = "none"
                                /\ rx'[ch] # "dropped" => rx[ch] # "dropped"
    BY ClientKeepsRx
  <1>3. Serial' /\ OnSocket' /\ OneAtATime'
    BY <1>1 DEF OrderInv, Serial, OnSocket, OneAtATime
  <1>4. Unheard'
    BY <1>1, <1>2 DEF OrderInv, Unheard
  <1>5. ASSUME NEW ch \in Channels PROVE InOrder(ch)'
    <2>1. Seen(ch)' = Seen(ch)
      BY <1>1 DEF Seen
    <2> QED BY <1>1, <1>2, <2>1, InOrderKept DEF OrderInv
  <1> QED BY <1>2, <1>3, <1>4, <1>5 DEF OrderInv

LEMMA OrderHandler ==
  ASSUME OrderInv, TypeInv', NEW ch \in Channels, HandlerRecv(ch) \/ HandlerDone(ch) \/ HandlerQuit(ch)
  PROVE  OrderInv'
  <1> USE DEF clientVars, readerVars, deviceVars
  <1> DEFINE own(x) == handled[x] \o hand[x] \o queue[x]
  <1>0. /\ HandlerTypes /\ HandlerTypes' /\ ClientTypes
        /\ handled[ch] \in Seq(Message) /\ hand[ch] \in Seq(Message) /\ queue[ch] \in Seq(Message)
    BY DEF OrderInv, TypeInv, TypeOK, HandlerTypes
  <1>1. /\ UNCHANGED <<pc, want, reader, rmsg, toHost, invoked, devMsgs>>
        /\ \A x \in Channels : x # ch => UNCHANGED <<rx[x], handled[x], hand[x], queue[x]>>
        /\ rx'[ch] = rx[ch] \/ (rx[ch] = "served" /\ rx'[ch] = "dropped")
    BY <1>0 DEF HandlerRecv, HandlerDone, HandlerQuit, HandlerTypes
  <1>2. Len(hand'[ch]) <= 1
    <2>1. hand'[ch] = <<Head(queue[ch])>> \/ hand'[ch] = <<>> \/ hand'[ch] = hand[ch]
      BY <1>0 DEF HandlerRecv, HandlerDone, HandlerQuit, HandlerTypes
    <2>2. Len(<<Head(queue[ch])>>) <= 1 /\ Len(<<>>) <= 1
      OBVIOUS
    <2>3. Len(hand[ch]) <= 1
      BY DEF OrderInv, OneAtATime
    <2> QED BY ONLY <2>1, <2>2, <2>3, Zenon
  <1>3. rx[ch] # "none"
    BY DEF HandlerRecv, HandlerDone, HandlerQuit, OrderInv, Unheard
  <1>4. Serial' /\ OnSocket' /\ OneAtATime'
    BY <1>1, <1>2 DEF OrderInv, Serial, OnSocket, OneAtATime
  <1>5. Unheard'
    BY <1>1, <1>3 DEF OrderInv, Unheard
  <1>6. RegisteredOnce'
    <2>1. \A d \in Callers : want[d] \in Channels
      BY <1>0 DEF ClientTypes
    <2> QED BY <1>1, <1>3, <2>1 DEF OrderInv, RegisteredOnce
  <1>7. rx'[ch] # "dropped" => own(ch)' = own(ch)
    <2>1. CASE HandlerRecv(ch)
      <3>1. /\ hand[ch] = <<>> /\ queue[ch] # <<>> /\ hand'[ch] = <<Head(queue[ch])>>
            /\ queue'[ch] = Tail(queue[ch]) /\ handled'[ch] = handled[ch]
        BY <1>0, <2>1 DEF HandlerRecv, HandlerTypes
      <3>2. Head(queue[ch]) \in Message /\ Tail(queue[ch]) \in Seq(Message)
        BY <1>0, <3>1, SeqFacts
      <3>3. handled[ch] \o <<>> = handled[ch]
        BY <1>0, Nothing
      <3>4. (handled[ch] \o <<Head(queue[ch])>>) \o Tail(queue[ch]) = handled[ch] \o queue[ch]
        BY ONLY <1>0, <3>1, Pop
      <3> QED BY ONLY <3>1, <3>3, <3>4, Zenon
    <2>2. CASE HandlerDone(ch)
      <3> DEFINE m == Head(hand[ch])
      <3>1. /\ hand[ch] # <<>> /\ hand'[ch] = <<>> /\ queue'[ch] = queue[ch]
            /\ handled'[ch] = Append(handled[ch], m)
        BY <1>0, <2>2 DEF HandlerDone, HandlerTypes
      <3>2. m \in Message /\ hand[ch] = <<m>>
        <4>1. Len(hand[ch]) <= 1
          BY DEF OrderInv, OneAtATime
        <4> QED BY ONLY <1>0, <3>1, <4>1
      <3> HIDE DEF m
      <3>5. Append(handled[ch], m) \in Seq(Message)
        BY <1>0, <3>2, SeqFacts
      <3>3. Append(handled[ch], m) = handled[ch] \o <<m>>
        BY ONLY <1>0, <3>2, Appended, Zenon
      <3>4. Append(handled[ch], m) \o <<>> = Append(handled[ch], m)
        BY ONLY <3>5, Nothing
      <3> QED BY ONLY <3>1, <3>2, <3>3, <3>4, Zenon
    <2>3. CASE HandlerQuit(ch)
      BY <1>0, <2>3 DEF HandlerQuit, HandlerTypes
    <2> QED BY <2>1, <2>2, <2>3
  <1>8. ASSUME NEW x \in Channels PROVE InOrder(x)'
    <2>1. rx'[x] # "dropped" => rx[x] # "dropped" /\ own(x)' = own(x)
      BY <1>1, <1>7
    <2>2. own(x)' = own(x) => Seen(x)' = Seen(x)
      BY <1>1 DEF Seen
    <2> HIDE DEF own
    <2> QED BY <1>1, <2>1, <2>2, InOrderKept DEF OrderInv
  <1> QED BY <1>4, <1>5, <1>6, <1>8 DEF OrderInv

\* The first message leaves the socket.
LEMMA Taken ==
  ASSUME NEW S, NEW s \in Seq(S), s # <<>>
  PROVE  /\ ToSet(s) = {Head(s)} \cup ToSet(Tail(s))
         /\ Head(s) = s[1] /\ 1 \in DOMAIN s
         /\ \A j \in DOMAIN Tail(s) : j + 1 \in DOMAIN s /\ Tail(s)[j] = s[j + 1]
  <1>1. /\ Head(s) = s[1] /\ 1 \in DOMAIN s
        /\ \A j \in DOMAIN Tail(s) : j + 1 \in DOMAIN s /\ Tail(s)[j] = s[j + 1]
    OBVIOUS
  <1>2. \A i \in DOMAIN s : i # 1 => i - 1 \in DOMAIN Tail(s) /\ Tail(s)[i - 1] = s[i]
    OBVIOUS
  <1>3. ToSet(s) \subseteq {Head(s)} \cup ToSet(Tail(s))
    BY <1>1, <1>2 DEF ToSet
  <1>4. {Head(s)} \cup ToSet(Tail(s)) \subseteq ToSet(s)
    BY <1>1 DEF ToSet
  <1> QED BY <1>1, <1>3, <1>4

\* A message comes to the socket.
LEMMA Added ==
  ASSUME NEW S, NEW s \in Seq(S), NEW m \in S
  PROVE  /\ ToSet(Append(s, m)) = ToSet(s) \cup {m}
         /\ DOMAIN Append(s, m) = DOMAIN s \cup {Len(s) + 1}
         /\ \A j \in DOMAIN s : Append(s, m)[j] = s[j] /\ j <= Len(s)
         /\ Append(s, m)[Len(s) + 1] = m
  BY DEF ToSet

LEMMA SocketTaken ==
  ASSUME OrderInv, toHost # <<>>, toHost' = Tail(toHost), UNCHANGED <<invoked, devMsgs>>
  PROVE  /\ Serial' /\ OnSocket'
         /\ \A ch \in Channels : \A k \in DOMAIN invoked[ch] : invoked[ch][k] # Head(toHost) =>
              (invoked[ch][k] \in ToSet(toHost') <=> invoked[ch][k] \in ToSet(toHost))
  <1>0. toHost \in Seq(Message)
    BY DEF OrderInv, TypeInv, TypeOK
  <1>1. Serial'
    BY DEF OrderInv, Serial
  <1>2. \A j \in DOMAIN toHost' : j + 1 \in DOMAIN toHost /\ toHost'[j] = toHost[j + 1]
    BY <1>0, Taken
  <1>3. \A i, j \in DOMAIN toHost' : i < j => i + 1 < j + 1
    BY <1>0
  <1>4. OnSocket'
    BY <1>2, <1>3 DEF OrderInv, OnSocket, IsInvoke
  <1>5. ToSet(toHost) = {Head(toHost)} \cup ToSet(toHost')
    BY <1>0, Taken
  <1> QED BY <1>1, <1>4, <1>5

\* The reader takes a message that is no method call.
LEMMA OrderDropped ==
  ASSUME OrderInv, TypeInv', ReaderReply \/ ReaderAck
  PROVE  OrderInv'
  <1> USE DEF clientVars, handlerVars, readerVars, deviceVars
  <1>0. /\ toHost # <<>> /\ toHost' = Tail(toHost)
        /\ UNCHANGED <<invoked, devMsgs, reader, rmsg, rx, handled, hand, queue, pc, want>>
    BY DEF ReaderReply, ReaderAck, ReadsOne
  <1>1. ~IsInvoke(Head(toHost))
    <2>1. toHost \in Seq(Message)
      BY DEF OrderInv, TypeInv, TypeOK
    <2>2. Head(toHost) = toHost[1] /\ 1 \in DOMAIN toHost
      BY <1>0, <2>1, Taken
    <2> QED BY <2>2 DEF ReaderReply, ReaderAck, OrderInv, OnSocket, IsInvoke
  <1>2. Serial' /\ OnSocket'
    BY <1>0, SocketTaken
  <1>3. OneAtATime' /\ Unheard' /\ RegisteredOnce'
    BY <1>0 DEF OrderInv, OneAtATime, Unheard, RegisteredOnce
  <1>4. ASSUME NEW ch \in Channels PROVE InOrder(ch)'
    <2>1. Seen(ch)' = Seen(ch)
      BY <1>0 DEF Seen
    <2>2. \A k \in DOMAIN invoked[ch] : invoked[ch][k] # Head(toHost)
      BY <1>1 DEF OrderInv, Serial
    <2>3. \A k \in DOMAIN invoked[ch] : invoked[ch][k] \in ToSet(toHost') <=> invoked[ch][k] \in ToSet(toHost)
      BY <1>0, <2>2, SocketTaken
    <2> QED BY <1>0, <2>1, <2>3, InOrderKept DEF OrderInv
  <1> QED BY <1>2, <1>3, <1>4 DEF OrderInv

\* One call more is seen.
LEMMA OneMore ==
  ASSUME NEW S, NEW x \in Seq(S), NEW m \in S, NEW inv, NEW n \in Nat, Len(x) <= n,
         \A i \in DOMAIN x : x[i] = inv[n - Len(x) + i], inv[n + 1] = m
  PROVE  /\ Len(x \o <<m>>) <= n + 1
         /\ \A i \in DOMAIN (x \o <<m>>) : (x \o <<m>>)[i] = inv[n + 1 - Len(x \o <<m>>) + i]
  <1> DEFINE y == x \o <<m>>
  <1>1. /\ y \in Seq(S) /\ Len(y) = Len(x) + 1 /\ y[Len(x) + 1] = m
        /\ \A i \in 1..Len(x) : y[i] = x[i]
    OBVIOUS
  <1> HIDE DEF y
  <1>2. ASSUME NEW i \in DOMAIN y PROVE y[i] = inv[n + 1 - Len(y) + i]
    <2>0. i \in 1..Len(x) + 1 /\ Len(x) \in Nat
      BY <1>1
    <2>1. n + 1 - Len(y) + i = n - Len(x) + i
      BY <1>1, <2>0
    <2>2. CASE i \in 1..Len(x)
      BY <1>1, <2>1, <2>2
    <2>3. CASE i = Len(x) + 1
      <3>1. n - Len(x) + i = n + 1
        BY <2>0, <2>3
      <3> QED BY <1>1, <2>1, <2>3, <3>1
    <2> QED BY <2>0, <2>2, <2>3
  <1> QED BY <1>1, <1>2 DEF y

\* The reader takes a method call: it is the next of its channel.
LEMMA OrderInvoke ==
  ASSUME OrderInv, TypeInv', ReaderInvoke
  PROVE  OrderInv'
  <1> USE DEF clientVars, handlerVars, readerVars, deviceVars
  <1> DEFINE m == Head(toHost)
  <1>0. /\ toHost # <<>> /\ toHost' = Tail(toHost) /\ IsInvoke(m) /\ reader = "read"
        /\ reader' \in {"ack", "dispatch"} /\ rmsg' = <<m>>
        /\ UNCHANGED <<invoked, devMsgs, rx, handled, hand, queue, pc, want>>
    BY DEF ReaderInvoke, ReadsOne, IsInvoke
  <1>1. toHost \in Seq(Message) /\ m \in Message /\ m.chan \in Channels /\ rmsg = <<>>
    <2>1. toHost \in Seq(Message) /\ rmsg = <<>>
      BY <1>0 DEF OrderInv, TypeInv, TypeOK, OneAtATime
    <2>2. m \in Message
      BY <1>0, <2>1, SeqFacts
    <2> QED BY <2>1, <2>2 DEF Message
  <1>2. m = toHost[1] /\ 1 \in DOMAIN toHost /\ ToSet(toHost) = {m} \cup ToSet(toHost')
    BY <1>0, <1>1, Taken
  <1>3. PICK k \in DOMAIN invoked[m.chan] : invoked[m.chan][k] = m
    BY <1>0, <1>2 DEF OrderInv, OnSocket
  <1>4. \A e \in ToSet(toHost') : IsInvoke(e) => m.tag < e.tag
    <2>1. \A j \in DOMAIN toHost' : j + 1 \in DOMAIN toHost /\ toHost'[j] = toHost[j + 1] /\ 1 < j + 1
      BY <1>0, <1>1, Taken
    <2> QED BY <1>0, <1>2, <2>1 DEF OrderInv, OnSocket, ToSet
  <1>5. m.tag \in Nat
    BY <1>1 DEF Message
  <1>6. Serial' /\ OnSocket'
    BY <1>0, SocketTaken
  <1>7. OneAtATime' /\ Unheard' /\ RegisteredOnce'
    <2>1. Len(<<m>>) = 1 /\ Head(<<m>>) = m
      OBVIOUS
    <2>2. Len(rmsg') = 1
      BY ONLY <1>0, <2>1, Zenon
    <2> HIDE DEF m
    <2> QED BY <1>0, <2>2 DEF OrderInv, OneAtATime, Unheard, RegisteredOnce
  <1>8. ASSUME NEW ch \in Channels, ch # m.chan PROVE InOrder(ch)'
    <2>1. Seen(ch)' = Seen(ch)
      <3>1. Head(rmsg').chan # ch
        BY <1>0, <1>8
      <3> QED BY <1>0, <1>1, <3>1 DEF Seen
    <2>2. \A l \in DOMAIN invoked[ch] : invoked[ch][l] # m
      BY <1>8 DEF OrderInv, Serial
    <2>3. \A l \in DOMAIN invoked[ch] : invoked[ch][l] \in ToSet(toHost') <=> invoked[ch][l] \in ToSet(toHost)
      BY <1>2, <2>2
    <2> QED BY <1>0, <2>1, <2>3, InOrderKept DEF OrderInv
  <1>9. ASSUME NEW ch \in Channels, ch = m.chan PROVE InOrder(ch)'
    <2> DEFINE own == handled[ch] \o hand[ch] \o queue[ch]
               sent == invoked[ch]
    <2> SUFFICES ASSUME rx'[ch] # "dropped" PROVE \E n \in 0..Len(sent) : UpTo(ch, n)'
      BY <1>0 DEF InOrder
    <2>1. own \in Seq(Message) /\ sent \in Seq(Message)
      <3>1. handled[ch] \in Seq(Message) /\ hand[ch] \in Seq(Message) /\ queue[ch] \in Seq(Message)
        BY <1>1 DEF OrderInv, TypeInv, TypeOK, HandlerTypes
      <3>2. handled[ch] \o hand[ch] \in Seq(Message)
        BY <3>1, Joined
      <3>3. own \in Seq(Message)
        BY <3>1, <3>2, Joined
      <3> QED BY <1>1, <3>3 DEF OrderInv, TypeInv, TypeOK, DeviceTypes
    <2>2. Seen(ch) = own
      <3>1. own \o <<>> = own
        BY ONLY <2>1, Nothing
      <3> QED BY <1>1, <3>1 DEF Seen
    <2>3. Seen(ch)' = own \o <<m>>
      <3>1. rmsg' # <<>> /\ Head(rmsg').chan = ch
        BY <1>0, <1>9
      <3>2. Seen(ch)' = handled[ch] \o hand[ch] \o queue[ch] \o rmsg'
        BY <1>0, <3>1 DEF Seen
      <3> QED BY ONLY <1>0, <3>2, Zenon
    <2>4. PICK n \in 0..Len(sent) : UpTo(ch, n)
      BY <1>0, <1>1 DEF OrderInv, InOrder
    <2>5. /\ {l \in DOMAIN sent : sent[l] \in ToSet(toHost)} = n + 1..Len(sent)
          /\ Len(own) <= n /\ \A i \in DOMAIN own : own[i] = sent[n - Len(own) + i]
      BY <2>2, <2>4, Zenon DEF UpTo
    <2>6. /\ \A l \in DOMAIN sent : IsInvoke(sent[l]) /\ sent[l].tag \in Nat
          /\ \A l, j \in DOMAIN sent : l < j => sent[l].tag < sent[j].tag
      <3>1. \A l \in DOMAIN sent : sent[l] \in Message
        BY <2>1
      <3>2. \A e \in Message : e.tag \in Nat
        BY DEF Message
      <3> QED BY <3>1, <3>2 DEF OrderInv, Serial
    <2>7. k \in DOMAIN sent /\ sent[k] = m
      BY <1>3, <1>9
    <2> HIDE DEF own, sent, m
    <2>8. k = n + 1
      <3>1. k \in n + 1..Len(sent)
        BY <1>2, <2>5, <2>7
      <3>2. ASSUME n + 1 < k PROVE FALSE
        <4>1. n + 1 \in n + 1..Len(sent) /\ n + 1 \in DOMAIN sent
          BY <2>1, <2>4, <3>1, <3>2
        <4>2. sent[n + 1] \in ToSet(toHost) /\ sent[n + 1].tag < m.tag
          BY <2>5, <2>6, <2>7, <3>2, <4>1
        <4>3. sent[n + 1] = m \/ m.tag < sent[n + 1].tag
          BY <1>2, <1>4, <2>6, <4>1, <4>2
        <4> QED BY <1>5, <2>6, <4>1, <4>2, <4>3
      <3> QED BY <2>1, <2>4, <3>1, <3>2
    <2>9. {l \in DOMAIN sent : sent[l] \in ToSet(toHost')} = n + 2..Len(sent)
      <3>1. m \notin ToSet(toHost')
        BY <1>0, <1>4, <1>5
      <3>2. \A l \in DOMAIN sent : sent[l] = m <=> l = n + 1
        BY <1>5, <2>1, <2>6, <2>7, <2>8
      <3>3. \A l \in DOMAIN sent : sent[l] \in ToSet(toHost') <=> l \in n + 1..Len(sent) /\ l # n + 1
        BY <1>2, <2>5, <3>1, <3>2
      <3>4. DOMAIN sent = 1..Len(sent) /\ Len(sent) \in Nat
        BY <2>1
      <3> QED BY <2>4, <3>3, <3>4
    <2>10. n \in Nat /\ n + 1 \in 0..Len(sent) /\ sent[n + 1] = m
      BY <2>1, <2>4, <2>7, <2>8
    <2>11. /\ Len(own \o <<m>>) <= n + 1
           /\ \A i \in DOMAIN (own \o <<m>>) : (own \o <<m>>)[i] = sent[n + 1 - Len(own \o <<m>>) + i]
      BY ONLY <1>1, <2>1, <2>5, <2>10, OneMore
    <2>12. PICK p \in 0..Len(sent) : p = n + 1
      BY <2>10
    <2>13. UpTo(ch, p)'
      <3>1. invoked'[ch] = sent
        BY <1>0 DEF sent
      <3>2. {l \in DOMAIN invoked'[ch] : invoked'[ch][l] \in ToSet(toHost')} = p + 1..Len(invoked'[ch])
        BY <2>9, <2>10, <2>12, <3>1
      <3>3. Len(Seen(ch)') <= p
        BY ONLY <2>3, <2>11, <2>12, Zenon
      <3>4. \A i \in DOMAIN (Seen(ch)') : (Seen(ch)')[i] = invoked'[ch][p - Len(Seen(ch)') + i]
        <4> DEFINE w == own \o <<m>>
        <4>1. Seen(ch)' = w /\ \A i \in DOMAIN w : w[i] = sent[n + 1 - Len(w) + i]
          BY ONLY <2>3, <2>11, Zenon
        <4> HIDE DEF w
        <4>2. \A i \in DOMAIN w : w[i] = sent[p - Len(w) + i]
          BY ONLY <2>12, <4>1
        <4> QED BY ONLY <3>1, <4>1, <4>2, Zenon
      <3> QED BY ONLY <3>2, <3>3, <3>4, Zenon DEF UpTo
    <2> QED BY <2>12, <2>13
  <1> QED BY <1>1, <1>6, <1>7, <1>8, <1>9 DEF OrderInv

\* The reader acknowledges, or ends.
LEMMA OrderIdle ==
  ASSUME OrderInv, TypeInv', ReaderAutoAck \/ ReaderExit
  PROVE  OrderInv'
  <1> USE DEF clientVars, handlerVars, readerVars, deviceVars
  <1>0. /\ UNCHANGED <<toHost, invoked, devMsgs, rmsg, rx, handled, hand, queue, pc, want>>
        /\ (reader = "ack" /\ reader' = "dispatch") \/ (reader = "read" /\ reader' = "exited")
    BY DEF ReaderAutoAck, ReaderExit
  <1>1. Serial' /\ OnSocket' /\ OneAtATime' /\ Unheard' /\ RegisteredOnce'
    BY <1>0 DEF OrderInv, Serial, OnSocket, OneAtATime, Unheard, RegisteredOnce
  <1>2. ASSUME NEW ch \in Channels PROVE InOrder(ch)'
    <2>1. Seen(ch)' = Seen(ch)
      BY <1>0 DEF Seen
    <2> QED BY <1>0, <2>1, InOrderKept DEF OrderInv
  <1> QED BY <1>1, <1>2 DEF OrderInv

\* The reader delivers the message it holds, drops it, or blocks.
LEMMA OrderDispatch ==
  ASSUME OrderInv, TypeInv', ReaderDispatch \/ ReaderSend
  PROVE  OrderInv'
  <1> USE DEF clientVars, handlerVars, readerVars, deviceVars
  <1> DEFINE m == Head(rmsg)
             gone == rx[m.chan] \in {"none", "dropped"} /\ reader' = "read" /\ rmsg' = <<>> /\ UNCHANGED queue
             delivered == rx[m.chan] \in {"held", "served"} /\ reader' = "read" /\ rmsg' = <<>> /\ Deliver(m)
             blocked == rx[m.chan] \in {"held", "served"} /\ reader' = "sending" /\ UNCHANGED <<rmsg, queue>>
  <1>1. rmsg \in Seq(Message) /\ Len(rmsg) = 1 /\ reader \in {"dispatch", "sending"}
    BY DEF ReaderDispatch, ReaderSend, OrderInv, OneAtATime, TypeInv, TypeOK, ReaderTypes
  <1>2. rmsg = <<m>> /\ rmsg # <<>> /\ m \in Message
    BY ONLY <1>1
  <1>3. m.chan \in Channels /\ HandlerTypes
    BY <1>2 DEF Message, OrderInv, TypeInv, TypeOK
  <1>4. /\ UNCHANGED <<toHost, invoked, devMsgs, rx, handled, hand, pc, want>>
        /\ gone \/ delivered \/ blocked
    <2>1. CASE ReaderDispatch
      BY <2>1 DEF ReaderDispatch
    <2>2. CASE ReaderSend
      <3>1. rx[m.chan] # "none"
        BY <1>3, <2>2 DEF ReaderSend, OrderInv, Unheard
      <3>2. rx[m.chan] \in {"held", "served", "dropped"}
        BY <1>3, <3>1 DEF HandlerTypes
      <3> QED BY <2>2, <3>2 DEF ReaderSend
    <2> QED BY <2>1, <2>2
  <1>5. Serial' /\ OnSocket' /\ RegisteredOnce'
    BY <1>4 DEF OrderInv, Serial, OnSocket, RegisteredOnce
  <1>6. OneAtATime'
    BY <1>1, <1>4 DEF OrderInv, OneAtATime
  <1>7. Unheard'
    <2>1. \A ch \in Channels : ch # m.chan => queue'[ch] = queue[ch]
      BY <1>3, <1>4 DEF Deliver, HandlerTypes
    <2>2. ~gone => rx[m.chan] # "none"
      BY <1>4
    <2>3. gone => reader' = "read" /\ queue' = queue
      OBVIOUS
    <2>4. reader' = "sending" => blocked /\ rmsg' = rmsg
      BY <1>4
    <2> HIDE DEF gone, blocked
    <2> QED BY <1>4, <2>1, <2>2, <2>3, <2>4 DEF OrderInv, Unheard
  <1>8. ASSUME NEW ch \in Channels PROVE InOrder(ch)'
    <2> DEFINE own == handled[ch] \o hand[ch]
    <2>0. handled[ch] \in Seq(Message) /\ hand[ch] \in Seq(Message) /\ queue[ch] \in Seq(Message)
      BY <1>3 DEF HandlerTypes
    <2>1. own \in Seq(Message) /\ own \o queue[ch] \in Seq(Message)
      BY <2>0, Joined
    <2>2. CASE blocked
      <3>1. Seen(ch)' = Seen(ch)
        BY <1>4, <2>2 DEF Seen
      <3> QED BY <1>4, <3>1, InOrderKept DEF OrderInv
    <2>3. CASE ~blocked /\ ch # m.chan
      <3>1. queue'[ch] = queue[ch] /\ rmsg' = <<>>
        BY <1>3, <1>4, <2>3 DEF Deliver, HandlerTypes
      <3>2. Seen(ch)' = Seen(ch)
        BY <1>4, <2>3, <3>1 DEF Seen
      <3> QED BY <1>4, <3>2, InOrderKept DEF OrderInv
    <2>4. CASE delivered /\ ch = m.chan
      <3>1. queue'[ch] = Append(queue[ch], m) /\ rmsg' = <<>>
        BY <1>3, <2>4 DEF Deliver, HandlerTypes
      <3>2. Seen(ch) = (own \o queue[ch]) \o rmsg
        BY <1>2, <2>4 DEF Seen
      <3>3. Seen(ch)' = (own \o Append(queue[ch], m)) \o <<>>
        BY <1>4, <3>1 DEF Seen
      <3> HIDE DEF own, m
      <3>4. Append(queue[ch], m) \in Seq(Message)
        BY <1>2, <2>0, SeqFacts
      <3>5. own \o Append(queue[ch], m) \in Seq(Message)
        BY <2>1, <3>4, Joined
      <3>6. Seen(ch)' = own \o Append(queue[ch], m)
        BY ONLY <3>3, <3>5, Nothing
      <3>7. (own \o queue[ch]) \o <<m>> = own \o Append(queue[ch], m)
        <4> DEFINE u == <<m>>
        <4>1. u \in Seq(Message)
          BY <1>2, Single
        <4>2. Append(queue[ch], m) = queue[ch] \o u
          BY ONLY <1>2, <2>0, Appended, Zenon
        <4> HIDE DEF u
        <4>3. (own \o queue[ch]) \o u = own \o (queue[ch] \o u)
          <5> DEFINE q == queue[ch]
          <5>1. own \in Seq(Message) /\ q \in Seq(Message) /\ u \in Seq(Message)
            BY <2>0, <2>1, <4>1
          <5> HIDE DEF q
          <5>2. (own \o q) \o u = own \o (q \o u)
            BY ONLY <5>1
          <5> QED BY <5>2 DEF q
        <4> QED BY ONLY <4>2, <4>3, Zenon DEF u
      <3>8. Seen(ch)' = Seen(ch)
        BY ONLY <1>2, <3>2, <3>6, <3>7, Zenon
      <3> QED BY <1>4, <3>8, InOrderKept DEF OrderInv
    <2>5. CASE gone /\ ch = m.chan /\ rx[ch] = "none"
      <3>1. /\ handled[ch] = <<>> /\ hand[ch] = <<>> /\ queue[ch] = <<>>
            /\ handled'[ch] = <<>> /\ hand'[ch] = <<>> /\ queue'[ch] = <<>> /\ rmsg' = <<>>
        BY <1>4, <2>5 DEF OrderInv, Unheard
      <3>2. Seen(ch)' = <<>>
        BY <3>1 DEF Seen
      <3>3. PICK n \in 0..Len(invoked[ch]) : UpTo(ch, n)
        BY <2>5 DEF OrderInv, InOrder
      <3>4. Len(<<>>) <= n /\ \A i \in DOMAIN <<>> : <<>>[i] = invoked[ch][n - Len(<<>>) + i]
        BY <3>3
      <3>5. UpTo(ch, n)'
        BY ONLY <1>4, <3>2, <3>3, <3>4, Zenon DEF UpTo
      <3> QED BY <1>4, <3>5 DEF InOrder
    <2>6. CASE gone /\ ch = m.chan /\ rx[ch] = "dropped"
      BY <1>4, <2>6 DEF InOrder
    <2> QED BY <1>4, <2>2, <2>3, <2>4, <2>5, <2>6
  <1> QED BY <1>5, <1>6, <1>7, <1>8 DEF OrderInv

\* The device sends something other than a method call, or closes.
LEMMA OrderDevOther ==
  ASSUME OrderInv, TypeInv', DevReply \/ DevNoise \/ DevClose
  PROVE  OrderInv'
  <1> USE DEF clientVars, handlerVars, readerVars, deviceVars
  <1>0. toHost \in Seq(Message) /\ devMsgs \in Nat
    BY DtxAssumption DEF OrderInv, TypeInv, TypeOK, DeviceTypes
  <1>1. UNCHANGED <<invoked, reader, rmsg, rx, handled, hand, queue, pc, want>>
    BY DEF DevReply, DevNoise, DevClose, DeviceSends
  <1>2. \/ UNCHANGED <<toHost, devMsgs>>
        \/ devMsgs' = devMsgs + 1 /\ \E m \in Message : ~IsInvoke(m) /\ toHost' = Append(toHost, m)
    <2>1. CASE DevClose
      BY <2>1 DEF DevClose
    <2>2. CASE DevReply
      <3>1. PICK k \in devCalls, t \in {"Ack", "Reply"} :
              DeviceSends([conv |-> 1, type |-> t, id |-> k.id, chan |-> 0,
                           expects |-> FALSE, frags |-> FALSE, tag |-> k.call])
        BY <2>2 DEF DevReply
      <3>2. [conv |-> 1, type |-> t, id |-> k.id, chan |-> 0,
             expects |-> FALSE, frags |-> FALSE, tag |-> k.call] \in Message
        BY DtxAssumption DEF OrderInv, TypeInv, TypeOK, DeviceTypes, Message
      <3> QED BY <3>1, <3>2 DEF DeviceSends, IsInvoke
    <2>3. CASE DevNoise
      <3>1. PICK t \in {"Ack", "Bad"} :
              DeviceSends([conv |-> 0, type |-> t, id |-> FirstId, chan |-> 0,
                           expects |-> FALSE, frags |-> FALSE, tag |-> devMsgs + 1])
        BY <2>3 DEF DevNoise
      <3>2. [conv |-> 0, type |-> t, id |-> FirstId, chan |-> 0,
             expects |-> FALSE, frags |-> FALSE, tag |-> devMsgs + 1] \in Message
        BY <1>0, DtxAssumption DEF Message
      <3> QED BY <3>1, <3>2 DEF DeviceSends, IsInvoke
    <2> QED BY <2>1, <2>2, <2>3
  <1>3. \A j \in DOMAIN toHost' : IsInvoke(toHost'[j]) => j \in DOMAIN toHost /\ toHost'[j] = toHost[j]
    BY <1>0, <1>2, Added
  <1>4. \A t : t \in 1..devMsgs => t \in 1..devMsgs'
    BY <1>0, <1>2
  <1>5. Serial'
    BY <1>1, <1>4 DEF OrderInv, Serial
  <1>6. OnSocket'
    BY <1>1, <1>3, <1>4 DEF OrderInv, OnSocket
  <1>7. OneAtATime' /\ Unheard' /\ RegisteredOnce'
    BY <1>1 DEF OrderInv, OneAtATime, Unheard, RegisteredOnce
  <1>8. ASSUME NEW ch \in Channels PROVE InOrder(ch)'
    <2>1. Seen(ch)' = Seen(ch)
      BY <1>1 DEF Seen
    <2>2. \A k \in DOMAIN invoked[ch] : IsInvoke(invoked[ch][k])
      BY DEF OrderInv, Serial
    <2>3. \A e : IsInvoke(e) => (e \in ToSet(toHost') <=> e \in ToSet(toHost))
      <3>1. CASE toHost' = toHost
        BY <3>1
      <3>2. ASSUME NEW m \in Message, ~IsInvoke(m), toHost' = Append(toHost, m)
            PROVE  \A e : IsInvoke(e) => (e \in ToSet(toHost') <=> e \in ToSet(toHost))
        <4>1. ToSet(toHost') = ToSet(toHost) \cup {m}
          BY <1>0, <3>2, Added
        <4> QED BY <3>2, <4>1
      <3> QED BY <1>2, <3>1, <3>2
    <2> QED BY <1>1, <2>1, <2>2, <2>3, InOrderKept DEF OrderInv
  <1> QED BY <1>5, <1>6, <1>7, <1>8 DEF OrderInv

\* The device sends a method call: its number is new.
LEMMA OrderDevInvoke ==
  ASSUME OrderInv, TypeInv', NEW ch \in Channels, NEW e \in BOOLEAN, NEW f \in BOOLEAN,
         NEW i \in 1..(IdMod - 1), DevInvoke(ch, e, f, i)
  PROVE  OrderInv'
  <1> USE DEF clientVars, handlerVars, readerVars, deviceVars
  <1> DEFINE m == [conv |-> 0, type |-> "MethodInvoke", id |-> i, chan |-> ch,
                   expects |-> e, frags |-> f, tag |-> devMsgs + 1]
             sent == invoked[ch]
  <1>0. toHost \in Seq(Message) /\ devMsgs \in Nat /\ sent \in Seq(Message)
        /\ invoked \in [Channels -> Seq(Message)]
    BY DtxAssumption DEF OrderInv, TypeInv, TypeOK, DeviceTypes
  <1>1. m \in Message /\ IsInvoke(m) /\ m.conv = 0 /\ m.chan = ch /\ m.tag = devMsgs + 1
    BY <1>0, DtxAssumption DEF Message, IsInvoke
  <1>2. /\ UNCHANGED <<reader, rmsg, rx, handled, hand, queue, pc, want>>
        /\ devMsgs' = devMsgs + 1 /\ toHost' = Append(toHost, m) /\ invoked' = [invoked EXCEPT ![ch] = Append(@, m)]
    BY DEF DevInvoke, DeviceSends
  <1>3. invoked'[ch] = Append(sent, m) /\ \A x \in Channels : x # ch => invoked'[x] = invoked[x]
    BY <1>0, <1>2
  <1> HIDE DEF m
  <1>4. /\ DOMAIN invoked'[ch] = DOMAIN sent \cup {Len(sent) + 1} /\ Len(invoked'[ch]) = Len(sent) + 1
        /\ \A k \in DOMAIN sent : invoked'[ch][k] = sent[k] /\ k < Len(sent) + 1
        /\ invoked'[ch][Len(sent) + 1] = m
    <2>1. Len(Append(sent, m)) = Len(sent) + 1 /\ DOMAIN sent = 1..Len(sent) /\ Len(sent) \in Nat
      BY <1>0, <1>1
    <2> QED BY <1>0, <1>1, <1>3, <2>1, Added
  <1>5. /\ DOMAIN toHost' = DOMAIN toHost \cup {Len(toHost) + 1} /\ ToSet(toHost') = ToSet(toHost) \cup {m}
        /\ \A j \in DOMAIN toHost : toHost'[j] = toHost[j] /\ j < Len(toHost) + 1
        /\ toHost'[Len(toHost) + 1] = m
    <2>1. DOMAIN toHost = 1..Len(toHost) /\ Len(toHost) \in Nat
      BY <1>0
    <2> QED BY <1>0, <1>1, <1>2, <2>1, Added
  <1>6. \A t : t \in 1..devMsgs => t \in 1..devMsgs' /\ t < devMsgs + 1
    BY <1>0, <1>2
  <1>7. devMsgs + 1 \in 1..devMsgs'
    BY <1>0, <1>2
  <1>8. /\ \A k \in DOMAIN sent : LET q == sent[k] IN IsInvoke(q) /\ q.conv = 0 /\ q.chan = ch /\ q.tag \in 1..devMsgs
        /\ \A k, l \in DOMAIN sent : k < l => sent[k].tag < sent[l].tag
    BY DEF OrderInv, Serial
  <1>9. Serial'
    <2>1. ASSUME NEW x \in Channels, x # ch
          PROVE  /\ \A k \in DOMAIN invoked'[x] : LET q == invoked'[x][k]
                      IN IsInvoke(q) /\ q.conv = 0 /\ q.chan = x /\ q.tag \in 1..devMsgs'
                 /\ \A k, l \in DOMAIN invoked'[x] : k < l => invoked'[x][k].tag < invoked'[x][l].tag
      BY <1>3, <1>6, <2>1 DEF OrderInv, Serial
    <2>2. \A k \in DOMAIN invoked'[ch] : LET q == invoked'[ch][k]
            IN IsInvoke(q) /\ q.conv = 0 /\ q.chan = ch /\ q.tag \in 1..devMsgs'
      BY <1>1, <1>4, <1>6, <1>7, <1>8
    <2>3. ASSUME NEW k \in DOMAIN invoked'[ch], NEW l \in DOMAIN invoked'[ch], k < l
          PROVE  invoked'[ch][k].tag < invoked'[ch][l].tag
      <3>1. k \in DOMAIN sent
        BY <1>0, <1>4, <2>3
      <3>2. CASE l \in DOMAIN sent
        BY <1>4, <1>8, <2>3, <3>1, <3>2
      <3>3. CASE l = Len(sent) + 1
        BY <1>1, <1>4, <1>6, <1>8, <3>1, <3>3
      <3> QED BY <1>4, <3>2, <3>3
    <2> QED BY <2>1, <2>2, <2>3 DEF Serial
  <1>10. OnSocket'
    <2>1. ASSUME NEW j \in DOMAIN toHost', IsInvoke(toHost'[j])
          PROVE  /\ toHost'[j].conv = 0 /\ toHost'[j].tag \in 1..devMsgs'
                 /\ \E k \in DOMAIN invoked'[toHost'[j].chan] : invoked'[toHost'[j].chan][k] = toHost'[j]
      <3>1. CASE j \in DOMAIN toHost
        <4>1. PICK k \in DOMAIN invoked[toHost[j].chan] : invoked[toHost[j].chan][k] = toHost[j]
          BY <1>5, <2>1, <3>1 DEF OrderInv, OnSocket
        <4>2. toHost[j].chan \in Channels
          <5>1. toHost[j] \in Message
            BY <1>0, <3>1
          <5> QED BY <5>1 DEF Message
        <4>3. k \in DOMAIN invoked'[toHost[j].chan] /\ invoked'[toHost[j].chan][k] = toHost[j]
          BY <1>3, <1>4, <4>1, <4>2
        <4> QED BY <1>5, <1>6, <2>1, <3>1, <4>3 DEF OrderInv, OnSocket
      <3>2. CASE j = Len(toHost) + 1
        BY <1>1, <1>4, <1>5, <1>7, <3>2
      <3> QED BY <1>5, <3>1, <3>2
    <2>2. ASSUME NEW k \in DOMAIN toHost', NEW l \in DOMAIN toHost', k < l, IsInvoke(toHost'[k]), IsInvoke(toHost'[l])
          PROVE  toHost'[k].tag < toHost'[l].tag
      <3>1. k \in DOMAIN toHost
        BY <1>0, <1>5, <2>2
      <3>2. CASE l \in DOMAIN toHost
        BY <1>5, <2>2, <3>1, <3>2 DEF OrderInv, OnSocket
      <3>3. CASE l = Len(toHost) + 1
        BY <1>1, <1>5, <1>6, <2>2, <3>1, <3>3 DEF OrderInv, OnSocket
      <3> QED BY <1>5, <3>2, <3>3
    <2> QED BY <2>1, <2>2 DEF OnSocket
  <1>11. OneAtATime' /\ Unheard' /\ RegisteredOnce'
    BY <1>2 DEF OrderInv, OneAtATime, Unheard, RegisteredOnce
  <1>12. ASSUME NEW x \in Channels, x # ch PROVE InOrder(x)'
    <2>1. Seen(x)' = Seen(x)
      BY <1>2 DEF Seen
    <2>2. \A k \in DOMAIN invoked[x] : invoked[x][k] # m
      BY <1>1, <1>12 DEF OrderInv, Serial
    <2>3. \A k \in DOMAIN invoked[x] : invoked[x][k] \in ToSet(toHost') <=> invoked[x][k] \in ToSet(toHost)
      BY <1>5, <2>2
    <2> QED BY <1>2, <1>3, <1>12, <2>1, <2>3, InOrderKept DEF OrderInv
  <1>13. InOrder(ch)'
    <2> DEFINE w == Seen(ch)
    <2> SUFFICES ASSUME rx'[ch] # "dropped" PROVE \E n \in 0..Len(invoked'[ch]) : UpTo(ch, n)'
      BY DEF InOrder
    <2>1. PICK n \in 0..Len(sent) : UpTo(ch, n)
      BY <1>2 DEF OrderInv, InOrder
    <2>2. /\ {k \in DOMAIN sent : sent[k] \in ToSet(toHost)} = n + 1..Len(sent)
          /\ Len(w) <= n /\ \A j \in DOMAIN w : w[j] = sent[n - Len(w) + j]
      BY <2>1, Zenon DEF UpTo
    <2>3. Seen(ch)' = w
      BY <1>2 DEF Seen
    <2>4. w \in Seq(Message)
      <3>1. handled[ch] \in Seq(Message) /\ hand[ch] \in Seq(Message) /\ queue[ch] \in Seq(Message)
        BY DEF OrderInv, TypeInv, TypeOK, HandlerTypes
      <3>2. handled[ch] \o hand[ch] \in Seq(Message)
        BY <3>1, Joined
      <3>3. handled[ch] \o hand[ch] \o queue[ch] \in Seq(Message)
        BY <3>1, <3>2, Joined
      <3>4. rmsg \in Seq(Message) /\ <<>> \in Seq(Message)
        BY DEF OrderInv, TypeInv, TypeOK, ReaderTypes
      <3> QED BY <3>3, <3>4, Joined DEF Seen
    <2> HIDE DEF w, sent
    <2>5. {k \in DOMAIN invoked'[ch] : invoked'[ch][k] \in ToSet(toHost')} = n + 1..Len(invoked'[ch])
      <3>1. \A k \in DOMAIN sent : sent[k] # m
        BY <1>1, <1>6, <1>8
      <3>2. \A k \in DOMAIN sent : invoked'[ch][k] \in ToSet(toHost') <=> k \in n + 1..Len(sent)
        BY <1>4, <1>5, <2>2, <3>1
      <3>3. invoked'[ch][Len(sent) + 1] \in ToSet(toHost')
        BY <1>4, <1>5
      <3>4. DOMAIN sent = 1..Len(sent) /\ Len(sent) \in Nat
        BY <1>0
      <3> QED BY <1>4, <2>1, <3>2, <3>3, <3>4
    <2>6. ASSUME NEW j \in DOMAIN w PROVE w[j] = invoked'[ch][n - Len(w) + j]
      <3>1. n - Len(w) + j \in 1..Len(sent)
        BY <1>0, <2>1, <2>2, <2>4
      <3> QED BY <1>0, <1>4, <2>2, <3>1
    <2>7. UpTo(ch, n)'
      <3>1. Len(w) <= n
        BY <2>2
      <3> QED BY ONLY <2>3, <2>5, <2>6, <3>1, Zenon DEF UpTo
    <2>8. n \in 0..Len(invoked'[ch])
      BY <1>0, <1>4, <2>1
    <2> QED BY <2>7, <2>8
  <1> QED BY <1>9, <1>10, <1>11, <1>12, <1>13 DEF OrderInv

LEMMA OrderNext == OrderInv /\ [Next]_vars => OrderInv'
  <1> SUFFICES ASSUME OrderInv, [Next]_vars PROVE OrderInv'
    OBVIOUS
  <1>0. TypeInv'
    BY TypeNext DEF OrderInv
  <1>1. ASSUME NEW c \in Callers, ClientStep(c) PROVE OrderInv'
    BY <1>0, <1>1, OrderClient
  <1>2. ASSUME NEW ch \in Channels, HandlerRecv(ch) \/ HandlerDone(ch) \/ HandlerQuit(ch) PROVE OrderInv'
    BY <1>0, <1>2, OrderHandler
  <1>3. CASE ReaderStep
    BY <1>0, <1>3, OrderDropped, OrderInvoke, OrderIdle, OrderDispatch DEF ReaderStep
  <1>4. CASE DeviceStep
    BY <1>0, <1>4, OrderDevOther, OrderDevInvoke DEF DeviceStep
  <1>5. CASE UNCHANGED vars
    <2> USE DEF clientVars, handlerVars, readerVars, deviceVars
    <2>1. Serial' /\ OnSocket' /\ OneAtATime' /\ Unheard' /\ RegisteredOnce'
      BY <1>5 DEF vars, OrderInv, Serial, OnSocket, OneAtATime, Unheard, RegisteredOnce
    <2>2. ASSUME NEW ch \in Channels PROVE InOrder(ch)'
      <3>1. Seen(ch)' = Seen(ch) /\ UNCHANGED <<toHost, invoked, rx>>
        BY <1>5 DEF vars, Seen
      <3> QED BY <3>1, InOrderKept DEF OrderInv
    <2> QED BY <1>0, <2>1, <2>2 DEF OrderInv
  <1> QED BY <1>1, <1>2, <1>3, <1>4, <1>5 DEF Next, ClientStep

\* For any number of channels and calls: from the moment a channel is
\* registered its handler sees every method call the device sends on it, in the
\* order it sent them and each once, a full queue and a reader that blocks on
\* it included (reader_loop, lines 736-747).
THEOREM CallsInOrder == Spec => []DispatchInOrder
  <1>1. OrderInv => DispatchInOrder
    <2>1. ASSUME OrderInv, NEW ch \in Channels, rx[ch] # "dropped"
          PROVE  \E n \in 0..Len(invoked[ch]) : UpTo(ch, n)
      BY <2>1 DEF OrderInv, InOrder
    <2> QED BY <2>1 DEF OrderInv, OnSocket, IsInvoke, DispatchInOrder, UpTo
  <1> QED BY <1>1, OrderInit, OrderNext, PTL DEF Spec

-----------------------------------------------------------------------------
(* The answers.  A request is on its way, or has come to the channel's       *)
(* handler, or the reader has acknowledged it; the reader lets go of one it  *)
(* cannot deliver only after its ACK.                                        *)

Pending(ch) == ToSet(toHost) \cup ToSet(rmsg) \cup ToSet(queue[ch]) \cup ToSet(hand[ch]) \cup ToSet(handled[ch])
Score(t) == answers[t]["auto"]
AnsweredOn(ch) ==
  \A k \in DOMAIN invoked[ch] :
    invoked[ch][k].expects /\ invoked[ch][k] \notin Pending(ch) /\ rx[ch] # "dropped" => Score(invoked[ch][k].tag) > 0
AckedFirst ==
  /\ \A j \in DOMAIN rmsg : rmsg[j].tag \in 1..devMsgs
  /\ reader = "dispatch" /\ Head(rmsg).expects /\ rx[Head(rmsg).chan] = "none" => Score(Head(rmsg).tag) > 0
AnswerInv == OrderInv /\ AckedFirst /\ \A ch \in Channels : AnsweredOn(ch)

LEMMA ToSetJoined ==
  ASSUME NEW S, NEW x \in Seq(S), NEW y \in Seq(S)
  PROVE  ToSet(x \o y) = ToSet(x) \cup ToSet(y)
  <1> DEFINE z == x \o y
  <1>1. /\ z \in Seq(S) /\ Len(z) = Len(x) + Len(y)
        /\ \A i \in 1..Len(x) : z[i] = x[i]
        /\ \A i \in Len(x) + 1..Len(x) + Len(y) : z[i] = y[i - Len(x)]
    BY Joined
  <1> HIDE DEF z
  <1>2. Len(x) \in Nat /\ Len(y) \in Nat /\ DOMAIN x = 1..Len(x) /\ DOMAIN y = 1..Len(y) /\ DOMAIN z = 1..Len(z)
    BY <1>1
  <1>3. ASSUME NEW i \in DOMAIN z PROVE z[i] \in ToSet(x) \cup ToSet(y)
    <2>1. CASE i <= Len(x)
      BY <1>1, <1>2, <2>1 DEF ToSet
    <2>2. CASE i > Len(x)
      <3>1. i - Len(x) \in DOMAIN y /\ z[i] = y[i - Len(x)]
        BY <1>1, <1>2, <2>2
      <3> QED BY <3>1 DEF ToSet
    <2> QED BY <1>2, <2>1, <2>2
  <1>4. ASSUME NEW i \in DOMAIN x PROVE x[i] \in ToSet(z)
    <2>1. i \in DOMAIN z /\ z[i] = x[i]
      BY <1>1, <1>2
    <2> QED BY <2>1 DEF ToSet
  <1>5. ASSUME NEW i \in DOMAIN y PROVE y[i] \in ToSet(z)
    <2>1. i + Len(x) \in DOMAIN z /\ z[i + Len(x)] = y[i + Len(x) - Len(x)] /\ i + Len(x) - Len(x) = i
      BY <1>1, <1>2
    <2> QED BY <2>1 DEF ToSet
  <1>6. ToSet(z) = ToSet(x) \cup ToSet(y)
    BY <1>3, <1>4, <1>5 DEF ToSet
  <1> QED BY <1>6 DEF z

LEMMA AnsweredMeans == ASSUME AnswerInv PROVE RequestSeenTo
  BY DEF AnswerInv, AnsweredOn, RequestSeenTo, Pending, Score

\* An answer more takes none away.
LEMMA ScoreGrows ==
  ASSUME AnswerTypes, NEW t \in 1..MaxDevMsgs, NEW j, NEW who \in Answerers, answers' = answers \/ answers' = Answer(j, who)
  PROVE  /\ Score(t) \in Nat /\ Score(t)' \in Nat /\ Score(t)' >= Score(t)
         /\ answers' = Answer(j, who) /\ j = t /\ who = "auto" => Score(t)' > 0
  <1>1. answers \in [1..MaxDevMsgs -> [Answerers -> Nat]]
    BY DEF AnswerTypes
  <1>2. \A a \in Answerers : answers[t][a] \in Nat
    BY <1>1
  <1>3. CASE answers' = answers /\ answers' # Answer(j, who)
    BY <1>2, <1>3 DEF Score, Answerers
  <1>4. CASE answers' = Answer(j, who)
    <2>1. CASE j = t
      <3>1. answers'[t] = [answers[t] EXCEPT ![who] = answers[t][who] + 1]
        BY <1>1, <1>4, <2>1 DEF Answer
      <3>2. answers[t] \in [Answerers -> Nat]
        BY <1>1
      <3>3. \A a \in Answerers : answers'[t][a] = IF a = who THEN answers[t][a] + 1 ELSE answers[t][a]
        BY <3>1, <3>2
      <3> QED BY <1>2, <3>3 DEF Score, Answerers
    <2>2. CASE j # t
      <3>1. answers'[t] = answers[t]
        BY <1>1, <1>4, <2>2 DEF Answer
      <3> QED BY <1>2, <2>2, <3>1 DEF Score, Answerers
    <2> QED BY <2>1, <2>2
  <1> QED BY <1>3, <1>4

\* A step that takes a pending request from nobody without an answer.
LEMMA AnsweredKept ==
  ASSUME AnswerInv, NEW ch \in Channels, invoked'[ch] = invoked[ch], rx'[ch] # "dropped" => rx[ch] # "dropped",
         \A t \in 1..MaxDevMsgs : Score(t)' \in Nat /\ Score(t) \in Nat /\ Score(t)' >= Score(t),
         \A k \in DOMAIN invoked[ch] :
           /\ invoked[ch][k].expects /\ invoked[ch][k] \in Pending(ch) /\ rx'[ch] # "dropped"
           /\ invoked[ch][k].tag \in 1..MaxDevMsgs /\ IsInvoke(invoked[ch][k]) /\ invoked[ch][k].chan = ch
           => invoked[ch][k] \in Pending(ch)' \/ Score(invoked[ch][k].tag)' > 0
  PROVE  AnsweredOn(ch)'
  <1> SUFFICES ASSUME NEW k \in DOMAIN invoked[ch], invoked[ch][k].expects, invoked[ch][k] \notin Pending(ch)',
                      rx'[ch] # "dropped"
               PROVE  \A t : t = invoked[ch][k].tag => Score(t)' > 0
    BY DEF AnsweredOn, Score
  <1>1. devMsgs \in 0..MaxDevMsgs /\ MaxDevMsgs \in Nat
    BY DtxAssumption DEF AnswerInv, OrderInv, TypeInv, TypeOK, DeviceTypes
  <1>2. /\ invoked[ch][k].tag \in 1..devMsgs
        /\ IsInvoke(invoked[ch][k]) /\ invoked[ch][k].chan = ch
    BY DEF AnswerInv, OrderInv, Serial
  <1>3. invoked[ch][k].tag \in 1..MaxDevMsgs
    BY <1>1, <1>2
  <1>4. CASE invoked[ch][k] \in Pending(ch)
    BY <1>2, <1>3, <1>4 DEF Score
  <1>5. CASE invoked[ch][k] \notin Pending(ch)
    <2>1. Score(invoked[ch][k].tag) > 0
      BY <1>5 DEF AnswerInv, AnsweredOn
    <2> QED BY <1>3, <2>1
  <1> QED BY <1>4, <1>5

LEMMA AnswerInit == Init => AnswerInv
  BY OrderInit DEF Init, AnswerInv, AckedFirst, AnsweredOn

LEMMA ScoreSame ==
  ASSUME AnswerTypes, UNCHANGED answers
  PROVE  \A t \in 1..MaxDevMsgs : Score(t)' \in Nat /\ Score(t) \in Nat /\ Score(t)' >= Score(t)
  BY ScoreGrows DEF Answerers

\* A step of the clients, or of a handler that takes a message or ends.
LEMMA AnswerClient ==
  ASSUME AnswerInv, OrderInv', UNCHANGED <<toHost, rmsg, reader, devMsgs, invoked, answers>>,
         \A ch \in Channels : /\ rx'[ch] # "dropped" => rx[ch] # "dropped" /\ Pending(ch) \subseteq Pending(ch)'
                              /\ rx'[ch] = "none" => rx[ch] = "none"
  PROVE  AnswerInv'
  <1>1. AnswerTypes /\ ReaderTypes
    BY DEF AnswerInv, OrderInv, TypeInv, TypeOK
  <1>2. ASSUME NEW ch \in Channels PROVE AnsweredOn(ch)'
    BY <1>1, ScoreSame, AnsweredKept
  <1>3. AckedFirst'
    <2>1. reader = "dispatch" => Head(rmsg).chan \in Channels
      <3>1. reader = "dispatch" => rmsg # <<>>
        BY DEF AnswerInv, OrderInv, TypeInv, ReaderHolds
      <3>2. reader = "dispatch" => Head(rmsg) \in Message
        BY <1>1, <3>1, SeqFacts DEF ReaderTypes
      <3> QED BY <3>2, MessageFields
    <2> QED BY <2>1 DEF AnswerInv, AckedFirst, Score
  <1> QED BY <1>2, <1>3 DEF AnswerInv

\* A message a handler is done with is among the handled ones.
LEMMA AnswerHandler ==
  ASSUME AnswerInv, OrderInv', NEW ch \in Channels, HandlerDone(ch)
  PROVE  AnswerInv'
  <1> USE DEF clientVars, readerVars, deviceVars
  <1> DEFINE m == Head(hand[ch])
  <1>0. /\ UNCHANGED <<toHost, rmsg, reader, devMsgs, invoked, rx, queue>> /\ hand[ch] # <<>>
        /\ answers' = answers \/ answers' = Answer(m.tag, "handler")
        /\ handled'[ch] = Append(handled[ch], m)
        /\ \A x \in Channels : x # ch => hand'[x] = hand[x] /\ handled'[x] = handled[x]
    BY DEF HandlerDone, AnswerInv, OrderInv, TypeInv, TypeOK, HandlerTypes
  <1>1. /\ AnswerTypes /\ ReaderTypes /\ hand[ch] \in Seq(Message) /\ Len(hand[ch]) <= 1
        /\ handled[ch] \in Seq(Message)
    BY DEF AnswerInv, OrderInv, OneAtATime, TypeInv, TypeOK, HandlerTypes
  <1>2. m \in Message /\ \A e \in ToSet(hand[ch]) : e = m
    BY <1>0, <1>1 DEF ToSet
  <1> HIDE DEF m
  <1>3. \A t \in 1..MaxDevMsgs : Score(t)' \in Nat /\ Score(t) \in Nat /\ Score(t)' >= Score(t)
    <2>1. "handler" \in Answerers
      BY DEF Answerers
    <2> QED BY <1>0, <1>1, <2>1, ScoreGrows
  <1>4. ASSUME NEW x \in Channels PROVE AnsweredOn(x)'
    <2>1. ToSet(handled'[ch]) = ToSet(handled[ch]) \cup {m}
      BY <1>0, <1>1, <1>2, Added
    <2>2. Pending(x) \subseteq Pending(x)'
      BY <1>0, <1>2, <2>1 DEF Pending
    <2> QED BY <1>0, <1>3, <2>2, AnsweredKept
  <1>5. AckedFirst'
    <2>1. ASSUME reader = "dispatch" PROVE Head(rmsg).tag \in 1..MaxDevMsgs
      <3>1. rmsg # <<>>
        BY <2>1 DEF AnswerInv, OrderInv, TypeInv, ReaderHolds
      <3>2. Head(rmsg) = rmsg[1] /\ 1 \in DOMAIN rmsg
        BY <1>1, <3>1, SeqFacts DEF ReaderTypes
      <3>3. devMsgs \in 0..MaxDevMsgs /\ MaxDevMsgs \in Nat
        BY DtxAssumption DEF AnswerInv, OrderInv, TypeInv, TypeOK, DeviceTypes
      <3> QED BY <3>2, <3>3 DEF AnswerInv, AckedFirst
    <2>2. \A t \in 1..MaxDevMsgs : Score(t) > 0 => Score(t)' > 0
      BY <1>3
    <2>3. \A j \in DOMAIN rmsg' : rmsg'[j].tag \in 1..devMsgs'
      BY <1>0 DEF AnswerInv, AckedFirst
    <2> QED BY <1>0, <2>1, <2>2, <2>3 DEF AnswerInv, AckedFirst, Score
  <1> QED BY <1>4, <1>5 DEF AnswerInv

\* What leaves the socket goes to the reader, unless it is no method call.
LEMMA AnswerTaken ==
  ASSUME AnswerInv, OrderInv', ReaderReply \/ ReaderAck \/ ReaderInvoke
  PROVE  AnswerInv'
  <1> USE DEF clientVars, handlerVars, readerVars, deviceVars
  <1> DEFINE m == Head(toHost)
  <1>0. /\ UNCHANGED <<devMsgs, invoked, rx, queue, hand, handled>> /\ toHost # <<>> /\ reader = "read"
        /\ answers' = answers \/ answers' = Answer(m.tag, "fragment")
        /\ toHost' = Tail(toHost)
        /\ \/ UNCHANGED <<reader, rmsg>> /\ (m.conv > 0 \/ m.type = "Ack")
           \/ rmsg' = <<m>> /\ IsInvoke(m) /\ (reader' = "dispatch" => ~m.expects \/ rx[m.chan] # "none")
    BY DEF ReaderReply, ReaderAck, ReaderInvoke, FragmentAcks, ReadsOne, IsInvoke, HasHandler
  <1>1. AnswerTypes /\ toHost \in Seq(Message) /\ rmsg = <<>>
    BY <1>0 DEF AnswerInv, OrderInv, OneAtATime, TypeInv, TypeOK
  <1>2. m = toHost[1] /\ 1 \in DOMAIN toHost /\ ToSet(toHost) = {m} \cup ToSet(toHost') /\ m \in Message
    BY <1>0, <1>1, Taken, SeqFacts
  <1>3. \A t \in 1..MaxDevMsgs : Score(t)' \in Nat /\ Score(t) \in Nat /\ Score(t)' >= Score(t)
    <2>1. "fragment" \in Answerers
      BY DEF Answerers
    <2> QED BY <1>0, <1>1, <2>1, ScoreGrows
  <1>4. IsInvoke(m) => m.conv = 0 /\ m.tag \in 1..devMsgs /\ m.type # "Ack"
    BY <1>2 DEF AnswerInv, OrderInv, OnSocket, IsInvoke
  <1>5. IsInvoke(m) => rmsg' = <<m>> /\ m \in ToSet(rmsg')
    <2>1. m \in ToSet(<<m>>)
      BY DEF ToSet
    <2> QED BY <1>0, <1>4, <2>1
  <1>6. ASSUME NEW ch \in Channels PROVE AnsweredOn(ch)'
    <2>1. ToSet(rmsg) = {}
      BY <1>1 DEF ToSet
    <2>2. \A e \in Pending(ch) : IsInvoke(e) => e \in Pending(ch)'
      BY <1>0, <1>2, <1>5, <2>1 DEF Pending
    <2> QED BY <1>0, <1>3, <2>2, AnsweredKept
  <1>7. AckedFirst'
    <2>1. CASE UNCHANGED <<reader, rmsg>>
      BY <1>0, <2>1 DEF AnswerInv, AckedFirst
    <2>2. CASE rmsg' = <<m>> /\ IsInvoke(m) /\ (reader' = "dispatch" => ~m.expects \/ rx[m.chan] # "none")
      <3>1. Head(rmsg') = m /\ \A j \in DOMAIN rmsg' : rmsg'[j] = m
        BY <2>2
      <3> QED BY <1>0, <1>4, <2>2, <3>1 DEF AckedFirst
    <2> QED BY <1>0, <2>1, <2>2
  <1> QED BY <1>6, <1>7 DEF AnswerInv

LEMMA AnswerAck ==
  ASSUME AnswerInv, OrderInv', ReaderAutoAck \/ ReaderExit
  PROVE  AnswerInv'
  <1> USE DEF clientVars, handlerVars, readerVars, deviceVars
  <1> DEFINE m == Head(rmsg)
  <1>0. /\ UNCHANGED <<toHost, rmsg, devMsgs, invoked, rx, queue, hand, handled>>
        /\ \/ reader = "ack" /\ answers' = Answer(m.tag, "auto")
           \/ reader' = "exited" /\ answers' = answers
    BY DEF ReaderAutoAck, ReaderExit
  <1>1. AnswerTypes /\ rmsg \in Seq(Message) /\ devMsgs \in 0..MaxDevMsgs /\ MaxDevMsgs \in Nat
    BY DtxAssumption DEF AnswerInv, OrderInv, TypeInv, TypeOK, ReaderTypes, DeviceTypes
  <1>2. reader = "ack" => m.tag \in 1..MaxDevMsgs
    <2>1. reader = "ack" => rmsg # <<>>
      BY DEF AnswerInv, OrderInv, TypeInv, ReaderHolds
    <2>2. reader = "ack" => m = rmsg[1] /\ 1 \in DOMAIN rmsg
      BY <1>1, <2>1, SeqFacts
    <2> QED BY <1>1, <2>2 DEF AnswerInv, AckedFirst
  <1>3. \A t \in 1..MaxDevMsgs :
          /\ Score(t)' \in Nat /\ Score(t) \in Nat /\ Score(t)' >= Score(t)
          /\ reader' # "exited" /\ m.tag = t => Score(t)' > 0
    <2>1. "auto" \in Answerers
      BY DEF Answerers
    <2> QED BY <1>0, <1>1, <2>1, ScoreGrows
  <1>4. ASSUME NEW ch \in Channels PROVE AnsweredOn(ch)'
    <2>1. Pending(ch)' = Pending(ch)
      BY <1>0 DEF Pending
    <2> QED BY <1>0, <1>3, <2>1, AnsweredKept
  <1>5. AckedFirst'
    <2>1. \A j \in DOMAIN rmsg' : rmsg'[j].tag \in 1..devMsgs'
      BY <1>0 DEF AnswerInv, AckedFirst
    <2>2. ASSUME reader' = "dispatch", NEW t, t = m.tag PROVE Score(t)' > 0
      BY <1>0, <1>2, <1>3, <2>2
    <2> QED BY <1>0, <2>1, <2>2 DEF AckedFirst, Score
  <1> QED BY <1>4, <1>5 DEF AnswerInv

LEMMA AnswerDispatch ==
  ASSUME AnswerInv, OrderInv', ReaderDispatch \/ ReaderSend
  PROVE  AnswerInv'
  <1> USE DEF clientVars, handlerVars, readerVars, deviceVars
  <1> DEFINE m == Head(rmsg)
  <1>0. /\ UNCHANGED <<toHost, devMsgs, invoked, rx, hand, handled, answers>> /\ reader' # "dispatch"
        /\ \/ rx[m.chan] = "none" /\ reader = "dispatch" /\ rmsg' = <<>> /\ UNCHANGED queue
           \/ rx[m.chan] = "dropped" /\ rmsg' = <<>> /\ UNCHANGED queue
           \/ rmsg' = <<>> /\ Deliver(m)
           \/ UNCHANGED <<rmsg, queue>>
    BY DEF ReaderDispatch, ReaderSend
  <1>1. AnswerTypes /\ HandlerTypes /\ rmsg \in Seq(Message) /\ Len(rmsg) = 1
    BY DEF ReaderDispatch, ReaderSend, AnswerInv, OrderInv, OneAtATime, TypeInv, TypeOK, ReaderTypes
  <1>2. m \in Message /\ ToSet(rmsg) = {m} /\ m = rmsg[1] /\ 1 \in DOMAIN rmsg
    <2>1. DOMAIN rmsg = {1} /\ m = rmsg[1] /\ rmsg[1] \in Message
      BY ONLY <1>1
    <2>2. ToSet(rmsg) = {rmsg[1]}
      BY <2>1 DEF ToSet
    <2> QED BY <2>1, <2>2
  <1>3. m.chan \in Channels /\ \A ch \in Channels : queue[ch] \in Seq(Message)
    BY <1>1, <1>2, MessageFields DEF HandlerTypes
  <1>4. \A t \in 1..MaxDevMsgs : Score(t)' \in Nat /\ Score(t) \in Nat /\ Score(t)' >= Score(t)
    BY <1>0, <1>1, ScoreSame
  <1>5. ASSUME NEW ch \in Channels PROVE AnsweredOn(ch)'
    <2>1. ToSet(queue[ch]) \subseteq ToSet(queue'[ch])
      <3>1. CASE Deliver(m)
        <4>1. queue'[ch] = queue[ch] \/ queue'[ch] = Append(queue[ch], m)
          BY <1>1, <3>1 DEF Deliver, HandlerTypes
        <4>2. queue[ch] \in Seq(Message)
          BY <1>3
        <4>3. ToSet(Append(queue[ch], m)) = ToSet(queue[ch]) \cup {m}
          BY ONLY <1>2, <4>2, Added
        <4> QED BY ONLY <4>1, <4>3, Zenon
      <3> QED BY <1>0, <3>1
    <2>2. Deliver(m) => m \in ToSet(queue'[m.chan])
      <3>1. Deliver(m) => queue'[m.chan] = Append(queue[m.chan], m)
        BY <1>1, <1>3 DEF Deliver, HandlerTypes
      <3>2. queue[m.chan] \in Seq(Message)
        BY <1>3
      <3>3. ToSet(Append(queue[m.chan], m)) = ToSet(queue[m.chan]) \cup {m}
        BY ONLY <1>2, <3>2, Added
      <3>4. m \in ToSet(Append(queue[m.chan], m))
        BY ONLY <3>3
      <3> QED BY ONLY <3>1, <3>4, Zenon
    <2>3. \A e \in Pending(ch) : e # m => e \in Pending(ch)'
      BY <1>0, <1>2, <2>1 DEF Pending
    <2>4. Deliver(m) /\ ch = m.chan => m \in Pending(ch)'
      BY <2>2 DEF Pending
    <2>5. UNCHANGED <<rmsg, queue>> => Pending(ch)' = Pending(ch)
      BY <1>0 DEF Pending
    <2>6. reader = "dispatch" /\ m.expects /\ rx[m.chan] = "none" => Score(m.tag) > 0
      BY DEF AnswerInv, AckedFirst
    <2>7. ASSUME NEW e \in Pending(ch), e.expects, e.chan = ch, rx'[ch] # "dropped", NEW t \in 1..MaxDevMsgs, t = e.tag
          PROVE  e \in Pending(ch)' \/ Score(t)' > 0
      <3>1. CASE e # m
        BY <2>3, <3>1
      <3>2. CASE e = m /\ ~(reader = "dispatch" /\ rx[m.chan] = "none" /\ rmsg' = <<>>)
        BY <1>0, <2>4, <2>5, <2>7, <3>2
      <3>3. CASE e = m /\ reader = "dispatch" /\ rx[m.chan] = "none"
        BY <1>4, <2>6, <2>7, <3>3
      <3> QED BY <3>1, <3>2, <3>3
    <2>8. \A k \in DOMAIN invoked[ch] :
            /\ invoked[ch][k].expects /\ invoked[ch][k] \in Pending(ch) /\ rx'[ch] # "dropped"
            /\ invoked[ch][k].tag \in 1..MaxDevMsgs /\ invoked[ch][k].chan = ch
            => invoked[ch][k] \in Pending(ch)' \/ Score(invoked[ch][k].tag)' > 0
      BY <1>0, <2>7 DEF Score
    <2> QED BY <1>0, <1>4, <2>8, AnsweredKept
  <1>6. AckedFirst'
    <2>1. rmsg' = <<>> \/ rmsg' = rmsg
      BY <1>0
    <2> QED BY <1>0, <2>1 DEF AnswerInv, AckedFirst
  <1> QED BY <1>5, <1>6 DEF AnswerInv

LEMMA AnswerDevice ==
  ASSUME AnswerInv, OrderInv', DeviceStep
  PROVE  AnswerInv'
  <1> USE DEF clientVars, handlerVars, readerVars, deviceVars
  <1>0. AnswerTypes /\ toHost \in Seq(Message) /\ devMsgs \in Nat /\ invoked \in [Channels -> Seq(Message)]
    BY DtxAssumption DEF AnswerInv, OrderInv, TypeInv, TypeOK, DeviceTypes
  <1>1. /\ UNCHANGED <<reader, rmsg, rx, queue, hand, handled, answers>>
        /\ devMsgs' = devMsgs \/ devMsgs' = devMsgs + 1
    BY DEF DeviceStep, DevReply, DevNoise, DevClose, DevInvoke, DeviceSends
  <1>2. toHost' \in Seq(Message)
    BY DEF OrderInv, TypeInv, TypeOK
  <1>3. AckedFirst'
    <2>1. \A t : t \in 1..devMsgs => t \in 1..devMsgs'
      BY <1>0, <1>1
    <2> QED BY <1>1, <2>1 DEF AnswerInv, AckedFirst, Score
  <1>4. ASSUME UNCHANGED invoked, ToSet(toHost) \subseteq ToSet(toHost'), NEW ch \in Channels
        PROVE  AnsweredOn(ch)'
    <2>1. Pending(ch) \subseteq Pending(ch)'
      BY <1>1, <1>4 DEF Pending
    <2> QED BY <1>0, <1>1, <1>4, <2>1, ScoreSame, AnsweredKept
  <1>5. CASE DevClose
    BY <1>3, <1>4, <1>5 DEF DevClose, AnswerInv
  <1>6. CASE DevReply \/ DevNoise
    <2>1. PICK m : toHost' = Append(toHost, m) /\ UNCHANGED invoked
      BY <1>6 DEF DevReply, DevNoise, DeviceSends
    <2>2. ToSet(toHost) \subseteq ToSet(toHost')
      BY <1>0, <2>1 DEF ToSet
    <2> QED BY <1>3, <1>4, <2>1, <2>2 DEF AnswerInv
  <1>7. ASSUME NEW ch \in Channels, NEW e \in BOOLEAN, NEW f \in BOOLEAN, NEW i \in 1..(IdMod - 1), DevInvoke(ch, e, f, i)
        PROVE  AnswerInv'
    <2>1. PICK m : toHost' = Append(toHost, m) /\ invoked' = [invoked EXCEPT ![ch] = Append(@, m)]
      BY <1>7 DEF DevInvoke, DeviceSends
    <2>2. ToSet(toHost) \subseteq ToSet(toHost') /\ m \in ToSet(toHost')
      <3>1. /\ \A j \in DOMAIN toHost : j \in DOMAIN toHost' /\ toHost'[j] = toHost[j]
            /\ Len(toHost) + 1 \in DOMAIN toHost' /\ toHost'[Len(toHost) + 1] = m
        BY <1>0, <2>1
      <3> QED BY <3>1 DEF ToSet
    <2>3. ASSUME NEW x \in Channels PROVE AnsweredOn(x)'
      <3>1. Pending(x) \subseteq Pending(x)' /\ m \in Pending(x)'
        BY <1>1, <2>2 DEF Pending
      <3>2. \A k \in DOMAIN invoked'[x] :
              invoked'[x][k] = m \/ (k \in DOMAIN invoked[x] /\ invoked'[x][k] = invoked[x][k])
        <4>1. invoked'[x] = invoked[x] \/ invoked'[x] = Append(invoked[x], m)
          BY <1>0, <2>1
        <4>2. invoked[x] \in Seq(Message)
          BY <1>0
        <4> QED BY <4>1, <4>2
      <3> QED BY <1>1, <3>1, <3>2 DEF AnswerInv, AnsweredOn, Score
    <2> QED BY <1>3, <2>3 DEF AnswerInv
  <1> QED BY <1>5, <1>6, <1>7 DEF DeviceStep

LEMMA AnswerNext == AnswerInv /\ [Next]_vars => AnswerInv'
  <1> USE DEF clientVars, handlerVars, readerVars, deviceVars
  <1> SUFFICES ASSUME AnswerInv, [Next]_vars PROVE AnswerInv'
    OBVIOUS
  <1>0. OrderInv'
    BY OrderNext DEF AnswerInv
  <1>1. ASSUME NEW c \in Callers, ClientStep(c) PROVE AnswerInv'
    <2>1. UNCHANGED <<toHost, rmsg, reader, devMsgs, invoked, answers, queue, hand, handled>>
      BY <1>1 DEF ClientStep, CallRegister, CallWrite, CallEnds, CallRecv, CallTimeout, CallDisconnected, CallAsync,
         Register, RegisterStart, SpawnHandler
    <2>2. \A ch \in Channels : Pending(ch)' = Pending(ch)
      BY <2>1 DEF Pending
    <2>3. \A ch \in Channels : /\ rx'[ch] = "none" => rx[ch] = "none"
                               /\ rx'[ch] # "dropped" => rx[ch] # "dropped"
      BY <1>0, <1>1, ClientKeepsRx DEF AnswerInv
    <2> QED BY <1>0, <2>1, <2>2, <2>3, AnswerClient
  <1>2. ASSUME NEW ch \in Channels, HandlerRecv(ch) PROVE AnswerInv'
    <2>1. UNCHANGED <<toHost, rmsg, reader, devMsgs, invoked, answers, rx, handled>>
      BY <1>2 DEF HandlerRecv
    <2>2. /\ queue[ch] \in Seq(Message) /\ queue[ch] # <<>> /\ hand[ch] = <<>>
          /\ hand'[ch] = <<Head(queue[ch])>> /\ queue'[ch] = Tail(queue[ch])
          /\ \A x \in Channels : x # ch => hand'[x] = hand[x] /\ queue'[x] = queue[x]
      BY <1>2 DEF HandlerRecv, AnswerInv, OrderInv, TypeInv, TypeOK, HandlerTypes
    <2>3. ToSet(queue[ch]) = {Head(queue[ch])} \cup ToSet(queue'[ch])
      BY <2>2, Taken
    <2>4. ToSet(<<Head(queue[ch])>>) = {Head(queue[ch])} /\ ToSet(<<>>) = {}
      BY DEF ToSet
    <2>5. ToSet(hand[ch]) = {} /\ ToSet(hand'[ch]) = {Head(queue[ch])}
      BY ONLY <2>2, <2>4, Zenon
    <2>6. \A x \in Channels : Pending(x) \subseteq Pending(x)'
      BY <2>1, <2>2, <2>3, <2>5 DEF Pending
    <2> QED BY <1>0, <2>1, <2>6, AnswerClient
  <1>3. ASSUME NEW ch \in Channels, HandlerQuit(ch) PROVE AnswerInv'
    <2>1. UNCHANGED <<toHost, rmsg, reader, devMsgs, invoked, answers, hand, handled>>
      BY <1>3 DEF HandlerQuit
    <2>2. /\ rx'[ch] = "dropped"
          /\ \A x \in Channels : x # ch => rx'[x] = rx[x] /\ queue'[x] = queue[x]
      BY <1>3 DEF HandlerQuit, AnswerInv, OrderInv, TypeInv, TypeOK, HandlerTypes
    <2>3. \A x \in Channels : rx'[x] # "dropped" => rx[x] # "dropped" /\ Pending(x) \subseteq Pending(x)'
      BY <2>1, <2>2 DEF Pending
    <2> QED BY <1>0, <2>1, <2>2, <2>3, AnswerClient
  <1>4. ASSUME NEW ch \in Channels, HandlerDone(ch) PROVE AnswerInv'
    BY <1>0, <1>4, AnswerHandler
  <1>5. CASE ReaderStep
    BY <1>0, <1>5, AnswerTaken, AnswerAck, AnswerDispatch DEF ReaderStep
  <1>6. CASE DeviceStep
    BY <1>0, <1>6, AnswerDevice
  <1>7. CASE UNCHANGED vars
    <2>1. UNCHANGED <<toHost, rmsg, reader, devMsgs, invoked, answers, rx>> /\ \A x \in Channels : Pending(x)' = Pending(x)
      BY <1>7 DEF vars, Pending
    <2> QED BY <1>0, <2>1, AnswerClient
  <1> QED BY <1>1, <1>2, <1>3, <1>4, <1>5, <1>6, <1>7 DEF Next, ClientStep

\* For any number of channels and calls: a request of the device that expects
\* an answer is acknowledged by the reader or comes to its channel's handler,
\* whatever the order in which the channel is registered, the reader looks it
\* up twice and the queue fills up (lines 736-747).
THEOREM RequestsSeenTo == Spec => []RequestSeenTo
  <1>1. AnswerInv => RequestSeenTo
    BY AnsweredMeans
  <1> QED BY <1>1, AnswerInit, AnswerNext, PTL DEF Spec

=============================================================================
