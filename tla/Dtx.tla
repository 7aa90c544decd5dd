-------------------------------- MODULE Dtx --------------------------------
(***************************************************************************)
(* The blocking DTX connection of src/dtx/mod.rs (DtxConn).                *)
(*                                                                         *)
(* Client threads call methods of the device and wait for the replies;     *)
(* one reader thread takes the messages of the device off the socket and   *)
(* demultiplexes them: a reply goes to the waiting call, an incoming       *)
(* method call to the bounded queue of its channel, where a handler thread *)
(* of the client takes it.  A message's body is left out: the header       *)
(* decides everything the connection does with it.                         *)
(***************************************************************************)
EXTENDS Integers, Sequences, FiniteSets, SequencesExt

CONSTANTS
  Callers,     \* client threads that share the connection
  Channels,    \* channel codes on which the device may call the host
  QueueCap,    \* capacity of a channel's queue (sync_channel(32))
  FirstId,     \* the first message id of a connection (5)
  IdMod,       \* 2^32: message ids are u32
  MaxCalls,    \* bound: messages the clients send
  MaxDevMsgs,  \* bound: messages the device sends
  Eager        \* TRUE: a client spawns a channel's handler as soon as it
               \* has registered it; FALSE: it may do other work first

ASSUME DtxAssumption ==
  /\ Channels \subseteq Int /\ 0 \in Channels
  /\ QueueCap \in Nat \ {0} /\ FirstId \in Nat \ {0} /\ IdMod \in Nat /\ IdMod > FirstId
  /\ MaxCalls \in Nat /\ MaxDevMsgs \in Nat /\ Eager \in BOOLEAN

VARIABLES
  pc,        \* a client thread: idle, write, wait (for a reply), reg
  cur,       \* ghost: the number of the thread's current call
  id,        \* the message id of the thread's current call
  slot,      \* sync_channel(1) of that call: the call replied to, 0 if empty
  want,      \* the channel a thread in "reg" is registering
  nextId,    \* next_id
  calls,     \* ghost: number of messages sent by the clients
  waiters,   \* WaiterMap: message id -> call number
  rx,        \* receiver of a channel: none, held (not served), served, dropped
  holder,    \* the thread that registered a channel, as a set
  queue,     \* the channel's queue
  hand,      \* the message a channel's handler works on: a sequence of 0 or 1
  handled,   \* history: the messages a channel's handler is done with
  reader,    \* the reader thread: read, ack, dispatch, sending, exited
  rmsg,      \* the message the reader is dispatching: a sequence of 0 or 1
  toHost,    \* socket, device to host
  devCalls,  \* calls the device has received and may reply to
  devMsgs,   \* number of messages the device has sent
  invoked,   \* history: the method calls the device has sent, per channel
  closed,    \* the device has closed the connection
  answers    \* answers sent to each device message, by who sent them

clientVars == <<pc, cur, id, slot, want, nextId, calls, waiters>>
handlerVars == <<rx, holder, queue, hand, handled>>
readerVars == <<reader, rmsg>>
deviceVars == <<devCalls, devMsgs, invoked, closed>>
vars == <<clientVars, handlerVars, readerVars, toHost, deviceVars, answers>>

Answerers == {"fragment", "auto", "handler"}
Live(c) == pc[c] \in {"write", "wait"}

\* The header fields the connection looks at.  conv > 0 marks a reply; frags
\* says that the continuation fragments of the message ask for an ACK each.
\* tag is a ghost: the call a reply answers, a method call's serial number.
Message ==
  [conv: {0, 1}, type: {"Ack", "MethodInvoke", "Reply", "Bad"}, id: Nat,
   chan: Channels, expects: BOOLEAN, frags: BOOLEAN, tag: Nat]

ClientTypes ==
  /\ pc \in [Callers -> {"idle", "write", "wait", "reg"}]
  /\ cur \in [Callers -> 0..MaxCalls]
  /\ id \in [Callers -> 0..(IdMod - 1)]
  /\ slot \in [Callers -> 0..MaxCalls]
  /\ want \in [Callers -> Channels]
  /\ nextId \in 1..(IdMod - 1) /\ calls \in 0..MaxCalls
WaiterTypes ==
  /\ DOMAIN waiters \subseteq 1..(IdMod - 1)
  /\ \A i \in DOMAIN waiters : waiters[i] \in 1..MaxCalls
HandlerTypes ==
  /\ rx \in [Channels -> {"none", "held", "served", "dropped"}]
  /\ holder \in [Channels -> SUBSET Callers]
  /\ queue \in [Channels -> Seq(Message)]
  /\ hand \in [Channels -> Seq(Message)]
  /\ handled \in [Channels -> Seq(Message)]
ReaderTypes ==
  /\ reader \in {"read", "ack", "dispatch", "sending", "exited"}
  /\ rmsg \in Seq(Message)
DeviceTypes ==
  /\ devCalls \subseteq [id: 1..(IdMod - 1), call: 1..MaxCalls]
  /\ devMsgs \in 0..MaxDevMsgs /\ closed \in BOOLEAN
  /\ invoked \in [Channels -> Seq(Message)]
AnswerTypes == answers \in [1..MaxDevMsgs -> [Answerers -> Nat]]

\* Values of the right shape; a message id is never 0 (alloc_id's max(1)).
TypeOK ==
  /\ ClientTypes /\ WaiterTypes /\ HandlerTypes /\ ReaderTypes /\ DeviceTypes
  /\ AnswerTypes /\ toHost \in Seq(Message)

Init ==
  /\ pc = [c \in Callers |-> "idle"]
  /\ cur = [c \in Callers |-> 0]
  /\ id = [c \in Callers |-> 0]
  /\ slot = [c \in Callers |-> 0]
  /\ want = [c \in Callers |-> 0]
  /\ nextId = FirstId /\ calls = 0
  /\ waiters = [i \in {} |-> 0]
  /\ rx = [ch \in Channels |-> "none"]
  /\ holder = [ch \in Channels |-> {}]
  /\ queue = [ch \in Channels |-> <<>>]
  /\ hand = [ch \in Channels |-> <<>>]
  /\ handled = [ch \in Channels |-> <<>>]
  /\ reader = "read" /\ rmsg = <<>>
  /\ toHost = <<>>
  /\ devCalls = {} /\ devMsgs = 0 /\ closed = FALSE
  /\ invoked = [ch \in Channels |-> <<>>]
  /\ answers = [k \in 1..MaxDevMsgs |-> [a \in Answerers |-> 0]]

-----------------------------------------------------------------------------
(* Client threads: call, call_full, call_async, register_channel.          *)

\* A fault: without max(1) the id wraps to 0.
NextIdPlain(i) == (i + 1) % IdMod

\* The id after i: wrapping_add(1).max(1).
NextIdAfter(i) == IF (i + 1) % IdMod = 0 THEN 1 ELSE (i + 1) % IdMod

\* A fault: the call writes its frame before it registers its waiter.
CallRegisterLate(c) ==
  /\ pc[c] = "idle" /\ calls < MaxCalls
  /\ calls' = calls + 1
  /\ nextId' = NextIdAfter(nextId)
  /\ pc' = [pc EXCEPT ![c] = "write"]
  /\ cur' = [cur EXCEPT ![c] = calls']
  /\ id' = [id EXCEPT ![c] = nextId]
  /\ slot' = [slot EXCEPT ![c] = 0]
  /\ UNCHANGED <<want, waiters, handlerVars, readerVars, toHost, deviceVars, answers>>

\* call / call_full: take an id and put a fresh one-place channel into the
\* waiter map.  An entry under the same id is overwritten.
CallRegister(c) ==
  /\ pc[c] = "idle" /\ calls < MaxCalls
  /\ calls' = calls + 1
  /\ nextId' = NextIdAfter(nextId)
  /\ pc' = [pc EXCEPT ![c] = "write"]
  /\ cur' = [cur EXCEPT ![c] = calls']
  /\ id' = [id EXCEPT ![c] = nextId]
  /\ slot' = [slot EXCEPT ![c] = 0]
  /\ waiters' = [i \in DOMAIN waiters \cup {nextId} |->
                   IF i = nextId THEN calls' ELSE waiters[i]]
  /\ UNCHANGED <<want, handlerVars, readerVars, toHost, deviceVars, answers>>

\* The call returns: its receiver and its locals are gone.
EndCall(c) ==
  /\ pc' = [pc EXCEPT ![c] = "idle"]
  /\ cur' = [cur EXCEPT ![c] = 0]
  /\ id' = [id EXCEPT ![c] = 0]
  /\ slot' = [slot EXCEPT ![c] = 0]

\* write_bytes of the call's frame.  On a closed stream it may still succeed
\* into the buffers of the kernel; an I/O error ends the call at once and leaves
\* its waiter in the map.
CallWrite(c) ==
  /\ pc[c] = "write"
  /\ \/ closed /\ EndCall(c) /\ UNCHANGED devCalls
     \/ /\ pc' = [pc EXCEPT ![c] = "wait"]
        /\ devCalls' = IF closed THEN devCalls
                       ELSE devCalls \cup {[id |-> id[c], call |-> cur[c]]}
        /\ UNCHANGED <<cur, id, slot>>
  /\ UNCHANGED <<want, nextId, calls, waiters, handlerVars,
                 readerVars, toHost, devMsgs, invoked, closed, answers>>

\* recv_timeout yields the reply.
CallRecv(c) ==
  /\ pc[c] = "wait" /\ slot[c] # 0
  /\ EndCall(c)
  /\ UNCHANGED <<want, nextId, calls, waiters, handlerVars,
                 readerVars, toHost, deviceVars, answers>>

\* The live call's sender is still in the map.
SenderAlive(c) == id[c] \in DOMAIN waiters /\ waiters[id[c]] = cur[c]

\* A fault: recv() in place of recv_timeout().
CallNoTimeout(c) == FALSE /\ UNCHANGED vars

\* recv_timeout gives up after 10 s; the waiter stays in the map.
CallTimeout(c) ==
  /\ pc[c] = "wait" /\ slot[c] = 0 /\ SenderAlive(c)
  /\ EndCall(c)
  /\ UNCHANGED <<want, nextId, calls, waiters, handlerVars,
                 readerVars, toHost, deviceVars, answers>>

\* The sender was dropped without a reply (its entry was overwritten after
\* the ids wrapped): recv_timeout fails with Disconnected, Error::Closed.
CallDisconnected(c) ==
  /\ pc[c] = "wait" /\ slot[c] = 0 /\ ~SenderAlive(c)
  /\ EndCall(c)
  /\ UNCHANGED <<want, nextId, calls, waiters, handlerVars,
                 readerVars, toHost, deviceVars, answers>>

\* call_async: an id and a frame, no waiter.
CallAsync(c) ==
  /\ pc[c] = "idle" /\ calls < MaxCalls
  /\ calls' = calls + 1
  /\ nextId' = NextIdAfter(nextId)
  /\ UNCHANGED <<pc, cur, id, slot, want, waiters, handlerVars, readerVars,
                 toHost, deviceVars, answers>>

\* register_channel is entered.  The clients register a channel once.
RegisterStart(c, ch) ==
  /\ pc[c] = "idle" /\ rx[ch] = "none"
  /\ \A d \in Callers : ~(pc[d] = "reg" /\ want[d] = ch)
  /\ pc' = [pc EXCEPT ![c] = "reg"]
  /\ want' = [want EXCEPT ![c] = ch]
  /\ UNCHANGED <<cur, id, slot, nextId, calls, waiters, handlerVars,
                 readerVars, toHost, deviceVars, answers>>

\* The dispatchers lock is held by the reader while its send blocks.
DispatchersFree == reader # "sending"

\* register_channel inserts the sender under the dispatchers lock.
Register(c) ==
  /\ pc[c] = "reg" /\ DispatchersFree
  /\ pc' = [pc EXCEPT ![c] = "idle"]
  /\ rx' = [rx EXCEPT ![want[c]] = IF Eager THEN "served" ELSE "held"]
  /\ holder' = [holder EXCEPT ![want[c]] = {c}]
  /\ want' = [want EXCEPT ![c] = 0]
  /\ UNCHANGED <<cur, id, slot, nextId, calls, waiters, queue, hand,
                 handled, readerVars, toHost, deviceVars, answers>>

\* The thread that registered the channel spawns the thread that serves it.
SpawnHandler(c, ch) ==
  /\ pc[c] = "idle" /\ c \in holder[ch] /\ rx[ch] = "held"
  /\ rx' = [rx EXCEPT ![ch] = "served"]
  /\ UNCHANGED <<clientVars, holder, queue, hand, handled, readerVars, toHost,
                 deviceVars, answers>>

-----------------------------------------------------------------------------
(* Handler threads: Receiver::recv, then what the client's code makes of    *)
(* the message.                                                            *)

HandlerRecv(ch) ==
  /\ rx[ch] = "served" /\ hand[ch] = <<>> /\ queue[ch] # <<>>
  /\ hand' = [hand EXCEPT ![ch] = <<Head(queue[ch])>>]
  /\ queue' = [queue EXCEPT ![ch] = Tail(@)]
  /\ UNCHANGED <<clientVars, rx, holder, handled, readerVars, toHost,
                 deviceVars, answers>>

Answer(k, who) == [answers EXCEPT ![k][who] = @ + 1]

\* The handler is done with a message: it answers one that expects it, by
\* DtxConn::ack or DtxConn::reply (the IDE channel of a test run), or lets it be
\* (channel 0 of a test run, the instruments of perf).
HandlerDone(ch) ==
  /\ hand[ch] # <<>>
  /\ LET m == Head(hand[ch]) IN
       /\ \/ m.expects /\ answers' = Answer(m.tag, "handler")
          \/ UNCHANGED answers
       /\ handled' = [handled EXCEPT ![ch] = Append(@, m)]
  /\ hand' = [hand EXCEPT ![ch] = <<>>]
  /\ UNCHANGED <<clientVars, rx, holder, queue, readerVars, toHost, deviceVars>>

\* The handler thread ends: the receiver is dropped with what it still holds;
\* the sender stays in the dispatchers map.
HandlerQuit(ch) ==
  /\ rx[ch] = "served" /\ hand[ch] = <<>>
  /\ rx' = [rx EXCEPT ![ch] = "dropped"]
  /\ queue' = [queue EXCEPT ![ch] = <<>>]
  /\ UNCHANGED <<clientVars, holder, hand, handled, readerVars, toHost,
                 deviceVars, answers>>

-----------------------------------------------------------------------------
(* The reader thread: reader_loop.                                         *)

ReadsOne == reader = "read" /\ toHost # <<>>

\* A fault: an ACK is a reply, whatever its conv_id.
ReaderReplyAnyAck ==
  /\ ReadsOne /\ Head(toHost).type # "Bad"
  /\ LET m == Head(toHost) IN
       /\ m.conv > 0 \/ m.type = "Ack"
       /\ waiters' = [i \in DOMAIN waiters \ {m.id} |-> waiters[i]]
       /\ slot' = [c \in Callers |->
                     IF m.id \in DOMAIN waiters /\ Live(c) /\ cur[c] = waiters[m.id]
                       THEN m.tag ELSE slot[c]]
  /\ toHost' = Tail(toHost)
  /\ UNCHANGED <<pc, cur, id, want, nextId, calls, handlerVars, readerVars,
                 deviceVars, answers>>

\* A fault: the waiter stays in the map when its reply is delivered.
ReaderReplyGet ==
  /\ ReadsOne /\ Head(toHost).type # "Bad" /\ Head(toHost).conv > 0
  /\ LET m == Head(toHost) IN
       slot' = [c \in Callers |->
                  IF m.id \in DOMAIN waiters /\ Live(c) /\ cur[c] = waiters[m.id]
                    THEN m.tag ELSE slot[c]]
  /\ toHost' = Tail(toHost)
  /\ UNCHANGED <<pc, cur, id, want, nextId, calls, waiters, handlerVars,
                 readerVars, deviceVars, answers>>

\* A reply: its waiter is removed and, if the call is still waiting, its slot
\* is filled.  A reply nobody waits for is dropped.
ReaderReply ==
  /\ ReadsOne /\ Head(toHost).type # "Bad" /\ Head(toHost).conv > 0
  /\ LET m == Head(toHost) IN
       /\ waiters' = [i \in DOMAIN waiters \ {m.id} |-> waiters[i]]
       /\ slot' = [c \in Callers |->
                     IF m.id \in DOMAIN waiters /\ Live(c) /\ cur[c] = waiters[m.id]
                       THEN m.tag ELSE slot[c]]
  /\ toHost' = Tail(toHost)
  /\ UNCHANGED <<pc, cur, id, want, nextId, calls, handlerVars, readerVars,
                 deviceVars, answers>>

\* An ACK that answers no call is dropped.
ReaderAck ==
  /\ ReadsOne /\ Head(toHost).type = "Ack" /\ Head(toHost).conv = 0
  /\ toHost' = Tail(toHost)
  /\ UNCHANGED <<clientVars, handlerVars, readerVars, deviceVars, answers>>

HasHandler(ch) == rx[ch] # "none"

\* read_message_inner acknowledges the fragments that ask for it.
FragmentAcks(m) == IF m.frags THEN Answer(m.tag, "fragment") ELSE answers

\* A method call: the reader looks up whether the channel has a handler.
ReaderInvoke ==
  /\ ReadsOne /\ Head(toHost).type = "MethodInvoke" /\ Head(toHost).conv = 0
  /\ LET m == Head(toHost) IN
       /\ answers' = FragmentAcks(m)
       /\ reader' = IF m.expects /\ ~HasHandler(m.chan) THEN "ack" ELSE "dispatch"
       /\ rmsg' = <<m>>
  /\ toHost' = Tail(toHost)
  /\ UNCHANGED <<clientVars, handlerVars, deviceVars>>

\* A fault: the ACK is skipped when the channel got its handler in between.
ReaderAutoAckRecheck ==
  /\ reader = "ack"
  /\ answers' = IF HasHandler(Head(rmsg).chan) THEN answers
                                              ELSE Answer(Head(rmsg).tag, "auto")
  /\ rmsg' = <<>>
  /\ reader' = "read"
  /\ UNCHANGED <<clientVars, handlerVars, toHost, deviceVars>>

\* No handler: the reader sends the ACK itself, outside any dispatchers lock.
ReaderAutoAck ==
  /\ reader = "ack"
  /\ answers' = Answer(Head(rmsg).tag, "auto")
  /\ reader' = "dispatch"
  /\ UNCHANGED <<clientVars, handlerVars, rmsg, toHost, deviceVars>>

Deliver(m) == queue' = [queue EXCEPT ![m.chan] = Append(@, m)]

\* A fault: try_send, which drops the message when the queue is full.
ReaderTryDispatch ==
  /\ reader = "dispatch"
  /\ LET m == Head(rmsg) IN
       IF rx[m.chan] \in {"held", "served"} /\ Len(queue[m.chan]) < QueueCap
         THEN Deliver(m) ELSE UNCHANGED queue
  /\ reader' = "read" /\ rmsg' = <<>>
  /\ UNCHANGED <<clientVars, rx, holder, hand, handled, toHost, deviceVars, answers>>

\* The second look-up, under the dispatchers lock: the message goes into the
\* queue of the channel, or is dropped when the channel has no sender or no
\* receiver.  A full queue blocks the reader, which keeps the lock.
ReaderDispatch ==
  /\ reader = "dispatch"
  /\ LET m == Head(rmsg) IN
       \/ /\ rx[m.chan] \in {"none", "dropped"}
          /\ reader' = "read" /\ rmsg' = <<>> /\ UNCHANGED queue
       \/ /\ rx[m.chan] \in {"held", "served"} /\ Len(queue[m.chan]) < QueueCap
          /\ Deliver(m)
          /\ reader' = "read" /\ rmsg' = <<>>
       \/ /\ rx[m.chan] \in {"held", "served"} /\ Len(queue[m.chan]) >= QueueCap
          /\ reader' = "sending" /\ UNCHANGED <<queue, rmsg>>
  /\ UNCHANGED <<clientVars, rx, holder, hand, handled, toHost, deviceVars, answers>>

\* A fault: a blocked send is not woken when the receiver goes away.
ReaderSendDeaf ==
  /\ reader = "sending"
  /\ LET m == Head(rmsg) IN
       rx[m.chan] # "dropped" /\ Len(queue[m.chan]) < QueueCap /\ Deliver(m)
  /\ reader' = "read" /\ rmsg' = <<>>
  /\ UNCHANGED <<clientVars, rx, holder, hand, handled, toHost, deviceVars, answers>>

\* The blocked send ends: there is room, or the receiver is gone.
ReaderSend ==
  /\ reader = "sending"
  /\ LET m == Head(rmsg) IN
       \/ rx[m.chan] = "dropped" /\ UNCHANGED queue
       \/ rx[m.chan] # "dropped" /\ Len(queue[m.chan]) < QueueCap /\ Deliver(m)
  /\ reader' = "read" /\ rmsg' = <<>>
  /\ UNCHANGED <<clientVars, rx, holder, hand, handled, toHost, deviceVars, answers>>

\* read_message_inner fails: a malformed message or the end of the stream.
ReaderExit ==
  /\ reader = "read"
  /\ \/ toHost # <<>> /\ Head(toHost).type = "Bad"
     \/ toHost = <<>> /\ closed
  /\ reader' = "exited"
  /\ UNCHANGED <<clientVars, handlerVars, rmsg, toHost, deviceVars, answers>>

-----------------------------------------------------------------------------
(* The device.                                                             *)

DeviceSends(m) ==
  /\ ~closed /\ devMsgs < MaxDevMsgs
  /\ devMsgs' = devMsgs + 1
  /\ toHost' = Append(toHost, m)
  /\ UNCHANGED <<clientVars, handlerVars, readerVars, devCalls, closed, answers>>

\* A reply to a call, void (an ACK) or typed; at any time, in any order, and
\* possibly more than once.
DevReply ==
  /\ \E k \in devCalls, t \in {"Ack", "Reply"} :
       DeviceSends([conv |-> 1, type |-> t, id |-> k.id, chan |-> 0,
                    expects |-> FALSE, frags |-> FALSE, tag |-> k.call])
  /\ UNCHANGED invoked

\* A method call of the device.  It numbers its messages itself: the id may be
\* one the host has given to a call.
DevInvoke(ch, expects, frags, i) ==
  LET m == [conv |-> 0, type |-> "MethodInvoke", id |-> i, chan |-> ch,
            expects |-> expects, frags |-> frags, tag |-> devMsgs + 1]
  IN DeviceSends(m) /\ invoked' = [invoked EXCEPT ![ch] = Append(@, m)]

\* An ACK with conversation 0, or a message the host cannot read.
DevNoise ==
  /\ \E t \in {"Ack", "Bad"} :
       DeviceSends([conv |-> 0, type |-> t, id |-> FirstId, chan |-> 0,
                    expects |-> FALSE, frags |-> FALSE, tag |-> devMsgs + 1])
  /\ UNCHANGED invoked

DevClose ==
  /\ ~closed /\ closed' = TRUE
  /\ UNCHANGED <<clientVars, handlerVars, readerVars, toHost, devCalls, devMsgs,
                 invoked, answers>>

-----------------------------------------------------------------------------
CallEnds(c) == CallRecv(c) \/ CallTimeout(c) \/ CallDisconnected(c)
ReaderStep ==
  \/ ReaderReply \/ ReaderAck \/ ReaderInvoke
  \/ ReaderAutoAck \/ ReaderDispatch \/ ReaderSend \/ ReaderExit
DeviceStep ==
  \/ DevReply \/ DevNoise \/ DevClose
  \/ \E ch \in Channels, e \in BOOLEAN, f \in BOOLEAN, i \in 1..(IdMod - 1) :
       DevInvoke(ch, e, f, i)

Next ==
  \/ \E c \in Callers :
       \/ CallRegister(c) \/ CallWrite(c) \/ CallEnds(c)
       \/ CallAsync(c) \/ Register(c)
       \/ \E ch \in Channels : RegisterStart(c, ch) \/ SpawnHandler(c, ch)
  \/ \E ch \in Channels : HandlerRecv(ch) \/ HandlerDone(ch) \/ HandlerQuit(ch)
  \/ ReaderStep
  \/ DeviceStep

Spec == Init /\ [][Next]_vars

\* Every thread that can run eventually runs.  Nothing is asked of the
\* device, and no handler is obliged to quit.
Fairness ==
  /\ \A c \in Callers : WF_vars(CallWrite(c)) /\ WF_vars(CallEnds(c)) /\ WF_vars(Register(c))
  /\ \A c \in Callers, ch \in Channels : WF_vars(SpawnHandler(c, ch))
  /\ \A ch \in Channels : WF_vars(HandlerRecv(ch)) /\ WF_vars(HandlerDone(ch))
  /\ WF_vars(ReaderStep)

FairSpec == Spec /\ Fairness

-----------------------------------------------------------------------------
(* Properties.                                                             *)

\* No id has been given to two messages: the u32 ids have not wrapped.
IdsFresh == FirstId + calls <= IdMod

\* A call only ever receives the reply the device sent to that very call:
\* not a late reply to an earlier call of the thread that timed out, not the
\* second copy of another reply, not a method call of the device that has the
\* same message id (reader_loop, lines 720-725).  Once ids are used again, a
\* late reply to an old call may be taken for the reply to a new one.
ReplyMatchesCall ==
  IdsFresh => \A c \in Callers : Live(c) /\ slot[c] # 0 => slot[c] = cur[c]

\* A call that waits without a reply is in the waiter map under its id, from
\* before its frame is written, so that no reply to it is lost (lines 589-593).
WaiterRegistered ==
  IdsFresh => \A c \in Callers : Live(c) /\ slot[c] = 0 => SenderAlive(c)

\* The one-place channel of every call in the map is empty: the reader's
\* send, made while it holds the waiters lock, never blocks, even when ids are
\* used again and waiters overwritten (lines 590-591, 721-723).
ReplyNeverBlocks ==
  \A c \in Callers, i \in DOMAIN waiters :
    Live(c) /\ waiters[i] = cur[c] => slot[c] = 0

\* What a channel's handler has taken, holds and will find in its queue, and
\* what the reader holds for it.
Seen(ch) ==
  handled[ch] \o hand[ch] \o queue[ch] \o (IF rmsg # <<>> /\ Head(rmsg).chan = ch THEN rmsg ELSE <<>>)

\* The socket carries the last of the method calls the device sent on a
\* channel, in order and each once; what the channel has seen is the end of
\* those before: from the moment the channel is registered nothing is lost,
\* duplicated or reordered (lines 745-747).
DispatchInOrder ==
  /\ \A i, j \in DOMAIN toHost :
       i < j /\ toHost[i].type = "MethodInvoke" /\ toHost[j].type = "MethodInvoke" => toHost[i].tag < toHost[j].tag
  /\ \A ch \in Channels : rx[ch] # "dropped" =>
       \E n \in 0..Len(invoked[ch]) :
         /\ {k \in DOMAIN invoked[ch] : invoked[ch][k] \in ToSet(toHost)} = n + 1..Len(invoked[ch])
         /\ Len(Seen(ch)) <= n
         /\ \A i \in DOMAIN Seen(ch) : Seen(ch)[i] = invoked[ch][n - Len(Seen(ch)) + i]

\* A request of the device that the reader is done with was acknowledged by
\* the reader or has come to the handler of its channel, whose business the
\* answer is then (comment at 732-735) - however registering the channel falls
\* between the reader's two look-ups - or the handler is gone (736-747).
RequestSeenTo ==
  \A ch \in Channels : \A k \in DOMAIN invoked[ch] :
    LET m == invoked[ch][k] IN
      m.expects /\ rx[ch] # "dropped" =>
        \/ m \in ToSet(toHost) \cup ToSet(rmsg)
        \/ m \in ToSet(queue[ch]) \cup ToSet(hand[ch]) \cup ToSet(handled[ch])
        \/ answers[m.tag]["auto"] > 0

\* Every call returns, whatever the device and the reader do (lines 595-603).
CallReturns == \A c \in Callers : Live(c) ~> ~Live(c)

\* register_channel returns (lines 672-676).
RegisterReturns == \A c \in Callers : pc[c] = "reg" ~> pc[c] # "reg"
=============================================================================
