---------------------------- MODULE StackProofs ----------------------------
(***************************************************************************)
(* Proofs about SmoltcpStack for any number of clients, any capacity of    *)
(* the request queue, both loops, and streams with or without time-out.    *)
(***************************************************************************)
EXTENDS SmoltcpStack, TLAPS

-----------------------------------------------------------------------------
(* Lemmas about queues.                                                    *)

Once(q) == \A i, j \in DOMAIN q : q[i] = q[j] => i = j

LEMMA JoinsQueue ==
  ASSUME NEW S, NEW q \in Seq(S), NEW e \in S, Once(q), e \notin ToSet(q)
  PROVE  /\ Append(q, e) \in Seq(S) /\ Len(Append(q, e)) = Len(q) + 1
         /\ ToSet(Append(q, e)) = ToSet(q) \cup {e} /\ Once(Append(q, e))
  <1>1. /\ Append(q, e) \in Seq(S) /\ Len(Append(q, e)) = Len(q) + 1 /\ Len(q) \in Nat
        /\ DOMAIN q = 1..Len(q) /\ DOMAIN Append(q, e) = 1..Len(q) + 1
        /\ \A i \in 1..Len(q) : Append(q, e)[i] = q[i]
        /\ Append(q, e)[Len(q) + 1] = e
    OBVIOUS
  <1>2. ToSet(Append(q, e)) = ToSet(q) \cup {e}
    BY <1>1 DEF ToSet
  <1>3. Once(Append(q, e))
    BY <1>1 DEF Once, ToSet
  <1> QED BY <1>1, <1>2, <1>3

LEMMA LeavesQueue ==
  ASSUME NEW S, NEW q \in Seq(S), q # <<>>, Once(q)
  PROVE  /\ Head(q) \in S /\ Head(q) \in ToSet(q) /\ Tail(q) \in Seq(S) /\ Len(Tail(q)) = Len(q) - 1
         /\ ToSet(Tail(q)) = ToSet(q) \ {Head(q)} /\ Once(Tail(q))
  <1>1. /\ Tail(q) \in Seq(S) /\ Len(Tail(q)) = Len(q) - 1 /\ Len(q) \in Nat \ {0}
        /\ DOMAIN q = 1..Len(q) /\ DOMAIN Tail(q) = 1..Len(q) - 1 /\ Head(q) = q[1]
        /\ \A i \in 1..Len(q) - 1 : Tail(q)[i] = q[i + 1]
    OBVIOUS
  <1>2. Head(q) \in S /\ Head(q) \in ToSet(q)
    BY <1>1 DEF ToSet
  <1>3. ToSet(Tail(q)) = ToSet(q) \ {Head(q)}
    <2>1. ASSUME NEW x \in ToSet(Tail(q)) PROVE x \in ToSet(q) /\ x # Head(q)
      BY <1>1 DEF ToSet, Once
    <2>2. ASSUME NEW x \in ToSet(q), x # Head(q) PROVE x \in ToSet(Tail(q))
      <3>1. PICK i \in 1..Len(q) : x = q[i]
        BY <1>1 DEF ToSet
      <3>2. i - 1 \in 1..Len(q) - 1 /\ Tail(q)[i - 1] = x
        BY <1>1, <2>2, <3>1
      <3> QED BY <1>1, <3>2 DEF ToSet
    <2> QED BY <2>1, <2>2
  <1>4. Once(Tail(q))
    BY <1>1 DEF Once
  <1> QED BY <1>1, <1>2, <1>3, <1>4

-----------------------------------------------------------------------------
(* What a client has in the stack follows from where it is in connect.     *)

Answered == {"Established", "CloseWait", "Closed"}

ClientOK(c) ==
  /\ c \in ToSet(connQ) \cup pending => cpc[c] = "wait"
  /\ cpc[c] = "wait" => phase # "exited" /\ c \in ToSet(connQ) \cup pending
  /\ cpc[c] = "ok" => sock[c] \in Answered
  /\ c \in active => cpc[c] = "ok"

StackInv ==
  /\ StackTypeOK /\ Once(connQ) /\ ToSet(connQ) \cap pending = {}
  /\ \A c \in Clients : ClientOK(c)

LEMMA StackInvInit == StackInit => StackInv
  <1> SUFFICES ASSUME StackInit PROVE StackInv
    OBVIOUS
  <1> USE StackAssumption DEF StackInit
  <1>1. reading \in BOOLEAN /\ broken \in BOOLEAN
    OBVIOUS
  <1>2. StackTypeOK
    BY <1>1 DEF StackTypeOK
  <1> QED BY <1>2 DEF StackInv, Once, ClientOK, ToSet, Answered

LEMMA ConnectInv ==
  ASSUME StackInv, NEW c \in Clients, ConnectStart(c) \/ ConnectSend(c)
  PROVE  StackInv'
  <1> USE StackAssumption DEF StackInv, StackTypeOK, ClientOK, loopVars, netVars
  <1>1. CASE ConnectStart(c)
    BY <1>1 DEF ConnectStart
  <1>2. CASE cpc[c] = "send" /\ phase = "exited" /\ cpc' = [cpc EXCEPT ![c] = "err"]
             /\ UNCHANGED <<connQ, sock, pending, active, loopVars, netVars>>
    BY <1>2
  <1>3. CASE /\ cpc[c] = "send" /\ phase # "exited" /\ Len(connQ) < QueueCap
             /\ cpc' = [cpc EXCEPT ![c] = "wait"] /\ connQ' = Append(connQ, c)
             /\ UNCHANGED <<sock, pending, active, loopVars, netVars>>
    <2>1. c \notin ToSet(connQ) /\ c \notin pending /\ c \notin active
      BY <1>3
    <2>2. /\ connQ' \in Seq(Clients) /\ Len(connQ') = Len(connQ) + 1
          /\ ToSet(connQ') = ToSet(connQ) \cup {c} /\ Once(connQ')
      BY <1>3, <2>1, JoinsQueue
    <2>3. Len(connQ') <= QueueCap
      BY <1>3, <2>2
    <2> QED BY <1>3, <2>1, <2>2, <2>3
  <1> QED BY <1>1, <1>2, <1>3 DEF ConnectSend

\* The poll thread.
LEMMA LoopInv ==
  ASSUME StackInv, Loop
  PROVE  StackInv'
  <1> USE StackAssumption DEF StackInv, StackTypeOK, ClientOK, loopVars, netVars
  <1>1. CASE IntakePlain
    BY <1>1 DEF IntakePlain
  <1>2. CASE IntakeUnified
    <2>1. devRx' \in Seq(Packet) /\ wire' \in Seq(Packet)
      <3>1. CASE wire # <<>> /\ devRx' = Append(devRx, Head(wire)) /\ wire' = Tail(wire)
        BY <3>1
      <3> QED BY <1>2, <3>1 DEF IntakeUnified
    <2> QED BY <1>2, <2>1 DEF IntakeUnified
  <1>3. CASE IntakeFails \/ TransmitFails
    <2>1. LoopExits /\ UNCHANGED <<sock, devRx, devTx, netVars>>
      BY <1>3 DEF IntakeFails, TransmitFails
    <2>2. connQ' = <<>> /\ ToSet(connQ') = {} /\ Once(connQ') /\ Len(connQ') = 0 /\ connQ' \in Seq(Clients)
      BY <2>1 DEF LoopExits, ToSet, Once
    <2> QED BY <2>1, <2>2 DEF LoopExits
  <1>4. CASE TakeRequest
    <2> DEFINE c == Head(connQ)
    <2>1. /\ c \in Clients /\ c \in ToSet(connQ) /\ connQ' \in Seq(Clients)
          /\ Len(connQ') = Len(connQ) - 1 /\ ToSet(connQ') = ToSet(connQ) \ {c} /\ Once(connQ')
      BY <1>4, LeavesQueue DEF TakeRequest
    <2>2. Len(connQ') <= QueueCap
      BY <2>1
    <2>3. cpc[c] = "wait" /\ c \notin pending
      BY <2>1
    <2>4. CASE sock' = [sock EXCEPT ![c] = "New"] /\ pending' = pending \cup {c} /\ UNCHANGED cpc
      BY <1>4, <2>1, <2>2, <2>3, <2>4 DEF TakeRequest
    <2>5. CASE cpc' = [cpc EXCEPT ![c] = "err"] /\ UNCHANGED <<sock, pending>>
      BY <1>4, <2>1, <2>2, <2>3, <2>5 DEF TakeRequest
    <2> QED BY <1>4, <2>4, <2>5 DEF TakeRequest
  <1>5. CASE RequestsTaken
    BY <1>5 DEF RequestsTaken
  <1>6. CASE PollIngress
    <2> DEFINE p == Head(devRx)
    <2>1. p \in Packet /\ devRx' \in Seq(Packet)
      BY <1>6 DEF PollIngress
    <2>2. p.c \in Clients /\ sock' = OnPacket(sock, p)
      BY <1>6, <2>1 DEF PollIngress, Packet
    <2> HIDE DEF p
    <2>3. /\ sock' \in [Clients -> {"none", "New", "SynSent", "SynAcked", "Established", "CloseWait", "Closed"}]
          /\ \A c \in Clients : sock[c] \in Answered => sock'[c] \in Answered
      BY <2>2 DEF OnPacket, Answered
    <2> QED BY <1>6, <2>1, <2>3 DEF PollIngress
  <1>7. CASE PollEgress
    <2>1. /\ sock' \in [Clients -> {"none", "New", "SynSent", "SynAcked", "Established", "CloseWait", "Closed"}]
          /\ \A c \in Clients : sock[c] \in Answered => sock'[c] \in Answered
      BY <1>7 DEF PollEgress, Answered
    <2>2. devTx' \subseteq {"Syn", "Ack"} \X Clients
      BY <1>7 DEF PollEgress
    <2> QED BY <1>7, <2>1, <2>2 DEF PollEgress
  <1>8. CASE TransmitAll
    BY <1>8 DEF TransmitAll
  <1>9. CASE Promote
    <2> DEFINE ready == {c \in pending : sock[c] = "Established"}
               refused == {c \in pending : sock[c] = "Closed"}
    <2>1. PICK noPair \in SUBSET ready :
            /\ cpc' = [c \in Clients |->
                         CASE c \in ready \ noPair -> "ok"
                           [] c \in refused \cup noPair -> "err"
                           [] OTHER -> cpc[c]]
            /\ active' = active \cup (ready \ noPair)
            /\ pending' = pending \ (ready \cup refused)
      BY <1>9 DEF Promote
    <2>2. phase = "promote" /\ phase' = "intake" /\ UNCHANGED <<connQ, sock, devRx, devTx, netVars>>
      BY <1>9 DEF Promote
    <2>3. ready \subseteq pending /\ refused \subseteq pending /\ ready \cap refused = {}
      OBVIOUS
    <2>4. \A c \in ready : sock[c] \in Answered
      BY DEF Answered
    <2> HIDE DEF ready, refused
    <2>5. StackTypeOK'
      BY <2>1, <2>2, <2>3
    <2>6. ASSUME NEW c \in Clients PROVE ClientOK(c)'
      BY <2>1, <2>2, <2>3, <2>4
    <2> QED BY <2>1, <2>2, <2>5, <2>6
  <1> QED BY <1>1, <1>2, <1>3, <1>4, <1>5, <1>6, <1>7, <1>8, <1>9 DEF Loop

\* The reader thread, the device and the stream below.
LEMMA OutsideInv ==
  ASSUME StackInv,
         ReaderRecv \/ ReaderStops \/ DevBreak \/ \E c \in Clients : DevAnswer(c) \/ DevClose(c)
  PROVE  StackInv'
  <1>1. /\ UNCHANGED <<unified, cpc, connQ, sock, pending, active, phase, devRx, devTx>>
        /\ rxQueue' \in Seq(Packet) /\ wire' \in Seq(Packet) /\ reading' \in BOOLEAN
        /\ syns' \subseteq Clients /\ half' \subseteq Clients /\ opened' \subseteq Clients /\ broken' \in BOOLEAN
    <2> USE DEF StackInv, StackTypeOK, loopVars
    <2>1. CASE ReaderRecv
      BY <2>1 DEF ReaderRecv
    <2>2. CASE ReaderStops \/ DevBreak
      BY <2>2 DEF ReaderStops, DevBreak
    <2>3. ASSUME NEW c \in Clients, DevAnswer(c) PROVE <1>1
      <3>1. [kind |-> "SynAck", c |-> c] \in Packet /\ [kind |-> "Rst", c |-> c] \in Packet
        BY DEF Packet
      <3>2. \E p \in Packet : wire' = Append(wire, p)
        BY <2>3, <3>1 DEF DevAnswer
      <3>3. wire' \in Seq(Packet)
        BY <3>2
      <3> QED BY <2>3, <3>3 DEF DevAnswer
    <2>4. ASSUME NEW c \in Clients, DevClose(c) PROVE <1>1
      <3>1. [kind |-> "Fin", c |-> c] \in Packet /\ [kind |-> "Rst", c |-> c] \in Packet
        BY DEF Packet
      <3>2. \E p \in Packet : wire' = Append(wire, p)
        BY <2>4, <3>1 DEF DevClose
      <3>3. wire' \in Seq(Packet)
        BY <3>2
      <3> QED BY <2>4, <3>3 DEF DevClose
    <2> QED BY <2>1, <2>2, <2>3, <2>4
  <1> QED BY <1>1 DEF StackInv, StackTypeOK, ClientOK

\* A pipe stands for a connection the device accepted, a client that waits is
\* known to the poll thread, and nobody waits once that thread is gone, also
\* when the tunnel goes down between any two steps (smoltcp_stack.rs 93-108,
\* 153-182, 260-282).
THEOREM ConnectsAnswered == StackSpec => []ConnectSafe
  <1>1. StackInv /\ [StackNext]_stackVars => StackInv'
    <2> SUFFICES ASSUME StackInv, [StackNext]_stackVars PROVE StackInv'
      OBVIOUS
    <2>1. CASE UNCHANGED stackVars
      BY <2>1 DEF stackVars, loopVars, netVars, StackInv, StackTypeOK, ClientOK
    <2> QED BY <2>1, ConnectInv, LoopInv, OutsideInv DEF StackNext
  <1>2. StackInv => ConnectSafe
    BY DEF StackInv, ClientOK, ConnectSafe, OkMeansAccepted, WaitersKnown, Answered
  <1> QED BY <1>1, <1>2, StackInvInit, PTL DEF StackSpec
=============================================================================
