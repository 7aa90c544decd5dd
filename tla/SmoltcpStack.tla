---------------------------- MODULE SmoltcpStack ----------------------------
(***************************************************************************)
(* Opening connections through the userspace TCP stack of                  *)
(* src/tunnel/smoltcp_stack.rs: SmoltcpTunnel::connect, the poll thread    *)
(* (poll_loop on a plain TCP tunnel, unified_loop on a TLS tunnel), the    *)
(* reader thread of the plain tunnel and the first half of                 *)
(* promote_and_bridge.  Bridge models what happens to a connection once it *)
(* is open.                                                                *)
(***************************************************************************)
EXTENDS Integers, Sequences, SequencesExt, FiniteSets

CONSTANTS
  Clients,   \* threads that open one connection each
  QueueCap,  \* capacity of the request queue (sync_channel(32))
  IdleLimit  \* the plain stream has a read timeout: TRUE when Ios17Tunnel
             \* opened it, FALSE when remote pairing did

ASSUME StackAssumption ==
  QueueCap \in Nat \ {0} /\ IdleLimit \in BOOLEAN

VARIABLES
  unified,   \* TRUE: new_stream, unified_loop; FALSE: new, poll_loop
  cpc,       \* a client: idle, send, wait, ok, err
  connQ,     \* connect_tx / connect_rx
  sock,      \* smoltcp socket: none, New (no SYN yet), SynSent, ...
  pending,   \* connections whose client waits
  active,    \* connections handed to their client
  phase,     \* poll thread: intake, connect, poll, transmit, promote, exited
  devRx,     \* device.rx of the poll thread
  devTx,     \* device.tx: the SYNs and ACKs to send
  rxQueue,   \* rx_queue, filled by the reader thread (plain tunnel)
  reading,   \* the reader thread runs (plain tunnel)
  wire,      \* packets from the device
  syns,      \* SYNs the device has received and not answered
  half,      \* connections the device has answered, not acknowledged yet
  opened,    \* connections open on the device's side
  broken     \* the stream below the tunnel is closed

loopVars == <<phase, devRx, devTx>>
netVars == <<unified, rxQueue, reading, wire, syns, half, opened, broken>>
stackVars == <<cpc, connQ, sock, pending, active, loopVars, netVars>>

Packet == [kind: {"SynAck", "Rst", "Fin"}, c: Clients]

\* Values of the right shape; the request queue never exceeds its capacity.
StackTypeOK ==
  /\ unified \in BOOLEAN
  /\ cpc \in [Clients -> {"idle", "send", "wait", "ok", "err"}]
  /\ connQ \in Seq(Clients) /\ Len(connQ) <= QueueCap
  /\ sock \in [Clients -> {"none", "New", "SynSent", "SynAcked", "Established", "CloseWait", "Closed"}]
  /\ pending \subseteq Clients /\ active \subseteq Clients
  /\ phase \in {"intake", "connect", "poll", "transmit", "promote", "exited"}
  /\ devRx \in Seq(Packet) /\ devTx \subseteq {"Syn", "Ack"} \X Clients
  /\ rxQueue \in Seq(Packet) /\ reading \in BOOLEAN /\ wire \in Seq(Packet)
  /\ syns \subseteq Clients /\ half \subseteq Clients /\ opened \subseteq Clients /\ broken \in BOOLEAN

StackInit ==
  /\ unified \in BOOLEAN
  /\ cpc = [c \in Clients |-> "idle"]
  /\ connQ = <<>>
  /\ sock = [c \in Clients |-> "none"]
  /\ pending = {} /\ active = {}
  /\ phase = "intake" /\ devRx = <<>> /\ devTx = {}
  /\ rxQueue = <<>> /\ reading = ~unified /\ wire = <<>>
  /\ syns = {} /\ half = {} /\ opened = {} /\ broken = FALSE

-----------------------------------------------------------------------------
(* SmoltcpTunnel::connect.                                                 *)

ConnectStart(c) ==
  /\ cpc[c] = "idle"
  /\ cpc' = [cpc EXCEPT ![c] = "send"]
  /\ UNCHANGED <<connQ, sock, pending, active, loopVars, netVars>>

\* A fault: an unbounded request queue.
ConnectSendUnbounded(c) ==
  /\ cpc[c] = "send" /\ phase # "exited"
  /\ cpc' = [cpc EXCEPT ![c] = "wait"]
  /\ connQ' = Append(connQ, c)
  /\ UNCHANGED <<sock, pending, active, loopVars, netVars>>

\* connect_tx.send: blocks while the queue is full, fails once the poll
\* thread has dropped the receiver.
ConnectSend(c) ==
  /\ cpc[c] = "send"
  /\ \/ /\ phase # "exited" /\ Len(connQ) < QueueCap
        /\ cpc' = [cpc EXCEPT ![c] = "wait"]
        /\ connQ' = Append(connQ, c)
     \/ /\ phase = "exited"
        /\ cpc' = [cpc EXCEPT ![c] = "err"]
        /\ UNCHANGED connQ
  /\ UNCHANGED <<sock, pending, active, loopVars, netVars>>

-----------------------------------------------------------------------------
(* The poll thread.                                                        *)

\* A fault: the pending senders outlive the loop.
LoopExitsKeepingPending ==
  /\ phase' = "exited"
  /\ connQ' = <<>> /\ active' = {}
  /\ UNCHANGED <<cpc, pending>>

\* The thread returns: the request queue, the pending senders and the active
\* pipes are dropped, so that every client that waits fails.
LoopExits ==
  /\ phase' = "exited"
  /\ cpc' = [c \in Clients |-> IF cpc[c] = "wait" THEN "err" ELSE cpc[c]]
  /\ connQ' = <<>> /\ pending' = {} /\ active' = {}

\* poll_loop: everything the reader thread has queued.
IntakePlain ==
  /\ ~unified /\ phase = "intake"
  /\ devRx' = devRx \o rxQueue /\ rxQueue' = <<>>
  /\ phase' = "connect"
  /\ UNCHANGED <<cpc, connQ, sock, pending, active, devTx, unified, reading, wire, syns, half, opened, broken>>

\* unified_loop: one packet, or none within the read timeout.
IntakeUnified ==
  /\ unified /\ phase = "intake"
  /\ \/ /\ wire # <<>>
        /\ devRx' = Append(devRx, Head(wire)) /\ wire' = Tail(wire)
     \/ /\ wire = <<>> /\ ~broken /\ UNCHANGED <<devRx, wire>>
  /\ phase' = "connect"
  /\ UNCHANGED <<cpc, connQ, sock, pending, active, devTx, unified, rxQueue, reading, syns,
                 half, opened, broken>>

\* unified_loop: the stream has ended.
IntakeFails ==
  /\ unified /\ phase = "intake" /\ wire = <<>> /\ broken
  /\ LoopExits
  /\ UNCHANGED <<sock, devRx, devTx, netVars>>

\* connect_rx.try_recv: a new socket sends its SYN with the next poll, or
\* sock.connect refuses the address.
TakeRequest ==
  /\ phase = "connect" /\ connQ # <<>>
  /\ LET c == Head(connQ) IN
       \/ /\ sock' = [sock EXCEPT ![c] = "New"]
          /\ pending' = pending \cup {c}
          /\ UNCHANGED cpc
       \/ /\ cpc' = [cpc EXCEPT ![c] = "err"]
          /\ UNCHANGED <<sock, pending>>
  /\ connQ' = Tail(connQ)
  /\ UNCHANGED <<active, loopVars, netVars>>

RequestsTaken ==
  /\ phase = "connect" /\ connQ = <<>>
  /\ phase' = "poll"
  /\ UNCHANGED <<cpc, connQ, sock, pending, active, devRx, devTx, netVars>>

\* A TCP socket on the arrival of a packet (external: smoltcp).
OnPacket(s, p) ==
  [s EXCEPT ![p.c] = CASE p.kind = "SynAck" /\ @ = "SynSent" -> "SynAcked"
                       [] p.kind = "Fin" /\ @ = "Established" -> "CloseWait"
                       [] p.kind = "Rst" /\ @ # "none" -> "Closed"
                       [] OTHER -> @]

\* iface.poll, first the packets taken in, one after the other ...
PollIngress ==
  /\ phase = "poll" /\ devRx # <<>>
  /\ sock' = OnPacket(sock, Head(devRx)) /\ devRx' = Tail(devRx)
  /\ UNCHANGED <<cpc, connQ, pending, active, phase, devTx, netVars>>

\* ... then a SYN out for every new socket and an ACK for every SYN-ACK.
\* Neither is repeated: the stream below loses nothing.
PollEgress ==
  /\ phase = "poll" /\ devRx = <<>>
  /\ sock' = [c \in Clients |-> CASE sock[c] = "New" -> "SynSent"
                                 [] sock[c] = "SynAcked" -> "Established"
                                 [] OTHER -> sock[c]]
  /\ devTx' = ({"Syn"} \X {c \in Clients : sock[c] = "New"})
               \cup ({"Ack"} \X {c \in Clients : sock[c] = "SynAcked"})
  /\ phase' = "transmit"
  /\ UNCHANGED <<cpc, connQ, pending, active, devRx, netVars>>

\* The packets go out.  poll_loop ignores a failed write, unified_loop ends.
TransmitAll ==
  /\ phase = "transmit" /\ ~(unified /\ broken /\ devTx # {})
  /\ LET Received(k) == IF broken THEN {} ELSE {c \in Clients : <<k, c>> \in devTx} IN
       /\ syns' = syns \cup Received("Syn")
       /\ opened' = opened \cup (half \cap Received("Ack"))
       /\ half' = half \ Received("Ack")
  /\ devTx' = {}
  /\ phase' = "promote"
  /\ UNCHANGED <<cpc, connQ, sock, pending, active, devRx, unified, rxQueue, reading, wire, broken>>

TransmitFails ==
  /\ phase = "transmit" /\ unified /\ broken /\ devTx # {}
  /\ LoopExits
  /\ UNCHANGED <<sock, devRx, devTx, netVars>>

\* A fault: a refused connection is kept pending.
PromoteEstablishedOnly ==
  /\ phase = "promote"
  /\ LET ready == {c \in pending : sock[c] = "Established"} IN
       /\ cpc' = [c \in Clients |-> IF c \in ready THEN "ok" ELSE cpc[c]]
       /\ active' = active \cup ready
       /\ pending' = pending \ ready
  /\ phase' = "intake"
  /\ UNCHANGED <<connQ, sock, devRx, devTx, netVars>>

\* A fault: every pending connection is handed out.
PromoteAll ==
  /\ phase = "promote"
  /\ cpc' = [c \in Clients |-> IF c \in pending THEN "ok" ELSE cpc[c]]
  /\ active' = active \cup pending /\ pending' = {}
  /\ phase' = "intake"
  /\ UNCHANGED <<connQ, sock, devRx, devTx, netVars>>

\* promote_and_bridge, first half: an established connection gets its pipe
\* (or an error, when UnixStream::pair fails) and a closed one an error; a
\* connection in any other state stays pending.
Promote ==
  /\ phase = "promote"
  /\ LET ready == {c \in pending : sock[c] = "Established"}
         refused == {c \in pending : sock[c] = "Closed"}
     IN \E noPair \in SUBSET ready :
          /\ cpc' = [c \in Clients |->
                       CASE c \in ready \ noPair -> "ok"
                         [] c \in refused \cup noPair -> "err"
                         [] OTHER -> cpc[c]]
          /\ active' = active \cup (ready \ noPair)
          /\ pending' = pending \ (ready \cup refused)
  /\ phase' = "intake"
  /\ UNCHANGED <<connQ, sock, devRx, devTx, netVars>>

-----------------------------------------------------------------------------
(* The reader thread of the plain tunnel.                                  *)

ReaderRecv ==
  /\ reading /\ wire # <<>>
  /\ rxQueue' = Append(rxQueue, Head(wire)) /\ wire' = Tail(wire)
  /\ UNCHANGED <<cpc, connQ, sock, pending, active, loopVars, unified, reading, syns, half, opened, broken>>

\* recv_ipv6 fails: the stream has ended, or nothing came within the read
\* timeout left over from the handshake (10 s).
ReaderStops ==
  /\ reading /\ wire = <<>> /\ (broken \/ IdleLimit)
  /\ reading' = FALSE
  /\ UNCHANGED <<cpc, connQ, sock, pending, active, loopVars, unified, rxQueue, wire, syns,
                 half, opened, broken>>

-----------------------------------------------------------------------------
(* The device.                                                             *)

DevAnswer(c) ==
  /\ c \in syns /\ ~broken
  /\ \/ /\ wire' = Append(wire, [kind |-> "SynAck", c |-> c])
        /\ half' = half \cup {c}
     \/ /\ wire' = Append(wire, [kind |-> "Rst", c |-> c])
        /\ UNCHANGED half
  /\ syns' = syns \ {c}
  /\ UNCHANGED <<cpc, connQ, sock, pending, active, loopVars, unified, rxQueue, reading, opened, broken>>

\* A connection is closed by the device once it is acknowledged; it may be
\* reset before.
DevClose(c) ==
  /\ ~broken
  /\ \/ c \in opened /\ wire' = Append(wire, [kind |-> "Fin", c |-> c])
     \/ c \in half \cup opened /\ wire' = Append(wire, [kind |-> "Rst", c |-> c])
  /\ opened' = opened \ {c} /\ half' = half \ {c}
  /\ UNCHANGED <<cpc, connQ, sock, pending, active, loopVars, unified, rxQueue, reading, syns, broken>>

DevBreak ==
  /\ ~broken /\ broken' = TRUE
  /\ UNCHANGED <<cpc, connQ, sock, pending, active, loopVars, unified, rxQueue, reading, wire,
                 syns, half, opened>>

-----------------------------------------------------------------------------
Loop ==
  \/ IntakePlain \/ IntakeUnified \/ IntakeFails
  \/ TakeRequest \/ RequestsTaken \/ PollIngress \/ PollEgress \/ TransmitAll \/ TransmitFails \/ Promote

StackNext ==
  \/ \E c \in Clients : ConnectStart(c) \/ ConnectSend(c) \/ DevAnswer(c) \/ DevClose(c)
  \/ Loop \/ ReaderRecv \/ ReaderStops \/ DevBreak

StackSpec == StackInit /\ [][StackNext]_stackVars

\* The threads run, and a device that is still there answers a SYN.  The
\* reader thread is not obliged to stop.
StackFairSpec ==
  /\ StackSpec
  /\ WF_stackVars(Loop) /\ WF_stackVars(ReaderRecv)
  /\ \A c \in Clients : SF_stackVars(ConnectSend(c)) /\ WF_stackVars(DevAnswer(c))

-----------------------------------------------------------------------------
(* Properties.                                                             *)

\* A client gets a pipe only for a connection the device accepted, and a
\* connection nobody waits for any more is not pending (lines 260-282).
OkMeansAccepted ==
  \A c \in Clients :
    /\ cpc[c] = "ok" => sock[c] \in {"Established", "CloseWait", "Closed"} /\ c \notin pending
    /\ c \in active => cpc[c] = "ok"

\* A client that waits is known to the poll thread: its request is queued or
\* its connection pending, so that some step of the thread can answer it; and
\* once the thread is gone nobody waits (lines 95-108).
WaitersKnown ==
  \A c \in Clients :
    cpc[c] = "wait" => phase # "exited" /\ (c \in ToSet(connQ) \/ c \in pending)

\* connect returns, with a pipe or an error: on a TLS tunnel always, also when
\* the tunnel goes down between any two steps; on a plain tunnel as long as the
\* stream below it is up.  A connection the device closes at once is still seen
\* established, because the loop looks at it between sending the ACK and taking
\* in the FIN (lines 93-108, 153-182, 260-282).
ConnectReturns ==
  \A c \in Clients :
    cpc[c] \in {"send", "wait"} ~> cpc[c] \in {"ok", "err"} \/ (broken /\ ~unified)

\* What holds of connecting at every moment: the types, that a pipe stands for
\* an accepted connection, and that nobody waits for a thread that is gone.
ConnectSafe == StackTypeOK /\ OkMeansAccepted /\ WaitersKnown
=============================================================================
