------------------------------- MODULE Bridge -------------------------------
(***************************************************************************)
(* The byte pump of src/tunnel/smoltcp_stack.rs: the second half of        *)
(* promote_and_bridge, for one established TCP connection through the      *)
(* tunnel and the UnixStream pair that stands for it.  Once per iteration  *)
(* the poll thread lets smoltcp talk to the network and then moves bytes   *)
(* between the smoltcp socket and its (non-blocking) end of the pair; the  *)
(* user of the connection reads and writes the other end at any time.      *)
(* A byte is its position in its stream.                                   *)
(***************************************************************************)
EXTENDS Integers, Sequences

CONSTANTS
  Chunk,     \* size of the copy buffer (8192)
  PipeCap,   \* what the UnixStream pair buffers in each direction
  RxCap,     \* receive buffer of the smoltcp socket (524288)
  TxCap,     \* send buffer of the smoltcp socket (524288)
  InBytes,   \* bound: bytes the remote end sends
  OutBytes   \* bound: bytes the local end writes

ASSUME BridgeAssumption ==
  /\ Chunk \in Nat \ {0} /\ PipeCap \in Nat \ {0} /\ RxCap \in Nat \ {0}
  /\ TxCap \in Nat \ {0} /\ InBytes \in Nat /\ OutBytes \in Nat

VARIABLES
  pc,        \* poll thread: poll, flush, recv, send, reap, removed
  remSent,   \* bytes the remote end has sent
  sockRx,    \* rx_buffer of the smoltcp socket
  wbuf,      \* write_buf: bytes saved when the pipe was full
  pipeIn,    \* the pair, towards the local end
  localGot,  \* bytes the local end has read
  localSent, \* number of bytes the local end has written
  pipeOut,   \* the pair, towards the tunnel
  sockTx,    \* tx_buffer of the smoltcp socket
  remoteGot, \* bytes the remote end has received
  remFin,    \* the remote end has closed its direction
  locFin,    \* sock.close() was called
  finSent,   \* the remote end has acknowledged our FIN
  rst,       \* the connection was reset
  local,     \* local end of the pair: open, shut (for writing), gone
  torn       \* history: directions in which a chunk was written or sent only in part

inVars == <<remSent, sockRx, wbuf, pipeIn, localGot>>
outVars == <<localSent, pipeOut, sockTx, remoteGot>>
tcpVars == <<remFin, locFin, finSent, rst>>
bridgeVars == <<pc, inVars, outVars, tcpVars, local, torn>>

\* Values of the right shape, and no buffer beyond its capacity.
BridgeTypeOK ==
  /\ pc \in {"poll", "flush", "recv", "send", "reap", "removed"}
  /\ remSent \in 0..InBytes /\ localSent \in 0..OutBytes
  /\ sockRx \in Seq(1..InBytes) /\ Len(sockRx) <= RxCap
  /\ wbuf \in Seq(1..InBytes) /\ Len(wbuf) <= Chunk
  /\ pipeIn \in Seq(1..InBytes) /\ Len(pipeIn) <= PipeCap
  /\ localGot \in Seq(1..InBytes)
  /\ pipeOut \in Seq(1..OutBytes) /\ Len(pipeOut) <= PipeCap
  /\ sockTx \in Seq(1..OutBytes) /\ Len(sockTx) <= TxCap
  /\ remoteGot \in Seq(1..OutBytes)
  /\ remFin \in BOOLEAN /\ locFin \in BOOLEAN /\ finSent \in BOOLEAN /\ rst \in BOOLEAN
  /\ local \in {"open", "shut", "gone"}
  /\ torn \subseteq {"in", "out"}

BridgeInit ==
  /\ pc = "poll"
  /\ remSent = 0 /\ localSent = 0
  /\ sockRx = <<>> /\ wbuf = <<>> /\ pipeIn = <<>> /\ localGot = <<>>
  /\ pipeOut = <<>> /\ sockTx = <<>> /\ remoteGot = <<>>
  /\ remFin = FALSE /\ locFin = FALSE /\ finSent = FALSE /\ rst = FALSE
  /\ local = "open" /\ torn = {}

-----------------------------------------------------------------------------
(* The state of the smoltcp socket (external).                             *)

\* Closed or TimeWait: reset, or closed by both ends.
TcpDone == rst \/ (remFin /\ finSent)
CanRecv == sockRx # <<>>
CanSend == ~rst /\ ~locFin /\ Len(sockTx) < TxCap

Fits(s, n) == IF Len(s) < n THEN Len(s) ELSE n
Take(s, n) == SubSeq(s, 1, Fits(s, n))
Drop(s, n) == SubSeq(s, Fits(s, n) + 1, Len(s))

-----------------------------------------------------------------------------
(* iface.poll: what the network does to the socket.                        *)

Polling == pc = "poll"

NetIn ==
  /\ Polling /\ remSent < InBytes /\ ~remFin /\ ~rst /\ Len(sockRx) < RxCap
  /\ remSent' = remSent + 1
  /\ sockRx' = Append(sockRx, remSent')
  /\ UNCHANGED <<pc, wbuf, pipeIn, localGot, outVars, tcpVars, local, torn>>

NetFin ==
  /\ Polling /\ ~remFin /\ ~rst
  /\ remFin' = TRUE
  /\ UNCHANGED <<pc, inVars, outVars, locFin, finSent, rst, local, torn>>

NetOut ==
  /\ Polling /\ ~rst /\ sockTx # <<>>
  /\ remoteGot' = Append(remoteGot, Head(sockTx))
  /\ sockTx' = Tail(sockTx)
  /\ UNCHANGED <<pc, inVars, localSent, pipeOut, tcpVars, local, torn>>

NetFinSent ==
  /\ Polling /\ ~rst /\ locFin /\ sockTx = <<>> /\ ~finSent
  /\ finSent' = TRUE
  /\ UNCHANGED <<pc, inVars, outVars, remFin, locFin, rst, local, torn>>

NetReset ==
  /\ Polling /\ ~TcpDone
  /\ rst' = TRUE /\ sockTx' = <<>>
  /\ UNCHANGED <<pc, inVars, localSent, pipeOut, remoteGot, remFin, locFin,
                 finSent, local, torn>>

\* The poll is over and the poll thread turns to the connection.
PassBegins ==
  /\ Polling
  /\ pc' = "flush"
  /\ UNCHANGED <<inVars, outVars, tcpVars, local, torn>>

-----------------------------------------------------------------------------
(* promote_and_bridge, the bridge half.                                    *)

\* proxy.write_all(b): what fits is written; the call fails when not all
\* does, or when the local end is gone.  The bytes that did not fit stay
\* with the caller, which does not learn how many were written.
Written(b) == IF local = "gone" THEN 0 ELSE Fits(b, PipeCap - Len(pipeIn))
WriteAllOk(b) == Written(b) = Len(b) /\ local # "gone"
WriteAll(b) ==
  /\ pipeIn' = pipeIn \o Take(b, Written(b))
  /\ torn' = IF Written(b) \in 1..Len(b) - 1 THEN torn \cup {"in"} ELSE torn

\* A fault: new bytes are read from the socket before the saved ones are out.
FlushNoWait ==
  /\ pc = "flush"
  /\ pc' = "recv"
  /\ IF wbuf # <<>> /\ WriteAllOk(wbuf)
       THEN WriteAll(wbuf) /\ wbuf' = <<>>
       ELSE UNCHANGED <<pipeIn, wbuf, torn>>
  /\ UNCHANGED <<remSent, sockRx, localGot, outVars, tcpVars, local>>

\* A fault: saved bytes are never tried again.
FlushNever ==
  /\ pc = "flush"
  /\ pc' = IF wbuf = <<>> THEN "recv" ELSE "poll"
  /\ UNCHANGED <<inVars, outVars, tcpVars, local, torn>>

\* Saved bytes go first; while they do not all fit, the connection is skipped
\* until the next pass.
Flush ==
  /\ pc = "flush"
  /\ \/ /\ wbuf = <<>>
        /\ pc' = "recv" /\ UNCHANGED <<pipeIn, wbuf, torn>>
     \/ /\ wbuf # <<>> /\ WriteAllOk(wbuf)
        /\ WriteAll(wbuf)
        /\ wbuf' = <<>> /\ pc' = "recv"
     \/ /\ wbuf # <<>> /\ ~WriteAllOk(wbuf)
        /\ WriteAll(wbuf)
        /\ pc' = "poll" /\ UNCHANGED wbuf
  /\ UNCHANGED <<remSent, sockRx, localGot, outVars, tcpVars, local>>

\* One turn of the receive loop: a chunk from the socket to the pipe; a chunk
\* the pipe does not take is saved whole.
Receive ==
  /\ pc = "recv"
  /\ IF CanRecv
       THEN LET b == Take(sockRx, Chunk) IN
              /\ sockRx' = Drop(sockRx, Chunk)
              /\ WriteAll(b)
              /\ IF WriteAllOk(b)
                   THEN UNCHANGED <<pc, wbuf>>
                   ELSE wbuf' = wbuf \o b /\ pc' = "send"
       ELSE pc' = "send" /\ UNCHANGED <<sockRx, pipeIn, wbuf, torn>>
  /\ UNCHANGED <<remSent, localGot, outVars, tcpVars, local>>

\* A chunk from the pipe to the socket, which takes what fits into its buffer;
\* the rest of the chunk is gone.
SendSlice ==
  LET b == Take(pipeOut, Chunk) IN
  /\ pipeOut' = Drop(pipeOut, Chunk)
  /\ sockTx' = sockTx \o Take(b, TxCap - Len(sockTx))
  /\ torn' = IF TxCap - Len(sockTx) \in 1..Len(b) - 1 THEN torn \cup {"out"} ELSE torn

\* A fault: the pipe is read without asking whether the socket can send.
TransmitAlways ==
  /\ pc = "send"
  /\ \/ /\ pipeOut # <<>>
        /\ SendSlice
        /\ UNCHANGED <<pc, locFin>>
     \/ /\ pipeOut = <<>>
        /\ pc' = "reap"
        /\ locFin' = (locFin \/ local # "open") /\ UNCHANGED <<pipeOut, sockTx, torn>>
  /\ UNCHANGED <<inVars, localSent, remoteGot, remFin, finSent, rst, local>>

\* A fault: the socket is closed as soon as the local end is, with bytes of
\* the local end still in the pipe.
TransmitCloseEarly ==
  /\ pc = "send"
  /\ IF CanSend /\ local # "open"
       THEN locFin' = TRUE /\ pc' = "reap" /\ UNCHANGED <<pipeOut, sockTx, torn>>
       ELSE IF CanSend /\ pipeOut # <<>>
         THEN /\ SendSlice
              /\ UNCHANGED <<pc, locFin>>
         ELSE pc' = "reap" /\ UNCHANGED <<pipeOut, sockTx, locFin, torn>>
  /\ UNCHANGED <<inVars, localSent, remoteGot, remFin, finSent, rst, local>>

\* A fault: the end of the local stream does not close the socket.
TransmitNeverCloses ==
  /\ pc = "send"
  /\ IF CanSend /\ pipeOut # <<>>
       THEN /\ SendSlice
            /\ UNCHANGED pc
       ELSE pc' = "reap" /\ UNCHANGED <<pipeOut, sockTx, torn>>
  /\ UNCHANGED <<inVars, localSent, remoteGot, tcpVars, local>>

\* One turn of the send loop.  At the end of the local stream the socket is
\* closed.
Transmit ==
  /\ pc = "send"
  /\ \/ /\ CanSend /\ pipeOut # <<>>
        /\ SendSlice
        /\ UNCHANGED <<pc, locFin>>
     \/ /\ CanSend /\ pipeOut = <<>> /\ local # "open"
        /\ locFin' = TRUE /\ pc' = "reap" /\ UNCHANGED <<pipeOut, sockTx, torn>>
     \/ /\ ~CanSend \/ (pipeOut = <<>> /\ local = "open")
        /\ pc' = "reap" /\ UNCHANGED <<pipeOut, sockTx, locFin, torn>>
  /\ UNCHANGED <<inVars, localSent, remoteGot, remFin, finSent, rst, local>>

\* A fault: the connection is removed although the socket holds bytes.
ReapEarly ==
  /\ pc = "reap"
  /\ pc' = IF TcpDone THEN "removed" ELSE "poll"
  /\ UNCHANGED <<inVars, outVars, tcpVars, local, torn>>

\* The connection is removed, and its end of the pair dropped, once TCP is
\* done and the socket is empty.
Reap ==
  /\ pc = "reap"
  /\ pc' = IF TcpDone /\ ~CanRecv THEN "removed" ELSE "poll"
  /\ UNCHANGED <<inVars, outVars, tcpVars, local, torn>>

-----------------------------------------------------------------------------
(* The user of the connection.                                             *)

LocalRead ==
  /\ local # "gone" /\ pipeIn # <<>>
  /\ localGot' = Append(localGot, Head(pipeIn))
  /\ pipeIn' = Tail(pipeIn)
  /\ UNCHANGED <<pc, remSent, sockRx, wbuf, outVars, tcpVars, local, torn>>

LocalWrite ==
  /\ local = "open" /\ pc # "removed"
  /\ localSent < OutBytes /\ Len(pipeOut) < PipeCap
  /\ localSent' = localSent + 1
  /\ pipeOut' = Append(pipeOut, localSent')
  /\ UNCHANGED <<pc, inVars, sockTx, remoteGot, tcpVars, local, torn>>

LocalShutdown ==
  /\ local = "open"
  /\ local' = "shut"
  /\ UNCHANGED <<pc, inVars, outVars, tcpVars, torn>>

LocalDrop ==
  /\ local # "gone"
  /\ local' = "gone" /\ pipeIn' = <<>>
  /\ UNCHANGED <<pc, remSent, sockRx, wbuf, localGot, outVars, tcpVars, torn>>

-----------------------------------------------------------------------------
PollThread == PassBegins \/ Flush \/ Receive \/ Transmit \/ Reap
Network == NetIn \/ NetFin \/ NetOut \/ NetFinSent \/ NetReset
User == LocalRead \/ LocalWrite \/ LocalShutdown \/ LocalDrop

BridgeNext == PollThread \/ Network \/ User

BridgeSpec == BridgeInit /\ [][BridgeNext]_bridgeVars

\* The poll thread keeps going, the network carries what the socket sends, the
\* remote end closes in the end, and the user reads what there is to read.
\* WF on a network step is not enough: it is disabled during a pass.
BridgeFairSpec ==
  /\ BridgeSpec
  /\ WF_bridgeVars(PollThread) /\ WF_bridgeVars(LocalRead)
  /\ SF_bridgeVars(NetOut) /\ SF_bridgeVars(NetFinSent) /\ SF_bridgeVars(NetFin)

-----------------------------------------------------------------------------
(* Properties.                                                             *)

\* The two directions as byte pipes.  A direction is cut when the reset has
\* emptied the send buffer, when the connection was removed or when the
\* reader is gone.
In == INSTANCE BytePipe WITH
  sent <- remSent, got <- Len(localGot),
  cut <- (local = "gone" \/ pc = "removed"),
  flight <- IF local = "gone" THEN <<>>
            ELSE IF pc = "removed" THEN pipeIn
            ELSE pipeIn \o wbuf \o sockRx
Out == INSTANCE BytePipe WITH
  sent <- localSent, got <- Len(remoteGot), cut <- (rst \/ pc = "removed"),
  flight <- IF rst \/ pc = "removed" THEN <<>> ELSE sockTx \o pipeOut

\* Tunnel to user: a correct byte pipe (lines 284-315).  Bytes the pipe could
\* not take are neither lost, repeated nor overtaken, until it takes a chunk
\* in part: the whole chunk is then saved and its first bytes come twice.
InboundPipe == In!Init /\ [][In!Next \/ "in" \in torn']_(In!pipeVars)

\* User to tunnel: a correct byte pipe (lines 317-334), until the socket takes
\* a chunk in part and the rest of it is lost.
OutboundPipe == Out!Init /\ [][Out!Next \/ "out" \in torn']_(Out!pipeVars)

\* The remote end receives the user's bytes in order, none missing (317-334).
OutboundInOrder == \A i \in DOMAIN remoteGot : remoteGot[i] = i

\* When the remote end sees the connection closed in order, it has received
\* all the user wrote (lines 321-324), if no chunk was sent in part.
CloseAfterData == finSent /\ "out" \notin torn => Len(remoteGot) = localSent

\* A user that still reads misses at most what is saved in write_buf when the
\* connection is removed: every other byte the socket accepted was read or is
\* in the pair (lines 284-315, 336-340), if no chunk was written in part.
OnlySavedBytesLost ==
  pc = "removed" /\ local # "gone" /\ "in" \notin torn =>
    Len(localGot) + Len(pipeIn) + Len(wbuf) = remSent

\* Bytes that have arrived reach a user that goes on reading, unless the
\* connection is removed or the user gives up (lines 286-315).
InboundArrives ==
  sockRx # <<>> \/ wbuf # <<>> ~> (sockRx = <<>> /\ wbuf = <<>>) \/ local = "gone" \/ pc = "removed"

\* When the user drops its end, its last bytes go out, the socket is closed
\* and the connection is eventually removed, unless bytes for the user are
\* saved in write_buf, which nobody will ever take (289-299, 317-341).
ReleasedUnlessSaved == local = "gone" ~> pc = "removed" \/ wbuf # <<>>

\* What holds of a bridged connection at every moment: the types, that an
\* orderly close follows all data, and that only saved bytes can get lost.
BridgeSafe == BridgeTypeOK /\ CloseAfterData /\ OnlySavedBytesLost

\* Both directions implement the abstract byte pipe, until a chunk is torn.
BridgePipes == InboundPipe /\ OutboundPipe

\* What arrives reaches a user that reads, and a connection its user has
\* dropped is released unless bytes are saved for it.
BridgeGoesOn == InboundArrives /\ ReleasedUnlessSaved
=============================================================================
