------------------------------- MODULE Proxy -------------------------------
(***************************************************************************)
(* proxy of src/bin/ios/cmd/tunnel.rs: two io::copy loops between a client *)
(* of the daemon, over the IPC socket, and the device, over the pipe of    *)
(* SmoltcpTunnel::connect.  The main loop carries upwards and holds ipc_r  *)
(* and smc_w, the spawned thread carries back and holds smc_r and ipc_w.   *)
(* try_clone shares a socket, and nobody calls shutdown: a socket closes   *)
(* when both loops are over.                                               *)
(*                                                                         *)
(* A byte is its position in the stream; a copy carries one at a time.     *)
(***************************************************************************)
EXTENDS Integers, Sequences

CONSTANTS
  PxBytes,   \* bound: bytes each side sends
  PxCap      \* bytes a socket holds

ASSUME ProxyAssumption == PxBytes \in Nat /\ PxCap \in Nat \ {0}

VARIABLES
  main, back,                \* the two loops: "read", "write", "done"
  ipcUp, hereUp, smcUp,      \* bytes of the client: in ipc, in the hands of main, in smc
  smcDown, hereDown, ipcDown,\* bytes of the device: in smc, in the hands of back, in ipc
  cli,                       \* the client: "open", "half" (sends no more), "gone"
  devEnd,                    \* the other end of smc: "open", "gone"
  cliSent, devSent,          \* history: bytes sent
  cliGot, devGot,            \* history: bytes read
  cliEof, devEof             \* history: the end of the stream was read

upVars == <<main, ipcUp, hereUp, smcUp>>
downVars == <<back, smcDown, hereDown, ipcDown>>
cliVars == <<cli, cliSent, cliGot, cliEof>>
devEndVars == <<devEnd, devSent, devGot, devEof>>
proxyVars == <<upVars, downVars, cliVars, devEndVars>>

\* One of the loops still holds its clones of both sockets.
SocketsHeld == main # "done" \/ back # "done"

ProxyInit ==
  /\ main = "read" /\ back = "read"
  /\ ipcUp = <<>> /\ hereUp = <<>> /\ smcUp = <<>>
  /\ smcDown = <<>> /\ hereDown = <<>> /\ ipcDown = <<>>
  /\ cli = "open" /\ devEnd = "open"
  /\ cliSent = 0 /\ devSent = 0 /\ cliGot = 0 /\ devGot = 0
  /\ cliEof = FALSE /\ devEof = FALSE

\* io::copy(ipc_r, smc_w) reads, or finds the end of what the client sends.
MainReads ==
  /\ main = "read" /\ ipcUp # <<>>
  /\ hereUp' = <<Head(ipcUp)>> /\ ipcUp' = Tail(ipcUp) /\ main' = "write"
  /\ UNCHANGED <<smcUp, downVars, cliVars, devEndVars>>

\* A fault: the end of one direction ends the other.
MainEofEndsBoth ==
  /\ main = "read" /\ ipcUp = <<>> /\ cli # "open"
  /\ main' = "done" /\ back' = "done"
  /\ UNCHANGED <<ipcUp, hereUp, smcUp, smcDown, hereDown, ipcDown, cliVars, devEndVars>>

MainEof ==
  /\ main = "read" /\ ipcUp = <<>> /\ cli # "open"
  /\ main' = "done"
  /\ UNCHANGED <<ipcUp, hereUp, smcUp, downVars, cliVars, devEndVars>>

\* A fault: what a full socket does not take is dropped.
MainWritesDropping ==
  /\ main = "write"
  /\ smcUp' = IF Len(smcUp) < PxCap THEN smcUp \o hereUp ELSE smcUp
  /\ hereUp' = <<>> /\ main' = IF devEnd = "gone" THEN "done" ELSE "read"
  /\ UNCHANGED <<ipcUp, downVars, cliVars, devEndVars>>

\* ... and writes, waiting for room, or fails since nobody is there.
MainWrites ==
  /\ main = "write"
  /\ \/ devEnd = "open" /\ Len(smcUp) < PxCap /\ smcUp' = smcUp \o hereUp /\ main' = "read"
     \/ devEnd = "gone" /\ main' = "done" /\ UNCHANGED smcUp
  /\ hereUp' = <<>>
  /\ UNCHANGED <<ipcUp, downVars, cliVars, devEndVars>>

\* The same in the spawned thread, io::copy(smc_r, ipc_w).
BackReads ==
  /\ back = "read" /\ smcDown # <<>>
  /\ hereDown' = <<Head(smcDown)>> /\ smcDown' = Tail(smcDown) /\ back' = "write"
  /\ UNCHANGED <<ipcDown, upVars, cliVars, devEndVars>>

BackEof ==
  /\ back = "read" /\ smcDown = <<>> /\ devEnd = "gone"
  /\ back' = "done"
  /\ UNCHANGED <<smcDown, hereDown, ipcDown, upVars, cliVars, devEndVars>>

\* A fault: the newest byte overtakes those in the socket.
BackWritesFirst ==
  /\ back = "write"
  /\ \/ cli # "gone" /\ Len(ipcDown) < PxCap /\ ipcDown' = hereDown \o ipcDown /\ back' = "read"
     \/ cli = "gone" /\ back' = "done" /\ UNCHANGED ipcDown
  /\ hereDown' = <<>>
  /\ UNCHANGED <<smcDown, upVars, cliVars, devEndVars>>

\* A fault: a failed write is ignored and the copy goes on.
BackWritesOn ==
  /\ back = "write"
  /\ \/ cli # "gone" /\ Len(ipcDown) < PxCap /\ ipcDown' = ipcDown \o hereDown
     \/ cli = "gone" /\ UNCHANGED ipcDown
  /\ hereDown' = <<>> /\ back' = "read"
  /\ UNCHANGED <<smcDown, upVars, cliVars, devEndVars>>

BackWrites ==
  /\ back = "write"
  /\ \/ cli # "gone" /\ Len(ipcDown) < PxCap /\ ipcDown' = ipcDown \o hereDown /\ back' = "read"
     \/ cli = "gone" /\ back' = "done" /\ UNCHANGED ipcDown
  /\ hereDown' = <<>>
  /\ UNCHANGED <<smcDown, upVars, cliVars, devEndVars>>

\* The client sends, stops sending, leaves, reads.
CliSends ==
  /\ cli = "open" /\ SocketsHeld /\ cliSent < PxBytes /\ Len(ipcUp) < PxCap
  /\ cliSent' = cliSent + 1 /\ ipcUp' = Append(ipcUp, cliSent')
  /\ UNCHANGED <<main, hereUp, smcUp, cli, cliGot, cliEof, downVars, devEndVars>>

CliCloses ==
  /\ cli' \in (IF cli = "open" THEN {"half", "gone"} ELSE {"gone"}) \ {cli}
  /\ UNCHANGED <<cliSent, cliGot, cliEof, upVars, downVars, devEndVars>>

CliReads ==
  /\ cli # "gone"
  /\ \/ ipcDown # <<>> /\ ipcDown' = Tail(ipcDown) /\ cliGot' = cliGot + 1 /\ UNCHANGED cliEof
     \/ ipcDown = <<>> /\ ~SocketsHeld /\ cliEof' = TRUE /\ UNCHANGED <<ipcDown, cliGot>>
  /\ UNCHANGED <<back, smcDown, hereDown, cli, cliSent, upVars, devEndVars>>

\* The poll thread at the other end of smc does the same, for the device.
DevEndSends ==
  /\ devEnd = "open" /\ SocketsHeld /\ devSent < PxBytes /\ Len(smcDown) < PxCap
  /\ devSent' = devSent + 1 /\ smcDown' = Append(smcDown, devSent')
  /\ UNCHANGED <<back, hereDown, ipcDown, devEnd, devGot, devEof, upVars, cliVars>>

DevEndLeaves ==
  /\ devEnd = "open" /\ devEnd' = "gone"
  /\ UNCHANGED <<devSent, devGot, devEof, upVars, downVars, cliVars>>

DevEndReads ==
  /\ devEnd = "open"
  /\ \/ smcUp # <<>> /\ smcUp' = Tail(smcUp) /\ devGot' = devGot + 1 /\ UNCHANGED devEof
     \/ smcUp = <<>> /\ ~SocketsHeld /\ devEof' = TRUE /\ UNCHANGED <<smcUp, devGot>>
  /\ UNCHANGED <<main, ipcUp, hereUp, devEnd, devSent, downVars, cliVars>>

MainLoop == MainReads \/ MainEof \/ MainWrites
BackLoop == BackReads \/ BackEof \/ BackWrites

ProxyNext ==
  \/ MainLoop \/ BackLoop
  \/ CliSends \/ CliCloses \/ CliReads \/ DevEndSends \/ DevEndLeaves \/ DevEndReads

\* The loops run; both ends read what comes while they are there.
ProxySpec ==
  /\ ProxyInit /\ [][ProxyNext]_proxyVars
  /\ WF_proxyVars(MainLoop) /\ WF_proxyVars(BackLoop)
  /\ WF_proxyVars(CliReads) /\ WF_proxyVars(DevEndReads)

-----------------------------------------------------------------------------
\* Each direction is a byte pipe until its reader is gone ("Copy bytes between
\* the IPC socket and the smoltcp UnixStream pipe", lines 421-437).
Up == INSTANCE BytePipe WITH
  sent <- cliSent, got <- devGot, cut <- devEnd = "gone",
  flight <- IF devEnd = "gone" THEN <<>> ELSE smcUp \o hereUp \o ipcUp
UpPipe == Up!Spec

Down == INSTANCE BytePipe WITH
  sent <- devSent, got <- cliGot, cut <- cli = "gone",
  flight <- IF cli = "gone" THEN <<>> ELSE ipcDown \o hereDown \o smcDown
DownPipe == Down!Spec

\* Both directions implement the abstract byte pipe.
ProxyPipes == UpPipe /\ DownPipe

\* Whoever reads the end of the stream has read all that was sent: the end of
\* one direction takes nothing from the other (433-437).
EndAfterAll == (cliEof => cliGot = devSent) /\ (devEof => devGot = cliSent)

\* The proxy lets go of both sockets once the client sends no more and the
\* device has left, or the client is gone and the device has something to say
\* (433-437).  Neither end alone is passed on: a client that reads until the
\* device's end of stream waits as long as it does not close itself.
ProxyReleases ==
  ((cli # "open" /\ devEnd = "gone") \/ (cli = "gone" /\ smcDown # <<>>)) ~> ~SocketsHeld
=============================================================================
