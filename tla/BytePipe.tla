------------------------------ MODULE BytePipe ------------------------------
(***************************************************************************)
(* One direction of the byte stream SmoltcpTunnel::connect promises: the   *)
(* reader gets the writer's bytes in order, each once, none missing, until *)
(* the stream is cut, after which it gets at most what was under way.      *)
(* A byte is its position in the stream.                                   *)
(***************************************************************************)
EXTENDS Integers, Sequences

VARIABLES
  sent,    \* number of bytes written
  flight,  \* bytes under way, oldest first
  got,     \* number of bytes read
  cut      \* the stream is broken

pipeVars == <<sent, flight, got, cut>>

Init == sent = 0 /\ flight = <<>> /\ got = 0 /\ cut = FALSE

\* A byte is written; on a broken stream it goes nowhere.
Send ==
  /\ sent' = sent + 1
  /\ flight' = IF cut THEN flight ELSE Append(flight, sent')
  /\ UNCHANGED <<got, cut>>

\* The oldest byte is read, and it is the next one of the stream.
Recv ==
  /\ flight # <<>> /\ Head(flight) = got + 1
  /\ got' = got + 1
  /\ flight' = Tail(flight)
  /\ UNCHANGED <<sent, cut>>

\* The stream breaks: the newest bytes under way are lost.
Cut ==
  /\ cut' = TRUE
  /\ \E n \in 0..Len(flight) : flight' = SubSeq(flight, 1, n)
  /\ UNCHANGED <<sent, got>>

Next == Send \/ Recv \/ Cut

Spec == Init /\ [][Next]_pipeVars
=============================================================================
