--------------------------- MODULE RemotePairing ---------------------------
(***************************************************************************)
(* establish_tunnel and RemotePairingSession of src/tunnel/remote_pairing: *)
(* processes of one user, each over a stream of its own, verify a stored   *)
(* identity with the device or set up a new one (SRP), share the record    *)
(* file, and then ask for a tunnel over the encrypted stream.              *)
(*                                                                         *)
(* An identity is a value; a session key is the dialogue it comes from.    *)
(* The device and the cryptography are external.                           *)
(***************************************************************************)
EXTENDS Integers, Sequences

CONSTANTS
  Pairers,    \* processes
  MaxRuns     \* bound: times each is run

ASSUME RpAssumption == MaxRuns \in Nat

NoRecord == [id |-> <<>>, peer |-> FALSE, whole |-> FALSE]
\* The kinds of message, by the answer they get.
PairingMsgs == {"pv1", "pv3", "srp1", "srp3", "srp5"}

VARIABLES
  rp,        \* where each process is
  runs,      \* times each was started
  rec,       \* the record each has in memory
  recFile,   \* the record file
  rpOut,     \* message on its way to the device, with its number
  rpIn,      \* answer on its way back
  rpSeq,     \* seq: messages sent
  rpKey,     \* client_key and server_key of each session
  trusted,   \* device: identities it knows
  devKey,    \* device: the session key of each stream
  forgot     \* history: identities the user took from the device

rpVars == <<rp, runs, rec, recFile, rpOut, rpIn, rpSeq, rpKey, trusted, devKey, forgot>>
rpDevVars == <<trusted, devKey, forgot>>

RpInit ==
  /\ rp = [p \in Pairers |-> "off"] /\ runs = [p \in Pairers |-> 0]
  /\ rec = [p \in Pairers |-> NoRecord] /\ recFile = NoRecord
  /\ rpOut = [p \in Pairers |-> <<>>] /\ rpIn = [p \in Pairers |-> <<>>] /\ rpSeq = [p \in Pairers |-> 0]
  /\ rpKey = [p \in Pairers |-> <<>>] /\ devKey = [p \in Pairers |-> <<>>]
  /\ trusted = {} /\ forgot = {}

-----------------------------------------------------------------------------
(* A process.                                                              *)

Sends(p, what, to) ==
  /\ rp' = [rp EXCEPT ![p] = to] /\ rpSeq' = [rpSeq EXCEPT ![p] = @ + 1]
  /\ rpOut' = [rpOut EXCEPT ![p] = Append(@, [what |-> what, id |-> rec[p].id, num |-> rpSeq[p] + 1])]

Goes(p, to) == rp' = [rp EXCEPT ![p] = to] /\ UNCHANGED <<rpSeq, rpOut>>

\* load: a file that is missing, or short, is no record; a fresh identity
\* has a key and no peer.
Load(p) ==
  /\ rp[p] = "off" /\ runs[p] < MaxRuns /\ runs' = [runs EXCEPT ![p] = @ + 1]
  /\ rp' = [rp EXCEPT ![p] = "open"]
  /\ rec' = [rec EXCEPT ![p] = IF recFile.whole THEN recFile ELSE [id |-> <<p, runs[p] + 1>>, peer |-> FALSE, whole |-> TRUE]]
  /\ UNCHANGED <<recFile, rpOut, rpIn, rpSeq, rpKey, rpDevVars>>

\* open: the first message is the same with and without credentials.
Open(p) ==
  /\ rp[p] = "open" /\ Sends(p, "hello", "caps")
  /\ UNCHANGED <<runs, rec, recFile, rpIn, rpKey, rpDevVars>>

HasCreds(p) == rec[p].peer

Receives(p, in) == rp[p] = in /\ rpIn[p] # <<>> /\ rpIn' = [rpIn EXCEPT ![p] = Tail(@)]
Resp(p) == Head(rpIn[p])
Good(p) == Resp(p).ok

\* The answer, whatever it says; then pair_verify or srp_pair.
Caps(p) ==
  /\ Receives(p, "caps") /\ Sends(p, IF HasCreds(p) THEN "pv1" ELSE "srp1", IF HasCreds(p) THEN "pv1" ELSE "srp1")
  /\ UNCHANGED <<runs, rec, recFile, rpKey, rpDevVars>>

\* srp_pair on the stream on which pair_verify has failed.
FallBack(p) == Sends(p, "srp1", "srp1")

\* pair_verify: the device's key, then our signature.
PairVerify1(p) ==
  /\ Receives(p, "pv1") /\ (IF Good(p) THEN Sends(p, "pv3", "pv3") ELSE FallBack(p))
  /\ UNCHANGED <<runs, rec, recFile, rpKey, rpDevVars>>

\* A fault: an error in the last answer is not looked at.
PairVerify3Unchecked(p) ==
  /\ Receives(p, "pv3") /\ Goes(p, "paired") /\ rpKey' = [rpKey EXCEPT ![p] = <<"pv", runs[p]>>]
  /\ UNCHANGED <<runs, rec, recFile, rpDevVars>>

\* A fault: the fall-back begins before the last answer is read.
PairVerify3Early(p) ==
  /\ \/ rp[p] = "pv3" /\ rpIn[p] = <<>> /\ FallBack(p) /\ UNCHANGED <<rpIn, rpKey>>
     \/ /\ Receives(p, "pv3") /\ Good(p) /\ Goes(p, "paired")
        /\ rpKey' = [rpKey EXCEPT ![p] = <<"pv", runs[p]>>]
  /\ UNCHANGED <<runs, rec, recFile, rpDevVars>>

PairVerify3(p) ==
  /\ Receives(p, "pv3")
  /\ \/ Good(p) /\ Goes(p, "paired") /\ rpKey' = [rpKey EXCEPT ![p] = <<"pv", runs[p]>>]
     \/ ~Good(p) /\ FallBack(p) /\ UNCHANGED rpKey
  /\ UNCHANGED <<runs, rec, recFile, rpDevVars>>

\* srp_pair: three exchanges; an error ends the session.
SrpStart(p) ==
  /\ Receives(p, "srp1") /\ (IF Good(p) THEN Sends(p, "srp3", "srp3") ELSE Goes(p, "failed"))
  /\ UNCHANGED <<runs, rec, recFile, rpKey, rpDevVars>>

\* A fault: the record is saved with the proof, before the device has it.
SrpProofSaves(p) ==
  /\ Receives(p, "srp3") /\ (IF Good(p) THEN Sends(p, "srp5", "srp5") ELSE Goes(p, "failed"))
  /\ recFile' = [rec[p] EXCEPT !.peer = TRUE]
  /\ UNCHANGED <<runs, rec, rpKey, rpDevVars>>

SrpProof(p) ==
  /\ Receives(p, "srp3") /\ (IF Good(p) THEN Sends(p, "srp5", "srp5") ELSE Goes(p, "failed"))
  /\ UNCHANGED <<runs, rec, recFile, rpKey, rpDevVars>>

\* The device's identity, if the last answer has it, and the keys.
SrpIdentity(p) ==
  /\ Receives(p, "srp5")
  /\ \/ Good(p) /\ Goes(p, "save") /\ rpKey' = [rpKey EXCEPT ![p] = <<"srp", runs[p]>>]
        /\ rec' = [rec EXCEPT ![p].peer = @ \/ Resp(p).identity]
     \/ ~Good(p) /\ Goes(p, "failed") /\ UNCHANGED <<rpKey, rec>>
  /\ UNCHANGED <<runs, recFile, rpDevVars>>

\* save: std::fs::write truncates the file and fills it; or it fails, and
\* open with it.
SaveBegins(p) ==
  /\ rp[p] = "save"
  /\ \/ Goes(p, "saving") /\ recFile' = [NoRecord EXCEPT !.id = rec[p].id]
     \/ Goes(p, "failed") /\ UNCHANGED recFile
  /\ UNCHANGED <<runs, rec, rpIn, rpKey, rpDevVars>>
SaveEnds(p) ==
  /\ rp[p] = "saving" /\ Goes(p, "paired") /\ recFile' = rec[p]
  /\ UNCHANGED <<runs, rec, rpIn, rpKey, rpDevVars>>

\* establish_tunnel: createListener over the encrypted stream ...
CreateListener(p) ==
  /\ rp[p] = "paired" /\ Sends(p, "listen", "listen")
  /\ UNCHANGED <<runs, rec, recFile, rpIn, rpKey, rpDevVars>>
\* ... its port, and the tunnel to it.
OpenTunnel(p) ==
  /\ Receives(p, "listen") /\ (IF Good(p) THEN Goes(p, "tunnel") \/ Goes(p, "failed") ELSE Goes(p, "failed"))
  /\ UNCHANGED <<runs, rec, recFile, rpKey, rpDevVars>>

\* The process ends, is killed, or its stream closes.
Ends(p) ==
  /\ rp[p] # "off" /\ rp' = [rp EXCEPT ![p] = "off"]
  /\ rpOut' = [rpOut EXCEPT ![p] = <<>>] /\ rpIn' = [rpIn EXCEPT ![p] = <<>>] /\ rpSeq' = [rpSeq EXCEPT ![p] = 0]
  /\ rpKey' = [rpKey EXCEPT ![p] = <<>>] /\ devKey' = [devKey EXCEPT ![p] = <<>>]
  /\ rec' = [rec EXCEPT ![p] = NoRecord]
  /\ UNCHANGED <<runs, recFile, trusted, forgot>>

-----------------------------------------------------------------------------
(* The device.                                                             *)

Answer(p, ok, identity) ==
  /\ rpOut' = [rpOut EXCEPT ![p] = Tail(@)]
  /\ rpIn' = [rpIn EXCEPT ![p] = Append(@, [ok |-> ok, identity |-> identity, num |-> Head(rpOut[p]).num])]
  /\ UNCHANGED <<rp, runs, rec, recFile, rpSeq, rpKey, forgot>>

RpDevAccepts(p) ==
  /\ rpOut[p] # <<>>
  /\ LET m == Head(rpOut[p]) IN
     \/ m.what \in {"hello", "pv1", "srp1", "srp3"} /\ Answer(p, TRUE, FALSE) /\ UNCHANGED <<trusted, devKey>>
     \/ /\ m.what = "pv3" /\ m.id \in trusted /\ Answer(p, TRUE, FALSE)
        /\ devKey' = [devKey EXCEPT ![p] = <<"pv", runs[p]>>] /\ UNCHANGED trusted
     \/ /\ m.what = "srp5" /\ (\E identity \in BOOLEAN : Answer(p, TRUE, identity))
        /\ trusted' = trusted \cup {m.id} /\ devKey' = [devKey EXCEPT ![p] = <<"srp", runs[p]>>]
     \/ m.what = "listen" /\ devKey[p] # <<>> /\ Answer(p, TRUE, FALSE) /\ UNCHANGED <<trusted, devKey>>

RpDevRefuses(p) ==
  /\ rpOut[p] # <<>> /\ Head(rpOut[p]).what \in PairingMsgs \cup {"listen"}
  /\ Answer(p, FALSE, FALSE) /\ UNCHANGED <<trusted, devKey>>

RpDevForgets(id) ==
  /\ trusted' = trusted \ {id} /\ forgot' = forgot \cup {id}
  /\ UNCHANGED <<rp, runs, rec, recFile, rpOut, rpIn, rpSeq, rpKey, devKey>>

RpProcess(p) ==
  \/ Load(p) \/ Open(p) \/ Caps(p) \/ PairVerify1(p) \/ PairVerify3(p) \/ SrpStart(p) \/ SrpProof(p) \/ SrpIdentity(p)
  \/ SaveBegins(p) \/ SaveEnds(p) \/ CreateListener(p) \/ OpenTunnel(p) \/ Ends(p)

RpNext ==
  \/ \E p \in Pairers : RpProcess(p) \/ RpDevAccepts(p) \/ RpDevRefuses(p)
  \/ \E id \in trusted : RpDevForgets(id)

RpSpec == RpInit /\ [][RpNext]_rpVars

-----------------------------------------------------------------------------
\* The identity in the record file, from whichever process it is, is one the
\* device accepted: a process that is killed, or refused, between any two
\* messages leaves no record the device would not verify.  It may have
\* forgotten it since.
RecordVerifies == recFile.whole => recFile.id \in trusted \cup forgot

\* Each answer is that to the last message, also when SRP follows a
\* pair-verify that failed half-way on the same stream.
PairingInStep ==
  \A p \in Pairers :
    /\ Len(rpOut[p]) + Len(rpIn[p]) <= 1
    /\ \A i \in DOMAIN rpIn[p] : rpIn[p][i].num = rpSeq[p]

\* When the session is up both sides use the keys of the same dialogue.
KeysAgree == \A p \in Pairers : rp[p] \in {"save", "saving", "paired", "listen", "tunnel"} => rpKey[p] = devKey[p]

\* What holds of remote pairing at every moment: a stored identity is one the
\* device has accepted, answers are in step, and both ends have one key.
PairingSafe == RecordVerifies /\ PairingInStep /\ KeysAgree
=============================================================================
