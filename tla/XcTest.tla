------------------------------- MODULE XcTest -------------------------------
(***************************************************************************)
(* run of src/xctest/mod.rs: a test run over the first DTX connection to   *)
(* testmanagerd.  The main thread sets up, launches the runner and waits;  *)
(* one thread serves channel 0, on which the runner names the channel of   *)
(* its driver interface, another the channel of the IDE interface.         *)
(*                                                                         *)
(* The reader and the bounded queues are those of Dtx and have room here.  *)
(* The runner is external: it sends what the handlers tell apart, each     *)
(* message with expects_reply set (the code acknowledges only those),      *)
(* waits for the configuration and for the start command, and may exit     *)
(* anywhere.  It and testmanagerd say other things on channel 0 as well.   *)
(***************************************************************************)
EXTENDS Integers, Sequences

CONSTANTS
  Classes,     \* number of test classes the runner runs
  DriverCode,  \* the runner's code of its driver channel
  RootRoom     \* bound: places in the queue of channel 0

ASSUME XcAssumption == Classes \in Nat /\ DriverCode \in Nat \ {0, 1} /\ RootRoom \in Nat

\* The channels conn1 knows of.
Root == 0
Ide == 1
Unknown == -1   \* driver_invoke_chan before the runner has named its channel

\* What the runner sends: each class is a test case and the end of its suite;
\* a suite without a case comes first.
RunnerScript ==
  <<"requestDriver", "ready", "log", "suite">>
    \o [i \in 1..2 * Classes |-> IF i % 2 = 1 THEN "case" ELSE "suite"] \o <<"plan">>
ChannelOf(sel) == IF sel = "requestDriver" THEN Root ELSE Ide

\* What else comes on channel 0: a notification, and the request for a channel
\* of another interface.
Asides == [chan: {Root}, sel: {"notify", "requestOther"}, num: {0}]

VARIABLES
  xc,          \* the main thread
  registered,  \* channels of conn1 that have a queue
  queue,       \* the queue of each
  served,      \* handler threads that run
  invoke,      \* driver_invoke_chan
  caseDone,    \* test_case_finished
  planStarted, \* plan_started
  done,        \* the queue of done_tx, which has one place
  sent,        \* runner: messages sent
  repeated,    \* runner: the log line was sent a second time
  wireX,       \* messages the reader has not dispatched yet
  got,         \* runner: what it has been told
  answers,     \* history: answers to each message
  starts,      \* history: channels the start command was sent on
  early,       \* history: it was sent with the request for the channel unread
  stdio,       \* the runner's standard output is open
  why          \* why the wait ended

xcVars == <<xc, registered, queue, served, invoke, caseDone, planStarted, done, sent, repeated, wireX, got,
            answers, starts, early, stdio, why>>
mainUnch == <<queue, invoke, caseDone, planStarted, done, sent, repeated, wireX, got, answers, starts, early, stdio>>
runUnch == <<xc, registered, served, why>>

XcInit ==
  /\ xc = "start" /\ registered = {} /\ served = {} /\ why = "none"
  /\ queue = [c \in {Root, Ide} |-> <<>>] /\ invoke = Unknown
  /\ caseDone = FALSE /\ planStarted = FALSE /\ done = FALSE
  /\ sent = 0 /\ repeated = FALSE /\ wireX = <<>> /\ got = {} /\ stdio = FALSE
  /\ answers = [i \in 1..Len(RunnerScript) |-> <<>>] /\ starts = <<>> /\ early = FALSE

-----------------------------------------------------------------------------
(* The main thread.                                                        *)

MainStep(from, to) == xc = from /\ xc' = to /\ UNCHANGED why

\* The ports, the standard output, two connections and their handshakes, the
\* IDE channel.
XcOpen == MainStep("start", "open") /\ UNCHANGED <<registered, served, mainUnch>>

\* Both queues are there before the session is initiated.
XcRegister == MainStep("open", "registered") /\ registered' = {Ide, Root} /\ UNCHANGED <<served, mainUnch>>

\* _IDE_initiateSession and the request for the driver channel.
XcInitiate == MainStep("registered", "initiated") /\ UNCHANGED <<registered, served, mainUnch>>

XcSpawn == MainStep("initiated", "spawned") /\ served' = {Root, Ide} /\ UNCHANGED <<registered, mainUnch>>

\* launch_test_runner, with the standard output.
XcLaunch ==
  /\ MainStep("spawned", "launched") /\ stdio' = TRUE
  /\ UNCHANGED <<registered, served, queue, invoke, caseDone, planStarted, done, sent, repeated, wireX, got, answers, starts, early>>

\* The control session over conn2 and the authorisation of the process.
XcAuthorize == MainStep("launched", "wait") /\ UNCHANGED <<registered, served, mainUnch>>

\* A call that fails: the run ends with its error.
XcFails ==
  /\ xc \in {"start", "open", "registered", "initiated", "spawned", "launched"} /\ xc' = "failed"
  /\ UNCHANGED <<why, registered, served, mainUnch>>

\* The wait loop: the runner has exited, the plan is done, or 300 s are over;
\* in each case run returns Ok(true).
XcEnds ==
  /\ xc = "wait" /\ xc' = "passed"
  /\ \/ ~stdio /\ why' = "exited"
     \/ done /\ why' = "done"
     \/ why' = "timeout"
  /\ UNCHANGED <<registered, served, mainUnch>>

-----------------------------------------------------------------------------
(* The reader and the two handlers.                                        *)

XcDispatch ==
  /\ wireX # <<>> /\ wireX' = Tail(wireX)
  /\ LET msg == Head(wireX) IN
     queue' = IF msg.chan \in registered THEN [queue EXCEPT ![msg.chan] = Append(@, msg)] ELSE queue
  /\ UNCHANGED <<invoke, caseDone, planStarted, done, sent, repeated, got, answers, starts, early, stdio, runUnch>>

Takes(ch) == ch \in served /\ queue[ch] # <<>> /\ queue' = [queue EXCEPT ![ch] = Tail(@)]

\* A fault: whatever channel is asked for is taken for the driver's.
RootHandlerAny ==
  /\ Takes(Root)
  /\ invoke' = CASE Head(queue[Root]).sel = "requestDriver" -> -DriverCode
                 [] Head(queue[Root]).sel = "requestOther" -> -(DriverCode + 1)
                 [] OTHER -> invoke
  /\ UNCHANGED <<caseDone, planStarted, done, sent, repeated, wireX, got, answers, starts, early, stdio, runUnch>>

\* The thread of channel 0: it keeps the code out of the request for the driver
\* interface, drops everything else, and answers nothing.
RootHandler ==
  /\ Takes(Root)
  /\ invoke' = IF Head(queue[Root]).sel = "requestDriver" THEN -DriverCode ELSE invoke
  /\ UNCHANGED <<caseDone, planStarted, done, sent, repeated, wireX, got, answers, starts, early, stdio, runUnch>>

\* The request for the driver channel is in the queue of channel 0.
Unread == \E i \in DOMAIN queue[Root] : queue[Root][i].sel = "requestDriver"

Msg == Head(queue[Ide])
Answered(how) == answers' = [answers EXCEPT ![Msg.num] = Append(@, how)]
ideUnch == <<invoke, sent, repeated, wireX, stdio, xc, registered, why>>

\* A fault: the message is acknowledged first, as the others are.
RunnerReadyAcked ==
  /\ Takes(Ide) /\ Msg.sel = "ready" /\ answers' = [answers EXCEPT ![Msg.num] = @ \o <<"ack", "config">>]
  /\ got' = got \cup {"config"} /\ UNCHANGED <<caseDone, planStarted, done, starts, early, served, ideUnch>>

\* testRunnerReadyWithCapabilities: the configuration is the answer.
RunnerReady ==
  /\ Takes(Ide) /\ Msg.sel = "ready" /\ Answered("config") /\ got' = got \cup {"config"}
  /\ UNCHANGED <<caseDone, planStarted, done, starts, early, served, ideUnch>>

\* didFinishExecutingTestPlan: the thread ends.
PlanFinished ==
  /\ Takes(Ide) /\ Msg.sel = "plan" /\ Answered("ack") /\ done' = TRUE /\ served' = served \ {Ide}
  /\ UNCHANGED <<caseDone, planStarted, got, starts, early, ideUnch>>

CaseFinished ==
  /\ Takes(Ide) /\ Msg.sel = "case" /\ Answered("ack") /\ caseDone' = TRUE
  /\ UNCHANGED <<planStarted, done, got, starts, early, served, ideUnch>>

\* A fault: any suite that ends is the last.
SuiteFinishedAny ==
  /\ Takes(Ide) /\ Msg.sel = "suite" /\ Answered("ack") /\ done' = TRUE
  /\ UNCHANGED <<caseDone, planStarted, got, starts, early, served, ideUnch>>

\* testSuite...didFinishAt: done, if a test case has finished before.
SuiteFinished ==
  /\ Takes(Ide) /\ Msg.sel = "suite" /\ Answered("ack") /\ done' = (done \/ caseDone)
  /\ UNCHANGED <<caseDone, planStarted, got, starts, early, served, ideUnch>>

\* A log line: the first that says the runner is ready for testing brings it
\* the start command, on the channel known so far.
LogMessage ==
  /\ Takes(Ide) /\ Msg.sel = "log" /\ Answered("ack")
  /\ \/ ~planStarted /\ planStarted' = TRUE /\ starts' = Append(starts, invoke)
        /\ early' = Unread
        /\ got' = got \cup (IF invoke = -DriverCode THEN {"start"} ELSE {})
     \/ planStarted /\ UNCHANGED <<planStarted, starts, early, got>>
  /\ UNCHANGED <<caseDone, done, served, ideUnch>>

-----------------------------------------------------------------------------
(* The runner: sends the next message when it has what it waits for; logs  *)
(* may be repeated; exits.                                                 *)

RunnerSends ==
  /\ stdio /\ sent < Len(RunnerScript)
  /\ sent >= 2 => "config" \in got
  /\ sent >= 3 => "start" \in got
  /\ sent' = sent + 1
  /\ LET sel == RunnerScript[sent + 1] IN wireX' = Append(wireX, [chan |-> ChannelOf(sel), sel |-> sel, num |-> sent + 1])
  /\ UNCHANGED <<queue, invoke, caseDone, planStarted, done, repeated, got, answers, starts, early, stdio, runUnch>>

\* It says again that it is ready.
RunnerRepeats ==
  /\ stdio /\ sent = 3 /\ wireX = <<>> /\ queue[Ide] = <<>> /\ ~repeated /\ repeated' = TRUE
  /\ wireX' = <<[chan |-> Ide, sel |-> "log", num |-> 3]>>
  /\ UNCHANGED <<queue, invoke, caseDone, planStarted, done, sent, got, answers, starts, early, stdio, runUnch>>

RunnerExits ==
  /\ stdio /\ stdio' = FALSE
  /\ UNCHANGED <<queue, invoke, caseDone, planStarted, done, sent, repeated, wireX, got, answers, starts, early, runUnch>>

\* Something else comes on channel 0, from the runner or from testmanagerd, and
\* is queued.
RootAside ==
  /\ Root \in registered /\ Len(queue[Root]) < RootRoom
  /\ \E m \in Asides : queue' = [queue EXCEPT ![Root] = Append(@, m)]
  /\ UNCHANGED <<invoke, caseDone, planStarted, done, sent, repeated, wireX, got, answers, starts, early, stdio, runUnch>>

XcNext ==
  \/ XcOpen \/ XcRegister \/ XcInitiate \/ XcSpawn \/ XcLaunch \/ XcAuthorize \/ XcFails \/ XcEnds
  \/ XcDispatch \/ RootHandler \/ RunnerReady \/ PlanFinished \/ CaseFinished \/ SuiteFinished \/ LogMessage
  \/ RunnerSends \/ RunnerRepeats \/ RunnerExits \/ RootAside

XcSpec == XcInit /\ [][XcNext]_xcVars

-----------------------------------------------------------------------------
\* The start command is sent once at most: to the driver if the thread of
\* channel 0 has read the runner's request for its channel by then, and to
\* channel -1, where nobody is, if the request lies in the queue of that thread:
\* the two threads are not ordered, and the command is not sent again.  Nothing
\* else that comes on channel 0 changes where it goes (xctest/mod.rs 350-360,
\* 439-453).
StartOnDriverChannel ==
  /\ Len(starts) <= 1
  /\ \A i \in DOMAIN starts : starts[i] = IF early THEN Unknown ELSE -DriverCode

\* A message on the IDE channel is answered as often as it was sent, once it has
\* been taken, "ready" by the configuration and nothing else, the others by an
\* acknowledgement.  What comes on channel 0 has no answer at all, neither from
\* its thread nor, as the channel is registered, from the reader.
TimesSent(i) == IF i > sent THEN 0 ELSE IF RunnerScript[i] = "log" /\ repeated THEN 2 ELSE 1
AnswerTo(sel) == IF sel = "ready" THEN "config" ELSE "ack"
AnsweredOnce ==
  \A i \in DOMAIN answers :
    /\ ChannelOf(RunnerScript[i]) = Root => answers[i] = <<>>
    /\ \A k \in DOMAIN answers[i] : answers[i][k] = AnswerTo(RunnerScript[i])
    /\ Len(answers[i]) <= TimesSent(i)
    /\ ChannelOf(RunnerScript[i]) = Ide /\ wireX = <<>> /\ queue[Ide] = <<>> => Len(answers[i]) = TimesSent(i)

\* The run is over by the runner's word only once a test case has finished:
\* a suite without one, which comes first, does not end it.
DoneAfterACase ==
  why = "done" => \E i \in DOMAIN answers : RunnerScript[i] \in {"case", "plan"} /\ answers[i] # <<>>

\* What holds of a test run at every moment: the start command goes out once, to
\* the driver unless its request is still unread; a message on the IDE channel is
\* answered once for each time it was sent; no end before a case.
RunSafe == StartOnDriverChannel /\ AnsweredOnce /\ DoneAfterACase
=============================================================================
