--------------------------- MODULE PlistServices ---------------------------
(***************************************************************************)
(* The services of src/lockdown/services that answer one plist with one    *)
(* plist, and the commands built of them: setup and enrolment (MCInstall), *)
(* activation, diagnostics, developer mode (amfi), Wi-Fi, SpringBoard and  *)
(* the screenshot of an older device.                                      *)
(*                                                                         *)
(* A command is the list of its requests, each with the shapes of answer   *)
(* its code accepts.  Several hosts run commands against one device, each  *)
(* over a connection of its own.                                           *)
(***************************************************************************)
EXTENDS Integers, Sequences

CONSTANTS Hosts   \* processes, each running one command

\* Shapes of an answer: what was asked for (a good Status, the value, the message
\* that comes next); a dictionary with neither Status nor Error; one with an
\* Error text; one with a Status that is not the good one; no dictionary.
Shapes == {"good", "bare", "error", "status", "odd"}

\* A fault: the status of an acknowledgement is not looked at.
AcksUnchecked == Shapes

\* check_status of mcinstall.rs: no Status, or the good one.
Acks == {"good", "bare", "error"}

Ack(req) == [req |-> req, accepts |-> Acks]                        \* send_recv_ack
Value(req) == [req |-> req, accepts |-> {"good"}]                  \* the value asked for
NoError(req) == [req |-> req, accepts |-> Shapes \ {"error"}]      \* amfi, activation, wireless
Unread(req) == [req |-> req, accepts |-> Shapes]                   \* any answer
Status(req) == [req |-> req, accepts |-> Shapes \ {"status"}]      \* diagnostics: no Status, or Success

\* The requests, one for each method of the clients.
Flush == Ack("Flush")
Hello == Unread("Hello")
GetCloudConfig == [req |-> "GetConfig", accepts |-> Shapes \ {"odd"}]
SetCloudConfig == Ack("SetConfig")
Escalate == Value("Escalate")
EscalateResponse == Ack("EscalateResponse")
ProceedKeybagMigration == Ack("Migrate")
CreateTunnel1SessionInfo == Value("SessionInfo")
CreateActivationInfo == Value("ActivationInfo")
HandleActivationWithSession == NoError("HandleActivation")
Deactivate == Unread("Deactivate")
DiagnosticsQuery == Value("GasGauge")
DeveloperModeStatus == NoError("DeveloperModeStatus")
EnableDeveloperMode == NoError("EnableDeveloperMode")
GetWifiEnabled == NoError("GetWifiConnections")
SetWifiEnabled == NoError("EnableWifiConnections")
GetForegroundApp == Value("FrontMost")
SetOrientation == Unread("SetOrientation")
GetOrientation == Value("GetOrientation")
\* The service speaks first; any array will do for its DLMessageVersionExchange.
TakeScreenshot == <<[req |-> "Greeting", accepts |-> {"good", "odd"}], Value("VersionsOk"), Value("ScreenShot")>>

\* The commands that take several of them.
SetupStatus == <<Flush, GetCloudConfig>>
Skip == <<Flush, Hello, SetCloudConfig>>
Enroll == <<Flush, Hello, SetCloudConfig, Escalate, EscalateResponse, ProceedKeybagMigration>>
Activate ==
  <<CreateTunnel1SessionInfo, Value("Drm"), CreateActivationInfo, Value("Albert"), HandleActivationWithSession>>

Script == [
  setupStatus |-> SetupStatus, skip |-> Skip, enroll |-> Enroll,
  activate |-> Activate, deactivate |-> <<Deactivate>>,
  restart |-> <<Status("Restart")>>, battery |-> <<DiagnosticsQuery>>,
  devmode |-> <<DeveloperModeStatus>>, enableDevmode |-> <<EnableDeveloperMode>>,
  wifi |-> <<GetWifiEnabled>>, setWifi |-> <<SetWifiEnabled>>,
  orient |-> <<SetOrientation>>, orientation |-> <<GetOrientation>>, foreground |-> <<GetForegroundApp>>,
  screenshot |-> TakeScreenshot]

\* A service may refuse in any of the other shapes; Apple's servers refuse with
\* an HTTP error, which is "error" here.
Refusals == Shapes \ {"good"}

VARIABLES
  cmd,      \* the command of each host
  at,       \* the number of the request each host is at
  state,    \* "new", "send", "recv", "ok", "failed"
  wire,     \* requests and answers on each connection, in one direction at a time
  did,      \* device: what it has done for each host, in order
  refused   \* history: what it has refused each host, and in which shape

psVars == <<cmd, at, state, wire, did, refused>>

PsInit ==
  /\ cmd = [h \in Hosts |-> "skip"] /\ at = [h \in Hosts |-> 1]
  /\ state = [h \in Hosts |-> "new"]
  /\ wire = [h \in Hosts |-> <<>>] /\ did = [h \in Hosts |-> <<>>] /\ refused = [h \in Hosts |-> {}]

This(h) == Script[cmd[h]][at[h]]

ToDevice(req) == [to |-> "device", req |-> req, shape |-> "none"]

\* open_session and connect_service.  activate first asks lockdownd whether
\* there is anything to do.  A service that speaks first does so because it has
\* been connected.
PsStart(h) ==
  /\ state[h] = "new"
  /\ \/ \E c \in DOMAIN Script \ {"screenshot"} :
          cmd' = [cmd EXCEPT ![h] = c] /\ state' = [state EXCEPT ![h] = "send"] /\ UNCHANGED wire
     \/ /\ cmd' = [cmd EXCEPT ![h] = "screenshot"] /\ state' = [state EXCEPT ![h] = "recv"]
        /\ wire' = [wire EXCEPT ![h] = <<ToDevice("Greeting")>>]
     \/ cmd' = [cmd EXCEPT ![h] = "activate"] /\ state' = [state EXCEPT ![h] = "already"] /\ UNCHANGED wire
     \/ state' = [state EXCEPT ![h] = "failed"] /\ UNCHANGED <<cmd, wire>>
  /\ UNCHANGED <<at, did, refused>>

PsSend(h) ==
  /\ state[h] = "send" /\ state' = [state EXCEPT ![h] = "recv"]
  /\ wire' = [wire EXCEPT ![h] = Append(@, ToDevice(This(h).req))]
  /\ UNCHANGED <<cmd, at, did, refused>>

\* The answer: on with the next request, or the end.
PsRecv(h) ==
  /\ state[h] = "recv" /\ wire[h] # <<>> /\ Head(wire[h]).to = "host"
  /\ wire' = [wire EXCEPT ![h] = Tail(@)]
  /\ LET good == Head(wire[h]).shape \in This(h).accepts
         last == at[h] = Len(Script[cmd[h]])
     IN /\ state' = [state EXCEPT ![h] = IF ~good THEN "failed" ELSE IF last THEN "ok" ELSE "send"]
        /\ at' = [at EXCEPT ![h] = IF good /\ ~last THEN @ + 1 ELSE @]
  /\ UNCHANGED <<cmd, did, refused>>

\* The process is killed, or its connection breaks.
PsBreaks(h) ==
  /\ state[h] \in {"send", "recv"} /\ state' = [state EXCEPT ![h] = "failed"]
  /\ wire' = [wire EXCEPT ![h] = <<>>] /\ UNCHANGED <<cmd, at, did, refused>>

Answers(h, shape) == wire' = [wire EXCEPT ![h] = <<[Head(@) EXCEPT !.to = "host", !.shape = shape]>>]
Asked(h) == wire[h] # <<>> /\ Head(wire[h]).to = "device"

\* The device does it, and may say no more than that it has an answer.
PsDoes(h) ==
  /\ Asked(h) /\ (\E s \in {"good", "bare"} : Answers(h, s))
  /\ did' = [did EXCEPT ![h] = Append(@, Head(wire[h]).req)]
  /\ UNCHANGED <<cmd, at, state, refused>>

PsRefuses(h) ==
  /\ Asked(h)
  /\ \E s \in Refusals :
       /\ Answers(h, s)
       /\ refused' = [refused EXCEPT ![h] = @ \cup {[req |-> Head(wire[h]).req, shape |-> s]}]
  /\ UNCHANGED <<cmd, at, state, did>>

PsNext ==
  \E h \in Hosts : PsStart(h) \/ PsSend(h) \/ PsRecv(h) \/ PsBreaks(h) \/ PsDoes(h) \/ PsRefuses(h)

PsSpec == PsInit /\ [][PsNext]_psVars

-----------------------------------------------------------------------------
Done(h, i) == \E k \in DOMAIN did[h] : did[h][k] = Script[cmd[h]][i].req

\* The refusals a client takes for consent.  MCInstall looks at Status alone and
\* takes an Error without one for an acknowledgement (mcinstall.rs 214-216);
\* Restart likewise, and there the answer need not be a dictionary; activation,
\* amfi and the Wi-Fi settings look at Error alone; nobody looks at the answer to
\* hello, deactivate or set_orientation, and get_cloud_config hands out any
\* dictionary (mcinstall.rs 99-122, activation.rs 94-100, springboard.rs 78-88).
\* Where a value is wanted there is no consent without it.
Missed(req) ==
  CASE req \in {"Flush", "SetConfig", "EscalateResponse", "Migrate"} -> {"bare", "error"}
    [] req = "Restart" -> {"bare", "error", "odd"}
    [] req \in {"HandleActivation", "DeveloperModeStatus", "EnableDeveloperMode", "GetWifiConnections",
               "EnableWifiConnections"} -> {"bare", "status", "odd"}
    [] req = "GetConfig" -> {"bare", "error", "status"}
    [] req = "Greeting" -> {"odd"}
    [] req \in {"Hello", "Deactivate", "SetOrientation"} -> Refusals
    [] OTHER -> {}
Overlooked(h, i) ==
  \E s \in Missed(Script[cmd[h]][i].req) : [req |-> Script[cmd[h]][i].req, shape |-> s] \in refused[h]

\* A command goes no further than the first request the device refuses, and
\* reports success only if there was none, but for the refusals its client takes
\* for consent: an enrolment that is refused or killed half-way has done the
\* steps before and no other, unless the refusal was an Error without a Status.
StopsAtRefusal ==
  \A h \in Hosts : \A i \in DOMAIN Script[cmd[h]] :
    ~Done(h, i) /\ ~Overlooked(h, i) =>
      /\ state[h] # "ok"
      /\ \A k \in DOMAIN Script[cmd[h]] : k > i => ~Done(h, k)
=============================================================================
