-------------------------------- MODULE Afc --------------------------------
(***************************************************************************)
(* AfcClient of src/lockdown/services/afc.rs: clients that read and write  *)
(* the files of one device, each over a connection of its own, and the     *)
(* pull and push commands of src/bin/ios/cmd/afc.rs.                       *)
(*                                                                         *)
(* The device has one directory with some files; a file is a sequence of   *)
(* chunks.  A request is written whole and its answer read whole           *)
(* (send_request, recv_response); the code numbers its packets and never   *)
(* looks at the number of an answer.  The recursion of pull_file_dyn and   *)
(* push_file is the list todo of what is left to do.                       *)
(***************************************************************************)
EXTENDS Integers, Sequences, FiniteSets

CONSTANTS
  AfcClients,   \* clients, each with its connection
  Files,        \* the files of the directory
  Dir,          \* the directory
  NChunks,      \* chunks of a file
  MaxAfcOps     \* bound: operations of a client

ASSUME AfcAssumption == IsFiniteSet(Files) /\ Dir \notin Files /\ NChunks \in Nat /\ MaxAfcOps \in Nat

Piece(who, n) == [of |-> who, n |-> n]
Text(who) == [i \in 1..NChunks |-> Piece(who, i)]   \* what a client has to push
Absent == <<Piece("nobody", 0)>>                    \* in the place of a content
Kinds == {"pull", "push", "install", "uninstall", "browse", "list", "stat", "remove", "rename", "link", "mkdir"}
Puts == {"push", "install"}
Over == {"idle", "done", "failed"}

VARIABLES
  fs,        \* device: content of each file
  dirThere,  \* device: the directory exists
  open,      \* device: open handles of each connection
  afcReq,    \* requests on their way
  afcRep,    \* answers on their way
  afcUp,     \* connections the device has not closed
  cl,        \* clients: what each is at
  intact,    \* history: files as a client's own operation found or left them
  task,      \* installation proxy: the request it works at for each client
  status,    \* installation proxy: messages on their way
  app        \* history: what the proxy did for each client

proxyVars == <<task, status, app>>
afcVars == <<fs, dirThere, open, afcReq, afcRep, afcUp, cl, intact>>
devVars == <<fs, dirThere, open, afcUp, intact>>

Idle == [pc |-> "idle", kind |-> "none", path |-> Dir, todo |-> <<>>, buf |-> <<>>, base |-> <<>>,
         num |-> 0, handle |-> 0, freed |-> {}, leaked |-> {}, ops |-> 0]

AfcInit ==
  /\ fs = [f \in Files |-> Text("dev")] /\ dirThere = TRUE
  /\ open = [c \in AfcClients |-> {}]
  /\ afcReq = [c \in AfcClients |-> <<>>] /\ afcRep = [c \in AfcClients |-> <<>>]
  /\ afcUp = [c \in AfcClients |-> TRUE]
  /\ cl = [c \in AfcClients |-> Idle]
  /\ intact = [c \in AfcClients |-> {}]
  /\ task = [c \in AfcClients |-> "none"] /\ status = [c \in AfcClients |-> <<>>]
  /\ app = [c \in AfcClients |-> Absent]

-----------------------------------------------------------------------------
(* The client.                                                             *)

\* send_request, from a client that goes on as new.
Ask(c, op, arg, new) ==
  /\ cl' = [cl EXCEPT ![c] = [new EXCEPT !.num = @ + 1, !.freed = @ \cup (IF op = "close" THEN {arg} ELSE {})]]
  /\ afcReq' = [afcReq EXCEPT ![c] = IF afcUp[c] THEN Append(@, [op |-> op, arg |-> arg, num |-> cl[c].num + 1]) ELSE @]

Ends(c, new, pc) == cl' = [cl EXCEPT ![c] = [new EXCEPT !.pc = pc]] /\ UNCHANGED afcReq

\* The next entry of todo: get_file_info when pulling or listing; mkdir, or the open of
\* a local file and file_open, when pushing.  put_file, with which an app is
\* uploaded, makes the directory of its file before and has its data in
\* memory.
NextItem(c, new) ==
  LET item == Head(new.todo) IN
  \/ new.todo = <<>> /\ Ends(c, new, IF new.kind = "install" THEN "staged" ELSE "done")
  \/ new.todo # <<>> /\ new.kind = "list" /\ Ask(c, "stat", item, [new EXCEPT !.pc = "lsStat"])
  \/ new.todo # <<>> /\ new.kind = "pull" /\ Ask(c, "stat", item, [new EXCEPT !.pc = "stat"])
  \/ /\ new.todo # <<>> /\ new.kind \in Puts
     /\ \/ item = Dir /\ Ask(c, "mkdir", item, [new EXCEPT !.pc = "mkdir"])
        \/ item # Dir /\ Ask(c, "openW", item, [new EXCEPT !.pc = "openW"])
        \/ new.kind = "push" /\ Ends(c, new, "failed")

\* The commands of cmd/afc.rs ...
StartPull(c, new) == new.kind = "pull" /\ NextItem(c, [new EXCEPT !.todo = <<new.path>>])
StartPush(c, new) == new.kind = "push" /\ NextItem(c, [new EXCEPT !.todo = <<new.path>>])
StartLs(c, new) == new.kind = "list" /\ new.path = Dir /\ Ask(c, "list", Dir, [new EXCEPT !.pc = "list", !.todo = <<Dir>>])
StartStat(c, new) == new.kind = "stat" /\ Ask(c, "stat", new.path, [new EXCEPT !.pc = "single"])
StartRm(c, new) == new.kind = "remove" /\ new.path # Dir /\ Ask(c, "remove", new.path, [new EXCEPT !.pc = "single"])
StartMv(c, new) == new.kind = "rename" /\ new.path # Dir /\ Ask(c, "rename", new.path, [new EXCEPT !.pc = "single"])
\* make_link, which no command uses.
StartLink(c, new) == new.kind = "link" /\ new.path # Dir /\ Ask(c, "link", new.path, [new EXCEPT !.pc = "single"])
StartMkdir(c, new) == new.kind = "mkdir" /\ new.path = Dir /\ Ask(c, "mkdir", Dir, [new EXCEPT !.pc = "mkdir"])
\* ... and of cmd/apps: an app is uploaded with put_file, the others need no
\* file.
StartInstall(c, new) == new.kind = "install" /\ new.path # Dir /\ NextItem(c, [new EXCEPT !.todo = <<Dir, new.path>>])
StartProxy(c, new) == new.kind \in {"uninstall", "browse"} /\ new.path = Dir /\ Ends(c, new, "staged")
\* connect: no session, no service, or house_arrest refuses the app.
NoConnection(c, new) == new.kind = "list" /\ new.path = Dir /\ Ends(c, new, "failed")

AfcStart(c) ==
  /\ cl[c].pc \in Over /\ cl[c].ops < MaxAfcOps
  /\ intact' = [intact EXCEPT ![c] = {}]
  /\ \E kind \in Kinds, f \in Files \cup {Dir} :
       LET new == [cl[c] EXCEPT !.kind = kind, !.path = f, !.todo = <<>>, !.buf = <<>>, !.base = <<>>, !.handle = 0, !.ops = @ + 1]
       IN \/ StartPull(c, new) \/ StartPush(c, new) \/ StartLs(c, new) \/ StartStat(c, new)
          \/ StartRm(c, new) \/ StartMv(c, new) \/ StartLink(c, new) \/ StartMkdir(c, new) \/ StartInstall(c, new) \/ StartProxy(c, new)
          \/ NoConnection(c, new)
  /\ UNCHANGED <<fs, dirThere, open, afcRep, afcUp>>

\* recv_response: the answer to the request sent in state pc.
Answer(c, pc) ==
  /\ cl[c].pc = pc /\ afcRep[c] # <<>>
  /\ afcRep' = [afcRep EXCEPT ![c] = Tail(@)]
Rep(c) == Head(afcRep[c])

\* What an answer means to an operation that wants a status, and to file_open.
StatusOk(c) == Rep(c).op = "success"
Opened(c) == Rep(c).op = "handle"

\* A fault: any status ends the file.
ReadResultAnyStatus(c) == IF Rep(c).op = "data" THEN "data" ELSE "end"

\* file_read takes "success" for the end of the file too.
ReadResult(c) == IF Rep(c).op = "success" THEN "end" ELSE Rep(c).op

Rest(c) == [cl[c] EXCEPT !.todo = Tail(@), !.buf = <<>>]

\* An operation of one request: get_file_info, device_info, or one of those
\* that change a path.
Single(c) ==
  /\ Answer(c, "single")
  /\ Ends(c, cl[c], IF Rep(c).op \in {"data", "success"} THEN "done" ELSE "failed")
  /\ UNCHANGED devVars

\* pull_file_dyn: a directory is made here and listed, a file opened.
PullStat(c) ==
  /\ Answer(c, "stat")
  /\ \/ Rep(c).op = "data" /\ Rep(c).val = "dir" /\ Ask(c, "list", Dir, [cl[c] EXCEPT !.pc = "list"])
     \/ Rep(c).op = "data" /\ Rep(c).val # "dir"
        /\ Ask(c, "openR", Head(cl[c].todo), [cl[c] EXCEPT !.pc = "openR"])
     \/ (Rep(c).op = "data" => Rep(c).val = "dir") /\ Ends(c, cl[c], "failed")
  /\ UNCHANGED devVars

\* list_dir: then its entries, one after the other; ls without -l is done.
PullList(c) ==
  /\ Answer(c, "list")
  /\ \/ Rep(c).op = "data" /\ NextItem(c, [Rest(c) EXCEPT !.todo = Rep(c).val \o @])
     \/ Rep(c).op = "data" /\ cl[c].kind = "list" /\ Ends(c, cl[c], "done")
     \/ Rep(c).op # "data" /\ Ends(c, cl[c], "failed")
  /\ UNCHANGED devVars

\* The long listing goes on whatever get_file_info returns, be it that the
\* connection is closed.
LsStat(c) ==
  /\ \/ Answer(c, "lsStat")
     \/ cl[c].pc = "lsStat" /\ ~afcUp[c] /\ afcRep[c] = <<>> /\ UNCHANGED afcRep
  /\ NextItem(c, Rest(c))
  /\ UNCHANGED devVars

\* The local file is created once the remote one is open; if it cannot be,
\* the handle stays open.
PullOpen(c) ==
  /\ Answer(c, "openR")
  /\ \/ Opened(c)
        /\ LET new == [cl[c] EXCEPT !.handle = Rep(c).val, !.base = Rep(c).base, !.buf = <<>>]
           IN \/ Ask(c, "read", Rep(c).val, [new EXCEPT !.pc = "read"])
              \/ Ends(c, [new EXCEPT !.leaked = @ \cup {new.handle}], "failed")
     \/ ~Opened(c) /\ Ends(c, cl[c], "failed")
  /\ UNCHANGED devVars

\* A fault: after an error the handle is not closed.
PullReadNoClose(c) ==
  /\ Answer(c, "read")
  /\ \/ ReadResult(c) = "data" /\ Ask(c, "read", cl[c].handle, [cl[c] EXCEPT !.buf = @ \o Rep(c).val])
     \/ ReadResult(c) = "end" /\ Ask(c, "close", cl[c].handle, [cl[c] EXCEPT !.pc = "close"])
     \/ ReadResult(c) = "error" /\ Ends(c, cl[c], "failed")
  /\ UNCHANGED devVars

\* The read loop: data is written to the local file until there is no more;
\* after an error the handle is closed all the same.
PullRead(c) ==
  /\ Answer(c, "read")
  /\ \/ ReadResult(c) = "data" /\ Ask(c, "read", cl[c].handle, [cl[c] EXCEPT !.buf = @ \o Rep(c).val])
     \/ ReadResult(c) = "data" /\ Ends(c, [cl[c] EXCEPT !.leaked = @ \cup {cl[c].handle}], "failed")
     \/ ReadResult(c) = "end" /\ Ask(c, "close", cl[c].handle, [cl[c] EXCEPT !.pc = "close"])
     \/ ReadResult(c) = "error" /\ Ask(c, "close", cl[c].handle, [cl[c] EXCEPT !.pc = "giveUp"])
  /\ UNCHANGED devVars

\* The files of a directory, in any order.
Listings(S) == {s \in [1..Cardinality(S) -> S] : \A f \in S : \E i \in DOMAIN s : s[i] = f}

\* mkdir: a directory that is there already will do.  push goes on with the
\* entries of the local directory.
Mkdir(c) ==
  /\ Answer(c, "mkdir")
  /\ \/ Rep(c).op \in {"success", "exists"}
        /\ \/ cl[c].kind = "mkdir" /\ Ends(c, cl[c], "done")
           \/ cl[c].kind = "push" /\ \E s \in Listings(Files) : NextItem(c, [Rest(c) EXCEPT !.todo = s])
           \/ cl[c].kind = "install" /\ NextItem(c, Rest(c))
     \/ Rep(c).op = "error" /\ Ends(c, cl[c], "failed")
  /\ UNCHANGED devVars

\* The next chunk of the local file, or file_close after the last one; a
\* local read error leaves the handle open.
NextChunk(c, new) ==
  \/ Len(new.buf) < NChunks
     /\ Ask(c, "write", new.handle, [new EXCEPT !.pc = "write", !.buf = Append(@, Text(c)[Len(@) + 1])])
  \/ Len(new.buf) = NChunks /\ Ask(c, "close", new.handle, [new EXCEPT !.pc = "close"])
  \/ new.kind = "push" /\ Ends(c, [new EXCEPT !.leaked = @ \cup {new.handle}], "failed")

PushOpen(c) ==
  /\ Answer(c, "openW")
  /\ \/ Opened(c) /\ NextChunk(c, [cl[c] EXCEPT !.handle = Rep(c).val, !.buf = <<>>])
     \/ ~Opened(c) /\ Ends(c, cl[c], "failed")
  /\ UNCHANGED devVars

\* A fault: the status of a write is not looked at.
PushWriteUnchecked(c) == Answer(c, "write") /\ NextChunk(c, cl[c]) /\ UNCHANGED devVars

PushWrite(c) ==
  /\ Answer(c, "write")
  /\ \/ StatusOk(c) /\ NextChunk(c, cl[c])
     \/ ~StatusOk(c) /\ Ask(c, "close", cl[c].handle, [cl[c] EXCEPT !.pc = "giveUp"])
  /\ UNCHANGED devVars

\* file_close: its status counts at the end of a file ...
Close(c) ==
  /\ Answer(c, "close")
  /\ \/ StatusOk(c) /\ NextItem(c, Rest(c))
     \/ ~StatusOk(c) /\ Ends(c, cl[c], "failed")
  /\ UNCHANGED devVars

\* A fault: the answer to the last file_close is left on the stream.
GiveUpEarly(c) ==
  /\ cl[c].pc = "giveUp" /\ Ends(c, cl[c], "failed")
  /\ UNCHANGED <<afcRep, devVars>>

\* ... and is dropped after an error, but read.
GiveUp(c) == Answer(c, "giveUp") /\ Ends(c, cl[c], "failed") /\ UNCHANGED devVars

\* Error::Closed.
SeesClosed(c) ==
  /\ cl[c].pc \notin Over \cup {"lsStat", "staged", "await"} /\ ~afcUp[c] /\ afcRep[c] = <<>>
  /\ Ends(c, cl[c], "failed")
  /\ UNCHANGED <<afcRep, devVars>>

-----------------------------------------------------------------------------
(* The device: answers in order, does what is asked or refuses it.         *)

Reply(c, op, val) ==
  afcRep' = [afcRep EXCEPT ![c] = Append(@, [op |-> op, val |-> val, num |-> Head(afcReq[c]).num,
                base |-> IF op = "handle" /\ Head(afcReq[c]).arg \in Files THEN fs[Head(afcReq[c]).arg] ELSE <<>>])]

Handle(c) == {h \in open[c] : h.id = Head(afcReq[c]).arg}
\* Someone else's work on f is disturbed.
Disturb(c, f) == intact' = [d \in AfcClients |-> IF d = c THEN intact[d] ELSE intact[d] \ {f}]
Names == {f \in Files : fs[f] # Absent}

DevRead(c) ==
  LET q == Head(afcReq[c]) IN
  /\ \/ q.op = "stat" /\ q.arg = Dir /\ dirThere /\ Reply(c, "data", "dir") /\ UNCHANGED <<open, intact>>
     \/ q.op = "stat" /\ q.arg \in Names /\ Reply(c, "data", "file") /\ UNCHANGED <<open, intact>>
     \/ q.op = "list" /\ dirThere /\ (\E s \in Listings(Names) : Reply(c, "data", s)) /\ UNCHANGED <<open, intact>>
     \/ /\ q.op = "openR" /\ q.arg \in Names /\ Reply(c, "handle", q.num)
        /\ open' = [open EXCEPT ![c] = @ \cup {[id |-> q.num, file |-> q.arg, pos |-> 0]}]
        /\ intact' = [intact EXCEPT ![c] = @ \cup {q.arg}]
     \/ /\ q.op = "read" /\ UNCHANGED intact
        /\ \E h \in Handle(c) :
             IF fs[h.file] = Absent \/ h.pos >= Len(fs[h.file])
             THEN (Reply(c, "end", 0) \/ Reply(c, "success", 0)) /\ UNCHANGED open
             ELSE \E n \in 1..(Len(fs[h.file]) - h.pos) :
                    /\ Reply(c, "data", SubSeq(fs[h.file], h.pos + 1, h.pos + n))
                    /\ open' = [open EXCEPT ![c] = (@ \ {h}) \cup {[h EXCEPT !.pos = @ + n]}]
     \/ /\ q.op = "close" /\ Handle(c) # {} /\ Reply(c, "success", 0)
        /\ open' = [open EXCEPT ![c] = @ \ Handle(c)] /\ UNCHANGED intact
  /\ UNCHANGED <<fs, dirThere>>

DevWrite(c) ==
  LET q == Head(afcReq[c]) IN
  \/ /\ q.op = "mkdir" /\ Reply(c, IF dirThere THEN "exists" ELSE "success", 0)
     /\ dirThere' = TRUE /\ UNCHANGED <<fs, open, intact>>
  \/ /\ q.op = "openW" /\ dirThere /\ Reply(c, "handle", q.num)
     /\ fs' = [fs EXCEPT ![q.arg] = <<>>]
     /\ open' = [open EXCEPT ![c] = @ \cup {[id |-> q.num, file |-> q.arg, pos |-> 0]}]
     /\ intact' = [d \in AfcClients |-> IF d = c THEN intact[d] \cup {q.arg} ELSE intact[d] \ {q.arg}]
     /\ UNCHANGED dirThere
  \/ /\ q.op = "write" /\ Reply(c, "success", 0) /\ UNCHANGED <<dirThere, open>>
     /\ \E h \in Handle(c) :
          /\ fs' = [fs EXCEPT ![h.file] = IF @ = Absent THEN @ ELSE Append(@, Text(c)[Len(cl[c].buf)])]
          /\ Disturb(c, h.file)
  \* A file is removed, or has another name from now on; or something else has its name.
  \/ /\ q.op \in {"remove", "rename"} /\ q.arg \in Names /\ Reply(c, "success", 0)
     /\ fs' = [fs EXCEPT ![q.arg] = Absent] /\ Disturb(c, q.arg) /\ UNCHANGED <<dirThere, open>>
  \/ /\ dirThere /\ (q.op = "rename" \/ (q.op = "link" /\ q.arg \notin Names)) /\ Reply(c, "success", 0)
     /\ fs' = [fs EXCEPT ![q.arg] = Text("dev")] /\ Disturb(c, q.arg) /\ UNCHANGED <<dirThere, open>>

DevServes(c) ==
  /\ afcUp[c] /\ afcReq[c] # <<>> /\ (DevRead(c) \/ DevWrite(c))
  /\ afcReq' = [afcReq EXCEPT ![c] = Tail(@)] /\ UNCHANGED <<afcUp, cl>>

DevRefuses(c) ==
  /\ afcUp[c] /\ afcReq[c] # <<>> /\ Reply(c, "error", 0)
  /\ afcReq' = [afcReq EXCEPT ![c] = Tail(@)] /\ UNCHANGED <<fs, dirThere, open, afcUp, cl, intact>>

DevHangsUp(c) ==
  /\ afcUp[c] /\ afcUp' = [afcUp EXCEPT ![c] = FALSE]
  /\ afcReq' = [afcReq EXCEPT ![c] = <<>>] /\ open' = [open EXCEPT ![c] = {}]
  /\ UNCHANGED <<fs, dirThere, afcRep, cl, intact>>

AfcClientStep(c) ==
  \/ Single(c) \/ PullStat(c) \/ PullList(c) \/ LsStat(c) \/ PullOpen(c) \/ PullRead(c)
  \/ Mkdir(c) \/ PushOpen(c) \/ PushWrite(c) \/ Close(c) \/ GiveUp(c) \/ SeesClosed(c)

-----------------------------------------------------------------------------
(* The installation proxy, over a connection of its own: an upload that is *)
(* complete is installed; an app is removed; apps are listed in parts.     *)

ProxyConnect(c) ==
  /\ cl[c].pc = "staged"
  /\ \/ cl' = [cl EXCEPT ![c].pc = "await", ![c].buf = <<>>] /\ task' = [task EXCEPT ![c] = cl[c].kind]
     \/ cl' = [cl EXCEPT ![c].pc = "failed"] /\ UNCHANGED task
  /\ UNCHANGED <<status, app>>

Said(c) == Head(status[c])
Told(c, kinds) ==
  /\ cl[c].pc = "await" /\ cl[c].kind \in kinds /\ status[c] # <<>>
  /\ status' = [status EXCEPT ![c] = Tail(@)] /\ UNCHANGED <<task, app>>

\* A fault: the first message that is not an error is taken for the end.
AwaitCompleteFirst(c) ==
  /\ Told(c, {"install", "uninstall"})
  /\ cl' = [cl EXCEPT ![c].pc = IF Said(c) \in {"Error", "Bare", "closed"} THEN "failed" ELSE "done"]

\* Progress is read until Complete, or an error, or a message with no status.
AwaitComplete(c) ==
  /\ Told(c, {"install", "uninstall"})
  /\ cl' = [cl EXCEPT ![c].pc = CASE Said(c) = "Complete" -> "done"
                                  [] Said(c) \in {"Error", "Bare", "closed"} -> "failed"
                                  [] OTHER -> "await"]

\* Parts of the list are collected until Complete, or an error; a message
\* with neither status nor error ends it too.
ListApps(c) ==
  /\ Told(c, {"browse"})
  /\ cl' = [cl EXCEPT ![c].pc = CASE Said(c) \in {"Complete", "Bare"} -> "done"
                                  [] Said(c) \in {"Error", "closed"} -> "failed"
                                  [] OTHER -> "await",
                      ![c].buf = IF Said(c) = "Part" THEN Append(@, "Part") ELSE @]

\* The device: some messages, then the deed and Complete, or an error.
ProxyWorks(c) ==
  /\ task[c] # "none" /\ Len(status[c]) + Len(cl[c].buf) < NChunks
  /\ status' = [status EXCEPT ![c] = Append(@, IF task[c] = "browse" THEN "Part" ELSE "Progress")]
  /\ UNCHANGED <<task, app, cl>>

ProxyCompletes(c) ==
  /\ task[c] # "none" /\ task' = [task EXCEPT ![c] = "none"]
  /\ app' = [app EXCEPT ![c] = CASE task[c] = "install" -> fs[cl[c].path]
                                 [] task[c] = "browse" -> cl[c].buf \o status[c]
                                 [] OTHER -> <<>>]
  /\ \E s \in {"Complete"} \cup (IF task[c] = "browse" THEN {"Bare"} ELSE {}) :
       status' = [status EXCEPT ![c] = Append(@, s)]
  /\ UNCHANGED cl

ProxyFails(c) ==
  /\ task[c] # "none" /\ task' = [task EXCEPT ![c] = "none"]
  /\ \E s \in {"Error", "closed"} \cup (IF task[c] = "browse" THEN {} ELSE {"Bare"}) : status' = [status EXCEPT ![c] = Append(@, s)]
  /\ UNCHANGED <<app, cl>>

AfcNext ==
  \E c \in AfcClients :
    \/ (AfcStart(c) \/ AfcClientStep(c) \/ DevServes(c) \/ DevRefuses(c) \/ DevHangsUp(c)) /\ UNCHANGED proxyVars
    \/ /\ ProxyConnect(c) \/ AwaitComplete(c) \/ ListApps(c) \/ ProxyWorks(c) \/ ProxyCompletes(c) \/ ProxyFails(c)
       /\ UNCHANGED <<fs, dirThere, open, afcReq, afcRep, afcUp, intact>>

AfcSpec == AfcInit /\ [][AfcNext]_<<afcVars, proxyVars>>

-----------------------------------------------------------------------------
\* One request is out at a time, an answer is that of the last request, and
\* none is left when an operation has ended, well or not: recv_response does
\* not compare packet numbers, so one answer left over would be taken for
\* that of every request that follows.
AfcInStep ==
  \A c \in AfcClients :
    /\ Len(afcReq[c]) + Len(afcRep[c]) <= 1
    /\ \A i \in DOMAIN afcRep[c] : afcRep[c][i].num = cl[c].num
    /\ cl[c].pc \in Over => afcReq[c] = <<>> /\ afcRep[c] = <<>>

\* pull_file has all of the file it opened when it closes it, whatever the
\* sizes of the reads, unless someone wrote to it meanwhile: an error of the
\* device is never taken for the end of the file.
PullWhole ==
  \A c \in AfcClients :
    LET f == Head(cl[c].todo) IN
    (cl[c].pc = "close" /\ cl[c].kind = "pull" /\ f \in intact[c]) => cl[c].buf = cl[c].base

\* A push, or an install, that reports success has left every file as it is here,
\* unless someone else wrote to it since.
PushWhole ==
  \A c \in AfcClients :
    (cl[c].pc = "done" /\ cl[c].kind \in Puts) =>
       \A f \in intact[c] : fs[f] = Text(c)

\* When an operation has ended, after an error of the device as after success,
\* a handle that is still open is one whose file_close the device refused, or
\* one left behind by an error of the local file (afc.rs 487, 503, 579).
HandlesClosed ==
  \A c \in AfcClients :
    cl[c].pc \in Over => {h.id : h \in open[c]} \subseteq cl[c].freed \cup cl[c].leaked

\* An app reported as installed is the one that was uploaded, whole, unless
\* someone else wrote to the same path under /PublicStaging meanwhile; the
\* apps listed are all the device named (cmd/apps/install.rs 24-41,
\* installation_proxy.rs 90-116, 146-170).
AppWhole ==
  \A c \in AfcClients : cl[c].pc = "done" =>
    /\ (cl[c].kind = "install" /\ cl[c].path \in intact[c]) => app[c] = Text(c)
    /\ cl[c].kind = "browse" => app[c] = cl[c].buf

\* A connection is left in order: answers in step with requests, and no handle
\* left open but where the code gives up.
AfcSafe == AfcInStep /\ HandlesClosed

\* What a pull, a push or an install reports as done is the whole file.
FilesWhole == PullWhole /\ PushWhole /\ AppWhole
=============================================================================
