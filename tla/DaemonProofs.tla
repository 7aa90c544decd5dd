---------------------------- MODULE DaemonProofs ----------------------------
(***************************************************************************)
(* Proofs about DaemonLifecycle, for any number of processes that start    *)
(* and stop the daemon, and about TunnelDaemon, for any number of clients  *)
(* and any number of times the device is plugged in.                       *)
(***************************************************************************)
EXTENDS DaemonLifecycle, TunnelDaemon, FiniteSetTheorems, TLAPS

\* A set of at most one element.
AtMostOne(S) == \A x, y \in S : x = y

LEMMA AtMostOneCardinality ==
  ASSUME NEW S, AtMostOne(S)
  PROVE  Cardinality(S) <= 1
  <1>1. CASE S = {}
    BY <1>1, FS_EmptySet
  <1>2. CASE S # {}
    <2>1. PICK x : S = {x}
      BY <1>2 DEF AtMostOne
    <2>2. Cardinality(S) = 1
      BY <2>1, FS_Singleton, Zenon
    <2> QED BY <2>2
  <1> QED BY <1>1, <1>2

-----------------------------------------------------------------------------
(* The life cycle.                                                         *)

LifeShapes ==
  /\ dpc \in [Starters -> {"none", "unlink", "bind", "serving", "dead"}]
  /\ path \subseteq Starters
  /\ spc \in [Starters -> {"ready", "spawn", "wait", "ok", "failed"}]
  /\ xpc \in [Stoppers -> {"ready", "send", "stopped", "failed"}]
  /\ peer \in [Stoppers -> SUBSET Starters]
  /\ killed \subseteq ended /\ ended \subseteq Starters
  /\ endedThen \in [Starters -> SUBSET Starters]

\* Who has a socket file has served, and who has ended is dead.
PathBound == AtMostOne(path) /\ \A d \in path : dpc[d] \in {"serving", "dead"}
EndedDead == \A d \in ended : dpc[d] = "dead"
EndedGrows == \A s \in Starters : endedThen[s] \subseteq ended

\* A starter spawns its daemon once, and waits for it.
SpawnedOnce ==
  \A s \in Starters :
    /\ spc[s] \in {"ready", "spawn"} => dpc[s] = "none"
    /\ spc[s] = "wait" => dpc[s] # "none"

\* As long as no daemon ends while a starter waits, its daemon has the unlink
\* before it, or the path leads to one that serves, or one is about to bind.
WaitCovered ==
  \A s \in Starters :
    spc[s] = "wait" /\ ended = endedThen[s] =>
      \/ dpc[s] = "unlink"
      \/ /\ \A d \in path : dpc[d] = "serving"
         /\ path = {} => \E d \in Starters : dpc[d] = "bind"

LifeInv ==
  /\ LifeShapes /\ PathBound /\ EndedDead /\ EndedGrows /\ SpawnedOnce
  /\ WaitCovered /\ PathLeadsToDaemon /\ StartFailsForCause

LEMMA LifeInvInit == LifeInit => LifeInv
  BY DEF LifeInit, LifeInv, LifeShapes, PathBound, AtMostOne, EndedDead, EndedGrows, SpawnedOnce,
     WaitCovered, PathLeadsToDaemon, StartFailsForCause

\* A starter's steps touch the path in no case, and its daemon only when it is
\* spawned.
LEMMA StarterInv ==
  ASSUME LifeInv, NEW s \in Starters, StarterStep(s)
  PROVE  LifeInv'
  <1> USE DEF LifeInv, LifeShapes, PathBound, AtMostOne, EndedDead, EndedGrows, SpawnedOnce,
              WaitCovered, PathLeadsToDaemon, StartFailsForCause, ghostVars
  <1>1. CASE Probe(s)
    BY <1>1 DEF Probe
  <1>2. CASE Spawn(s)
    BY <1>2 DEF Spawn
  <1>3. CASE Started(s)
    BY <1>3 DEF Started
  <1>4. CASE StartTimeout(s)
    BY <1>4 DEF StartTimeout, Reachable
  <1> QED BY <1>1, <1>2, <1>3, <1>4 DEF StarterStep

LEMMA DaemonInv ==
  ASSUME LifeInv, NEW d \in Starters, DaemonStep(d) \/ Crash(d)
  PROVE  LifeInv'
  <1> USE DEF LifeInv, LifeShapes, PathBound, AtMostOne, EndedDead, EndedGrows, SpawnedOnce,
              WaitCovered, PathLeadsToDaemon, StartFailsForCause, ghostVars
  <1>1. CASE Unlink(d)
    BY <1>1 DEF Unlink
  <1>2. CASE Bind(d)
    BY <1>2 DEF Bind
  <1>3. CASE Shutdown(d)
    BY <1>3 DEF Shutdown
  <1>4. CASE Crash(d)
    BY <1>4 DEF Crash
  <1> QED BY <1>1, <1>2, <1>3, <1>4 DEF DaemonStep

LEMMA StopperInv ==
  ASSUME LifeInv, NEW x \in Stoppers, StopperStep(x)
  PROVE  LifeInv'
  <1> USE DEF LifeInv, LifeShapes, PathBound, AtMostOne, EndedDead, EndedGrows, SpawnedOnce,
              WaitCovered, PathLeadsToDaemon, StartFailsForCause, ghostVars
  <1>1. CASE StopConnect(x)
    BY <1>1 DEF StopConnect
  <1>2. CASE StopSend(x)
    BY <1>2 DEF StopSend
  <1> QED BY <1>1, <1>2 DEF StopperStep

\* However many processes start, stop and kill daemons: at most one daemon is
\* behind the socket file, it serves unless one was killed, and a start fails
\* only if a daemon ended while it waited (tunnel.rs 44-50, 97-117, 245-251).
THEOREM SocketFile == LifeSpec => []SocketFileSafe
  <1>1. LifeInv /\ [LifeNext]_lifeVars => LifeInv'
    <2> SUFFICES ASSUME LifeInv, [LifeNext]_lifeVars PROVE LifeInv'
      OBVIOUS
    <2>1. CASE UNCHANGED lifeVars
      BY <2>1 DEF lifeVars, ghostVars, LifeInv, LifeShapes, PathBound, EndedDead, EndedGrows,
         SpawnedOnce, WaitCovered, PathLeadsToDaemon, StartFailsForCause
    <2> QED BY <2>1, StarterInv, DaemonInv, StopperInv DEF LifeNext
  <1>2. LifeInv => SocketFileSafe
    BY AtMostOneCardinality DEF LifeInv, LifeShapes, PathBound, SocketFileSafe, LifeTypeOK
  <1> QED BY <1>1, <1>2, LifeInvInit, PTL DEF LifeSpec

-----------------------------------------------------------------------------
(* The table.                                                              *)

TunnelShapes ==
  /\ present \in 0..MaxAttach /\ lastId \in 0..MaxAttach
  /\ events \in Seq(1..MaxAttach) /\ watcher \in {"starting", "on", "dead"}
  /\ tunnels \in Seq(1..MaxAttach) /\ uncovered \subseteq 1..MaxAttach
  /\ deaf \subseteq DOMAIN tunnels /\ paired \in BOOLEAN
ClientShapes ==
  /\ pc \in [Clients -> {"ready", "ensure", "list", "connect", "hung", "catalog", "insert",
                         "rsd", "lookup", "clone", "dial", "done"}]
  /\ service \in [Clients -> Services]
  /\ dev \in [Clients -> 0..MaxAttach]
  /\ tun \in [Clients -> 0..Len(tunnels)] /\ port \in [Clients -> 0..Len(tunnels)]
  /\ reply \in [Clients -> {"none", "Ok", "Error", "eof"}]

\* The entry of the table names a tunnel and the device id it was built on.
EntryOfTunnel ==
  /\ AtMostOne(table)
  /\ \A e \in table : /\ e = [tun |-> e.tun, dev |-> e.dev]
                      /\ e.tun \in DOMAIN tunnels /\ tunnels[e.tun] = e.dev
ClientTunnels ==
  \A c \in Clients :
    /\ pc[c] \in {"catalog", "insert", "dial"} => tun[c] \in DOMAIN tunnels
    /\ pc[c] \in {"catalog", "insert"} => tunnels[tun[c]] = dev[c]
    /\ pc[c] = "connect" => dev[c] # 0

\* Device ids are given out in order, and never twice: what was built or
\* announced belongs to ids up to the last, the attached device has the last,
\* and no event says that it left.
IdsInOrder ==
  /\ present # 0 => present = lastId
  /\ \A i \in DOMAIN tunnels : tunnels[i] <= lastId
  /\ \A i \in DOMAIN events : events[i] <= lastId /\ events[i] # present

\* Who dials the attached device got the tunnel from the entry that is there.
DialsEntry ==
  \A c \in Clients :
    pc[c] = "dial" /\ tunnels[tun[c]] = present => \E e \in table : e.tun = tun[c]

\* DetachCovers, also before the watcher listens.
Covered ==
  \A e \in table :
    e.dev # present /\ watcher # "dead" /\ e.dev \notin uncovered => e.dev \in ToSet(events)

TableInv ==
  /\ TunnelShapes /\ ClientShapes /\ EntryOfTunnel /\ ClientTunnels /\ IdsInOrder
  /\ DialsEntry /\ Covered

LEMMA TableInvInit == TableInit => TableInv
  <1> SUFFICES ASSUME TableInit PROVE TableInv
    OBVIOUS
  <1>1. TunnelShapes /\ Len(tunnels) = 0
    BY DaemonAssumption DEF TableInit, TunnelShapes
  <1>2. ClientShapes
    BY <1>1, DaemonAssumption DEF TableInit, ClientShapes
  <1> QED BY <1>1, <1>2 DEF TableInit, TableInv, EntryOfTunnel, AtMostOne, ClientTunnels,
          IdsInOrder, DialsEntry, Covered

LEMMA SeqElements ==
  ASSUME NEW S, NEW s \in Seq(S)
  PROVE  \A i \in DOMAIN s : s[i] \in S
  OBVIOUS

LEMMA TunnelIds ==
  ASSUME TableInv
  PROVE  /\ \A i \in DOMAIN tunnels : tunnels[i] \in 1..MaxAttach /\ tunnels[i] # 0
         /\ \A i \in DOMAIN events : events[i] \in 1..MaxAttach /\ events[i] # 0
         /\ \A e \in table : e.dev \in 1..MaxAttach /\ e.dev # 0
  <1>1. \A n \in 1..MaxAttach : n # 0
    BY DaemonAssumption
  <1>2. /\ \A i \in DOMAIN tunnels : tunnels[i] \in 1..MaxAttach
        /\ \A i \in DOMAIN events : events[i] \in 1..MaxAttach
    BY SeqElements, Zenon DEF TableInv, TunnelShapes
  <1> QED BY <1>1, <1>2, Zenon DEF TableInv, EntryOfTunnel

\* The device comes: its id is new to everybody.
LEMMA AttachInv ==
  ASSUME TableInv, Attach
  PROVE  TableInv'
  <1> USE DEF Attach, clientVars, tunnelVars, TableInv
  <1>1. TunnelShapes' /\ ClientShapes'
    BY DaemonAssumption DEF TunnelShapes, ClientShapes
  <1>2. IdsInOrder' /\ DialsEntry'
    BY DaemonAssumption DEF TunnelShapes, IdsInOrder, DialsEntry, ClientTunnels
  <1>3. Covered'
    BY TunnelIds DEF Covered
  <1> QED BY <1>1, <1>2, <1>3 DEF EntryOfTunnel, ClientTunnels

\* The device goes.
LEMMA DetachInv ==
  ASSUME TableInv, Detach
  PROVE  TableInv'
  <1> USE DEF Detach, clientVars, tunnelVars, TableInv
  <1>0. /\ present \in 1..MaxAttach /\ Append(events, present) \in Seq(1..MaxAttach)
        /\ DOMAIN Append(events, present) = 1..(Len(events) + 1) /\ DOMAIN events = 1..Len(events)
        /\ Append(events, present)[Len(events) + 1] = present
        /\ \A i \in 1..Len(events) : Append(events, present)[i] = events[i]
    BY DaemonAssumption DEF TunnelShapes
  <1>1. /\ events' \in Seq(1..MaxAttach) /\ uncovered' \subseteq 1..MaxAttach /\ present' = 0
        /\ \A i \in DOMAIN events' :
             (i \in DOMAIN events /\ events'[i] = events[i]) \/ events'[i] = present
    <2>1. CASE watcher = "on"
      <3>1. events' = Append(events, present) /\ uncovered' = uncovered /\ present' = 0
        BY <2>1
      <3> HIDE DEF Detach
      <3> QED BY <1>0, <3>1 DEF TunnelShapes
    <2>2. CASE watcher # "on"
      <3>1. events' = events /\ uncovered' = uncovered \cup {present} /\ present' = 0
        BY <2>2
      <3> HIDE DEF Detach
      <3> QED BY <1>0, <3>1 DEF TunnelShapes
    <2> QED BY <2>1, <2>2
  <1>2. TunnelShapes' /\ ClientShapes'
    <2>1. UNCHANGED <<lastId, watcher, tunnels, deaf, paired, pc, service, dev, tun, port, reply>>
          /\ 0 \in 0..MaxAttach
      BY DaemonAssumption
    <2> HIDE DEF Detach
    <2> QED BY <1>1, <2>1 DEF TunnelShapes, ClientShapes
  <1>3. IdsInOrder' /\ DialsEntry'
    <2>1. \A i \in DOMAIN events' : events'[i] <= lastId /\ events'[i] # 0
      <3>1. \A i \in DOMAIN events : events[i] <= lastId /\ events[i] # 0
        BY TunnelIds DEF IdsInOrder
      <3>2. present <= lastId /\ present # 0
        BY DEF IdsInOrder, TunnelShapes
      <3> HIDE DEF Detach
      <3> QED BY <1>1, <3>1, <3>2
    <2>2. UNCHANGED <<lastId, table, tunnels, pc, tun>>
      OBVIOUS
    <2> HIDE DEF Detach
    <2> QED BY <1>1, <2>1, <2>2, TunnelIds DEF IdsInOrder, DialsEntry, ClientTunnels
  <1>4. Covered'
    BY <1>0 DEF Covered, ToSet, TunnelShapes
  <1> QED BY <1>2, <1>3, <1>4 DEF EntryOfTunnel, ClientTunnels

LEMMA WatcherInv ==
  ASSUME TableInv, WatcherListens \/ WatcherDetached \/ WatcherDies
  PROVE  TableInv'
  <1> USE DEF deviceVars, clientVars, tunnelVars, TableInv
  <1>1. CASE WatcherListens
    BY <1>1 DEF WatcherListens, TunnelShapes, ClientShapes, EntryOfTunnel, ClientTunnels,
       IdsInOrder, DialsEntry, Covered
  <1>2. CASE WatcherDetached
    <2>0. /\ events # <<>> /\ events' = Tail(events) /\ Tail(events) \in Seq(1..MaxAttach)
          /\ Len(Tail(events)) = Len(events) - 1 /\ DOMAIN events = 1..Len(events)
          /\ DOMAIN Tail(events) = 1..(Len(events) - 1) /\ Head(events) = events[1]
          /\ \A i \in 1..(Len(events) - 1) : Tail(events)[i] = events[i + 1]
          /\ Len(events) \in Nat \ {0}
      BY <1>2 DEF WatcherDetached, TunnelShapes
    <2>1. table' = {e \in table : e.dev # events[1]} /\ UNCHANGED <<present, lastId, watcher, tunnelVars, clientVars, uncovered>>
      BY <1>2, <2>0 DEF WatcherDetached
    <2>2. TunnelShapes' /\ ClientShapes' /\ EntryOfTunnel' /\ ClientTunnels'
      BY <2>0, <2>1 DEF TunnelShapes, ClientShapes, EntryOfTunnel, ClientTunnels, AtMostOne
    <2>3. IdsInOrder'
      BY <2>0, <2>1 DEF IdsInOrder
    <2>4. DialsEntry'
      <3>1. 1 \in DOMAIN events /\ events[1] # present
        BY <2>0 DEF IdsInOrder
      <3> QED BY <2>1, <3>1 DEF DialsEntry, EntryOfTunnel
    <2>5. Covered'
      <3> SUFFICES ASSUME NEW e \in table', e.dev # present, watcher # "dead", e.dev \notin uncovered
                   PROVE  \E i \in DOMAIN events' : events'[i] = e.dev
        BY <2>1 DEF Covered, ToSet
      <3>1. PICK i \in DOMAIN events : events[i] = e.dev
        BY <2>1 DEF Covered, ToSet
      <3>2. i # 1 /\ i \in 1..Len(events)
        BY <2>0, <2>1, <3>1
      <3>3. i - 1 \in 1..(Len(events) - 1) /\ Tail(events)[i - 1] = events[i]
        BY <2>0, <3>2
      <3> QED BY <2>0, <3>1, <3>3
    <2> QED BY <2>2, <2>3, <2>4, <2>5
  <1>3. CASE WatcherDies
    <2>1. <<>> \in Seq(1..MaxAttach)
      OBVIOUS
    <2> QED BY <1>3, <2>1 DEF WatcherDies, TunnelShapes, ClientShapes, EntryOfTunnel, ClientTunnels,
            IdsInOrder, DialsEntry, Covered
  <1> QED BY <1>1, <1>2, <1>3

\* A client's steps that leave table, tunnels and devices alone.
LEMMA QuietInv ==
  ASSUME TableInv, NEW c \in Clients,
         Accept(c) \/ EnsureCheck(c) \/ ListDevices(c) \/ RecordWaitEnds(c) \/ Dial(c) \/ DeadTunnelFails(c)
  PROVE  TableInv'
  <1>1. /\ UNCHANGED <<present, lastId, events, watcher, table, tunnels, deaf, paired, service, tun, port, uncovered>>
        /\ \E l \in {"ensure", "rsd", "lookup", "list", "connect", "done"} : pc' = [pc EXCEPT ![c] = l]
    BY DEF Accept, EnsureCheck, ListDevices, RecordWaitEnds, Dial, DeadTunnelFails, Goto, Finish,
       AfterEnsure, deviceVars, tunnelVars
  <1>2. /\ dev' \in [Clients -> 0..MaxAttach] /\ reply' \in [Clients -> {"none", "Ok", "Error", "eof"}]
        /\ \A d \in Clients : dev'[d] = dev[d] \/ (d = c /\ pc'[c] = "connect")
        /\ pc'[c] = "connect" => dev'[c] # 0
    BY DEF Accept, EnsureCheck, ListDevices, RecordWaitEnds, Dial, DeadTunnelFails, Goto, Finish, AfterEnsure,
       TableInv, TunnelShapes, ClientShapes
  <1>3. TunnelShapes' /\ EntryOfTunnel' /\ IdsInOrder' /\ Covered'
    BY <1>1 DEF TableInv, TunnelShapes, EntryOfTunnel, IdsInOrder, Covered
  <1>4. ClientShapes'
    <2>1. pc' \in [Clients -> {"ready", "ensure", "list", "connect", "hung", "catalog", "insert",
                               "rsd", "lookup", "clone", "dial", "done"}]
      BY <1>1 DEF TableInv, ClientShapes
    <2>2. dev' \in [Clients -> 0..MaxAttach] /\ reply' \in [Clients -> {"none", "Ok", "Error", "eof"}]
      BY <1>2
    <2> QED BY <1>1, <2>1, <2>2 DEF TableInv, ClientShapes
  <1>5. /\ pc'[c] \notin {"catalog", "insert", "dial"}
        /\ \A d \in Clients \ {c} : pc'[d] = pc[d] /\ dev'[d] = dev[d]
    <2>1. PICK l \in {"ensure", "rsd", "lookup", "list", "connect", "done"} : pc' = [pc EXCEPT ![c] = l]
      BY <1>1
    <2>2. pc'[c] = l /\ \A d \in Clients \ {c} : pc'[d] = pc[d]
      BY <2>1 DEF TableInv, ClientShapes
    <2>3. l \notin {"catalog", "insert", "dial"}
      OBVIOUS
    <2>4. \A d \in Clients \ {c} : dev'[d] = dev[d]
      BY <1>2, Zenon
    <2> QED BY <2>2, <2>3, <2>4, Zenon
  <1>6. ClientTunnels' /\ DialsEntry'
    BY <1>1, <1>2, <1>5 DEF TableInv, ClientTunnels, DialsEntry
  <1> QED BY <1>3, <1>4, <1>6 DEF TableInv

LEMMA BuildInv ==
  ASSUME TableInv, NEW c \in Clients, BuildTunnel(c)
  PROVE  TableInv'
  <1> USE DEF deviceVars, tunnelVars, TableInv
  <1>1. CASE (Finish(c, "Error") \/ (Goto(c, "hung") /\ UNCHANGED reply)) /\ UNCHANGED <<tunnels, tun>>
    BY <1>1 DEF BuildTunnel, Finish, Goto, TunnelShapes, ClientShapes, EntryOfTunnel, ClientTunnels,
       IdsInOrder, DialsEntry, Covered
  <1>2. CASE /\ dev[c] = present /\ tunnels' = Append(tunnels, dev[c])
             /\ tun' = [tun EXCEPT ![c] = Len(tunnels')] /\ Goto(c, "catalog") /\ UNCHANGED reply
    <2>1. dev[c] \in 1..MaxAttach
      BY DEF BuildTunnel, ClientTunnels, ClientShapes
    <2>2. /\ tunnels' \in Seq(1..MaxAttach) /\ Len(tunnels') = Len(tunnels) + 1 /\ Len(tunnels) \in Nat
          /\ DOMAIN tunnels' = 1..(Len(tunnels) + 1) /\ DOMAIN tunnels = 1..Len(tunnels)
          /\ tunnels'[Len(tunnels) + 1] = dev[c]
          /\ \A i \in 1..Len(tunnels) : tunnels'[i] = tunnels[i]
      BY <1>2, <2>1 DEF TunnelShapes
    <2>3. UNCHANGED <<present, lastId, events, watcher, table, deaf, paired, service, dev, port, reply, uncovered>>
      BY <1>2 DEF BuildTunnel
    <2>4. TunnelShapes' /\ EntryOfTunnel' /\ Covered'
      BY <2>2, <2>3 DEF TunnelShapes, EntryOfTunnel, Covered
    <2>5. ClientShapes'
      BY <1>2, <2>2, <2>3 DEF ClientShapes, Goto
    <2>6. /\ pc'[c] = "catalog" /\ tun'[c] = Len(tunnels) + 1
          /\ \A d \in Clients \ {c} : pc'[d] = pc[d] /\ tun'[d] = tun[d]
      BY <1>2, <2>2 DEF ClientShapes, Goto
    <2>7. ClientTunnels'
      BY <2>1, <2>2, <2>3, <2>6 DEF ClientTunnels
    <2>8. DialsEntry'
      BY <2>2, <2>3, <2>6 DEF DialsEntry, ClientTunnels
    <2>9. IdsInOrder'
      BY <1>2, <2>1, <2>2, <2>3 DEF IdsInOrder, TunnelShapes
    <2> QED BY <2>4, <2>5, <2>7, <2>8, <2>9
  <1> QED BY <1>1, <1>2 DEF BuildTunnel

\* The catalogue is read, and a tunnel loses its reader.
LEMMA CatalogInv ==
  ASSUME TableInv, NEW c \in Clients, ReadCatalog(c)
  PROVE  TableInv'
  <1>1. /\ UNCHANGED <<present, lastId, events, watcher, table, tunnels, deaf, paired, service, dev,
                       tun, port, uncovered>>
        /\ reply' \in [Clients -> {"none", "Ok", "Error", "eof"}] /\ pc[c] = "catalog"
        /\ pc' = [pc EXCEPT ![c] = "insert"] \/ pc' = [pc EXCEPT ![c] = "done"]
    BY DEF ReadCatalog, Goto, Finish, deviceVars, tunnelVars, TableInv, ClientShapes
  <1>2. TunnelShapes' /\ EntryOfTunnel' /\ IdsInOrder' /\ Covered'
    BY <1>1 DEF TableInv, TunnelShapes, EntryOfTunnel, IdsInOrder, Covered
  <1>3. ClientShapes'
    BY <1>1 DEF TableInv, ClientShapes
  <1>4. pc'[c] \in {"insert", "done"} /\ \A d \in Clients \ {c} : pc'[d] = pc[d]
    BY <1>1 DEF TableInv, ClientShapes
  <1>5. ClientTunnels' /\ DialsEntry'
    BY <1>1, <1>4 DEF TableInv, ClientTunnels, DialsEntry
  <1> QED BY <1>2, <1>3, <1>5 DEF TableInv

LEMMA IdleInv ==
  ASSUME TableInv, NEW t \in DOMAIN tunnels, TunnelIdle(t)
  PROVE  TableInv'
  BY DEF TunnelIdle, deviceVars, clientVars, TableInv, TunnelShapes, ClientShapes, EntryOfTunnel,
     ClientTunnels, IdsInOrder, DialsEntry, Covered

LEMMA InsertInv ==
  ASSUME TableInv, NEW c \in Clients, Insert(c)
  PROVE  TableInv'
  <1> USE DEF deviceVars, tunnelVars, TableInv
  <1>1. /\ pc[c] = "insert" /\ tun[c] \in DOMAIN tunnels /\ tunnels[tun[c]] = dev[c]
        /\ dev[c] \in 1..MaxAttach
    BY TunnelIds DEF Insert, ClientTunnels
  <1>2. UNCHANGED <<present, lastId, events, watcher, tunnels, deaf, paired, service, dev, tun, port, reply>>
    BY DEF Insert
  <1>3. \E l \in {"rsd", "lookup"} : pc' = [pc EXCEPT ![c] = l]
    BY DEF Insert, Goto, AfterEnsure
  <1>4. TunnelShapes' /\ ClientShapes'
    BY <1>1, <1>2, <1>3 DEF Insert, TunnelShapes, ClientShapes
  <1>5. EntryOfTunnel' /\ ClientTunnels' /\ IdsInOrder'
    BY <1>1, <1>2, <1>3 DEF Insert, EntryOfTunnel, AtMostOne, ClientTunnels, IdsInOrder, ClientShapes
  <1>6. DialsEntry'
    BY <1>2, <1>3 DEF Insert, DialsEntry, ClientShapes
  <1>7. Covered'
    BY <1>1, <1>2 DEF Insert, Covered, WillBeRemoved
  <1> QED BY <1>4, <1>5, <1>6, <1>7

LEMMA LookupInv ==
  ASSUME TableInv, NEW c \in Clients, LookupRsd(c) \/ LookupPort(c) \/ CloneTunnel(c)
  PROVE  TableInv'
  <1> USE DEF deviceVars, tunnelVars, TableInv
  <1>1. UNCHANGED <<present, lastId, events, watcher, table, tunnels, deaf, paired, service, dev, uncovered>>
    BY DEF LookupRsd, LookupPort, CloneTunnel
  <1>2. \/ \E e \in table : pc' = [pc EXCEPT ![c] = "dial"] /\ tun' = [tun EXCEPT ![c] = e.tun]
        \/ \E l \in {"done", "clone"} : pc' = [pc EXCEPT ![c] = l] /\ tun' = tun
    BY DEF LookupRsd, LookupPort, CloneTunnel, Goto, Finish
  <1>3. port' = port \/ \E e \in table : port' = [port EXCEPT ![c] = e.tun]
    BY DEF LookupRsd, LookupPort, CloneTunnel
  <1>4. reply' \in [Clients -> {"none", "Ok", "Error", "eof"}]
    BY DEF LookupRsd, LookupPort, CloneTunnel, Finish, ClientShapes
  <1>5. \A e \in table : e.tun \in DOMAIN tunnels /\ e.tun \in 0..Len(tunnels)
    BY DEF EntryOfTunnel, TunnelShapes
  <1>6. TunnelShapes' /\ EntryOfTunnel' /\ IdsInOrder' /\ Covered'
    BY <1>1 DEF TunnelShapes, EntryOfTunnel, IdsInOrder, Covered
  <1>7. ClientShapes'
    BY <1>1, <1>2, <1>3, <1>4, <1>5, ZenonT(30) DEF ClientShapes
  <1>8. /\ \A d \in Clients \ {c} : pc'[d] = pc[d] /\ tun'[d] = tun[d]
        /\ pc'[c] \notin {"catalog", "insert", "connect"}
        /\ pc'[c] = "dial" => \E e \in table : tun'[c] = e.tun
    BY <1>2 DEF ClientShapes
  <1>9. ClientTunnels' /\ DialsEntry'
    BY <1>1, <1>5, <1>8 DEF ClientTunnels, DialsEntry
  <1> QED BY <1>6, <1>7, <1>9

LEMMA TableInvariant == TableSpec => []TableInv
  <1>1. TableInv /\ [TableNext]_tableVars => TableInv'
    <2> SUFFICES ASSUME TableInv, [TableNext]_tableVars PROVE TableInv'
      OBVIOUS
    <2>1. CASE UNCHANGED tableVars
      BY <2>1 DEF tableVars, deviceVars, clientVars, tunnelVars, TableInv, TunnelShapes, ClientShapes,
         EntryOfTunnel, ClientTunnels, IdsInOrder, DialsEntry, Covered
    <2> QED BY <2>1, AttachInv, DetachInv, WatcherInv, QuietInv, BuildInv, CatalogInv, IdleInv, InsertInv, LookupInv
            DEF TableNext, Serve
  <1> QED BY <1>1, TableInvInit, PTL DEF TableSpec

\* However many clients race to build the tunnel of a device, and however often
\* it is plugged in and out: the table has one entry for it, and those who dial
\* the attached device dial through the same tunnel (tunnel.rs 376-382).
THEOREM OneTunnel == TableSpec => []TableSafe
  <1>1. TableInv => TableSafe
    <2> SUFFICES ASSUME TableInv PROVE TableSafe
      OBVIOUS
    <2>1. Cardinality(table) <= 1
      BY AtMostOneCardinality DEF TableInv, EntryOfTunnel
    <2>2. table \subseteq [tun: DOMAIN tunnels, dev: 1..MaxAttach]
      <3> SUFFICES ASSUME NEW e \in table PROVE e \in [tun: DOMAIN tunnels, dev: 1..MaxAttach]
        OBVIOUS
      <3>2. e = [tun |-> e.tun, dev |-> e.dev] /\ e.tun \in DOMAIN tunnels /\ e.dev \in 1..MaxAttach
        BY TunnelIds DEF TableInv, EntryOfTunnel
      <3> QED BY <3>2
    <2>3. TableTypeOK
      BY <2>1, <2>2 DEF TableInv, TunnelShapes, ClientShapes, TableTypeOK
    <2>4. WinnersTunnelUsed
      BY DEF TableInv, EntryOfTunnel, AtMostOne, DialsEntry, WinnersTunnelUsed, TunnelUp
    <2> QED BY <2>3, <2>4 DEF TableSafe
  <1> QED BY <1>1, TableInvariant, PTL

\* A stale entry has its detach event on the way to the watcher, unless the
\* device left before the watcher or the entry was there (tunnel.rs 211-222).
THEOREM StaleEntriesGo == TableSpec => []DetachCovers
  <1>1. TableInv => DetachCovers
    BY DEF TableInv, Covered, DetachCovers
  <1> QED BY <1>1, TableInvariant, PTL
=============================================================================
