# A verification project for ios-rs

ios-rs talks to iOS devices: through usbmuxd and lockdown on older systems, and
through a tunnel with a userspace TCP stack, RemoteXPC and DTX on iOS 17 and
later. This directory holds TLA+ models of its protocols, threads and processes,
the TLC configurations that check them on small instances, and TLAPS proofs of
the most important properties for every size. Source paths below are relative to
the crate (`src/...`); line numbers without a file belong to the file named in
the section.

## 1. The system

| part | source | state | operations | interacts with |
|---|---|---|---|---|
| DTX connection | `dtx/mod.rs` | next message id, waiter map, dispatcher map with bounded queues, reader thread | `call`, `call_full`, `call_async`, `register_channel`, `ack`, `reply`, `reader_loop` | a byte stream to the device; client threads; handler threads |
| Userspace TCP stack | `tunnel/smoltcp_stack.rs` | request queue, pending and active connections, smoltcp sockets, saved bytes per connection | `connect`, `poll_loop`, `unified_loop`, `promote_and_bridge` | a packet stream (CDTunnel), UnixStream pairs of the users |
| CDTunnel framing | `tunnel/cdtunnel.rs` | none besides the stream | handshake, `recv_ipv6`, `send_ipv6` | the two loops of the stack |
| Tunnel daemon | `bin/ios/cmd/tunnel.rs` | table UDID -> tunnel and RSD catalogue | `handle_client`, `ensure_tunnel`, `watch_devices`, `list`, `proxy` | usbmuxd, the TCP stack, client processes over a Unix socket |
| Daemon life cycle | `bin/ios/cmd/tunnel.rs`, `tunnel/device_session.rs` | the socket file, the processes | `daemon`, `start`, `stop`, probe / spawn / wait of a session | other `ios` processes |
| Device session | `tunnel/device_session.rs`, `tunnel/mode.rs`, `tunnel/version.rs` | the chosen path | `open`, `connect_service`, `connect_rsd`, fall-backs | daemon, tunnel, lockdown |
| Tunnel set-up | `tunnel/ios17.rs` | | lockdown service, TLS, handshake, time-outs | lockdown, stack |
| Remote pairing | `tunnel/remote_pairing/` | keys, sequence numbers | verify and setup dialogue, TLV8 | RemoteXPC |
| RemoteXPC, RSD, XPC | `remotexpc/`, `rsd/`, `xpc/` | HTTP/2 stream buffers, message ids | handshake, send, receive, request; object codec | the stack |
| usbmux client and simulator | `usbmux/` | receive buffer, tag counter, pending connects, events | `process_rx`, requests, `open_tunnel`, listener | usbmuxd |
| Lockdown session and pairing | `lockdown/session.rs`, `lockdown/pairing.rs` | plain, upgrading or TLS stream, session id | connect, start and stop session, start service, pair | usbmux |
| Lockdown services | `lockdown/services/`, `bin/ios/cmd/` | packet counters, file handles, staged files | AFC, installation proxy, MCInstall, activation, diagnostics, syslog, ... | lockdown session |
| Image mounter | `bin/ios/cmd/mounter.rs` | the cache directory, the mounted image | fetch, ticket, upload, mount | lockdown, other processes, the network |
| XCTest runner | `xctest/` | channel codes shared by threads | `run` and its handlers | DTX |
| Command line | `bin/ios/main.rs`, `bin/ios/cmd/` | | argument parsing, printing | everything above |

What is hard in this code is where threads, processes and peers meet: the reader
thread of DTX with client and handler threads (two lock maps, bounded queues, one
thread that may block with a lock held); the poll thread of the TCP stack with
its clients, its reader thread, non-blocking pipes and the network; the daemon's
client threads with the watcher and a device that comes and goes; several
processes that share a socket file, a pair record, an image cache or the record
of a remote pairing, and may be killed anywhere; request loops that take any
answer for their own over streams that are cut anywhere; dialogues of many steps
each of which may fail and leave the stream, a handle or the other side behind;
time-outs that fire in the middle of a message. `PROJECT.json` lists each such
place under `hazards`.

What makes each part correct, in a sentence: a DTX call gets its own reply or an
error, in bounded time, and the device's calls reach their handler in order, or are
acknowledged where there is none; a bridged or proxied connection is a byte pipe in
both directions; `connect` returns; packets are handed on whole; clients of the
daemon use one live tunnel per device, and their requests end; the socket file leads
to a daemon that serves; a usbmux call returns its own answer, and a listener or
pipe loses nothing; the pair record kept is one the device trusts, and nothing but a
farewell goes in plain to a device that wants TLS; files are pulled and pushed
whole, commands stop at a refusal they can see, the image cache recovers and a mount
that is reported was one; a RemoteXPC message is whole and a reply one's own; a
remote pairing record is one the device has accepted and both ends have the same
keys; a session takes the way its mode says and hands on a stream of which only the
answers to its check-in were read; a test run sends its start command once and
answers the messages of the IDE channel once each; every codec undoes its inverse.

## 2. Modules

| module | models | source |
|---|---|---|
| `Dtx` | the DTX connection | `dtx/mod.rs` 60-102, 154-180, 362-488, 552-747; handlers as in `xctest/mod.rs` 329-456 and `cmd/perf.rs` |
| `XcTest` | a test run: main thread, two handler threads, the runner | `xctest/mod.rs` |
| `Bridge` | the second half of `promote_and_bridge`, one connection | `tunnel/smoltcp_stack.rs` 284-341 |
| `Proxy` | the two copy loops of the daemon behind an accepted request | `bin/ios/cmd/tunnel.rs` 421-437 |
| `BytePipe` | abstract specification of one direction of a byte stream | promise of `connect`, `smoltcp_stack.rs` 93-94, and of `proxy`, `cmd/tunnel.rs` 421 |
| `SmoltcpStack` | `connect`, both loops, the reader thread, first half of `promote_and_bridge` | `tunnel/smoltcp_stack.rs` 35-282 |
| `TunnelFraming` | the handshake, `recv_ipv6` and `read_exact` in both loops | `tunnel/cdtunnel.rs` 99-172, `smoltcp_stack.rs` 212-220 |
| `TunnelDaemon` | requests, table and watcher | `bin/ios/cmd/tunnel.rs` 31-76, 196-386 |
| `DaemonLifecycle` | start, stop, Shutdown, probe, spawn, wait | `bin/ios/cmd/tunnel.rs` 29-131, 233-253; `tunnel/device_session.rs` 325-373 |
| `DeviceSession` | which way a session goes, and how a command gets a stream | `tunnel/device_session.rs`, `tunnel/mode.rs`, `tunnel/ios17.rs` 57-213, `cmd/tunnel.rs` 388-419 |
| `RemotePairing` | pair-verify, SRP set-up, the record file, the tunnel request | `tunnel/remote_pairing/` |
| `RemoteXpc` | HTTP/2 frames, two streams, `receive`, `request`, RSD | `remotexpc/`, `rsd/mod.rs` |
| `Usbmux` | codec, connection, listener, pipe; the simulator | `usbmux/` |
| `Lockdown` | sessions with the TLS upgrade; pair, pair_supervised, unpair | `lockdown/session.rs`, `lockdown/pairing.rs` 37-293, `lockdown/pair_record.rs` |
| `Afc` | the AFC client with pull and push; the installation proxy | `lockdown/services/afc.rs`, `installation_proxy.rs`, `bin/ios/cmd/afc.rs`, `cmd/apps/` |
| `PlistServices` | services that answer one plist with one, and the commands made of them | `lockdown/services/`, `cmd/setup.rs`, `cmd/activate.rs` |
| `Mounter` | the developer image: cache, ticket, upload, mount | `bin/ios/cmd/mounter.rs` |
| `XpcCodec`, `Der` | the XPC, TLV8, DER, calendar and base64 algorithms | `xpc/codec.rs`, `tunnel/remote_pairing/tlv8.rs`, `lockdown/pairing.rs` 462-908, `cmd/pair.rs` |
| `MCDtx`, `MCStack`, `MCDaemon`, `MCHost`, `MCServices`, `MCRemote`, `MCCodecs`; `MCBridge`, `MCSmoltcpStack`, `MCTunnelFraming`, `MCTunnelDaemon` | instances for TLC | |

The theorems stand in modules of their own, which extend the modules they are
about (section 4):

| module | theorems about |
|---|---|
| `DtxProofs` | `Dtx` |
| `TunnelProofs` | `Bridge`, `Proxy`, `TunnelFraming` |
| `StackProofs` | `SmoltcpStack` |
| `DaemonProofs` | `DaemonLifecycle`, `TunnelDaemon` |
| `HostProofs` | `Usbmux`, `Lockdown` |
| `RemoteProofs` | `DeviceSession`, `RemotePairing`, `RemoteXpc`, `XcTest` |
| `ServiceProofs` | `Mounter`, `PlistServices` |
| `AfcProofs` | `Afc` |

`MCStack`, `MCDaemon`, `MCHost`, `MCServices` and `MCRemote` put components side
by side that have a common theme and share no state: a variable `atWork`, chosen
in the first state, says which of them moves. The others stay in their initial
state, so a run explores the sum of their state spaces and not the product. Each
specification restates the fairness of its components, limited to the one at
work.

Definitions whose comment begins with "A fault:" are not part of any
specification. Each is a plausible slip in the definition that follows it, and
is used to see that a property notices it (`mutants` in `PROJECT.json`).

### Dtx

`pc`, `id`, `slot` are the local state of a thread inside `call`; `slot` is the
`sync_channel(1)` of the call. `waiters` and the per-channel `rx`, `queue` are the
two maps behind mutexes. `cur`, `calls`, `tag`, `invoked`, `handled` and `answers`
are ghosts that name calls and messages so that properties can speak of them.
`reader` is the program counter of `reader_loop`. Lock sections are atomic steps
with one exception: when the queue of a channel is full, the reader blocks in `send`
with the dispatchers lock held (`reader = "sending"`), and `register_channel` waits
for it (`DispatchersFree`). A handler that has a request of the device answers it
(the IDE channel of a test run does) or lets it be (the thread of channel 0 of a
test run and the instruments of `perf` do): `HandlerDone`. The look-up whether a
channel has a handler (736) and the dispatch (745) are two steps, as in the code. A
time-out may fire at any moment while no reply is there. The device (external)
answers in any order, late, twice or never, gives its own messages any id, also one
the host is using, sends ACKs and garbage, and may close the stream. `FirstId` and
`IdMod` are 5 and 2^32 in the code.

`DispatchInOrder` is stated through `Seen(ch)`: the messages the handler has had,
the ones in the queue and the one the reader is about to put there, in this
order, are the first ones the device sent on the channel.

### Bridge and BytePipe

One iteration of the poll thread is `PassBegins`, `Flush`, `Receive`*,
`Transmit`*, `Reap`; between two passes the network acts on the smoltcp socket
(external), and the user reads, writes, shuts down or drops its end at any time.
Bytes are their positions in the stream. `Written` says how much of a
`write_all` on the non-blocking socket gets out before it fails. The refinement
mapping of the inbound direction takes pair, saved bytes and socket buffer, in
this order, for the bytes under way; that of the outbound direction takes the
socket buffer and the pair. `torn` is history: the directions in which a chunk was
written to the pair or sent to the socket only in part. A chunk written in part is
saved and offered again as a whole, so that bytes are repeated; of a chunk sent in
part the rest is lost. From then on the direction is no pipe, and the
properties speak of the time before. In the run `stack`, with chunks of one byte,
nothing can be torn; `bridge_short_send` has the other case.

### SmoltcpStack

`unified` chooses the loop, once, at the start. `phase` is the program counter
of the loop. A smoltcp socket (external) moves through its states on SYN-ACK,
RST and FIN; the stream below the tunnel is reliable, so SYNs are not repeated.
`PollIngress` and `PollEgress` are the two halves of smoltcp's `poll`, which the
code calls as one.
When the loop returns, its queue, the pending senders and the active pipes are
dropped, which is what wakes the clients (`LoopExits`). Ports and addresses are
left out.

### Proxy

The two `io::copy` loops share two sockets through clones, and nobody calls
`shutdown`; a socket is therefore open until both loops are over (`SocketsHeld`).
Both directions are shown to implement `BytePipe` until their reader is gone.

### TunnelFraming

The stream is cut into units: a header unit and payload units per packet, and
`upNext` is the next one the device sends. Packet 0 is the answer to the handshake,
whose header stands for magic and length. A payload unit taken for a header
announces any length, which is how losing step shows. The device may send an answer
with a wrong magic or without proper addresses, and may close the stream anywhere.

### TunnelDaemon

Every lock section and every call to the outside is a step of its own in a client's
thread: `contains_key`, listing, building the tunnel, reading the catalogue,
`or_insert`, the look-ups, the dial. One device is plugged in and out; every time it
gets a new device id and its old tunnels are dead. Two waits of the layers below are
modelled where they bite: usbmuxd may have no pair record of the device (`paired`),
and then building a tunnel waits in `read_pair_record` (`"hung"`) until usbmuxd
closes, if it does; and a plain tunnel that was idle for ten seconds reads nothing
any more (`deaf`, `TunnelIdle`), so that nothing that goes through it succeeds.
`uncovered` is a ghost: the device ids whose detach event the watcher cannot act on,
because nobody listened or because the entry came later.

### DaemonLifecycle

A daemon goes by the name of the starter that spawned it. `path` is what the
socket file leads to. A daemon removes whatever is at the path and then binds it,
in two steps; a stopped daemon removes whatever is at the path. Any daemon may be
killed at any step and then leaves its file behind.

### Usbmux

The stream to the client is a sequence of units, two per frame, and a read
returns any non-empty prefix of what has arrived. `codec` holds the receive
buffer, the decoded events, the tag counter and the pending connects. A read
appends to the buffer and starts `process_rx`, which decodes one frame per step
(`decoding`) and is left when no complete frame is at the front; the client takes
no event before. Two peers: the simulator, whose handlers are actions of their own
and which sends the Attached frames of a Listen one by one, and a real usbmuxd
(external), which may refuse, send unknown messages and close. `log`, `refused`,
`emitted` and `got` are history, and so is the number `n` in a frame: how many
device events had been sent when it was, its own included.

### Lockdown

One device with its list of trusted hosts and one pair record in usbmuxd; any
number of processes that pair, pair supervised, unpair, or open a session, use it
and drop it. `stream` is the `StreamState` of the code, with `Upgrading` as the
state in which the stream has been taken out; `dev` is what the device speaks.
Every exchange may fail, and the TLS upgrade at each of its steps.

### Afc, PlistServices, Mounter

`Afc`: requests and answers travel over one stream per client; `todo` in a
client's record is the recursion of pull and push, and a directory is listed in
any order (`Listings`). A file that is renamed is gone from the directory, and a link
made there is a file somebody else wrote. The installation proxy works
on the file that AFC staged.

`PlistServices`: a command is a list of requests, each with the shapes of answer its
code accepts: what was asked for, a dictionary with neither Status nor Error, one with
an Error, one with a bad Status, no dictionary. The device refuses in any shape but
the first, or hangs up, whatever the client makes of it. `Missed` lists the refusals
that the code takes for consent, request by request, and is written down apart from
what the requests accept: an Error without a Status passes for an acknowledgement of
MCInstall (`mcinstall.rs` 214-216), and the answer to `deactivate` is not looked at.
`StopsAtRefusal` is about the others. The screenshot service speaks first.

`Mounter`: a file is the build it belongs to and whether it is whole; `CreateFile` and
`FillFile` are the two halves of `std::fs::write`, and a process may be killed between
any two steps. In the conversation with the device a request, the device's answer and
the reading of it are three steps (`asks`, `says`), so that other processes, a reboot or
the end of the connection fall in between; a MountImage whose process was killed may
still be carried out (`orphan`). `told` is history: the device has said to this run that
the image is there, and has rebooted since.

### XpcCodec, Der

Operators on sequences of bytes, recursive where the code is. `MCCodecs` makes
jobs of an algorithm and an input, and counts through prefixes, lengths or days. The
decoder has the errors of the code: a magic number that is wrong, a key without an
end, a buffer that is too short, and the panic on a key that would start behind the
end of the buffer (`codec.rs` 191). A message whose body is shorter than its magic and
version has none. A value of a type without a name counts for 8 bytes, which is what
the code assumes; `XpcSkipsUnknown` is about values of that size.

### RemoteXpc, RemotePairing, DeviceSession, XcTest

`RemoteXpc`: a message is one or two DATA frames, `rxBuf` the single buffer both
streams share; the device may interleave SETTINGS, acknowledgements, PING, events
and replies, and says up to `MaxRsd` things to RSD, the Handshake among them or not.
`mixed` is a ghost: frames of messages on both streams were mixed. `RemotePairing`:
an identity is a value, a session key the dialogue it comes from; the file is
written in two steps; processes are killed and run again. `DeviceSession`: `dsInner`
is the way found, `said` what a shim service has sent and `stream` what of it is
unread; StartService is among its answers at any place or not at all, and the loops
give up after the fourth without a word. The daemon comes and goes, and so does the
pair record; without it `open` waits in `read_pair_record` (`dsHung`). `XcTest`: the
handlers take messages from queues in the order of `Dtx`; `invoke` is the channel
code one thread stores and the other uses. Other messages come on channel 0 too,
requests for other interfaces among them (`RootAside`); that thread answers nothing.

## 3. Runs

| run | checks | bounds |
|---|---|---|
| `dtx_safety` | `TypeOK`, `ReplyMatchesCall`, `WaiterRegistered`, `ReplyNeverBlocks`, `DispatchInOrder`, `RequestSeenTo` | 2 threads, 1 channel with room for one message, 3 messages of the host of which the third uses an id again, 2 of the device |
| `dtx_returns` | `CallReturns`, `RegisterReturns` | 1 thread, 2 channels, 1 call, 2 messages of the device |
| `stack` | connecting: `ConnectSafe`, `ConnectReturns`; bridge: `BridgeSafe`, `BridgePipes`, `BridgeGoesOn`; framing: `FramingSafe`; proxy: `EndAfterAll`, `ProxyPipes`, `ProxyReleases` | 2 clients, request queue of 1, both loops; 4 bytes in and 3 out through buffers of 2; a handshake and 8 packets with payloads of 0 to 3 units; 3 bytes each way through sockets of 2 |
| `daemon` | table: `TableSafe`, `DetachCovers`, `RequestEnds`; life: `SocketFileSafe`, `StaysReachable` | 2 clients, the device plugged in twice, with and without a pair record, tunnels that go deaf, the watcher may die; 3 starters, 2 stoppers, any daemon may be killed |
| `host` | usbmux: `CallsSafe`, `NothingLostInside`, `CallReturns`; lockdown: `RecordTrusted`, `SessionSafe`, `DropReturns` | 3 calls, 2 events or service bytes, tags up to 2, 2 devices; a pairing, a supervised pairing, an unpairing and a session with 2 requests |
| `services` | AFC: `AfcSafe`, `FilesWhole`; commands: `StopsAtRefusal`; images: `CacheRecovers`, `MountedMeansMounted`; `CodecsExact` | 2 clients, a directory with a file of 2 chunks, an operation each; 1 host with any command (hosts share nothing); 2 mounts; values nested once, TLV8 entries of 3 bytes, lengths 0-300 and 65400-65535, days to 2100-04-29 |
| `remote` | test run: `RunSafe`; RemoteXPC: `MessagesSafe`, `RsdKnows`; pairing: `PairingSafe`; session: `WaysSafe`, `OpenEnds` | 2 test classes, room for 2 messages on channel 0; 2 requests, 1 event, 2 messages before or after which RSD finds its Handshake; 2 processes run twice each; every mode, up to 5 answers of a shim |
| `dtx_register_blocked` | `RegisterReturns`, violated | 1 thread that may do other work between registering a channel and serving it |
| `bridge_short_send` | `OutboundInOrder`, violated | chunks of 2, send buffer of 1 |
| `stack_idle` | `ConnectReturns`, violated | a plain stream with a read time-out |
| `framing_timeout` | `PacketsIntact`, violated | 4 packets, a caller that goes on after a time-out |
| `daemon_stale_port` | `PortOfSameTunnel`, violated | 2 clients, the device plugged in twice |

Most of these are conjunctions of named parts, each stated and explained in its
module (for instance `SessionSafe` is `ReplyToRequest`, `NeverUpgrading` and
`PlainOnlyToStop`), and there is a mutant for every part but plain typing.

The bounds are small and chosen so that each interesting case happens: a queue is
full with one message in it and a second in the reader's hands; an id is used again
while its first call still waits; a late, a duplicate and a crossing reply need two
device messages; saved bytes need a pair, a socket buffer and one byte more (four in
all); two clients suffice for every race on the table, since at most one of them
wins; the third starter is the one that removes the socket of a daemon another
starter was just told about; three calls make the usbmux tag wrap; a file of two
chunks can fail between them; a process that pairs needs a second run to meet its
own leftovers, and a second process to race with; a second test class is what a
first suite's end can cut off; five answers of a shim are one more than the loops
read; with two messages an event can come before the Handshake; TLV8 entries of 3
bytes (255 in the code) let a value take up to four. The runs stop when all bounds
are used up, so deadlock is not checked; that nothing gets stuck is the business of
the liveness properties.

`dtx_safety` uses symmetry of the threads and `services` symmetry of the mounting
processes, which no property and no ordering distinguishes; neither run has a temporal
property. The other runs use none.

### Fairness

* `Dtx`: threads that can run do (weak fairness for each step of a thread). The
  device owes nothing, and handlers may quit but need not. A write ends, with
  success or an error: `CallReturns` does not cover a device that stops reading
  until the stream is full, against which the code has no time-out.
* `Bridge`: the poll thread runs, a user that reads keeps reading, the network
  carries what the socket sends and the remote end closes in the end. Network
  steps are disabled during a pass, hence strong fairness for them; smoltcp
  retransmits until they happen.
* `SmoltcpStack`: the threads run; a device whose stream is up answers a SYN. A
  blocked `send` into the request queue gets its turn (strong fairness: std's
  bounded channel queues its senders). The read time-out is not obliged to fire.
* `TunnelDaemon`: client threads and the watcher run, and a device that is there
  answers. Nothing that goes over a tunnel whose device is gone, or that is deaf, is
  obliged to end, since a plain tunnel's loop does not notice (`SmoltcpStack`), nor is
  the wait for a pair record usbmuxd has not; `RequestEnds` names both.
* `DaemonLifecycle`: starters and daemons run; nobody has to stop or kill one.
* `Proxy`: both loops run, and an end that is there reads what comes.
* `Usbmux`: the client reads, the simulator and usbmuxd answer what they have
  read (a usbmuxd may answer with a refusal or close). It need not send events.
* `Lockdown`: a session process runs; lockdownd answers or closes.
* `RemoteXpc`: the client reads, the device finishes a message it has begun.
* `DeviceSession`: `open` goes on, and the device answers or closes; the wait for the
  daemon ends after 15 seconds whatever the daemon does. The wait for a pair record that
  usbmuxd has refused is not obliged to end (`OpenEnds` says so).

### Findings

The five violated runs are disagreements between the code and what it says of
itself; `findings` in `PROJECT.json` quotes the lines.

1. `dtx_register_blocked`: `register_channel` may never return. The reader sends
   into a bounded queue while it holds the dispatchers lock; a thread that
   registers a second channel before it serves the first is then stuck with it.
   `xctest/mod.rs` registers first and spawns later.
2. `bridge_short_send`: the result of `send_slice` is ignored; what does not fit
   into the send buffer is lost, so the pipe is none.
3. `stack_idle`: the handshake's time-out of ten seconds stays on a plain
   stream, ends the reader thread of an idle tunnel, and later connects hang.
4. `framing_timeout`: a read time-out in the middle of a packet drops what was
   read, and the loop goes on out of step.
5. `daemon_stale_port`: port and tunnel of a service come from two lock sections
   and may belong to different tunnels.

Weaknesses seen while modelling, which the properties above are worded around or
which no statement in the repository speaks against:

* `dtx/mod.rs` 736-745: a request of the device may be acknowledged by the reader
  and answered again by a handler registered in between; on a channel with a handler
  the answer is the handler's business, and that of channel 0 (`xctest/mod.rs` 344-366)
  gives none.
* `smoltcp_stack.rs` 293, 336: bytes saved in `write_buf` are dropped when the
  connection is removed in the same pass, and keep a connection alive for ever
  when its user is gone; 311: a kernel that takes part of a write makes the saved
  chunk arrive in part twice; 178: a plain tunnel's loop never notices that the
  stream is gone.
* `cmd/tunnel.rs` 378: a tunnel inserted after its device's detach event stays in
  the table; 275, 295, 311: "tunnel vanished" ends a request without a response;
  46: two starters may end up with two daemons, one of them out of reach; 119-131:
  `stop` does not wait; 433-437: `proxy` passes on no end of stream.
* `usbmux/connection.rs` 54: `read_buid` and `read_pair_record` wait for ever after
  a refusal; with them `open_paired` and `unpair` of a device without a record;
  the daemon's thread that builds a tunnel and `open` of a session wait with them;
  98: `open_tunnel` gives away the socket with what the codec has read of the
  service's first bytes.
* `lockdown/pairing.rs` 290: `unpair` deletes the record a concurrent `pair` has
  just saved; 122: a process killed before the save leaves the device trusting a
  host nobody knows; 546-564: the comment says that the subject key identifier is
  the hash of the key's bits, but `extract_spki_bits` looks behind the outer
  sequence and not into it, finds nothing, and the whole structure is hashed.
* `lockdown/services/afc.rs` 487: a local error leaves the remote handle open;
  `cmd/apps/install.rs` 24: two installs of files of one name share the staging
  path.
* `cmd/mounter.rs` 274: the last cached file is written in place, and its existence
  is all that is asked for; 69-171: an image another process mounts meanwhile makes
  this mount fail, though the image is there.
* `lockdown/services/mcinstall.rs` 214: an Error without a Status is taken for consent;
  `activation.rs` 94: `deactivate` reports success whatever the device says.
* `xpc/codec.rs` 191: a dictionary that ends inside the padding of a value makes the
  decoder panic; 214: a value of an unknown type whose size is not 8 bytes is read on at
  the wrong place.
* `lockdown/pairing.rs` 520: the year of a certificate has two digits; one made from
  2040 on is valid until after 2049, which is read as 1950.
* `remotexpc/conn.rs` 110, 80: `request` takes any reply, and `receive` does not
  look at the stream; `h2.rs` 187: the window is opened once.
* `remote_pairing/credentials.rs` 52: the record is written in place;
  `session.rs` 272: a last answer without an identity is accepted.
* `tunnel/device_session.rs` 326: once the daemon's socket answers there is no way
  back to the direct tunnel, though `mode.rs` 5 speaks of one; 226: the fourth
  answer of a shim ends the check-in with success, StartService or not; 385: a
  lockdown failure after the direct tunnel was built leaves its poll thread;
  `cmd/runtest.rs` 64 and others need a tunnel of their own, which a session through
  the daemon has not.
* `xctest/mod.rs` 447: the start command may go to channel -1; 421: the end of any
  suite after a first case ends the run; 519: `run` returns `Ok(true)` whatever
  happened.

## 4. Proofs

`DtxProofs` proves, for any numbers of threads, channels, calls and messages,
any queue capacity and any `FirstId` and `IdMod` that satisfy `DtxAssumption`
(natural numbers, `0 < FirstId < IdMod`, channel 0 exists):

* `TypeCorrect`: `Spec => []TypeOK`. `TypeOK` is not inductive: that a reply
  fills a slot with a call's number needs `RepliesTagged` (replies on the socket
  name calls), that the device learns proper ids needs `CallNumbered` (a live
  call has a number and an id), and that the reader's message can be taken apart
  needs `ReaderHolds`. `TypeInv` is the conjunction.
* `RepliesMatch` and `WaitersRegistered`: `Spec => []ReplyMatchesCall` and
  `Spec => []WaiterRegistered`. Both speak of the time before an id is used
  twice (`IdsFresh`); afterwards they are false, since a late reply to an old
  call has the id of a new one. The strengthening `CallInv` says that the n-th
  message has the id `FirstId + n - 1`, and that everything that carries an id
  agrees with this: the next id, the live calls, the waiter map, the calls known
  to the device and the replies on the socket. `FreshInv` (`TypeInv`, and
  `CallInv` while `IdsFresh`) is inductive because `IdsFresh` never comes back
  once it is lost.
* `RepliesNeverBlock`: `Spec => []ReplyNeverBlocks`, with no condition on ids.
  The reason is a different one: a call's number stands in the waiter map at
  most once (`WaiterUnique`), below the numbers to come (`WaiterCounted`,
  `CallerCounted`), and the reply that fills the slot takes the entry out.
* `CallsInOrder`: `Spec => []DispatchInOrder`. The queue alone says nothing about
  what comes next, so `OrderInv` follows every method call on its way: the serial
  numbers of a channel increase (`Serial`), what the socket carries was sent and is
  in that order (`OnSocket`), the reader and the handlers hold one message at a
  time (`OneAtATime`), a channel nobody has registered has heard
  nothing (`Unheard`), and what a channel has seen is a first part of what was
  sent (`InOrder`).
* `RequestsSeenTo`: `Spec => []RequestSeenTo`. `AnswerInv` adds that a request
  that is neither acknowledged nor with its handler is still under way (`AnsweredOn`),
  and that the reader lets go of a request nobody is registered for only after its ACK
  (`AckedFirst`).

The other proofs are of the same form: an inductive invariant that contains the
property, one lemma per action or family of actions, and a last step that puts
them together. Where a proof found the invariant of a run not to be inductive,
the strengthened one was model-checked before it was proved.

### TunnelProofs

* `EndComesLast` (`EndAfterAll`) and `ProxyImplementsPipes` (`ProxyPipes`), for any
  number of bytes and any size of the sockets (`ProxyAssumption`: a natural number
  and a positive one). The bytes of a direction that are on their way, over three
  places, are consecutive numbers from the last one read to the last one sent
  (`UpWhole`, `DownWhole`): this is the refinement mapping, and with it every step
  of a loop or a peer is a step of `BytePipe` or none. For the end of the stream
  one needs in addition why a loop is over (`MainOver`, `BackOver`), that a loop
  which does not write has empty hands, and that no end is read before both are
  over (`EndsLast`).
* `FramingTypeCorrect` for either kind of reader: no read goes beyond what the
  header announced.
* `PlainReaderIntact` (`FramingSafe`), for any sequence of packet lengths, with
  `RetryOnTimeout = FALSE`, that is for `recv_ipv6` over a reader thread. The
  hypothesis is needed: for the loop that goes on after a time-out the property
  is false (run `framing_timeout`). The invariant joins both ends: the units on the
  stream follow one another up to `upNext` (`StreamRuns`), and what the reader
  holds is the beginning of the packet it is at, with its next unit at the front
  of the stream (`InStep`).
* `BridgeHolds` (`BridgeSafe`) and `BridgeImplementsPipes` (`BridgePipes`), for any
  number of bytes, any sizes of the buffers and any chunk (`BridgeAssumption`: all
  natural numbers, the sizes positive). As long as no chunk of a direction is torn,
  the bytes under way over pair, saved chunk and socket are consecutive numbers from
  the last one read to the last one sent (`InWhole`, `OutWhole`), which is the
  refinement mapping; a pass receives only with nothing saved (`SavedFirst`), and a
  FIN goes out after the bytes before it (`ClosedLast`, `CloseAfterData`).
  What a direction is once a chunk is torn, no theorem says (run `bridge_short_send`).

### StackProofs

`ConnectsAnswered` (`ConnectSafe`), for any number of clients and any capacity of
the request queue, both loops and with or without the read time-out. A client
waits exactly when it is in the queue or pending, stands in at most one of them
and there once, and no client waits when the loop is gone.

### DaemonProofs

* `SocketFile` (`SocketFileSafe`), for any sets of starters and stoppers. The path
  leads to at most one daemon, which serves or is dead (`PathBound`); a starter
  that waits, while no daemon has ended since it began, has a daemon of its own
  still to come, or somebody who serves or is about to bind (`WaitCovered`).
* `OneTunnel` (`TableSafe`) and `StaleEntriesGo` (`DetachCovers`), for any number of
  clients and of times the device is plugged in. An entry names a tunnel and the
  device id it was built on (`EntryOfTunnel`), a client's tunnel was built on the
  device id the client saw (`ClientTunnels`), device ids are given out in order and
  never twice (`IdsInOrder`), and whoever dials the attached device has the tunnel
  from the entry (`DialsEntry`). `DetachCovers` is proved in the stronger form that
  holds before the watcher listens too (`Covered`).

### HostProofs

About `Usbmux`, for any numbers of calls, events and devices and any largest tag
(`UsbmuxAssumption`: natural numbers, the first and the last positive, and enough
events for the simulator's devices), against either peer:

* `AnswersOwn` (`CallsSafe`): a call that returns got the answer to its own request.
  For the call that waits, either its request is still with the peer, or its answer
  is the one frame under way or decoded, or the call has passed that frame over and
  no other will come (`AwaitsAnswer`); between calls nothing is left over
  (`Resting`). A tag that is used again can therefore do no harm.
* `NothingLost` (`NothingLostInside`): what a listener has returned, what is decoded
  and what is on the line are the device events in order, none missing (`Listens`);
  a pipe's bytes are in order too, behind those the codec has kept (`Pipes`). The
  line is the receive buffer followed by the stream, which a read leaves as it is:
  only decoding takes from it, a frame at a time. In addition a complete frame is at
  the front of the buffer only while `process_rx` is at work.

About `Lockdown`, for any numbers of processes of each kind. `LockdownAssumption`
says that a process is of one kind, and that the host ids the device knows
beforehand are not theirs.

* `TrustFollowsRecord` (`RecordTrusted`): a process saves its own host id
  (`OwnHost`), after the device has accepted it (`SeenWhenDone`), and a host id the
  device was told to forget has its unpair still before or in the deletion
  (`UnpairsTold`).
* `SessionsInStep` (`SessionSafe`): who has the word (`InTurn`), which state of the
  stream goes with which program counter (`StreamInTurn`), and that the device
  speaks TLS only after it has announced it (`TlsAnnounced`).

### RemoteProofs

* `WaysAsTold` (`WaysSafe`), for shims with any number of answers, StartService at
  any place among them or missing (`DsAssumption`: a natural number). `WayInv` says
  what must have failed where `open` is, `StreamInv` that the stream of a shim holds
  what it sent less what was read.
* `PairingsSound` (`PairingSafe`), for any number of processes and runs. At most one
  message or answer is under way in a dialogue, and it is that of the step the
  process is at (`TurnOK`); from the last step on both ends have one key (`KeyOK`);
  what is about to be saved is known to the device (`SaveOK`). What the device knows
  only grows, which makes one dialogue's invariant independent of the others.
* `RunsSound` (`RunSafe`), for any number of test classes. The order of the messages
  over wire and queues (`InOrder`) and that the runner's request is the first of all
  (`RequestFirst`) carry the argument; `AnswersDue` says of each message how often
  it has been answered so far. That the start command goes to -1 is not excluded: it
  does exactly when the request for the driver channel is still in the queue of
  channel 0.
* `MessagesWhole` (`MessagesSafe`), for any numbers of requests and events. The parts
  of a message follow one another from the client's buffer over the stream to the
  device (`FirstOK`, `NextOK`, `LastOK`), at most one reply is under way and nothing
  of it comes after its last part (`OneReply`), it is that to the request waited for
  (`ReplyIsOwn`), and the ids of the two sides are odd and even (`IdsOK`). All this
  holds while the device has not mixed the frames of two messages (`mixed`), the
  condition of the property; without one the code joins parts of different
  messages. That every SETTINGS and PING is acknowledged once (`AcksDue`: each one
  sent is on the stream or acknowledged) holds in every state.

### ServiceProofs

* `CacheGood` (`CacheRecovers`), for any number of processes. Where a writer is in
  its order of files says which parts of the cache are whole and of its build
  (`WriterOK`); a reader has what is in the cache (`ReaderOK`); all this as long as
  nothing was torn (`torn`: a process was killed in the middle of the last file, or
  two fetched at a time), which is the condition of `CacheRecovers`.
* `MountReported` (`MountedMeansMounted`), for any number of processes. At most one
  request or answer is on a connection, apart from its end, and it is that of the step
  the process is at (`TalkOK`, `Expects`): so the Complete that MountImage waits for is
  not the one of the upload. An answer that reports the image has its `told`, and a
  reboot makes that stale, wherever the answer is by then.
* `CommandsStop` (`StopsAtRefusal`), for any number of hosts. `CommandFacts` first
  establishes, by going through the commands, that what a request accepts of the
  refusals is in `Missed`; `DeedsOK` says what the device has done, or refused
  unnoticed, at each place.

### AfcProofs

`ConnectionsInOrder` (`AfcSafe`) and `WholeFiles` (`FilesWhole`), for any number of
clients, files, chunks and operations (`AfcAssumption`: finitely many files, none
of them the directory). The invariant is one formula per client, so that a step
of one client leaves the others' alone: whose turn it is (`Turn`), that the request
or answer under way is the one the client is waiting for (`Fits`), that the handles
the device holds for it are the one in use, the leaked and the released ones
(`Handles`), and how much of the file the two sides have (`Pulling`, `Pushing`,
`Proxying`).

### Only model-checked

* Every liveness property: fairness and `ENABLED` are out of the prover's reach.
* `CodecsExact`: recursive operators and induction over data are out of its reach
  too. It is checked over the bounded inputs of the run `services`.

Every other property of a passing run is stated by a theorem.

## 5. Not modelled

* The command line (`main.rs`, argument parsing, printing, `perf`, `orientation`)
  and the log streams: straight-line code that turns answers into text.
* The byte layout of DTX messages, auxiliary values and archives, of HTTP/2
  frames and of plists, and what the values of service answers mean.
* External: TLS, the cryptography of both pairings, smoltcp, the kernel, usbmuxd,
  the device and its services, Apple's signing server.
* In modelled parts: the counter of DTX channel codes, the `List` request, the
  PID file, port numbers, the spelling of UDIDs, `connect_app` of AFC, the relays
  that join a Unix and a TCP socket, the back-pressure of a device that stops
  reading.

## 6. What could follow

Models worth adding: the stream below `Dtx` with back-pressure; two UDIDs, or two
spellings of one, in `TunnelDaemon`; the DTX encoding as pure operators, and the
loops of the codecs as state machines with one step per byte or group, which would
bring `CodecsExact` within reach of the prover.
