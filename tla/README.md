# rusbmux: TLA+ models, model checks and proofs

rusbmux is a replacement of usbmuxd written in Rust: a daemon that finds iOS
devices on USB and on the local network, tells clients about them over a socket
and carries the clients' TCP connections to the devices. On USB it speaks TCP
itself: it opens connections with a three-way handshake inside USB packets, keeps
sequence numbers and windows and multiplexes all connections of a device over one
pair of bulk endpoints.

This directory holds models of the parts of the daemon in which tasks interleave,
the TLC runs that check them on small instances and proofs, checked by TLAPS, of
their central invariants for every instance. Paths in this file are relative to
the repository root; library code is under `src/`, the daemon under
`src/bin/rusbmux/`.

## 1. Inventory

| Part | Source | State | Operations | Model |
|---|---|---|---|---|
| Connection | `src/conn/usb.rs` | byte counters (u32, wrapping), the device's last window and acknowledgement, `sendable_bytes`, `dropped`, both channel ends | handshake, `send_bytes`, `recv` (+ `ack`), `close`, RSTs, `Drop` | `UsbConn`, handshake in `UsbDevice` |
| Connect handler | `handler/connect.rs` | `read_buf`, the futures of a `select!` | `client_read`, `client_send`, `connect`, copying for network devices | `UsbConn`, `UsbDevice`, `ClientSession` |
| Packet router | `src/device/packet_router.rs` | port -> (sender, weak connection), `next_source_port` (u16) | `register`, `cleanup_dead`, `attach_conn`, `unregister`, `clear`, `take_all_conns`, `route` | `UsbDevice` |
| USB device | `src/device/usb.rs` | reader and writer task, writer channel (256), cancellation token, `send_seq`, `recv_seq` | version and setup exchange, loops, `connect`, `shutdown`, `Drop` | `UsbDevice`; opening and numbers in `UsbLink`; writer also in `UsbConn` |
| USB backends | `src/usb_backend/` | pending transfers, read and write buffer | `poll_read`, `poll_write`, `submit_end`, transfer callbacks, hotplug | libusb reader and writer in `UsbLink`, ids and events in `DeviceRegistry` |
| Packet formats | `src/parser/` | position in the byte stream | `from_reader` of both protocols, headers and their errors | `UsbLink` (device mux), `ClientSession` (usbmux) |
| Provider stream | `src/provider.rs` | `read_buf`, `need_ack`, `write_packet`, `last_write_len` | `connect`, `poll_read`, `poll_write`, `poll_shutdown` | `ProviderStream`, connect in `UsbDevice` |
| Network device | `src/device/network.rs`, `power_assertion.rs` | heartbeat task, renewal task, token | opening, two strikes and out, renewal, `connect`, `Drop` | `NetworkDevice`, `ClientSession` |
| Device table | `watcher/mod.rs`, `watcher/usb.rs`, `watcher/network.rs`, `utils.rs` | `CONNECTED_DEVICES`, broadcast channel (32) | connect and disconnect events of two watcher tasks, `remove_device`, dedup by udid | `DeviceRegistry`; its guards in `ClientSession` and `UsbDevice` |
| Library watchers | `src/watcher/usb.rs`, `src/watcher/network.rs` | channel of I/O disconnects; `devices_id_map`, `devs_canceler` | hotplug, reopen after I/O error, service resolved and removed, cancelled devices | `DeviceRegistry` |
| Listen | `handler/listen.rs` | subscription, what the client was told | subscribe, snapshot, events | `DeviceRegistry`; the writes in `ClientSession` |
| Add device | `handler/add_device.rs` | the old entry while the new one is created | forced and plain add, restore | `DeviceRegistry` |
| Sessions | `handler/mod.rs`, `handler/*.rs` | position in the socket's stream, the mode (requests, copying, events) | read, dispatch, answer | `ClientSession` |
| Pair records, system identifier | `handler/*_pair_record.rs`, `handler/read_buid.rs`, `utils.rs` | files | read, save, delete, create on first use | `PairRecords`, answers in `ClientSession` |
| Preflight | `watcher/preflight.rs`, `src/watcher/preflight.rs` | the pairing dialogue | read and repair the record, pair, wait for the user, save | `PairRecords`; its connections in `UsbDevice` |
| Daemon | `daemon.rs` | sockets | accept, `cleanup` on exit | exit in `UsbDevice`, kill and restart in `ClientSession` |
| CLI, errors, Windows driver installer, Nix and CI files | | no state of the daemon | | not modelled |

How they interact: the USB watcher creates a `UsbDevice`, puts it into the table
and announces it on the broadcast channel. A client's connect looks the device up
(holding a guard of the table until the handshake is over), registers a source
port with the router and exchanges SYN, SYN-ACK and ACK through the writer channel
and its route. Then the forwarding task moves bytes; a user of the library instead
polls a stream. The reader task parses packets out of USB transfers and feeds
routes; the writer task drains one bounded channel shared by all connections of the
device. Pulling the cable is noticed by the reader (I/O error), the hotplug
watcher, or both, in any order. Removing a device cancels its token and resets
its connections. A network device lives as long as its heartbeat is answered; its
token ends the sessions that copy to it. Sessions and the preflight task of a
device share the files below the lockdown directory without a lock.

What is hard here: futures dropped in the middle by `select!`, by a timeout or with
their task; bounded channels that make every send an await; two tasks that each look
and then act, on the table or on a file; guards of the table held over a network
wait; a shutdown that races the tasks it shuts down; numbers that wrap; names (ports,
mac addresses) that are reused; a byte stream cut anywhere, with no way to find the
next packet once the place is lost. `PROJECT.json` lists these hazards line by line.

What makes each part correct:

* connection: never send beyond the device's buffer; headers continue the stream;
  no byte lost, repeated or reordered; a window that opens again is noticed; the
  device learns of the end;
* router and device: a live connection keeps its route; no half-open connection;
  unplugging and shutdown end every wait; resets reach an attached device;
* link: every packet found, in order, however it is cut; each packet of the daemon
  is one USB transfer; an unplugged device is noticed as long as users read their
  connections;
* stream: two ordered byte streams without gaps, whatever is cancelled; calls end;
* table: one entry per cable; listeners end up knowing the table, with a phone on
  both transports shown once; dead devices leave;
* network device: one failed heartbeat is forgiven, two are not; its end reaches the
  table and every session that uses it;
* sessions and files: each session ends with its client; the system identifier, once
  anyone can rely on it, stays unless the test for its file fails.

## 2. Modules

`UsbConn` - one established connection, the task that forwards its bytes, the
writer channel (with the packets of other connections in it), the device's side of
the stream, and everything that ends it. Bytes are stream positions, so that
"which bytes" is a number; every u32 of the code is a number modulo `SeqMod`, and
history variables (`sentTotal`, `ackedTotal`, `rcvdTotal`, the fields `pos` and
`at`) that no guard of the daemon reads hold the unwrapped values. `pc` is where the
task waits: `select` (all branches pending), `ack` (inside `recv`, a packet in
`held`, waiting for a slot), `forward` (`client_send`), `send`, `close`, `drop`,
`done`. The client branch is enabled in `ack` too, and discards `held`: that is what
dropping the `recv` future does. `client_send`, `send_bytes` and `close` run in the
body of a branch, so nothing interrupts them.

`UsbDevice` - the router, the handshake, the loops
and the shutdown of one device with several connections. `Daemon` connections
hold a guard of the table while they connect; `Provider` connections belong to the
preflight task, which is dropped when the token is cancelled. A packet is a port
and a flag; `own` names the connection it was sent for and is read by properties
only. The reader is in `route` when it has found an entry (`send`: it holds the
entry's shard and waits for room in the channel, with its packet at the head of
`wire`) and when the send failed and the entry is let go, but not yet unregistered
(`unreg`). `Locked` is a shard that is held: `cleanup_dead`, the probes of `register`,
`attach_conn`, `unregister` and `take_all_conns` wait for it. `pc` is `write` while the
forwarding task writes to its client, outside of its `select!`. Pulling the cable
leaves the packet in hand and any part of what was received before it. `sd` follows `shutdown`: `take`, `rst`, and `drop` when it failed and `Drop` runs
`shutdown_blocking`.

`UsbLink` - what is below the loops: the version and setup exchange of
`UsbDevice::new`, `from_reader` on top of `RusbAsyncReader`, and the writer loop with
its numbers on top of `RusbAsyncWriter`. Bytes are counted, not encoded: a packet of
the device has a start and a size in the stream, the parser has a position (`pos`)
and knows how many bytes of its current stage are missing (`need`), and a transfer
carries any number of the bytes in flight. Between two packets the reader may be in
`route` (`RouteReturns`), for as long as a channel has no room; who holds it up is
`UsbDevice`'s subject. A header read where no packet starts is
any header, which is all that can be said of a parser that has lost its place.
`build` chooses between a build that panics when `send_seq` overflows and one that wraps.
On the write side `wbuf` and `wlen` are the buffer of the writer and its length, `wire`
the packets the device received and `ends` how many of them there were at the end of
each USB transfer: a bulk write ends a transfer only if its last USB packet is short,
or an empty one follows.
`stale` remembers that a failed `submit_end` left `current_transfer_len` behind.

`ProviderStream` - `RusbmuxStream`. Its user has exclusive access, so at most one
`call` is in progress; a step is one round of the loop in a poll function; a call
that is pending may be cancelled, which leaves `need_ack`, `write_packet` and
`last_write_len` for the next call to find. The user follows the contract of
`poll_write` and submits a cancelled write again (`again`). A full channel includes
slots other connections hold, as in `UsbConn`; here only this connection's packets
are counted, and the wrap of the counters is left to `UsbConn`.

`BytePipe` - what a stream promises: bytes accepted from the user arrive at the
device, and bytes the device produced are delivered, each in order and without a
gap. `ProviderStream!Pipe` instantiates it with `produced <- devSent - 1` (the SYN is
not data) and `closed <- ~devOpen`; `accepted`, `arrived` and `got` have the
same names in both. `IsBytePipe` says that every step of the stream is a step of the
pipe or leaves it alone.

`NetworkDevice` - opening a device on the network, the heartbeat (`hb`, with its local
`failed`), the power assertion and its renewal, the token and `Drop`. `reachable` is
the environment. `strikes` and `byHb` are history.

`PairRecords` - the files, the operations on them and the preflight's dialogue.
`tokio::fs` runs an operation on a blocking pool: a write truncates the file and
fills it in two steps of its own and goes on when the task that awaits it is dropped.
`fop` is the operation an actor awaits, `fres` what came of it, and `ppc` where the
preflight is. An error of `try_exists` counts as an absent file, as in the code
(`ExistsFails`). `settled` is history: the identifier at the first moment at which there
was one and nobody was making another, forgotten when a test for the file fails.

`ClientSession` (`MCSession` has its setups) - composes the two with the sessions:
reading and dispatching requests, the answers, the two modes that never read requests
again (copying, events), the device's table entry and the guards sessions hold of it
(`Guards`: connecting, and writing an Attached message), the removal by mDNS or by the token,
and a kill of the daemon after which only the files are left. The end of a client's
socket is `UnexpectedEof`, `ConnectionReset` or `BrokenPipe`, which `handle_client` lists
as ends. `ConnectionAborted` is not in that list: the loop passes over it and reads
again, and the model takes the socket to report its end at that next read. A platform
that repeats the error would keep the session in that loop.

`DeviceRegistry` (`MCDeviceRegistry` has its setups) - the table, the event bus, both
watchers with the library streams that feed them, `add_device` and one listening
client. All entries belong to one phone: dedup compares udids, so phones do not
influence each other. A step is one operation on the map or one event sent, since
tasks run on several threads. The heartbeat of a network device may fail at any time
of its life (`OpenNetwork`): in the table, before its insert, or while a forced
`add_device` holds it. `retain`, lookups and inserts are atomic, as the map's
locks make them for the entries of one phone. A lookup that may find several entries
chooses any. A setup names the sources of devices and their bounds; a behaviour
starts in one of `Setups`.

`UsbConn_proofs` (flow control), `UsbConnStreams_proofs` (the two byte streams of a
connection, on top of it), `UsbDevice_proofs`, `UsbLink_proofs`, `ProviderStream_proofs`,
`DeviceRegistry_proofs`, `ClientSession_proofs` - the theorems of each module, section 4.
`ProofFacts` - what several of them need of remainders and of sequences.

External behaviour, modelled from how the code uses it: the phone's TCP (it keeps
to its announced window, announces `(free buffer) / WinUnit`, answers an unknown
port with RST), its heartbeat and pairing services and its user, the cable and
libusb's completions, the client socket, the file system, the hotplug callbacks.

### Not modelled

* Payload contents, plists and their encoding, error texts; requests are told apart
  by what they make the daemon do, answers by their kind.
* `from_slice`, the accessors of the packet types and `cleanup_conn`: nothing in the
  daemon's loops calls them. Bytes of headers are counted, not encoded.
* The endpoints of the nusb backend (its queue of transfers is that library's), the
  search for an interface and the registration of hotplug callbacks (calls into
  libusb without state of their own).
* Resolving a service to a udid and an address, TLS, TCP of the local network.
* Command line, privileges, signal handling, error types, the Windows driver
  installer, Nix and CI files: no state that an action could change.

Definitions named after a bug (`CalcNoWrap`, `UsbRetainAll`, `TakeDrops`, ...) are not
part of the specifications: each one stands before the definition it would replace and
is used to confirm that a property notices the change.

## 3. Runs

Every property below is defined in the module with the comment that states it.
No run checks for deadlock: a finished connection, an unplugged device and a
bounded environment may stop.

| Run | Checks | Distinct states |
|---|---|---|
| `UsbConnSafe` | `TypeOK`, `DeviceNeverOverrun`, `ClientBytesAccounted`, `DroppedMeansReset`, `HeadersMatchStreams`, `ClientStreamOrdered` | 9.3 M |
| `UsbConnLive` | `ClientBytesReachDevice`, `DisconnectEndsTask` | 118 k |
| `UsbConnLoss` | `ClientStreamGapless` - violated | |
| `UsbDeviceLife` | `TypeOK`, `NoHalfOpen`, `ConnectPinsDevice`, `RouteOnlyLostToDevice`, `UnplugWakesHandshake`, `ShutdownEndsConns` | 181 k |
| `UsbDeviceWrap` | `RouteOnlyLostByPort` | 5.1 M |
| `UsbDeviceStuck` | `UnplugRemovesDevice` - violated | |
| `UsbDeviceExit` | `ShutdownResets` - violated | |
| `UsbLink` | `TypeOK`, `ParsedInOrder`, `OnePacketPerTransfer`, `WriterNeverStalls`, `SeqNumbers`, `PacketsAreParsed`, `UnplugIsNoticed` | 484 k |
| `ProviderStream` | `TypeOK`, `AckedIsKept`, `WindowRespected`, `DataBeforeError`, the refinement `IsBytePipe`, `WriteEnds`, `ReadEnds` | 284 k |
| `Session` | `TypeOK`, `TwoStrikes`, `BuidStable`, `DeadDeviceLeaves`, `TasksEnd` | 347 k |
| `Registry` | `TypeOK`, `ListenerExact`, `ExposedIsShown`, `UsbIsShown`, `OneUsbEntry`, `DeadIsNoticed` | 7.3 M |
| `RegistryRace` | `OneShown` - violated | |

### Bounds

* `UsbConn`: `SeqMod` 3 with a device buffer of 2: the counters wrap with data in
  flight, and a wrong comparison at the wrap is visible. `WinUnit` 2 makes the
  rounding of windows lose a byte. `TxCap` 1 makes every send an await that can
  be interrupted, by any number of other connections' packets. `MaxOut` 3,
  `MaxIn` 2 bytes: enough for a read that exceeds the window, a closed window
  that opens again, and two receives of which the first is cancelled. The live
  run has a buffer and window of one byte, so the window closes after each byte.
* `UsbDevice`: one daemon and one preflight connection share two ports in
  `UsbDeviceLife`, with channels of one and a single shard, so that `route` blocks and
  everybody else meets its lock. `UsbDeviceWrap` has a single port, so that the second
  connection gets the port of the first while packets for the first are on their
  way: the RST, the unregister of a failed handshake, the late unregister of `route`
  and the entry that a failed connect of the preflight leaves behind are all reached.
* `UsbLink`: headers of one and two bytes and payloads of none or two, so that a
  transfer (4 bytes) can end in every place of a packet and hold the end of one and
  the beginning of the next; a maximal packet (6) fills a USB packet and needs the
  empty one. `SeqRange` 3 lets `send_seq` overflow in both builds. Three
  packets each way (four together) and one fault: a failed or empty transfer or a
  malformed packet, with good packets before and after it.
* `ProviderStream`: buffer, window and channels of one, so that every window closes
  and every send can be pending; packets of up to 3 bytes, 3 bytes out and 2 in:
  a write that the window cuts, and data that comes in while a write waits. All
  ways to end a connection.
* `Session`: two clients and the preflight; five setups (`MCSession`): two clients
  of a network device that changes its reachability once, malformed input in front of good
  requests, two sessions that ask for an identifier nobody has made, one session with
  two pair record requests next to a preflight, and the identifier with a crash.
* `Registry`: 2 or 3 device ids in total and an event channel of 2 to 4: with 2 the
  `Lagged` path is reached. The setup `Both` can pull and plug the cable again next
  to a network entry; `All` adds requests by hand and repeated connect events.
  `ListenerExact` is about setups with one source and without repeated connect events
  (`OneSource`), `DeadIsNoticed` about setups without manual devices.

### Fairness

Weak fairness of a task's steps everywhere means that the runtime polls woken tasks.

* `UsbConn!Fairness`: strong fairness is assumed for waiting for a slot of the channel,
  since the channel wakes waiting senders in turn, and for the client branch, since
  `select!` starts at a random branch. The client reads what it is sent, and the
  device reads its buffer and announces the window it frees: without either no
  byte could be promised to arrive.
* `UsbDevice!Fairness`: the tasks, the two loops, and the watcher run when they can, and
  who waits for a slot or a lock gets it if it is free again and again (strong fairness:
  both queue their waiters); nothing is assumed of services or of the cable.
  `UsbDevice!UsersRead` is an assumption on clients and not on the code: what is sent
  to a client it reads, or it goes away, and the preflight reads its connections.
  Without it neither `UnplugWakesHandshake` nor `ShutdownEndsConns` holds, see the
  observations.
* `ProviderStream!Fairness`: the sink and the receiver keep the waker of the last poll,
  so a pending call is polled again when its channel moves; strong fairness for slots
  as above. The writer loop runs, and the device reads and announces its window. Nothing
  makes the user call, cancel or drop.
* `UsbLink!Fairness`: libusb completes a transfer for which there are bytes or whose
  device is gone. Nothing makes a transfer fail, a packet be sent or the cable be
  pulled. `UsbLink!UsersRead` makes `route` return, for the same reason as in
  `UsbDevice`: a reader that waits there polls no endpoint.
* `ClientSession!Fairness`: file operations and connection attempts end, and clients
  read while their socket is open. Nothing makes a client close, a phone be reachable or its
  user decide. The withdrawal of a service by mDNS is not fair: `DeadDeviceLeaves`
  rests on the heartbeat alone.

### What the violations show

* `UsbConnLoss`: with the writer channel full, `recv` waits in `ack` having
  counted the packet; the client branch wins, the packet is dropped and the next
  ack acknowledges it. The comment in `recv` warns of this; the daemon's own loop
  uses it that way. `ProviderStream` does not have the problem: it keeps the payload
  in `read_buf` and the debt in `need_ack` (`AckedIsKept`).
* `UsbDeviceStuck`: a connect that registers after the reader loop has cleared
  the router waits for ever, and its guard keeps `remove_device` waiting.
* `UsbDeviceExit`: `shutdown` cancels the token, which ends the writer loop,
  before `close_all` queues the RSTs that the comments say are sent. The property is
  about the connections `close_all` has taken, while the device is attached and has
  them; in the trace the writer is gone when the RST is to be queued. An RST queued in
  time and dropped with the queue of a writer that ends then is the same mechanism.
* `RegistryRace`: the USB watcher looks for a network entry before the network
  watcher inserts one, and inserts its own after the network watcher looked for
  a USB entry: both are shown.

### Observations without a run of their own

No doc, comment or test states the contrary of these, so they are no findings;
the models contain them and the properties are stated around them.

* `route` waits for room in a connection's channel with a shard of the router locked. A
  client that keeps its socket open and does not read holds up the reader loop, which
  then notices no unplugged cable, wakes no waiting handshake and keeps everyone
  who needs that shard waiting. The task of that client is in `client_send`, outside of
  the `select!`, and does not see a shutdown either. The liveness properties of
  `UsbDevice` and `UsbLink` assume clients that read.
* A connection whose channel fills up before it is attached is worse: `attach_conn` waits
  for the shard that `route` holds, and `route` for room in a channel that nobody reads
  before `attach_conn` returns (`AttachDeadlock`). The channel holds 256 packets, so
  the phone has to send that many right after its SYN-ACK. A daemon connect keeps its
  guard of the table in this state, so the device cannot be removed.
  `UnplugWakesHandshake` excludes it.
* `route` lets its entry go before it unregisters the port of a receiver that is gone:
  a `register` in between may clean the entry up, take the port, and lose its new
  route to that unregister (`ReaderUnregisters`, `UsbDeviceWrap`).
* An error of `try_exists` makes `read_system_buid` replace an identifier that is there
  (`ExistsFails`); `BuidStable` speaks of the time between two such errors.
* A cancelled device's future remembers only the mac address and can remove the
  device resolved again under that address (`Registry`).
* A failed forced add restores the old entry without an Attached event, and nobody
  waits for the token of a device added by hand (`ExposedIsShown` and `DeadIsNoticed`
  leave out manual devices).
* A removed device can be dropped while the cancelled preflight task still owns its
  router, which the debug assertion in `Drop for UsbDevice` denies (`UsbDeviceLife`).
* A repeated connect event makes `retain` drop the entry before it without a Detached
  event, so a listener goes on showing its id (`OneSource` leaves repeated events out).
* A packet rejected between its headers leaves its remaining bytes to be read as
  headers; `ParsedInOrder` holds for streams without such a packet (`Harmless`). The same is
  true of a client's socket: after one bad header a session may swallow everything
  its client sends (`ReadGarbage`), although it still ends with it.
* A version packet of another size panics in `decode`: in the reader loop that task
  ends without reporting the device or clearing the router.
* A write that fails in `submit_end` leaves its length to be counted with the next packet, which
  is then glued to the one after it or followed by an empty transfer.
* A notification of the user's trust that comes before the preflight observes it is
  lost: the timer's `pair_once` that then succeeds is discarded, and the task waits
  until the device is unplugged. `TasksEnd` therefore speaks of a notification on its
  way.
* A crash between truncating and filling `SystemConfiguration.plist` leaves an empty
  file that is never made again, and every later request for the identifier fails.
* Two sessions that both find no identifier make two; whoever reads in between was
  told the one that is overwritten. `BuidStable` starts when nobody is making one.
* The preflight's removal of an unreadable record can remove the one a client is
  saving; the client is told OK (`PutLost`).
* A listener whose client is gone is noticed at the next event, and a copy of which
  only the client's side is closed lasts until the device closes or its token is cancelled.
* A single failure ends the renewals of the power assertion for as long as the device
  is connected.
* A cancelled `poll_write` followed by a write of other bytes reports the length of
  the packet built from the old ones.

## 4. Proofs

Every invariant and every action property of the passing runs is a theorem: it holds for
every value of the constants that satisfies the assumptions of the component's module,
not only for the instance TLC explores. The theorems have the form `Spec => []P`;
`Spec` contains no fairness. Each rests on an inductive invariant that was checked with
TLC before it was proved, and each step lemma goes through the actions one by one.

### Connection: `UsbConn_proofs`, `UsbConnStreams_proofs`

`ConnAssumption` asks for a counter larger than the device's buffer (`DevBuf < SeqMod`;
the code has 2^32).

* `NeverOverrun`, `TypeCorrect`. `DeviceNeverOverrun` is not inductive: what may be sent
  depends on the last window and acknowledgement the daemon took in, which may be old.
  `FlowInv` adds: the daemon's counters are its totals modulo `SeqMod` (`CountersWrap`);
  every window announced, in the channel or taken in, promises room the device still
  has, because it never takes a promise back (`PromisesKept`); acknowledgements are
  ordered along the channel and behind what was sent (`AcksOrdered`, `QueueOrdered`);
  and `sendable_bytes` does not exceed the last promise (`SendableSound`). The step that
  matters is arithmetic: the wrapped difference of two totals that differ by less than
  `SeqMod` is their difference.
* `BytesAccounted`, `StreamOrdered`, `HeadersMatch`, `DroppedIsReset`. `StreamsInv` adds
  to `FlowInv`: where the bytes of the client are in each state of the task
  (`BytesInv`); the device's bytes are delivered, held, in the channel and sent, in this
  order (`OrderInv`), which survives a cancelled receive because a discarded packet is
  only skipped; and each queued packet starts where the one before it ends
  (`HeaderInv`, `Chained`). The exception is the RST that `close_all` queues after the
  cancellation: it was built from counters that other packets may have moved since, and is
  the only packet that may be behind.

### Device and router: `UsbDevice_proofs`

* `PinsDevice`. `PinInv` adds that a device somebody is connecting to is in the table,
  and that one still in the table is cancelled only when the daemon is stopping.
* `TypeCorrect`. `PortInv` adds that a connection past its registration has a port,
  `HandInv` that a reader in `route` has a packet in hand that is not an RST.
* `RoutesLostByPort`, an action property, for any reuse of ports and any number of shards:
  a newcomer and `cleanup_dead` never take a live route; what does is an RST for the port,
  the unregister of a failed handshake, or the one of `route` after a failed send. From
  `StopInv` (a shutdown starts with the token, the report of the reader comes after the
  cable).
* `NoneHalfOpen` and `RoutesLostToDevice` under the hypothesis `Enough`: there are fewer
  connections than ports, as in `UsbDeviceLife`. It is needed and not a convenience: under
  the constants of `UsbDeviceWrap`, where a port is used again, TLC refutes both. A
  connection whose route the device has reset closes late, after its port has a new owner:
  its RST follows the SYN of the new connection, closes that one at the device, and the
  new one is open on our side only. And a handshake that failed unregisters its port after
  the port has been given away, which takes the route of the new owner. `TalkInv` says
  that, with enough ports, a port names one connection in the router, in the device and in
  every packet on its way (`PortsApart`), that a connection without a SYN has nothing on
  its way (`Unsent`), and that a connection the device has given up has an RST coming
  (`Told`).

### Link: `UsbLink_proofs`

`LinkAssumption` asks that a packet without payload does not fill whole USB packets,
alone or with the opening packets (36 and 73 bytes in the code, against 512), and that
payloads fit `MAX_PACKET_SIZE`. `LinkInv` has a part for each direction.

* `NeverStalls`, `OneTransferEach`, `Sequenced`, from `WriteInv`: the buffer holds the
  packet being submitted and nothing else (`BufferInv`), so `poll_write` never finds it
  full; packets carry the numbers in which they were taken (`NumberInv`);
  `current_transfer_len` still counts the opening packets until the first packet is
  submitted, and afterwards nothing but what a failed write has left (`LengthInv`), which
  is why the decision on the empty packet is right; a transfer that is open has a packet
  that followed a failed write, or the next one is such a packet (`TransferInv`).
* `Parsed` and the last part of `Sequenced`, from `ReadInv`: unless it has rejected a packet halfway, the parser is
  at the start of a packet or in the one whose header it holds, and has found exactly
  the accepted packets before it (`PlaceInv`); how much of each stage is missing is
  exact (`StageInv`); the first version packet found ended the opening, and `recv_seq` counts
  the packets since (`OpenInv`).
* `TypeCorrect`.

### Stream of the library: `ProviderStream_proofs`

* `KeepsAcked`, `RespectsWindow`, `ErrorComesLast`, `TypeCorrect`. `StreamInv` says that
  bytes read, in `read_buf` and in the channel are consecutive (`ReadSide`), that those
  arrived, in the channel and in a packet that a cancelled write has left behind are too
  (`WriteSide`), and that windows are promises kept (`Windows`).
* `ImplementsPipe`: `Spec => IsBytePipe`. Under `StreamInv` every step of the stream is a
  step of `BytePipe` or leaves it unchanged, because what arrives or is delivered
  is the next run of positions.

### Device table: `DeviceRegistry_proofs`

* `OneUsb`. `UsbInv` adds that the table holds no USB entry at all between the watcher's
  `retain` and its `insert`, which only this task does.
* `DeadAreNoticed`. `NetKnown` adds that without requests by hand there is one network
  entry, which the id map leads to, or that is just being removed.
* `CableIsShown`, `ExposedAreShown`. `ShownInv` says when an entry is `Due`: the last event about it in
  the listener's channel announces it, or there is none and it is in the view or still to
  be visited by the snapshot. Every USB entry is due or about to be announced; every network entry that no cable hides
  is due, or one of the two watchers has yet to decide (`NetShown`). `Apart` keeps the
  ids of the two kinds apart.
* `ListenerIsExact`. `ExactInv` adds the other direction: what is not in the table is
  gone for the listener or about to be withdrawn (`GoneInv`). For the cable this
  needs that its events alternate and that the entry is the device whose event came last
  (`CableInv`), so that `retain` never drops an entry silently.
* `TypeCorrect`.

### Sessions and files: `ClientSession_proofs`

* `ClosedByTwoStrikes` (`HeartInv`: `failed` is the number of strikes of a running heartbeat),
  `IdentifierIsStable` (`BuidInv`: once settled, no task is making an identifier, and
  with the file there none begins to, unless its test for the file fails, with
  which the next period begins) and `TypeCorrect` (with the bounds of what is
  written and queued, `WorkInv`, `EventInv`), next to each other's steps, failures and
  crashes, for any set of clients.

### Only model-checked

The ten temporal properties (`ClientBytesReachDevice`, `DisconnectEndsTask`,
`UnplugWakesHandshake`, `ShutdownEndsConns`, `PacketsAreParsed`, `UnplugIsNoticed`,
`WriteEnds`, `ReadEnds`, `DeadDeviceLeaves`, `TasksEnd`): liveness under fairness is out
of reach of the prover. The four violations are counterexamples that TLC finds.

## 5. Plan

Done: the connection, the router and device, the link below it, the stream of the
library with its refinement, the device table, network devices, sessions, files and
preflight; proofs of all their safety properties.

Next:

* an abstract specification of what a listener is told, refined by `DeviceRegistry`,
  for all sources;
* safety facts that the liveness properties rest on, as theorems: a connection that
  waits has somebody who wakes it (`UsbConn`, `ProviderStream`), guards of a session are
  released when it leaves the lookup (`ClientSession`);
* a version of `NoHalfOpen` that says what holds when ports are used again.
