# Verification of adb over Bluetooth

TLA+ models of the adb server and of the adb daemon in
`src/android/system/core/adb/`, model-checked with TLC and, for the results
listed under *Proofs*, proved with TLAPS for every value of the constants.
Paths below are relative to that directory unless they start with `src/`.

## 1. The system

bt-adb-shell is Android's adb with a Bluetooth (RFCOMM) transport added to USB
and TCP. Three programs are built from one source directory: the command-line
client, the host server it talks to, and `adbd` on the device. Server and `adbd`
share almost all of their logic, and that logic is what is modelled.

Each process runs one main loop over `select()` and, for each transport, two
threads. A client's connection becomes a *local socket* of the server. The server
joins it to a *remote socket*, a name for a local socket inside `adbd`, which in
turn holds a descriptor of a service. Packets (CNXN, AUTH, OPEN, OKAY, WRTE, CLSE,
SYNC) carry everything between the two main loops.

### Inventory

| Component | Files | State it keeps | Operations | Talks to | What is hard | Correct when |
|---|---|---|---|---|---|---|
| Local and remote sockets | sockets.c | two lists of sockets, peer pointers, packet queues, notify hooks | create, enqueue, ready, close, destroy, event handler, disconnect, close_all_sockets | packet handler (calls), event loop (callbacks), clients (descriptors) | partial writes, crossing closes, close with a backlog, a sweep from another thread | one packet per credit, bytes in order, backlog delivered, no crossed streams, every client answered |
| Packet handler | adb.c | connection_state, online | one branch per packet | sockets, transport, authentication | stale packets, packets of a peer that restarted | stale packets hurt nobody |
| Event loop | fdevent.c | wanted and pending events, fd_table, pending list | set, add, del, remove, process, call_fdfunc | everyone | events reported before, dispatched after, a handler changed its mind | only wanted events are dispatched |
| Transport threads | transport.c | ref_count, kicked, sync_token, socketpair | output_thread, input_thread, kick, unref, registration, removal | main loop (socketpair), device (I/O) | four parties, three locks, teardown from any of them | kicked once, freed last, always freed |
| Transport registry | transport.c | pending_list, transport_list | register, list, remove, disconnect, USB scan | registration socketpair | moves between lists, unlinking twice | lists well linked, serials unique |
| TCP, Bluetooth and emulator transports | transport_local.c | local_transports, connection descriptor | accept threads, kick, close, read, write | registry | same serial twice, descriptor reuse | a descriptor is closed by its owner |
| USB transport | usb_linux.c, transport_usb.c | handle_list, the two transfers of a handle, who is in REAPURB | read, write, kick, close, scan of the bus | registry, kernel | one reaper for two threads, a lost signal, two global locks | no transfer of a live handle submitted twice, writes return, an unplugged device is closed |
| Authentication | adb.c, adb_auth_host.c, adb_auth_client.c | key list, token, usb_transport, needs_retry, framework_fd, auth_fde | CNXN, AUTH on both sides, confirmation, retry | framework (socket), user | restarts of the host, of the framework, and a pulled cable, in any order | shown as connected only when accepted; connected in the end |
| Device selection and trackers | transport.c | the trackers' sockets | acquire_one_transport, wait-for, track-devices | smart socket, wait-for threads | the choice is used after the lock is released | wait-for returns, trackers know what is online |
| Forwarding listeners | adb.c | listener_list, the disconnect list of each transport | install, rebind, remove, remove all, disconnect | smart socket, transports | a listener whose transport leaves, or that changed transports | a forward goes with its device and with no other |
| Smart socket | sockets.c, adb.c | the chosen transport | the host's requests | all of the above | a choice kept between two requests | the device that was chosen is used |
| Service dispatcher, shell | services.c, fdevent.c | pseudo-terminal, waiter thread, force_eof | start, wait, notify by number, forced read | event loop | exit racing output, numbers taken again | output is whole, streams and threads end |
| JDWP service | jdwp_service.c | process list, descriptor queues, trackers | announce, pass a descriptor, list, track | event loop, virtual machines | pid in pieces, death with a queue, pid taken again | every descriptor passed or closed once; the list is current |
| File sync | file_sync_*.c | transfer state | SEND, RECV, LIST, QUIT | a stream | errors in the middle | not modelled |
| Command line, small services, platform layer | commandline.c, adb_client.c, remount_service.c, sysdeps*.h ... | – | straight-line I/O | – | – | not modelled |
| Edison adbd | src/edison/core/adb | – | older copy of the daemon, no authentication | – | – | not modelled |
| Vendored trees | the rest of src/ | – | – | – | – | not modelled |

`PROJECT.json` has the same list with the status of each part, the hazards (what
goes wrong here that a test would hardly reach, each at its line, with the
properties that would notice), and the source lines behind every definition.

## 2. Modules

| Module | Models | Extends |
|---|---|---|
| `FdEventOps` | the operations on one fdevent | – |
| `AdbStreams` | two main loops with their local sockets, joined by FIFO channels | `FdEventOps` |
| `AdbStreamsProofs` | theorems about it: types, flow control, order, pairing, the refinement | `StreamsImplementPipe` |
| `TransportPump` | one socket transport: main loop, output thread, input thread, device | – |
| `TransportPumpProofs` | theorems about it | `TransportPump` |
| `TransportRegistry` | the two linked lists of transports, pointers included | – |
| `TransportRegistryProofs` | theorems about it | `TransportRegistry` |
| `AuthHandshake` | CNXN/AUTH, the keys, the framework, cable and restarts | – |
| `AuthHandshakeProofs` | theorems about it | `AuthHandshake` |
| `StreamPipe` | what adb promises the two clients of a stream (abstract) | – |
| `StreamsImplementPipe` | the refinement mapping from `AdbStreams` to it | `AdbStreams` |
| `UsbHandle` | one USB device of the Linux host: reader, writer, poll thread, transfers, locks | – |
| `UsbHandleProofs` | theorems about it | `UsbHandle` |
| `HostServer` | the server's requests, forwards, device choice, trackers, wait-for threads | – |
| `HostServerProofs` | theorems about it | `HostServer` |
| `Jdwp` | adbd's list of virtual machines, descriptor queues and trackers | – |
| `JdwpProofs` | theorems about it | `Jdwp` |
| `ShellService` | adbd's shells: terminal, waiter thread, exit notification | – |
| `ShellServiceProofs` | a theorem about it | `ShellService` |

Every handler is one action, from its first test to its last call. Operators that
translate a C function have the function's name. An operator whose name ends in
`_Something` directly before such a definition is a wrong version of it, of the
kind a slip in that function would give: the properties are tested against them
(`mutants` in `PROJECT.json`), and no specification uses them.

### AdbStreams

`sock[s][i]` is the `asocket` with id `i` on side `s`; `st` says which list it is
on. A function on a socket is an operator from the record to an *effect* (new
record, packets sent, return value), so that the handlers compose as in C:
`local_socket_event_func` is `EventWrite` followed, unless it returned, by
`EventRead`. Payloads are stretches of the byte count of their source, which is all
that order and completeness need: `off`, `len` in a packet, `upto` in a queue.
`Expected(so)` is the number of bytes the descriptor will have been given when the
queue is empty.

The event loop is modelled as it batches: `fdevent_process` marks every ready
descriptor pending, and the next batch comes only when this one is dispatched. A
handler of the batch may change what a later one wants, and the pending bits are
then updated the way `fdevent_set` updates them. Members of a batch are dispatched
in any order; the code's order follows descriptor numbers, which the kernel
chooses.

`Connect` is `connect_to_remote`, called by the smart socket (with the notify
hooks) or by a forwarding listener (without). `early` is the client that shuts
down writing together with its request. `RefuseOpen` is the branch of `A_OPEN` in
which no service could be started; any OPEN may meet it. When the link breaks, a
prefix of what was under way still arrives; `HandleOffline` is `SYNC(0)` with
`run_transport_disconnects`, `CloseAllSockets` the input thread's sweep.

A write event on a socket that has no peer and is not closing dereferences null:
the socket then becomes `"fault"`, which `NeverFaults` shows to be unreachable.

### TransportPump

`pc` is where each of the three threads is: `kick_transport` is three steps (test
without the lock, test and set with it, call after it), `transport_unref` is one,
under `transport_lock`. `toMain` and `toInput` are the two directions of the
socketpair. `fd = "reused"` says that the number of the closed descriptor has been
given to another part of the process. A thread that still runs when the transport
is freed may do anything with the memory; the model lets it end, and `FreedLast` is
the property that notices. The error branches after the output thread's
`write_packet` calls are left out because they cannot be taken: `t->fd` is open as long
as the thread is in its loop (`OutputHasPipe`, a part of
`FreedLast`). Under the input thread it may be closed (`InputFails`).

`unregister_transport` runs in the model only for a listed transport and at a point
where the main loop is between two packets, which is where a service request is
handled.

### TransportRegistry

The links are functions `next`, `prev` over nodes, list heads included, and an
operation is the C assignments on them. `again` is a history variable: a transport that
was on no list any more has been unlinked a second time, and the links it remembered
were `Stale`, which is when a second unlink changes anything. Freed transports point to
`Garbage` (the code fills them with 0xee). `remove_transport(t)` is enabled once for a
transport with threads: in `TransportPump` the removal is asked for by the last
release. It is enabled when the transport is listed; a removal that was asked for
earlier comes out the same, since one main loop takes both messages off one socketpair,
in order.

### AuthHandshake

One transport at a time. `adbd.usb`, `adbd.retry`, `adbd.fd` are the globals
`usb_transport`, `needs_retry`, `framework_fd`. `fdes[t]` is the `auth_fde` inside
transport `t` and `fd_table[n]` says whose `auth_fde` is registered for the
connection of the n-th framework, so that an event of a transport that is gone is
seen: `EventOnFreed` sets `crashed`, after which adbd does nothing more. A token is
a number; a signature is valid for the token it was made for. The `n`-th framework
has the descriptor `n`. `asked` counts the keys that a framework was asked about and has not
answered, those written to one that had ended included.

External and thus taken from their use: RSA and the key files (a signature is good
when its key is trusted and its token is current), the framework and its user, the
cable. Left out: failures of `/dev/urandom` and of memory, the delay after many
wrong signatures (it changes time, not order), and the steps between `SYNC(0)` and
the removal of a transport, which `Detach` takes at once.

The end of file of a framework (`EventEOF`) changes nothing, as in the code: the
branch that calls itself "Framework disconnect" (adb_auth_client.c:179) tests
`ret < 0`. That branch is taken (`EventError`) when the event of a framework that
ended is read from the descriptor of the next one, and then adbd forgets the one that
is up. `KeyForgotten` is this case and that of a framework that ended before it
answered: nothing asks for the key again, and `ConnectedInTheEnd` excepts them.

### StreamPipe and StreamsImplementPipe

`StreamPipe` has no packets, credits, events or queues. Each side has a descriptor
with four counters (bytes the client put, adb took, adb gave, the client took), and
adb may take at most a window ahead, give only what it took, and close a descriptor
only for a reason; a client that ended nothing, on a link that holds, has been given
everything before its descriptor is closed. The mapping reads the counters off the
socket record; a closing socket counts as open, since its client still sees it so.

### UsbHandle

`pc` is where each thread is in `usb_linux.c`, cut where a lock is released or the
kernel is entered: a reader that released `h->lock` and is not yet in REAPURB is a
state of its own (`"enter"`), in which the SIGALRM of `usb_kick` is lost. `urb[u]` is
the kernel's view of a transfer (free, sent, done); the handle's own flags are in
`handle`. `usb_close` and the removal of a device without permissions take `usb_lock`
and `transport_lock` in opposite orders, and both locks are variables.
`pthread_cond_timedwait` returns a positive ETIMEDOUT, which `usb_bulk_write` does not
take for an error (`res < 0`), so that its wait does not end by time. `Clear` is the
memset of an urb, which `usb_bulk_write` makes before it takes the lock and looks at
`dead`; `clobbered` remembers that one was cleared, or submitted, which the kernel had.
`ReapFails` is a REAPURB that ends with an error other than EINTR. Kernel and user are
external: a transfer may hang, and plugs move at any moment. `Scan` is
`find_usb_device` with `register_device`: it finds a device and puts it on
`handle_list`, or does not; a device that cannot be opened, claimed or described is one
that is not found yet.

### HostServer

`fwd` is listener_list by name, `hooks[t]` the disconnect list of transport `t`; they
are separate in the code and so they are here. `Match` stands for whatever a serial
number, a product or a type can mean: any set of devices. A request is one action,
handled by the main loop without interruption; `wait-for` is a thread with two
steps, the choice under `transport_lock` and the look at its state after it. Use of a
freed transport sets `fault` and ends the behaviour. `list_transports` stops when its
buffer of 1024 bytes is full (transport.c:973): `dev[t].ahead` has the devices before `t`
in the list, and what a tracker gets is any beginning of the list that is all of it or
at least `Lines` devices long. Devices come, change state and
leave as the other modules let them; `Removable` is where `TransportPump` puts the
removal. Requests that answer and change nothing are `CloseSocket`.

### Jdwp

`proc[p]` is the record of a process in adbd, `life[p]` the virtual machine at the
other end of the control socket: it may write its pid in pieces, write something
that is not a number, and die at any point. `conn` remembers every socket pair made
for a debugger, so that one that is closed twice, or never, is seen. Both events of
a descriptor may come in one call of `jdwp_process_event`, and the early returns of
its read half skip the write half. Left out: failing `fcntl` on an open socket, and the
cut of a list that does not fit its buffer (jdwp_service.c:136): 1024 bytes for the
updates of trackers (line 638), some 170 processes, and a packet for the list itself.
`TrackersAreCurrent` speaks of lists that fit.

### ShellService

`tty[s]` is the process and its terminal, `sh[s]` the socket. A number in `exits` is
looked up when it is read, not when it was written. `forced` is the moment between
`ioctl(FIONREAD)` and the read, in which a child of the shell may write. Only shells
take numbers again; other services read through the same handler. The forced read is
`event_read` with `force_eof` set, and `ReadResult` is what it returns: the socket of a
shell has a remote peer, whose enqueue returns 1, and a read that found nothing leaves
-1, so that `force_eof && !r` is never true and streams end by the terminal's EIO.
`OpenFails` is the child that cannot open its end of the terminal (services.c:213). The
terminal was then never opened, so that it never hangs up and its master reads EAGAIN:
the stream stays until the client closes it.

## 3. Runs

Every counter that grows without bound in the code has a bound in the guards, so
that every behaviour comes to an end by running out of it; the runs therefore do
not ask for the absence of deadlock, and the liveness properties say what must not
get stuck.

### What holds

| Run | Shows |
|---|---|
| `streams_one` | One stream, packets of two bytes over a descriptor that buffers one, both kinds of client shutdown, a link that may break at any point. No local socket that reads by its own events ever has two credits (`FlowControl`); bytes are not lost, repeated or reordered (`InOrder`); the write event has a peer (`NeverFaults`); the sweep of the input thread meets sockets nobody works on (`SweepIsQuiet`); a waiting client is dropped silently by the sweep only (`SilentOnlyBySweep`); and the stream implements `StreamPipe` (`IsPipe`). |
| `streams_two` | Two sockets a side, opened from both: no stream crosses another (`Paired`), though packets are routed by `arg1` alone. |
| `streams_live` | Closes reach the other end (`CloseReachesPeer`), what was read is delivered (`ReadIsDelivered`), smart clients get OKAY or FAIL (`SmartIsAnswered`); the credit comes back both from `handle_packet` and from the write event, and a stream does not stall (`WrittenIsRead`: three packets over buffers of one). |
| `pump` | One kick (`KickedOnce`); the input thread ignores nothing (`NothingIgnored`); a transport that lost its device or was kicked is freed (`Released`). Until a client disconnects it, the transport is freed last, and even then the output thread writes only into a descriptor that is open (`FreedLast`). Until a disconnect, too, the sweep starts only when the main loop has taken the transport offline and has no packet of it left (`SweepAfterOffline`). |
| `registry` | Three transports in any order, with disconnects of one or of all TCP transports: pending_list is always well linked in both directions and complete; transport_list is, and no serial is there twice, until the removal of a disconnected transport unlinks it by links that are stale (`again`). |
| `auth` | Three keys, every set of stored ones, the cable plugged in twice, two restarts of the host, a framework that restarts: a retry has its transport; a host that has heard everything shows "device" only when adbd is online; a host with a stored key does not send its public key, up to its first restart (a restarted host may be judged on a token of its predecessor); the host is connected in the end, unless its key was forgotten (`KeyForgotten`). |
| `usb` | A device plugged in and out at any moment, transfers that hang, a REAPURB that fails, another device without permissions: nobody keeps a freed handle (`FreedIsForgotten`), no transfer of a live handle is cleared or submitted while the kernel has it (`UrbsAreOurs`), writes to a device that takes them return though only the reader reaps (`WriteReturns`), and an unplugged device is closed and forgotten unless the two locks meet (`UnpluggedIsClosed`). |
| `host` | A client's requests one after another, a wait-for thread beside them, two devices, two forwards and the server's own port: hooks and forwards agree and lead to devices that are there (`ForwardsHooked`), a listener is taken away only by what concerns it (`NotTakenAway`), the list of a tracker is the current one but for devices behind a full buffer and for the changes that nothing announces (`TrackersTold`; `Unannounced` names them), wait-for returns (`WaitReturns`). |
| `jdwp` | Two virtual machines with one pid between them or none, a queue of two, three debuggers, one client of the list: descriptors are owned once (`OwnedOnce`), passed in order (`PassedInOrder`; that they go to the right process is hardly tried with one pid and rests on the theorem), queues drain (`QueuesDrain`), the list and its trackers are current (`ListFollowsLife`, `TrackersAreCurrent`). |
| `shell` | Two shells that may share a number, one of which may fail to start or to open its terminal: output whole (`OutputWhole`), streams and waiter threads end (`ShellCloses`, `WaiterEnds`). |

### What a comment says and the code does not do

Each of these runs has one property, and TLC finds a behaviour that violates it.
`PROJECT.json` quotes the sentences (`findings`).

| Run | Sentence | What happens |
|---|---|---|
| `streams_closing_loss` (`ClosingIsDrained`) | fdevent.c:642, sockets.c:54, 302 | `fde->events &= (~events)` keeps the pending events that are no longer wanted and drops the others. The stale read event of a closing socket then meets end of file and destroys the socket with its queue unwritten. It takes a client that shut down writing and still reads. |
| `pump_double_close` (`ClosesItsOwn`) | transport.c:593 | `t->fd` is closed twice, and may be somebody else's the second time. |

Others were met while modelling. The models have these behaviours and the properties
above leave room for them:

* A CLSE is answered with a CLSE, with local-id 0 (protocol.txt:156, 163 say
  otherwise): `s->peer` is still set when `A_CLSE` calls `s->close`, and
  `s->peer->peer` is cleared before `remote_socket_close` reads it. Harmless, since
  ids are not reused.
* `close_all_sockets` passes by the notify hook, so that a waiting client is closed
  without FAIL. `SilentOnlyBySweep` says that this is the only way.
* A client that shuts down writing with its request leaves a socket open on the
  device, since it knew no peer to send CLSE to (`CloseReachesPeer` and
  `WrittenIsRead` except it by `told # "FAIL"`).
* The removal of a disconnected transport unlinks it a second time, by links that
  are stale; a transport that was listed in between falls off the list. `ListsIntact`
  says that this is the only way.
* `needs_retry` is not cleared when the host is accepted meanwhile, so that a
  connected host may be asked to authenticate again.
* `auth_fde` is not removed with its transport: the next event of the framework is
  dispatched through freed memory (`crashed` is reachable).
* `unregister_transport` gives back a reference it does not hold (transport.c:1072),
  against transport.c:256. `FreedLast` and `SweepAfterOffline` except it.
* A device without permissions that leaves while another is being closed stops the
  server: usb_lock and transport_lock are taken both ways round.
* A client keeps a bare pointer to the device it chose until its next request
  ("upref it", sockets.c:811, takes no reference), and a wait-for thread looks at a
  device it no longer holds: `fault` is reachable both ways.
* `killforward` of the server's own port is obeyed, while `killforward-all` says
  "Never remove smart sockets." (adb.c:848).
* "jdwp:-1" finds a process that has not written its pid yet (`PassedInOrder`
  allows it).
* SERVICES.TXT:29 promises trackers a new list for every device added or removed and
  every change of state. Nothing is sent when a device goes offline (adb.c:517) or has to
  be authorized (adb.c:542), when a client disconnects it (transport.c:1066), or when one
  without permissions leaves the list (transport.c:1124), which then stays on the
  tracker's until something else changes. `TrackersTold` says that these are all.
* "time out after five seconds" (usb_linux.c:343): the wait returns ETIMEDOUT, which is
  positive, the test is `res < 0`, and the loop waits again. A device that is plugged in
  and takes nothing holds its output thread for ever; without the promise that it takes
  what is written, `WriteReturns` fails.
* The exit notification does not "force close" (fdevent.c:43) a stream whose terminal a
  child of the shell still holds, or whose terminal was never opened. Its read takes no
  notice of a missing credit: when a child writes between FIONREAD and the read, a second
  WRTE goes out before the OKAY for the first (protocol.txt:146).
* A shell that fails to start leaves a thread that steals the exit status of others.
* A tracker of the jdwp list is sent updates without a credit (jdwp_service.c:649);
  `FlowControl` is about local sockets, which read by their own events.
* `usb_bulk_write` clears `urb_out` before it looks at `dead` (usb_linux.c:318, 328): the
  packet after a kick clears a transfer that was discarded and not yet reaped. Nothing
  is submitted. `UrbsAreOurs` speaks of a handle that is not dead.
* A key that was shown by a framework which then ends is not shown again by the next,
  and adbd may forget a framework that is up (`KeyForgotten`).

### Bounds

* Streams: one stream is the unit of flow control, order and close; sockets do not
  share state but for the event batch, which `streams_two` exercises with four
  sockets. In `streams_one` three bytes, payload two, buffer one: a read returns a full
  packet and then a short one, a write stops inside a packet, and a queue forms. Larger
  numbers repeat these cases. `streams_two` has no link failure and one byte a
  device socket, to stay small; crossing is about ids, not bytes. `streams_live` has
  three packets of one byte from the device and one from the host, and clients that
  end by closing; the half-closed ones are in `streams_one`.
* Pump: socketpair of two packets, so that the output thread blocks; three inbound
  packets (CNXN, one packet, garbage); two outbound.
* Registry: three transports, so that one has two neighbours; two serials, so that
  two of them clash.
* Authentication: two transports, frameworks and restarts give old-and-new of each;
  three keys give a first, a middle and a last one.
* USB: one device with threads and one without permissions, one packet waiting to
  be written: each lock has a rival, and a write meets a reader in every state.
* Host: two devices make choices ambiguous and rebinding possible; one connection at
  a time, which may come again, with a wait-for thread that may outlive it. One line fits
  the buffer of a tracker for certain, so that a list of two may be cut and may be whole.
* JDWP: a queue of two and three requests meet the limit; three pieces for a pid of
  two leave something to ignore.
* Shell: two shells and two numbers, so that both run together or one inherits the
  number of the other; two bytes and packets of two, so that a packet may be full,
  or short with the end behind it.

### Fairness

Weak fairness of code that is always ready to run, but for one module.

* `AdbStreams`: a main loop dispatches the batch it has and calls `select()` again
  (`Loop(s)`); the input thread sweeps when it is told to; a client that is
  connected reads what is there. Clients are not asked to write, to close or to
  connect, and the link is not asked to break or to hold.
* `TransportPump`: the main loop and both threads. Nothing of device or user.
* `AuthHandshake`: the two main loops, and from outside two promises without
  which confirmation means nothing: the framework comes up, and the user answers.
  The cable may be pulled and the host restarted at any time, within the bounds.
* `UsbHandle`: the threads; and the kernel takes what is written to a device that is
  there. Nothing has to fail. `usb_close` and the reaping of a finished write are strongly fair: what they
  wait for, `usb_lock` and the kernel, the poll thread and incoming data keep taking
  away and giving back, and neither starves a thread for ever.
* `Jdwp`: the main loop. Virtual machines need not write or end.
* `HostServer`: the wait-for threads.
* `ShellService`: main loop, waiter threads, and a host that answers WRTE with OKAY
  (`WrittenIsRead`). Shells and their children need not end.

## 4. Proofs

Every safety invariant and action property that the passing runs check is proved, and
so is the refinement of `StreamPipe`. The runs find out cheaply whether a formula holds;
the theorems say it of any number of sockets, transports, processes, keys, ids and bytes.

All theorems hold for every value of the constants allowed by the named
assumptions (`MaxIdAssumption`, `PayloadAssumption`, `KeysAssumption`, ...): sizes
are natural numbers, positive where the code divides the world into packets, and
the switches are Booleans.

**`AdbStreamsProofs`, types.** `TypeCorrect` (`Spec => []TypeOK`) includes that adb takes
no more out of a descriptor than was put in, and `ToldBeforeFreed` is
`[]SilentOnlyBySweep`. The inductive invariant is `TypedAndTold`, their conjunction:
neither is needed for the other, but one walk through the handlers proves both. The
argument follows the code's structure: a lemma per C function (`CloseAny`,
`ReadyAny`, `EnqueueAny`, `EventWriteAny`, `EventReadAny`) says what its effect may
be (`EffectOK`: well typed, sends well typed packets, and a socket it frees has lost
its hook); `ApplyOK` lifts an effect to the state; `LoopOK`, `SweepOK`,
`ConnectOK`, `EnvironmentOK` go over the actions.

**`AdbStreamsProofs`, streams.** `OneCreditPerStream` (`[]FlowControl`, about local
sockets that read by their own events), `BytesInOrder`
(`[]InOrder`), `StreamsNeverCross` (`[]Paired`), `NoNullPeer` (`[]NeverFaults`) and
`SweptSocketsAreQuiet` (`[]SweepIsQuiet`). None of these is inductive alone, and they
are so only together: a WRTE may be enqueued because its sender had the credit, the
credit came from the one peer, and the peer is the one because ids are not given out
twice. The invariant `FlowInv` is `TypeOK /\ StreamsOK /\ OfflineOK`. `StreamsOK` is
two copies of `Half`, one for each direction, stated about a pair of socket tables and
a pair of channels so that a lemma proved for one side serves the other:
* `Shape`: what one socket looks like; a socket without a peer has no event and no
  backlog, and a backlog is one packet from its peer;
* `Given`: only ids that were handed out are in use; `TiedOnce`: peers, packets and
  queues tie a socket to one partner; `Unopened`: nothing is tied to a socket before its
  OPEN is handled; `Announced`, `OkayFromPeer`: bytes for an open socket come from its
  peer or behind the OKAY that will bind it, and an OKAY is from the peer;
* `OneCredit`: sent, acknowledged, held or readable, at most one of them;
  `Continues`: the packet under way starts where the receiver stands;
* while the link holds, `PeerKnows` (an open socket with an open peer is known by it,
  or the news is under way) and `Accounted` (every byte taken is written, queued or
  under way).

`OfflineOK` says what `run_transport_disconnects` leaves behind for the sweep. The proof
has three layers. Each of twelve elementary changes (a close, an acknowledgement, a
packet enqueued, a read, an OPEN, a broken link, ...: `EndStep`, `AckStep`, `WrteStep`,
...) keeps `Half` in both directions. Each handler's effect, as the lemmas per C function
give it, is a composition of these (`CloseMove`, `WriteMove`, `ReadMove`, ...). Each action
is a handler and what it applies to.

**`AdbStreamsProofs`, refinement.** `StreamIsPipe` is `Spec => IsPipe` for `MaxId = 1` and
streams that the host opens, which is what the mapping is about: the first socket of each
side, and these belong together. Bytes, payload, buffers, ways of ending and whether the
link may break are free. `PipeOK` has, on top of `FlowInv`, for each direction:
* `Delivered`: what is written, queued or under way to a client was taken from the other,
  and the descriptor holds no more than it can;
* `Begins`: an OPEN comes first, a CLSE from an end that is not open any more, and a
  socket that was not created has no bytes and an unused id (`HostFirst`: the host's is
  created first);
* `Farewell`, while the link holds: who closes has a reason that both ends can see; a
  socket on the closing list whose client did not leave has all the bytes the other end
  took; and a CLSE is behind the last WRTE, or behind nothing.

`Gives(so, so2, ot, up)` says that what a handler did to a socket is a step `Adb` of the
pipe. It is transitive (`GivesTwice`), so a write event followed by a read event, one
action of the code, is one step of the pipe. The window is `FlowInv`'s `OneCredit`: a
socket reads only with its credit, when everything it took before has been written. The
awkward case is a socket on the closing list that reads once more: `fdevent_set` keeps the
pending events that are *not* in the new mask, so FDE_READ survives the close. The bytes
are dropped, and this is harmless only because the other end was ended by its own client,
which is what `Farewell` says of `"R" \in so.pend`.

**`TransportPumpProofs`.** `OneKick` (`[]KickedOnce`), whether or not a client
disconnects the transport: `KickInv` adds that at most one thread is between the lock
and the call, and none once the call was made. `ThreadsOutlived` is `[]FreedLast`,
whose first half is about the time until a client's disconnect. `RefInv` says that, until then,
the count equals the number of threads that have not given their reference back, that
a removal is on its way exactly when it is zero, and that before the threads start the
transport is new or pending. The exception is needed: `unregister_transport` gives
back a reference that is not its own.

`InputIgnoresNothing` (`[]NothingIgnored`) and `SweepFollowsOffline`
(`[]SweepAfterOffline`) are about the order in the two pipes. `LifeInv` ties the
reference count to the threads and to the disconnect, `SyncInv` says that SYNC(1) carries
the current token and is ahead of everything the input thread could drop, and
`OfflineInv` that SYNC(0) is the last thing the output thread sends: when it comes back
to the input thread, nothing is left for the main loop and the transport is offline.

The second half of `FreedLast`, `OutputHasPipe`, has no exception for the disconnect.
`PipeInv` says that while the output thread is in its loop no SYNC(0) is under way and
the input thread is in its loop too, and that a removal is on its way only without
references. Two threads in their loops hold two references, of which the main loop
gives back at most one: the descriptor is not closed before one of the threads leaves,
and the input thread leaves first for no reason.

**`TransportRegistryProofs`.** `ListsStayIntact` (`[]ListsIntact`) and `SerialsStayUnique`
(`[]SerialUnique`). `Ring(k, head, S, m, f)` is the witness that the links `k` hold a list:
`f` numbers its nodes, the head is number 0 and m + 1, the members `S` are the numbers
between, and next and prev lead from each to the one after and before. Unlinking a member
renumbers what follows (`RingUnlink`), linking gives a new last number (`RingLinkLast`),
and the loop of `unregister_all_tcp_transports` is the first repeated along the list.
The walk the code makes, a recursive function, meets exactly the members: a least number
at which it left the numbering would be one after a number at which it had not
(`LeastNumber` again).
The inductive invariant is `RegistryInv`. `LinksOK` says that both lists are rings,
transport_list until a transport is unlinked for the second time by stale links (with
links that are not stale the second unlink assigns what is there), and `Apart` is what
keeps pending_list whole even after that: nothing outside pending_list points into it, so
the stale pointers that a second unlink writes through lead elsewhere. `RegOK` ties the
registration socketpair to the lists: a transport is announced once, while it is pending,
and its removal comes after.

**`AuthHandshakeProofs`.** `AuthTyped`, `RetrySafe` (`[]RetryHasTransport`) and
`ShownOnline` (`[]ShownIsOnline`). The inductive invariant `AuthInv` adds to the
types: what `framework_fd` and the registered fdevents name has connected;
`usb_transport` is null or the present transport; nothing is on the cable without
one; and the *last* packet under way to the host is CNXN only while adbd is online.
The last is why `ShownIsOnline` holds whatever old packets a restarted host finds
on the cable: the host believes the last thing it hears.

`KnownHostIsNotPrompted` (`[]NoNeedlessPrompt`) needs `PromptInv`: up to the first
restart the two sides take turns, so at most one packet is under way, it is about adbd's
current token, and every key before the one on trial has been refused, which only a key
that is not on file is. Old packets of a restarted host break the turns, which is why
the property stops there.

**`HostServerProofs`.** `ForwardsSafe` (`[]ForwardsHooked`), `ListenersStay`
(`NotTakenAway`, an action property) and `TrackersKnow` (`[]TrackersTold`). The
inductive invariant is `LinkInv /\ ClientInv`. `LinkInv` adds to the property that a
listed device has been registered and is not freed, which is why the device that
`acquire_one_transport` picks may be forwarded to. `FreeKeepsLinks` and
`InstallKeepsLinks` say what the two ways of changing a listener do to both lists; the
actions are walked through on top of them. `ListenersStay` reads the reason for a
removal off the same invariant, since a listener that a device takes along is in its
disconnect list and so leads to it. `TrackersTold` is inductive on top of `LinkInv`:
a list that was just made tells enough, cut or not (`ListTells`), and an old one stays
good through every change that is not announced (`StaysTold`).

**`UsbHandleProofs`.** `FreedHandleIsForgotten` (`[]FreedIsForgotten`) and
`UrbsBelongToOneSide` (`[]UrbsAreOurs`). `UsbInv` adds to the types: `RefCounts`, the
count is the number of threads that can still reach the handle, and the one that brought
it to zero holds `transport_lock` until the handle is freed; `Lifetime`, which phases of
the poll thread and the transport go with a handle that is listed or freed; and
`Transfers`, until the handle is dead an urb that the kernel has is one its thread is
waiting for. The last is what makes the second theorem inductive: a writer whose wait
ended early would find its transfer with the kernel. Both are about a handle that is
not dead; on a dead one the code does clear a transfer of the kernel.

**`JdwpProofs`.** `DescriptorsOwnedOnce` (`[]OwnedOnce`), `QueuesAreFair`
(`[]PassedInOrder`) and `TrackersSeeTheList` (`[]TrackersAreCurrent`). `JdwpInv` adds
`Lives` (a process is listed once, exactly while its connection is served, and adbd's
idea of its pid is right or missing) and `Owners` (a queue is in increasing order and
above all that was passed; no two places hold one descriptor; a queued one has a place).
A tracker is shown a list whose places are put in increasing order; that this is
possible (`AscendingType`) is shown by taking a least position at which it fails
(`LeastNumber`, from the well-foundedness of finite subsets), since the library's
induction rules cannot be used.

**`ShellServiceProofs`.** `OutputIsWhole` (`[]OutputWhole`). `ShellInv` adds `Sockets` (a
number belongs to at most one open terminal; an ended stream has carried everything and
has no writer) and `Events` (only open sockets are pending, and the one whose read is
forced is not). That forcing a read changes nothing about what it takes and sends is
`ReadIsUnforced`.

**Only model-checked.** All liveness, which the prover cannot do: `CloseReachesPeer`,
`ReadIsDelivered` and the others of `streams_live`, `ConnectedInTheEnd`, `WriteReturns`,
`WaitReturns`, `QueuesDrain`, `ListFollowsLife`, `ShellCloses`, `WaiterEnds` and what
follows an unplugged or kicked device. The refinement is stated, checked and proved for
one stream; that streams do not disturb each other is `Paired` and `FlowControl`, which
are proved for any number of them.

## 5. Not modelled

* File sync: SEND, RECV, LIST and QUIT are a sequential exchange on one stream, whose
  order and completeness `AdbStreams` is about; the rest is file I/O.
* The command-line client: argument parsing and terminal I/O. The requests it sends
  are the actions of a client in `HostServer`.
* Small services (remount, reboot, root, framebuffer, log, backup) and the connect and
  btconnect threads: straight-line system calls behind a socketpair, with no state that
  outlives them. The threads that accept Bluetooth, TCP and emulator connections: what
  they register is an input of `TransportRegistry`.
* `usb_linux_client.c`, libusb, and the OS X and Windows sources: one blocking read and
  write per thread, or not part of the Linux build that is modelled.
* The platform layer (`sysdeps.h`), including the emulation of events for Windows.
* The Edison adbd: an older copy of the same files, without authentication. Its sockets
  and transports are those of the android copy.
* The vendored trees (bionic, OpenSSL, zlib, the rest of system/core, the build
  system): by far the most lines of the repository and none of its own logic.

## 6. Plan

Models: `LocalTransports` (the accepting threads, the emulator table, the second
Bluetooth connection under the serial "host"); two transports at a time in
`AuthHandshake`; pairs of two local sockets in `AdbStreams`; the room of the socketpair
from the main loop in `TransportPump`, where `send_packet` takes EAGAIN for fatal.

Theorems: `IsPipe` for every stream when there are many, with the device's socket found
through the peers (`TiedOnce` makes the choice unique) instead of by its id.
