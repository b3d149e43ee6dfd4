# ClearCam (iphone-webcam): a TLA+ model of the desktop and the phone

ClearCam turns an iPhone into a webcam. A desktop program (Rust, Tauri) accepts
the phone over Wi-Fi, or dials it over USB; a *control* connection carries JSON
messages and a *media* connection carries frames. This directory models the
parts of both programs in which several tasks, failures and time meet, checks
the models with TLC and proves the main safety results with TLAPS.

All paths are relative to the repository, `app/` standing for
`desktop/crates/app/`, and so on for the other crates.

## 1. Inventory

| Component | State | Operations | Hard because | Modules |
|---|---|---|---|---|
| Application core (`app/src/lib.rs`) | snapshot (watch channel), `outbound` slot, `speedtest_counter` slot, pending-media table, task handles | `AppCore::start`, accept loop, USB consumer, session tasks, media waiters, `set_camera`, `run_speedtest`, `shutdown` | many tasks write three shared cells without owning them | `AppCore`, `Speedtest`, `Shell` |
| Wi-Fi transport (`transport/src/wifi`) | two listeners, one channel of 8 events | accept, forward | the order of a phone's two sockets is not fixed; blocking when full | `AppCore` |
| Handshake (`session/src/handshake.rs`, `pairing.rs`) | one exchange | `accept_control`, `accept_control_usb`, `read_media_hello` | peers that send anything, timeouts, cuts between any two messages | `Handshake`, `Admission` |
| Control plane (`session/src/controlplane.rs`) | sequence number, last receive time | message handlers, keepalive, `broadcast` | `select!` over three sources, bounded channels in a circle, clone-edit-send of shared state | `ControlPlane`, `AppCore` |
| USB supervisor (`app/src/usb_supervisor.rs`, `transport/src/usb`) | known devices, dialed streams (channel of 4) | poll, listen, dial, deliver | devices come and go; consumers are aborted and restarted | `UsbLink`, `AppCore` |
| Pairing store (`app/src/pairing_store.rs`) | map behind a lock, `pairings.toml` | `open_at`, `get`, `put`, `forget`, `list` | crashes, failed writes, concurrent calls | `PairingStore` |
| Live adaptation (`adaptive/src/adaptation.rs`, `app/src/adaptation_driver.rs`) | mode, sample counters, last action | `observe` | two cooldowns, two ladders; long sequences of samples | `Adaptation`, `Bitrates`, `ControlPlane` |
| Mode selection, speedtest (`adaptive/src/select_mode.rs`, `speedtest.rs`) | none | `select_mode`, `evaluate` | boundaries | `ModeSelection`, `Bitrates` |
| Media pipeline (`mediapipeline/`), decoder, sinks | reader, counters, preview throttle | `read_media_frame`, `ingest`, `submit`, speedtest count | two writers and an abort on one byte stream, stale filler, a sink that is awaited | `MediaPath`, `Speedtest` |
| Tauri shell (`desktop/src-tauri`) | the `AppState` lock, event pump | commands | a lock held over a wait for a bounded channel | `Shell` |
| Desktop window (`desktop/ui`) | React state, event listeners | effect, buttons | subscriptions and reads across awaits | `Window` |
| iOS session, transport, pairing (`ios/Sources/ClearCamCore`) | actors | connect, listen, trust, streaming | sockets matched by order, two key stores | `Handshake`, `UsbLink`, `ControlPlane` |
| iOS app, capture, telemetry (`ios/Sources/ClearCamApp`, `ClearCamCore/Capture`, `Status`) | view model, engine, emitter | connect, disconnect | other tasks run at every await | `PhoneApp` |
| Mock iPhone (`desktop/tools/mock-iphone`) | one session | handshake, message loop, ramp, video | filler and video on one stream | `Handshake`, `ControlPlane`, `Speedtest`, `UsbLink`, `MediaPath` |
| Protocol types (`ccp-protocol`) | - | encode, decode | - | as messages and headers in the modules above |

How they interact. A listener sends `WifiServerEvent`s to the accept loop. The
loop runs the handshake inline, fills the pending table and the `outbound` slot
and spawns two tasks: the session (a `ControlPlane`, then the cleanup of both
slots) and the waiter for the media socket, which the loop hands over when its
`MEDIA_HELLO` names the session. The USB consumer does the same for dialed
devices, with the media hello read before the session is spawned. Every session
and both loops write the one snapshot. Telemetry goes from the session to an
adaptation driver, which sends `SET_MODE` back through the session. Sessions send
events to one channel, which the shell's pump empties into the window; the
window's commands take the `AppState` lock that the pump takes too. Frames go from
the media socket through the pipeline to the sinks, or to the counter a speedtest
reads. On the phone
a view model owns a session controller, a capture engine and a telemetry
emitter, each an actor of its own.

Some of this is not reached from the shipped programs yet: `start_usb_supervisor` and
`run_speedtest` on the desktop, `TransportListener` and `UsbSessionDriver` on the phone are
called from tests only. `UsbLink`, the USB side of `AppCore` and `Speedtest` say what they do
once somebody calls them.

`PROJECT.json` lists the hazards of this code line by line, with the properties
that cover them.

## 2. Modules

| Module | Models | Instance |
|---|---|---|
| `AppCore` | listeners, accept loop, USB consumers, sessions, waiters, shared cells | `MCAppCore`, `AppCore.cfg` |
| `Handshake` | the exchange of messages at the start of a connection, both ends | `MCHandshake`, `Handshake.cfg` |
| `Admission` | what that exchange promises: the specification `Handshake` implements | checked in the run of `Handshake` |
| `ControlPlane` | one session after the handshake, with its driver and its phone | `MCControlPlane`, `ControlPlane.cfg` |
| `Adaptation` over `Bitrates` | the adaptation loop and the bitrate tables | `MCAdaptation`, `Adaptation.cfg` |
| `Speedtest` over `ModeSelection`, `Bitrates` | a speedtest over live sessions, and the choice of a mode | `MCSpeedtest`, `Speedtest.cfg` |
| `MediaPath` | the media connection: the phone's two writers, the pipeline, the sinks | `MCMediaPath`, `MediaPath.cfg` |
| `UsbLink` | from the cable to the session, with trust on both sides | `MCUsbLink`, `UsbLink.cfg`, `UsbKeys.cfg` |
| `PairingStore` | the desktop's store of keys | `MCPairingStore`, `PairingStore.cfg` |
| `Shell` | commands, lock, event pump | `MCShell`, `Shell.cfg` |
| `Window` | the React window behind the pump | `MCWindow`, `Window.cfg` |
| `PhoneApp` | the iPhone's view model and what it owns | `MCPhoneApp`, `PhoneApp.cfg` |
| `AppCoreProofs` (with `PairingStore`), `HandshakeProofs`, `ControlPlaneProofs`, `UsbLinkProofs`, `AdaptiveProofs` (`Speedtest`, `ModeSelection`, `Adaptation`), `MediaPathProofs`, `WindowProofs`, `PhoneAppProofs` | inductive invariants and theorems | - |

`PairingStore` and `Adaptation` are proved about in a module that extends another component
as well, so their specification, its parts and their types carry the prefixes `Store` and
`Ladder`. `Options` declares the `None` that `AppCore` and `PairingStore` share.

The modules meet at named places. `AppCore` and `UsbLink` use a handshake by its
outcomes, which are those `Admission` allows. `ControlPlane` is one session of
`AppCore` in detail, and `MediaPath` its media task. `Shell` and `Window` see a session by the events it sends.

Definitions whose comment begins with *Mutant* are faulty variants of the one
that follows. They are used by no specification; each is a plausible bug that
makes a named property fail, which shows that the property can see it.

### AppCore

A connection attempt `c` is a phone that opens its control and its media socket
(`Dial`), or a device the supervisor dials (`UsbDial`). The accept loop and every
USB consumer are records `[pc, conn]`: the await point and the connection served. Each
call of `start_usb_supervisor` (`Starts`) has a supervisor, a channel and a consumer of
its own: it spawns them (`StartUsbSupervisor`), and only then stores the new consumer and
aborts the one stored before (`StoreConsumer`), so that two consumers run for a while.
`shutdown` takes the stored consumer with `try_lock`, and leaves it running when a start
holds that lock. A session task goes `none -> spawned -> running -> ended -> cleared -> done`.

Atomicity. tokio runs tasks in parallel, so an action touches shared state once.
`send_modify` in the loops is one step. The control plane's
`borrow().clone()` ... `send(snap)` is two (`BeginUpdate`, `FinishUpdate`), with
the clone in `copy`. The two slot writes at the end of a session are two steps,
as are a USB consumer's four slot writes, because an abort can fall between.
`Register` is one step: nobody can tell its parts apart before the loop receives
again, and an abort in its middle has the outcome of one just before it.

Abstracted: the handshake's messages (`Handshake`), the reason of a failure,
ports and udids in the snapshot, the telemetry in it (no property reads it; a
`TELEMETRY` still rewrites the whole snapshot), the events channel, at which a session may wait between its
updates and before its end (`ControlPlane` and `Shell` have these waits; here nothing is
assumed of how soon a session goes on), frames, and `set_camera`, which only reads the `outbound` slot. `MEDIA_HELLO`
names its own session, as `HandshakeProofs!MediaHellosMatch` shows.

### Handshake and Admission

A connection has a configuration (transport, kind of client, version, the secret
the desktop expects, the one the phone has), two logs of messages with the number
the other end has read, and the step of each end. The desktop's
`accept_control` and `accept_control_usb` read one message at a time; each read
can time out, fail to decode, or meet another message than the expected one. The
clients are the iPhone (`SessionController.connect`, over USB with the trust
prompt of `UsbSessionDriver`), the mock phone, and a *stray* peer that sends up
to `MaxSent` messages of any kind in any order. A connection can be cut between
any two steps. A secret is a value that is equal or not; versions likewise.

`Admission` says the same without messages: a phone presents its credential, the
desktop admits a connection at most once, under an id of its own, the phone holds
only the session it was admitted to. The mapping in `Handshake` reads
`presented` off the messages sent, `admitted` off the id issued, `over` off the
desktop's step and `held` off the phone's.

### ControlPlane

`run_with_outbound` is a `select!` of three branches: outbound message, keepalive
tick, received frame; what a branch then owes to the events channel is sent one
event at a time (`owed`), and the task takes no branch meanwhile. A frame may
arrive in two parts. `read_frame` reads a length and then a payload and is not
safe to cancel: when another branch wins in between, the bytes read are gone
(`reader` becomes astray). A tick is `KEEPALIVE_INTERVAL`; it passes when the
tasks that can run have run. Ticks that are missed while a branch waits are delivered in a
burst afterwards (`due`). The iPhone answers `PING`, may be suspended, and ignores
`SET_MODE` (`SessionController.swift:234`). The mock phone answers `SET_MODE` with
`MODE_APPLIED` and changes nothing; `applied` is the last mode the session saw confirmed.
Faults are chosen from five kinds, at most
`MaxFaults` in a behaviour, and remembered, so that properties can say what only
a fault explains. Kernel buffers are large enough not to block a send.

### Adaptation and Bitrates

One `observe` is one of five disjuncts: ignored in the cooldown, step down,
lowest already, stable, step up. Time is whole seconds since the last action;
both cooldowns are compared with `>=`, so finer time adds nothing. `drop_count`
only grows during a session, and only its comparison with `last_drop_count`
matters: a sample says whether the counter grew, `behind` whether an earlier
growth is still unrecorded. The round trip time is zero, low or above twice the
average (the wiring in `app/src/lib.rs` passes 0.0; the model allows all three).
The bitrate table and both ladders are exact. `missed` is a history variable.

### PairingStore

A call takes the write lock, changes the map, makes the text (`Update`, no await
in between), writes the temporary file, renames it. Writing and renaming can
fail; the call then returns an error and memory stays ahead of the file, as in
the code. `Crash` ends the process at any point; `Open` reads the file again.
`promised[u]` is the set of values a caller must reckon with for device `u`: the
one of the last successful call and those of later calls that failed or were cut
off. A crash is one of the process; the page cache survives it.

### UsbLink

One phone is plugged in up to `MaxPlugs` times. A backend either polls (the
`subscribe` of the conductor trait, whose ids may come back) or follows usbmuxd
(an id of its own for every attachment). A supervisor takes an event, opens the
control port, opens the media port, and hands the pair to the consumer; the cable,
a refused port or an abort can come between any two of these. Up to two
supervisors run: a second `start_usb_supervisor` starts its own (`StartSupervisor`) and
then aborts the first consumer (`AbortConsumer`), not the first supervisor, which ends when
its next hand-over fails. On the phone, `TransportListener` matches the oldest control
and media connection, `UsbSessionDriver` runs the handshake with the key it finds
or asks the user. Keys are numbers; a draw gives a new one. `faults` counts what
came between, so that `PairedPhoneServed` can speak of an undisturbed start.

### Speedtest and ModeSelection

`run_speedtest` reads the `outbound` slot, then the counter slot, drains the
counter, sends `SPEEDTEST_START`, waits and aggregates; each is an action, and
sessions replace each other between them. A `SPEEDTEST_START` that reached the phone is
read there even when its session has ended on the desktop. The phone's ramp tasks and its video
share a stream; a frame is its sequence number, and `own`, which no code
sees, remembers what it was made for. Sequence numbers wrap at `SeqSpan` and are
filler from `SeqBase` on, as `u32` and `0xFFFF0000` in the code. A frame counts
when it is read, whenever that is: times of arrival are not modelled. Frame sizes,
frames per step and the 85 % rule of `evaluate` are exact, as is `select_mode`
(floats as fractions, rounded down where the code casts).

### MediaPath

The stream is a sequence of units, two for a header and `len` for a payload, so that
a write, a read and an abort can fall inside a frame. The video generator and the ramp
of the mock phone write under the connection's lock (`Lock`, `Write`); the end of a
session aborts the generator wherever it is and frees the lock (`EndSession`), while a
failing control send leaves it running (`AbandonSession`). The pipeline reads exactly a
header and then exactly a payload, refuses what it cannot decode or what is too long,
and goes on after a frame it cannot ingest. Filler is told by the sequence number alone
(`marker`), which a video frame may have too. A header put together from two frames gives
any length, size and number (`Mixtures`). `PreviewSink::submit` is the step `encode`: the pipeline
reads nothing until the encoder is done. Pixels and the flags that nothing on the way
reads are left out. A unit names the frame it is a part of; the reader does not look at
that, only the properties do.

### Shell

The commands `start_server`, `stop_server`, `get_snapshot` and `set_camera` against
the pump, the events channels and the outbound channels, all counted, not listed. A server
has any number of sessions at a time, each with its own outbound channel; the last one to
connect has the server's slot, and any that ends empties it. A phone may stop reading:
`control.send` has no timeout, and its session is `stuck` until the phone goes on, which it
need not. The
pump takes the `AppState` lock for a moment to find a receiver and waits there
without it. `set_camera` keeps the lock while it sends. `CameraWaits` names the waits that
can then last for ever: the session writes to a phone that does not read; or it waits for
its events channel, which is not emptied because the pump waits for the lock (a circular
wait) or in another, stopped server.

### Window

The window runs on one thread; an await is a place where events, clicks and other
runs of the effect come in. `effect` is what the current run awaits, `stale` are
runs that were cleaned up and go on subscribing, `leaked` the listeners they leave. A
listener hears events from its registration on, which is before its `listen` resolves
(`Unresolved`): a cleanup in between does not know it, and it is leaked.
`missed` and `foreign` are histories: kinds of events that found no listener, and
whether what is shown came from another server than the current one.

### PhoneApp

`ConnectViewModel.connect` and `disconnect` are cut at every await. An attempt has a
number that also names its controller, engine and emitter; `tap` is a disconnect
and what it awaits. A send after the desktop left may still succeed, and fails later. `overlap` is a history: what came between in a connect, early
(before it had a controller, or another connect) or late.

## 3. Runs

| Run | Bounds | Shows |
|---|---|---|
| `wifi_and_usb` | 1 Wi-Fi, 1 USB, channels of 1, `DEVICE_INFO` and `CAMERA_LIST`; USB side started twice, stopped anywhere | `ReadyHasSession`, `OutboundNotFinished`, `SoleSourceConsistent`; `EveryControlServed` |
| `adaptation_ladder` | 4 initial modes, counters to 4 | `BitrateInRange`, `LadderIsMonotone`, `DropsAnswered`; `LadderSettles` |
| `pairing_durable` | 2 calls, 2 devices, 1 key (so put and forget differ) | `PromiseKept` |
| `handshake` | 2 connections, 2 ids, 2 secrets, 2 versions, 2 messages of a stray peer | `Agreement`, `MediaHelloMatches`, `RefusedForCause`; `ConnectReturns`; `ImplementsAdmission` |
| `control_plane` | channels of 1, 2 frames upward, dead after 3 ticks, 2 modes, 1 kind of fault | `EndsForAReason`, `ModesConfirmed`; `DriverProceeds`, `SilentPhoneNoticed` |
| `usb_link` | 2 plugs, 2 dials, 2 keys, 1 fault, channel of 1 | `OnlySharedKeysServe`; `NewAttachmentDialed`, `PairedPhoneServed` |
| `speedtest` | 2 sessions, 2 calls (symmetric), ramp of 2 steps, 2160p frames, 1 frame on the wire, 2 video frames, 1 lost connection; the default ramp at 24 frame sizes | `ForeignArrivalsExplained`, `WholeRampSustained`, `MoreGoodputNeverWorse` |
| `shell` | 2 servers, 2 sessions of either, channels of 1, 2 clicks, 1 phone that stops reading | `SnapshotAnswered`, `BlockedGoesOn` |
| `window` | 1 server, 2 sessions, 1 camera list each, 1 click, channel of 1 | `WindowAgrees`, `ChoiceKept` |
| `phone_app` | 2 connects, 2 disconnects | `SessionUnderControl`, `CameraOffAtRest`, `EmitterOffAtRest`; `ConnectReturns` |
| `media_path` | pictures of 2 units, frames of at most 3, room for 3, 2 video and 3 filler frames, 8 headers | `FramesAsWritten`, `ExitsForAReason`; `WritersProceed` |
| `usb_keys` | as `usb_link` | refutes `SameKeyOnBothSides` (see below) |

Why the bounds are enough. Every shared cell (slot, snapshot, counter, view model,
temporary file) holds one owner, and each bad case needs one writer that is stale
and one that is current: two of each suffice. The channels of the code hold 4 to
64 entries; with room for one they fill up, which is the only thing that tells
sizes apart. In `handshake` the first connection is of any kind and the second the
mock phone with the right key over USB: two are needed only for ids and hellos
to be confused, and the theorems cover any number. `DeadAfter = 3` is the ratio of
the code's two intervals (2 s and 6 s). In `control_plane` and `usb_link` one kind
of fault at a time shows what it alone explains; more would let one excuse the
effect of another. In `speedtest`, `SeqBase = 1` and `SeqSpan = 3` let two video
frames reach the filler's range. In `media_path` the headers are one of each case the
pipeline tells apart (raw, raw with odd sides, raw numbered like filler, raw of another
size, a configuration, a
coded frame, too long, of an unknown type), a torn frame and the filler after it lie on
both sides of every boundary, and the connection is shorter than a frame.
`EveryControlServed` with one Wi-Fi phone has the hard case, which is circular: the
accept loop waits for a media hello, the phone for the handshake queued behind it, and
only the timeout opens it. `WholeRampSustained` and `MoreGoodputNeverWorse` are about pure
functions and are evaluated over their grids; the theorems cover every input.

Every module states its types and limits in `TypeOK` (`StoreTypeOK`, `LadderTypeOK`). It is proved for all modules but
`Speedtest` and `Shell`, where it holds on the instances above; the configurations
list the properties of the system's behaviour, and `TypeOK` can be added to any of them.

Deadlock is checked for `Adaptation` and `PairingStore`. In the others connections,
calls, plugs or clicks are finite, so the system comes to rest.

### The refuted statement

`docs/03-protocol.md:64-66`: after the user confirms, one long-lived `pairingKey` is
kept on both sides and later USB connections come up by themselves. In the code each
side draws a key of its own (`commands.rs:137`, `TrustController.swift:35`) and no
message carries it: the keys differ, and the next handshake is refused.
`OnlySharedKeysServe` is the other side of it: the desktop serves no key but its own, so no
session with an iPhone ever starts; `NoIPhoneServed` proves that, for any number of keys,
plugs and dials.

### Known limits of the code

These behaviours are in the models. Where a property of the same matter holds, it does so
because it names the case and excuses it: it shows that nothing else goes wrong there, and
is no evidence against the case itself. That is so of `SoleSourceConsistent` (two sources,
an aborted consumer), `NewAttachmentDialed` (the same id between two polls),
`PairedPhoneServed` (failed dials, trust and forget), `ForeignArrivalsExplained` (video in
the filler's range, slots of two sessions), `MoreGoodputNeverWorse` (the fallback),
`SnapshotAnswered` and `BlockedGoesOn` (the waits below), `WindowAgrees` (missed events),
`ChoiceKept` (the leaked listener), `SessionUnderControl` (a disconnect during the opening),
`EmitterOffAtRest` (a stop overtaken by the start), `ExitsForAReason` (torn frames, refused
headers) and the `ConnectReturns` of both ends (a link that is dead without being closed).

Statements of the repository that the code does not keep:

* `adaptive/src/adaptation.rs:5-6`: step-up is cautious, "4 consecutive stable samples + 5 s
  cooldown". A congested sample in the step-down cooldown returns early and does not reset
  the count (`:57`), so the four need not be consecutive.
* `docs/06-adaptive-engine-and-speedtest.md:109-112` gives cooldowns of 5 s after a step down
  and 8 s after a step up; the code has 2 s and 5 s. The model follows the code.
* `docs/03-protocol.md:234`: an unknown `t` on the control connection is ignored and logged.
  The code fails to decode it and ends the session (`session/src/controlplane.rs:144`); one
  message of a newer phone disconnects it.
* `app/src/lib.rs:95`: "Calling this a second time aborts the previous supervisor +
  consumer." Only the consumer is aborted (`:224`); the supervisor runs on and dials until
  its next hand-over fails, so that a device may be dialed twice.
* `docs/03-protocol.md:64-66` on the pairing key: see above.

And behaviours worth knowing:

* An old session's cleanup empties the `outbound` slot of a newer session
  (`app/src/lib.rs:573`); the media waiter may fill the counter slot after the
  cleanup (`:534`). `SoleSourceConsistent` therefore speaks of one source.
* A media socket taken before its control socket times out and the session runs
  without media (`:588`).
* Failing and ending connections overwrite the snapshot of a running one (`:579`);
  a pairing-store error leaves it at `UsbHandshake` (`:134`).
* `shutdown` leaves listeners and sessions running (`:80`), and entries of the
  pending table stay until then (`:521`).
* The last step down resets the bitrate upwards (`adaptive/src/adaptation.rs:138`).
* The temporary file is not synced before the rename
  (`app/src/pairing_store.rs:147`): a power loss is outside the model.
* A `select!` may tear a frame (`session/src/controlplane.rs:141`), after which the
  session ends or hears nothing.
* `SET_MODE` changes no picture: the iPhone ignores it (`SessionController.swift:234`), the
  mock answers it and goes on as before (`tools/mock-iphone/src/lib.rs:312`).
* `set_camera`, a session and the pump can wait for each other for ever
  (`src-tauri/src/commands.rs:90`), and the pump waits in a stopped server as long as
  its session lives (`events.rs:37`). `control.send` has no timeout
  (`session/src/controlplane.rs:118`): a phone that never reads again keeps its session,
  then `set_camera`, and with it the `AppState` lock.
* The window misses events between its snapshot and its listeners, and leaves
  listeners behind (`ui/src/App.tsx:55`, `:80`).
* On the phone, a disconnect during the TCP opening, or two connects at once, leave a
  session behind the QR scanner (`ConnectViewModel.swift:61`, `:64`); a stop can be
  overtaken by the emitter's start (`:111`); a second trust prompt leaves the first
  waiting (`TrustController.swift:26`). A `SET_CAMERA` applied while `CAMERA_LIST` is being
  sent sets `activeCameraId` without starting the engine, and the start is then skipped
  (`SessionController.swift:95`): the camera stays off.
* `PreviewSink::submit` awaits the JPEG encoder (`src-tauri/src/preview.rs:45`) and the
  pipeline awaits `submit`, although `sink/src/sink_trait.rs:5` asks for sinks that do
  not block: a phone whose connection is full waits for the preview. `WritersProceed`
  shows that the wait ends.
* Aborting the generator in the middle of a write lets the ramp's bytes into a frame
  (`tools/mock-iphone/src/lib.rs`), after which the pipeline hands on one mixed frame at
  most and may then stop.
* A speedtest divides all that arrives in its whole wait by the length of one step
  (`app/src/lib.rs:302`). The frames of a step are rounded down (`adaptive/src/speedtest.rs:101`):
  with large frames (4032x3024; 4096x2160, where the last step is 3 frames, 637 of the 680
  Mbit/s that count as sustained) the top step is never reached, however good the link.
* Video whose sequence numbers reach `0xFFFF0000` goes to the speedtest counter
  (`mediapipeline/src/pipeline.rs:41`).

### Fairness

* `AppCore`: the listeners and the accept loop run when they can (weak fairness of each step);
  the 5 s timeouts end every read of a handshake or hello. Nothing of phones, and nothing of
  sessions, which may wait at their events channel.
* `Handshake`: both ends go on when they can; every read of the desktop ends by its
  timeout at the latest.
* `ControlPlane`: weak fairness of the session, the driver's computation, the phone
  and time; strong fairness of the outbound and keepalive branches, because `select!`
  polls its branches in random order, and of the driver's send, because a tokio
  channel serves its senders in turn. Nothing of the fault actions, nor of the reader
  of events once it stalls.
* `MediaPath`: weak fairness of the pipeline, a task that runs whenever it can (the encoder
  it awaits ends), and of a writer that has the lock.
* `UsbLink`: weak fairness of the two programs together; nothing of user or cable.
* `Shell`: weak fairness of the pump and of a waiting `get_snapshot`; strong fairness of the
  sends to tokio channels, which serve their senders in turn, and of a session's outbound
  branch, because `select!` polls its branches in random order. Nothing of the phones: one
  that stopped reading may never go on.
* `PhoneApp`: weak fairness of a disconnect and of a connect, except for the TCP
  opening and an open handshake, which may wait for ever.
* `Adaptation`: time passes and telemetry keeps coming.
* `PairingStore`, `Speedtest` and `Window`: none.

## 4. Proofs

For any sets of connections, any capacities and any number of starts (`AppCoreProofs`):

* `TypeCorrect`, by itself inductive.
* `NoReadyWithoutSession`. Not inductive alone: a session that is about to write
  back a clone with Ready must still be running when it does. `Order` gives that:
  a control socket is in one place of backlog, channel and loop and is served
  once (`ControlOnce`, `LoopServes`, `UsbOnce`, `UsbServes`), so a session is
  spawned once per connection, and an update in progress pins its session's
  state (`SessionOrder`).
* `NoFinishedOutbound`: who fills the slot has no session yet, again by `Order`.
* `SoleSource`: needs that a USB consumer's half-filled slots are its own
  (`SoleSlots`) and that clones held by sessions only name dialed connections
  (`SoleShown`).

For any calls, devices and keys that can be told apart (`AppCoreProofs`, which extends
`PairingStore` too): `StoreTypeCorrect`, `CrashAtomic`, `Durable`, `MemoryIsSaved` (memory
and file agree between calls unless the last save failed), from mutual exclusion
(`Exclusive`) and the fact that the text, and then the temporary file, of the holder is the
map in memory (`SavesMemory`).

For any number of sessions and calls of `run_speedtest`, any ramp, and any space of
sequence numbers that the ramp fits in (`AdaptiveProofs`): `ForeignExplained`. The counter
does not tell whose frame it counted, so the invariant follows a frame before it arrives.
`Started` says that a start, a ramp task or a filler frame belongs to a call that was sent
to that session; `RivalsKnown` that every other ramp which can still bring frames to a
counter under measurement is among its rivals, because it was outstanding when the counter
was drained or started later; `VideoNumbered` that a video frame carries a filler's number
only after as many frames; `ArrivalsExplained` is the property for counters that are still
being filled. A step of the pipeline then moves an explained frame from wire to counter.

For any finite list of camera modes, transport, limits and goodputs (`AdaptiveProofs`):
`NeverWorse`, that `select_mode` never answers more goodput with a worse mode. The
candidates only grow (`CandidatesGrow`, from integer bitrates and the monotone headroom), and
the key's order is strict (`BelowStrict`), so that a finite list of candidates has a best
one (`BestExists`) and the fallback does not come back. `MoreIsNotWorse` is the grid of the
run. `RampSustained`: for every frame size of which six fit in the top step, the default
ramp delivered whole is measured at 85 % of its top or more. A step that arrives whole
carries its frames (`StepArrives`), rounding down loses less than one frame of at least six,
and `evaluate` answers with no less than the top step (`EvaluateAtLeast`).
`WholeRampIsSustained` is the run's grid.

For any initial modes in range (`AdaptiveProofs`, which extends `Adaptation` too):
`LadderTypeCorrect`, `TargetFits` (no overflow in the table or in
`* 3 / 4`), `BitrateStaysInRange`, `LadderMonotone`, `NoDropForgotten` (from
`missed => behind`). Rates are taken to be at
most 240.

For any headers, lengths, room and numbers of frames (`MediaPathProofs`): `TypeCorrect`,
`FramesFound`, `ExitsExplained`. The pipeline has no frame boundaries to go by: it takes the
units of the connection as they come and counts. The invariant therefore describes the
stream as one sequence of units, cut at a tear `(t, p)`: only `p` units of the `t`-th frame
were written when the generator was aborted, or `t = 0`. `Follows` says which unit
comes after which; the connection (`Chained`), the pipeline's header buffer (`AtHeader`) and
its payload buffer (`AtPayload`) hold consecutive units and join each other and the writer.
Before the tear the pipeline is at a frame's first unit whenever it starts on a header, and
has handed on exactly the frames before (`HandedOn`); a payload that runs past the tear
(`Past`) is mixed, and nothing behind it is whole with a number already handed on. The
neighbourhood of units stands in for an induction over the byte stream.

For any connections, ids, secrets and versions (`HandshakeProofs`): `TypeCorrect`,
`Accepted`, `Agree`, `MediaHellosMatch`, `Refused`, and `Refines`, the refinement of
`Admission`. The inductive invariant `IInv` is `TypeOK`, that session ids are
distinct, and for each connection how far each end can be for what the two logs hold:
`ServerInv` (an answer for every message read, what has been read at each step, an
`AUTH_OK` only of an accepted connection), `PhoneInv` (what has been sent and heard at
each step, and that a session id held is the one issued), `StrayInv` and
`RefusedInv`. The properties alone are not inductive: they speak of ends that are
done, and a step that finishes needs to know what the earlier ones left in the logs.
A step touches one connection, so the proof treats the step and then the
others (`Same`). The refinement needs two more facts: a credential once
presented stays presented, since logs only grow, and an id held is the one issued.

For any interval, capacities, modes and faults (`ControlPlaneProofs`): `TypeCorrect`,
`SessionsEndForAReason`, `ModesConverge`. `EndsForAReason` is not inductive: that a live
phone is not declared dead depends on what is still on the wire. `Heard` says it: unless
the session was disturbed, the last frame is at most one tick old, a phone that spoke
since is heard by the next, and a phone that closed has its `BYE` still in the
connection. `Blamed` ties everything odd (a torn reader, a full events channel, a phone
asleep) to the fault that caused it. For `ModesConfirmed`, `Follows` says where the
driver's mode is: with the driver, last in the outbound channel, the latest on the wire to
the phone, the latest `MODE_APPLIED` on the way back, or confirmed. The proof needs that
names of modes are not those of the other things these places hold.

For any number of plugs, dials, keys and faults (`UsbLinkProofs`): `TypeCorrect`,
`NoIPhoneServed`, that `OnlySharedKeysServe` is an invariant. The keys are the heart:
`Drawn` says that no end holds a key that was not drawn, in a store, in a consumer's copy, in
a driver or being saved, and `Apart` that an iPhone and the desktop hold none in common in
any of these places, whatever is trusted, forgotten or redialed meanwhile; so no consumer
gets past an iPhone's handshake (`IPhoneUnserved`). `Dialing` and `Prompted` say which dial
and which driver a step is about. The types do not bound a backend's queue of events: the code's channel holds 16,
the model has room for any number, and a backend that waits at a full one is outside it.

For any number of connects and disconnects (`PhoneAppProofs`): `TypeCorrect`,
`SessionsControlled`, `CameraOff`, `EmitterOff`. The three properties speak of rest or of
an open session; in between, `Shown`, `Ended`, `Engines` and `Undisturbed` say for every
attempt that nothing overlapped whose controller, engine and emitter the view model has
at each await, and which disconnect is about it. They need that attempts in use together
are all marked (`Exclusive`) and that nothing exists before its await was reached
(`Fresh`, `Reached`, `Known`).

For any number of servers, sessions, lists and clicks, and any capacity
(`WindowProofs`): `TypeCorrect`, `WindowInStep` and the action property `CameraChosen`.
`WindowAgrees` speaks of a window at rest. Its invariant follows an event on its way:
what a session has still to send (`Scripted`); the last event in the channel tells what
the snapshot says (`Told`); and with none on its way and none missed, the window, or the
snapshot its effect is about to show, says it too (`Settled`), for the state and for the
device apart. `Numbered` keeps old servers, whose channels the pump may still empty, out
of it, and `Unserved` covers the window without a server.

Each inductive invariant was checked by TLC on the instance of its run before it was
proved, that of `MediaPath` with the tear looked for among finitely many places.

Only model-checked: liveness, the refutation, `Speedtest!TypeOK`, which is about sums over a
bag of frames, and `TypeOK` of `Shell`, whose properties are liveness only. TLAPS as used
here has no fairness reasoning and no induction over data.

## 5. Not modelled, and what is left

Left out for good: pixels, rendering, camera and codec hardware, JSON layout and byte
order, the keychain, TLS, the transport selector (three cases that nothing calls),
`Reconnect` on the phone (never called), the QR scanner view, the speedtest panel, the
list of USB devices and the trust dialog of the window, power loss, the arguments and
pictures of the mock phone.

Left for later: arrival times in the speedtest; `SET_CAMERA` on the phone with two clicks
under way.
