------------------------------- MODULE Window -------------------------------
(***************************************************************************)
(* The desktop window (desktop/ui/src/App.tsx, CameraPicker.tsx), composed *)
(* with the events it hears: sessions publish a snapshot and send events   *)
(* to their server's channel, the pump (src-tauri/src/events.rs) takes     *)
(* them to the window in order, and the window, which runs on one thread,  *)
(* reads the snapshot and subscribes again each time activeCameraId        *)
(* changes.                                                                *)
(*                                                                         *)
(* A server has one session at a time; what a second phone does to the     *)
(* snapshot is AppCore's subject, the lock of the commands and the limits  *)
(* of the channels are Shell's.  Telemetry, which the window only shows,   *)
(* is left out.                                                            *)
(***************************************************************************)
EXTENDS Naturals, Sequences

CONSTANTS
    MaxServers, MaxSessions,   \* bounds: start_server calls, sessions
    MaxLists, MaxClicks,       \* bounds: CAMERA_LISTs of a session, clicks on a camera
    EventCap                   \* capacity of the events channel (64)

ASSUME WindowAssumption ==
    /\ MaxServers \in Nat /\ MaxSessions \in Nat /\ MaxClicks \in Nat
    /\ MaxLists \in Nat \ {0} /\ EventCap \in Nat \ {0}

Servers == 1 .. MaxServers
NoServer == 0
None == "none"                     \* no device, no active camera
Cameras == <<"c1", "c2">>          \* those of a CAMERA_LIST
CameraIds == {Cameras[i] : i \in DOMAIN Cameras}
Devices == {None, "bare", "cams"}  \* a DeviceSnapshot before and after its CAMERA_LIST

\* The events the control plane sends for a message.
Script == [device  |-> <<"device:bare", "state:ready">>,
           cameras |-> <<"device:cams">>,
           bye     |-> <<"state:closed", "closed">>,
           lost    |-> <<"state:lost">>]
StateEvents == {"state:ready", "state:closed", "state:lost"}
Events == StateEvents \cup {"device:bare", "device:cams", "closed"}

VARIABLES
    handle,      \* AppState: the running server, or NoServer
    started,     \* servers so far
    pump,        \* the server in whose receiver the pump waits, or NoServer
    session,     \* per server: "none", "run", "over"
    sessions,    \* sessions so far
    told,        \* DEVICE_INFO and CAMERA_LISTs its session sent
    todo,        \* events its task sends before its next select!
    chan,        \* events in the server's channel
    snap,        \* the server's snapshot
    ui,          \* the window: state, device, active camera, qr shown, stop_server awaited
    effect,      \* what the effect's run awaits
    got,         \* the snapshot on its way to that run
    stale,       \* runs that were cleaned up and go on subscribing
    leaked,      \* listeners nothing will remove
    clicking,    \* cameras of set_camera calls on their way
    clicks,      \* clicks so far
    missed,      \* history: kinds of events since the last snapshot that found no listener
    foreign      \* history: what the window shows comes from another server than handle

core == <<session, sessions, told, todo, chan, snap>>
run == <<effect, got, stale, leaked>>
history == <<missed, foreign>>
vars == <<handle, started, pump, core, ui, run, clicking, clicks, history>>

IdleUi == [state |-> "idle", device |-> None, active |-> None, qr |-> FALSE, stopping |-> FALSE]
IdleSnap == [state |-> "idle", device |-> None, server |-> NoServer]

Init ==
    /\ handle = NoServer /\ started = 0 /\ pump = NoServer
    /\ session = [k \in Servers |-> "none"] /\ sessions = 0
    /\ told = [k \in Servers |-> 0]
    /\ todo = [k \in Servers |-> <<>>] /\ chan = [k \in Servers |-> <<>>]
    /\ snap = [k \in Servers |-> [state |-> "listening", device |-> None]]
    /\ ui = IdleUi /\ effect = "ask" /\ got = IdleSnap
    /\ stale = {} /\ leaked = {} /\ clicking = {} /\ clicks = 0
    /\ missed = {} /\ foreign = FALSE

-----------------------------------------------------------------------------
(* Sessions. *)

Receivable(k) == handle = k \/ pump = k

\* Mutant: the end of a lost connection is told, but not published.
PublishedNotLost(k, m) ==
    CASE m = "connect"     -> [snap[k] EXCEPT !.state = "ready"]
      [] m = "device:bare" -> [state |-> "ready", device |-> "bare"]
      [] m = "cameras"     -> [snap[k] EXCEPT !.device = "cams"]
      [] m = "bye"         -> [snap[k] EXCEPT !.state = "closed"]
      [] OTHER             -> snap[k]

\* The snapshot once a message is handled.  It is published before the event that tells
\* of it, but for a device, which is told first.  The device outlives its session.
Published(k, m) ==
    CASE m = "connect"     -> [snap[k] EXCEPT !.state = "ready"]
      [] m = "device:bare" -> [state |-> "ready", device |-> "bare"]
      [] m = "cameras"     -> [snap[k] EXCEPT !.device = "cams"]
      [] m = "bye"         -> [snap[k] EXCEPT !.state = "closed"]
      [] m = "lost"        -> [snap[k] EXCEPT !.state = "lost"]
      [] OTHER             -> snap[k]

\* A phone is accepted.
Connect(k) ==
    /\ handle = k /\ session[k] # "run" /\ sessions < MaxSessions
    /\ session' = [session EXCEPT ![k] = "run"]
    /\ sessions' = sessions + 1
    /\ told' = [told EXCEPT ![k] = 0]
    /\ todo' = [todo EXCEPT ![k] = <<"state:ready">>]
    /\ snap' = [snap EXCEPT ![k] = Published(k, "connect")]
    /\ UNCHANGED <<handle, started, pump, chan, ui, run, clicking, clicks, history>>

\* A message, BYE and the end of the connection included.  The phone sends DEVICE_INFO,
\* then CAMERA_LIST, which an iPhone sends again when its camera is wired.
Receive(k, m) ==
    /\ session[k] = "run" /\ todo[k] = <<>>
    /\ m = "device" => told[k] = 0
    /\ m = "cameras" => told[k] \in 1 .. MaxLists
    /\ todo' = [todo EXCEPT ![k] = Script[m]]
    /\ snap' = [snap EXCEPT ![k] = Published(k, m)]
    /\ told' = IF m \in {"bye", "lost"} THEN told ELSE [told EXCEPT ![k] = @ + 1]
    /\ UNCHANGED <<handle, started, pump, session, sessions, chan, ui, run, clicking, clicks,
                   history>>

\* An event goes to the channel, once there is room, if somebody has its receiver.
SendEvent(k) ==
    /\ todo[k] # <<>> /\ (Receivable(k) => Len(chan[k]) < EventCap)
    /\ LET ev == Head(todo[k]) IN
       /\ chan' = IF Receivable(k) THEN [chan EXCEPT ![k] = Append(@, ev)] ELSE chan
       /\ snap' = [snap EXCEPT ![k] = Published(k, ev)]
       /\ session' = IF ev \in {"closed", "state:lost"} THEN [session EXCEPT ![k] = "over"]
                                                        ELSE session
    /\ todo' = [todo EXCEPT ![k] = Tail(@)]
    /\ UNCHANGED <<handle, started, pump, sessions, told, ui, run, clicking, clicks, history>>

-----------------------------------------------------------------------------
(* The effect that reads the snapshot and subscribes. *)

\* Subscriptions in order.
Kinds == {"state", "device", "closed"}
After(at) == CASE at = "state" -> "device" [] at = "device" -> "closed" [] at = "closed" -> "on"
Registered(at) == CASE at \in {"ask", "read", "state"} -> {} [] at = "device" -> {"state"}
                    [] at = "closed" -> {"state", "device"} [] at = "on" -> Kinds

\* A listener keeps the activeCameraId of the run that made it; only that of device
\* events looks at it, and only whether there is one.
Listener(kind, none) == [kind |-> kind, none |-> none /\ kind = "device"]
Listeners == leaked \cup {Listener(kind, ui.active = None) : kind \in Registered(effect)}
Hears(kind) == \E l \in Listeners : l.kind = kind

\* The listener registered last: the listen that awaits it may still have to resolve.
Unresolved == {Listener(kind, ui.active = None) : kind \in {k \in Kinds : After(k) = effect}}

\* activeCameraId becomes id.  The clean-up removes the listeners whose listen has resolved
\* and a new run starts.  The old one returns if its snapshot is still to come; past that
\* it goes on, and what it registers then is never removed.
SetActive(id) ==
    IF id = ui.active THEN UNCHANGED run
    ELSE /\ effect' = "ask" /\ got' = IdleSnap
         /\ stale' = IF effect \in Kinds
                     THEN stale \cup {[at |-> effect, none |-> ui.active = None]} ELSE stale
         /\ \E late \in SUBSET Unresolved : leaked' = leaked \cup late

\* get_snapshot answers with the handle's snapshot, or an idle one.
SnapshotRead ==
    /\ effect = "ask"
    /\ effect' = "read"
    /\ got' = IF handle = NoServer THEN IdleSnap
              ELSE [state |-> snap[handle].state, device |-> snap[handle].device,
                    server |-> handle]
    /\ missed' = {}
    /\ UNCHANGED <<handle, started, pump, core, ui, stale, leaked, clicking, clicks, foreign>>

\* The answer reaches the window.
SnapshotShown ==
    /\ effect = "read"
    /\ ui' = [ui EXCEPT !.state = got.state, !.device = got.device]
    /\ effect' = "state" /\ got' = IdleSnap
    /\ foreign' = (got.server # handle)
    /\ UNCHANGED <<handle, started, pump, core, stale, leaked, clicking, clicks, missed>>

\* An awaited listen registers its listener; it resolves later, before the next is called.
Subscribe ==
    /\ effect \in Kinds
    /\ effect' = After(effect)
    /\ UNCHANGED <<handle, started, pump, core, ui, got, stale, leaked, clicking, clicks, history>>

\* The same in a run that was cleaned up.
SubscribeStale(r) ==
    /\ r \in stale
    /\ leaked' = leaked \cup {Listener(r.at, r.none)}
    /\ stale' = (stale \ {r}) \cup (IF r.at = "closed" THEN {}
                                    ELSE {[r EXCEPT !.at = After(r.at)]})
    /\ UNCHANGED <<handle, started, pump, core, ui, effect, got, clicking, clicks, history>>

-----------------------------------------------------------------------------
(* The pump and the listeners. *)

PumpLock ==
    /\ pump = NoServer /\ handle # NoServer
    /\ pump' = handle
    /\ UNCHANGED <<handle, started, core, ui, run, clicking, clicks, history>>

\* rx.recv() gives None once the handle's sender and the session's are gone.
PumpClosed ==
    /\ pump # NoServer /\ chan[pump] = <<>> /\ handle # pump /\ session[pump] # "run"
    /\ pump' = NoServer
    /\ UNCHANGED <<handle, started, core, ui, run, clicking, clicks, history>>

Stated(ev) == CASE ev = "state:ready" -> "ready" [] ev = "state:closed" -> "closed"
                [] ev = "state:lost" -> "lost"
KindOf(ev) == CASE ev \in StateEvents -> "state" [] ev = "closed" -> "closed"
                [] OTHER -> "device"
ShownDevice(ev) == IF ev = "device:cams" THEN "cams" ELSE "bare"

\* Mutant: any list of cameras chooses its first.
ChosenAlways(ev) == IF ev = "device:cams" THEN Cameras[1] ELSE ui.active

\* A list of cameras chooses its first, if a listener closed over no active camera.
Chosen(ev) ==
    IF ev = "device:cams" /\ Listener("device", TRUE) \in Listeners
    THEN Cameras[1] ELSE ui.active

\* What the callbacks do with an event that is heard.
Shown(ev) ==
    CASE KindOf(ev) = "state"  -> [ui EXCEPT !.state = Stated(ev)]
      [] KindOf(ev) = "device" -> [ui EXCEPT !.device = ShownDevice(ev), !.active = Chosen(ev)]
      [] OTHER                 -> [ui EXCEPT !.device = None, !.active = None]

\* The pump takes an event to the window.
Emit ==
    /\ pump # NoServer /\ chan[pump] # <<>>
    /\ LET ev == Head(chan[pump]) IN
       /\ ui' = IF Hears(KindOf(ev)) THEN Shown(ev) ELSE ui
       /\ SetActive(ui'.active)
       /\ missed' = IF effect # "read" /\ Hears(KindOf(ev)) THEN missed \ {KindOf(ev)}
                                                           ELSE missed \cup {KindOf(ev)}
       /\ foreign' = (foreign \/ pump # handle)
    /\ chan' = [chan EXCEPT ![pump] = Tail(@)]
    /\ pump' = NoServer
    /\ UNCHANGED <<handle, started, session, sessions, told, todo, snap, clicking, clicks>>

-----------------------------------------------------------------------------
(* The user. *)

ShowServer == ui.qr /\ ui.state # "ready"
ShowDevice == ui.device # None /\ ui.state = "ready"

\* handleStart: the button is there until the QR code is.
StartServer ==
    /\ ~ui.qr /\ handle = NoServer /\ started < MaxServers
    /\ handle' = started + 1
    /\ started' = started + 1
    /\ ui' = [ui EXCEPT !.qr = TRUE]
    /\ UNCHANGED <<pump, core, run, clicking, clicks, history>>

\* handleStop: stop_server takes the handle.  Its session is not told; its receiver lives
\* on if the pump waits in it.
StopServer ==
    /\ ShowServer /\ ~ui.stopping /\ handle # NoServer
    /\ handle' = NoServer
    /\ chan' = IF pump = handle THEN chan ELSE [chan EXCEPT ![handle] = <<>>]
    /\ ui' = [ui EXCEPT !.stopping = TRUE]
    /\ UNCHANGED <<started, pump, session, sessions, told, todo, snap, run, clicking, clicks,
                   history>>

\* The rest of handleStop.
StopDone ==
    /\ ui.stopping
    /\ ui' = IdleUi
    /\ SetActive(None)
    /\ missed' = {} /\ foreign' = FALSE
    /\ UNCHANGED <<handle, started, pump, core, clicking, clicks>>

\* A click calls set_camera; the buttons stay as they are until it answers.
ClickCamera(id) ==
    /\ ShowDevice /\ ui.device = "cams" /\ clicks < MaxClicks
    /\ clicking' = clicking \cup {id}
    /\ clicks' = clicks + 1
    /\ UNCHANGED <<handle, started, pump, core, ui, run, history>>

\* It fails without a session, or answers and the camera becomes the active one.
CameraAnswer(id) ==
    /\ id \in clicking
    /\ clicking' = clicking \ {id}
    /\ IF handle # NoServer /\ session[handle] = "run"
       THEN ui' = [ui EXCEPT !.active = id] /\ SetActive(id)
       ELSE UNCHANGED <<ui, run>>
    /\ UNCHANGED <<handle, started, pump, core, clicks, history>>

Session(k) == Connect(k) \/ SendEvent(k) \/ \E m \in DOMAIN Script : Receive(k, m)

Next ==
    \/ \E k \in Servers : Session(k)
    \/ SnapshotRead \/ SnapshotShown \/ Subscribe \/ \E r \in stale : SubscribeStale(r)
    \/ PumpLock \/ PumpClosed \/ Emit
    \/ StartServer \/ StopServer \/ StopDone
    \/ \E id \in CameraIds : ClickCamera(id) \/ CameraAnswer(id)

Spec == Init /\ [][Next]_vars

-----------------------------------------------------------------------------
\* Types.
States == {"idle", "listening", "ready", "closed", "lost"}
Snaps == [state : States, device : Devices]
Answers == [state : States, device : Devices, server : Servers \cup {NoServer}]
Views == [state : States, device : Devices, active : CameraIds \cup {None}, qr : BOOLEAN,
          stopping : BOOLEAN]
ServersOK ==
    /\ handle \in Servers \cup {NoServer} /\ pump \in Servers \cup {NoServer}
    /\ started \in 0 .. MaxServers
CoreOK ==
    /\ sessions \in 0 .. MaxSessions
    /\ session \in [Servers -> {"none", "run", "over"}] /\ told \in [Servers -> 0 .. MaxLists + 1]
    /\ chan \in [Servers -> Seq(Events)] /\ \A k \in Servers : Len(chan[k]) <= EventCap
    /\ todo \in [Servers -> Seq(Events)] /\ snap \in [Servers -> Snaps]
WindowOK ==
    /\ ui \in Views /\ effect \in {"ask", "read", "on"} \cup Kinds /\ got \in Answers
    /\ stale \subseteq [at : Kinds, none : BOOLEAN]
    /\ leaked \subseteq [kind : Kinds, none : BOOLEAN]
    /\ clicking \subseteq CameraIds /\ clicks \in 0 .. MaxClicks
    /\ missed \subseteq Kinds /\ foreign \in BOOLEAN
TypeOK == ServersOK /\ CoreOK /\ WindowOK

\* Nothing is on its way to the window.
Quiescent == /\ effect = "on" /\ ~ui.stopping
             /\ handle # NoServer => chan[handle] = <<>> /\ todo[handle] = <<>>

\* When everything sent has arrived, the window shows a session exactly when the server
\* has one ready, and its device: re-running the effect on every change of camera loses
\* no session and keeps no finished one, but for events that fell between get_snapshot
\* and their listener, and for those of a stopped server's session.
WindowAgrees ==
    Quiescent /\ missed = {} /\ ~foreign =>
        /\ ui.state = "ready" <=> handle # NoServer /\ snap[handle].state = "ready"
        /\ ui.state = "ready" /\ told[handle] > 0 => ui.device = snap[handle].device

\* The window gives up the active camera for another only for a click, or for a listener
\* leaked by a run of the effect that had closed over no camera.
ChoiceKept ==
    [][ui.active # None /\ ui'.active \notin {None, ui.active} =>
           \/ ui'.active \in clicking
           \/ Listener("device", TRUE) \in leaked]_vars
=============================================================================
