------------------------------- MODULE AppCore -------------------------------
(***************************************************************************)
(* The desktop core of ClearCam (desktop/crates/app/src/lib.rs): the Wi-Fi *)
(* listeners and accept loop, the USB consumer loop, the session tasks     *)
(* they spawn, the tasks that wait for a session's media socket, and the   *)
(* state all of them share: the SessionSnapshot the UI mirrors, the        *)
(* `outbound` slot set_camera uses and the `speedtest_counter` slot.       *)
(*                                                                         *)
(* Every task runs on tokio's multi-threaded runtime, so a step here is    *)
(* one access to shared state: a task is cut wherever another can run.     *)
(* In particular ControlPlane clones the snapshot, edits the clone and     *)
(* sends it back: two steps.  The messages of a handshake are abstracted   *)
(* to its two outcomes; a session id is the connection it was issued for.  *)
(***************************************************************************)
EXTENDS Options, Naturals, Sequences

CONSTANTS WifiConns,  \* connection attempts of phones over Wi-Fi
          UsbConns,   \* device dials the USB supervisor makes
          WifiCap,    \* capacity of the wifi event channel (8 in the code)
          UsbCap,     \* capacity of a dialed-streams channel (4 in the code)
          MaxStarts,  \* calls of start_usb_supervisor considered
          Messages    \* the messages peers send that update the snapshot

Conns == WifiConns \cup UsbConns
Kinds == {"control", "media"}
Starts == 1 .. MaxStarts   \* each call has a supervisor, a channel and a consumer of its own

ASSUME ConnsAssumption ==
    /\ WifiConns \cap UsbConns = {}
    /\ None \notin Conns
ASSUME MessagesAssumption ==
    /\ Messages \subseteq {"device", "cameras", "telemetry"}
    /\ None \notin {"ready", "device", "cameras", "telemetry", "reconnecting", "closed"}
ASSUME CapAssumption ==
    /\ WifiCap \in Nat \ {0}
    /\ UsbCap \in Nat \ {0}
    /\ MaxStarts \in Nat /\ None \notin Starts

VARIABLES
    phone,      \* what each peer has done: see PhoneStates
    backlog,    \* per listener, the connected sockets it has not forwarded yet
    listening,  \* the listener tasks that still run
    wifiq,      \* the WifiServerEvent channel
    loop,       \* the Wi-Fi accept loop: its await point and the connection served
    pending,    \* the accept loop's table of sessions that wait for their media
    waiter,     \* the task that waits for a session's media socket
    usbq,       \* per start, the DialedStreams channel
    usb,        \* per start, the USB consumer loop
    starting,   \* the starts that have spawned their consumer and not stored it yet
    consumer,   \* usb_supervisor_task: the start whose consumer is stored
    sess,       \* the task that runs a session's ControlPlane
    op,         \* the snapshot update a session task is in the middle of
    copy,       \* the clone of the snapshot that update started from
    snap,       \* the shared SessionSnapshot
    outbound,   \* the shared slot: whose control channel set_camera writes to
    counter,    \* the shared slot: whose bytes run_speedtest counts
    stopped     \* AppHandle::shutdown was called

sharedVars == <<snap, outbound, counter>>
wifiVars   == <<backlog, listening, wifiq, loop, pending>>
usbVars    == <<usbq, usb, starting, consumer>>
sessVars   == <<sess, op, copy>>
vars == <<phone, wifiVars, waiter, usbVars, sessVars, sharedVars, stopped>>

PhoneStates == {"off",     \* not connected yet
                "dialed",  \* sockets open
                "authed",  \* AUTH_OK received, the session id is known
                "bound"}   \* MEDIA_HELLO sent
LoopPCs  == {"recv", "handshake", "accepted", "mediaHello", "aborted"}
UsbPCs   == {"off", "recv", "lookup", "handshake", "setOutbound", "setCounter",
             "mediaHello", "unsetCounter", "unsetOutbound", "aborted"}
WaiterStates == {"none", "waiting", "got", "attached", "dropped"}
SessStates == {"none", "spawned", "running", "ended", "cleared", "done"}
\* The updates a ControlPlane makes to the snapshot.
Ops == {"ready", "reconnecting", "closed"} \cup Messages

\* SessionStateKind; Listening0 is the Listening{0,0} a failed handshake leaves.
StateKinds == {"Idle", "Listening", "Listening0", "WifiHandshake", "UsbHandshake",
               "ReadyWifi", "ReadyUsb", "Reconnecting", "Closed"}
Ready == {"ReadyWifi", "ReadyUsb"}
\* The session whose DEVICE_INFO and CAMERA_LIST the snapshot holds.
Snapshots == [state : StateKinds, device : Conns \cup {None},
              cameras : Conns \cup {None}]

InitSnap == [state |-> "Listening", device |-> None, cameras |-> None]
AtRest(pc) == [pc |-> pc, conn |-> None]

Init ==
    /\ phone = [c \in Conns |-> "off"]
    /\ backlog = [k \in Kinds |-> <<>>]
    /\ listening = Kinds
    /\ wifiq = <<>>
    /\ loop = AtRest("recv")
    /\ pending = {}
    /\ waiter = [c \in WifiConns |-> "none"]
    /\ usbq = [g \in Starts |-> <<>>]
    /\ usb = [g \in Starts |-> AtRest("off")]
    /\ starting = {} /\ consumer = None
    /\ sess = [c \in Conns |-> "none"]
    /\ op = [c \in Conns |-> None]
    /\ copy = [c \in Conns |-> None]
    /\ snap = InitSnap
    /\ outbound = None
    /\ counter = None
    /\ stopped = FALSE

-----------------------------------------------------------------------------
(* The phone, as the desktop sees it.  A peer that goes away shows itself   *)
(* as a handshake, a hello or a session that fails, which any of them may.  *)

\* connect(): the control and the media socket are opened before any message.
Dial(c) ==
    /\ phone[c] = "off"
    /\ listening # {}
    /\ phone' = [phone EXCEPT ![c] = "dialed"]
    /\ backlog' = [k \in Kinds |-> IF k \in listening THEN Append(backlog[k], c)
                                                      ELSE backlog[k]]
    /\ UNCHANGED <<listening, wifiq, loop, pending, waiter, usbVars, sessVars,
                   sharedVars, stopped>>

\* MEDIA_HELLO needs the session id of AUTH_OK.
SendMediaHello(c) ==
    /\ phone[c] = "authed"
    /\ phone' = [phone EXCEPT ![c] = "bound"]
    /\ UNCHANGED <<wifiVars, waiter, usbVars, sessVars, sharedVars, stopped>>

-----------------------------------------------------------------------------
(* The Wi-Fi listeners and the accept loop.                                 *)

\* Mutant: a socket that finds the channel full is dropped (try_send).
ForwardOrDrop(k) ==
    /\ k \in listening /\ ~stopped /\ backlog[k] # <<>>
    /\ wifiq' = IF Len(wifiq) < WifiCap THEN Append(wifiq, <<k, Head(backlog[k])>>)
                                        ELSE wifiq
    /\ backlog' = [backlog EXCEPT ![k] = Tail(@)]
    /\ UNCHANGED <<phone, listening, loop, pending, waiter, usbVars, sessVars,
                   sharedVars, stopped>>

\* A listener forwards sockets in arrival order; the two share one channel
\* and block when it is full.
Forward(k) ==
    /\ k \in listening
    /\ ~stopped
    /\ backlog[k] # <<>>
    /\ Len(wifiq) < WifiCap
    /\ wifiq' = Append(wifiq, <<k, Head(backlog[k])>>)
    /\ backlog' = [backlog EXCEPT ![k] = Tail(@)]
    /\ UNCHANGED <<phone, listening, loop, pending, waiter, usbVars, sessVars,
                   sharedVars, stopped>>

\* Once the accept loop is gone a listener notices at its next send, and stops.
ListenerExits(k) ==
    /\ k \in listening
    /\ stopped
    /\ backlog[k] # <<>>
    /\ listening' = listening \ {k}
    /\ backlog' = [backlog EXCEPT ![k] = <<>>]
    /\ UNCHANGED <<phone, wifiq, loop, pending, waiter, usbVars, sessVars,
                   sharedVars, stopped>>

TakeControl(c) ==
    /\ loop.pc = "recv"
    /\ wifiq # <<>>
    /\ Head(wifiq) = <<"control", c>>
    /\ wifiq' = Tail(wifiq)
    /\ loop' = [pc |-> "handshake", conn |-> c]
    /\ snap' = [snap EXCEPT !.state = "WifiHandshake"]
    /\ UNCHANGED <<phone, backlog, listening, pending, waiter, usbVars, sessVars,
                   outbound, counter, stopped>>

\* accept_control succeeds once AUTH_OK is written; the peer may be gone by then.
HandshakeOk(c) ==
    /\ loop = [pc |-> "handshake", conn |-> c]
    /\ loop' = [loop EXCEPT !.pc = "accepted"]
    /\ phone' = [phone EXCEPT ![c] = "authed"]
    /\ UNCHANGED <<backlog, listening, wifiq, pending, waiter, usbVars, sessVars,
                   sharedVars, stopped>>

\* Bad version, bad token, unexpected message, 5 s of silence, lost socket.
HandshakeFails(c) ==
    /\ loop = [pc |-> "handshake", conn |-> c]
    /\ loop' = AtRest("recv")
    /\ snap' = [snap EXCEPT !.state = "Listening0"]
    /\ UNCHANGED <<phone, backlog, listening, wifiq, pending, waiter, usbVars,
                   sessVars, outbound, counter, stopped>>

\* Table entry, media waiter, outbound slot, then the session task.
Register(c) ==
    /\ loop = [pc |-> "accepted", conn |-> c]
    /\ loop' = AtRest("recv")
    /\ pending' = pending \cup {c}
    /\ waiter' = [waiter EXCEPT ![c] = "waiting"]
    /\ outbound' = c
    /\ sess' = [sess EXCEPT ![c] = "spawned"]
    /\ UNCHANGED <<phone, backlog, listening, wifiq, usbVars, op, copy, snap,
                   counter, stopped>>

TakeMedia(c) ==
    /\ loop.pc = "recv"
    /\ wifiq # <<>>
    /\ Head(wifiq) = <<"media", c>>
    /\ wifiq' = Tail(wifiq)
    /\ loop' = [pc |-> "mediaHello", conn |-> c]
    /\ UNCHANGED <<phone, backlog, listening, pending, waiter, usbVars, sessVars,
                   sharedVars, stopped>>

\* The hello names session c: hand the socket to its waiter, or drop it.
MediaHelloOk(c) ==
    /\ loop = [pc |-> "mediaHello", conn |-> c]
    /\ phone[c] = "bound"
    /\ loop' = AtRest("recv")
    /\ pending' = pending \ {c}
    /\ waiter' = IF c \in pending THEN [waiter EXCEPT ![c] = "got"] ELSE waiter
    /\ UNCHANGED <<phone, backlog, listening, wifiq, usbVars, sessVars, sharedVars,
                   stopped>>

\* No hello within 5 s, or the link is lost before or after it was sent: the
\* socket is dropped, and the session goes on without media.
MediaHelloFails(c) ==
    /\ loop = [pc |-> "mediaHello", conn |-> c]
    /\ loop' = AtRest("recv")
    /\ UNCHANGED <<phone, backlog, listening, wifiq, pending, waiter, usbVars,
                   sessVars, sharedVars, stopped>>

\* Mutant: the fresh counter is not published.
AttachWithoutCounter(c) ==
    /\ waiter[c] = "got"
    /\ waiter' = [waiter EXCEPT ![c] = "attached"]
    /\ UNCHANGED <<phone, wifiVars, usbVars, sessVars, sharedVars, stopped>>

\* The waiter starts the MediaPipeline with a fresh counter.
AttachMedia(c) ==
    /\ waiter[c] = "got"
    /\ waiter' = [waiter EXCEPT ![c] = "attached"]
    /\ counter' = c
    /\ UNCHANGED <<phone, wifiVars, usbVars, sessVars, snap, outbound, stopped>>

-----------------------------------------------------------------------------
(* The session task: ControlPlane::run_with_outbound and the cleanup after. *)

ReadyState(c) == IF c \in WifiConns THEN "ReadyWifi" ELSE "ReadyUsb"

\* Mutant: a BYE ends the session without a broadcast.
ApplyByeSilent(o, c, s) ==
    CASE o \in {"closed", "telemetry"} -> s
      [] o = "ready"        -> [s EXCEPT !.state = ReadyState(c)]
      [] o = "device"       -> [state |-> ReadyState(c), device |-> c, cameras |-> None]
      [] o = "cameras"      -> IF s.device = None THEN s ELSE [s EXCEPT !.cameras = c]
      [] o = "reconnecting" -> [s EXCEPT !.state = "Reconnecting"]

\* What the update o of session c makes of the snapshot s it read.
Apply(o, c, s) ==
    CASE o = "ready"        -> [s EXCEPT !.state = ReadyState(c)]
      [] o = "device"       -> [state |-> ReadyState(c), device |-> c, cameras |-> None]
      [] o = "cameras"      -> IF s.device = None THEN s ELSE [s EXCEPT !.cameras = c]
      [] o = "telemetry"    -> s
      [] o = "reconnecting" -> [s EXCEPT !.state = "Reconnecting"]
      [] o = "closed"       -> [s EXCEPT !.state = "Closed"]

\* snapshot_tx.borrow().clone(): the first broadcast announces Ready, later ones
\* follow a message of the peer (or its absence).  A session may wait between any two of
\* its steps, for its peer or for room in the events channel, which every update is
\* followed by a send to: nothing says that it goes on.
BeginUpdate(c, o) ==
    /\ op[c] = None
    /\ sess[c] = IF o = "ready" THEN "spawned" ELSE "running"
    /\ op' = [op EXCEPT ![c] = o]
    /\ copy' = [copy EXCEPT ![c] = snap]
    /\ UNCHANGED <<phone, wifiVars, waiter, usbVars, sess, sharedVars, stopped>>

AfterUpdate(o) == IF o \in {"reconnecting", "closed"} THEN "ended" ELSE "running"

\* snapshot_tx.send(snap): whatever was written since the clone is overwritten.
FinishUpdate(c) ==
    /\ op[c] # None
    /\ snap' = Apply(op[c], c, copy[c])
    /\ sess' = [sess EXCEPT ![c] = AfterUpdate(op[c])]
    /\ op' = [op EXCEPT ![c] = None]
    /\ copy' = [copy EXCEPT ![c] = None]
    /\ UNCHANGED <<phone, wifiVars, waiter, usbVars, outbound, counter, stopped>>

\* Mutant: the session task forgets the outbound slot.
KeepOutbound(c) ==
    /\ sess[c] = "ended"
    /\ sess' = [sess EXCEPT ![c] = "cleared"]
    /\ UNCHANGED <<phone, wifiVars, waiter, usbVars, op, copy, sharedVars, stopped>>

\* Both slots are cleared whoever they belong to by now.
ClearOutbound(c) ==
    /\ sess[c] = "ended"
    /\ sess' = [sess EXCEPT ![c] = "cleared"]
    /\ outbound' = None
    /\ UNCHANGED <<phone, wifiVars, waiter, usbVars, op, copy, snap, counter, stopped>>

ClearCounter(c) ==
    /\ sess[c] = "cleared"
    /\ sess' = [sess EXCEPT ![c] = "done"]
    /\ counter' = None
    /\ UNCHANGED <<phone, wifiVars, waiter, usbVars, op, copy, snap, outbound, stopped>>

-----------------------------------------------------------------------------
(* USB: a supervisor's dials and its consumer loop.                         *)

\* The phone listens; the supervisor dials both ports and sends the streams.
UsbDial(g, u) ==
    /\ usb[g].pc \notin {"off", "aborted"}
    /\ phone[u] = "off"
    /\ Len(usbq[g]) < UsbCap
    /\ phone' = [phone EXCEPT ![u] = "dialed"]
    /\ usbq' = [usbq EXCEPT ![g] = Append(@, u)]
    /\ UNCHANGED <<wifiVars, waiter, usb, starting, consumer, sessVars, sharedVars,
                   stopped>>

UsbTake(g, u) ==
    /\ usb[g].pc = "recv"
    /\ usbq[g] # <<>>
    /\ Head(usbq[g]) = u
    /\ usbq' = [usbq EXCEPT ![g] = Tail(@)]
    /\ usb' = [usb EXCEPT ![g] = [pc |-> "lookup", conn |-> u]]
    /\ snap' = [snap EXCEPT !.state = "UsbHandshake"]
    /\ UNCHANGED <<phone, wifiVars, waiter, starting, consumer, sessVars,
                   outbound, counter, stopped>>

UsbKeyFound(g, u) ==
    /\ usb[g] = [pc |-> "lookup", conn |-> u]
    /\ usb' = [usb EXCEPT ![g].pc = "handshake"]
    /\ UNCHANGED <<phone, wifiVars, waiter, usbq, starting, consumer, sessVars,
                   sharedVars, stopped>>

\* An unknown device: the trust request goes to the UI, the streams are dropped.
UsbNoKey(g, u) ==
    /\ usb[g] = [pc |-> "lookup", conn |-> u]
    /\ usb' = [usb EXCEPT ![g] = AtRest("recv")]
    /\ snap' = [snap EXCEPT !.state = "Idle"]
    /\ UNCHANGED <<phone, wifiVars, waiter, usbq, starting, consumer, sessVars,
                   outbound, counter, stopped>>

\* The stored key does not decode; the snapshot is left as it is.
UsbStoreError(g, u) ==
    /\ usb[g] = [pc |-> "lookup", conn |-> u]
    /\ usb' = [usb EXCEPT ![g] = AtRest("recv")]
    /\ UNCHANGED <<phone, wifiVars, waiter, usbq, starting, consumer, sessVars,
                   sharedVars, stopped>>

UsbHandshakeFails(g, u) ==
    /\ usb[g] = [pc |-> "handshake", conn |-> u]
    /\ usb' = [usb EXCEPT ![g] = AtRest("recv")]
    /\ snap' = [snap EXCEPT !.state = "Idle"]
    /\ UNCHANGED <<phone, wifiVars, waiter, usbq, starting, consumer, sessVars,
                   outbound, counter, stopped>>

UsbHandshakeOk(g, u) ==
    /\ usb[g] = [pc |-> "handshake", conn |-> u]
    /\ usb' = [usb EXCEPT ![g].pc = "setOutbound"]
    /\ phone' = [phone EXCEPT ![u] = "authed"]
    /\ UNCHANGED <<wifiVars, waiter, usbq, starting, consumer, sessVars,
                   sharedVars, stopped>>

UsbSetOutbound(g, u) ==
    /\ usb[g] = [pc |-> "setOutbound", conn |-> u]
    /\ usb' = [usb EXCEPT ![g].pc = "setCounter"]
    /\ outbound' = u
    /\ UNCHANGED <<phone, wifiVars, waiter, usbq, starting, consumer, sessVars,
                   snap, counter, stopped>>

UsbSetCounter(g, u) ==
    /\ usb[g] = [pc |-> "setCounter", conn |-> u]
    /\ usb' = [usb EXCEPT ![g].pc = "mediaHello"]
    /\ counter' = u
    /\ UNCHANGED <<phone, wifiVars, waiter, usbq, starting, consumer, sessVars,
                   snap, outbound, stopped>>

\* The hello's session id is not looked at: the supervisor dialed both sockets.
UsbMediaHelloOk(g, u) ==
    /\ usb[g] = [pc |-> "mediaHello", conn |-> u]
    /\ phone[u] = "bound"
    /\ usb' = [usb EXCEPT ![g] = AtRest("recv")]
    /\ sess' = [sess EXCEPT ![u] = "spawned"]
    /\ UNCHANGED <<phone, wifiVars, waiter, usbq, starting, consumer, op, copy,
                   sharedVars, stopped>>

UsbMediaHelloFails(g, u) ==
    /\ usb[g] = [pc |-> "mediaHello", conn |-> u]
    /\ usb' = [usb EXCEPT ![g].pc = "unsetCounter"]
    /\ UNCHANGED <<phone, wifiVars, waiter, usbq, starting, consumer, sessVars,
                   sharedVars, stopped>>

UsbUnsetCounter(g, u) ==
    /\ usb[g] = [pc |-> "unsetCounter", conn |-> u]
    /\ usb' = [usb EXCEPT ![g].pc = "unsetOutbound"]
    /\ counter' = None
    /\ UNCHANGED <<phone, wifiVars, waiter, usbq, starting, consumer, sessVars,
                   snap, outbound, stopped>>

UsbUnsetOutbound(g, u) ==
    /\ usb[g] = [pc |-> "unsetOutbound", conn |-> u]
    /\ usb' = [usb EXCEPT ![g] = AtRest("recv")]
    /\ outbound' = None
    /\ UNCHANGED <<phone, wifiVars, waiter, usbq, starting, consumer, sessVars,
                   snap, counter, stopped>>

-----------------------------------------------------------------------------
(* The application.                                                         *)

\* A call spawns a supervisor and a consumer, beside those that still run.
StartUsbSupervisor(g) ==
    /\ UsbConns # {}
    /\ ~stopped
    /\ usb[g].pc = "off"
    /\ \A h \in Starts : h < g => usb[h].pc # "off"
    /\ usb' = [usb EXCEPT ![g] = AtRest("recv")]
    /\ starting' = starting \cup {g}
    /\ UNCHANGED <<phone, wifiVars, waiter, usbq, consumer, sessVars, sharedVars, stopped>>

\* An aborted consumer stops at its await point; its channel is dropped with the dials
\* that wait in it.
Abort(g) ==
    /\ usb' = [h \in Starts |-> IF h = g THEN AtRest("aborted") ELSE usb[h]]
    /\ usbq' = [h \in Starts |-> IF h = g THEN <<>> ELSE usbq[h]]

\* Then it stores its consumer, and aborts the one stored before.
StoreConsumer(g) ==
    /\ g \in starting
    /\ starting' = starting \ {g}
    /\ consumer' = g
    /\ Abort(consumer)
    /\ UNCHANGED <<phone, wifiVars, waiter, sessVars, sharedVars, stopped>>

\* Aborts the accept loop; its channel and the pending table go with it, so a waiter
\* whose sender was in the table sees it dropped.  The stored consumer is aborted too,
\* unless the lock of usb_supervisor_task is taken just then (try_lock).  Sessions run on.
Shutdown ==
    /\ ~stopped
    /\ stopped' = TRUE
    /\ loop' = AtRest("aborted")
    /\ wifiq' = <<>>
    /\ pending' = {}
    /\ waiter' = [c \in WifiConns |-> IF waiter[c] = "waiting" THEN "dropped"
                                                               ELSE waiter[c]]
    /\ \/ Abort(consumer) /\ consumer' = None
       \/ starting # {} /\ UNCHANGED <<usb, usbq, consumer>>
    /\ UNCHANGED <<phone, backlog, listening, starting, sessVars, sharedVars>>

-----------------------------------------------------------------------------
Phone == \/ \E c \in WifiConns : Dial(c)
         \/ \E c \in Conns : SendMediaHello(c)

Wifi == \/ \E k \in Kinds : Forward(k) \/ ListenerExits(k)
        \/ \E c \in WifiConns :
              \/ TakeControl(c) \/ HandshakeOk(c) \/ HandshakeFails(c) \/ Register(c)
              \/ TakeMedia(c) \/ MediaHelloOk(c) \/ MediaHelloFails(c) \/ AttachMedia(c)

Usb == \E g \in Starts, u \in UsbConns :
          \/ UsbDial(g, u) \/ UsbTake(g, u) \/ UsbKeyFound(g, u) \/ UsbNoKey(g, u)
          \/ UsbStoreError(g, u) \/ UsbHandshakeFails(g, u) \/ UsbHandshakeOk(g, u)
          \/ UsbSetOutbound(g, u) \/ UsbSetCounter(g, u) \/ UsbMediaHelloOk(g, u)
          \/ UsbMediaHelloFails(g, u) \/ UsbUnsetCounter(g, u) \/ UsbUnsetOutbound(g, u)

Session == \E c \in Conns :
              \/ \E o \in Ops : BeginUpdate(c, o)
              \/ FinishUpdate(c) \/ ClearOutbound(c) \/ ClearCounter(c)

App == \/ \E g \in Starts : StartUsbSupervisor(g) \/ StoreConsumer(g)
       \/ Shutdown

Next == Phone \/ Wifi \/ Usb \/ Session \/ App

Spec == Init /\ [][Next]_vars

\* tokio runs the listeners and the accept loop whenever they are ready, and the 5 s
\* timeouts end every handshake and hello read.  Nothing is assumed of users, networks,
\* phones, sessions or the USB consumers.
Fairness ==
    /\ \A k \in Kinds : WF_vars(Forward(k))
    /\ \A c \in WifiConns :
          /\ WF_vars(TakeControl(c)) /\ WF_vars(HandshakeOk(c) \/ HandshakeFails(c))
          /\ WF_vars(Register(c))
          /\ WF_vars(TakeMedia(c)) /\ WF_vars(MediaHelloOk(c) \/ MediaHelloFails(c))

LiveSpec == Spec /\ Fairness

-----------------------------------------------------------------------------
(* Properties.                                                              *)

LoopTypes(pcs, conns) == [pc : pcs, conn : conns \cup {None}]

\* Every variable has its type, the channels respect their capacity, and a session
\* between the two steps of an update holds a clone of the snapshot.
TypeOK ==
    /\ phone \in [Conns -> PhoneStates]
    /\ backlog \in [Kinds -> Seq(WifiConns)]
    /\ listening \in SUBSET Kinds
    /\ wifiq \in Seq(Kinds \X WifiConns)
    /\ Len(wifiq) <= WifiCap
    /\ loop \in LoopTypes(LoopPCs, WifiConns)
    /\ pending \in SUBSET WifiConns
    /\ waiter \in [WifiConns -> WaiterStates]
    /\ usbq \in [Starts -> Seq(UsbConns)]
    /\ \A g \in Starts : Len(usbq[g]) <= UsbCap
    /\ usb \in [Starts -> LoopTypes(UsbPCs, UsbConns)]
    /\ starting \in SUBSET Starts
    /\ consumer \in Starts \cup {None}
    /\ sess \in [Conns -> SessStates]
    /\ op \in [Conns -> Ops \cup {None}]
    /\ copy \in [Conns -> Snapshots \cup {None}]
    /\ \A c \in Conns : op[c] # None => copy[c] \in Snapshots
    /\ snap \in Snapshots
    /\ outbound \in Conns \cup {None}
    /\ counter \in Conns \cup {None}
    /\ stopped \in BOOLEAN

Running(c) == sess[c] = "running"

\* The UI is never told Ready without a session behind it: stale clones of the
\* snapshot are written back by several tasks (controlplane.rs broadcast), yet
\* when the last session has ended no Ready survives, however the writes of
\* sessions and loops interleave.
ReadyHasSession == snap.state \in Ready => \E c \in Conns : Running(c)

\* The outbound slot never keeps the channel of a session that has run its
\* cleanup (lib.rs: the slot is filled before the session task is spawned, and
\* cleared by that task): set_camera cannot be left talking to a finished session.
OutboundNotFinished == outbound # None => sess[outbound] \notin {"cleared", "done"}

NeverAuthenticated(d) == phone[d] \in {"off", "dialed"}
SoleOutbound(c) == Running(c) => outbound = c
SoleCounter(c) == Running(c) /\ c \in WifiConns /\ waiter[c] = "attached" => counter = c
SoleSnapshot(c) == Running(c) => /\ snap.state = ReadyState(c)
                                 /\ snap.device \in {None, c}
                                 /\ snap.cameras \in {None, c}

\* The single-source assumption of the design is enough: as long as no other
\* connection was ever authenticated, a running session owns the outbound slot
\* and, once its media is attached, the speedtest counter; and as long as no
\* other connection was even dialed, the snapshot shows that session.
SoleSourceConsistent ==
    \A c \in Conns :
       /\ (\A d \in Conns \ {c} : NeverAuthenticated(d)) => SoleOutbound(c) /\ SoleCounter(c)
       /\ (\A d \in Conns \ {c} : phone[d] = "off") => SoleSnapshot(c)

AwaitsAccept(c) == \/ \E i \in DOMAIN backlog["control"] : backlog["control"][i] = c
                   \/ \E i \in DOMAIN wifiq : wifiq[i] = <<"control", c>>

\* Every phone that connects is eventually served, whatever is queued before its control
\* socket in the bounded channel: sockets of other phones, or its own media socket, for
\* whose hello the accept loop waits while the phone waits for the handshake.
EveryControlServed ==
    \A c \in WifiConns :
       AwaitsAccept(c) ~> (stopped \/ loop = [pc |-> "handshake", conn |-> c])
=============================================================================
