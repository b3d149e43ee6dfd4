------------------------------ MODULE PhoneApp ------------------------------
(***************************************************************************)
(* The iPhone application around a Wi-Fi session: ConnectViewModel, which  *)
(* runs on the main actor, the SessionController of each connection        *)
(* attempt, the capture engine and the telemetry emitter                   *)
(* (ios/Sources/ClearCamApp/ConnectViewModel.swift, ClearCamCore/Session,  *)
(* Capture, Status, Transport).                                            *)
(*                                                                         *)
(* Every await is a point where the other tasks run: attempts to connect,  *)
(* taps on the disconnect button, emitters and the peer interleave there.  *)
(* An attempt is named by its number, which also names its controller, its *)
(* engine and its emitter.  Messages of the handshake are Handshake's      *)
(* subject; here it succeeds or fails.                                     *)
(***************************************************************************)
EXTENDS Naturals

CONSTANTS MaxAttempts, MaxTaps   \* bounds: connect calls, taps on the disconnect button

ASSUME PhoneAssumption == MaxAttempts \in Nat \ {0} /\ MaxTaps \in Nat

Attempts == 1 .. MaxAttempts
Taps == 1 .. MaxTaps
Nobody == 0

VARIABLES
    vm,          \* the view model: state, payload shown, and whose controller, engine, emitter
    asked,       \* connect tasks a scan or the manual form has created
    attempts,    \* attempts so far
    at,          \* per attempt: what its connect awaits
    chan,        \* its control and media channels: "none", "open", "closed", "lost"
    session,     \* its handshake succeeded
    attached,    \* its controller has the engine
    camera,      \* its engine was told to run, and not to stop since
    emitter,     \* its emitter: "none", "starting", "on", "off"
    tap,         \* per tap: what disconnect awaits, and for whom
    overlap      \* history, per attempt: "early" once another connect came between, or a
                 \* disconnect before it had a controller, "late" for a later disconnect

session_ == <<chan, session, attached, camera>>
vars == <<vm, asked, attempts, at, session_, emitter, tap, overlap>>

IdleVm == [state |-> "idle", payload |-> FALSE, controller |-> Nobody, engine |-> Nobody,
           emitter |-> Nobody]
NoTap == [at |-> "none", who |-> Nobody]

Init ==
    /\ vm = IdleVm /\ asked = 0 /\ attempts = 0
    /\ at = [a \in Attempts |-> "none"]
    /\ chan = [a \in Attempts |-> "none"]
    /\ session = [a \in Attempts |-> FALSE]
    /\ attached = [a \in Attempts |-> FALSE] /\ camera = [a \in Attempts |-> FALSE]
    /\ emitter = [a \in Attempts |-> "none"]
    /\ tap = [i \in Taps |-> NoTap]
    /\ overlap = [a \in Attempts |-> "none"]

Connecting(a) == at[a] \notin {"none", "done"}

\* Attempts that still have something to lose, and those marked with what came between.
InUse(a) == Connecting(a) \/ chan[a] \in {"open", "lost"}
Busy == \/ \E a \in Attempts : InUse(a)
        \/ \E i \in Taps : tap[i].at \notin {"none", "done"}
Overlapped == [a \in Attempts |->
                  IF at[a] = "opening" THEN "early"
                  ELSE IF Connecting(a) /\ overlap[a] = "none" THEN "late" ELSE overlap[a]]

-----------------------------------------------------------------------------
(* ConnectViewModel.connect. *)

\* A QR code that decodes, or the form's button, while its view is there.
Ask ==
    /\ ~vm.payload /\ attempts + asked < MaxAttempts
    /\ asked' = asked + 1
    /\ UNCHANGED <<vm, attempts, at, session_, emitter, tap, overlap>>

\* The task gets to the main actor: up to the await of TransportClient.connect.
Begin ==
    LET a == attempts + 1 IN
    /\ asked > 0
    /\ asked' = asked - 1 /\ attempts' = a
    /\ vm' = [vm EXCEPT !.payload = TRUE, !.state = "connecting"]
    /\ at' = [at EXCEPT ![a] = "opening"]
    /\ overlap' = [b \in Attempts |-> IF InUse(b) \/ (b = a /\ Busy)
                                     THEN "early" ELSE overlap[b]]
    /\ UNCHANGED <<session_, emitter, tap>>

\* Both TCP connections are there.
Opened(a) ==
    /\ at[a] = "opening"
    /\ at' = [at EXCEPT ![a] = "handshake"]
    /\ chan' = [chan EXCEPT ![a] = "open"]
    /\ vm' = [vm EXCEPT !.controller = a, !.state = "handshaking"]
    /\ UNCHANGED <<asked, attempts, session, attached, camera, emitter, tap, overlap>>

\* A port, a TCP connection, the handshake or the camera failed.
Stopped(a) ==
    /\ at[a] \in {"opening", "failing"}
    /\ at' = [at EXCEPT ![a] = "done"]
    /\ vm' = [vm EXCEPT !.state = "stopped"]
    /\ UNCHANGED <<asked, attempts, session_, emitter, tap, overlap>>

\* SessionController.connect: AUTH_OK came, the media channel is bound, the pump task waits.
HandshakeOk(a) ==
    /\ at[a] = "handshake" /\ chan[a] = "open"
    /\ session' = [session EXCEPT ![a] = TRUE]
    /\ at' = [at EXCEPT ![a] = "greeted"]
    /\ UNCHANGED <<vm, asked, attempts, chan, attached, camera, emitter, tap, overlap>>

\* Mutant: a closed channel does not end its receive.
HandshakeFailsOnReply(a) ==
    /\ at[a] = "handshake" /\ chan[a] = "open"
    /\ at' = [at EXCEPT ![a] = "failing"]
    /\ UNCHANGED <<vm, asked, attempts, session_, emitter, tap, overlap>>

\* It throws: an ERROR or another reply, or a channel that is closed or lost.
HandshakeFails(a) ==
    /\ at[a] = "handshake"
    /\ at' = [at EXCEPT ![a] = "failing"]
    /\ UNCHANGED <<vm, asked, attempts, session_, emitter, tap, overlap>>

\* connect goes on: the session is shown and wireCamera makes the engine.
Greeted(a) ==
    /\ at[a] = "greeted"
    /\ vm' = [vm EXCEPT !.state = "ready", !.engine = a]
    /\ at' = [at EXCEPT ![a] = "attach"]
    /\ UNCHANGED <<asked, attempts, session_, emitter, tap, overlap>>

\* attachCameraSystem, on the controller.
Attach(a) ==
    /\ at[a] = "attach"
    /\ attached' = [attached EXCEPT ![a] = TRUE]
    /\ at' = [at EXCEPT ![a] = "publish"]
    /\ UNCHANGED <<vm, asked, attempts, chan, session, camera, emitter, tap, overlap>>

\* publishCameraListAndStart: CAMERA_LIST is sent, or its send throws.  After the peer has
\* left it may still succeed, on a channel closed here it cannot.
Publish(a) ==
    /\ at[a] = "publish"
    /\ \/ chan[a] # "closed" /\ at' = [at EXCEPT ![a] = "start"]
       \/ chan[a] # "open" /\ at' = [at EXCEPT ![a] = "failing"]
    /\ UNCHANGED <<vm, asked, attempts, session_, emitter, tap, overlap>>

\* Its rest: the engine starts the first back camera, or throws; nothing is started when
\* there is no camera, or a SET_CAMERA was applied during the send.
StartCamera(a) ==
    /\ at[a] = "start"
    /\ \/ camera' = [camera EXCEPT ![a] = TRUE] /\ at' = [at EXCEPT ![a] = "started"]
       \/ \E next \in {"started", "failing"} : at' = [at EXCEPT ![a] = next] /\ UNCHANGED camera
    /\ UNCHANGED <<vm, asked, attempts, chan, session, attached, emitter, tap, overlap>>

\* startTelemetry: an emitter, and a task that will start it.
StartTelemetry(a) ==
    /\ at[a] = "started"
    /\ vm' = [vm EXCEPT !.emitter = a]
    /\ emitter' = [emitter EXCEPT ![a] = "starting"]
    /\ at' = [at EXCEPT ![a] = "done"]
    /\ UNCHANGED <<asked, attempts, session_, tap, overlap>>

-----------------------------------------------------------------------------
(* Telemetry, the peer. *)

\* TelemetryEmitter.start, whatever has become of the session.
EmitterStarts(a) ==
    /\ emitter[a] = "starting"
    /\ emitter' = [emitter EXCEPT ![a] = "on"]
    /\ UNCHANGED <<vm, asked, attempts, at, session_, tap, overlap>>

\* The desktop says BYE or goes away.  The view model is not told.
PeerLeaves(a) ==
    /\ chan[a] = "open"
    /\ chan' = [chan EXCEPT ![a] = "lost"]
    /\ UNCHANGED <<vm, asked, attempts, at, session, attached, camera, emitter, tap, overlap>>

-----------------------------------------------------------------------------
(* ConnectViewModel.disconnect. *)

\* Mutant: the engine is kept.
ClearedNotEngine == [IdleVm EXCEPT !.emitter = vm.emitter, !.engine = vm.engine]

\* Everything is let go of, whosever it is by then.
Cleared == [IdleVm EXCEPT !.emitter = vm.emitter]

\* After the emitter the controller that is there now is told; without one there is
\* nothing to await.
TellController(i) ==
    IF vm.controller = Nobody
    THEN vm' = IdleVm /\ tap' = [tap EXCEPT ![i] = [at |-> "done", who |-> Nobody]]
    ELSE /\ vm' = [vm EXCEPT !.emitter = Nobody]
         /\ tap' = [tap EXCEPT ![i] = [at |-> "bye", who |-> vm.controller]]

\* The button is there while a payload is shown.
TapDisconnect(i) ==
    /\ vm.payload /\ tap[i].at = "none" /\ \A j \in Taps : j < i => tap[j].at # "none"
    /\ IF vm.emitter = Nobody THEN TellController(i)
       ELSE tap' = [tap EXCEPT ![i] = [at |-> "emitter", who |-> vm.emitter]] /\ UNCHANGED vm
    /\ overlap' = Overlapped
    /\ UNCHANGED <<asked, attempts, at, session_, emitter>>

\* Mutant: the emitter is let go of, not stopped.
StopEmitterDropped(i) ==
    /\ tap[i].at = "emitter"
    /\ TellController(i)
    /\ overlap' = Overlapped
    /\ UNCHANGED <<asked, attempts, at, session_, emitter>>

\* telemetryEmitter.stop cancels the task, if there is one yet.
StopEmitter(i) ==
    LET e == tap[i].who IN
    /\ tap[i].at = "emitter"
    /\ emitter' = IF emitter[e] = "on" THEN [emitter EXCEPT ![e] = "off"] ELSE emitter
    /\ overlap' = [Overlapped EXCEPT ![e] = IF emitter[e] = "starting" /\ @ = "none" THEN "late"
                                                                                     ELSE @]
    /\ TellController(i)
    /\ UNCHANGED <<asked, attempts, at, session_>>

\* SessionController.disconnect sends BYE ...
SayBye(i) ==
    /\ tap[i].at = "bye"
    /\ tap' = [tap EXCEPT ![i].at = "cancel"]
    /\ UNCHANGED <<vm, asked, attempts, at, session_, emitter, overlap>>

\* Mutant: the channels are left open.
CancelLeavesChannels(i) ==
    /\ tap[i].at = "cancel"
    /\ camera' = IF attached[tap[i].who] THEN [camera EXCEPT ![tap[i].who] = FALSE] ELSE camera
    /\ tap' = [tap EXCEPT ![i].at = "finish"]
    /\ UNCHANGED <<vm, asked, attempts, at, chan, session, attached, emitter, overlap>>

\* ... then closes the channels, which ends the pump, and stops the engine it has by then.
Cancel(i) ==
    /\ tap[i].at = "cancel"
    /\ chan' = [chan EXCEPT ![tap[i].who] = "closed"]
    /\ camera' = IF attached[tap[i].who] THEN [camera EXCEPT ![tap[i].who] = FALSE] ELSE camera
    /\ tap' = [tap EXCEPT ![i].at = "finish"]
    /\ UNCHANGED <<vm, asked, attempts, at, session, attached, emitter, overlap>>

\* disconnect goes on.
Finish(i) ==
    /\ tap[i].at = "finish"
    /\ vm' = Cleared
    /\ tap' = [tap EXCEPT ![i].at = "done"]
    /\ overlap' = Overlapped
    /\ UNCHANGED <<asked, attempts, at, session_, emitter>>

Attempt(a) == \/ Opened(a) \/ Stopped(a) \/ HandshakeOk(a) \/ HandshakeFails(a) \/ Greeted(a)
              \/ Attach(a) \/ Publish(a) \/ StartCamera(a) \/ StartTelemetry(a)
Disconnect(i) == StopEmitter(i) \/ SayBye(i) \/ Cancel(i) \/ Finish(i)

Next ==
    \/ Ask \/ Begin
    \/ \E a \in Attempts : \/ Attempt(a) \/ EmitterStarts(a) \/ PeerLeaves(a)
    \/ \E i \in Taps : TapDisconnect(i) \/ Disconnect(i)

\* Actors run what is queued, and a send on a channel returns.  A TCP connection may wait
\* for a network for ever, and the desktop need not answer: only a handshake whose
\* channel is closed or lost has to end.
Proceeds(a) == \/ Attempt(a) /\ at[a] \notin {"opening", "handshake"}
               \/ HandshakeFails(a) /\ chan[a] # "open"
Fairness ==
    /\ \A i \in Taps : WF_vars(Disconnect(i))
    /\ \A a \in Attempts : WF_vars(Proceeds(a))

Spec == Init /\ [][Next]_vars /\ Fairness

-----------------------------------------------------------------------------
\* Types.
ViewModels == [state : {"idle", "connecting", "handshaking", "ready", "stopped"},
               payload : BOOLEAN, controller : Attempts \cup {Nobody},
               engine : Attempts \cup {Nobody}, emitter : Attempts \cup {Nobody}]
Disconnects == [at : {"none", "emitter", "bye", "cancel", "finish", "done"},
                who : Attempts \cup {Nobody}]

TypeOK ==
    /\ vm \in ViewModels
    /\ asked \in 0 .. MaxAttempts /\ attempts \in 0 .. MaxAttempts
    /\ at \in [Attempts -> {"none", "opening", "handshake", "failing", "greeted", "attach",
                            "publish", "start", "started", "done"}]
    /\ chan \in [Attempts -> {"none", "open", "closed", "lost"}]
    /\ session \in [Attempts -> BOOLEAN]
    /\ attached \in [Attempts -> BOOLEAN] /\ camera \in [Attempts -> BOOLEAN]
    /\ emitter \in [Attempts -> {"none", "starting", "on", "off"}]
    /\ tap \in [Taps -> Disconnects]
    /\ overlap \in [Attempts -> {"none", "late", "early"}]

\* While the channel is open the pump task waits in it.
Live(a) == session[a] /\ chan[a] = "open"

\* A controller lives while the view model, a connect, a disconnect or its pump has it,
\* an engine while the view model or its controller does.
Retained(a) ==
    \/ vm.controller = a \/ Connecting(a) \/ Live(a)
    \/ \E i \in Taps : tap[i].who = a /\ tap[i].at \in {"bye", "cancel"}
CameraRuns(a) == camera[a] /\ (vm.engine = a \/ (attached[a] /\ Retained(a)))

\* The view model is at rest with nothing shown: the user sees the QR scanner.
Rest == /\ ~vm.payload /\ asked = 0
        /\ \A a \in Attempts : ~Connecting(a) /\ emitter[a] # "starting"
        /\ \A i \in Taps : tap[i].at \in {"none", "done"}

\* A connect nobody came between, or only once its controller was there to be told.
Plain(a) == overlap[a] # "early"

\* The user can end every session the phone is in: it is the one the view model has,
\* and its disconnect button is shown until it is over.  Left out are attempts another connect came
\* between, and those a disconnect came between while they still opened their TCP
\* connections: such a session goes on behind the QR scanner.
SessionUnderControl ==
    \A a \in Attempts : Live(a) /\ Plain(a) => vm.controller = a /\ vm.payload

\* Behind the QR scanner no camera runs, whatever a disconnect came between in connect
\* once the controller was there: what is started after the engine was stopped is
\* released with it.
CameraOffAtRest == Rest => \A a \in Attempts : Plain(a) => ~CameraRuns(a)

\* Nor an emitter, unless the disconnect came between in connect or overtook the task
\* that starts it: that one goes on for ever.
EmitterOffAtRest ==
    Rest => \A a \in Attempts : emitter[a] = "on" => overlap[a] # "none"

\* A connect whose channels a disconnect has closed, or the peer has left, returns,
\* whatever it was waiting for.
ConnectReturns ==
    \A a \in Attempts : Connecting(a) /\ chan[a] \in {"closed", "lost"} ~> at[a] = "done"
=============================================================================
