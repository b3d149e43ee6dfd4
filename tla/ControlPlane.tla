---------------------------- MODULE ControlPlane ----------------------------
(***************************************************************************)
(* One session's control connection after the handshake: the desktop's     *)
(* ControlPlane::run_with_outbound (desktop/crates/session/src/            *)
(* controlplane.rs), its adaptation driver, the task that reads its events,*)
(* and the phone at the other end: the iPhone app's pump and telemetry     *)
(* emitter, or the mock phone's loop.                                      *)
(*                                                                         *)
(* A tick is KEEPALIVE_INTERVAL (2 s).  Tasks take much less than a tick:  *)
(* one passes when those that can run have run.  A frame may arrive in two *)
(* parts; read_frame, which reads a length and then a payload, is a branch *)
(* of a select! and forgets what it has read when another branch wins.     *)
(* Kernel buffers hold what a session sends before it notices a dead peer. *)
(***************************************************************************)
EXTENDS Naturals, Sequences, FiniteSets

CONSTANTS DeadAfter,   \* DEAD_PEER_AFTER, in ticks
          EventCap,    \* capacity of the events channel (64)
          OutCap,      \* capacity of the outbound channel (16)
          TeleCap,     \* capacity of the telemetry channel (16)
          UpCap,       \* bound: frames on the way from the phone
          MaxFaults,   \* bound: kinds of faults in one behaviour
          Modes,       \* streaming modes
          FirstMode

Words == {"deviceInfo", "cameraList", "telemetry", "pong", "bye", "unknown"}
Upward == Words \cup Modes         \* a mode: MODE_APPLIED of it
Downward == {"ping"} \cup Modes    \* a mode: SET_MODE of it
Faults == {"slept", "stalled", "torn", "cut", "newer"}

ASSUME ControlAssumption ==
    /\ DeadAfter \in Nat \ {0} /\ EventCap \in Nat \ {0} /\ OutCap \in Nat \ {0}
    /\ TeleCap \in Nat \ {0} /\ UpCap \in Nat /\ UpCap >= 2 /\ MaxFaults \in Nat
    /\ FirstMode \in Modes
    /\ (Words \cup {"ping", "idle"}) \cap Modes = {}

VARIABLES
    phone,     \* "ios" or "mock"
    awake,     \* the phone's program runs (an iPhone may be suspended)
    link,      \* "up", "closed" by the phone, "cut" without notice
    up, down,  \* frames on their way
    spoke,     \* the phone has sent something since the last tick
    applied,   \* history: the last MODE_APPLIED the session took, or "none"
    running,   \* the session task has not returned
    owed,      \* events it still has to send before it goes on
    next,      \* and what it does then
    reader,    \* its read_frame: "clean", "half" read, "astray", or "swallow"ing
    age,       \* ticks since last_rx
    due,       \* keepalive ticks not yet taken
    outbound,  \* channel to the session task
    tele,      \* samples in the channel to the driver
    driver,    \* the mode the driver is sending, or "idle"
    dmode,     \* AdaptationState's mode
    cooled,    \* STEPDOWN_COOLDOWN, a tick, is over
    stalled,   \* nobody reads events
    backlog,   \* events in their channel
    why,       \* how the session ended
    faults     \* history: what went wrong outside the session

phoneVars == <<phone, awake, applied>>   \* the phone, and what it has confirmed
wireVars == <<link, up, down, spoke>>
stepVars == <<running, owed, next, tele, backlog>>   \* what a step of the task may end in
loopVars == <<reader, age, due, outbound>>
historyVars == <<why, faults>>
driverVars == <<driver, dmode, cooled>>
vars == <<phoneVars, wireVars, stepVars, loopVars, driverVars, stalled, historyVars>>

Init ==
    /\ phone \in {"ios", "mock"} /\ awake = TRUE /\ applied = "none"
    /\ link = "up" /\ up = <<"deviceInfo", "cameraList">> /\ down = <<>> /\ spoke = TRUE
    /\ running = TRUE /\ owed = 0 /\ next = "loop" /\ reader = "clean"
    /\ age = 0 /\ due = 0 /\ outbound = <<>>
    /\ tele = 0 /\ driver = "idle" /\ dmode = FirstMode /\ cooled = FALSE
    /\ stalled = FALSE /\ backlog = 0
    /\ why = "none" /\ faults = {}

\* Each kind of fault strikes once.
May(f) == f \notin faults /\ Cardinality(faults) < MaxFaults

-----------------------------------------------------------------------------
(* The session task.                                                        *)

Selecting == running /\ owed = 0

\* Another branch of the select! wins: the future of control.recv() is dropped.
\* A frame half read is lost in the middle; garbage that was being swallowed has
\* been read up to the end of a frame.
CancelRecv ==
    reader' = CASE reader = "half" -> "astray" [] reader = "swallow" -> "clean"
                [] OTHER -> reader

\* After the events: the try_send to the driver, the return of the task, the loop.
Finish(then) ==
    /\ running' = (then # "over")
    /\ tele' = IF then = "feed" /\ tele < TeleCap THEN tele + 1 ELSE tele

\* Mutant: the sample for the driver is sent, not tried: a full channel holds the task up.
DeliverFeedWaits(n, then) ==
    IF (~stalled \/ backlog + n <= EventCap) /\ (then = "feed" => tele < TeleCap)
    THEN /\ backlog' = IF stalled THEN backlog + n ELSE 0
         /\ owed' = 0 /\ next' = "loop"
         /\ Finish(then)
    ELSE /\ backlog' = IF stalled THEN EventCap ELSE 0
         /\ owed' = 1 /\ next' = then
         /\ UNCHANGED <<running, tele>>

\* n sends to the events channel, one after the other, and what follows.  The
\* channel is empty while somebody reads it; a full one holds the task up.
Deliver(n, then) ==
    IF ~stalled \/ backlog + n <= EventCap
    THEN /\ backlog' = IF stalled THEN backlog + n ELSE 0
         /\ owed' = 0 /\ next' = "loop"
         /\ Finish(then)
    ELSE /\ backlog' = EventCap
         /\ owed' = n - (EventCap - backlog) /\ next' = then
         /\ UNCHANGED <<running, tele>>

\* broadcast(Reconnecting), and the task returns.
End(cause) == why' = cause /\ Deliver(1, "over")
Loop == UNCHANGED <<stepVars, why>>

\* control.send on a connection that is down may fail; it is noticed later else.
SendOrEnd(m, after) ==
    \/ down' = (IF link = "up" THEN Append(down, m) ELSE down) /\ after
    \/ link # "up" /\ End("link") /\ UNCHANGED down

\* Mutant: SET_MODE is dropped when it finds a PING in front of it.
OutboundBranchDrops ==
    /\ Selecting /\ outbound # <<>>
    /\ CancelRecv
    /\ outbound' = Tail(outbound)
    /\ IF down # <<>> THEN Loop /\ UNCHANGED down ELSE SendOrEnd(Head(outbound), Loop)
    /\ UNCHANGED <<phoneVars, link, up, spoke, age, due, driverVars, stalled, faults>>

\* The channel stays open: the driver holds a sender as long as the task runs.
OutboundBranch ==
    /\ Selecting /\ outbound # <<>>
    /\ CancelRecv
    /\ outbound' = Tail(outbound)
    /\ SendOrEnd(Head(outbound), Loop)
    /\ UNCHANGED <<phoneVars, link, up, spoke, age, due, driverVars, stalled, faults>>

\* Mutant: the peer is never declared dead.
KeepaliveBranchPatient ==
    /\ Selecting /\ due > 0
    /\ CancelRecv
    /\ due' = due - 1
    /\ SendOrEnd("ping", Loop)
    /\ UNCHANGED <<phoneVars, link, up, spoke, age, outbound, driverVars, stalled, faults>>

KeepaliveBranch ==
    /\ Selecting /\ due > 0
    /\ CancelRecv
    /\ due' = due - 1
    /\ SendOrEnd("ping", IF age > DeadAfter THEN End("dead") ELSE Loop)
    /\ UNCHANGED <<phoneVars, link, up, spoke, age, outbound, driverVars, stalled, faults>>

\* The events a message gives rise to.
Handle(m) ==
    /\ CASE m = "deviceInfo" -> Deliver(2, "loop")
         [] m \in {"cameraList"} \cup Modes -> Deliver(1, "loop")
         [] m = "telemetry" -> Deliver(1, "feed")
         [] m = "bye" -> Deliver(2, "over")
         [] OTHER -> UNCHANGED stepVars
    /\ why' = IF m = "bye" THEN "bye" ELSE why

Confirm(m) == applied' = IF m \in Modes THEN m ELSE applied

\* Mutant: last_rx is not set.
RecvBranchKeepsClock ==
    /\ Selecting /\ reader \in {"clean", "half"} /\ up # <<>>
    /\ reader' = "clean" /\ up' = Tail(up)
    /\ IF Head(up) = "unknown" THEN End("undecodable") ELSE Handle(Head(up))
    /\ Confirm(Head(up))
    /\ UNCHANGED <<phone, awake, link, down, spoke, age, due, outbound, driverVars, stalled,
                   faults>>

\* A whole frame.  A type the desktop does not know fails to decode.
RecvBranch ==
    /\ Selecting /\ reader \in {"clean", "half"} /\ up # <<>>
    /\ reader' = "clean" /\ up' = Tail(up)
    /\ IF Head(up) = "unknown" THEN End("undecodable") ELSE Handle(Head(up))
    /\ Confirm(Head(up))
    /\ age' = IF Head(up) = "unknown" THEN age ELSE 0
    /\ UNCHANGED <<phone, awake, link, down, spoke, due, outbound, driverVars, stalled, faults>>

\* read_frame has the first bytes of a frame and waits for the others.
HalfFrame ==
    /\ Selecting /\ reader = "clean" /\ up # <<>> /\ May("torn")
    /\ reader' = "half" /\ faults' = faults \cup {"torn"}
    /\ UNCHANGED <<phoneVars, wireVars, stepVars, age, due, outbound, driverVars, stalled, why>>

\* In the middle of a frame, the next four bytes are taken for a length: one over
\* the limit is an error, a smaller one swallows what follows.
Astray ==
    /\ Selecting /\ reader \in {"astray", "swallow"} /\ up # <<>>
    /\ up' = Tail(up)
    /\ \/ reader' = "swallow" /\ Loop
       \/ reader = "astray" /\ End("undecodable") /\ UNCHANGED reader
    /\ UNCHANGED <<phoneVars, link, down, spoke, age, due, outbound, driverVars, stalled,
                   faults>>

\* End of stream, or a reset.
RecvFails ==
    /\ Selecting /\ link # "up" /\ up = <<>>
    /\ End("link")
    /\ UNCHANGED <<phoneVars, wireVars, loopVars, driverVars, stalled, faults>>

\* There is room in the events channel again.
Resume ==
    /\ running /\ owed > 0 /\ ~stalled
    /\ Deliver(owed, next)
    /\ UNCHANGED <<phoneVars, wireVars, loopVars, driverVars, stalled, historyVars>>

-----------------------------------------------------------------------------
(* The driver and the window.                                               *)

\* AdaptationDriver::observe; whether it steps, and where, is Adaptation's.
Observe ==
    /\ driver = "idle" /\ tele > 0
    /\ tele' = tele - 1
    /\ \/ UNCHANGED driverVars
       \/ /\ cooled /\ cooled' = FALSE
          /\ \E m \in Modes \ {dmode} : dmode' = m /\ driver' = m
    /\ UNCHANGED <<phoneVars, wireVars, running, owed, next, backlog, loopVars, stalled,
                   historyVars>>

\* The send of SET_MODE waits for a place; it fails once the session is over.
DriverSends ==
    /\ driver # "idle"
    /\ \/ running /\ Len(outbound) < OutCap /\ outbound' = Append(outbound, driver)
       \/ ~running /\ UNCHANGED outbound
    /\ driver' = "idle"
    /\ UNCHANGED <<phoneVars, wireVars, stepVars, reader, age, due, dmode, cooled, stalled,
                   historyVars>>

\* The task that reads the events is held up, and goes on.
Stall ==
    /\ running /\ May("stalled")
    /\ stalled' = TRUE /\ faults' = faults \cup {"stalled"}
    /\ UNCHANGED <<phoneVars, wireVars, stepVars, loopVars, driverVars, why>>

Unstall ==
    /\ stalled
    /\ stalled' = FALSE /\ backlog' = 0
    /\ UNCHANGED <<phoneVars, wireVars, running, owed, next, tele, loopVars, driverVars,
                   historyVars>>

-----------------------------------------------------------------------------
(* The phone.                                                               *)

Alive == awake /\ link = "up"
Emit(m) == up' = Append(up, m) /\ spoke' = TRUE

\* TelemetryEmitter and sendTelemetry.
EmitTelemetry ==
    /\ phone = "ios" /\ Alive /\ Len(up) < UpCap /\ ~spoke
    /\ Emit("telemetry")
    /\ UNCHANGED <<phoneVars, link, down, stepVars, loopVars, driverVars, stalled, historyVars>>

\* startPump: SET_MODE is among the messages it ignores.
Pump ==
    /\ phone = "ios" /\ Alive /\ down # <<>> /\ Len(up) < UpCap
    /\ down' = Tail(down)
    /\ CASE Head(down) = "ping" -> Emit("pong")
         [] OTHER -> UNCHANGED <<up, spoke>>
    /\ UNCHANGED <<phoneVars, link, stepVars, loopVars, driverVars, stalled, historyVars>>

\* The mock's loop: telemetry first, then a timer or a message.  It answers SET_MODE with
\* MODE_APPLIED of the same mode, and its generator goes on as before.
MockTelemetry ==
    /\ phone = "mock" /\ Alive /\ Len(up) < UpCap /\ ~spoke
    /\ Emit("telemetry")
    /\ UNCHANGED <<phoneVars, link, down, stepVars, loopVars, driverVars, stalled, historyVars>>

MockLoop ==
    /\ phone = "mock" /\ Alive /\ down # <<>> /\ Len(up) < UpCap
    /\ down' = Tail(down)
    /\ Emit(IF Head(down) = "ping" THEN "pong" ELSE Head(down))
    /\ UNCHANGED <<phoneVars, link, stepVars, loopVars, driverVars, stalled, historyVars>>

\* Its receive, too, is dropped by the timer in the middle of a frame: the frame
\* is lost, or the next receive fails and the mock exits.
MockTorn ==
    /\ phone = "mock" /\ Alive /\ down # <<>> /\ May("torn")
    /\ down' = Tail(down)
    /\ link' \in {"up", "closed"}
    /\ faults' = faults \cup {"torn"}
    /\ UNCHANGED <<phoneVars, up, spoke, stepVars, loopVars, driverVars, stalled, why>>

\* disconnect(reason:): BYE, then both streams are cancelled.
Leave ==
    /\ phone = "ios" /\ Alive /\ Len(up) < UpCap
    /\ Emit("bye") /\ link' = "closed"
    /\ UNCHANGED <<phoneVars, down, stepVars, loopVars, driverVars, stalled, historyVars>>

\* A phone of a later version sends a type that is not in ControlMessage.
NewerPhone ==
    /\ Alive /\ Len(up) < UpCap /\ May("newer")
    /\ Emit("unknown") /\ faults' = faults \cup {"newer"}
    /\ UNCHANGED <<phoneVars, link, down, stepVars, loopVars, driverVars, stalled, why>>

Suspend ==
    /\ phone = "ios" /\ running
    /\ \/ awake /\ May("slept") /\ faults' = faults \cup {"slept"}
       \/ ~awake /\ UNCHANGED faults
    /\ awake' = ~awake
    /\ UNCHANGED <<phone, applied, wireVars, stepVars, loopVars, driverVars, stalled, why>>

CutLink ==
    /\ link = "up" /\ running /\ May("cut")
    /\ link' = "cut" /\ up' = <<>> /\ down' = <<>> /\ faults' = faults \cup {"cut"}
    /\ UNCHANGED <<phoneVars, spoke, stepVars, loopVars, driverVars, stalled, why>>

\* Two seconds pass: what could run has run.  A frame's second half may be late.
Tick ==
    /\ running /\ age <= DeadAfter
    /\ tele = 0 \/ driver # "idle"
    /\ \/ /\ owed > 0 /\ stalled
          /\ Alive => Len(up) = UpCap \/ (spoke /\ down = <<>>)
       \/ /\ Selecting /\ outbound = <<>> /\ due = 0 /\ (up = <<>> \/ reader = "half")
          /\ Alive => spoke /\ down = <<>>
    /\ age' = age + 1 /\ due' = due + 1 /\ spoke' = FALSE /\ cooled' = TRUE
    /\ UNCHANGED <<phoneVars, link, up, down, stepVars, reader, outbound, driver, dmode, stalled,
                   historyVars>>

SessionNext == OutboundBranch \/ KeepaliveBranch \/ RecvBranch \/ Astray \/ RecvFails
               \/ Resume
DriverNext == Observe \/ DriverSends
PhoneNext == EmitTelemetry \/ Pump \/ MockTelemetry \/ MockLoop
FaultNext == HalfFrame \/ MockTorn \/ NewerPhone \/ Suspend \/ CutLink \/ Stall \/ Unstall

Next == SessionNext \/ DriverNext \/ PhoneNext \/ FaultNext \/ Leave \/ Tick

\* Tasks that can run are run, select! favours no branch, a channel serves its senders
\* in turn, and time passes.
Spec == Init /\ [][Next]_vars
        /\ WF_vars(SessionNext) /\ SF_vars(OutboundBranch) /\ SF_vars(KeepaliveBranch)
        /\ WF_vars(Observe) /\ SF_vars(DriverSends) /\ WF_vars(PhoneNext) /\ WF_vars(Tick)

-----------------------------------------------------------------------------
\* Types.
WireOK ==
    /\ phone \in {"ios", "mock"} /\ awake \in BOOLEAN /\ applied \in Modes \cup {"none"}
    /\ link \in {"up", "closed", "cut"} /\ spoke \in BOOLEAN
    /\ up \in Seq(Upward) /\ Len(up) <= UpCap /\ down \in Seq(Downward)
TaskOK ==
    /\ running \in BOOLEAN /\ owed \in 0..2 /\ next \in {"loop", "feed", "over"}
    /\ tele \in 0..TeleCap /\ backlog \in 0..EventCap /\ stalled \in BOOLEAN
LoopOK ==
    /\ reader \in {"clean", "half", "astray", "swallow"}
    /\ age \in 0..(DeadAfter + 1) /\ due \in Nat
    /\ why \in {"none", "bye", "link", "undecodable", "dead"} /\ faults \subseteq Faults
DriverOK ==
    /\ driver \in Modes \cup {"idle"} /\ dmode \in Modes /\ cooled \in BOOLEAN
    /\ outbound \in Seq(Modes) /\ Len(outbound) <= OutCap
TypeOK == WireOK /\ TaskOK /\ LoopOK /\ DriverOK

\* A session does not end under a phone that answers: it is declared dead only after
\* the phone slept, the link was cut, frames were lost to a select!, or the task
\* itself was held up by a full events channel while the phone's frames waited; and
\* it is given up as broken only when the connection is.
EndsForAReason ==
    /\ why = "dead" => faults \cap {"slept", "stalled", "torn", "cut"} # {}
    /\ why = "link" => link # "up"

\* The driver steps its own copy of the mode before SET_MODE is even sent, and never
\* looks at MODE_APPLIED.  Once no SET_MODE and no MODE_APPLIED is on its way, the last
\* mode the mock confirmed is the driver's, whatever the order in which steps were
\* queued, answered and read; only a torn frame can part them.
Quiet(q) == \A i \in 1..Len(q) : q[i] \notin Modes
ModesConfirmed ==
    (/\ phone = "mock" /\ running /\ link = "up" /\ "torn" \notin faults /\ driver = "idle"
     /\ Quiet(outbound) /\ Quiet(down) /\ Quiet(up))
        => applied = dmode \/ (applied = "none" /\ dmode = FirstMode)

\* The session feeds the driver and the driver feeds the session through bounded
\* channels: the driver never waits for ever, unless nobody reads the events.
DriverProceeds == driver # "idle" ~> (driver = "idle" \/ stalled)

\* DEAD_PEER_AFTER: a session whose phone has gone silent is over some time later,
\* unless the phone is back or nobody reads the events.
SilentPhoneNoticed == ~Alive ~> (~running \/ Alive \/ stalled)
=============================================================================
