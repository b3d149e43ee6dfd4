------------------------------- MODULE Shell -------------------------------
(***************************************************************************)
(* The Tauri shell around the core (desktop/src-tauri/src/commands.rs,     *)
(* events.rs): the commands of the window and the event pump share the     *)
(* AppState lock; the pump empties the events channel of the server it     *)
(* found there, and sessions wait when that channel is full.               *)
(*                                                                         *)
(* Sessions are reduced to what they send: events to their server's        *)
(* channel, and whatever they take from their outbound channel, which      *)
(* set_camera and the adaptation driver fill, to the phone.  The window    *)
(* may call any command at any time.                                       *)
(***************************************************************************)
EXTENDS Naturals

CONSTANTS
    EventCap, OutCap,          \* capacities of the events (64) and outbound (16) channels
    MaxServers, MaxSessions,   \* bounds: start_server calls, sessions
    MaxEvents,                 \* bound: events a message leads to
    MaxClicks, MaxStalls       \* bounds: set_camera calls, phones that stop reading

ASSUME ShellAssumption == EventCap \in Nat \ {0} /\ OutCap \in Nat \ {0} /\ MaxEvents >= 2

Servers == 1 .. MaxServers
Sessions == 1 .. MaxSessions
None == 0

VARIABLES
    handle,      \* AppState: the running server, or None
    started,     \* servers so far
    holder,      \* the AppState lock: free, or held by set_camera while it sends
    query,       \* a get_snapshot call waits for the lock
    pump,        \* the server in whose receiver the pump waits, or None
    chan,        \* per server: events in its channel
    slot,        \* per server: the session whose outbound sender its handle has, or None
    sessions,    \* sessions so far
    server,      \* per session: its server
    task,        \* "none", "run", "ending" (its last events), "over", "gone"
    owed,        \* events its task sends before its next select!
    stuck,       \* it is in control.send to a phone that does not read
    stalls,      \* phones that stopped reading so far
    out,         \* messages in its outbound channel
    sending,     \* the session set_camera sends to, or None
    clicks       \* set_camera calls so far

shared == <<handle, started, pump, slot>>
sessionVars == <<sessions, server, task, owed, stuck, stalls, out>>
commands == <<holder, query, sending, clicks>>
vars == <<shared, chan, sessionVars, commands>>

Init ==
    /\ handle = None /\ started = 0 /\ pump = None
    /\ holder = "none" /\ query = FALSE /\ sending = None /\ clicks = 0
    /\ chan = [k \in Servers |-> 0] /\ slot = [k \in Servers |-> None]
    /\ sessions = 0 /\ server = [j \in Sessions |-> None]
    /\ task = [j \in Sessions |-> "none"] /\ owed = [j \in Sessions |-> 0]
    /\ stuck = [j \in Sessions |-> FALSE] /\ stalls = 0 /\ out = [j \in Sessions |-> 0]

-----------------------------------------------------------------------------
(* Sessions. *)

Alive(j) == task[j] \in {"run", "ending"}
Selecting(j) == task[j] = "run" /\ owed[j] = 0 /\ ~stuck[j]

\* The handle has the receiver, and so has the pump that took it from there.
Receivable(k) == handle = k \/ pump = k

\* A phone connects while the accept loop runs: a task of its own, whose sender replaces
\* the one in the slot, and whose first event says Ready.
Connect ==
    /\ handle # None /\ sessions < MaxSessions
    /\ sessions' = sessions + 1
    /\ server' = [server EXCEPT ![sessions'] = handle]
    /\ task' = [task EXCEPT ![sessions'] = "run"]
    /\ owed' = [owed EXCEPT ![sessions'] = 1]
    /\ slot' = [slot EXCEPT ![handle] = sessions']
    /\ UNCHANGED <<handle, started, pump, chan, stuck, stalls, out, commands>>

\* A message of the phone, and the events it leads to.
Receive(j) ==
    /\ Selecting(j)
    /\ \E n \in 1 .. MaxEvents : owed' = [owed EXCEPT ![j] = n]
    /\ UNCHANGED <<shared, chan, sessions, server, task, stuck, stalls, out, commands>>

\* BYE (two events), a broken connection or a dead peer (one).
Finish(j) ==
    /\ Selecting(j)
    /\ task' = [task EXCEPT ![j] = "ending"]
    /\ \E n \in 1 .. 2 : owed' = [owed EXCEPT ![j] = n]
    /\ UNCHANGED <<shared, chan, sessions, server, stuck, stalls, out, commands>>

\* An event waits for room; without a receiver the send fails and is forgotten.  After
\* the last one the loop returns and its outbound receiver is gone.
SendEvent(j) ==
    /\ owed[j] > 0 /\ (Receivable(server[j]) => chan[server[j]] < EventCap)
    /\ owed' = [owed EXCEPT ![j] = @ - 1]
    /\ chan' = IF Receivable(server[j]) THEN [chan EXCEPT ![server[j]] = @ + 1] ELSE chan
    /\ task' = IF task[j] = "ending" /\ owed[j] = 1 THEN [task EXCEPT ![j] = "over"] ELSE task
    /\ UNCHANGED <<shared, sessions, server, stuck, stalls, out, commands>>

\* The session's task empties the slot, whose-ever sender is in it.
ClearSlot(j) ==
    /\ task[j] = "over"
    /\ task' = [task EXCEPT ![j] = "gone"]
    /\ slot' = [slot EXCEPT ![server[j]] = None]
    /\ UNCHANGED <<handle, started, pump, chan, sessions, server, owed, stuck, stalls, out,
                   commands>>

\* The adaptation driver waits for room in the outbound channel, on its own.
DriverSends(j) ==
    /\ task[j] = "run" /\ out[j] < OutCap
    /\ out' = [out EXCEPT ![j] = @ + 1]
    /\ UNCHANGED <<shared, chan, sessions, server, task, owed, stuck, stalls, commands>>

\* The phone has stopped reading: control.send, which has no timeout, waits.
Stick(j) ==
    /\ stalls < MaxStalls /\ stalls' = stalls + 1
    /\ stuck' = [stuck EXCEPT ![j] = TRUE]

\* The select! takes a message and sends it.
TakeOutbound(j) ==
    /\ Selecting(j) /\ out[j] > 0
    /\ out' = [out EXCEPT ![j] = @ - 1]
    /\ Stick(j) \/ UNCHANGED <<stuck, stalls>>
    /\ UNCHANGED <<shared, chan, sessions, server, task, owed, commands>>

\* A PING, or the PONG for one of the phone's.
Ping(j) ==
    /\ Selecting(j)
    /\ Stick(j)
    /\ UNCHANGED <<shared, chan, sessions, server, task, owed, out, commands>>

\* The phone reads again, or the connection fails under the send.
Unstick(j) ==
    /\ stuck[j]
    /\ stuck' = [stuck EXCEPT ![j] = FALSE]
    /\ \/ UNCHANGED <<task, owed>>
       \/ /\ task' = [task EXCEPT ![j] = "ending"]
          /\ owed' = [owed EXCEPT ![j] = 1]
    /\ UNCHANGED <<shared, chan, sessions, server, stalls, out, commands>>

-----------------------------------------------------------------------------
(* The pump. *)

\* A turn of the loop: the lock, the receiver of the handle found there, and the lock
\* is given back.  Without a handle it sleeps.
PumpLock ==
    /\ pump = None /\ holder = "none" /\ handle # None
    /\ pump' = handle
    /\ UNCHANGED <<handle, started, slot, chan, sessionVars, commands>>

\* A session of the server still runs.
Serving(k) == \E j \in Sessions : server[j] = k /\ Alive(j)

\* Mutant: a closed channel is waited on for ever.
PumpRecvWaits ==
    /\ pump # None /\ chan[pump] > 0
    /\ chan' = [chan EXCEPT ![pump] = @ - 1]
    /\ pump' = None
    /\ UNCHANGED <<handle, started, slot, sessionVars, commands>>

\* rx.recv(): an event, which goes to the window, or None once every sender is gone:
\* the handle's, and those of the sessions, which outlive stop_server.
PumpRecv ==
    /\ pump # None
    /\ \/ chan[pump] > 0 /\ chan' = [chan EXCEPT ![pump] = @ - 1]
       \/ chan[pump] = 0 /\ handle # pump /\ ~Serving(pump) /\ UNCHANGED chan
    /\ pump' = None
    /\ UNCHANGED <<handle, started, slot, sessionVars, commands>>

-----------------------------------------------------------------------------
(* Commands. *)

\* start_server: an error while a server runs.
StartServer ==
    /\ holder = "none" /\ handle = None /\ started < MaxServers
    /\ handle' = started + 1
    /\ started' = started + 1
    /\ UNCHANGED <<pump, slot, chan, sessionVars, commands>>

\* stop_server takes the handle and aborts the accept loop.  Its sessions are not told.
\* The receiver goes with the handle, unless the pump waits in it.
StopServer ==
    /\ holder = "none" /\ handle # None
    /\ handle' = None
    /\ chan' = IF pump = handle THEN chan ELSE [chan EXCEPT ![handle] = 0]
    /\ UNCHANGED <<started, pump, slot, sessionVars, commands>>

GetSnapshot ==
    /\ ~query
    /\ query' = TRUE
    /\ UNCHANGED <<shared, chan, sessionVars, holder, sending, clicks>>

\* Mutant: get_snapshot waits for a server.
AnswerSnapshotOfServer ==
    /\ query /\ holder = "none" /\ handle # None
    /\ query' = FALSE
    /\ UNCHANGED <<shared, chan, sessionVars, holder, sending, clicks>>

\* The handle's snapshot, or an idle one.
AnswerSnapshot ==
    /\ query /\ holder = "none"
    /\ query' = FALSE
    /\ UNCHANGED <<shared, chan, sessionVars, holder, sending, clicks>>

\* set_camera locks the state and clones the sender in the slot; without one it fails at
\* once.
SetCamera ==
    /\ holder = "none" /\ handle # None /\ slot[handle] # None /\ clicks < MaxClicks
    /\ holder' = "camera" /\ sending' = slot[handle] /\ clicks' = clicks + 1
    /\ UNCHANGED <<shared, chan, sessionVars, query>>

\* The lock is held until the message is in the channel, or the receiver is gone.
CameraSent ==
    /\ sending # None
    /\ \/ /\ Alive(sending) /\ out[sending] < OutCap
          /\ out' = [out EXCEPT ![sending] = @ + 1]
       \/ ~Alive(sending) /\ UNCHANGED out
    /\ holder' = "none" /\ sending' = None
    /\ UNCHANGED <<shared, chan, sessions, server, task, owed, stuck, stalls, query, clicks>>

Session(j) == \/ Receive(j) \/ Finish(j) \/ SendEvent(j) \/ ClearSlot(j) \/ DriverSends(j)
              \/ TakeOutbound(j) \/ Ping(j) \/ Unstick(j)

Next ==
    \/ Connect \/ \E j \in Sessions : Session(j)
    \/ PumpLock \/ PumpRecv
    \/ StartServer \/ StopServer \/ GetSnapshot \/ AnswerSnapshot \/ SetCamera \/ CameraSent

\* Tasks that can go on are polled.  The waiters of a tokio channel are served in turn, so
\* a send that finds room again and again goes through; a select!, which polls its branches
\* in random order, takes from an outbound channel that is filled again and again.  Nothing
\* is assumed of the phones: one that stopped reading may never go on.
Fairness ==
    /\ WF_vars(AnswerSnapshot) /\ WF_vars(PumpLock) /\ WF_vars(PumpRecv) /\ SF_vars(CameraSent)
    /\ \A j \in Sessions : SF_vars(SendEvent(j)) /\ SF_vars(TakeOutbound(j))

Spec == Init /\ [][Next]_vars /\ Fairness

-----------------------------------------------------------------------------
\* Types; the channels stay within their capacities.
TypeOK ==
    /\ handle \in Servers \cup {None} /\ pump \in Servers \cup {None}
    /\ started \in 0 .. MaxServers /\ sessions \in 0 .. MaxSessions
    /\ holder \in {"none", "camera"} /\ query \in BOOLEAN
    /\ sending \in Sessions \cup {None} /\ clicks \in 0 .. MaxClicks
    /\ slot \in [Servers -> Sessions \cup {None}] /\ chan \in [Servers -> 0 .. EventCap]
    /\ server \in [Sessions -> Servers \cup {None}]
    /\ task \in [Sessions -> {"none", "run", "ending", "over", "gone"}]
    /\ owed \in [Sessions -> 0 .. MaxEvents] /\ stuck \in [Sessions -> BOOLEAN]
    /\ stalls \in 0 .. MaxStalls /\ out \in [Sessions -> 0 .. OutCap]

\* A session that waits for room in its events channel.
Blocked(j) == owed[j] > 0 /\ Receivable(server[j]) /\ chan[server[j]] = EventCap

\* The pump waits in the channel of another, stopped server, a session of which still runs.
PumpedElsewhere(j) == pump \notin {None, server[j]} /\ pump # handle /\ Serving(pump)

\* set_camera holds the AppState lock and waits for the outbound channel of a session,
\* which writes to a phone that does not read, or waits for its events channel; that is
\* not emptied because the pump waits for the lock (the circular wait), or elsewhere.
CameraWaits ==
    /\ sending # None /\ out[sending] = OutCap
    /\ stuck[sending] \/ (Blocked(sending) /\ (pump = None \/ PumpedElsewhere(sending)))

\* Every get_snapshot is answered (query is given up again and again), but for a
\* set_camera that waits for ever, and what it waits for never ends: no other state of
\* phones, sessions, servers and pump, and no wait that ends, keeps the window's calls.
SnapshotAnswered == []<>(~query) \/ <>[]CameraWaits

\* A session that waits for room in its events channel goes on, but for a set_camera that
\* keeps the pump from the lock for ever, or a stopped server's session that keeps the
\* pump in its channel for ever.
BlockedGoesOn ==
    \A j \in Sessions :
        []<>(~Blocked(j)) \/ <>[]((pump = None /\ CameraWaits) \/ PumpedElsewhere(j))
=============================================================================
