------------------------------ MODULE UsbLink -------------------------------
(***************************************************************************)
(* From a cable to a session: the backends that report devices (desktop/   *)
(* crates/transport/src/usb), the UsbSupervisor that dials them and the    *)
(* consumer that AppHandle::start_usb_supervisor spawns (desktop/crates/   *)
(* app), and the phone that listens: TransportListener, UsbSessionDriver   *)
(* and TrustController of the iPhone app, or the mock phone.               *)
(*                                                                         *)
(* There is one phone, plugged in several times.  A backend either polls   *)
(* (the loopback, whose ids are whatever was registered) or follows        *)
(* usbmuxd, which gives every attachment an id of its own.  A dial is a    *)
(* number; so is a key, and every random draw gives a new one.  What the   *)
(* two ends say to each other is Handshake; here a handshake succeeds or   *)
(* not by the key presented on the control connection.                     *)
(*                                                                         *)
(* Only tests call start_usb_supervisor, and only tests make the iPhone's  *)
(* TransportListener and UsbSessionDriver: neither the desktop's shell nor *)
(* the app does.  This is what the code does once somebody calls it.       *)
(***************************************************************************)
EXTENDS Naturals, Sequences, FiniteSets

CONSTANTS MaxPlugs,   \* bound: attachments
          MaxDials,   \* bound: dials
          MaxKeys,    \* bound: keys drawn
          MaxFaults,  \* bound: things that come between
          OutCap      \* capacity of the channel of dialed streams (4)

ASSUME UsbAssumption ==
    /\ MaxPlugs \in Nat \ {0} /\ MaxDials \in Nat \ {0} /\ MaxKeys \in Nat \ {0}
    /\ MaxFaults \in Nat /\ OutCap \in Nat \ {0}

Sups == {1, 2}            \* start_usb_supervisor is called at most twice
Plugs == 1..MaxPlugs
Dials == 1..MaxDials
Connected(i) == [type |-> "connected", id |-> i]
Lost(i) == [type |-> "lost", id |-> i]

VARIABLES
    backend, phone,    \* "poll" or "listen"; "ios" or "mock"
    plugs, id,         \* attachments so far, and their ids
    attached,          \* the last one is still there
    known,             \* ids the backend of a supervisor has reported
    queue,             \* events in its channel (16, more than the bounds can fill)
    sup,               \* "off", "idle", "control", "media", "send", "done"
    target,            \* the id dialed and the number of the dial
    dials,             \* per dial: supervisor, attachment, state
    chan,              \* dialed streams on their way to the consumer
    cons,              \* "off", "idle", "handshake", "media", "gone"
    job,               \* the dial a consumer works on and the key it has read
    dkey, pkey, keys,  \* keys stored on the desktop and the phone; keys drawn
    tasks,             \* the phone's accept tasks that have not run
    pending,           \* pendingControl and pendingMedia
    calls,             \* nextSession continuations
    drivers,           \* what nextSession returned, and how far its driver is
    prompt,            \* the driver that pendingContinuation belongs to
    saving,            \* the key being stored
    faults             \* history: how often something came between

busVars == <<backend, phone, plugs, id, attached>>
reportVars == <<known, queue>>
supVars == <<sup, target>>
consVars == <<cons, job>>
keyVars == <<dkey, pkey, keys, saving>>
phoneVars == <<tasks, pending, calls, drivers, prompt>>
vars == <<busVars, reportVars, supVars, dials, chan, consVars, keyVars, phoneVars, faults>>

Fault == faults < MaxFaults /\ faults' = faults + 1
Upset == faults' = IF faults = 0 THEN 1 ELSE faults   \* what needs no bound

Plugged == IF attached THEN {id[plugs]} ELSE {}
Nobody == [id |-> 0, dial |-> 0]

\* start_usb_supervisor has been called once.  A mock phone is given the
\* desktop's key on its command line, or another; an iPhone has none yet.
Init ==
    /\ backend \in {"poll", "listen"} /\ phone \in {"ios", "mock"}
    /\ plugs = 0 /\ id = [p \in Plugs |-> 0] /\ attached = FALSE
    /\ known = [s \in Sups |-> {}] /\ queue = [s \in Sups |-> <<>>]
    /\ sup = [s \in Sups |-> IF s = 1 THEN "idle" ELSE "off"]
    /\ target = [s \in Sups |-> Nobody]
    /\ dials = <<>> /\ chan = [s \in Sups |-> <<>>]
    /\ cons = [s \in Sups |-> IF s = 1 THEN "idle" ELSE "off"]
    /\ job = [s \in Sups |-> [dial |-> 0, key |-> 0]]
    /\ keys = 1 /\ dkey \in {0, 1} /\ pkey = (IF phone = "mock" THEN 1 ELSE 0)
    /\ saving = 0
    /\ tasks = {} /\ pending = [control |-> <<>>, media |-> <<>>]
    /\ calls = 0 /\ drivers = <<>> /\ prompt = 0
    /\ faults = 0

-----------------------------------------------------------------------------
(* The bus, and the backends.                                               *)

Watching(s) == sup[s] \notin {"off", "done"}
Report(e) == queue' = [s \in Sups |-> IF backend = "listen" /\ Watching(s)
                                      THEN Append(queue[s], e) ELSE queue[s]]
Learn(i) == known' = [s \in Sups |-> IF backend = "listen" /\ Watching(s)
                                     THEN (known[s] \cup {i}) ELSE known[s]]

\* Ids are named in the order of their first use.
Plug ==
    /\ ~attached /\ plugs < MaxPlugs
    /\ attached' = TRUE /\ plugs' = plugs + 1
    /\ \E i \in 1..(plugs + 1) :
          /\ backend = "listen" => i = plugs + 1
          /\ id' = [id EXCEPT ![plugs + 1] = i] /\ Report(Connected(i)) /\ Learn(i)
    /\ UNCHANGED <<backend, phone, supVars, dials, chan, consVars, keyVars, phoneVars,
                   faults>>

Drop(gone) ==
    dials' = [n \in DOMAIN dials |->
                 IF n \in gone THEN [dials[n] EXCEPT !.state = "dropped"] ELSE dials[n]]

\* Every connection through the cable is over.
Unplug ==
    /\ attached
    /\ attached' = FALSE /\ Report(Lost(id[plugs]))
    /\ Drop({n \in DOMAIN dials : dials[n].plug = plugs})
    /\ Fault
    /\ UNCHANGED <<backend, phone, plugs, id, known, supVars, chan, consVars, keyVars,
                   phoneVars>>

\* Mutant: the number of devices is compared, not their ids.
PollCounts(s) ==
    /\ backend = "poll" /\ Watching(s) /\ attached # (known[s] # {})
    /\ known' = [known EXCEPT ![s] = Plugged]
    /\ queue' = [queue EXCEPT ![s] = @ \o IF attached THEN <<Connected(id[plugs])>> ELSE <<>>]
    /\ UNCHANGED <<busVars, supVars, dials, chan, consVars, keyVars, phoneVars, faults>>

\* subscribe of the conductor trait: new ids first, then the missing ones.  A poll
\* that finds no difference, or whose list_devices fails, does nothing.
Poll(s) ==
    /\ backend = "poll" /\ Watching(s) /\ Plugged # known[s]
    /\ known' = [known EXCEPT ![s] = Plugged]
    /\ queue' = [queue EXCEPT ![s] = @ \o
                  [i \in 1..Cardinality(Plugged \ known[s]) |-> Connected(id[plugs])]
                  \o [i \in 1..Cardinality(known[s] \ Plugged) |->
                         Lost(CHOOSE k \in known[s] : k \notin Plugged)]]
    /\ UNCHANGED <<busVars, supVars, dials, chan, consVars, keyVars, phoneVars, faults>>

\* The stream from usbmuxd fails: the listener's thread ends, and with it, once the
\* events are taken, the supervisor and the consumer.
ListenFails(s) ==
    /\ backend = "listen" /\ sup[s] = "idle" /\ queue[s] = <<>>
    /\ sup' = [sup EXCEPT ![s] = "done"]
    /\ Fault
    /\ UNCHANGED <<busVars, reportVars, target, dials, chan, consVars, keyVars, phoneVars>>

-----------------------------------------------------------------------------
(* UsbSupervisor::run and open_pair.                                        *)

Set(s, step, t) == sup' = [sup EXCEPT ![s] = step] /\ target' = [target EXCEPT ![s] = t]
SupUnchanged == UNCHANGED <<busVars, known, chan, consVars, keyVars>>

Reachable(i) == attached /\ id[plugs] = i

TakeEvent(s) ==
    /\ sup[s] = "idle" /\ queue[s] # <<>>
    /\ queue' = [queue EXCEPT ![s] = Tail(@)]
    /\ LET i == Head(queue[s]).id IN
       \/ /\ Head(queue[s]).type = "connected" /\ Len(dials) < MaxDials
          /\ dials' = Append(dials, [sup |-> s, plug |-> IF Reachable(i) THEN plugs ELSE 0,
                                     state |-> "new"])
          /\ Set(s, "control", [id |-> i, dial |-> Len(dials) + 1])
       \/ Head(queue[s]).type = "lost" /\ UNCHANGED <<supVars, dials>>
    /\ SupUnchanged /\ UNCHANGED <<phoneVars, faults>>

\* open_port of the control port: the dial's first connection.
OpenControl(s) ==
    /\ sup[s] = "control" /\ Reachable(target[s].id)
    /\ dials' = [dials EXCEPT ![target[s].dial].state = "half", ![target[s].dial].plug = plugs]
    /\ tasks' = tasks \cup {<<"control", target[s].dial>>}
    /\ Set(s, "media", target[s])
    /\ SupUnchanged /\ UNCHANGED <<queue, pending, calls, drivers, prompt, faults>>

\* open_port of the media port, of the device that has the id now: if it was plugged
\* in again meanwhile, the control connection is already dead.
OpenMedia(s) ==
    /\ sup[s] = "media" /\ Reachable(target[s].id)
    /\ dials' = [dials EXCEPT ![target[s].dial].state = IF @ = "half" THEN "open" ELSE @]
    /\ tasks' = tasks \cup {<<"media", target[s].dial>>}
    /\ Set(s, "send", target[s])
    /\ SupUnchanged /\ UNCHANGED <<queue, pending, calls, drivers, prompt, faults>>

\* The device is gone, or nothing listens there: the control connection, if open, is
\* dropped, and the device is not dialed again before it is reported again.
DialFails(s) ==
    /\ sup[s] \in {"control", "media"}
    /\ IF Reachable(target[s].id) THEN Fault ELSE UNCHANGED faults
    /\ Drop({target[s].dial})
    /\ Set(s, "idle", Nobody)
    /\ SupUnchanged /\ UNCHANGED <<queue, phoneVars>>

\* out.send(DialedStreams): fails once the consumer is gone, and run returns.
SendOut(s) ==
    /\ sup[s] = "send"
    /\ \/ cons[s] # "gone" /\ Len(chan[s]) < OutCap
          /\ chan' = [chan EXCEPT ![s] = Append(@, target[s].dial)]
          /\ Set(s, "idle", Nobody) /\ UNCHANGED dials
       \/ cons[s] = "gone" /\ Drop({target[s].dial})
          /\ Set(s, "done", Nobody) /\ UNCHANGED chan
    /\ UNCHANGED <<busVars, reportVars, consVars, keyVars, phoneVars, faults>>

-----------------------------------------------------------------------------
(* The consumer, start_usb_supervisor, and the user's choices.              *)

Work(s, step, n, k) ==
    /\ cons' = [cons EXCEPT ![s] = step]
    /\ job' = [job EXCEPT ![s] = [dial |-> n, key |-> k]]
ConsUnchanged == UNCHANGED <<busVars, reportVars, supVars, keyVars>>

\* The pairing key is looked up; without one the user is asked to trust the device
\* and the streams are dropped.
Receive(s) ==
    /\ cons[s] = "idle" /\ chan[s] # <<>>
    /\ chan' = [chan EXCEPT ![s] = Tail(@)]
    /\ \/ dkey # 0 /\ Work(s, "handshake", Head(chan[s]), dkey) /\ UNCHANGED dials
       \/ dkey = 0 /\ Drop({Head(chan[s])}) /\ UNCHANGED consVars
    /\ ConsUnchanged /\ UNCHANGED <<phoneVars, faults>>

On(n, step, k) == {i \in DOMAIN drivers : drivers[i].control = n /\ drivers[i].step = step
                                          /\ drivers[i].cred = k}

\* Mutant: the key presented is not compared.
HandshakeOkAnyKey(s) ==
    /\ cons[s] = "handshake" /\ dials[job[s].dial].state = "open"
    /\ \E i \in DOMAIN drivers : drivers[i].control = job[s].dial /\ drivers[i].step = "auth"
          /\ drivers' = [drivers EXCEPT ![i].step = "bound"]
    /\ Work(s, "media", job[s].dial, job[s].key)
    /\ ConsUnchanged /\ UNCHANGED <<dials, chan, tasks, pending, calls, prompt, faults>>

\* accept_control_usb: the phone presents the key that was looked up.
HandshakeOk(s) ==
    /\ cons[s] = "handshake" /\ dials[job[s].dial].state = "open"
    /\ \E i \in On(job[s].dial, "auth", job[s].key) :
          drivers' = [drivers EXCEPT ![i].step = "bound"]
    /\ Work(s, "media", job[s].dial, job[s].key)
    /\ ConsUnchanged /\ UNCHANGED <<dials, chan, tasks, pending, calls, prompt, faults>>

\* read_media_hello, whose answer is not compared with the session.
MediaHello(s) ==
    /\ cons[s] = "media" /\ dials[job[s].dial].state = "open"
    /\ \E i \in DOMAIN drivers : drivers[i].media = job[s].dial /\ drivers[i].step = "bound"
    /\ dials' = [dials EXCEPT ![job[s].dial].state = "session"]
    /\ Work(s, "idle", 0, 0)
    /\ ConsUnchanged /\ UNCHANGED <<chan, phoneVars, faults>>

\* Another key, an end of stream, a timeout: the streams are dropped.
ConsumerFails(s) ==
    /\ cons[s] \in {"handshake", "media"}
    /\ Drop({job[s].dial})
    /\ Work(s, "idle", 0, 0)
    /\ Upset
    /\ ConsUnchanged /\ UNCHANGED <<chan, phoneVars>>

\* The control plane has ended.
SessionEnds(n) ==
    /\ n \in DOMAIN dials /\ dials[n].state = "session"
    /\ Drop({n})
    /\ ConsUnchanged /\ UNCHANGED <<chan, consVars, phoneVars, faults>>

\* A second start: a new supervisor and a new consumer ...
StartSupervisor ==
    /\ sup[2] = "off"
    /\ sup' = [sup EXCEPT ![2] = "idle"]
    /\ cons' = [cons EXCEPT ![2] = "idle"]
    /\ IF backend = "listen" /\ attached
       THEN queue' = [queue EXCEPT ![2] = <<Connected(id[plugs])>>]
            /\ known' = [known EXCEPT ![2] = Plugged]
       ELSE UNCHANGED reportVars
    /\ Upset
    /\ UNCHANGED <<busVars, target, dials, chan, job, keyVars, phoneVars>>

\* ... then the old consumer is aborted, with the streams it has; the old supervisor
\* is not: it ends when it next hands over a dial.
AbortConsumer ==
    /\ sup[2] # "off" /\ cons[1] # "gone"
    /\ Work(1, "gone", 0, 0)
    /\ chan' = [chan EXCEPT ![1] = <<>>]
    /\ Drop({job[1].dial} \cup {chan[1][i] : i \in DOMAIN chan[1]})
    /\ ConsUnchanged /\ UNCHANGED <<phoneVars, faults>>

\* trust_usb_device draws a key; forget_usb_device removes it.
TrustDevice ==
    /\ keys < MaxKeys
    /\ keys' = keys + 1 /\ dkey' = keys + 1
    /\ Fault
    /\ UNCHANGED <<busVars, reportVars, supVars, dials, chan, consVars, pkey, saving, phoneVars>>

ForgetDevice ==
    /\ dkey # 0 /\ dkey' = 0
    /\ Fault
    /\ UNCHANGED <<busVars, reportVars, supVars, dials, chan, consVars, pkey, keys, saving,
                   phoneVars>>

-----------------------------------------------------------------------------
(* The phone.                                                               *)

PhoneUnchanged == UNCHANGED <<busVars, reportVars, supVars, chan, consVars>>
Driver(c, m) == [control |-> c, media |-> m, step |-> "resolve", cred |-> 0]

\* tryMatch: the oldest control connection with the oldest media connection.
TryMatch(p, n) ==
    LET some == n > 0 /\ p.control # <<>> /\ p.media # <<>>
    IN  /\ pending' = IF some THEN [control |-> Tail(p.control), media |-> Tail(p.media)] ELSE p
        /\ calls' = IF some THEN n - 1 ELSE n
        /\ drivers' = IF some THEN Append(drivers, Driver(Head(p.control), Head(p.media)))
                      ELSE drivers

\* acceptControl and acceptMedia run in tasks of their own, in any order.
Accept ==
    \E t \in tasks :
        /\ tasks' = tasks \ {t}
        /\ TryMatch([pending EXCEPT ![t[1]] = Append(@, t[2])], calls)
        /\ PhoneUnchanged /\ UNCHANGED <<dials, keyVars, prompt, faults>>

\* Mutant: a new continuation does not look for connections that wait.
NextSessionNoMatch ==
    /\ calls = 0 /\ Len(drivers) < (IF phone = "mock" THEN 1 ELSE MaxDials)
    /\ calls' = 1
    /\ PhoneUnchanged /\ UNCHANGED <<dials, keyVars, tasks, pending, drivers, prompt, faults>>

\* The mock accepts on one listener, then on the other, and serves one session.
NextSession ==
    /\ calls = 0 /\ Len(drivers) < (IF phone = "mock" THEN 1 ELSE MaxDials)
    /\ TryMatch(pending, calls + 1)
    /\ PhoneUnchanged /\ UNCHANGED <<dials, keyVars, tasks, prompt, faults>>

\* resolveCredential: the stored key, or the user is asked.  A second request
\* replaces the continuation of the first.
Resolve(i) ==
    /\ i \in DOMAIN drivers /\ drivers[i].step = "resolve"
    /\ \/ pkey # 0 /\ drivers' = [drivers EXCEPT ![i].step = "auth", ![i].cred = pkey]
          /\ UNCHANGED prompt
       \/ pkey = 0 /\ drivers' = [drivers EXCEPT ![i].step = "asked"] /\ prompt' = i
    /\ PhoneUnchanged /\ UNCHANGED <<dials, keyVars, tasks, pending, calls, faults>>

\* TrustController.respond: a key drawn at random, stored by a task of its own; or
\* both connections are cancelled.
Respond ==
    /\ prompt # 0
    /\ prompt' = 0
    /\ \/ /\ keys < MaxKeys /\ keys' = keys + 1 /\ saving' = keys + 1
          /\ drivers' = [drivers EXCEPT ![prompt].step = "auth", ![prompt].cred = keys + 1]
          /\ UNCHANGED dials
       \/ /\ Drop({drivers[prompt].control, drivers[prompt].media})
          /\ drivers' = [drivers EXCEPT ![prompt].step = "over"]
          /\ UNCHANGED <<keys, saving>>
    /\ PhoneUnchanged /\ UNCHANGED <<dkey, pkey, tasks, pending, calls, faults>>

\* PairingStore.put of the phone.
Put ==
    /\ saving # 0
    /\ pkey' = saving /\ saving' = 0
    /\ PhoneUnchanged /\ UNCHANGED <<dials, dkey, keys, phoneVars, faults>>

SupNext(s) == TakeEvent(s) \/ OpenControl(s) \/ OpenMedia(s) \/ DialFails(s) \/ SendOut(s)
ConsNext(s) == Receive(s) \/ HandshakeOk(s) \/ MediaHello(s)
PhoneNext == Accept \/ NextSession \/ (\E i \in Dials : Resolve(i)) \/ Put
UserNext == StartSupervisor \/ TrustDevice \/ ForgetDevice \/ Respond

ProgramNext == PhoneNext \/ AbortConsumer \/ \E s \in Sups : Poll(s) \/ SupNext(s) \/ ConsNext(s)
FaultNext == \E s \in Sups : ListenFails(s) \/ ConsumerFails(s)

Next == ProgramNext \/ FaultNext \/ Plug \/ Unplug \/ UserNext
        \/ \E n \in Dials : SessionEnds(n)

\* The programs do not stop while one of their tasks can run; nothing is assumed of
\* the user or of the cable.
Spec == Init /\ [][Next]_vars /\ WF_vars(ProgramNext)

-----------------------------------------------------------------------------
\* Types.
Events == [type : {"connected", "lost"}, id : Plugs]
Targets == [id : 0..MaxPlugs, dial : 0..MaxDials]
Jobs == [dial : 0..MaxDials, key : 0..MaxKeys]
DialRecords == [sup : Sups, plug : 0..MaxPlugs,
                state : {"new", "half", "open", "session", "dropped"}]
DriverRecords == [control : Dials, media : Dials, cred : 0..MaxKeys,
                  step : {"resolve", "asked", "auth", "bound", "over"}]

BusOK ==
    /\ backend \in {"poll", "listen"} /\ phone \in {"ios", "mock"}
    /\ plugs \in 0..MaxPlugs /\ id \in [Plugs -> 0..MaxPlugs] /\ attached \in BOOLEAN
    /\ attached => plugs > 0 /\ id[plugs] \in Plugs
    /\ known \in [Sups -> SUBSET Plugs]
    /\ queue \in [Sups -> Seq(Events)]
DialsOK == dials \in Seq(DialRecords) /\ Len(dials) <= MaxDials
SupOK ==
    /\ sup \in [Sups -> {"off", "idle", "control", "media", "send", "done"}]
    /\ target \in [Sups -> Targets]
ConsOK ==
    /\ chan \in [Sups -> Seq(Dials)] /\ \A s \in Sups : Len(chan[s]) <= OutCap
    /\ cons \in [Sups -> {"off", "idle", "handshake", "media", "gone"}]
    /\ job \in [Sups -> Jobs]
KeysOK == keys \in 1..MaxKeys /\ dkey \in 0..keys /\ pkey \in 0..keys /\ saving \in 0..keys
PhoneOK ==
    /\ tasks \subseteq ({"control", "media"} \X Dials)
    /\ pending \in [control : Seq(Dials), media : Seq(Dials)]
    /\ calls \in 0..1 /\ drivers \in Seq(DriverRecords) /\ prompt \in 0..MaxDials
TypeOK == /\ BusOK /\ DialsOK /\ SupOK /\ ConsOK /\ KeysOK /\ PhoneOK
          /\ faults \in 0..(MaxFaults + 1)

\* The desktop accepts only a key that it holds itself.  trust_usb_device and the phone's
\* TrustController each draw a key and no message carries it, so no dial to an iPhone
\* becomes a session, however the user's answers on both ends, unplugging, redialing
\* and a second start fall together.
OnlySharedKeysServe == phone = "ios" => \A n \in DOMAIN dials : dials[n].state # "session"

\* Dials of a supervisor to an attachment.
DialsOf(s, p) == {n \in DOMAIN dials : dials[n].sup = s /\ dials[n].plug = p}

\* An attachment whose id the backend has not reported to a supervisor is dialed by it in
\* the end, by the one that a second start leaves behind as well as by the new one,
\* unless the phone is gone before, the supervisor has ended, or the bound on dials is
\* reached.  (An id that is attached again between two polls is not new, and its phone
\* is not dialed.)
NewAttachmentDialed ==
    \A s \in Sups :
        (attached /\ sup[s] = "idle" /\ id[plugs] \notin known[s])
            ~> (~attached \/ DialsOf(s, plugs) # {} \/ sup[s] = "done" \/ Len(dials) = MaxDials)

\* A phone that has the desktop's key gets its session when nothing comes between.
PairedPhoneServed ==
    (faults = 0 /\ phone = "mock" /\ dkey = pkey /\ attached /\ dials = <<>>)
        ~> (faults > 0 \/ \E n \in DOMAIN dials : dials[n].state = "session")

\* docs/03-protocol.md: the first USB connection stores one pairing key on both sides.
SameKeyOnBothSides == phone = "ios" /\ dkey # 0 /\ pkey # 0 => dkey = pkey
=============================================================================
