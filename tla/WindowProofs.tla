---------------------------- MODULE WindowProofs ----------------------------
(***************************************************************************)
(* Proofs about Window, for any number of servers, sessions, lists and     *)
(* clicks, and every capacity of the events channel.                       *)
(***************************************************************************)
EXTENDS Window, SequenceTheorems, TLAPS

\* Servers are numbered in order, and handleStop waits for stop_server without one.
InOrder ==
    /\ handle \in {NoServer, started} /\ pump <= started /\ got.server <= started
    /\ ui.stopping = TRUE => handle = NoServer /\ ui.qr = TRUE

\* A server that was never started is as Init left it.
Unstarted ==
    \A k \in Servers : k > started =>
        /\ session[k] = "none" /\ told[k] = 0 /\ todo[k] = <<>> /\ chan[k] = <<>>
        /\ snap[k].state = "listening"
Numbered == InOrder /\ Unstarted

\* What a session task still has to send, and the state it has published by then.
Todos == {<<>>, <<"state:ready">>, <<"device:bare", "state:ready">>, <<"device:cams">>,
          <<"state:closed", "closed">>, <<"closed">>, <<"state:lost">>}
Due(q) == IF q \in {<<"state:closed", "closed">>, <<"closed">>} THEN "closed"
          ELSE IF q = <<"state:lost">> THEN "lost" ELSE "ready"
ScriptedAt(k) ==
    /\ todo[k] \in Todos
    /\ session[k] # "run" => todo[k] = <<>>
    /\ session[k] = "run" => snap[k].state = Due(todo[k])
    /\ todo[k] = <<"device:cams">> => snap[k].device = "cams"
Scripted == \A k \in Servers : ScriptedAt(k)

\* Events that decide the state and the device which the window shows.
DeviceEvents == {"device:bare", "device:cams", "closed"}
Without(q, K) == \A i \in 1 .. Len(q) : q[i] \notin K
LastOf(q, K, e) ==
    e \in K /\ \E i \in 1 .. Len(q) : q[i] = e /\ \A j \in 1 .. Len(q) : j > i => q[j] \notin K

\* A device counts once the session has told it, while the session is ready.
Counts(k) == told[k] > 0 /\ snap[k].state = "ready"

\* The last event in the channel tells what the snapshot says.
ToldState(k) ==
    Without(todo[k], StateEvents) =>
        \A e \in Events : LastOf(chan[k], StateEvents, e) => snap[k].state = Stated(e)
ToldDevice(k) ==
    Without(todo[k], DeviceEvents) /\ Counts(k) =>
        \A e \in Events : LastOf(chan[k], DeviceEvents, e) =>
            e # "closed" /\ snap[k].device = ShownDevice(e)

\* With nothing more to come, and nothing missed, the window shows what the snapshot
\* says, or is about to.
Showing == effect \in Kinds \cup {"on"} /\ foreign = FALSE
Fetching == effect = "read" /\ got.server = handle
Silent(k, K) == Without(todo[k], K) /\ Without(chan[k], K)
SettledState(k) ==
    Silent(k, StateEvents) /\ "state" \notin missed =>
        /\ Showing => (ui.state = "ready" <=> snap[k].state = "ready")
        /\ Fetching => got.state = snap[k].state
SettledDevice(k) ==
    Silent(k, DeviceEvents) /\ "device" \notin missed /\ Counts(k) =>
        /\ Showing => ui.device = snap[k].device
        /\ Fetching => got.device = snap[k].device

\* Without a server nothing is ready.
Unserved ==
    /\ Showing /\ handle = NoServer => ui.state # "ready"
    /\ got.server = NoServer => got.state = "idle"

Told == handle # NoServer => ToldState(handle) /\ ToldDevice(handle)
Settled == handle # NoServer => SettledState(handle) /\ SettledDevice(handle)

\* The inductive invariant.
IInv == TypeOK /\ Numbered /\ Scripted /\ Told /\ Settled /\ Unserved
-----------------------------------------------------------------------------
(* What each step leaves alone, and what it does. *)

\* Every step changes only what its task writes.
LEMMA Footprints ==
    /\ \A k \in Servers : Connect(k) =>
       UNCHANGED <<handle, started, pump, chan, ui, effect, got, stale, leaked, clicking,
                   clicks, missed, foreign>>
    /\ \A k \in Servers : \A m \in DOMAIN Script : Receive(k, m) =>
       UNCHANGED <<handle, started, pump, session, sessions, chan, ui, effect, got, stale,
                   leaked, clicking, clicks, missed, foreign>>
    /\ \A k \in Servers : SendEvent(k) =>
       UNCHANGED <<handle, started, pump, sessions, told, ui, effect, got, stale, leaked,
                   clicking, clicks, missed, foreign>>
    /\ SnapshotRead =>
       UNCHANGED <<handle, started, pump, session, sessions, told, todo, chan, snap, ui,
                   stale, leaked, clicking, clicks, foreign>>
    /\ SnapshotShown =>
       UNCHANGED <<handle, started, pump, session, sessions, told, todo, chan, snap, stale,
                   leaked, clicking, clicks, missed>>
    /\ Subscribe =>
       UNCHANGED <<handle, started, pump, session, sessions, told, todo, chan, snap, ui,
                   got, stale, leaked, clicking, clicks, missed, foreign>>
    /\ \A r \in stale : SubscribeStale(r) =>
       UNCHANGED <<handle, started, pump, session, sessions, told, todo, chan, snap, ui,
                   effect, got, clicking, clicks, missed, foreign>>
    /\ PumpLock =>
       UNCHANGED <<handle, started, session, sessions, told, todo, chan, snap, ui, effect,
                   got, stale, leaked, clicking, clicks, missed, foreign>>
    /\ PumpClosed =>
       UNCHANGED <<handle, started, session, sessions, told, todo, chan, snap, ui, effect,
                   got, stale, leaked, clicking, clicks, missed, foreign>>
    /\ Emit =>
       UNCHANGED <<handle, started, session, sessions, told, todo, snap, clicking, clicks>>
    /\ StartServer =>
       UNCHANGED <<pump, session, sessions, told, todo, chan, snap, effect, got, stale,
                   leaked, clicking, clicks, missed, foreign>>
    /\ StopServer =>
       UNCHANGED <<started, pump, session, sessions, told, todo, snap, effect, got, stale,
                   leaked, clicking, clicks, missed, foreign>>
    /\ StopDone =>
       UNCHANGED <<handle, started, pump, session, sessions, told, todo, chan, snap,
                   clicking, clicks>>
    /\ \A id \in CameraIds : ClickCamera(id) =>
       UNCHANGED <<handle, started, pump, session, sessions, told, todo, chan, snap, ui,
                   effect, got, stale, leaked, missed, foreign>>
    /\ \A id \in CameraIds : CameraAnswer(id) =>
       UNCHANGED <<handle, started, pump, session, sessions, told, todo, chan, snap, clicks,
                   missed, foreign>>
<1> USE DEF core, run, history, SetActive
<1>1. \A k \in Servers : Connect(k) =>
          UNCHANGED <<handle, started, pump, chan, ui, effect, got, stale, leaked, clicking,
                      clicks, missed, foreign>>
  BY DEF Connect
<1>2. \A k \in Servers : \A m \in DOMAIN Script : Receive(k, m) =>
          UNCHANGED <<handle, started, pump, session, sessions, chan, ui, effect, got,
                      stale, leaked, clicking, clicks, missed, foreign>>
  BY DEF Receive
<1>3. \A k \in Servers : SendEvent(k) =>
          UNCHANGED <<handle, started, pump, sessions, told, ui, effect, got, stale, leaked,
                      clicking, clicks, missed, foreign>>
  BY DEF SendEvent
<1>4. SnapshotRead =>
          UNCHANGED <<handle, started, pump, session, sessions, told, todo, chan, snap, ui,
                      stale, leaked, clicking, clicks, foreign>>
  BY DEF SnapshotRead
<1>5. SnapshotShown =>
          UNCHANGED <<handle, started, pump, session, sessions, told, todo, chan, snap,
                      stale, leaked, clicking, clicks, missed>>
  BY DEF SnapshotShown
<1>6. Subscribe =>
          UNCHANGED <<handle, started, pump, session, sessions, told, todo, chan, snap, ui,
                      got, stale, leaked, clicking, clicks, missed, foreign>>
  BY DEF Subscribe
<1>7. \A r \in stale : SubscribeStale(r) =>
          UNCHANGED <<handle, started, pump, session, sessions, told, todo, chan, snap, ui,
                      effect, got, clicking, clicks, missed, foreign>>
  BY DEF SubscribeStale
<1>8. PumpLock =>
          UNCHANGED <<handle, started, session, sessions, told, todo, chan, snap, ui,
                      effect, got, stale, leaked, clicking, clicks, missed, foreign>>
  BY DEF PumpLock
<1>9. PumpClosed =>
          UNCHANGED <<handle, started, session, sessions, told, todo, chan, snap, ui,
                      effect, got, stale, leaked, clicking, clicks, missed, foreign>>
  BY DEF PumpClosed
<1>10. Emit =>
          UNCHANGED <<handle, started, session, sessions, told, todo, snap, clicking,
                      clicks>>
  BY DEF Emit, IdleUi, IdleSnap
<1>11. StartServer =>
          UNCHANGED <<pump, session, sessions, told, todo, chan, snap, effect, got, stale,
                      leaked, clicking, clicks, missed, foreign>>
  BY DEF StartServer
<1>12. StopServer =>
          UNCHANGED <<started, pump, session, sessions, told, todo, snap, effect, got,
                      stale, leaked, clicking, clicks, missed, foreign>>
  BY DEF StopServer
<1>13. StopDone =>
          UNCHANGED <<handle, started, pump, session, sessions, told, todo, chan, snap,
                      clicking, clicks>>
  BY DEF StopDone, IdleUi, IdleSnap
<1>14. \A id \in CameraIds : ClickCamera(id) =>
          UNCHANGED <<handle, started, pump, session, sessions, told, todo, chan, snap, ui,
                      effect, got, stale, leaked, missed, foreign>>
  BY DEF ClickCamera
<1>15. \A id \in CameraIds : CameraAnswer(id) =>
          UNCHANGED <<handle, started, pump, session, sessions, told, todo, chan, snap,
                      clicks, missed, foreign>>
  BY DEF CameraAnswer, IdleUi, IdleSnap
<1> QED
  BY <1>1, <1>2, <1>3, <1>4, <1>5, <1>6, <1>7, <1>8, <1>9, <1>10, <1>11, <1>12, <1>13, <1>14,
     <1>15

\* A queue without its head.
LEMMA Tails ==
    ASSUME NEW S, NEW q \in Seq(S), q # <<>>
    PROVE  /\ Tail(q) \in Seq(S) /\ Len(q) \in Nat \ {0} /\ Len(Tail(q)) = Len(q) - 1
           /\ \A i \in 1 .. (Len(q) - 1) : Tail(q)[i] = q[i + 1]
           /\ Head(q) = q[1] /\ Head(q) \in S
  BY HeadTailProperties, EmptySeq

\* A queue with one event more.
LEMMA Appends ==
    ASSUME NEW S, NEW q \in Seq(S), NEW m \in S
    PROVE  /\ Append(q, m) \in Seq(S) /\ Len(q) \in Nat /\ Len(Append(q, m)) = Len(q) + 1
           /\ \A i \in 1 .. Len(q) : Append(q, m)[i] = q[i]
           /\ Append(q, m)[Len(q) + 1] = m
  BY AppendProperties

\* An empty queue.
LEMMA NothingLast ==
    ASSUME NEW K PROVE Without(<<>>, K) /\ \A e : ~LastOf(<<>>, K, e)
  BY DEF Without, LastOf

\* The last event of a kind, once an event was sent.
LEMMA LastSent ==
    ASSUME NEW S, NEW q \in Seq(S), NEW K, NEW m \in S
    PROVE  /\ m \in K => ~Without(Append(q, m), K)
                         /\ \A e : LastOf(Append(q, m), K, e) => e = m
           /\ m \notin K => (Without(Append(q, m), K) => Without(q, K))
                            /\ \A e : LastOf(Append(q, m), K, e) => LastOf(q, K, e)
<1> DEFINE a == Append(q, m)
<1>1. /\ Len(q) \in Nat /\ Len(a) = Len(q) + 1 /\ \A i \in 1 .. Len(q) : a[i] = q[i]
      /\ a[Len(q) + 1] = m
  BY Appends
<1> HIDE DEF a
<1>2. 1 .. Len(q) \subseteq 1 .. Len(a) /\ Len(q) + 1 \in 1 .. Len(a)
  BY <1>1
<1>3. ASSUME m \in K PROVE ~Without(a, K) /\ \A e : LastOf(a, K, e) => e = m
  <2>1. ~Without(a, K)
    BY <1>1, <1>2, <1>3 DEF Without
  <2>2. ASSUME NEW e, LastOf(a, K, e) PROVE e = m
    <3>1. PICK i \in 1 .. Len(a) : a[i] = e /\ \A j \in 1 .. Len(a) : j > i => a[j] \notin K
      BY <2>2 DEF LastOf
    <3>2. ~(Len(q) + 1 > i)
      BY <1>1, <1>2, <1>3, <3>1
    <3>3. i = Len(q) + 1
      BY <1>1, <3>2
    <3> QED
      BY <1>1, <3>1, <3>3
  <2> QED
    BY <2>1, <2>2
<1>4. ASSUME m \notin K
      PROVE  (Without(a, K) => Without(q, K)) /\ \A e : LastOf(a, K, e) => LastOf(q, K, e)
  <2>1. Without(a, K) => Without(q, K)
    BY <1>1, <1>2 DEF Without
  <2>2. ASSUME NEW e, LastOf(a, K, e) PROVE LastOf(q, K, e)
    <3>1. PICK i \in 1 .. Len(a) : a[i] = e /\ \A j \in 1 .. Len(a) : j > i => a[j] \notin K
      BY <2>2 DEF LastOf
    <3>2. e \in K
      BY <2>2 DEF LastOf
    <3>3. i # Len(q) + 1
      BY <1>1, <1>4, <3>1, <3>2
    <3>4. i \in 1 .. Len(q)
      BY <1>1, <3>3
    <3>5. q[i] = e /\ \A j \in 1 .. Len(q) : j > i => q[j] \notin K
      BY <1>1, <1>2, <3>1, <3>4
    <3> QED
      BY <3>2, <3>4, <3>5 DEF LastOf
  <2> QED
    BY <2>1, <2>2
<1> QED
  BY <1>3, <1>4 DEF a

\* The last event of a kind, once the head was taken.
LEMMA LastTaken ==
    ASSUME NEW S, NEW q \in Seq(S), q # <<>>, NEW K
    PROVE  /\ \A e : LastOf(Tail(q), K, e) => LastOf(q, K, e)
           /\ Without(Tail(q), K) =>
                IF Head(q) \in K THEN LastOf(q, K, Head(q)) ELSE Without(q, K)
<1> DEFINE t == Tail(q)
<1>1. /\ Len(q) \in Nat \ {0} /\ Len(t) = Len(q) - 1 /\ Head(q) = q[1]
      /\ \A i \in 1 .. (Len(q) - 1) : t[i] = q[i + 1]
  BY Tails
<1> HIDE DEF t
<1>2. \A j \in 1 .. Len(q) : j > 1 => j - 1 \in 1 .. Len(t) /\ t[j - 1] = q[j]
  BY <1>1
<1>3. ASSUME NEW e, LastOf(t, K, e) PROVE LastOf(q, K, e)
  <2>1. PICK i \in 1 .. Len(t) : t[i] = e /\ \A j \in 1 .. Len(t) : j > i => t[j] \notin K
    BY <1>3 DEF LastOf
  <2>2. i + 1 \in 1 .. Len(q) /\ q[i + 1] = e
    BY <1>1, <2>1
  <2>3. ASSUME NEW j \in 1 .. Len(q), j > i + 1 PROVE q[j] \notin K
    <3>1. j > 1 /\ j - 1 > i
      BY <1>1, <2>1, <2>3
    <3> QED
      BY <1>2, <2>1, <3>1
  <2>4. e \in K
    BY <1>3 DEF LastOf
  <2> QED
    BY <2>2, <2>3, <2>4 DEF LastOf
<1>4. ASSUME Without(t, K)
      PROVE  IF Head(q) \in K THEN LastOf(q, K, Head(q)) ELSE Without(q, K)
  <2>1. \A j \in 1 .. Len(q) : j > 1 => q[j] \notin K
    BY <1>2, <1>4 DEF Without
  <2>2. 1 \in 1 .. Len(q) /\ q[1] = Head(q)
    BY <1>1
  <2>3. CASE Head(q) \in K
    BY <2>1, <2>2, <2>3 DEF LastOf
  <2>4. CASE Head(q) \notin K
    <3>1. \A j \in 1 .. Len(q) : j = 1 \/ j > 1
      BY <1>1
    <3> QED
      BY <2>1, <2>2, <2>4, <3>1 DEF Without
  <2> QED
    BY <2>3, <2>4
<1> QED
  BY <1>3, <1>4 DEF t

\* The scripts' parts differ.
LEMMA TodosApart ==
    /\ <<>> # <<"state:ready">>
    /\ <<>> # <<"device:bare", "state:ready">>
    /\ <<>> # <<"device:cams">>
    /\ <<>> # <<"state:closed", "closed">>
    /\ <<>> # <<"closed">>
    /\ <<>> # <<"state:lost">>
    /\ <<"state:ready">> # <<"device:bare", "state:ready">>
    /\ <<"state:ready">> # <<"device:cams">>
    /\ <<"state:ready">> # <<"state:closed", "closed">>
    /\ <<"state:ready">> # <<"closed">>
    /\ <<"state:ready">> # <<"state:lost">>
    /\ <<"device:bare", "state:ready">> # <<"device:cams">>
    /\ <<"device:bare", "state:ready">> # <<"state:closed", "closed">>
    /\ <<"device:bare", "state:ready">> # <<"closed">>
    /\ <<"device:bare", "state:ready">> # <<"state:lost">>
    /\ <<"device:cams">> # <<"state:closed", "closed">>
    /\ <<"device:cams">> # <<"closed">>
    /\ <<"device:cams">> # <<"state:lost">>
    /\ <<"state:closed", "closed">> # <<"closed">>
    /\ <<"state:closed", "closed">> # <<"state:lost">>
    /\ <<"closed">> # <<"state:lost">>
  OBVIOUS

\* The state published by then, part by part.
LEMMA Dues ==
    /\ Due(<<>>) = "ready"
    /\ Due(<<"state:ready">>) = "ready"
    /\ Due(<<"device:bare", "state:ready">>) = "ready"
    /\ Due(<<"device:cams">>) = "ready"
    /\ Due(<<"state:closed", "closed">>) = "closed"
    /\ Due(<<"closed">>) = "closed"
    /\ Due(<<"state:lost">>) = "lost"
  BY TodosApart DEF Due

\* What a task has still to send, by the kind of its events.
LEMMA TodoKinds ==
    ASSUME NEW q \in Todos
    PROVE  /\ Without(q, StateEvents) <=> q \in {<<>>, <<"device:cams">>, <<"closed">>}
           /\ Without(q, DeviceEvents) <=> q \in {<<>>, <<"state:ready">>, <<"state:lost">>}
           /\ q \in Seq(Events)
<1> USE DEF Without, StateEvents, DeviceEvents, Events
<1>1. CASE q = <<>>
  BY <1>1
<1>2. CASE q = <<"state:ready">>
  BY <1>2
<1>3. CASE q = <<"device:bare", "state:ready">>
  BY <1>3
<1>4. CASE q = <<"device:cams">>
  BY <1>4
<1>5. CASE q = <<"state:closed", "closed">>
  BY <1>5
<1>6. CASE q = <<"closed">>
  BY <1>6
<1>7. CASE q = <<"state:lost">>
  BY <1>7
<1> QED
  BY <1>1, <1>2, <1>3, <1>4, <1>5, <1>6, <1>7 DEF Todos

-----------------------------------------------------------------------------
(* The sessions' steps. *)

\* A snapshot with another state, or another device.
LEMMA SnapsWith ==
    ASSUME NEW s \in Snaps, NEW v \in States, NEW d \in Devices
    PROVE  /\ s.state \in States /\ s.device \in Devices
           /\ [s EXCEPT !.state = v] \in Snaps /\ [s EXCEPT !.device = d] \in Snaps
           /\ [state |-> v, device |-> d] \in Snaps
           /\ [s EXCEPT !.state = v].state = v /\ [s EXCEPT !.state = v].device = s.device
           /\ [s EXCEPT !.device = d].device = d /\ [s EXCEPT !.device = d].state = s.state
  BY DEF Snaps

\* A session's step is its server's own.
Elsewhere(k) ==
    \A j \in Servers \ {k} :
        /\ session'[j] = session[j] /\ told'[j] = told[j] /\ todo'[j] = todo[j]
        /\ chan'[j] = chan[j] /\ snap'[j] = snap[j]

\* A phone is accepted.
LEMMA ConnectDoes ==
    ASSUME CoreOK, NEW k \in Servers, Connect(k)
    PROVE  /\ CoreOK' /\ Elsewhere(k) /\ handle = k
           /\ session'[k] = "run" /\ told'[k] = 0 /\ todo'[k] = <<"state:ready">>
           /\ chan'[k] = chan[k] /\ snap'[k].state = "ready" /\ snap'[k].device = snap[k].device
<1> USE WindowAssumption
<1> DEFINE s == [snap[k] EXCEPT !.state = "ready"]
<1>1. snap[k] \in Snaps /\ "ready" \in States /\ None \in Devices
  BY DEF CoreOK, States, Devices
<1>2. s \in Snaps /\ s.state = "ready" /\ s.device = snap[k].device
  BY <1>1, SnapsWith
<1>3. snap' = [snap EXCEPT ![k] = s]
  BY DEF Connect, Published
<1> HIDE DEF s
<1>4. snap' \in [Servers -> Snaps] /\ snap'[k] = s /\ \A j \in Servers \ {k} : snap'[j] = snap[j]
  BY <1>2, <1>3 DEF CoreOK
<1>5. /\ session' \in [Servers -> {"none", "run", "over"}] /\ session'[k] = "run"
      /\ \A j \in Servers \ {k} : session'[j] = session[j]
  BY DEF Connect, CoreOK
<1>6. /\ told' \in [Servers -> 0 .. MaxLists + 1] /\ told'[k] = 0
      /\ \A j \in Servers \ {k} : told'[j] = told[j]
  BY DEF Connect, CoreOK
<1>7. <<"state:ready">> \in Seq(Events)
  BY DEF Events, StateEvents
<1>8. /\ todo' \in [Servers -> Seq(Events)] /\ todo'[k] = <<"state:ready">>
      /\ \A j \in Servers \ {k} : todo'[j] = todo[j]
  BY <1>7 DEF Connect, CoreOK
<1>9. sessions' \in 0 .. MaxSessions
  BY DEF Connect, CoreOK
<1>10. handle = k /\ chan' = chan
  BY DEF Connect
<1>11. CoreOK'
  BY <1>4, <1>5, <1>6, <1>8, <1>9, <1>10 DEF CoreOK
<1>12. Elsewhere(k)
  BY <1>4, <1>5, <1>6, <1>8, <1>10 DEF Elsewhere
<1> QED
  BY <1>2, <1>4, <1>5, <1>6, <1>8, <1>10, <1>11, <1>12

\* A message is handled.
LEMMA ReceiveDoes ==
    ASSUME CoreOK, NEW k \in Servers, NEW m \in DOMAIN Script, Receive(k, m)
    PROVE  /\ CoreOK' /\ Elsewhere(k)
           /\ session[k] = "run" /\ session'[k] = "run" /\ todo[k] = <<>> /\ chan'[k] = chan[k]
           /\ \/ /\ m = "device" /\ todo'[k] = <<"device:bare", "state:ready">>
                 /\ snap'[k] = snap[k]
              \/ /\ m = "cameras" /\ todo'[k] = <<"device:cams">> /\ told[k] > 0
                 /\ snap'[k].state = snap[k].state /\ snap'[k].device = "cams"
              \/ /\ m = "bye" /\ todo'[k] = <<"state:closed", "closed">>
                 /\ snap'[k].state = "closed"
              \/ m = "lost" /\ todo'[k] = <<"state:lost">> /\ snap'[k].state = "lost"
<1> USE WindowAssumption
<1>m. m \in {"device", "cameras", "bye", "lost"}
  BY DEF Script
<1>1. /\ snap[k] \in Snaps /\ told[k] \in 0 .. MaxLists + 1
      /\ {"ready", "closed", "lost"} \subseteq States /\ "cams" \in Devices
  BY DEF CoreOK, States, Devices
<1>2. session[k] = "run" /\ todo[k] = <<>> /\ UNCHANGED <<session, sessions, chan>>
  BY DEF Receive
<1>3. /\ Published(k, m) \in Snaps
      /\ m = "device" => Published(k, m) = snap[k]
      /\ m = "cameras" => Published(k, m).state = snap[k].state /\ Published(k, m).device = "cams"
      /\ m = "bye" => Published(k, m).state = "closed"
      /\ m = "lost" => Published(k, m).state = "lost"
  <2>1. CASE m = "device"
    BY <1>1, <2>1 DEF Published
  <2>2. CASE m = "cameras"
    <3>1. Published(k, m) = [snap[k] EXCEPT !.device = "cams"]
      BY <2>2 DEF Published
    <3>2. /\ [snap[k] EXCEPT !.device = "cams"] \in Snaps
          /\ [snap[k] EXCEPT !.device = "cams"].device = "cams"
          /\ [snap[k] EXCEPT !.device = "cams"].state = snap[k].state
      BY <1>1, SnapsWith
    <3> QED
      BY <2>2, <3>1, <3>2
  <2>3. CASE m = "bye"
    <3>1. Published(k, m) = [snap[k] EXCEPT !.state = "closed"]
      BY <2>3 DEF Published
    <3>2. /\ [snap[k] EXCEPT !.state = "closed"] \in Snaps
          /\ [snap[k] EXCEPT !.state = "closed"].state = "closed"
          /\ [snap[k] EXCEPT !.state = "closed"].device = snap[k].device
      BY <1>1, SnapsWith
    <3> QED
      BY <2>3, <3>1, <3>2
  <2>4. CASE m = "lost"
    <3>1. Published(k, m) = [snap[k] EXCEPT !.state = "lost"]
      BY <2>4 DEF Published
    <3>2. /\ [snap[k] EXCEPT !.state = "lost"] \in Snaps
          /\ [snap[k] EXCEPT !.state = "lost"].state = "lost"
          /\ [snap[k] EXCEPT !.state = "lost"].device = snap[k].device
      BY <1>1, SnapsWith
    <3> QED
      BY <2>4, <3>1, <3>2
  <2> QED
    BY <1>m, <2>1, <2>2, <2>3, <2>4
<1>4. /\ snap' \in [Servers -> Snaps] /\ snap'[k] = Published(k, m)
      /\ \A j \in Servers \ {k} : snap'[j] = snap[j]
  BY <1>3 DEF Receive, CoreOK
<1>5. /\ Script["device"] = <<"device:bare", "state:ready">>
      /\ Script["cameras"] = <<"device:cams">>
      /\ Script["bye"] = <<"state:closed", "closed">> /\ Script["lost"] = <<"state:lost">>
  BY DEF Script
<1>6. Script[m] \in Seq(Events)
  <2>1. Script[m] \in Todos
    BY <1>m, <1>5 DEF Todos
  <2> QED
    BY <2>1, TodoKinds
<1>7. /\ todo' \in [Servers -> Seq(Events)] /\ todo'[k] = Script[m]
      /\ \A j \in Servers \ {k} : todo'[j] = todo[j]
  BY <1>6 DEF Receive, CoreOK
<1>8. /\ told' \in [Servers -> 0 .. MaxLists + 1] /\ \A j \in Servers \ {k} : told'[j] = told[j]
      /\ m = "cameras" => told[k] > 0
  <2>1. CASE m \in {"bye", "lost"}
    BY <2>1 DEF Receive, CoreOK
  <2>2. CASE m \in {"device", "cameras"}
    <3>1. told[k] \in 0 .. MaxLists /\ (m = "cameras" => told[k] > 0)
      BY <1>1, <2>2 DEF Receive
    <3>2. told' = [told EXCEPT ![k] = told[k] + 1]
      BY <2>2 DEF Receive
    <3>3. told[k] + 1 \in 0 .. MaxLists + 1
      BY <3>1
    <3> QED
      BY <3>1, <3>2, <3>3 DEF CoreOK
  <2> QED
    BY <1>m, <2>1, <2>2
<1>9. CoreOK'
  BY <1>2, <1>4, <1>7, <1>8 DEF CoreOK
<1>10. Elsewhere(k)
  BY <1>2, <1>4, <1>7, <1>8 DEF Elsewhere
<1> QED
  BY <1>m, <1>2, <1>3, <1>4, <1>5, <1>7, <1>8, <1>9, <1>10

\* The event that a task sends, and what is left.
Sends(k, q, ev, rest) == todo[k] = q /\ Head(todo[k]) = ev /\ todo'[k] = rest

\* An event is sent: only that of DEVICE_INFO is told before it is published.
LEMMA SendDoes ==
    ASSUME CoreOK, NEW k \in Servers, todo[k] \in Todos, SendEvent(k)
    PROVE  /\ CoreOK' /\ Elsewhere(k) /\ told'[k] = told[k]
           /\ chan'[k] = IF Receivable(k) THEN Append(chan[k], Head(todo[k])) ELSE chan[k]
           /\ Head(todo[k]) \in Events
           /\ \/ /\ Sends(k, <<"device:bare", "state:ready">>, "device:bare", <<"state:ready">>)
                 /\ session'[k] = session[k]
                 /\ snap'[k] = [state |-> "ready", device |-> "bare"]
              \/ /\ snap'[k] = snap[k] /\ session'[k] = session[k]
                 /\ \/ Sends(k, <<"state:ready">>, "state:ready", <<>>)
                    \/ Sends(k, <<"device:cams">>, "device:cams", <<>>)
                    \/ Sends(k, <<"state:closed", "closed">>, "state:closed", <<"closed">>)
              \/ /\ snap'[k] = snap[k] /\ session'[k] = "over"
                 /\ \/ Sends(k, <<"closed">>, "closed", <<>>)
                    \/ Sends(k, <<"state:lost">>, "state:lost", <<>>)
<1> USE WindowAssumption
<1> DEFINE ev == Head(todo[k])
<1>1. /\ snap[k] \in Snaps /\ chan[k] \in Seq(Events) /\ todo[k] \in Seq(Events)
      /\ Len(chan[k]) <= EventCap
  BY DEF CoreOK
<1>2. todo[k] # <<>> /\ UNCHANGED <<sessions, told>>
  BY DEF SendEvent
<1>3. ev \in Events /\ Tail(todo[k]) \in Seq(Events)
  BY <1>1, <1>2, Tails
<1>4. /\ todo' \in [Servers -> Seq(Events)] /\ todo'[k] = Tail(todo[k])
      /\ \A j \in Servers \ {k} : todo'[j] = todo[j]
  BY <1>3 DEF SendEvent, CoreOK
<1>5. \/ /\ todo[k] = <<"device:bare", "state:ready">> /\ ev = "device:bare"
         /\ todo'[k] = <<"state:ready">>
      \/ todo[k] = <<"state:ready">> /\ ev = "state:ready" /\ todo'[k] = <<>>
      \/ todo[k] = <<"device:cams">> /\ ev = "device:cams" /\ todo'[k] = <<>>
      \/ todo[k] = <<"state:closed", "closed">> /\ ev = "state:closed" /\ todo'[k] = <<"closed">>
      \/ todo[k] = <<"closed">> /\ ev = "closed" /\ todo'[k] = <<>>
      \/ todo[k] = <<"state:lost">> /\ ev = "state:lost" /\ todo'[k] = <<>>
  <2>1. ASSUME todo[k] = <<"device:bare", "state:ready">>
        PROVE  ev = "device:bare" /\ todo'[k] = <<"state:ready">>
    <3>1. /\ Head(<<"device:bare", "state:ready">>) = "device:bare"
          /\ Tail(<<"device:bare", "state:ready">>) = <<"state:ready">>
      OBVIOUS
    <3> QED
      BY <1>4, <2>1, <3>1
  <2>2. ASSUME todo[k] = <<"state:ready">> PROVE ev = "state:ready" /\ todo'[k] = <<>>
    <3>1. Head(<<"state:ready">>) = "state:ready" /\ Tail(<<"state:ready">>) = <<>>
      OBVIOUS
    <3> QED
      BY <1>4, <2>2, <3>1
  <2>3. ASSUME todo[k] = <<"device:cams">> PROVE ev = "device:cams" /\ todo'[k] = <<>>
    <3>1. Head(<<"device:cams">>) = "device:cams" /\ Tail(<<"device:cams">>) = <<>>
      OBVIOUS
    <3> QED
      BY <1>4, <2>3, <3>1
  <2>4. ASSUME todo[k] = <<"state:closed", "closed">>
        PROVE  ev = "state:closed" /\ todo'[k] = <<"closed">>
    <3>1. /\ Head(<<"state:closed", "closed">>) = "state:closed"
          /\ Tail(<<"state:closed", "closed">>) = <<"closed">>
      OBVIOUS
    <3> QED
      BY <1>4, <2>4, <3>1
  <2>5. ASSUME todo[k] = <<"closed">> PROVE ev = "closed" /\ todo'[k] = <<>>
    <3>1. Head(<<"closed">>) = "closed" /\ Tail(<<"closed">>) = <<>>
      OBVIOUS
    <3> QED
      BY <1>4, <2>5, <3>1
  <2>6. ASSUME todo[k] = <<"state:lost">> PROVE ev = "state:lost" /\ todo'[k] = <<>>
    <3>1. Head(<<"state:lost">>) = "state:lost" /\ Tail(<<"state:lost">>) = <<>>
      OBVIOUS
    <3> QED
      BY <1>4, <2>6, <3>1
  <2> QED
    BY <1>2, <2>1, <2>2, <2>3, <2>4, <2>5, <2>6 DEF Todos
<1>6. /\ Published(k, ev) \in Snaps
      /\ Published(k, ev) = IF ev = "device:bare" THEN [state |-> "ready", device |-> "bare"]
                            ELSE snap[k]
  <2>1. "ready" \in States /\ "bare" \in Devices
    BY DEF States, Devices
  <2>2. CASE ev = "device:bare"
    BY <1>1, <2>1, <2>2, SnapsWith DEF Published
  <2>3. CASE ev # "device:bare"
    BY <1>1, <1>5, <2>3 DEF Published
  <2> QED
    BY <2>2, <2>3
<1>7. /\ snap' \in [Servers -> Snaps] /\ snap'[k] = Published(k, ev)
      /\ \A j \in Servers \ {k} : snap'[j] = snap[j]
  BY <1>6 DEF SendEvent, CoreOK
<1>8. /\ session' \in [Servers -> {"none", "run", "over"}]
      /\ session'[k] = IF ev \in {"closed", "state:lost"} THEN "over" ELSE session[k]
      /\ \A j \in Servers \ {k} : session'[j] = session[j]
  BY DEF SendEvent, CoreOK
<1>9. /\ chan' \in [Servers -> Seq(Events)] /\ \A j \in Servers : Len(chan'[j]) <= EventCap
      /\ chan'[k] = IF Receivable(k) THEN Append(chan[k], ev) ELSE chan[k]
      /\ \A j \in Servers \ {k} : chan'[j] = chan[j]
  <2>1. CASE Receivable(k)
    <3>1. Append(chan[k], ev) \in Seq(Events) /\ Len(Append(chan[k], ev)) <= EventCap
      <4>1. Len(chan[k]) < EventCap
        BY <2>1 DEF SendEvent
      <4> QED
        BY <1>1, <1>3, <4>1, Appends
    <3>2. chan' = [chan EXCEPT ![k] = Append(chan[k], ev)]
      BY <2>1 DEF SendEvent
    <3> HIDE DEF ev
    <3> QED
      BY <2>1, <3>1, <3>2 DEF CoreOK
  <2>2. CASE ~Receivable(k)
    BY <2>2 DEF SendEvent, CoreOK
  <2> QED
    BY <2>1, <2>2
<1>10. CoreOK'
  BY <1>2, <1>4, <1>7, <1>8, <1>9 DEF CoreOK
<1>11. Elsewhere(k)
  BY <1>2, <1>4, <1>7, <1>8, <1>9 DEF Elsewhere
<1>12. told'[k] = told[k]
  BY <1>2
<1> QED
  BY <1>3, <1>5, <1>6, <1>7, <1>8, <1>9, <1>10, <1>11, <1>12 DEF Sends

-----------------------------------------------------------------------------
(* The window's steps. *)

\* What a view is made of.
LEMMA ViewFields ==
    ASSUME NEW v \in Views
    PROVE  /\ v.state \in States /\ v.device \in Devices /\ v.active \in CameraIds \cup {None}
           /\ v.qr \in BOOLEAN /\ v.stopping \in BOOLEAN
  BY DEF Views

\* The idle window and the idle answer.
LEMMA Idle ==
    /\ IdleUi \in Views /\ IdleUi.state = "idle" /\ IdleUi.stopping = FALSE
    /\ IdleSnap \in Answers /\ IdleSnap.state = "idle" /\ IdleSnap.server = NoServer
  BY DEF IdleUi, IdleSnap, Views, Answers, States, Devices, None

\* A change of camera starts the effect anew, or leaves it alone.
RunsOrStays ==
    \/ effect' = effect /\ got' = got
    \/ effect' = "ask" /\ got' = IdleSnap

\* setActiveCameraId.
LEMMA SetActiveDoes ==
    ASSUME WindowOK, NEW id, SetActive(id)
    PROVE  /\ RunsOrStays /\ stale' \subseteq [at : Kinds, none : BOOLEAN]
           /\ leaked' \subseteq [kind : Kinds, none : BOOLEAN]
           /\ effect' \in {"ask", "read", "on"} \cup Kinds /\ got' \in Answers
<1>1. CASE id = ui.active
  BY <1>1 DEF SetActive, run, RunsOrStays, WindowOK
<1>2. CASE id # ui.active
  <2>1. effect' = "ask" /\ got' = IdleSnap
    BY <1>2 DEF SetActive
  <2>2. leaked' \subseteq [kind : Kinds, none : BOOLEAN]
    <3>1. PICK late \in SUBSET Unresolved : leaked' = leaked \cup late
      BY <1>2 DEF SetActive
    <3>2. \A kind \in Kinds : Listener(kind, ui.active = None) \in [kind : Kinds, none : BOOLEAN]
      BY DEF Listener
    <3>3. Unresolved \subseteq [kind : Kinds, none : BOOLEAN]
      BY <3>2 DEF Unresolved
    <3> QED
      BY <3>1, <3>3 DEF WindowOK
  <2>3. stale' \subseteq [at : Kinds, none : BOOLEAN]
    <3>1. CASE effect \in Kinds
      <4> DEFINE r == [at |-> effect, none |-> ui.active = None]
      <4>1. r \in [at : Kinds, none : BOOLEAN]
        BY <3>1
      <4>2. stale' = stale \cup {r}
        BY <1>2, <3>1 DEF SetActive
      <4> HIDE DEF r
      <4> QED
        BY <4>1, <4>2 DEF WindowOK
    <3>2. CASE effect \notin Kinds
      BY <1>2, <3>2 DEF SetActive, WindowOK
    <3> QED
      BY <3>1, <3>2
  <2> QED
    BY <2>1, <2>2, <2>3, Idle DEF RunsOrStays
<1> QED
  BY <1>1, <1>2

\* The kinds of events.
LEMMA EventKinds ==
    ASSUME NEW ev \in Events
    PROVE  /\ KindOf(ev) \in Kinds /\ (KindOf(ev) = "state" <=> ev \in StateEvents)
           /\ KindOf(ev) # "state" <=> ev \in DeviceEvents
           /\ KindOf(ev) = "device" <=> ev \in {"device:bare", "device:cams"}
           /\ ev \in StateEvents => Stated(ev) \in States
           /\ ShownDevice(ev) \in Devices
  BY DEF KindOf, Kinds, Events, StateEvents, DeviceEvents, Stated, States, ShownDevice, Devices

\* What an event that is heard does to the window.
LEMMA ShownDoes ==
    ASSUME WindowOK, NEW ev \in Events
    PROVE  /\ Shown(ev) \in Views /\ Shown(ev).stopping = ui.stopping /\ Shown(ev).qr = ui.qr
           /\ Shown(ev).state = IF ev \in StateEvents THEN Stated(ev) ELSE ui.state
           /\ ev \in StateEvents => Shown(ev).device = ui.device
           /\ ev \in {"device:bare", "device:cams"} => Shown(ev).device = ShownDevice(ev)
<1>1. ui \in Views /\ "idle" \in States /\ None \in Devices /\ None \in CameraIds \cup {None}
  BY DEF WindowOK, States, Devices
<1>2. Chosen(ev) \in CameraIds \cup {None}
  <2>1. Cameras[1] \in CameraIds
    BY DEF CameraIds, Cameras
  <2> QED
    BY <1>1, <2>1, ViewFields DEF Chosen
<1>3. CASE ev \in StateEvents
  <2>1. KindOf(ev) = "state" /\ Stated(ev) \in States
    BY <1>3, EventKinds
  <2>2. Shown(ev) = [ui EXCEPT !.state = Stated(ev)]
    BY <2>1 DEF Shown
  <2>3. ev \notin {"device:bare", "device:cams"}
    BY <1>3 DEF StateEvents
  <2>4. /\ Shown(ev) \in Views /\ Shown(ev).state = Stated(ev) /\ Shown(ev).device = ui.device
        /\ Shown(ev).stopping = ui.stopping /\ Shown(ev).qr = ui.qr
    BY <1>1, <2>1, <2>2 DEF Views
  <2> QED
    BY <1>3, <2>3, <2>4
<1>4. CASE ev \in {"device:bare", "device:cams"}
  <2>1. KindOf(ev) = "device" /\ ShownDevice(ev) \in Devices /\ ev \notin StateEvents
    BY <1>4, EventKinds
  <2>2. Shown(ev) = [ui EXCEPT !.device = ShownDevice(ev), !.active = Chosen(ev)]
    BY <2>1 DEF Shown
  <2>3. Shown(ev) \in Views /\ Shown(ev).device = ShownDevice(ev) /\ Shown(ev).state = ui.state
        /\ Shown(ev).stopping = ui.stopping /\ Shown(ev).qr = ui.qr
    BY <1>1, <1>2, <2>1, <2>2 DEF Views
  <2> QED
    BY <1>4, <2>1, <2>3
<1>5. CASE ev \notin StateEvents /\ ev \notin {"device:bare", "device:cams"}
  <2>1. KindOf(ev) # "device" /\ KindOf(ev) # "state"
    BY <1>5, EventKinds
  <2>2. Shown(ev) = [ui EXCEPT !.device = None, !.active = None]
    BY <2>1 DEF Shown
  <2>3. Shown(ev) \in Views /\ Shown(ev).state = ui.state /\ Shown(ev).stopping = ui.stopping
        /\ Shown(ev).qr = ui.qr
    BY <1>1, <2>2 DEF Views
  <2> QED
    BY <1>5, <2>3
<1> QED
  BY <1>3, <1>4, <1>5

\* The pump takes the head of a channel to the window.
LEMMA EmitDoes ==
    ASSUME TypeOK, Emit, NEW ev, ev = Head(chan[pump])
    PROVE  /\ pump \in Servers /\ chan[pump] # <<>> /\ ev \in Events /\ CoreOK' /\ WindowOK'
           /\ chan'[pump] = Tail(chan[pump]) /\ \A j \in Servers \ {pump} : chan'[j] = chan[j]
           /\ RunsOrStays /\ ui'.stopping = ui.stopping /\ ui'.qr = ui.qr
           /\ foreign' = (foreign \/ pump # handle)
           /\ \/ /\ effect # "read" /\ missed' = missed \ {KindOf(ev)}
                 /\ ui'.state = IF ev \in StateEvents THEN Stated(ev) ELSE ui.state
                 /\ ev \in StateEvents => ui'.device = ui.device
                 /\ ev \in {"device:bare", "device:cams"} => ui'.device = ShownDevice(ev)
              \/ /\ missed' = missed \cup {KindOf(ev)}
                 /\ effect = "read" \/ ui' = ui
<1>1. pump \in Servers /\ chan[pump] # <<>> /\ chan[pump] \in Seq(Events) /\ WindowOK /\ CoreOK
  BY DEF Emit, TypeOK, ServersOK, CoreOK
<1>2. ev \in Events /\ Tail(chan[pump]) \in Seq(Events) /\ Len(Tail(chan[pump])) <= EventCap
  BY <1>1, Tails, WindowAssumption DEF CoreOK
<1>3. /\ chan' \in [Servers -> Seq(Events)] /\ chan'[pump] = Tail(chan[pump])
      /\ \A j \in Servers \ {pump} : chan'[j] = chan[j]
  BY <1>1, <1>2 DEF Emit, CoreOK
<1>4. \A j \in Servers : Len(chan'[j]) <= EventCap
  BY <1>1, <1>2, <1>3 DEF CoreOK
<1>5. CoreOK'
  BY <1>1, <1>3, <1>4, Footprints DEF CoreOK
<1>6. /\ ui' = IF Hears(KindOf(ev)) THEN Shown(ev) ELSE ui
      /\ missed' = IF effect # "read" /\ Hears(KindOf(ev)) THEN missed \ {KindOf(ev)}
                   ELSE missed \cup {KindOf(ev)}
      /\ foreign' = (foreign \/ pump # handle) /\ SetActive(ui'.active)
  BY DEF Emit
<1>7. /\ RunsOrStays /\ stale' \subseteq [at : Kinds, none : BOOLEAN]
      /\ leaked' \subseteq [kind : Kinds, none : BOOLEAN]
      /\ effect' \in {"ask", "read", "on"} \cup Kinds /\ got' \in Answers
  BY <1>1, <1>6, SetActiveDoes
<1>8. ui' \in Views /\ ui'.stopping = ui.stopping /\ ui'.qr = ui.qr
  BY <1>1, <1>2, <1>6, ShownDoes DEF WindowOK
<1>9. missed' \subseteq Kinds /\ foreign' \in BOOLEAN
  BY <1>1, <1>2, <1>6, EventKinds DEF WindowOK
<1>10. clicking' = clicking /\ clicks' = clicks
  BY Footprints
<1>11. WindowOK'
  BY <1>1, <1>7, <1>8, <1>9, <1>10 DEF WindowOK
<1>12. CASE effect # "read" /\ Hears(KindOf(ev))
  BY <1>1, <1>2, <1>3, <1>5, <1>6, <1>7, <1>8, <1>11, <1>12, ShownDoes
<1>13. CASE ~(effect # "read" /\ Hears(KindOf(ev)))
  BY <1>1, <1>2, <1>3, <1>5, <1>6, <1>7, <1>8, <1>11, <1>13
<1> QED
  BY <1>12, <1>13

-----------------------------------------------------------------------------
(* The types. *)

\* The handle, the pump and the number of servers.
LEMMA ServersStep == IInv /\ [Next]_vars => ServersOK'
<1> SUFFICES ASSUME IInv, [Next]_vars PROVE ServersOK'
  OBVIOUS
<1>t. TypeOK /\ ServersOK /\ CoreOK /\ WindowOK /\ Numbered /\ Scripted
  BY DEF IInv, TypeOK
<1>1. ASSUME UNCHANGED <<handle, started, pump>> PROVE ServersOK'
  BY <1>t, <1>1 DEF ServersOK
<1>2. ASSUME PumpLock PROVE ServersOK'
  BY <1>t, <1>2, Footprints DEF PumpLock, ServersOK
<1>3. ASSUME PumpClosed PROVE ServersOK'
  BY <1>t, <1>3, Footprints DEF PumpClosed, ServersOK
<1>4. ASSUME Emit PROVE ServersOK'
  BY <1>t, <1>4, Footprints DEF Emit, ServersOK
<1>5. ASSUME StartServer PROVE ServersOK'
  BY <1>t, <1>5, Footprints, WindowAssumption DEF StartServer, ServersOK, Servers, NoServer
<1>6. ASSUME StopServer PROVE ServersOK'
  BY <1>t, <1>6, Footprints DEF StopServer, ServersOK
<1>7. CASE UNCHANGED vars
  BY <1>7, <1>1 DEF vars, core, run, history
<1> QED
  BY <1>1, <1>2, <1>3, <1>4, <1>5, <1>6, <1>7, Footprints DEF Next, Session

\* The sessions, their channels and snapshots.
LEMMA CoreStep == IInv /\ [Next]_vars => CoreOK'
<1> SUFFICES ASSUME IInv, [Next]_vars PROVE CoreOK'
  OBVIOUS
<1>t. TypeOK /\ ServersOK /\ CoreOK /\ WindowOK /\ Numbered /\ Scripted
  BY DEF IInv, TypeOK
<1>1. ASSUME UNCHANGED <<sessions, session, told, chan, todo, snap>> PROVE CoreOK'
  BY <1>t, <1>1 DEF CoreOK
<1>2. ASSUME NEW k \in Servers, Connect(k) PROVE CoreOK'
  BY <1>t, <1>2, ConnectDoes
<1>3. ASSUME NEW k \in Servers, NEW m \in DOMAIN Script, Receive(k, m) PROVE CoreOK'
  BY <1>t, <1>3, ReceiveDoes
<1>4. ASSUME NEW k \in Servers, SendEvent(k) PROVE CoreOK'
  BY <1>t, <1>4, SendDoes DEF Scripted, ScriptedAt
<1>5. ASSUME Emit PROVE CoreOK'
  BY <1>t, <1>5, EmitDoes
<1>6. ASSUME StopServer PROVE CoreOK'
  <2>1. handle \in Servers
    BY <1>t, <1>6 DEF StopServer, ServersOK
  <2>2. chan' \in [Servers -> Seq(Events)] /\ \A k \in Servers : Len(chan'[k]) <= EventCap
    <3>1. CASE chan' = chan
      BY <1>t, <3>1 DEF CoreOK
    <3>2. CASE chan' = [chan EXCEPT ![handle] = <<>>]
      <4>1. <<>> \in Seq(Events) /\ Len(<<>>) <= EventCap
        BY EmptySeq, WindowAssumption
      <4>2. /\ chan' \in [Servers -> Seq(Events)] /\ chan'[handle] = <<>>
            /\ \A k \in Servers \ {handle} : chan'[k] = chan[k]
        BY <1>t, <2>1, <3>2, <4>1 DEF CoreOK
      <4> QED
        BY <1>t, <4>1, <4>2 DEF CoreOK
    <3> QED
      BY <1>6, <3>1, <3>2 DEF StopServer
  <2> QED
    BY <1>t, <1>6, <2>2, Footprints DEF CoreOK
<1>7. CASE UNCHANGED vars
  BY <1>7, <1>1 DEF vars, core, run, history
<1> QED
  BY <1>1, <1>2, <1>3, <1>4, <1>5, <1>6, <1>7, Footprints DEF Next, Session

\* The window, its effect and its listeners.
LEMMA WindowStep == IInv /\ [Next]_vars => WindowOK'
<1> SUFFICES ASSUME IInv, [Next]_vars PROVE WindowOK'
  OBVIOUS
<1>t. TypeOK /\ ServersOK /\ CoreOK /\ WindowOK /\ Numbered /\ Scripted
  BY DEF IInv, TypeOK
<1>1. ASSUME UNCHANGED <<ui, effect, got, stale, leaked, clicking, clicks, missed, foreign>>
      PROVE  WindowOK'
  BY <1>t, <1>1 DEF WindowOK
<1>2. ASSUME SnapshotRead PROVE WindowOK'
  <2>1. got' \in Answers
    <3>1. CASE handle = NoServer
      BY <1>2, <3>1, Idle DEF SnapshotRead
    <3>2. CASE handle # NoServer
      <4>1. handle \in Servers /\ snap[handle] \in Snaps
        BY <1>t, <3>2 DEF ServersOK, CoreOK
      <4>2. snap[handle].state \in States /\ snap[handle].device \in Devices
        BY <4>1 DEF Snaps
      <4>3. got' = [state |-> snap[handle].state, device |-> snap[handle].device, server |-> handle]
        BY <1>2, <3>2 DEF SnapshotRead
      <4> QED
        BY <4>1, <4>2, <4>3 DEF Answers
    <3> QED
      BY <3>1, <3>2
  <2> QED
    BY <1>t, <1>2, <2>1, Footprints DEF SnapshotRead, WindowOK
<1>3. ASSUME SnapshotShown PROVE WindowOK'
  <2>1. got.state \in States /\ got.device \in Devices
    BY <1>t DEF WindowOK, Answers
  <2>2. ui' = [ui EXCEPT !.state = got.state, !.device = got.device]
    BY <1>3 DEF SnapshotShown
  <2>3. ui' \in Views
    BY <1>t, <2>1, <2>2 DEF WindowOK, Views
  <2>4. effect' \in Kinds /\ got' \in Answers /\ foreign' \in BOOLEAN
    BY <1>3, Idle DEF SnapshotShown, Kinds
  <2> QED
    BY <1>t, <1>3, <2>3, <2>4, Footprints DEF WindowOK
<1>4. ASSUME Subscribe PROVE WindowOK'
  <2>1. effect' \in Kinds \cup {"on"}
    BY <1>4 DEF Subscribe, After, Kinds
  <2> QED
    BY <1>t, <1>4, <2>1, Footprints DEF WindowOK
<1>5. ASSUME NEW r \in stale, SubscribeStale(r) PROVE WindowOK'
  <2>1. r \in [at : Kinds, none : BOOLEAN]
    BY <1>t DEF WindowOK
  <2>2. r.at \in Kinds /\ r.none \in BOOLEAN /\ (r.at # "closed" => After(r.at) \in Kinds)
    BY <2>1 DEF Kinds, After
  <2>3. Listener(r.at, r.none) \in [kind : Kinds, none : BOOLEAN]
    BY <2>2 DEF Listener
  <2>4. r.at # "closed" => [r EXCEPT !.at = After(r.at)] \in [at : Kinds, none : BOOLEAN]
    BY <2>1, <2>2
  <2>5. leaked' \subseteq [kind : Kinds, none : BOOLEAN]
    BY <1>t, <1>5, <2>3 DEF SubscribeStale, WindowOK
  <2>6. stale' \subseteq [at : Kinds, none : BOOLEAN]
    BY <1>t, <1>5, <2>4 DEF SubscribeStale, WindowOK
  <2> QED
    BY <1>t, <1>5, <2>5, <2>6, Footprints DEF WindowOK
<1>6. ASSUME Emit PROVE WindowOK'
  BY <1>t, <1>6, EmitDoes
<1>7. ASSUME StartServer PROVE WindowOK'
  <2>1. ui' \in Views
    BY <1>t, <1>7 DEF StartServer, WindowOK, Views
  <2> QED
    BY <1>t, <1>7, <2>1, Footprints DEF WindowOK
<1>8. ASSUME StopServer PROVE WindowOK'
  <2>1. ui' \in Views
    BY <1>t, <1>8 DEF StopServer, WindowOK, Views
  <2> QED
    BY <1>t, <1>8, <2>1, Footprints DEF WindowOK
<1>9. ASSUME StopDone PROVE WindowOK'
  <2>1. ui' \in Views /\ missed' \subseteq Kinds /\ foreign' \in BOOLEAN /\ SetActive(None)
    BY <1>9, Idle DEF StopDone
  <2>2. /\ stale' \subseteq [at : Kinds, none : BOOLEAN]
        /\ leaked' \subseteq [kind : Kinds, none : BOOLEAN]
        /\ effect' \in {"ask", "read", "on"} \cup Kinds /\ got' \in Answers
    BY <1>t, <2>1, SetActiveDoes
  <2>3. clicking' = clicking /\ clicks' = clicks
    BY <1>9, Footprints
  <2> QED
    BY <1>t, <2>1, <2>2, <2>3 DEF WindowOK
<1>10. ASSUME NEW id \in CameraIds, ClickCamera(id) PROVE WindowOK'
  BY <1>t, <1>10, Footprints, WindowAssumption DEF ClickCamera, WindowOK
<1>11. ASSUME NEW id \in CameraIds, CameraAnswer(id) PROVE WindowOK'
  <2>1. clicking' \subseteq CameraIds
    BY <1>t, <1>11 DEF CameraAnswer, WindowOK
  <2>2. CASE UNCHANGED <<ui, run>>
    BY <1>t, <1>11, <2>1, <2>2, Footprints DEF run, WindowOK
  <2>3. CASE ui' = [ui EXCEPT !.active = id] /\ SetActive(id)
    <3>1. ui' \in Views
      BY <1>t, <2>3 DEF WindowOK, Views
    <3>2. /\ stale' \subseteq [at : Kinds, none : BOOLEAN]
          /\ leaked' \subseteq [kind : Kinds, none : BOOLEAN]
          /\ effect' \in {"ask", "read", "on"} \cup Kinds /\ got' \in Answers
      BY <1>t, <2>3, SetActiveDoes
    <3> QED
      BY <1>t, <1>11, <2>1, <3>1, <3>2, Footprints DEF WindowOK
  <2> QED
    BY <1>11, <2>2, <2>3 DEF CameraAnswer
<1>12. CASE UNCHANGED vars
  BY <1>12, <1>1 DEF vars, core, run, history
<1> QED
  BY <1>1, <1>2, <1>3, <1>4, <1>5, <1>6, <1>7, <1>8, <1>9, <1>10, <1>11, <1>12, Footprints DEF
     Next, Session

\* Every step keeps the types.
LEMMA TypeStep == IInv /\ [Next]_vars => TypeOK'
  BY ServersStep, CoreStep, WindowStep DEF TypeOK

-----------------------------------------------------------------------------
(* Servers and what their sessions have still to send. *)

\* A server that was never started is left alone.
LEMMA UnstartedStep == IInv /\ [Next]_vars => Unstarted'
<1> SUFFICES ASSUME IInv, [Next]_vars PROVE Unstarted'
  OBVIOUS
<1>t. TypeOK /\ ServersOK /\ CoreOK /\ WindowOK /\ Numbered /\ Scripted
  BY DEF IInv, TypeOK
<1>n. /\ handle \in {NoServer, started} /\ pump <= started /\ got.server <= started
      /\ (ui.stopping = TRUE => handle = NoServer /\ ui.qr = TRUE)
      /\ started \in Nat
  BY <1>t DEF Numbered, InOrder, ServersOK
<1>u. Unstarted
  BY <1>t DEF Numbered
<1>1. ASSUME UNCHANGED <<started, session, told, todo, chan, snap>> PROVE Unstarted'
  BY <1>u, <1>1 DEF Unstarted
<1>2. ASSUME NEW k \in Servers, Connect(k) PROVE Unstarted'
  <2>1. k = handle /\ Elsewhere(k)
    BY <1>t, <1>2, ConnectDoes
  <2>2. ~(k > started) /\ started' = started
    BY <1>n, <1>2, <2>1, WindowAssumption, Footprints DEF Servers, NoServer
  <2> QED
    BY <1>u, <2>1, <2>2 DEF Elsewhere, Unstarted
<1>3. ASSUME NEW k \in Servers, NEW m \in DOMAIN Script, Receive(k, m) PROVE Unstarted'
  <2>1. session[k] = "run" /\ Elsewhere(k)
    BY <1>t, <1>3, ReceiveDoes
  <2>2. ~(k > started) /\ started' = started
    BY <1>u, <1>3, <2>1, Footprints DEF Unstarted
  <2> QED
    BY <1>u, <2>1, <2>2 DEF Elsewhere, Unstarted
<1>4. ASSUME NEW k \in Servers, SendEvent(k) PROVE Unstarted'
  <2>1. todo[k] # <<>> /\ Elsewhere(k)
    BY <1>t, <1>4, SendDoes DEF SendEvent, Scripted, ScriptedAt
  <2>2. ~(k > started) /\ started' = started
    BY <1>u, <1>4, <2>1, Footprints DEF Unstarted
  <2> QED
    BY <1>u, <2>1, <2>2 DEF Elsewhere, Unstarted
<1>5. ASSUME Emit PROVE Unstarted'
  <2>1. pump \in Servers /\ \A j \in Servers \ {pump} : chan'[j] = chan[j]
    BY <1>t, <1>5, EmitDoes
  <2>2. ~(pump > started)
    BY <1>n, <2>1, WindowAssumption DEF Servers
  <2> QED
    BY <1>u, <1>5, <2>1, <2>2, Footprints DEF Unstarted
<1>6. ASSUME StartServer PROVE Unstarted'
  <2>1. started' = started + 1
    BY <1>6 DEF StartServer
  <2>2. \A k \in Servers : k > started' => k > started
    BY <1>n, <2>1, WindowAssumption DEF Servers
  <2> QED
    BY <1>u, <1>6, <2>2, Footprints DEF Unstarted
<1>7. ASSUME StopServer PROVE Unstarted'
  <2>1. handle \in Servers /\ ~(handle > started)
    BY <1>t, <1>n, <1>7, WindowAssumption DEF StopServer, ServersOK, Servers
  <2>2. \A k \in Servers \ {handle} : chan'[k] = chan[k]
    BY <1>t, <1>7, <2>1 DEF StopServer, CoreOK
  <2> QED
    BY <1>u, <1>7, <2>1, <2>2, Footprints DEF Unstarted
<1>8. CASE UNCHANGED vars
  BY <1>8, <1>1 DEF vars, core, run, history
<1> QED
  BY <1>1, <1>2, <1>3, <1>4, <1>5, <1>6, <1>7, <1>8, Footprints DEF Next, Session

\* Servers come in order, and stop_server leaves none.
LEMMA InOrderStep == IInv /\ [Next]_vars => InOrder'
<1> SUFFICES ASSUME IInv, [Next]_vars PROVE InOrder'
  OBVIOUS
<1>t. TypeOK /\ ServersOK /\ CoreOK /\ WindowOK /\ Numbered /\ Scripted
  BY DEF IInv, TypeOK
<1>n. /\ handle \in {NoServer, started} /\ pump <= started /\ got.server <= started
      /\ (ui.stopping = TRUE => handle = NoServer /\ ui.qr = TRUE)
      /\ started \in Nat
  BY <1>t DEF Numbered, InOrder, ServersOK
<1>1. ASSUME UNCHANGED <<handle, started, pump, got, ui>> PROVE InOrder'
  BY <1>n, <1>1 DEF InOrder
<1>2. ASSUME SnapshotRead PROVE InOrder'
  <2>1. got'.server = handle \/ got'.server = NoServer
    BY <1>2, Idle DEF SnapshotRead
  <2>2. got'.server <= started
    BY <1>n, <2>1 DEF NoServer
  <2> QED
    BY <1>n, <1>2, <2>2, Footprints DEF InOrder
<1>3. ASSUME SnapshotShown PROVE InOrder'
  <2>1. ui' = [ui EXCEPT !.state = got.state, !.device = got.device] /\ got' = IdleSnap
    BY <1>3 DEF SnapshotShown
  <2>2. ui'.stopping = ui.stopping /\ ui'.qr = ui.qr
    BY <1>t, <2>1 DEF WindowOK, Views
  <2>3. got'.server <= started
    BY <1>n, <2>1, Idle DEF NoServer
  <2> QED
    BY <1>n, <1>3, <2>2, <2>3, Footprints DEF InOrder
<1>4. ASSUME PumpLock PROVE InOrder'
  BY <1>n, <1>4, Footprints DEF PumpLock, InOrder, NoServer
<1>5. ASSUME PumpClosed PROVE InOrder'
  BY <1>n, <1>5, Footprints DEF PumpClosed, InOrder, NoServer
<1>6. ASSUME Emit PROVE InOrder'
  <2>1. ui'.stopping = ui.stopping /\ ui'.qr = ui.qr /\ pump' = NoServer /\ RunsOrStays
    BY <1>t, <1>6, EmitDoes DEF Emit
  <2>2. got'.server <= started /\ pump' <= started
    BY <1>n, <2>1, Idle DEF RunsOrStays, NoServer
  <2> QED
    BY <1>n, <1>6, <2>1, <2>2, Footprints DEF InOrder
<1>7. ASSUME StartServer PROVE InOrder'
  <2>1. handle' = started' /\ started' = started + 1 /\ handle = NoServer
    BY <1>7 DEF StartServer
  <2>2. got.server <= started' /\ pump <= started'
    BY <1>t, <1>n, <2>1, WindowAssumption DEF ServersOK, Servers, NoServer, WindowOK, Answers
  <2>3. ui.stopping = FALSE
    BY <1>t, <1>n, <1>7 DEF StartServer, WindowOK, Views
  <2>4. ui'.stopping = FALSE
    BY <1>t, <1>7, <2>3 DEF StartServer, WindowOK, Views
  <2> QED
    BY <1>n, <1>7, <2>1, <2>2, <2>4, Footprints DEF InOrder
<1>8. ASSUME StopServer PROVE InOrder'
  <2>1. handle' = NoServer /\ ui' = [ui EXCEPT !.stopping = TRUE] /\ ui.qr
    BY <1>8 DEF StopServer, ShowServer
  <2>2. ui'.qr = TRUE
    BY <1>t, <2>1 DEF WindowOK, Views
  <2> QED
    BY <1>n, <1>8, <2>1, <2>2, Footprints DEF InOrder
<1>9. ASSUME StopDone PROVE InOrder'
  <2>1. ui'.stopping = FALSE /\ SetActive(None)
    BY <1>9, Idle DEF StopDone
  <2>2. RunsOrStays
    BY <1>t, <2>1, SetActiveDoes
  <2>3. got'.server <= started
    BY <1>n, <2>2, Idle DEF RunsOrStays, NoServer
  <2> QED
    BY <1>n, <1>9, <2>1, <2>3, Footprints DEF InOrder
<1>10. ASSUME NEW id \in CameraIds, CameraAnswer(id) PROVE InOrder'
  <2>1. CASE UNCHANGED <<ui, run>>
    BY <1>n, <1>10, <2>1, Footprints DEF run, InOrder
  <2>2. CASE ui' = [ui EXCEPT !.active = id] /\ SetActive(id)
    <3>1. ui'.stopping = ui.stopping /\ ui'.qr = ui.qr
      BY <1>t, <2>2 DEF WindowOK, Views
    <3>2. RunsOrStays
      BY <1>t, <2>2, SetActiveDoes
    <3>3. got'.server <= started
      BY <1>n, <3>2, Idle DEF RunsOrStays, NoServer
    <3> QED
      BY <1>n, <1>10, <3>1, <3>3, Footprints DEF InOrder
  <2> QED
    BY <1>10, <2>1, <2>2 DEF CameraAnswer
<1>11. CASE UNCHANGED vars
  BY <1>11, <1>1 DEF vars, core, run, history
<1> QED
  BY <1>1, <1>2, <1>3, <1>4, <1>5, <1>6, <1>7, <1>8, <1>9, <1>10, <1>11, Footprints DEF Next,
     Session

\* The task sends what its message made it owe.
LEMMA ScriptedStep == IInv /\ [Next]_vars => Scripted'
<1> SUFFICES ASSUME IInv, [Next]_vars PROVE Scripted'
  OBVIOUS
<1>t. TypeOK /\ ServersOK /\ CoreOK /\ WindowOK /\ Numbered /\ Scripted
  BY DEF IInv, TypeOK
<1>a. \A k \in Servers : ScriptedAt(k)
  BY <1>t DEF Scripted
<1>1. ASSUME UNCHANGED <<todo, session, snap>> PROVE Scripted'
  BY <1>a, <1>1 DEF Scripted, ScriptedAt
<1>2. ASSUME NEW k \in Servers, Connect(k) PROVE Scripted'
  <2>1. Elsewhere(k)
    BY <1>t, <1>a, <1>2, ConnectDoes DEF ScriptedAt
  <2>2. \A j \in Servers \ {k} : ScriptedAt(j)'
    BY <1>a, <2>1 DEF Elsewhere, ScriptedAt
  <2>3. ScriptedAt(k)'
    BY <1>t, <1>2, ConnectDoes, Dues, TodosApart DEF ScriptedAt, Todos
  <2> QED
    BY <2>2, <2>3 DEF Scripted
<1>3. ASSUME NEW k \in Servers, NEW m \in DOMAIN Script, Receive(k, m) PROVE Scripted'
  <2>1. Elsewhere(k)
    BY <1>t, <1>a, <1>3, ReceiveDoes DEF ScriptedAt
  <2>2. \A j \in Servers \ {k} : ScriptedAt(j)'
    BY <1>a, <2>1 DEF Elsewhere, ScriptedAt
  <2>3. ScriptedAt(k)'
    <3>1. snap[k].state = "ready"
      BY <1>t, <1>a, <1>3, ReceiveDoes, Dues DEF ScriptedAt
    <3> QED
      BY <1>t, <1>3, <3>1, ReceiveDoes, Dues, TodosApart DEF ScriptedAt, Todos
  <2> QED
    BY <2>2, <2>3 DEF Scripted
<1>4. ASSUME NEW k \in Servers, SendEvent(k) PROVE Scripted'
  <2>1. Elsewhere(k)
    BY <1>t, <1>a, <1>4, SendDoes DEF ScriptedAt
  <2>2. \A j \in Servers \ {k} : ScriptedAt(j)'
    BY <1>a, <2>1 DEF Elsewhere, ScriptedAt
  <2>3. ScriptedAt(k)'
    <3>1. todo[k] \in Todos /\ todo[k] # <<>>
      BY <1>a, <1>4 DEF ScriptedAt, SendEvent
    <3>2. session[k] = "run" /\ snap[k].state = Due(todo[k])
      BY <1>a, <3>1 DEF ScriptedAt
    <3>3. todo'[k] \in Todos
      BY <1>t, <1>4, <3>1, SendDoes DEF Sends, Todos
    <3>4. session'[k] # "run" => todo'[k] = <<>>
      BY <1>t, <1>4, <3>1, <3>2, SendDoes DEF Sends
    <3>5. session'[k] = "run" => snap'[k].state = Due(todo'[k])
      BY <1>t, <1>4, <3>1, <3>2, SendDoes, Dues DEF Sends
    <3>6. todo'[k] # <<"device:cams">>
      BY <1>t, <1>4, <3>1, SendDoes, TodosApart DEF Sends
    <3> QED
      BY <3>3, <3>4, <3>5, <3>6 DEF ScriptedAt
  <2> QED
    BY <2>2, <2>3 DEF Scripted
<1>5. CASE UNCHANGED vars
  BY <1>5, <1>1 DEF vars, core, run, history
<1> QED
  BY <1>1, <1>2, <1>3, <1>4, <1>5, Footprints DEF Next, Session

-----------------------------------------------------------------------------
(* The channel tells what the snapshot says. *)

\* The last event in the channel tells what the snapshot says.
LEMMA ToldStep == IInv /\ [Next]_vars => Told'
<1> SUFFICES ASSUME IInv, [Next]_vars PROVE Told'
  OBVIOUS
<1>t. TypeOK /\ ServersOK /\ CoreOK /\ WindowOK /\ Numbered /\ Scripted /\ Told
  BY DEF IInv, TypeOK
<1> SUFFICES ASSUME handle' # NoServer PROVE ToldState(handle)' /\ ToldDevice(handle)'
  BY DEF Told
<1>1. ASSUME UNCHANGED <<handle, todo, chan, snap, told>>
      PROVE  ToldState(handle)' /\ ToldDevice(handle)'
  BY <1>t, <1>1 DEF Told, ToldState, ToldDevice, Counts
<1>2. ASSUME NEW k \in Servers, Connect(k) PROVE ToldState(handle)' /\ ToldDevice(handle)'
  <2>1. handle' = handle /\ handle \in Servers
    BY <1>t, <1>2, Footprints DEF ServersOK
  <2>2. CASE k # handle
    <3>1. Elsewhere(k)
      BY <1>t, <1>2, ConnectDoes DEF Scripted, ScriptedAt
    <3> QED
      BY <1>t, <1>2, <2>1, <2>2, <3>1, Footprints DEF Elsewhere, Told, ToldState, ToldDevice,
         Counts
  <2>3. CASE k = handle
    <3>1. todo'[k] = <<"state:ready">> /\ told'[k] = 0
      BY <1>t, <1>2, ConnectDoes
    <3>2. ~Without(todo'[k], StateEvents)
      BY <3>1, TodoKinds DEF Todos
    <3>3. ~(Counts(handle)')
      BY <2>1, <2>3, <3>1 DEF Counts
    <3> QED
      BY <2>1, <2>3, <3>2, <3>3 DEF ToldState, ToldDevice
  <2> QED
    BY <2>2, <2>3
<1>3. ASSUME NEW k \in Servers, NEW m \in DOMAIN Script, Receive(k, m)
      PROVE  ToldState(handle)' /\ ToldDevice(handle)'
  <2>1. handle' = handle /\ handle \in Servers
    BY <1>t, <1>3, Footprints DEF ServersOK
  <2>2. CASE k # handle
    <3>1. Elsewhere(k)
      BY <1>t, <1>3, ReceiveDoes DEF Scripted, ScriptedAt
    <3> QED
      BY <1>t, <1>3, <2>1, <2>2, <3>1, Footprints DEF Elsewhere, Told, ToldState, ToldDevice,
         Counts
  <2>3. CASE k = handle
    <3>1. Without(todo[k], StateEvents)
      BY <1>t, <1>3, ReceiveDoes, NothingLast
    <3>2. todo'[k] \in Todos
      BY <1>t, <1>3, ReceiveDoes DEF Todos
    <3>3. ASSUME Without(todo'[k], StateEvents) PROVE snap'[k].state = snap[k].state
      BY <1>t, <1>3, <3>2, <3>3, ReceiveDoes, TodoKinds, TodosApart
    <3>4. ASSUME Without(todo'[k], DeviceEvents) PROVE snap'[k].state # "ready"
      BY <1>t, <1>3, <3>2, <3>4, ReceiveDoes, TodoKinds, TodosApart
    <3>5. chan'[k] = chan[k] /\ ToldState(k)
      BY <1>t, <1>3, <2>3, ReceiveDoes DEF Told, Receive
    <3>6. ToldState(handle)'
      BY <2>1, <2>3, <3>1, <3>3, <3>5 DEF ToldState
    <3>7. ToldDevice(handle)'
      BY <2>1, <2>3, <3>4 DEF ToldDevice, Counts
    <3> QED
      BY <3>6, <3>7
  <2> QED
    BY <2>2, <2>3
<1>4. ASSUME NEW k \in Servers, SendEvent(k) PROVE ToldState(handle)' /\ ToldDevice(handle)'
  <2>1. handle' = handle /\ handle \in Servers
    BY <1>t, <1>4, Footprints DEF ServersOK
  <2>2. CASE k # handle
    <3>1. Elsewhere(k)
      BY <1>t, <1>4, SendDoes DEF Scripted, ScriptedAt
    <3> QED
      BY <1>t, <1>4, <2>1, <2>2, <3>1, Footprints DEF Elsewhere, Told, ToldState, ToldDevice,
         Counts
  <2>3. CASE k = handle
    <3> DEFINE ev == Head(todo[k])
    <3>1. todo[k] \in Todos /\ todo'[k] \in Todos /\ ev \in Events /\ chan[k] \in Seq(Events)
      BY <1>t, <1>4, SendDoes DEF Scripted, ScriptedAt, Sends, Todos, CoreOK
    <3>2. chan'[k] = Append(chan[k], ev)
      BY <1>t, <1>4, <2>3, <3>1, SendDoes DEF Receivable
    <3>3. session[k] = "run" /\ snap[k].state = Due(todo[k])
      BY <1>t, <1>4 DEF Scripted, ScriptedAt, SendEvent
    <3>4. ToldState(k) /\ ToldDevice(k)
      BY <1>t, <2>1, <2>3, <1>4 DEF Told
    <3>5. ASSUME Without(todo'[k], StateEvents), NEW e \in Events,
                 LastOf(chan'[k], StateEvents, e)
          PROVE  snap'[k].state = Stated(e)
      <4>1. CASE ev \in StateEvents
        <5>1. e = ev
          BY <3>1, <3>2, <3>5, <4>1, LastSent
        <5>2. snap'[k].state = Stated(ev)
          BY <1>t, <1>4, <3>1, <3>3, <3>5, <4>1, SendDoes, TodoKinds, TodosApart, Dues DEF
             Sends, Stated, StateEvents
        <5> QED
          BY <5>1, <5>2
      <4>2. CASE ev \notin StateEvents
        <5>1. LastOf(chan[k], StateEvents, e)
          BY <3>1, <3>2, <3>5, <4>2, LastSent
        <5>2. snap'[k] = snap[k] /\ todo[k] \in {<<"device:cams">>, <<"closed">>}
          BY <1>t, <1>4, <3>1, <3>5, <4>2, SendDoes, TodoKinds, TodosApart DEF Sends,
             StateEvents
        <5>3. Without(todo[k], StateEvents)
          BY <3>1, <5>2, TodoKinds
        <5> QED
          BY <3>4, <3>5, <5>1, <5>2, <5>3 DEF ToldState
      <4> QED
        BY <4>1, <4>2
    <3>6. ASSUME Without(todo'[k], DeviceEvents), Counts(k)', NEW e \in Events,
                 LastOf(chan'[k], DeviceEvents, e)
          PROVE  e # "closed" /\ snap'[k].device = ShownDevice(e)
      <4>1. CASE ev \in DeviceEvents
        <5>1. e = ev
          BY <3>1, <3>2, <3>6, <4>1, LastSent
        <5>2. snap'[k].state = "ready"
          BY <3>6 DEF Counts
        <5>3. ev # "closed"
          BY <1>t, <1>4, <3>1, <3>3, <5>2, SendDoes, Dues DEF Sends
        <5>4. CASE ev = "device:bare"
          <6>1. snap'[k] = [state |-> "ready", device |-> "bare"]
            BY <1>t, <1>4, <3>1, <5>4, SendDoes DEF Sends
          <6> QED
            BY <5>1, <5>4, <6>1 DEF ShownDevice
        <5>5. CASE ev = "device:cams"
          <6>1. snap'[k] = snap[k] /\ todo[k] = <<"device:cams">>
            BY <1>t, <1>4, <3>1, <5>5, SendDoes DEF Sends
          <6>2. snap[k].device = "cams"
            BY <1>t, <6>1 DEF Scripted, ScriptedAt
          <6> QED
            BY <5>1, <5>5, <6>1, <6>2 DEF ShownDevice
        <5> QED
          BY <4>1, <5>3, <5>4, <5>5 DEF DeviceEvents
      <4>2. CASE ev \notin DeviceEvents
        <5>1. LastOf(chan[k], DeviceEvents, e)
          BY <3>1, <3>2, <3>6, <4>2, LastSent
        <5>2. /\ snap'[k] = snap[k] /\ told'[k] = told[k]
              /\ todo[k] \in {<<"state:ready">>, <<"state:lost">>}
          BY <1>t, <1>4, <3>1, <3>6, <4>2, SendDoes, TodoKinds, TodosApart DEF Sends,
             DeviceEvents
        <5>3. Without(todo[k], DeviceEvents)
          BY <3>1, <5>2, TodoKinds
        <5>4. Counts(k)
          BY <3>6, <5>2 DEF Counts
        <5> QED
          BY <3>4, <5>1, <5>2, <5>3, <5>4 DEF ToldDevice
      <4> QED
        BY <4>1, <4>2
    <3>7. ToldState(k)'
      BY <3>5 DEF ToldState
    <3>8. ToldDevice(k)'
      BY <3>6 DEF ToldDevice
    <3> QED
      BY <2>1, <2>3, <3>7, <3>8
  <2> QED
    BY <2>2, <2>3
<1>5. ASSUME Emit PROVE ToldState(handle)' /\ ToldDevice(handle)'
  <2>1. handle' = handle /\ handle \in Servers /\ UNCHANGED <<todo, snap, told>>
    BY <1>t, <1>5, Footprints DEF ServersOK
  <2>2. ToldState(handle) /\ ToldDevice(handle) /\ chan[handle] \in Seq(Events)
    BY <1>t, <2>1 DEF Told, CoreOK
  <2>3. ASSUME NEW K, NEW e, LastOf(chan'[handle], K, e) PROVE LastOf(chan[handle], K, e)
    <3>1. CASE pump # handle
      BY <1>t, <1>5, <2>1, <2>3, <3>1, EmitDoes
    <3>2. CASE pump = handle
      <4>1. chan'[handle] = Tail(chan[handle]) /\ chan[handle] # <<>>
        BY <1>t, <1>5, <3>2, EmitDoes
      <4> QED
        BY <2>2, <2>3, <4>1, LastTaken
    <3> QED
      BY <3>1, <3>2
  <2>4. ToldState(handle)'
    BY <2>1, <2>2, <2>3 DEF ToldState
  <2>5. ToldDevice(handle)'
    BY <2>1, <2>2, <2>3 DEF ToldDevice, Counts
  <2> QED
    BY <2>4, <2>5
<1>6. ASSUME StartServer PROVE ToldState(handle)' /\ ToldDevice(handle)'
  <2>1. handle' = started + 1 /\ handle' \in Servers /\ UNCHANGED <<todo, chan, snap, told>>
    BY <1>t, <1>6, Footprints, WindowAssumption DEF StartServer, ServersOK, Servers
  <2>2. chan'[handle'] = <<>>
    BY <1>t, <2>1 DEF Numbered, Unstarted, ServersOK
  <2>3. \A e, K : ~LastOf(chan'[handle'], K, e)
    BY <2>2, NothingLast
  <2> QED
    BY <2>3 DEF ToldState, ToldDevice
<1>7. ASSUME StopServer PROVE ToldState(handle)' /\ ToldDevice(handle)'
  BY <1>7 DEF StopServer
<1>8. CASE UNCHANGED vars
  BY <1>8, <1>1 DEF vars, core, run, history
<1> QED
  BY <1>1, <1>2, <1>3, <1>4, <1>5, <1>6, <1>7, <1>8, Footprints DEF Next, Session

-----------------------------------------------------------------------------
(* The window shows what the snapshot says. *)

\* Events, snapshots and re-runs of the effect keep the window in step.
LEMMA SettledStep == IInv /\ [Next]_vars => Settled'
<1> SUFFICES ASSUME IInv, [Next]_vars PROVE Settled'
  OBVIOUS
<1>t. /\ TypeOK /\ ServersOK /\ CoreOK /\ WindowOK /\ Numbered /\ Scripted /\ Told
      /\ Settled /\ Unserved
  BY DEF IInv, TypeOK
<1> SUFFICES ASSUME handle' # NoServer PROVE SettledState(handle)' /\ SettledDevice(handle)'
  BY DEF Settled
<1>1. ASSUME UNCHANGED <<handle, todo, chan, snap, told, ui, effect, got, missed, foreign>>
      PROVE  SettledState(handle)' /\ SettledDevice(handle)'
  BY <1>t, <1>1 DEF Settled, SettledState, SettledDevice, Counts, Silent, Showing, Fetching
<1>2. ASSUME NEW k \in Servers, Connect(k) PROVE SettledState(handle)' /\ SettledDevice(handle)'
  <2>1. handle' = handle /\ handle \in Servers
    BY <1>t, <1>2, Footprints DEF ServersOK
  <2>2. CASE k # handle
    <3>1. Elsewhere(k)
      BY <1>t, <1>2, ConnectDoes DEF Scripted, ScriptedAt
    <3> QED
      BY <1>t, <1>2, <2>1, <2>2, <3>1, Footprints DEF Elsewhere, Settled, SettledState,
         SettledDevice, Counts, Silent, Showing, Fetching
  <2>3. CASE k = handle
    <3>1. todo'[k] = <<"state:ready">> /\ told'[k] = 0
      BY <1>t, <1>2, ConnectDoes
    <3>2. ~Without(todo'[k], StateEvents)
      BY <3>1, TodoKinds, TodosApart DEF Todos
    <3>3. ~(Counts(handle)')
      BY <2>1, <2>3, <3>1 DEF Counts
    <3> QED
      BY <2>1, <2>3, <3>2, <3>3 DEF SettledState, SettledDevice, Silent
  <2> QED
    BY <2>2, <2>3
<1>3. ASSUME NEW k \in Servers, NEW m \in DOMAIN Script, Receive(k, m)
      PROVE  SettledState(handle)' /\ SettledDevice(handle)'
  <2>1. handle' = handle /\ handle \in Servers
    BY <1>t, <1>3, Footprints DEF ServersOK
  <2>2. CASE k # handle
    <3>1. Elsewhere(k)
      BY <1>t, <1>3, ReceiveDoes DEF Scripted, ScriptedAt
    <3> QED
      BY <1>t, <1>3, <2>1, <2>2, <3>1, Footprints DEF Elsewhere, Settled, SettledState,
         SettledDevice, Counts, Silent, Showing, Fetching
  <2>3. CASE k = handle
    <3>s. SettledState(k) /\ SettledDevice(k) /\ UNCHANGED <<ui, effect, got, missed, foreign>>
      BY <1>t, <2>1, <2>3, <1>3, Footprints DEF Settled
    <3>1. Without(todo[k], StateEvents) /\ chan'[k] = chan[k]
      BY <1>t, <1>3, ReceiveDoes, NothingLast
    <3>2. todo'[k] \in Todos
      BY <1>t, <1>3, ReceiveDoes DEF Todos
    <3>3. ASSUME Without(todo'[k], StateEvents) PROVE snap'[k].state = snap[k].state
      BY <1>t, <1>3, <3>2, <3>3, ReceiveDoes, TodoKinds, TodosApart
    <3>4. ASSUME Without(todo'[k], DeviceEvents) PROVE snap'[k].state # "ready"
      BY <1>t, <1>3, <3>2, <3>4, ReceiveDoes, TodoKinds, TodosApart
    <3>5. SettledState(handle)'
      BY <2>1, <2>3, <3>s, <3>1, <3>3 DEF SettledState, Silent, Showing, Fetching
    <3>6. SettledDevice(handle)'
      BY <2>1, <2>3, <3>4 DEF SettledDevice, Silent, Counts
    <3> QED
      BY <3>5, <3>6
  <2> QED
    BY <2>2, <2>3
<1>4. ASSUME NEW k \in Servers, SendEvent(k)
      PROVE  SettledState(handle)' /\ SettledDevice(handle)'
  <2>1. handle' = handle /\ handle \in Servers
    BY <1>t, <1>4, Footprints DEF ServersOK
  <2>2. CASE k # handle
    <3>1. Elsewhere(k)
      BY <1>t, <1>4, SendDoes DEF Scripted, ScriptedAt
    <3> QED
      BY <1>t, <1>4, <2>1, <2>2, <3>1, Footprints DEF Elsewhere, Settled, SettledState,
         SettledDevice, Counts, Silent, Showing, Fetching
  <2>3. CASE k = handle
    <3>s. SettledState(k) /\ SettledDevice(k) /\ UNCHANGED <<ui, effect, got, missed, foreign>>
      BY <1>t, <2>1, <2>3, <1>4, Footprints DEF Settled
    <3> DEFINE ev == Head(todo[k])
    <3>1. todo[k] \in Todos /\ todo'[k] \in Todos /\ ev \in Events /\ chan[k] \in Seq(Events)
      BY <1>t, <1>4, SendDoes DEF Scripted, ScriptedAt, Sends, Todos, CoreOK
    <3>2. chan'[k] = Append(chan[k], ev)
      BY <1>t, <1>4, <2>3, <3>1, SendDoes DEF Receivable
    <3>3. ASSUME Silent(k, StateEvents)' PROVE Silent(k, StateEvents) /\ snap'[k] = snap[k]
      <4>1. Without(chan'[k], StateEvents) /\ Without(todo'[k], StateEvents)
        BY <3>3 DEF Silent
      <4>2. ev \notin StateEvents /\ Without(chan[k], StateEvents)
        BY <3>1, <3>2, <4>1, LastSent
      <4>3. snap'[k] = snap[k] /\ todo[k] \in {<<"device:cams">>, <<"closed">>}
        BY <1>t, <1>4, <3>1, <4>1, <4>2, SendDoes, TodoKinds, TodosApart DEF Sends, StateEvents
      <4> QED
        BY <3>1, <4>2, <4>3, TodoKinds DEF Silent
    <3>4. ASSUME Silent(k, DeviceEvents)'
          PROVE  Silent(k, DeviceEvents) /\ snap'[k] = snap[k] /\ told'[k] = told[k]
      <4>1. Without(chan'[k], DeviceEvents) /\ Without(todo'[k], DeviceEvents)
        BY <3>4 DEF Silent
      <4>2. ev \notin DeviceEvents /\ Without(chan[k], DeviceEvents)
        BY <3>1, <3>2, <4>1, LastSent
      <4>3. /\ snap'[k] = snap[k] /\ told'[k] = told[k]
            /\ todo[k] \in {<<"state:ready">>, <<"state:lost">>}
        BY <1>t, <1>4, <3>1, <4>1, <4>2, SendDoes, TodoKinds, TodosApart DEF Sends, DeviceEvents
      <4> QED
        BY <3>1, <4>2, <4>3, TodoKinds DEF Silent
    <3>5. SettledState(handle)'
      BY <2>1, <2>3, <3>s, <3>3 DEF SettledState, Showing, Fetching
    <3>6. SettledDevice(handle)'
      BY <2>1, <2>3, <3>s, <3>4 DEF SettledDevice, Showing, Fetching, Counts
    <3> QED
      BY <3>5, <3>6
  <2> QED
    BY <2>2, <2>3
<1>5. ASSUME SnapshotRead PROVE SettledState(handle)' /\ SettledDevice(handle)'
  <2>1. /\ handle' = handle /\ handle \in Servers /\ effect' = "read"
        /\ UNCHANGED <<todo, chan, snap, told>>
    BY <1>t, <1>5, Footprints DEF SnapshotRead, ServersOK
  <2>2. got'.state = snap[handle].state /\ got'.device = snap[handle].device
    BY <1>5, <2>1 DEF SnapshotRead
  <2>3. ~(Showing')
    BY <2>1 DEF Showing, Kinds
  <2> QED
    BY <2>1, <2>2, <2>3 DEF SettledState, SettledDevice
<1>6. ASSUME SnapshotShown PROVE SettledState(handle)' /\ SettledDevice(handle)'
  <2>1. /\ handle' = handle /\ handle \in Servers /\ effect = "read" /\ effect' = "state"
        /\ UNCHANGED <<todo, chan, snap, told, missed>> /\ foreign' = (got.server # handle)
    BY <1>t, <1>6, Footprints DEF SnapshotShown, ServersOK
  <2>2. ui' = [ui EXCEPT !.state = got.state, !.device = got.device]
    BY <1>6 DEF SnapshotShown
  <2>3. ui'.state = got.state /\ ui'.device = got.device
    BY <1>t, <2>2 DEF WindowOK, Views
  <2>4. ~(Fetching')
    BY <2>1 DEF Fetching
  <2>5. Showing' => Fetching
    BY <2>1 DEF Showing, Fetching
  <2>6. SettledState(handle) /\ SettledDevice(handle)
    BY <1>t, <2>1 DEF Settled
  <2>7. SettledState(handle)'
    BY <2>1, <2>3, <2>4, <2>5, <2>6 DEF SettledState, Silent
  <2>8. SettledDevice(handle)'
    BY <2>1, <2>3, <2>4, <2>5, <2>6 DEF SettledDevice, Silent, Counts
  <2> QED
    BY <2>7, <2>8
<1>7. ASSUME Subscribe PROVE SettledState(handle)' /\ SettledDevice(handle)'
  <2>1. /\ handle' = handle /\ effect \in Kinds
        /\ UNCHANGED <<todo, chan, snap, told, missed, foreign, ui, got>>
    BY <1>7, Footprints DEF Subscribe
  <2>2. effect' # "read"
    BY <1>7, <2>1 DEF Subscribe, After, Kinds
  <2>3. (Showing' => Showing) /\ ~(Fetching')
    BY <2>1, <2>2 DEF Showing, Fetching
  <2>4. SettledState(handle) /\ SettledDevice(handle)
    BY <1>t, <2>1 DEF Settled
  <2> QED
    BY <2>1, <2>3, <2>4 DEF SettledState, SettledDevice, Silent, Counts
<1>8. ASSUME Emit PROVE SettledState(handle)' /\ SettledDevice(handle)'
  <2> DEFINE ev == Head(chan[pump])
  <2>1. /\ handle' = handle /\ handle \in Servers /\ pump \in Servers
        /\ UNCHANGED <<todo, snap, told>>
    BY <1>t, <1>8, Footprints, EmitDoes DEF ServersOK
  <2>2. SettledState(handle) /\ SettledDevice(handle) /\ ToldState(handle) /\ ToldDevice(handle)
    BY <1>t, <2>1 DEF Settled, Told
  <2>3. /\ RunsOrStays /\ foreign' = (foreign \/ pump # handle) /\ foreign \in BOOLEAN
        /\ ev \in Events
    BY <1>t, <1>8, EmitDoes DEF WindowOK
  <2>4. /\ Showing' => Showing /\ pump = handle
        /\ Fetching' => Fetching /\ got' = got
    BY <2>1, <2>3 DEF RunsOrStays, Showing, Fetching, Kinds
  <2>5. ASSUME Fetching' PROVE missed' = missed \cup {KindOf(ev)}
    BY <1>t, <1>8, <2>4, <2>5, EmitDoes DEF Fetching
  <2>6. CASE pump # handle
    <3>1. chan'[handle] = chan[handle] /\ ~(Showing')
      BY <1>t, <1>8, <2>1, <2>4, <2>6, EmitDoes
    <3>2. SettledState(handle)'
      BY <2>1, <2>2, <2>4, <2>5, <3>1 DEF SettledState, Silent
    <3>3. SettledDevice(handle)'
      BY <2>1, <2>2, <2>4, <2>5, <3>1 DEF SettledDevice, Silent, Counts
    <3> QED
      BY <3>2, <3>3
  <2>7. CASE pump = handle
    <3>1. /\ chan'[handle] = Tail(chan[handle]) /\ chan[handle] # <<>>
          /\ chan[handle] \in Seq(Events)
      BY <1>t, <1>8, <2>1, <2>7, EmitDoes DEF CoreOK
    <3>2. ASSUME NEW K, Silent(handle, K)'
          PROVE  /\ Without(todo[handle], K)
                 /\ IF ev \in K THEN LastOf(chan[handle], K, ev) ELSE Silent(handle, K)
      <4>1. Without(todo[handle], K) /\ Without(Tail(chan[handle]), K)
        BY <2>1, <3>1, <3>2 DEF Silent
      <4>2. IF ev \in K THEN LastOf(chan[handle], K, ev) ELSE Without(chan[handle], K)
        BY <2>7, <3>1, <4>1, LastTaken
      <4> QED
        BY <4>1, <4>2 DEF Silent
    <3>3. SettledState(handle)'
      <4> SUFFICES ASSUME Silent(handle, StateEvents)', "state" \notin missed'
                   PROVE  /\ Showing' => (ui'.state = "ready" <=> snap'[handle].state = "ready")
                          /\ Fetching' => got'.state = snap'[handle].state
        BY <2>1 DEF SettledState
      <4>1. CASE ev \in StateEvents
        <5>1. LastOf(chan[handle], StateEvents, ev) /\ Without(todo[handle], StateEvents)
          BY <3>2, <4>1
        <5>2. snap[handle].state = Stated(ev)
          BY <2>2, <2>3, <5>1 DEF ToldState
        <5>3. KindOf(ev) = "state"
          BY <2>3, <4>1, EventKinds
        <5>4. ~(Fetching')
          BY <2>5, <5>3
        <5>5. ui'.state = Stated(ev)
          BY <1>t, <1>8, <4>1, <5>3, EmitDoes
        <5> QED
          BY <2>1, <5>2, <5>4, <5>5
      <4>2. CASE ev \notin StateEvents
        <5>1. Silent(handle, StateEvents)
          BY <3>2, <4>2
        <5>2. KindOf(ev) # "state"
          BY <2>3, <4>2, EventKinds
        <5>3. "state" \notin missed
          BY <1>t, <1>8, <5>2, EmitDoes
        <5>4. Showing' => ui'.state = ui.state
          BY <1>t, <1>8, <2>4, <4>2, EmitDoes DEF Showing, Kinds
        <5> QED
          BY <2>1, <2>2, <2>4, <5>1, <5>3, <5>4 DEF SettledState
      <4> QED
        BY <4>1, <4>2
    <3>4. SettledDevice(handle)'
      <4> SUFFICES ASSUME Silent(handle, DeviceEvents)', "device" \notin missed', Counts(handle)'
                   PROVE  /\ Showing' => ui'.device = snap'[handle].device
                          /\ Fetching' => got'.device = snap'[handle].device
        BY <2>1 DEF SettledDevice
      <4>c. Counts(handle)
        BY <2>1 DEF Counts
      <4>1. CASE ev \in DeviceEvents
        <5>1. LastOf(chan[handle], DeviceEvents, ev) /\ Without(todo[handle], DeviceEvents)
          BY <3>2, <4>1
        <5>2. ev # "closed" /\ snap[handle].device = ShownDevice(ev)
          BY <2>2, <2>3, <4>c, <5>1 DEF ToldDevice
        <5>3. KindOf(ev) = "device" /\ ev \in {"device:bare", "device:cams"}
          BY <2>3, <4>1, <5>2, EventKinds DEF DeviceEvents
        <5>4. ~(Fetching')
          BY <2>5, <5>3
        <5>5. ui'.device = ShownDevice(ev)
          BY <1>t, <1>8, <5>3, EmitDoes
        <5> QED
          BY <2>1, <5>2, <5>4, <5>5
      <4>2. CASE ev \notin DeviceEvents
        <5>1. Silent(handle, DeviceEvents)
          BY <3>2, <4>2
        <5>2. KindOf(ev) # "device" /\ ev \in StateEvents
          BY <2>3, <4>2, EventKinds
        <5>3. "device" \notin missed
          BY <1>t, <1>8, <5>2, EmitDoes
        <5>4. Showing' => ui'.device = ui.device
          BY <1>t, <1>8, <2>4, <5>2, EmitDoes DEF Showing, Kinds
        <5> QED
          BY <2>1, <2>2, <2>4, <4>c, <5>1, <5>3, <5>4 DEF SettledDevice
      <4> QED
        BY <4>1, <4>2
    <3> QED
      BY <3>3, <3>4
  <2> QED
    BY <2>6, <2>7
<1>9. ASSUME StartServer PROVE SettledState(handle)' /\ SettledDevice(handle)'
  <2>1. /\ handle = NoServer /\ handle' = started + 1 /\ handle' \in Servers
        /\ UNCHANGED <<todo, chan, snap, told, got, effect, foreign>>
    BY <1>t, <1>9, Footprints, WindowAssumption DEF StartServer, ServersOK, Servers
  <2>2. told'[handle'] = 0 /\ snap'[handle'].state # "ready"
    BY <1>t, <2>1 DEF Numbered, Unstarted, ServersOK
  <2>3. ~(Fetching')
    BY <1>t, <2>1, WindowAssumption
    DEF Fetching, Numbered, InOrder, ServersOK, WindowOK, Answers, Servers, NoServer
  <2>4. Showing' => ui'.state # "ready"
    <3>1. ui'.state = ui.state
      BY <1>t, <1>9 DEF StartServer, WindowOK, Views
    <3> QED
      BY <1>t, <2>1, <3>1 DEF Unserved, Showing
  <2>5. SettledState(handle)'
    BY <2>2, <2>3, <2>4 DEF SettledState
  <2>6. SettledDevice(handle)'
    BY <2>2 DEF SettledDevice, Counts
  <2> QED
    BY <2>5, <2>6
<1>10. ASSUME StopServer PROVE SettledState(handle)' /\ SettledDevice(handle)'
  BY <1>10 DEF StopServer
<1>11. ASSUME StopDone PROVE SettledState(handle)' /\ SettledDevice(handle)'
  <2>1. ui.stopping = TRUE /\ handle' = handle
    BY <1>t, <1>11, Footprints DEF StopDone, WindowOK, Views
  <2> QED
    BY <1>t, <2>1 DEF Numbered, InOrder
<1>12. ASSUME NEW id \in CameraIds, CameraAnswer(id)
       PROVE  SettledState(handle)' /\ SettledDevice(handle)'
  <2>1. handle' = handle /\ UNCHANGED <<todo, chan, snap, told, missed, foreign>>
    BY <1>12, Footprints
  <2>2. SettledState(handle) /\ SettledDevice(handle)
    BY <1>t, <2>1 DEF Settled
  <2>3. RunsOrStays /\ ui'.state = ui.state /\ ui'.device = ui.device
    <3>1. CASE UNCHANGED <<ui, run>>
      BY <3>1 DEF run, RunsOrStays
    <3>2. CASE ui' = [ui EXCEPT !.active = id] /\ SetActive(id)
      BY <1>t, <3>2, SetActiveDoes DEF WindowOK, Views
    <3> QED
      BY <1>12, <3>1, <3>2 DEF CameraAnswer
  <2>4. (Showing' => Showing) /\ (Fetching' => Fetching /\ got' = got)
    BY <2>1, <2>3 DEF RunsOrStays, Showing, Fetching, Kinds
  <2>5. SettledState(handle)'
    BY <2>1, <2>2, <2>3, <2>4 DEF SettledState, Silent
  <2>6. SettledDevice(handle)'
    BY <2>1, <2>2, <2>3, <2>4 DEF SettledDevice, Silent, Counts
  <2> QED
    BY <2>5, <2>6
<1>13. CASE UNCHANGED vars
  BY <1>13, <1>1 DEF vars, core, run, history
<1> QED
  BY <1>1, <1>2, <1>3, <1>4, <1>5, <1>6, <1>7, <1>8, <1>9, <1>10, <1>11, <1>12, <1>13,
     Footprints DEF Next, Session

\* Without a server the window shows no session.
LEMMA UnservedStep == IInv /\ [Next]_vars => Unserved'
<1> SUFFICES ASSUME IInv, [Next]_vars PROVE Unserved'
  OBVIOUS
<1>t. TypeOK /\ ServersOK /\ CoreOK /\ WindowOK /\ Numbered /\ Unserved
  BY DEF IInv, TypeOK
<1>1. ASSUME UNCHANGED <<handle, ui, effect, got, foreign>> PROVE Unserved'
  BY <1>t, <1>1 DEF Unserved, Showing
<1>2. ASSUME SnapshotRead PROVE Unserved'
  <2>1. effect' = "read" /\ (handle = NoServer => got' = IdleSnap)
    BY <1>2 DEF SnapshotRead
  <2>2. handle # NoServer => got'.server # NoServer
    BY <1>2 DEF SnapshotRead
  <2> QED
    BY <2>1, <2>2, Idle DEF Unserved, Showing, Kinds
<1>3. ASSUME SnapshotShown PROVE Unserved'
  <2>1. ui' = [ui EXCEPT !.state = got.state, !.device = got.device] /\ got' = IdleSnap
    BY <1>3 DEF SnapshotShown
  <2>2. ui'.state = got.state
    BY <1>t, <2>1 DEF WindowOK, Views
  <2>3. foreign' = (got.server # handle) /\ handle' = handle
    BY <1>3 DEF SnapshotShown
  <2> QED
    BY <1>t, <2>1, <2>2, <2>3, Idle DEF Unserved, Showing
<1>4. ASSUME Subscribe PROVE Unserved'
  <2>1. effect \in Kinds
    BY <1>4 DEF Subscribe
  <2> QED
    BY <1>t, <1>4, <2>1, Footprints DEF Unserved, Showing
<1>5. ASSUME Emit PROVE Unserved'
  <2>1. RunsOrStays /\ pump # NoServer /\ foreign' = (foreign \/ pump # handle) /\ handle' = handle
    BY <1>t, <1>5, EmitDoes, Footprints DEF Emit
  <2>2. Showing' => handle' # NoServer
    BY <2>1 DEF Showing
  <2>3. got'.server = NoServer => got'.state = "idle"
    BY <1>t, <2>1, Idle DEF RunsOrStays, Unserved
  <2> QED
    BY <2>2, <2>3 DEF Unserved
<1>6. ASSUME StartServer PROVE Unserved'
  <2>1. handle' # NoServer /\ got' = got
    BY <1>t, <1>6, Footprints DEF StartServer, ServersOK, NoServer
  <2> QED
    BY <1>t, <2>1 DEF Unserved
<1>7. ASSUME StopServer PROVE Unserved'
  <2>1. ui' = [ui EXCEPT !.stopping = TRUE] /\ ui.state # "ready" /\ got' = got
    BY <1>7, Footprints DEF StopServer, ShowServer
  <2>2. ui'.state # "ready"
    BY <1>t, <2>1 DEF WindowOK, Views
  <2> QED
    BY <1>t, <2>1, <2>2 DEF Unserved
<1>8. ASSUME StopDone PROVE Unserved'
  <2>1. ui'.state = "idle" /\ SetActive(None)
    BY <1>8, Idle DEF StopDone
  <2>2. RunsOrStays
    BY <1>t, <2>1, SetActiveDoes
  <2> QED
    BY <1>t, <2>1, <2>2, Idle DEF Unserved, RunsOrStays
<1>9. ASSUME NEW id \in CameraIds, CameraAnswer(id) PROVE Unserved'
  <2>1. RunsOrStays /\ ui'.state = ui.state
    <3>1. CASE UNCHANGED <<ui, run>>
      BY <3>1 DEF run, RunsOrStays
    <3>2. CASE ui' = [ui EXCEPT !.active = id] /\ SetActive(id)
      BY <1>t, <3>2, SetActiveDoes DEF WindowOK, Views
    <3> QED
      BY <1>9, <3>1, <3>2 DEF CameraAnswer
  <2>2. handle' = handle /\ foreign' = foreign
    BY <1>9, Footprints
  <2> QED
    BY <1>t, <2>1, <2>2, Idle DEF Unserved, Showing, RunsOrStays, Kinds
<1>10. CASE UNCHANGED vars
  BY <1>10, <1>1 DEF vars, core, run, history
<1> QED
  BY <1>1, <1>2, <1>3, <1>4, <1>5, <1>6, <1>7, <1>8, <1>9, <1>10, Footprints DEF Next, Session

-----------------------------------------------------------------------------
(* The theorems. *)

\* The window opens with no server.
LEMMA InitIInv == Init => IInv
<1> SUFFICES ASSUME Init PROVE IInv
  OBVIOUS
<1> USE WindowAssumption DEF Init
<1>1. ServersOK
  BY DEF ServersOK
<1>2. CoreOK
  <2>1. <<>> \in Seq(Events) /\ Len(<<>>) = 0
    BY EmptySeq
  <2>2. [state |-> "listening", device |-> None] \in Snaps
    BY DEF Snaps, States, Devices
  <2>3. chan \in [Servers -> Seq(Events)] /\ \A k \in Servers : Len(chan[k]) <= EventCap
    BY <2>1
  <2>4. snap \in [Servers -> Snaps]
    BY <2>2
  <2>5. told \in [Servers -> 0 .. MaxLists + 1] /\ sessions \in 0 .. MaxSessions
    OBVIOUS
  <2> QED
    BY <2>1, <2>3, <2>4, <2>5 DEF CoreOK
<1>3. WindowOK
  <2>1. clicks \in 0 .. MaxClicks
    OBVIOUS
  <2> QED
    BY <2>1, Idle DEF WindowOK
<1>4. Numbered
  BY Idle DEF Numbered, InOrder, Unstarted, NoServer
<1>5. Scripted
  BY Dues, TodosApart DEF Scripted, ScriptedAt, Todos
<1>6. Told /\ Settled /\ Unserved
  BY Idle DEF Told, Settled, Unserved, Showing, Kinds
<1> QED
  BY <1>1, <1>2, <1>3, <1>4, <1>5, <1>6 DEF IInv, TypeOK

\* The inductive invariant holds throughout.
THEOREM Invariance == Spec => []IInv
<1>1. IInv /\ [Next]_vars => IInv'
  BY TypeStep, UnstartedStep, InOrderStep, ScriptedStep, ToldStep, SettledStep, UnservedStep
  DEF IInv, Numbered
<1> QED
  BY InitIInv, <1>1, PTL DEF Spec

\* The channels, the snapshots and the window stay within their types.
THEOREM TypeCorrect == Spec => []TypeOK
<1>1. IInv => TypeOK
  BY DEF IInv
<1> QED
  BY Invariance, <1>1, PTL

\* With nothing on its way, missed or foreign, the window shows the server's session and
\* its device, however often the effect was run again.
THEOREM WindowInStep == Spec => []WindowAgrees
<1>1. IInv => WindowAgrees
  <2> SUFFICES ASSUME IInv, Quiescent, missed = {}, ~foreign
               PROVE  /\ ui.state = "ready" <=> handle # NoServer /\ snap[handle].state = "ready"
                      /\ ui.state = "ready" /\ told[handle] > 0 => ui.device = snap[handle].device
    BY DEF WindowAgrees
  <2>1. Showing
    BY DEF Quiescent, Showing, IInv, TypeOK, WindowOK
  <2>2. CASE handle = NoServer
    BY <2>1, <2>2 DEF IInv, Unserved
  <2>3. CASE handle # NoServer
    <3>1. \A K : Silent(handle, K)
      BY <2>3, NothingLast DEF Quiescent, Silent
    <3>2. SettledState(handle) /\ SettledDevice(handle)
      BY <2>3 DEF IInv, Settled
    <3>3. ui.state = "ready" <=> snap[handle].state = "ready"
      BY <2>1, <3>1, <3>2 DEF SettledState
    <3>4. Counts(handle) => ui.device = snap[handle].device
      BY <2>1, <3>1, <3>2 DEF SettledDevice
    <3> QED
      BY <2>3, <3>3, <3>4 DEF Counts
  <2> QED
    BY <2>2, <2>3
<1> QED
  BY Invariance, <1>1, PTL

\* Nothing but a click, or a listener that a run of the effect left behind, changes the
\* active camera for another.
THEOREM CameraChosen == Spec => ChoiceKept
<1> DEFINE Kept == ui.active # None /\ ui'.active \notin {None, ui.active} =>
                      ui'.active \in clicking \/ Listener("device", TRUE) \in leaked
<1>1. IInv /\ [Next]_vars => Kept
  <2> SUFFICES ASSUME IInv, [Next]_vars, ui.active # None, ui'.active \notin {None, ui.active}
               PROVE  ui'.active \in clicking \/ Listener("device", TRUE) \in leaked
    OBVIOUS
  <2>t. TypeOK /\ WindowOK
    BY DEF IInv, TypeOK
  <2>1. CASE Emit
    <3> DEFINE ev == Head(chan[pump])
    <3>1. ui' = (IF Hears(KindOf(ev)) THEN Shown(ev) ELSE ui) /\ ev \in Events
      BY <2>t, <2>1, EmitDoes DEF Emit
    <3>2. Shown(ev).active \in {ui.active, None, Chosen(ev)}
      BY <2>t DEF Shown, WindowOK, Views
    <3>3. ui'.active = Chosen(ev) /\ Chosen(ev) # ui.active
      BY <3>1, <3>2
    <3>4. Listener("device", TRUE) \in Listeners
      BY <3>3 DEF Chosen
    <3>5. \A kind : Listener(kind, ui.active = None) # Listener("device", TRUE)
      BY DEF Listener
    <3> QED
      BY <3>4, <3>5 DEF Listeners
  <2>2. ASSUME NEW id \in CameraIds, CameraAnswer(id)
        PROVE  ui'.active \in clicking \/ Listener("device", TRUE) \in leaked
    <3>1. ui' = ui \/ ui' = [ui EXCEPT !.active = id]
      BY <2>2 DEF CameraAnswer
    <3>2. ui'.active = id
      BY <2>t, <3>1 DEF WindowOK, Views
    <3> QED
      BY <2>2, <3>2 DEF CameraAnswer
  <2>3. CASE SnapshotShown \/ StartServer \/ StopServer \/ StopDone
    <3>1. ui'.active = ui.active \/ ui'.active = None
      <4>1. CASE SnapshotShown
        BY <2>t, <4>1 DEF SnapshotShown, WindowOK, Views
      <4>2. CASE StartServer
        BY <2>t, <4>2 DEF StartServer, WindowOK, Views
      <4>3. CASE StopServer
        BY <2>t, <4>3 DEF StopServer, WindowOK, Views
      <4>4. CASE StopDone
        BY <4>4 DEF StopDone, IdleUi
      <4> QED
        BY <2>3, <4>1, <4>2, <4>3, <4>4
    <3> QED
      BY <3>1
  <2>4. ui' # ui
    OBVIOUS
  <2> QED
    BY <2>1, <2>2, <2>3, <2>4, Footprints DEF Next, Session, vars
<1> QED
  BY Invariance, <1>1, PTL DEF Spec, ChoiceKept
=============================================================================
