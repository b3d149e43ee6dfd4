------------------------- MODULE ControlPlaneProofs -------------------------
(***************************************************************************)
(* Proofs about ControlPlane, for every DEAD_PEER_AFTER, all capacities of *)
(* the channels, any number of frames on the wire, faults and modes.       *)
(***************************************************************************)
EXTENDS ControlPlane, SequenceTheorems, TLAPS

\* What is odd in read_frame, in the task or about the phone has its fault.
TornBlamed == reader # "clean" => "torn" \in faults
HeldBlamed == stalled = TRUE \/ owed > 0 => "stalled" \in faults
SleepBlamed == awake = FALSE => "slept" \in faults
Blamed == TornBlamed /\ HeldBlamed /\ SleepBlamed

\* A session that nothing disturbs has heard the phone since the last tick, or hears it
\* before the next; when the phone has closed the connection, its BYE is still to be read.
Disturbed == faults \cap {"slept", "stalled", "torn", "cut"} # {}
InTouch ==
    /\ age <= 1
    /\ spoke = TRUE /\ up = <<>> => age = 0
    /\ link # "up" => \E i \in 1..Len(up) : up[i] = "bye"
Heard == running = TRUE /\ ~Disturbed => InTouch

\* The latest mode in a queue of frames.
LatestIn(q, m) == \E i \in 1..Len(q) : q[i] = m /\ \A j \in 1..Len(q) : j > i => q[j] \notin Modes

\* The mode that the driver believes in is the newest on its way to the phone, the newest
\* on its way back, or the last the phone has confirmed.
Confirmed == applied = dmode \/ (applied = "none" /\ dmode = FirstMode)
Returns == LatestIn(up, dmode) \/ (Quiet(up) /\ Confirmed)
OnItsWay ==
    IF driver # "idle" THEN driver = dmode
    ELSE \/ outbound # <<>> /\ outbound[Len(outbound)] = dmode
         \/ outbound = <<>> /\ LatestIn(down, dmode)
         \/ outbound = <<>> /\ Quiet(down) /\ Returns
Follows ==
    phone = "mock" /\ running = TRUE /\ link = "up" /\ "torn" \notin faults => OnItsWay

\* The inductive invariant.
IInv == TypeOK /\ Blamed /\ Heard /\ Follows /\ EndsForAReason
-----------------------------------------------------------------------------
(* What each step leaves alone ... *)

\* Every step changes only what its task writes.
LEMMA Footprints ==
    /\ OutboundBranch =>
       UNCHANGED <<phone, awake, applied, link, up, spoke, age, due, faults, driver, dmode,
                 cooled, stalled>>
    /\ KeepaliveBranch =>
       UNCHANGED <<phone, awake, applied, link, up, spoke, age, outbound, faults, driver,
                 dmode, cooled, stalled>>
    /\ RecvBranch =>
       UNCHANGED <<phone, awake, link, down, spoke, due, outbound, faults, driver,
                 dmode, cooled, stalled>>
    /\ Astray =>
       UNCHANGED <<phone, awake, applied, link, down, spoke, age, due, outbound, faults,
                 driver, dmode, cooled, stalled>>
    /\ RecvFails =>
       UNCHANGED <<phone, awake, applied, link, up, down, spoke, reader, age, due, outbound,
                 faults, driver, dmode, cooled, stalled>>
    /\ Resume =>
       UNCHANGED <<phone, awake, applied, link, up, down, spoke, reader, age, due, outbound,
                 why, faults, driver, dmode, cooled, stalled>>
    /\ Observe =>
       UNCHANGED <<phone, awake, applied, link, up, down, spoke, running, owed, next, backlog,
                 reader, age, due, outbound, why, faults, stalled>>
    /\ DriverSends =>
       UNCHANGED <<phone, awake, applied, link, up, down, spoke, running, owed, next, tele,
                 backlog, reader, age, due, why, faults, dmode, cooled, stalled>>
    /\ EmitTelemetry =>
       UNCHANGED <<phone, awake, applied, link, down, running, owed, next, tele, backlog,
                 reader, age, due, outbound, why, faults, driver, dmode, cooled, stalled>>
    /\ Pump =>
       UNCHANGED <<phone, awake, applied, link, running, owed, next, tele, backlog, reader,
                 age, due, outbound, why, faults, driver, dmode, cooled, stalled>>
    /\ MockTelemetry =>
       UNCHANGED <<phone, awake, applied, link, down, running, owed, next, tele, backlog,
                 reader, age, due, outbound, why, faults, driver, dmode, cooled, stalled>>
    /\ MockLoop =>
       UNCHANGED <<phone, awake, applied, link, running, owed, next, tele, backlog, reader, age, due,
                 outbound, why, faults, driver, dmode, cooled, stalled>>
    /\ HalfFrame =>
       UNCHANGED <<phone, awake, applied, link, up, down, spoke, running, owed, next, tele,
                 backlog, age, due, outbound, why, driver, dmode, cooled, stalled>>
    /\ MockTorn =>
       UNCHANGED <<phone, awake, applied, up, spoke, running, owed, next, tele, backlog,
                 reader, age, due, outbound, why, driver, dmode, cooled, stalled>>
    /\ NewerPhone =>
       UNCHANGED <<phone, awake, applied, link, down, running, owed, next, tele, backlog,
                 reader, age, due, outbound, why, driver, dmode, cooled, stalled>>
    /\ Suspend =>
       UNCHANGED <<phone, applied, link, up, down, spoke, running, owed, next, tele, backlog,
                 reader, age, due, outbound, why, driver, dmode, cooled, stalled>>
    /\ CutLink =>
       UNCHANGED <<phone, awake, applied, spoke, running, owed, next, tele, backlog, reader,
                 age, due, outbound, why, driver, dmode, cooled, stalled>>
    /\ Stall =>
       UNCHANGED <<phone, awake, applied, link, up, down, spoke, running, owed, next, tele,
                 backlog, reader, age, due, outbound, why, driver, dmode, cooled>>
    /\ Unstall =>
       UNCHANGED <<phone, awake, applied, link, up, down, spoke, running, owed, next, tele,
                 reader, age, due, outbound, why, faults, driver, dmode, cooled>>
    /\ Leave =>
       UNCHANGED <<phone, awake, applied, down, running, owed, next, tele, backlog, reader,
                 age, due, outbound, why, faults, driver, dmode, cooled, stalled>>
    /\ Tick =>
       UNCHANGED <<phone, awake, applied, link, up, down, running, owed, next, tele, backlog,
                 reader, outbound, why, faults, driver, dmode, stalled>>
<1> USE DEF phoneVars, wireVars, stepVars, loopVars, historyVars, driverVars
<1>1. OutboundBranch =>
          UNCHANGED <<phone, awake, applied, link, up, spoke, age, due, faults, driver, dmode,
                    cooled, stalled>>
  BY DEF OutboundBranch
<1>2. KeepaliveBranch =>
          UNCHANGED <<phone, awake, applied, link, up, spoke, age, outbound, faults, driver,
                    dmode, cooled, stalled>>
  BY DEF KeepaliveBranch
<1>3. RecvBranch =>
          UNCHANGED <<phone, awake, link, down, spoke, due, outbound, faults, driver,
                    dmode, cooled, stalled>>
  BY DEF RecvBranch
<1>4. Astray =>
          UNCHANGED <<phone, awake, applied, link, down, spoke, age, due, outbound, faults,
                    driver, dmode, cooled, stalled>>
  BY DEF Astray
<1>5. RecvFails =>
          UNCHANGED <<phone, awake, applied, link, up, down, spoke, reader, age, due,
                    outbound, faults, driver, dmode, cooled, stalled>>
  BY DEF RecvFails
<1>6. Resume =>
          UNCHANGED <<phone, awake, applied, link, up, down, spoke, reader, age, due,
                    outbound, why, faults, driver, dmode, cooled, stalled>>
  BY DEF Resume
<1>7. Observe =>
          UNCHANGED <<phone, awake, applied, link, up, down, spoke, running, owed, next,
                    backlog, reader, age, due, outbound, why, faults, stalled>>
  BY DEF Observe
<1>8. DriverSends =>
          UNCHANGED <<phone, awake, applied, link, up, down, spoke, running, owed, next, tele,
                    backlog, reader, age, due, why, faults, dmode, cooled, stalled>>
  BY DEF DriverSends
<1>9. EmitTelemetry =>
          UNCHANGED <<phone, awake, applied, link, down, running, owed, next, tele, backlog,
                    reader, age, due, outbound, why, faults, driver, dmode, cooled,
                    stalled>>
  BY DEF EmitTelemetry
<1>10. Pump =>
          UNCHANGED <<phone, awake, applied, link, running, owed, next, tele, backlog, reader,
                    age, due, outbound, why, faults, driver, dmode, cooled, stalled>>
  BY DEF Pump
<1>11. MockTelemetry =>
          UNCHANGED <<phone, awake, applied, link, down, running, owed, next, tele, backlog,
                    reader, age, due, outbound, why, faults, driver, dmode, cooled,
                    stalled>>
  BY DEF MockTelemetry
<1>12. MockLoop =>
          UNCHANGED <<phone, awake, applied, link, running, owed, next, tele, backlog, reader, age,
                    due, outbound, why, faults, driver, dmode, cooled, stalled>>
  BY DEF MockLoop
<1>13. HalfFrame =>
          UNCHANGED <<phone, awake, applied, link, up, down, spoke, running, owed, next, tele,
                    backlog, age, due, outbound, why, driver, dmode, cooled, stalled>>
  BY DEF HalfFrame
<1>14. MockTorn =>
          UNCHANGED <<phone, awake, applied, up, spoke, running, owed, next, tele, backlog,
                    reader, age, due, outbound, why, driver, dmode, cooled, stalled>>
  BY DEF MockTorn
<1>15. NewerPhone =>
          UNCHANGED <<phone, awake, applied, link, down, running, owed, next, tele, backlog,
                    reader, age, due, outbound, why, driver, dmode, cooled, stalled>>
  BY DEF NewerPhone
<1>16. Suspend =>
          UNCHANGED <<phone, applied, link, up, down, spoke, running, owed, next, tele,
                    backlog, reader, age, due, outbound, why, driver, dmode, cooled,
                    stalled>>
  BY DEF Suspend
<1>17. CutLink =>
          UNCHANGED <<phone, awake, applied, spoke, running, owed, next, tele, backlog,
                    reader, age, due, outbound, why, driver, dmode, cooled, stalled>>
  BY DEF CutLink
<1>18. Stall =>
          UNCHANGED <<phone, awake, applied, link, up, down, spoke, running, owed, next, tele,
                    backlog, reader, age, due, outbound, why, driver, dmode, cooled>>
  BY DEF Stall
<1>19. Unstall =>
          UNCHANGED <<phone, awake, applied, link, up, down, spoke, running, owed, next, tele,
                    reader, age, due, outbound, why, faults, driver, dmode, cooled>>
  BY DEF Unstall
<1>20. Leave =>
          UNCHANGED <<phone, awake, applied, down, running, owed, next, tele, backlog, reader,
                    age, due, outbound, why, faults, driver, dmode, cooled, stalled>>
  BY DEF Leave
<1>21. Tick =>
          UNCHANGED <<phone, awake, applied, link, up, down, running, owed, next, tele,
                    backlog, reader, outbound, why, faults, driver, dmode, stalled>>
  BY DEF Tick
<1> QED
  BY <1>1, <1>2, <1>3, <1>4, <1>5, <1>6, <1>7, <1>8, <1>9, <1>10, <1>11, <1>12, <1>13, <1>14,
     <1>15, <1>16, <1>17, <1>18, <1>19, <1>20, <1>21

-----------------------------------------------------------------------------
(* What a step of the session task does. *)

\* The events are delivered, or the task is held up: only when nobody reads them, and
\* then it still runs.
DeliverEffect(then) ==
    /\ TaskOK'
    /\ running' => running
    /\ \/ owed' = 0 /\ running' = (then # "over")
       \/ owed' > 0 /\ stalled /\ running' = running

\* Deliver.
LEMMA Delivers ==
    ASSUME TaskOK, running, UNCHANGED stalled, NEW n \in 1..2,
           NEW then \in {"loop", "feed", "over"}, Deliver(n, then)
    PROVE  DeliverEffect(then)
<1> USE ControlAssumption DEF TaskOK
<1>1. CASE ~stalled \/ backlog + n <= EventCap
  <2>1. /\ backlog' = (IF stalled THEN backlog + n ELSE 0) /\ owed' = 0 /\ next' = "loop"
        /\ Finish(then)
    BY <1>1 DEF Deliver
  <2>2. backlog' \in 0..EventCap
    BY <1>1, <2>1
  <2>3. running' \in BOOLEAN /\ running' = (then # "over")
    BY <2>1 DEF Finish
  <2>4. tele' \in 0..TeleCap
    BY <2>1 DEF Finish
  <2> QED
    BY <2>1, <2>2, <2>3, <2>4 DEF DeliverEffect
<1>2. CASE ~(~stalled \/ backlog + n <= EventCap)
  <2>1. /\ backlog' = EventCap /\ owed' = n - (EventCap - backlog) /\ next' = then
        /\ UNCHANGED <<running, tele>>
    BY <1>2 DEF Deliver
  <2>2. stalled /\ backlog + n > EventCap
    BY <1>2
  <2>3. owed' \in 1..2
    BY <2>1, <2>2
  <2>4. /\ owed' \in 0..2 /\ owed' > 0 /\ backlog' \in 0..EventCap
        /\ next' \in {"loop", "feed", "over"}
    BY <2>1, <2>3
  <2>5. running' = running /\ tele' = tele /\ stalled' = stalled
    BY <2>1
  <2>6. TaskOK'
    BY <2>4, <2>5
  <2> QED
    BY <2>2, <2>4, <2>5, <2>6 DEF DeliverEffect
<1> QED
  BY <1>1, <1>2

\* What a step of the task does to why: nothing, or it tells how the session ends.
Ended(cause) == why' = cause /\ DeliverEffect("over")
WentOn == UNCHANGED <<running, owed, next, tele, backlog, why>>

\* End.
LEMMA Ends ==
    ASSUME TaskOK, running, UNCHANGED stalled, NEW cause, End(cause) PROVE Ended(cause)
  BY Delivers DEF End, Ended

\* The outbound branch sends the head, or ends for a connection that is down.
LEMMA OutboundDoes ==
    ASSUME TypeOK, OutboundBranch
    PROVE  /\ running /\ owed = 0 /\ outbound # <<>> /\ outbound' = Tail(outbound)
           /\ \/ down' = (IF link = "up" THEN Append(down, Head(outbound)) ELSE down) /\ WentOn
              \/ link # "up" /\ Ended("link") /\ down' = down
<1>1. TaskOK /\ UNCHANGED stalled /\ running
  BY Footprints DEF TypeOK, OutboundBranch, Selecting
<1>2. CASE link # "up" /\ End("link") /\ UNCHANGED down
  BY <1>1, <1>2, Ends DEF OutboundBranch, Selecting
<1>3. CASE down' = (IF link = "up" THEN Append(down, Head(outbound)) ELSE down) /\ Loop
  BY <1>3 DEF OutboundBranch, Selecting, Loop, WentOn, stepVars
<1> QED
  BY <1>2, <1>3 DEF OutboundBranch, SendOrEnd

\* The keepalive branch sends PING, then looks at last_rx.
LEMMA KeepaliveDoes ==
    ASSUME TypeOK, KeepaliveBranch
    PROVE  /\ running /\ owed = 0 /\ due > 0 /\ due' = due - 1
           /\ \/ /\ down' = (IF link = "up" THEN Append(down, "ping") ELSE down)
                 /\ WentOn \/ (age > DeadAfter /\ Ended("dead"))
              \/ link # "up" /\ Ended("link") /\ down' = down
<1>1. TaskOK /\ UNCHANGED stalled /\ running
  BY Footprints DEF TypeOK, KeepaliveBranch, Selecting
<1>2. CASE link # "up" /\ End("link") /\ UNCHANGED down
  BY <1>1, <1>2, Ends DEF KeepaliveBranch, Selecting
<1>3. CASE /\ down' = (IF link = "up" THEN Append(down, "ping") ELSE down)
           /\ IF age > DeadAfter THEN End("dead") ELSE Loop
  <2>1. CASE age > DeadAfter
    BY <1>1, <1>3, <2>1, Ends DEF KeepaliveBranch, Selecting
  <2>2. CASE ~(age > DeadAfter)
    BY <1>3, <2>2 DEF KeepaliveBranch, Selecting, Loop, WentOn, stepVars
  <2> QED
    BY <2>1, <2>2
<1> QED
  BY <1>2, <1>3 DEF KeepaliveBranch, SendOrEnd

\* The receive branch ends for a BYE and for a frame it cannot decode.
LEMMA RecvDoes ==
    ASSUME TypeOK, RecvBranch
    PROVE  /\ running /\ owed = 0 /\ up # <<>> /\ up' = Tail(up) /\ reader' = "clean"
           /\ Head(up) \in Upward /\ Confirm(Head(up))
           /\ \/ Head(up) = "unknown" /\ Ended("undecodable") /\ age' = age
              \/ Head(up) = "bye" /\ Ended("bye") /\ age' = 0
              \/ /\ Head(up) \notin {"unknown", "bye"} /\ why' = why /\ age' = 0
                 /\ \/ UNCHANGED <<running, owed, next, tele, backlog>>
                    \/ \E then \in {"loop", "feed"} : DeliverEffect(then)
<1>1. TaskOK /\ UNCHANGED stalled /\ running
  BY Footprints DEF TypeOK, RecvBranch, Selecting
<1>2. /\ running /\ owed = 0 /\ up # <<>> /\ up' = Tail(up) /\ reader' = "clean"
      /\ Confirm(Head(up))
  BY DEF RecvBranch, Selecting
<1>3. Head(up) \in Upward
  BY <1>2, HeadTailProperties DEF TypeOK, WireOK
<1>4. CASE Head(up) = "unknown"
  BY <1>1, <1>2, <1>3, <1>4, Ends DEF RecvBranch
<1>5. CASE Head(up) # "unknown"
  <2>1. Handle(Head(up)) /\ age' = 0
    BY <1>5 DEF RecvBranch
  <2>2. CASE Head(up) = "bye"
    <3>1. Deliver(2, "over") /\ why' = "bye"
      BY <2>1, <2>2 DEF Handle
    <3>2. DeliverEffect("over")
      BY <1>1, <3>1, Delivers
    <3> QED
      BY <1>2, <1>3, <2>1, <2>2, <3>1, <3>2 DEF Ended
  <2>3. CASE Head(up) \in {"deviceInfo", "cameraList", "telemetry"} \cup Modes
    <3>1. why' = why /\ \E n \in 1..2, then \in {"loop", "feed"} : Deliver(n, then)
      BY <2>1, <2>3, ControlAssumption DEF Handle, Words
    <3>2. \E then \in {"loop", "feed"} : DeliverEffect(then)
      BY <1>1, <3>1, Delivers
    <3> QED
      BY <1>2, <1>3, <2>1, <2>3, <3>1, <3>2, ControlAssumption DEF Words
  <2>4. CASE Head(up) = "pong"
    BY <1>2, <1>3, <2>1, <2>4, ControlAssumption DEF Handle, stepVars, Words
  <2> QED
    BY <1>3, <1>5, <2>2, <2>3, <2>4 DEF Upward, Words
<1> QED
  BY <1>4, <1>5

\* Astray, the task swallows a frame or ends.
LEMMA AstrayDoes ==
    ASSUME TypeOK, Astray
    PROVE  /\ running /\ owed = 0 /\ up # <<>> /\ up' = Tail(up) /\ reader # "clean"
           /\ reader' \in {"astray", "swallow"}
           /\ WentOn \/ Ended("undecodable")
<1>1. TaskOK /\ UNCHANGED stalled /\ running
  BY Footprints DEF TypeOK, Astray, Selecting
<1>2. CASE reader' = "swallow" /\ Loop
  BY <1>2 DEF Astray, Selecting, Loop, WentOn, stepVars
<1>3. CASE reader = "astray" /\ End("undecodable") /\ UNCHANGED reader
  BY <1>1, <1>3, Ends DEF Astray, Selecting
<1> QED
  BY <1>2, <1>3 DEF Astray

\* An end of stream ends the session.
LEMMA RecvFailsDoes ==
    ASSUME TypeOK, RecvFails PROVE running /\ owed = 0 /\ link # "up" /\ Ended("link")
<1>1. TaskOK /\ UNCHANGED stalled /\ running
  BY Footprints DEF TypeOK, RecvFails, Selecting
<1> QED
  BY <1>1, Ends DEF RecvFails, Selecting

\* Once the events are read the task goes on.
LEMMA ResumeDoes ==
    ASSUME TypeOK, Resume PROVE running /\ owed > 0 /\ DeliverEffect(next)
<1>1. TaskOK /\ UNCHANGED stalled /\ running /\ owed > 0 /\ Deliver(owed, next)
  BY Footprints DEF TypeOK, Resume
<1>2. owed \in 1..2 /\ next \in {"loop", "feed", "over"}
  BY <1>1 DEF TaskOK
<1> QED
  BY <1>1, <1>2, Delivers

-----------------------------------------------------------------------------
(* Queues of frames. *)

\* A queue without its head.
LEMMA Tails ==
    ASSUME NEW S, NEW q \in Seq(S), q # <<>>
    PROVE  /\ Tail(q) \in Seq(S) /\ Len(q) \in Nat \ {0} /\ Len(Tail(q)) = Len(q) - 1
           /\ \A i \in 1..(Len(q) - 1) : Tail(q)[i] = q[i + 1]
           /\ Head(q) = q[1] /\ Head(q) \in S
  BY HeadTailProperties, EmptySeq

\* A queue with one frame more.
LEMMA Appends ==
    ASSUME NEW S, NEW q \in Seq(S), NEW m \in S
    PROVE  /\ Append(q, m) \in Seq(S) /\ Len(q) \in Nat /\ Len(Append(q, m)) = Len(q) + 1
           /\ \A i \in 1..Len(q) : Append(q, m)[i] = q[i]
           /\ Append(q, m)[Len(q) + 1] = m /\ Append(q, m) # <<>>
  BY AppendProperties

\* A frame that is no mode, put behind the modes, changes nothing.
LEMMA WordBehind ==
    ASSUME NEW S, NEW q \in Seq(S), NEW w \in S \ Modes, NEW mode
    PROVE  /\ Quiet(q) => Quiet(Append(q, w))
           /\ LatestIn(q, mode) => LatestIn(Append(q, w), mode)
<1> DEFINE a == Append(q, w)
<1>1. /\ Len(q) \in Nat /\ Len(a) = Len(q) + 1 /\ \A i \in 1..Len(q) : a[i] = q[i]
      /\ a[Len(q) + 1] = w
  BY Appends
<1>2. w \notin Modes
  OBVIOUS
<1> HIDE DEF a
<1>3. ASSUME Quiet(q) PROVE Quiet(a)
  BY <1>1, <1>2, <1>3 DEF Quiet
<1>4. ASSUME LatestIn(q, mode) PROVE LatestIn(a, mode)
  <2>1. PICK i \in 1..Len(q) : q[i] = mode /\ \A j \in 1..Len(q) : j > i => q[j] \notin Modes
    BY <1>4 DEF LatestIn
  <2>2. i \in 1..Len(a) /\ a[i] = mode
    BY <1>1, <2>1
  <2>3. \A j \in 1..Len(a) : j > i => a[j] \notin Modes
    BY <1>1, <1>2, <2>1
  <2> QED
    BY <2>2, <2>3 DEF LatestIn
<1> QED
  BY <1>3, <1>4 DEF a

\* A mode put behind is the latest.
LEMMA ModeBehind ==
    ASSUME NEW S, NEW q \in Seq(S), NEW mode \in S PROVE LatestIn(Append(q, mode), mode)
<1> DEFINE a == Append(q, mode)
<1>1. Len(q) \in Nat /\ Len(a) = Len(q) + 1 /\ a[Len(q) + 1] = mode
  BY Appends
<1> HIDE DEF a
<1>2. LatestIn(a, mode)
  <2>1. Len(q) + 1 \in 1..Len(a) /\ \A j \in 1..Len(a) : ~(j > Len(q) + 1)
    BY <1>1
  <2> QED
    BY <1>1, <2>1 DEF LatestIn
<1> QED
  BY <1>2 DEF a

\* The head is taken: the latest mode is still to come, or it was the head.
LEMMA HeadTaken ==
    ASSUME NEW S, NEW q \in Seq(S), q # <<>>, NEW mode
    PROVE  /\ Quiet(q) => Quiet(Tail(q)) /\ Head(q) \notin Modes
           /\ LatestIn(q, mode) =>
                LatestIn(Tail(q), mode) \/ (Head(q) = mode /\ Quiet(Tail(q)))
<1> DEFINE t == Tail(q)
<1>1. /\ Len(q) \in Nat \ {0} /\ Len(t) = Len(q) - 1
      /\ \A i \in 1..(Len(q) - 1) : t[i] = q[i + 1]
      /\ Head(q) = q[1]
  BY Tails
<1> HIDE DEF t
<1>2. ASSUME Quiet(q) PROVE Quiet(t) /\ Head(q) \notin Modes
  BY <1>1, <1>2 DEF Quiet
<1>3. ASSUME LatestIn(q, mode) PROVE LatestIn(t, mode) \/ (Head(q) = mode /\ Quiet(t))
  <2>1. PICK i \in 1..Len(q) : q[i] = mode /\ \A j \in 1..Len(q) : j > i => q[j] \notin Modes
    BY <1>3 DEF LatestIn
  <2>2. CASE i = 1
    BY <1>1, <2>1, <2>2 DEF Quiet
  <2>3. CASE i # 1
    <3>1. i - 1 \in 1..Len(t) /\ t[i - 1] = mode
      BY <1>1, <2>1, <2>3
    <3>2. \A j \in 1..Len(t) : j > i - 1 => t[j] \notin Modes
      BY <1>1, <2>1
    <3> QED
      BY <3>1, <3>2 DEF LatestIn
  <2> QED
    BY <2>2, <2>3
<1> QED
  BY <1>2, <1>3 DEF t

\* The mock answers whatever it reads.
LEMMA MockAnswers ==
    ASSUME WireOK, MockLoop
    PROVE  /\ down # <<>> /\ down' = Tail(down) /\ Len(up) < UpCap /\ link = "up"
           /\ spoke' = TRUE /\ \E m \in Upward : up' = Append(up, m)
<1>1. down # <<>> /\ down' = Tail(down) /\ Len(up) < UpCap /\ link = "up"
  BY DEF MockLoop, Alive
<1>2. Head(down) \in Downward
  BY <1>1, Tails DEF WireOK
<1>3. (IF Head(down) = "ping" THEN "pong" ELSE Head(down)) \in Upward
  BY <1>2 DEF Upward, Words, Downward
<1>4. up' = Append(up, IF Head(down) = "ping" THEN "pong" ELSE Head(down)) /\ spoke' = TRUE
  BY DEF MockLoop, Emit
<1> QED
  BY <1>1, <1>3, <1>4

-----------------------------------------------------------------------------
(* What never comes back. *)

\* What went wrong stays in the history.
LEMMA FaultsStay == TypeOK /\ [Next]_vars => faults \subseteq faults'
<1> SUFFICES ASSUME TypeOK, [Next]_vars PROVE faults \subseteq faults'
  OBVIOUS
<1>1. ASSUME UNCHANGED <<faults>> PROVE faults \subseteq faults'
  BY <1>1
<1>2. ASSUME HalfFrame PROVE faults \subseteq faults'
  BY <1>2 DEF HalfFrame
<1>3. ASSUME MockTorn PROVE faults \subseteq faults'
  BY <1>3 DEF MockTorn
<1>4. ASSUME NewerPhone PROVE faults \subseteq faults'
  BY <1>4 DEF NewerPhone
<1>5. ASSUME Suspend PROVE faults \subseteq faults'
  BY <1>5 DEF Suspend
<1>6. ASSUME CutLink PROVE faults \subseteq faults'
  BY <1>6 DEF CutLink
<1>7. ASSUME Stall PROVE faults \subseteq faults'
  BY <1>7 DEF Stall
<1>8. CASE UNCHANGED vars
  BY <1>8, <1>1 DEF vars, phoneVars, wireVars, stepVars, loopVars, historyVars, driverVars
<1> QED
  BY <1>1, <1>2, <1>3, <1>4, <1>5, <1>6, <1>7, <1>8, Footprints
  DEF Next, SessionNext, DriverNext, PhoneNext, FaultNext

\* A session task that has returned does not run again.
LEMMA TaskReturns == TypeOK /\ [Next]_vars => (running' = TRUE => running = TRUE)
<1> SUFFICES ASSUME TypeOK, [Next]_vars PROVE (running' = TRUE => running = TRUE)
  OBVIOUS
<1>1. ASSUME UNCHANGED <<running>> PROVE (running' = TRUE => running = TRUE)
  BY <1>1
<1>2. ASSUME OutboundBranch PROVE (running' = TRUE => running = TRUE)
  BY <1>2, OutboundDoes DEF TypeOK, TaskOK
<1>3. ASSUME KeepaliveBranch PROVE (running' = TRUE => running = TRUE)
  BY <1>3, KeepaliveDoes DEF TypeOK, TaskOK
<1>4. ASSUME RecvBranch PROVE (running' = TRUE => running = TRUE)
  BY <1>4, RecvDoes DEF TypeOK, TaskOK
<1>5. ASSUME Astray PROVE (running' = TRUE => running = TRUE)
  BY <1>5, AstrayDoes DEF TypeOK, TaskOK
<1>6. ASSUME RecvFails PROVE (running' = TRUE => running = TRUE)
  BY <1>6, RecvFailsDoes DEF TypeOK, TaskOK
<1>7. ASSUME Resume PROVE (running' = TRUE => running = TRUE)
  BY <1>7, ResumeDoes DEF TypeOK, TaskOK
<1>8. CASE UNCHANGED vars
  BY <1>8, <1>1 DEF vars, phoneVars, wireVars, stepVars, loopVars, historyVars, driverVars
<1> QED
  BY <1>1, <1>2, <1>3, <1>4, <1>5, <1>6, <1>7, <1>8, Footprints
  DEF Next, SessionNext, DriverNext, PhoneNext, FaultNext

\* A connection that is down stays down.
LEMMA LinkStaysDown == TypeOK /\ [Next]_vars => (link' = "up" => link = "up")
<1> SUFFICES ASSUME TypeOK, [Next]_vars PROVE (link' = "up" => link = "up")
  OBVIOUS
<1>1. ASSUME UNCHANGED <<link>> PROVE (link' = "up" => link = "up")
  BY <1>1
<1>2. ASSUME MockTorn PROVE (link' = "up" => link = "up")
  BY <1>2 DEF MockTorn, Alive
<1>3. ASSUME CutLink PROVE (link' = "up" => link = "up")
  BY <1>3 DEF CutLink, Alive
<1>4. ASSUME Leave PROVE (link' = "up" => link = "up")
  BY <1>4 DEF Leave, Alive
<1>5. CASE UNCHANGED vars
  BY <1>5, <1>1 DEF vars, phoneVars, wireVars, stepVars, loopVars, historyVars, driverVars
<1> QED
  BY <1>1, <1>2, <1>3, <1>4, <1>5, Footprints
  DEF Next, SessionNext, DriverNext, PhoneNext, FaultNext

-----------------------------------------------------------------------------
(* The types. *)

\* The wire and the phone.
LEMMA WireStep == IInv /\ [Next]_vars => WireOK'
<1> SUFFICES ASSUME IInv, [Next]_vars PROVE WireOK'
  OBVIOUS
<1>t. TypeOK /\ WireOK /\ TaskOK /\ LoopOK /\ DriverOK
  BY DEF IInv, TypeOK
<1>1. ASSUME UNCHANGED <<phone, awake, applied, link, spoke, up, down>> PROVE WireOK'
  BY <1>1, <1>t DEF WireOK
<1>2. ASSUME OutboundBranch PROVE WireOK'
  <2>1. outbound # <<>> /\ (down' = Append(down, Head(outbound)) \/ down' = down)
    BY <1>t, <1>2, OutboundDoes
  <2>2. Head(outbound) \in Downward
    BY <1>t, <2>1, Tails DEF DriverOK, Downward
  <2>3. down' \in Seq(Downward)
    BY <1>t, <2>1, <2>2, Appends DEF WireOK
  <2> QED
    BY <1>t, <1>2, <2>3, Footprints DEF WireOK
<1>3. ASSUME KeepaliveBranch PROVE WireOK'
  <2>1. down' = Append(down, "ping") \/ down' = down
    BY <1>t, <1>3, KeepaliveDoes
  <2>2. down' \in Seq(Downward)
    BY <1>t, <2>1, Appends DEF WireOK, Downward
  <2> QED
    BY <1>t, <1>3, <2>2, Footprints DEF WireOK
<1>4. ASSUME RecvBranch PROVE WireOK'
  <2>1. up' = Tail(up) /\ up # <<>>
    BY <1>t, <1>4, RecvDoes
  <2>2. up' \in Seq(Upward) /\ Len(up') <= UpCap
    BY <1>t, <2>1, Tails, ControlAssumption DEF WireOK
  <2>3. applied' \in Modes \cup {"none"}
    BY <1>t, <1>4, RecvDoes DEF Confirm, WireOK
  <2> QED
    BY <1>t, <1>4, <2>2, <2>3, Footprints DEF WireOK
<1>5. ASSUME Astray PROVE WireOK'
  <2>1. up' = Tail(up) /\ up # <<>>
    BY <1>t, <1>5, AstrayDoes
  <2>2. up' \in Seq(Upward) /\ Len(up') <= UpCap
    BY <1>t, <2>1, Tails, ControlAssumption DEF WireOK
  <2> QED
    BY <1>t, <1>5, <2>2, Footprints DEF WireOK
<1>6. ASSUME EmitTelemetry PROVE WireOK'
  <2>1. up' = Append(up, "telemetry") /\ spoke' = TRUE /\ Len(up) < UpCap
    BY <1>t, <1>6 DEF EmitTelemetry, Emit
  <2>2. up' \in Seq(Upward) /\ Len(up') <= UpCap
    BY <1>t, <2>1, Appends, ControlAssumption DEF Upward, Words, WireOK
  <2> QED
    BY <1>t, <1>6, <2>1, <2>2, Footprints DEF EmitTelemetry, WireOK
<1>7. ASSUME Pump PROVE WireOK'
  <2>1. /\ down # <<>> /\ down' = Tail(down) /\ Len(up) < UpCap
        /\ (\E m \in Upward : up' = Append(up, m) /\ spoke' = TRUE) \/ UNCHANGED <<up, spoke>>
    BY <1>t, <1>7, Footprints DEF Pump, Emit, Upward, Words, Downward, WireOK
  <2>2. down' \in Seq(Downward)
    BY <1>t, <2>1, Tails DEF WireOK
  <2>3. CASE UNCHANGED <<up, spoke>>
    BY <1>t, <1>7, <2>1, <2>2, <2>3, Footprints DEF WireOK
  <2>4. CASE \E m \in Upward : up' = Append(up, m) /\ spoke' = TRUE
    <3>1. up' \in Seq(Upward) /\ Len(up') = Len(up) + 1 /\ Len(up) \in Nat
      BY <1>t, <2>4, Appends DEF WireOK
    <3>2. Len(up') <= UpCap
      BY <1>t, <2>1, <3>1, ControlAssumption
    <3> QED
      BY <1>t, <1>7, <2>1, <2>2, <2>4, <3>1, <3>2, Footprints DEF WireOK
  <2> QED
    BY <1>t, <2>1, <2>3, <2>4
<1>8. ASSUME MockTelemetry PROVE WireOK'
  <2>1. up' = Append(up, "telemetry") /\ spoke' = TRUE /\ Len(up) < UpCap
    BY <1>t, <1>8 DEF MockTelemetry, Emit
  <2>2. up' \in Seq(Upward) /\ Len(up') <= UpCap
    BY <1>t, <2>1, Appends, ControlAssumption DEF Upward, Words, WireOK
  <2> QED
    BY <1>t, <1>8, <2>1, <2>2, Footprints DEF MockTelemetry, WireOK
<1>9. ASSUME MockLoop PROVE WireOK'
  <2>1. /\ down # <<>> /\ down' = Tail(down) /\ Len(up) < UpCap
        /\ (\E m \in Upward : up' = Append(up, m) /\ spoke' = TRUE) \/ UNCHANGED <<up, spoke>>
    BY <1>t, <1>9, MockAnswers
  <2>2. down' \in Seq(Downward)
    BY <1>t, <2>1, Tails DEF WireOK
  <2>3. CASE UNCHANGED <<up, spoke>>
    BY <1>t, <1>9, <2>1, <2>2, <2>3, Footprints DEF WireOK
  <2>4. CASE \E m \in Upward : up' = Append(up, m) /\ spoke' = TRUE
    <3>1. up' \in Seq(Upward) /\ Len(up') = Len(up) + 1 /\ Len(up) \in Nat
      BY <1>t, <2>4, Appends DEF WireOK
    <3>2. Len(up') <= UpCap
      BY <1>t, <2>1, <3>1, ControlAssumption
    <3> QED
      BY <1>t, <1>9, <2>1, <2>2, <2>4, <3>1, <3>2, Footprints DEF WireOK
  <2> QED
    BY <1>t, <2>1, <2>3, <2>4
<1>10. ASSUME MockTorn PROVE WireOK'
  <2>1. down # <<>> /\ down' = Tail(down) /\ link' \in {"up", "closed"}
    BY <1>t, <1>10 DEF MockTorn
  <2>2. down' \in Seq(Downward)
    BY <1>t, <2>1, Tails DEF WireOK
  <2> QED
    BY <1>t, <1>10, <2>1, <2>2, Footprints DEF WireOK
<1>11. ASSUME NewerPhone PROVE WireOK'
  <2>1. up' = Append(up, "unknown") /\ spoke' = TRUE /\ Len(up) < UpCap
    BY <1>t, <1>11 DEF NewerPhone, Emit
  <2>2. up' \in Seq(Upward) /\ Len(up') <= UpCap
    BY <1>t, <2>1, Appends, ControlAssumption DEF Upward, Words, WireOK
  <2> QED
    BY <1>t, <1>11, <2>1, <2>2, Footprints DEF NewerPhone, WireOK
<1>12. ASSUME Suspend PROVE WireOK'
  BY <1>t, <1>12, Footprints DEF Suspend, WireOK
<1>13. ASSUME CutLink PROVE WireOK'
  <2>1. link' = "cut" /\ up' = <<>> /\ down' = <<>>
    BY <1>t, <1>13 DEF CutLink
  <2>2. up' \in Seq(Upward) /\ Len(up') = 0 /\ down' \in Seq(Downward)
    BY <1>t, <2>1, EmptySeq
  <2> QED
    BY <1>t, <1>13, <2>1, <2>2, ControlAssumption, Footprints DEF WireOK
<1>14. ASSUME Leave PROVE WireOK'
  <2>1. up' = Append(up, "bye") /\ spoke' = TRUE /\ Len(up) < UpCap
    BY <1>t, <1>14 DEF Leave, Emit
  <2>2. up' \in Seq(Upward) /\ Len(up') <= UpCap
    BY <1>t, <2>1, Appends, ControlAssumption DEF Upward, Words, WireOK
  <2> QED
    BY <1>t, <1>14, <2>1, <2>2, Footprints DEF Leave, WireOK
<1>15. ASSUME Tick PROVE WireOK'
  BY <1>t, <1>15, Footprints DEF Tick, WireOK
<1>16. CASE UNCHANGED vars
  BY <1>16, <1>1 DEF vars, phoneVars, wireVars, stepVars, loopVars, historyVars, driverVars
<1> QED
  <2> HIDE DEF IInv
  <2> QED
    BY <1>1, <1>2, <1>3, <1>4, <1>5, <1>6, <1>7, <1>8, <1>9, <1>10, <1>11, <1>12, <1>13, <1>14,
       <1>15, <1>16, Footprints
    DEF Next, SessionNext, DriverNext, PhoneNext, FaultNext

\* The session task and its channels.
LEMMA TaskStep == IInv /\ [Next]_vars => TaskOK'
<1> SUFFICES ASSUME IInv, [Next]_vars PROVE TaskOK'
  OBVIOUS
<1>t. TypeOK /\ WireOK /\ TaskOK /\ LoopOK /\ DriverOK
  BY DEF IInv, TypeOK
<1>1. ASSUME UNCHANGED <<running, owed, next, tele, backlog, stalled>> PROVE TaskOK'
  BY <1>1, <1>t DEF TaskOK
<1>2. ASSUME OutboundBranch PROVE TaskOK'
  BY <1>t, <1>2, OutboundDoes, Footprints DEF WentOn, Ended, DeliverEffect, TaskOK
<1>3. ASSUME KeepaliveBranch PROVE TaskOK'
  BY <1>t, <1>3, KeepaliveDoes, Footprints DEF WentOn, Ended, DeliverEffect, TaskOK
<1>4. ASSUME RecvBranch PROVE TaskOK'
  <2>1. CASE UNCHANGED <<running, owed, next, tele, backlog>>
    BY <1>t, <1>4, <2>1, Footprints DEF TaskOK
  <2>2. CASE \E then \in {"loop", "feed", "over"} : DeliverEffect(then)
    BY <1>t, <2>2 DEF DeliverEffect
  <2> QED
    BY <1>t, <1>4, <2>1, <2>2, RecvDoes DEF Ended
<1>5. ASSUME Astray PROVE TaskOK'
  BY <1>t, <1>5, AstrayDoes, Footprints DEF WentOn, Ended, DeliverEffect, TaskOK
<1>6. ASSUME RecvFails PROVE TaskOK'
  BY <1>t, <1>6, RecvFailsDoes, Footprints DEF WentOn, Ended, DeliverEffect, TaskOK
<1>7. ASSUME Resume PROVE TaskOK'
  BY <1>t, <1>7, ResumeDoes, Footprints DEF WentOn, Ended, DeliverEffect, TaskOK
<1>8. ASSUME Observe PROVE TaskOK'
  BY <1>t, <1>8, ControlAssumption, Footprints DEF Observe, TaskOK
<1>9. ASSUME Stall PROVE TaskOK'
  BY <1>t, <1>9, ControlAssumption, Footprints DEF Stall, TaskOK
<1>10. ASSUME Unstall PROVE TaskOK'
  <2>1. stalled' = FALSE /\ backlog' = 0
    BY <1>t, <1>10 DEF Unstall
  <2>2. backlog' \in 0..EventCap
    BY <1>t, <2>1, ControlAssumption
  <2> QED
    BY <1>t, <1>10, <2>1, <2>2, Footprints DEF TaskOK
<1>11. CASE UNCHANGED vars
  BY <1>11, <1>1 DEF vars, phoneVars, wireVars, stepVars, loopVars, historyVars, driverVars
<1> QED
  <2> HIDE DEF IInv
  <2> QED
    BY <1>1, <1>2, <1>3, <1>4, <1>5, <1>6, <1>7, <1>8, <1>9, <1>10, <1>11, Footprints
    DEF Next, SessionNext, DriverNext, PhoneNext, FaultNext

\* The loop's clocks, its read_frame and the history.
LEMMA LoopStep == IInv /\ [Next]_vars => LoopOK'
<1> SUFFICES ASSUME IInv, [Next]_vars PROVE LoopOK'
  OBVIOUS
<1>t. TypeOK /\ WireOK /\ TaskOK /\ LoopOK /\ DriverOK
  BY DEF IInv, TypeOK
<1>1. ASSUME UNCHANGED <<reader, age, due, why, faults>> PROVE LoopOK'
  BY <1>1, <1>t DEF LoopOK
<1>2. ASSUME OutboundBranch PROVE LoopOK'
  <2>1. reader' \in {"clean", "half", "astray", "swallow"}
    BY <1>t, <1>2 DEF OutboundBranch, CancelRecv, LoopOK
  <2>2. why' \in {"none", "bye", "link", "undecodable", "dead"}
    BY <1>t, <1>2, OutboundDoes DEF WentOn, Ended, LoopOK
  <2>3. due' \in Nat
    BY <1>t, <1>2, Footprints DEF LoopOK
  <2> QED
    BY <1>t, <1>2, <2>1, <2>2, <2>3, Footprints DEF LoopOK
<1>3. ASSUME KeepaliveBranch PROVE LoopOK'
  <2>1. reader' \in {"clean", "half", "astray", "swallow"}
    BY <1>t, <1>3 DEF KeepaliveBranch, CancelRecv, LoopOK
  <2>2. why' \in {"none", "bye", "link", "undecodable", "dead"}
    BY <1>t, <1>3, KeepaliveDoes DEF WentOn, Ended, LoopOK
  <2>3. due' \in Nat
    BY <1>t, <1>3 DEF KeepaliveBranch, LoopOK
  <2> QED
    BY <1>t, <1>3, <2>1, <2>2, <2>3, Footprints DEF LoopOK
<1>4. ASSUME RecvBranch PROVE LoopOK'
  <2>1. reader' = "clean" /\ why' \in {"none", "bye", "link", "undecodable", "dead"}
    BY <1>t, <1>4, RecvDoes DEF Ended, LoopOK
  <2>2. age' = 0 \/ age' = age
    BY <1>t, <1>4 DEF RecvBranch
  <2>3. age' \in 0..(DeadAfter + 1)
    BY <1>t, <2>2, ControlAssumption DEF LoopOK
  <2> QED
    BY <1>t, <1>4, <2>1, <2>3, Footprints DEF LoopOK
<1>5. ASSUME Astray PROVE LoopOK'
  BY <1>t, <1>5, AstrayDoes, Footprints DEF WentOn, Ended, LoopOK
<1>6. ASSUME RecvFails PROVE LoopOK'
  BY <1>t, <1>6, RecvFailsDoes, Footprints DEF Ended, LoopOK
<1>7. ASSUME HalfFrame PROVE LoopOK'
  BY <1>t, <1>7, ControlAssumption, Footprints DEF HalfFrame, LoopOK, Faults
<1>8. ASSUME MockTorn PROVE LoopOK'
  BY <1>t, <1>8, ControlAssumption, Footprints DEF MockTorn, LoopOK, Faults
<1>9. ASSUME NewerPhone PROVE LoopOK'
  BY <1>t, <1>9, ControlAssumption, Footprints DEF NewerPhone, LoopOK, Faults
<1>10. ASSUME Suspend PROVE LoopOK'
  BY <1>t, <1>10, ControlAssumption, Footprints DEF Suspend, LoopOK, Faults
<1>11. ASSUME CutLink PROVE LoopOK'
  BY <1>t, <1>11, ControlAssumption, Footprints DEF CutLink, LoopOK, Faults
<1>12. ASSUME Stall PROVE LoopOK'
  BY <1>t, <1>12, ControlAssumption, Footprints DEF Stall, LoopOK, Faults
<1>13. ASSUME Tick PROVE LoopOK'
  <2>1. age' = age + 1 /\ due' = due + 1 /\ age <= DeadAfter
    BY <1>t, <1>13 DEF Tick
  <2>2. age' \in 0..(DeadAfter + 1) /\ due' \in Nat
    BY <1>t, <2>1, ControlAssumption DEF LoopOK
  <2> QED
    BY <1>t, <1>13, <2>2, Footprints DEF LoopOK
<1>14. CASE UNCHANGED vars
  BY <1>14, <1>1 DEF vars, phoneVars, wireVars, stepVars, loopVars, historyVars, driverVars
<1> QED
  <2> HIDE DEF IInv
  <2> QED
    BY <1>1, <1>2, <1>3, <1>4, <1>5, <1>6, <1>7, <1>8, <1>9, <1>10, <1>11, <1>12, <1>13, <1>14,
       Footprints
    DEF Next, SessionNext, DriverNext, PhoneNext, FaultNext

\* The driver and its channel to the task.
LEMMA DriverStep == IInv /\ [Next]_vars => DriverOK'
<1> SUFFICES ASSUME IInv, [Next]_vars PROVE DriverOK'
  OBVIOUS
<1>t. TypeOK /\ WireOK /\ TaskOK /\ LoopOK /\ DriverOK
  BY DEF IInv, TypeOK
<1>1. ASSUME UNCHANGED <<driver, dmode, cooled, outbound>> PROVE DriverOK'
  BY <1>1, <1>t DEF DriverOK
<1>2. ASSUME OutboundBranch PROVE DriverOK'
  <2>1. outbound # <<>> /\ outbound' = Tail(outbound)
    BY <1>t, <1>2, OutboundDoes
  <2>2. outbound' \in Seq(Modes) /\ Len(outbound') <= OutCap
    BY <1>t, <2>1, Tails, ControlAssumption DEF DriverOK
  <2> QED
    BY <1>t, <1>2, <2>2, Footprints DEF DriverOK
<1>3. ASSUME Observe PROVE DriverOK'
  <2>1. driver' \in Modes \cup {"idle"} /\ dmode' \in Modes /\ cooled' \in BOOLEAN
    BY <1>t, <1>3 DEF Observe, DriverOK, driverVars
  <2> QED
    BY <1>t, <1>3, <2>1, Footprints DEF DriverOK
<1>4. ASSUME DriverSends PROVE DriverOK'
  <2>1. /\ driver \in Modes /\ driver' = "idle"
        /\ outbound' = outbound \/ (Len(outbound) < OutCap /\ outbound' = Append(outbound, driver))
    BY <1>t, <1>4 DEF DriverSends, DriverOK
  <2>2. outbound' \in Seq(Modes) /\ Len(outbound') <= OutCap
    BY <1>t, <2>1, Appends, ControlAssumption DEF DriverOK
  <2> QED
    BY <1>t, <1>4, <2>1, <2>2, Footprints DEF DriverOK
<1>5. ASSUME Tick PROVE DriverOK'
  BY <1>t, <1>5, Footprints DEF Tick, DriverOK
<1>6. CASE UNCHANGED vars
  BY <1>6, <1>1 DEF vars, phoneVars, wireVars, stepVars, loopVars, historyVars, driverVars
<1> QED
  <2> HIDE DEF IInv
  <2> QED
    BY <1>1, <1>2, <1>3, <1>4, <1>5, <1>6, Footprints
    DEF Next, SessionNext, DriverNext, PhoneNext, FaultNext

\* Every step keeps the types.
LEMMA TypeStep == IInv /\ [Next]_vars => TypeOK'
  BY WireStep, TaskStep, LoopStep, DriverStep DEF TypeOK

-----------------------------------------------------------------------------
(* What is odd has its fault. *)

\* read_frame goes astray only once a frame came in two parts.
LEMMA TornStep == IInv /\ [Next]_vars => TornBlamed'
<1> SUFFICES ASSUME IInv, [Next]_vars PROVE TornBlamed'
  OBVIOUS
<1>t. TypeOK /\ WireOK /\ TaskOK /\ LoopOK /\ DriverOK /\ Blamed
  BY DEF IInv, TypeOK
<1>f. faults \subseteq faults'
  BY <1>t, FaultsStay
<1>1. ASSUME UNCHANGED <<reader, faults>> PROVE TornBlamed'
  BY <1>1, <1>t, <1>f DEF Blamed, TornBlamed
<1>2. ASSUME OutboundBranch PROVE TornBlamed'
  BY <1>t, <1>f, <1>2, Footprints DEF OutboundBranch, CancelRecv, Blamed, TornBlamed
<1>3. ASSUME KeepaliveBranch PROVE TornBlamed'
  BY <1>t, <1>f, <1>3, Footprints DEF KeepaliveBranch, CancelRecv, Blamed, TornBlamed
<1>4. ASSUME RecvBranch PROVE TornBlamed'
  BY <1>t, <1>f, <1>4, RecvDoes DEF TornBlamed
<1>5. ASSUME Astray PROVE TornBlamed'
  BY <1>t, <1>f, <1>5, AstrayDoes DEF Blamed, TornBlamed
<1>6. ASSUME HalfFrame PROVE TornBlamed'
  BY <1>t, <1>f, <1>6 DEF HalfFrame, TornBlamed
<1>7. ASSUME MockTorn PROVE TornBlamed'
  BY <1>t, <1>f, <1>7, Footprints DEF Blamed, TornBlamed
<1>8. ASSUME NewerPhone PROVE TornBlamed'
  BY <1>t, <1>f, <1>8, Footprints DEF Blamed, TornBlamed
<1>9. ASSUME Suspend PROVE TornBlamed'
  BY <1>t, <1>f, <1>9, Footprints DEF Blamed, TornBlamed
<1>10. ASSUME CutLink PROVE TornBlamed'
  BY <1>t, <1>f, <1>10, Footprints DEF Blamed, TornBlamed
<1>11. ASSUME Stall PROVE TornBlamed'
  BY <1>t, <1>f, <1>11, Footprints DEF Blamed, TornBlamed
<1>12. CASE UNCHANGED vars
  BY <1>12, <1>1 DEF vars, phoneVars, wireVars, stepVars, loopVars, historyVars, driverVars
<1> QED
  <2> HIDE DEF IInv
  <2> QED
    BY <1>1, <1>2, <1>3, <1>4, <1>5, <1>6, <1>7, <1>8, <1>9, <1>10, <1>11, <1>12, Footprints
    DEF Next, SessionNext, DriverNext, PhoneNext, FaultNext

\* The task is held up only when its events were left unread.
LEMMA HeldStep == IInv /\ [Next]_vars => HeldBlamed'
<1> SUFFICES ASSUME IInv, [Next]_vars PROVE HeldBlamed'
  OBVIOUS
<1>t. TypeOK /\ WireOK /\ TaskOK /\ LoopOK /\ DriverOK /\ Blamed
  BY DEF IInv, TypeOK
<1>f. faults \subseteq faults'
  BY <1>t, FaultsStay
<1>1. ASSUME UNCHANGED <<stalled, owed, faults>> PROVE HeldBlamed'
  BY <1>1, <1>t, <1>f DEF Blamed, HeldBlamed
<1>2. ASSUME OutboundBranch PROVE HeldBlamed'
  BY <1>t, <1>f, <1>2, OutboundDoes, Footprints DEF WentOn, Ended, DeliverEffect, Blamed,
     HeldBlamed, TaskOK
<1>3. ASSUME KeepaliveBranch PROVE HeldBlamed'
  BY <1>t, <1>f, <1>3, KeepaliveDoes, Footprints DEF WentOn, Ended, DeliverEffect, Blamed,
     HeldBlamed, TaskOK
<1>4. ASSUME RecvBranch PROVE HeldBlamed'
  BY <1>t, <1>f, <1>4, RecvDoes, Footprints DEF WentOn, Ended, DeliverEffect, Blamed,
     HeldBlamed, TaskOK
<1>5. ASSUME Astray PROVE HeldBlamed'
  BY <1>t, <1>f, <1>5, AstrayDoes, Footprints DEF WentOn, Ended, DeliverEffect, Blamed,
     HeldBlamed, TaskOK
<1>6. ASSUME RecvFails PROVE HeldBlamed'
  BY <1>t, <1>f, <1>6, RecvFailsDoes, Footprints DEF WentOn, Ended, DeliverEffect, Blamed,
     HeldBlamed, TaskOK
<1>7. ASSUME Resume PROVE HeldBlamed'
  BY <1>t, <1>f, <1>7, ResumeDoes, Footprints DEF WentOn, Ended, DeliverEffect, Blamed,
     HeldBlamed, TaskOK
<1>8. ASSUME HalfFrame PROVE HeldBlamed'
  BY <1>t, <1>f, <1>8, Footprints DEF Blamed, HeldBlamed, TaskOK
<1>9. ASSUME MockTorn PROVE HeldBlamed'
  BY <1>t, <1>f, <1>9, Footprints DEF Blamed, HeldBlamed, TaskOK
<1>10. ASSUME NewerPhone PROVE HeldBlamed'
  BY <1>t, <1>f, <1>10, Footprints DEF Blamed, HeldBlamed, TaskOK
<1>11. ASSUME Suspend PROVE HeldBlamed'
  BY <1>t, <1>f, <1>11, Footprints DEF Blamed, HeldBlamed, TaskOK
<1>12. ASSUME CutLink PROVE HeldBlamed'
  BY <1>t, <1>f, <1>12, Footprints DEF Blamed, HeldBlamed, TaskOK
<1>13. ASSUME Stall PROVE HeldBlamed'
  BY <1>t, <1>f, <1>13, Footprints DEF Stall, Blamed, HeldBlamed, TaskOK
<1>14. ASSUME Unstall PROVE HeldBlamed'
  BY <1>t, <1>f, <1>14, Footprints DEF Unstall, Blamed, HeldBlamed, TaskOK
<1>15. CASE UNCHANGED vars
  BY <1>15, <1>1 DEF vars, phoneVars, wireVars, stepVars, loopVars, historyVars, driverVars
<1> QED
  <2> HIDE DEF IInv
  <2> QED
    BY <1>1, <1>2, <1>3, <1>4, <1>5, <1>6, <1>7, <1>8, <1>9, <1>10, <1>11, <1>12, <1>13, <1>14,
       <1>15, Footprints
    DEF Next, SessionNext, DriverNext, PhoneNext, FaultNext

\* A phone that does not run was put to sleep.
LEMMA SleepStep == IInv /\ [Next]_vars => SleepBlamed'
<1> SUFFICES ASSUME IInv, [Next]_vars PROVE SleepBlamed'
  OBVIOUS
<1>t. TypeOK /\ WireOK /\ TaskOK /\ LoopOK /\ DriverOK /\ Blamed
  BY DEF IInv, TypeOK
<1>f. faults \subseteq faults'
  BY <1>t, FaultsStay
<1>1. ASSUME UNCHANGED <<awake, faults>> PROVE SleepBlamed'
  BY <1>1, <1>t, <1>f DEF Blamed, SleepBlamed
<1>2. ASSUME HalfFrame PROVE SleepBlamed'
  BY <1>t, <1>f, <1>2, Footprints DEF Blamed, SleepBlamed
<1>3. ASSUME MockTorn PROVE SleepBlamed'
  BY <1>t, <1>f, <1>3, Footprints DEF Blamed, SleepBlamed
<1>4. ASSUME NewerPhone PROVE SleepBlamed'
  BY <1>t, <1>f, <1>4, Footprints DEF Blamed, SleepBlamed
<1>5. ASSUME Suspend PROVE SleepBlamed'
  BY <1>t, <1>f, <1>5 DEF Suspend, Blamed, SleepBlamed, WireOK
<1>6. ASSUME CutLink PROVE SleepBlamed'
  BY <1>t, <1>f, <1>6, Footprints DEF Blamed, SleepBlamed
<1>7. ASSUME Stall PROVE SleepBlamed'
  BY <1>t, <1>f, <1>7, Footprints DEF Blamed, SleepBlamed
<1>8. CASE UNCHANGED vars
  BY <1>8, <1>1 DEF vars, phoneVars, wireVars, stepVars, loopVars, historyVars, driverVars
<1> QED
  <2> HIDE DEF IInv
  <2> QED
    BY <1>1, <1>2, <1>3, <1>4, <1>5, <1>6, <1>7, <1>8, Footprints
    DEF Next, SessionNext, DriverNext, PhoneNext, FaultNext

-----------------------------------------------------------------------------
(* A phone that answers is heard. *)

\* Nothing but the phone's silence makes the last frame old.
LEMMA HeardStep == IInv /\ [Next]_vars => Heard'
<1> SUFFICES ASSUME IInv, [Next]_vars PROVE Heard'
  OBVIOUS
<1> SUFFICES ASSUME running' = TRUE, ~Disturbed' PROVE InTouch'
  BY DEF Heard
<1>a. TypeOK /\ WireOK /\ TaskOK /\ LoopOK
  BY DEF IInv, TypeOK
<1>b. running = TRUE /\ ~Disturbed
  BY <1>a, TaskReturns, FaultsStay DEF Disturbed
<1>c. reader = "clean" /\ stalled = FALSE /\ ~(owed > 0) /\ awake = TRUE
  BY <1>a, <1>b DEF IInv, Blamed, TornBlamed, HeldBlamed, SleepBlamed, Disturbed, WireOK, TaskOK
<1>d. InTouch
  BY <1>b DEF IInv, Heard
<1>t. WireOK /\ LoopOK /\ TypeOK
  BY <1>a
<1>1. ASSUME UNCHANGED <<age, spoke, up, link>> PROVE InTouch'
  BY <1>1, <1>d DEF InTouch
<1>2. ASSUME RecvBranch PROVE InTouch'
  <2>1. ~Ended("undecodable") /\ ~Ended("bye")
    BY <1>t, <1>2, <1>c DEF Ended, DeliverEffect
  <2>2. age' = 0 /\ up' = Tail(up) /\ up # <<>> /\ Head(up) # "bye"
    BY <1>t, <1>2, <2>1, RecvDoes
  <2>3. CASE link # "up"
    <3>1. PICK i \in 1..Len(up) : up[i] = "bye"
      BY <1>t, <2>3, <1>d DEF InTouch
    <3>2. i - 1 \in 1..Len(up') /\ up'[i - 1] = "bye"
      BY <1>t, <2>2, <3>1, Tails DEF WireOK
    <3>3. \E j \in 1..Len(up') : up'[j] = "bye"
      BY <3>2, Zenon
    <3>4. age' <= 1
      BY <2>2
    <3> QED
      BY <2>2, <3>3, <3>4 DEF InTouch
  <2>4. CASE link = "up"
    BY <1>t, <1>2, <2>2, <2>4, Footprints DEF InTouch
  <2> QED
    BY <1>t, <2>3, <2>4
<1>3. ASSUME Astray PROVE InTouch'
  BY <1>t, <1>3, <1>c, AstrayDoes
<1>4. ASSUME EmitTelemetry PROVE InTouch'
  <2>1. up' = Append(up, "telemetry") /\ link = "up"
    BY <1>t, <1>4 DEF EmitTelemetry, Emit, Alive
  <2>2. up' # <<>>
    BY <1>t, <2>1, Appends DEF WireOK, Upward, Words
  <2> QED
    BY <1>t, <1>4, <2>1, <2>2, <1>d, Footprints DEF InTouch
<1>5. ASSUME Pump PROVE InTouch'
  <2>1. /\ (\E m \in Upward : up' = Append(up, m)) \/ UNCHANGED <<up, spoke>>
        /\ link = "up"
    BY <1>t, <1>5, Footprints DEF Pump, Emit, Alive, Upward, Words
  <2>2. up' # <<>> \/ UNCHANGED <<up, spoke>>
    BY <1>t, <2>1, Appends DEF WireOK, Upward, Words
  <2> QED
    BY <1>t, <1>5, <2>1, <2>2, <1>d, Footprints DEF InTouch
<1>6. ASSUME MockTelemetry PROVE InTouch'
  <2>1. up' = Append(up, "telemetry") /\ link = "up"
    BY <1>t, <1>6 DEF MockTelemetry, Emit, Alive
  <2>2. up' # <<>>
    BY <1>t, <2>1, Appends DEF WireOK, Upward, Words
  <2> QED
    BY <1>t, <1>6, <2>1, <2>2, <1>d, Footprints DEF InTouch
<1>7. ASSUME MockLoop PROVE InTouch'
  <2>1. /\ (\E m \in Upward : up' = Append(up, m)) \/ UNCHANGED <<up, spoke>>
        /\ link = "up"
    BY <1>t, <1>7, MockAnswers
  <2>2. up' # <<>> \/ UNCHANGED <<up, spoke>>
    BY <1>t, <2>1, Appends DEF WireOK, Upward, Words
  <2> QED
    BY <1>t, <1>7, <2>1, <2>2, <1>d, Footprints DEF InTouch
<1>8. ASSUME MockTorn PROVE InTouch'
  <2>1. Disturbed'
    BY <1>t, <1>8 DEF MockTorn, Disturbed
  <2> QED
    BY <1>t, <2>1
<1>9. ASSUME NewerPhone PROVE InTouch'
  <2>1. up' = Append(up, "unknown") /\ link = "up"
    BY <1>t, <1>9 DEF NewerPhone, Emit, Alive
  <2>2. up' # <<>>
    BY <1>t, <2>1, Appends DEF WireOK, Upward, Words
  <2> QED
    BY <1>t, <1>9, <2>1, <2>2, <1>d, Footprints DEF InTouch
<1>10. ASSUME CutLink PROVE InTouch'
  <2>1. Disturbed'
    BY <1>t, <1>10 DEF CutLink, Disturbed
  <2> QED
    BY <1>t, <2>1
<1>11. ASSUME Leave PROVE InTouch'
  <2>1. up' = Append(up, "bye")
    BY <1>t, <1>11 DEF Leave, Emit
  <2>2. Len(up) + 1 \in 1..Len(up') /\ up'[Len(up) + 1] = "bye" /\ up' # <<>>
    BY <1>t, <2>1, Appends DEF WireOK, Upward, Words
  <2> QED
    BY <1>t, <1>11, <2>2, <1>d, Footprints DEF InTouch
<1>12. ASSUME Tick PROVE InTouch'
  <2>1. ~(owed > 0) /\ reader # "half"
    BY <1>c
  <2>2. up = <<>> /\ (Alive => spoke)
    BY <1>t, <1>12, <2>1 DEF Tick
  <2>3. link = "up"
    BY <1>t, <2>2, <1>d, EmptySeq DEF InTouch
  <2>4. spoke = TRUE
    BY <1>t, <2>2, <2>3, <1>c DEF Alive, WireOK
  <2>5. age = 0
    BY <1>t, <2>2, <2>4, <1>d DEF InTouch
  <2>6. age' = 1 /\ spoke' = FALSE
    BY <1>t, <1>12, <2>5 DEF Tick
  <2> QED
    BY <1>t, <1>12, <2>3, <2>6, Footprints DEF InTouch
<1>13. CASE UNCHANGED vars
  BY <1>13, <1>1 DEF vars, phoneVars, wireVars, stepVars, loopVars, historyVars, driverVars
<1> QED
  <2> HIDE DEF IInv
  <2> QED
    BY <1>1, <1>2, <1>3, <1>4, <1>5, <1>6, <1>7, <1>8, <1>9, <1>10, <1>11, <1>12, <1>13,
       Footprints
    DEF Next, SessionNext, DriverNext, PhoneNext, FaultNext

-----------------------------------------------------------------------------
(* The driver's mode is on its way. *)

\* The newest mode moves down the queues to the phone.
LEMMA FollowsStep == IInv /\ [Next]_vars => Follows'
<1> SUFFICES ASSUME IInv, [Next]_vars PROVE Follows'
  OBVIOUS
<1> SUFFICES ASSUME phone' = "mock", running' = TRUE, link' = "up", "torn" \notin faults'
             PROVE  OnItsWay'
  BY DEF Follows
<1>a. TypeOK /\ WireOK /\ TaskOK /\ LoopOK /\ DriverOK
  BY DEF IInv, TypeOK
<1>b. running = TRUE /\ link = "up" /\ "torn" \notin faults
  BY <1>a, TaskReturns, LinkStaysDown, FaultsStay
<1>c. phone = "mock"
  BY Footprints DEF Next, SessionNext, DriverNext, PhoneNext, FaultNext, vars, phoneVars
<1>d. OnItsWay
  BY <1>b, <1>c DEF IInv, Follows
<1>t. WireOK /\ DriverOK /\ TypeOK
  BY <1>a
<1>1. ASSUME UNCHANGED <<driver, dmode, outbound, down, up, applied>> PROVE OnItsWay'
  BY <1>1, <1>d DEF OnItsWay, Returns, Confirmed
\* A frame that is no mode is put behind those on the way back.
<1>u. ASSUME UNCHANGED <<driver, dmode, outbound, down, applied>>, NEW w \in Words,
             up' = Append(up, w)
      PROVE  OnItsWay'
  <2>1. w \in Upward \ Modes
    BY ControlAssumption DEF Upward
  <2>2. /\ Quiet(up) => Quiet(up')
        /\ LatestIn(up, dmode) => LatestIn(up', dmode)
    BY <1>t, <1>u, <2>1, WordBehind DEF WireOK
  <2>3. Returns => Returns'
    BY <1>u, <2>2 DEF Returns, Confirmed
  <2> QED
    BY <1>u, <2>3, <1>d DEF OnItsWay
<1>2. ASSUME OutboundBranch PROVE OnItsWay'
  <2>1. outbound # <<>> /\ outbound' = Tail(outbound)
    BY <1>t, <1>2, OutboundDoes
  <2>2. CASE driver # "idle"
    BY <1>t, <1>2, <2>2, <1>d, Footprints DEF OnItsWay
  <2>3. CASE driver = "idle"
    <3>1. outbound[Len(outbound)] = dmode
      BY <1>t, <2>1, <2>3, <1>d DEF OnItsWay
    <3>2. driver' = "idle" /\ dmode' = dmode
      BY <1>t, <1>2, <2>3, Footprints
    <3>3. CASE Len(outbound) = 1
      <4>1. Head(outbound) = dmode /\ outbound' \in Seq(Modes) /\ Len(outbound') = 0
        BY <1>t, <2>1, <3>1, <3>3, Tails DEF DriverOK
      <4>2. outbound' = <<>>
        BY <4>1, EmptySeq
      <4>3. down' = Append(down, dmode)
        BY <1>t, <1>2, <1>b, <4>1, OutboundDoes
      <4>4. LatestIn(down', dmode)
        BY <1>t, <4>3, ModeBehind DEF WireOK, DriverOK, Downward
      <4> QED
        BY <3>2, <4>2, <4>4 DEF OnItsWay
    <3>4. CASE Len(outbound) # 1
      <4>a. /\ Len(outbound) \in Nat \ {0} /\ Len(outbound') = Len(outbound) - 1
            /\ \A i \in 1..(Len(outbound) - 1) : outbound'[i] = outbound[i + 1]
        BY <1>t, <2>1, Tails DEF DriverOK
      <4>b. Len(outbound') \in 1..(Len(outbound) - 1)
        BY <3>4, <4>a
      <4>1. outbound'[Len(outbound')] = outbound[Len(outbound)] /\ Len(outbound') # 0
        BY <4>a, <4>b
      <4>2. outbound' # <<>>
        BY <4>1, EmptySeq
      <4> QED
        BY <3>1, <3>2, <4>1, <4>2 DEF OnItsWay
    <3> QED
      BY <3>3, <3>4
  <2> QED
    BY <1>t, <2>2, <2>3
<1>3. ASSUME KeepaliveBranch PROVE OnItsWay'
  <2>1. down' = Append(down, "ping")
    BY <1>t, <1>3, <1>b, KeepaliveDoes
  <2>2. "ping" \in Downward \ Modes
    BY ControlAssumption DEF Downward
  <2>3. /\ Quiet(down) => Quiet(down')
        /\ LatestIn(down, dmode) => LatestIn(down', dmode)
    BY <1>t, <2>1, <2>2, WordBehind DEF WireOK
  <2>4. UNCHANGED <<driver, dmode, outbound, up, applied>>
    BY <1>3, Footprints
  <2> QED
    BY <2>3, <2>4, <1>d DEF OnItsWay, Returns, Confirmed
<1>4. ASSUME Observe PROVE OnItsWay'
  <2>1. CASE UNCHANGED driverVars
    BY <1>4, <2>1, <1>1, Footprints DEF driverVars
  <2>2. CASE \E m \in Modes : dmode' = m /\ driver' = m
    BY <1>t, <2>2, ControlAssumption DEF OnItsWay
  <2> QED
    BY <1>t, <1>4, <2>1, <2>2 DEF Observe
<1>5. ASSUME DriverSends PROVE OnItsWay'
  <2>1. driver = dmode
    BY <1>t, <1>5, <1>d DEF OnItsWay, DriverSends
  <2>2. outbound' = Append(outbound, dmode) /\ driver' = "idle"
    BY <1>t, <1>5, <1>b, <2>1 DEF DriverSends
  <2>3. outbound' # <<>> /\ outbound'[Len(outbound')] = dmode
    BY <1>t, <2>2, Appends DEF DriverOK
  <2> QED
    BY <1>t, <1>5, <2>2, <2>3, Footprints DEF OnItsWay
<1>6. ASSUME Pump PROVE OnItsWay'
  BY <1>t, <1>6, <1>c DEF Pump
<1>7. ASSUME MockLoop PROVE OnItsWay'
  <2>1. down # <<>> /\ down' = Tail(down)
    BY <1>t, <1>7 DEF MockLoop
  <2>2. /\ Quiet(down) => Quiet(down') /\ Head(down) \notin Modes
        /\ LatestIn(down, dmode) =>
             LatestIn(down', dmode) \/ (Head(down) = dmode /\ Quiet(down'))
    BY <1>t, <2>1, HeadTaken DEF WireOK
  <2>3. UNCHANGED <<driver, dmode, outbound, applied>> /\ dmode \in Modes
    BY <1>t, <1>7, Footprints DEF DriverOK
  <2>4. CASE Head(down) = "ping"
    <3>1. up' = Append(up, "pong")
      BY <1>7, <2>4 DEF MockLoop, Emit
    <3>2. "pong" \in Upward \ Modes /\ "ping" \notin Modes
      BY ControlAssumption DEF Upward, Words
    <3>3. /\ Quiet(up) => Quiet(up')
          /\ LatestIn(up, dmode) => LatestIn(up', dmode)
      BY <1>t, <3>1, <3>2, WordBehind DEF WireOK
    <3>4. Returns => Returns'
      BY <2>3, <3>3 DEF Returns, Confirmed
    <3>5. Head(down) # dmode
      BY <2>3, <2>4, <3>2
    <3> QED
      BY <2>2, <2>3, <3>4, <3>5, <1>d DEF OnItsWay
  <2>5. CASE Head(down) # "ping"
    <3>1. up' = Append(up, Head(down)) /\ Head(down) \in Modes
      BY <1>t, <1>7, <2>1, <2>5, Tails DEF MockLoop, Emit, WireOK, Downward
    <3>2. Head(down) = dmode => LatestIn(up', dmode)
      BY <1>t, <3>1, ModeBehind DEF WireOK, Upward
    <3> QED
      BY <2>2, <2>3, <3>1, <3>2, <1>d DEF OnItsWay, Returns
  <2> QED
    BY <2>4, <2>5
<1>8. ASSUME MockTorn PROVE OnItsWay'
  BY <1>t, <1>8 DEF MockTorn
<1>9. ASSUME CutLink PROVE OnItsWay'
  BY <1>t, <1>9 DEF CutLink
<1>11. ASSUME RecvBranch PROVE OnItsWay'
  <2>1. up # <<>> /\ up' = Tail(up) /\ Confirm(Head(up))
    BY <1>t, <1>11, RecvDoes
  <2>2. /\ Quiet(up) => Quiet(up') /\ Head(up) \notin Modes
        /\ LatestIn(up, dmode) =>
             LatestIn(up', dmode) \/ (Head(up) = dmode /\ Quiet(up'))
    BY <1>t, <2>1, HeadTaken DEF WireOK
  <2>3. UNCHANGED <<driver, dmode, outbound, down>> /\ dmode \in Modes
    BY <1>t, <1>11, Footprints DEF DriverOK
  <2>4. Returns => Returns'
    BY <2>1, <2>2, <2>3 DEF Returns, Confirmed, Confirm
  <2> QED
    BY <2>3, <2>4, <1>d DEF OnItsWay
<1>12. ASSUME Astray PROVE OnItsWay'
  BY <1>a, <1>b, <1>12, AstrayDoes DEF IInv, Blamed, TornBlamed
<1>13. ASSUME EmitTelemetry PROVE OnItsWay'
  BY <1>13, <1>u, Footprints DEF EmitTelemetry, Emit, Words
<1>14. ASSUME MockTelemetry PROVE OnItsWay'
  BY <1>14, <1>u, Footprints DEF MockTelemetry, Emit, Words
<1>15. ASSUME NewerPhone PROVE OnItsWay'
  BY <1>15, <1>u, Footprints DEF NewerPhone, Emit, Words
<1>16. ASSUME Leave PROVE OnItsWay'
  BY <1>16, <1>u, Footprints DEF Leave, Emit, Words
<1>10. CASE UNCHANGED vars
  BY <1>10, <1>1 DEF vars, phoneVars, wireVars, stepVars, loopVars, historyVars, driverVars
<1> QED
  <2> HIDE DEF IInv
  <2> QED
    BY <1>1, <1>2, <1>3, <1>4, <1>5, <1>6, <1>7, <1>8, <1>9, <1>10, <1>11, <1>12, <1>13, <1>14,
       <1>15, <1>16, Footprints
    DEF Next, SessionNext, DriverNext, PhoneNext, FaultNext

-----------------------------------------------------------------------------
(* How a session ends, and the theorems. *)

\* Each end has its reason.
LEMMA EndsStep == IInv /\ [Next]_vars => EndsForAReason'
<1> SUFFICES ASSUME IInv, [Next]_vars PROVE EndsForAReason'
  OBVIOUS
<1>t. TypeOK /\ WireOK /\ TaskOK /\ LoopOK /\ EndsForAReason
  BY DEF IInv, TypeOK
<1>f. faults \subseteq faults' /\ (link # "up" => link' # "up")
  BY <1>t, FaultsStay, LinkStaysDown
<1>1. ASSUME UNCHANGED <<why, faults, link>> PROVE EndsForAReason'
  BY <1>1, <1>t, <1>f DEF EndsForAReason
<1>2. ASSUME OutboundBranch PROVE EndsForAReason'
  <2>1. why' = why \/ (why' = "link" /\ link # "up")
    BY <1>t, <1>f, <1>2, OutboundDoes DEF WentOn, Ended
  <2> QED
    BY <1>t, <1>f, <2>1 DEF EndsForAReason
<1>3. ASSUME KeepaliveBranch PROVE EndsForAReason'
  <2>1. \/ why' = why
        \/ why' = "link" /\ link # "up"
        \/ why' = "dead" /\ age > DeadAfter /\ running
    BY <1>t, <1>f, <1>3, KeepaliveDoes DEF WentOn, Ended
  <2>2. ASSUME age > DeadAfter, running
        PROVE  faults \cap {"slept", "stalled", "torn", "cut"} # {}
    BY <1>t, <1>f, <2>2, ControlAssumption DEF IInv, Heard, InTouch, Disturbed, LoopOK, TaskOK
  <2> QED
    BY <1>t, <1>f, <2>1, <2>2 DEF EndsForAReason
<1>4. ASSUME RecvBranch PROVE EndsForAReason'
  <2>1. why' = why \/ why' \in {"bye", "undecodable"}
    BY <1>t, <1>f, <1>4, RecvDoes DEF Ended
  <2> QED
    BY <1>t, <1>f, <2>1 DEF EndsForAReason
<1>5. ASSUME Astray PROVE EndsForAReason'
  <2>1. why' = why \/ why' = "undecodable"
    BY <1>t, <1>f, <1>5, AstrayDoes DEF WentOn, Ended
  <2> QED
    BY <1>t, <1>f, <2>1 DEF EndsForAReason
<1>6. ASSUME RecvFails PROVE EndsForAReason'
  <2>1. why' = "link" /\ link # "up"
    BY <1>t, <1>f, <1>6, RecvFailsDoes DEF Ended
  <2> QED
    BY <1>t, <1>f, <2>1 DEF EndsForAReason
<1>7. ASSUME HalfFrame PROVE EndsForAReason'
  BY <1>t, <1>f, <1>7, Footprints DEF EndsForAReason
<1>8. ASSUME MockTorn PROVE EndsForAReason'
  BY <1>t, <1>f, <1>8, Footprints DEF EndsForAReason
<1>9. ASSUME NewerPhone PROVE EndsForAReason'
  BY <1>t, <1>f, <1>9, Footprints DEF EndsForAReason
<1>10. ASSUME Suspend PROVE EndsForAReason'
  BY <1>t, <1>f, <1>10, Footprints DEF EndsForAReason
<1>11. ASSUME CutLink PROVE EndsForAReason'
  BY <1>t, <1>f, <1>11, Footprints DEF EndsForAReason
<1>12. ASSUME Stall PROVE EndsForAReason'
  BY <1>t, <1>f, <1>12, Footprints DEF EndsForAReason
<1>13. ASSUME Leave PROVE EndsForAReason'
  BY <1>t, <1>f, <1>13, Footprints DEF EndsForAReason
<1>14. CASE UNCHANGED vars
  BY <1>14, <1>1 DEF vars, phoneVars, wireVars, stepVars, loopVars, historyVars, driverVars
<1> QED
  <2> HIDE DEF IInv
  <2> QED
    BY <1>1, <1>2, <1>3, <1>4, <1>5, <1>6, <1>7, <1>8, <1>9, <1>10, <1>11, <1>12, <1>13, <1>14,
       Footprints
    DEF Next, SessionNext, DriverNext, PhoneNext, FaultNext

\* A session begins with the phone's two announcements on the wire.
LEMMA InitIInv == Init => IInv
<1> SUFFICES ASSUME Init PROVE IInv
  OBVIOUS
<1> USE ControlAssumption DEF Init
<1>1. WireOK
  <2>1. up \in Seq(Upward) /\ Len(up) = 2
    BY DEF Upward, Words
  <2>2. down \in Seq(Downward)
    BY EmptySeq
  <2> QED
    BY <2>1, <2>2 DEF WireOK
<1>2. TaskOK
  <2>1. owed \in 0..2 /\ tele \in 0..TeleCap /\ backlog \in 0..EventCap
    OBVIOUS
  <2> QED
    BY <2>1 DEF TaskOK
<1>3. LoopOK
  BY DEF LoopOK
<1>4. DriverOK
  <2>1. outbound \in Seq(Modes) /\ Len(outbound) <= OutCap
    BY EmptySeq
  <2> QED
    BY <2>1 DEF DriverOK
<1>5. Blamed
  BY DEF Blamed, TornBlamed, HeldBlamed, SleepBlamed
<1>6. Heard
  BY DEF Heard, InTouch
<1>7. Follows
  <2>1. Quiet(down) /\ Quiet(up)
    BY DEF Quiet, Words
  <2> QED
    BY <2>1 DEF Follows, OnItsWay, Returns, Confirmed
<1>8. EndsForAReason
  BY DEF EndsForAReason
<1> QED
  BY <1>1, <1>2, <1>3, <1>4, <1>5, <1>6, <1>7, <1>8 DEF IInv, TypeOK

\* The inductive invariant holds throughout.
THEOREM Invariance == Spec => []IInv
<1>1. IInv /\ [Next]_vars => IInv'
  BY TypeStep, TornStep, HeldStep, SleepStep, HeardStep, FollowsStep, EndsStep
  DEF IInv, Blamed
<1> QED
  BY InitIInv, <1>1, PTL DEF Spec

\* Channels and clocks stay within their bounds.
THEOREM TypeCorrect == Spec => []TypeOK
<1>1. IInv => TypeOK
  BY DEF IInv
<1> QED
  BY Invariance, <1>1, PTL

\* A phone that answers is never declared dead, whatever DEAD_PEER_AFTER is, and a session
\* is given up as broken only when its connection is.
THEOREM SessionsEndForAReason == Spec => []EndsForAReason
<1>1. IInv => EndsForAReason
  BY DEF IInv
<1> QED
  BY Invariance, <1>1, PTL

\* The driver, which steps its own copy of the mode first and never looks at MODE_APPLIED,
\* and the last mode the mock phone confirmed agree as soon as neither message is on its
\* way.
THEOREM ModesConverge == Spec => []ModesConfirmed
<1>1. IInv => ModesConfirmed
  <2> SUFFICES ASSUME IInv, phone = "mock", running, link = "up", "torn" \notin faults,
                      driver = "idle", Quiet(outbound), Quiet(down), Quiet(up)
               PROVE  Confirmed
    BY DEF ModesConfirmed, Confirmed
  <2>1. running = TRUE /\ outbound \in Seq(Modes) /\ dmode \in Modes
    BY DEF IInv, TypeOK, TaskOK, DriverOK
  <2>2. OnItsWay
    BY <2>1 DEF IInv, Follows
  <2>3. outbound = <<>>
    <3> SUFFICES ASSUME outbound # <<>> PROVE FALSE
      OBVIOUS
    <3> QED
      BY <2>1, Tails DEF Quiet
  <2>4. ~LatestIn(down, dmode) /\ ~LatestIn(up, dmode)
    BY <2>1 DEF LatestIn, Quiet
  <2> QED
    BY <2>2, <2>3, <2>4 DEF OnItsWay, Returns
<1> QED
  BY Invariance, <1>1, PTL
=============================================================================
