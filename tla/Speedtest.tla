------------------------------ MODULE Speedtest ------------------------------
(***************************************************************************)
(* A speedtest over a live session.  AppHandle::run_speedtest (desktop/    *)
(* crates/app/src/lib.rs) asks the phone for a ramp of filler frames over  *)
(* the outbound slot, waits, and reads the counter of the counter slot;    *)
(* the slots belong to whichever session wrote them last.  The phone is    *)
(* the mock iPhone (desktop/tools/mock-iphone/src/lib.rs): the ramp and    *)
(* the video share its media stream.  MediaPipeline (desktop/crates/       *)
(* mediapipeline) tells the two apart by sequence number only.             *)
(*                                                                         *)
(* Filler frames all have the session's frame size, so the wire carries    *)
(* their sequence numbers; `own' is the run (or the video) a frame was     *)
(* made for, which no code sees.                                           *)
(***************************************************************************)
EXTENDS ModeSelection, Bags, FiniteSetsExt

CONSTANTS
    Sessions, Runs,    \* control sessions; calls of run_speedtest
    Ramp,              \* steps_kbps of the plan
    Width, Height,     \* of the phone's frames
    SeqSpan, SeqBase,   \* 2^32 and SPEEDTEST_SEQ_BASE
    WireCap,           \* frames the media connection holds
    MaxVideo,          \* video frames considered
    MaxLost,           \* media connections that break
    TelemetryKbps      \* sent_bitrate_kbps values of the last telemetry
ASSUME SeqAssumption ==
    SeqBase \in Nat /\ SeqSpan \in Nat \ {0} /\ SeqBase + Len(Ramp) <= SeqSpan
ASSUME RampAssumption ==
    Ramp \in Seq(Nat) /\ Ramp # <<>> /\ Width \in Nat \ {0} /\ Height \in Nat \ {0}

None == "None"         \* an empty slot
Video == "video"
ASSUME OwnerAssumption == Video \notin Runs
NoRamp == [step |-> 0, left |-> 0]

\* AvailableModes: of the cameras in the snapshot (the mock's list), or the default.
Available(sizes) ==
    {[width |-> z[1], height |-> z[2], fps |-> z[3], caps |-> {"Hevc", "H264", "RawNv12"}] :
        z \in sizes}
SyntheticCameras == Available({<<4032, 3024, 60>>, <<3088, 2316, 60>>})
DefaultIphoneCaps ==
    Available({<<1280, 720, 30>>, <<1280, 720, 60>>, <<1920, 1080, 30>>, <<1920, 1080, 60>>})
CapsSets == {SyntheticCameras, DefaultIphoneCaps}

VARIABLES
    control,           \* "off", "live", "clearing" (outbound cleared), "ended"
    media,             \* "off", "on" (pipeline reading), "lost"
    slotOut, slotCtr,  \* the outbound and the counter slot: their session, or None
    phase,             \* of each run: where run_speedtest is
    out, ctr,          \* the sender and the counter it cloned
    counter,           \* arrivals per session, a bag of (step, own) pairs
    got,               \* the arrivals a run aggregated
    goodput,           \* what it measured, in kbps
    starts,            \* SPEEDTEST_STARTs on their way to a phone
    ramp,              \* the phone's ramp task per run: step and frames left, or None
    wire,              \* media frames in flight
    videoSeq, sent,    \* the generator's sequence number; its frames so far
    rivals             \* runs whose ramp could still reach a run's counter

desktop == <<control, slotOut, slotCtr>>
runState == <<phase, out, ctr, got, goodput>>
phone == <<starts, ramp, videoSeq, sent>>
vars == <<desktop, media, runState, counter, phone, wire, rivals>>

Frames(step) == FramesPerStep(Ramp[step], Width, Height)

Init ==
    /\ control = [s \in Sessions |-> "off"]
    /\ media = [s \in Sessions |-> "off"]
    /\ slotOut = None /\ slotCtr = None
    /\ phase = [r \in Runs |-> "idle"]
    /\ out = [r \in Runs |-> None] /\ ctr = [r \in Runs |-> None]
    /\ counter = [s \in Sessions |-> EmptyBag]
    /\ got = [r \in Runs |-> EmptyBag]
    /\ goodput = [r \in Runs |-> 0]
    /\ starts = [s \in Sessions |-> {}]
    /\ ramp = [r \in Runs |-> NoRamp]
    /\ wire = [s \in Sessions |-> <<>>]
    /\ videoSeq = [s \in Sessions |-> 0] /\ sent = [s \in Sessions |-> 0]
    /\ rivals = [r \in Runs |-> {}]

-----------------------------------------------------------------------------
(* The slots. *)

\* The accept loop has authenticated a control connection.
AcceptControl(s) ==
    /\ control[s] = "off"
    /\ control' = [control EXCEPT ![s] = "live"]
    /\ slotOut' = s
    /\ UNCHANGED <<slotCtr, media, runState, counter, phone, wire, rivals>>

\* The media task: a fresh counter in the slot, then the pipeline.
AttachMedia(s) ==
    /\ control[s] # "off" /\ media[s] = "off"
    /\ media' = [media EXCEPT ![s] = "on"]
    /\ slotCtr' = s
    /\ UNCHANGED <<control, slotOut, runState, counter, phone, wire, rivals>>

\* The control plane returned: its receiver is gone with what was queued, but the phone
\* may still read what was sent.  The two slots are emptied one after the other, whoever
\* filled them.
ClearOutbound(s) ==
    /\ control[s] = "live"
    /\ control' = [control EXCEPT ![s] = "clearing"]
    /\ slotOut' = None
    /\ \E onSocket \in SUBSET starts[s] : starts' = [starts EXCEPT ![s] = onSocket]
    /\ UNCHANGED <<slotCtr, media, runState, counter, ramp, videoSeq, sent, wire, rivals>>

ClearCounter(s) ==
    /\ control[s] = "clearing"
    /\ control' = [control EXCEPT ![s] = "ended"]
    /\ slotCtr' = None
    /\ UNCHANGED <<slotOut, media, runState, counter, phone, wire, rivals>>

-----------------------------------------------------------------------------
(* run_speedtest. *)

ReadOutbound(r) ==
    /\ phase[r] = "idle"
    /\ phase' = [phase EXCEPT ![r] = "out"]
    /\ out' = [out EXCEPT ![r] = slotOut]
    /\ UNCHANGED <<desktop, media, ctr, counter, got, goodput, phone, wire, rivals>>

\* A run's ramp can still bring frames to session s.
OnWire(r, s) == \E i \in DOMAIN wire[s] : wire[s][i].own = r
Outstanding(r, s) ==
    out[r] = s /\ phase[r] # "idle" /\ (r \in starts[s] \/ ramp[r] # NoRamp \/ OnWire(r, s))

ReadCounter(r) ==
    /\ phase[r] = "out"
    /\ ctr' = [ctr EXCEPT ![r] = slotCtr]
    /\ phase' = [phase EXCEPT ![r] =
                    IF out[r] # None /\ slotCtr # None THEN "drain" ELSE "proxy"]
    /\ UNCHANGED <<desktop, media, out, counter, got, goodput, phone, wire, rivals>>

\* Mutant: the arrivals of earlier activity stay.
DrainNothing(r) ==
    /\ phase[r] = "drain"
    /\ phase' = [phase EXCEPT ![r] = "send"]
    /\ rivals' = [rivals EXCEPT ![r] = {q \in Runs \ {r} : Outstanding(q, ctr[r])}]
    /\ UNCHANGED <<desktop, media, out, ctr, counter, got, goodput, phone, wire>>

\* The counter's own lock: what came before is thrown away.
Drain(r) ==
    /\ phase[r] = "drain"
    /\ phase' = [phase EXCEPT ![r] = "send"]
    /\ counter' = [counter EXCEPT ![ctr[r]] = EmptyBag]
    /\ rivals' = [rivals EXCEPT ![r] = {q \in Runs \ {r} : Outstanding(q, ctr[r])}]
    /\ UNCHANGED <<desktop, media, out, ctr, got, goodput, phone, wire>>

\* SPEEDTEST_START.  The send fails once the session's receiver is gone.
SendStart(r) ==
    /\ phase[r] = "send"
    /\ IF control[out[r]] = "live"
       THEN /\ phase' = [phase EXCEPT ![r] = "wait"]
            /\ starts' = [starts EXCEPT ![out[r]] = @ \cup {r}]
            /\ rivals' = [q \in Runs |-> IF q # r /\ phase[q] \in {"send", "wait"}
                                         THEN rivals[q] \cup {r} ELSE rivals[q]]
       ELSE /\ phase' = [phase EXCEPT ![r] = "failed"]
            /\ UNCHANGED <<starts, rivals>>
    /\ UNCHANGED <<desktop, media, out, ctr, counter, got, goodput,
                   ramp, videoSeq, sent, wire>>

\* StepObservation: the bytes that arrived under a step's number.
BytesOf(arrivals, step) ==
    MapThenSumSet(LAMBDA a : arrivals[a], {a \in BagToSet(arrivals) : a.step = step})
        * FrameBytes(Width, Height)
Measure(arrivals) == Evaluate(Ramp, [i \in DOMAIN Ramp |-> BytesOf(arrivals, i - 1)])

\* The result.  The recommended mode is a function of it: select_mode for Wi-Fi and no
\* user limits, whatever the session's transport.
Conclude(r, kbps) ==
    /\ phase' = [phase EXCEPT ![r] = "done"]
    /\ goodput' = [goodput EXCEPT ![r] = kbps]

\* The wait is over, however far the ramp came.
TimeUp(r) ==
    /\ phase[r] = "wait"
    /\ got' = [got EXCEPT ![r] = counter[ctr[r]]]
    /\ counter' = [counter EXCEPT ![ctr[r]] = EmptyBag]
    /\ Conclude(r, Measure(counter[ctr[r]]))
    /\ UNCHANGED <<desktop, media, out, ctr, phone, wire, rivals>>

\* No live session: the last telemetry, at least 10 Mbit/s, stands for the goodput.
Proxy(r) ==
    /\ phase[r] = "proxy"
    /\ \E t \in TelemetryKbps : Conclude(r, IF t < 10000 THEN 10000 ELSE t)
    /\ UNCHANGED <<desktop, media, out, ctr, counter, got, phone, wire, rivals>>

-----------------------------------------------------------------------------
(* The phone. *)

\* SPEEDTEST_START: one more ramp task, beside those that still run.
StartRamp(s, r) ==
    /\ r \in starts[s]
    /\ starts' = [starts EXCEPT ![s] = @ \ {r}]
    /\ ramp' = [ramp EXCEPT ![r] = [step |-> 1, left |-> Frames(1)]]
    /\ UNCHANGED <<desktop, media, runState, counter, videoSeq, sent, wire, rivals>>

NextRamp(p) ==
    IF p.left > 1 THEN [p EXCEPT !.left = @ - 1]
    ELSE IF p.step < Len(Ramp) THEN [step |-> p.step + 1, left |-> Frames(p.step + 1)]
    ELSE NoRamp

\* A filler frame, written under the media lock and behind the frames of the video.
RampFrame(r) ==
    /\ ramp[r] # NoRamp /\ media[out[r]] # "lost" /\ Len(wire[out[r]]) < WireCap
    /\ wire' = [wire EXCEPT ![out[r]] =
                    Append(@, [seq |-> SeqBase + ramp[r].step - 1, own |-> r])]
    /\ ramp' = [ramp EXCEPT ![r] = NextRamp(@)]
    /\ UNCHANGED <<desktop, media, runState, counter, starts, videoSeq, sent, rivals>>

RampFails(r) ==
    /\ ramp[r] # NoRamp /\ media[out[r]] = "lost"
    /\ ramp' = [ramp EXCEPT ![r] = NoRamp]
    /\ UNCHANGED <<desktop, media, runState, counter, starts, videoSeq, sent, wire, rivals>>

VideoSoFar == MapThenSumSet(LAMBDA s : sent[s], Sessions)

\* The generator numbers its frames from 0, through the filler's range.  It goes on until
\* the phone hears of the session's end.
VideoFrame(s) ==
    /\ control[s] # "off" /\ media[s] # "lost" /\ VideoSoFar < MaxVideo /\ Len(wire[s]) < WireCap
    /\ wire' = [wire EXCEPT ![s] = Append(@, [seq |-> videoSeq[s], own |-> Video])]
    /\ videoSeq' = [videoSeq EXCEPT ![s] = (@ + 1) % SeqSpan]
    /\ sent' = [sent EXCEPT ![s] = @ + 1]
    /\ UNCHANGED <<desktop, media, runState, counter, starts, ramp, rivals>>

-----------------------------------------------------------------------------
(* The media path. *)

IsSpeedtestMarker(seq) == seq >= SeqBase
SpeedtestStepIndex(seq) == seq - SeqBase

\* read_media_frame, then filler to the counter and video to the sinks.  The frames
\* are whole NV12 frames, which split_nv12 accepts.
ReadFrame(s) ==
    /\ media[s] = "on" /\ wire[s] # <<>>
    /\ wire' = [wire EXCEPT ![s] = Tail(@)]
    /\ LET f == Head(wire[s]) IN
       counter' = IF IsSpeedtestMarker(f.seq)
                  THEN [counter EXCEPT ![s] =
                        @ (+) SetToBag({[step |-> SpeedtestStepIndex(f.seq), own |-> f.own]})]
                  ELSE counter
    /\ UNCHANGED <<desktop, media, runState, phone, rivals>>

\* The connection breaks: the pipeline exits, writers get an error.
LoseMedia(s) ==
    /\ media[s] = "on" /\ Cardinality({t \in Sessions : media[t] = "lost"}) < MaxLost
    /\ media' = [media EXCEPT ![s] = "lost"]
    /\ wire' = [wire EXCEPT ![s] = <<>>]
    /\ UNCHANGED <<desktop, runState, counter, phone, rivals>>

RunStep(r) == \/ ReadOutbound(r) \/ ReadCounter(r) \/ Drain(r) \/ SendStart(r)
              \/ TimeUp(r) \/ Proxy(r)

Next ==
    \/ \E s \in Sessions : \/ AcceptControl(s) \/ AttachMedia(s) \/ ClearOutbound(s)
                           \/ ClearCounter(s) \/ VideoFrame(s) \/ ReadFrame(s) \/ LoseMedia(s)
                           \/ \E r \in Runs : StartRamp(s, r)
    \/ \E r \in Runs : RunStep(r) \/ RampFrame(r) \/ RampFails(r)

Spec == Init /\ [][Next]_vars

-----------------------------------------------------------------------------
Owners == Runs \cup {Video}
SeqNumbers == 0 .. SeqSpan - 1
RampStates == {NoRamp} \cup [step : 1 .. Len(Ramp), left : 1 .. Frames(Len(Ramp))]

\* Types of the slots, the run's locals, the phone's tasks and the wire: u32 sequence
\* numbers wrap, and the connection holds no more than its buffer.
TypeOK ==
    /\ control \in [Sessions -> {"off", "live", "clearing", "ended"}]
    /\ media \in [Sessions -> {"off", "on", "lost"}]
    /\ slotOut \in Sessions \cup {None} /\ slotCtr \in Sessions \cup {None}
    /\ phase \in [Runs -> {"idle", "out", "drain", "send", "wait", "proxy", "done", "failed"}]
    /\ out \in [Runs -> Sessions \cup {None}] /\ ctr \in [Runs -> Sessions \cup {None}]
    /\ \A s \in Sessions :
           BagToSet(counter[s]) \subseteq [step : 0 .. SeqSpan - SeqBase - 1, own : Owners]
    /\ \A r \in Runs : goodput[r] \in Nat
    /\ starts \in [Sessions -> SUBSET Runs] /\ ramp \in [Runs -> RampStates]
    /\ videoSeq \in [Sessions -> SeqNumbers]
    /\ \A s \in Sessions : /\ Len(wire[s]) <= WireCap
                           /\ \A i \in DOMAIN wire[s] :
                                  wire[s][i] \in [seq : SeqNumbers, own : Owners]
    /\ rivals \in [Runs -> SUBSET Runs]

\* run_speedtest takes as its own only what its ramp put on the wire, except for the
\* ramps that were under way or started while it ran, on the session whose counter it
\* reads, and for video whose numbers reached the filler's range.  Arrivals of earlier
\* activity are gone, whatever slot the two reads hit.
ForeignArrivalsExplained ==
    \A r \in Runs : \A own \in {a.own : a \in BagToSet(got[r])} :
        \/ own = r /\ out[r] = ctr[r]
        \/ own \in rivals[r] /\ out[own] = ctr[r]
        \/ own = Video /\ sent[ctr[r]] > SeqBase

-----------------------------------------------------------------------------
(* Pure functions: what a ramp measures, and the choice of a mode, over grids.
   This says nothing about the state: it is evaluated once, in the initial one. *)

Top == DEFAULT_RAMP_KBPS[Len(DEFAULT_RAMP_KBPS)]
\* All that speedtest_ramp sends at a frame size.
RampBytes(w, h) ==
    [i \in DOMAIN DEFAULT_RAMP_KBPS |-> FramesPerStep(DEFAULT_RAMP_KBPS[i], w, h) * FrameBytes(w, h)]
\* Six frames of this size fit in the top step.
SixFit(w, h) == 72 * w * h <= Top * DEFAULT_STEP_MS
FrameSizes == {<<160 * k, 90 * k>> : k \in 1 .. 24}

\* A link that delivers the phone's default ramp whole is measured at the ramp's top, with
\* the 85 % that evaluate asks for, although the frames of a step are counted down to a
\* whole number and at least one: as long as six of them fit in the top step.
WholeRampSustained == Init =>
    \A z \in FrameSizes : SixFit(z[1], z[2]) =>
        Evaluate(DEFAULT_RAMP_KBPS, RampBytes(z[1], z[2])) * 100 >= Top * 85

Goodputs == {g * 10000 : g \in 0 .. 120}
LimitSets == [width : {1280, Unlimited}, height : {720, Unlimited}, fps : {30, Unlimited},
              preferRaw : BOOLEAN]

\* More goodput never leads select_mode to a worse mode (area, then frame rate, then
\* raw), but for the fallback, which looks at neither cameras nor limits, and for
\* prefer_raw, which gives resolution away for a raw mode.
MoreGoodputNeverWorse == Init =>
    \A c \in CapsSets, t \in Transports, l \in {n \in LimitSets : ~n.preferRaw} :
        \A g \in {h \in Goodputs : h + 10000 \in Goodputs} :
            \A a \in SelectMode(g, c, t, l), b \in SelectMode(g + 10000, c, t, l) :
                a # SafeFallback => ~Below(b, a)
=============================================================================
