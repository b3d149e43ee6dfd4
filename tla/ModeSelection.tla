---------------------------- MODULE ModeSelection ----------------------------
(***************************************************************************)
(* What a speedtest's counts mean and which mode they lead to:             *)
(* StepObservation, evaluate and frames_per_step_for_target (desktop/      *)
(* crates/adaptive/src/speedtest.rs) and select_mode (select_mode.rs).     *)
(* Bitrates are whole kbps.  A float is a fraction, rounded down where the *)
(* code casts to an integer.                                               *)
(***************************************************************************)
EXTENDS Bitrates, Sequences, FiniteSets

Transports == {"WiFi", "Usb2", "Usb3"}
Unlimited == 65535                     \* a limit that is None: every u16 is allowed

\* Highest raw bitrate attempted: never on Wi-Fi.
RawCeilingKbps(t) == CASE t = "WiFi" -> 0 [] t = "Usb2" -> 480000 [] t = "Usb3" -> 5000000

\* HEADROOM: 70 % of the goodput.
Usable(kbps) == (kbps * 7) \div 10

\* supports(RawNv12); the codec of an encoded stream, HEVC before H.264.
EncodedCodec(caps) == IF "Hevc" \in caps THEN "Hevc" ELSE IF "H264" \in caps THEN "H264" ELSE "None"

Raw(m) == [format |-> "Raw", codec |-> "None", width |-> m.width, height |-> m.height,
           fps |-> m.fps, bitrate |-> 0]
Encoded(m) ==
    LET target == HevcTargetKbps(m.width, m.height, m.fps) IN
    [format |-> "Encoded", codec |-> EncodedCodec(m.caps), width |-> m.width,
     height |-> m.height, fps |-> m.fps,
     bitrate |-> IF EncodedCodec(m.caps) = "H264" THEN (target * 8) \div 5 ELSE target]

\* What a mode puts on the wire.
Load(mode) == IF mode.format = "Raw" THEN RawBitrateKbps(mode.width, mode.height, mode.fps)
                                     ELSE mode.bitrate

Within(m, limits) == m.width <= limits.width /\ m.height <= limits.height /\ m.fps <= limits.fps

Candidates(kbps, caps, transport, limits) ==
    {Raw(m) : m \in {n \in caps : /\ Within(n, limits) /\ "RawNv12" \in n.caps
                                  /\ Load(Raw(n)) <= Usable(kbps)
                                  /\ Load(Raw(n)) <= RawCeilingKbps(transport)}}
    \cup {Encoded(m) : m \in {n \in caps : /\ Within(n, limits) /\ EncodedCodec(n.caps) # "None"
                                           /\ Load(Encoded(n)) <= Usable(kbps)}}

\* (res_area, fps, weight), compared in this order.
Weight(mode) == IF mode.format = "Raw" THEN 1 ELSE 0
Below(a, b) ==
    LET x == a.width * a.height
        y == b.width * b.height
    IN  x < y \/ (x = y /\ (a.fps < b.fps \/ (a.fps = b.fps /\ Weight(a) < Weight(b))))

SafeFallback == [format |-> "Encoded", codec |-> "H264", width |-> 1280, height |-> 720,
                 fps |-> 30, bitrate |-> (12000 * 8) \div 5]

Preferred(c, limits) ==
    IF limits.preferRaw /\ \E m \in c : m.format = "Raw" THEN {m \in c : m.format = "Raw"} ELSE c

\* Mutant: the weight is compared first.
BestRawFirst(c) ==
    {m \in c : \A n \in c : Weight(n) < Weight(m) \/ (Weight(n) = Weight(m) /\ ~Below(m, n))}

\* The modes max_by_key may return: of equal keys, the last in the order of caps.
Best(c) == {m \in c : \A n \in c : ~Below(m, n)}

SelectMode(kbps, caps, transport, limits) ==
    LET best == Best(Preferred(Candidates(kbps, caps, transport, limits), limits))
    IN  IF best = {} THEN {SafeFallback} ELSE best

-----------------------------------------------------------------------------
DEFAULT_STEP_MS == 500
DEFAULT_RAMP_KBPS == <<50000, 100000, 200000, 400000, 800000>>

\* Bytes of a step in kbps.
MeasuredKbps(bytes) == (bytes * 8) \div DEFAULT_STEP_MS

\* evaluate with the baseline of 0 that run_speedtest passes: the highest step of
\* which at least 85 % arrived.
Evaluate(ramp, bytes) ==
    LET fits == {i \in DOMAIN ramp : MeasuredKbps(bytes[i]) * 100 >= ramp[i] * 85}
        kept == {IF MeasuredKbps(bytes[i]) < ramp[i] THEN MeasuredKbps(bytes[i]) ELSE ramp[i] :
                    i \in fits}
    IN  IF fits = {} THEN 0 ELSE CHOOSE k \in kept : \A l \in kept : l <= k

FrameBytes(w, h) == (w * h * 3) \div 2

\* Mutant: one frame short of the target.
FramesPerStepShort(kbps, w, h) ==
    LET n == (kbps * DEFAULT_STEP_MS) \div (w * h * 12) IN IF n <= 1 THEN 1 ELSE n - 1

\* frames_per_step_for_target, for a step of DEFAULT_STEP_MS.
FramesPerStep(kbps, w, h) ==
    LET n == (kbps * DEFAULT_STEP_MS) \div (w * h * 12) IN IF n = 0 THEN 1 ELSE n
=============================================================================
