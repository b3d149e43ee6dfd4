----------------------------- MODULE Adaptation -----------------------------
(***************************************************************************)
(* The live adaptation loop (desktop/crates/adaptive/src/adaptation.rs): a *)
(* telemetry sample comes in, the encoder mode steps down, steps up, or    *)
(* stays.  One AdaptationState lives in the AdaptationDriver task of a     *)
(* session and sees its samples one at a time, at arbitrary times.         *)
(*                                                                         *)
(* Abstracted: time is the number of whole seconds since the last action   *)
(* (or the start), up to the longest cooldown; a drop counter is compared  *)
(* with the previous one only, so a sample says whether the counter grew,  *)
(* and `behind` whether the last sample's counter is above last_drop_count;*)
(* a round trip time is zero, positive, or above twice a positive base.    *)
(***************************************************************************)
EXTENDS Bitrates

CONSTANTS InitialModes,   \* the modes a session may start in
          MaxStable       \* where consecutive_stable saturates (u32::MAX)

STABLE_SAMPLES_BEFORE_STEPUP == 4
STEPUP_COOLDOWN   == 5    \* seconds
STEPDOWN_COOLDOWN == 2

Sizes == {n \in Nat : n <= 65535}   \* u16
Rates == {n \in Nat : n <= 240}     \* also u16; no camera mode is faster

Modes == [format : {"Raw", "Encoded"}, codec : {"Hevc", "H264", "None"},
          width : Sizes, height : Sizes, fps : Rates, bitrate : Nat]

Samples == [queue : BOOLEAN,                   \* queue_depth > 0
            grew  : BOOLEAN,                   \* drop_count above the last sample's
            rtt   : {"zero", "low", "high"}]

-----------------------------------------------------------------------------
(* The ladder.                                                              *)

\* The target is a u64 converted to u32, saturating.  A target of Modes fits, and
\* three times it does too (TargetFits in AdaptiveProofs), so next_lower's
\* `* 3 / 4` does not overflow.
EncodedTarget(m) ==
    IF m.codec = "H264" THEN H264TargetKbps(m.width, m.height, m.fps)
                        ELSE HevcTargetKbps(m.width, m.height, m.fps)

\* Whatever else of a mode changes, an encoded one gets its target bitrate.
Retarget(m) == IF m.format = "Encoded" THEN [m EXCEPT !.bitrate = EncodedTarget(m)] ELSE m

\* Each resolution of the ladder and the next lower one.
LowerRes == {<<<<3840, 2160>>, <<1920, 1080>>>>, <<<<1920, 1080>>, <<1280, 720>>>>}
HigherRes == {<<p[2], p[1]>> : p \in LowerRes}
ChangeRes(m, table) ==
    {Retarget([m EXCEPT !.width = p[2][1], !.height = p[2][2]]) :
        p \in {q \in table : q[1] = <<m.width, m.height>>}}

\* Mutant: dropping the frame rate leaves the bitrate of the higher one.
NextLowerKeepsBitrate(m) ==
    IF m.fps > 30 THEN {[m EXCEPT !.fps = 30]}
    ELSE IF m.format = "Encoded" /\ m.bitrate > 1000
    THEN {[m EXCEPT !.bitrate = (@ * 3) \div 4]}
    ELSE IF m.format = "Raw" THEN {Retarget([m EXCEPT !.format = "Encoded", !.codec = "Hevc"])}
    ELSE ChangeRes(m, LowerRes)

\* Mutant: the resolution table of the step up.
NextLowerWrongTable(m) ==
    IF m.fps > 30 THEN {Retarget([m EXCEPT !.fps = 30])}
    ELSE IF m.format = "Encoded" /\ m.bitrate > 1000
    THEN {[m EXCEPT !.bitrate = (@ * 3) \div 4]}
    ELSE IF m.format = "Raw" THEN {Retarget([m EXCEPT !.format = "Encoded", !.codec = "Hevc"])}
    ELSE ChangeRes(m, HigherRes)

\* Option<Mode>, as a set with at most one element.
NextLower(m) ==
    IF m.fps > 30 THEN {Retarget([m EXCEPT !.fps = 30])}
    ELSE IF m.format = "Encoded" /\ m.bitrate > 1000
    THEN {[m EXCEPT !.bitrate = (@ * 3) \div 4]}
    ELSE IF m.format = "Raw" THEN {Retarget([m EXCEPT !.format = "Encoded", !.codec = "Hevc"])}
    ELSE ChangeRes(m, LowerRes)

NextHigher(m) ==
    IF m.fps = 30 THEN {Retarget([m EXCEPT !.fps = 60])} ELSE ChangeRes(m, HigherRes)

\* An encoded mode has at most its target bitrate, and the 25% cuts, which stop
\* at 1000 kbps, leave it at least 750 unless the target itself is lower.
InRange(m) == m.format = "Encoded" =>
                 /\ m.bitrate <= EncodedTarget(m)
                 /\ m.bitrate >= 750 \/ m.bitrate = EncodedTarget(m)

ASSUME InitialAssumption == InitialModes \subseteq Modes /\ \A m \in InitialModes : InRange(m)
ASSUME MaxStableAssumption == MaxStable \in Nat /\ MaxStable >= STABLE_SAMPLES_BEFORE_STEPUP

-----------------------------------------------------------------------------
VARIABLES
    mode,       \* current
    stable,     \* consecutive_stable
    baseKnown,  \* base_rtt_ms > 0.0
    behind,     \* the last sample's drop_count > last_drop_count
    since,      \* seconds since last_action_at, or start_at
    verdict,    \* the last sample's verdict and the Action returned for it; nth
                \* alternates, so that every sample is a step
    \* History, for the properties only.
    missed      \* a sample showed new drops during the cooldown, not answered yet

stateVars == <<mode, stable, baseKnown, behind, since>>
ladderVars == <<stateVars, verdict, missed>>

LadderInit ==
    /\ mode \in InitialModes
    /\ stable = 0
    /\ baseKnown = FALSE
    /\ behind = FALSE
    /\ since = 0
    /\ verdict = [congested |-> FALSE, action |-> "None", nth |-> 0]
    /\ missed = FALSE

CooldownElapsed(d) == since >= d

IsCongested(s) == s.queue \/ s.grew \/ behind \/ (baseKnown /\ s.rtt = "high")

Saturate(n) == IF n < MaxStable THEN n + 1 ELSE n
Return(congested, action) ==
    verdict' = [congested |-> congested, action |-> action, nth |-> 1 - verdict.nth]

Tick ==
    /\ since < STEPUP_COOLDOWN
    /\ since' = since + 1
    /\ UNCHANGED <<mode, stable, baseKnown, behind, verdict, missed>>

\* Mutant: last_drop_count is taken over before the cooldown is looked at.
IgnoreAndForget(s) ==
    /\ IsCongested(s) /\ ~CooldownElapsed(STEPDOWN_COOLDOWN)
    /\ behind' = FALSE
    /\ Return(TRUE, "None")
    /\ missed' = (missed \/ s.grew)
    /\ UNCHANGED <<mode, stable, baseKnown, since>>

\* observe, congested, cooldown running: nothing is recorded.
IgnoreCongestion(s) ==
    /\ IsCongested(s)
    /\ ~CooldownElapsed(STEPDOWN_COOLDOWN)
    /\ behind' = (behind \/ s.grew)
    /\ Return(TRUE, "None")
    /\ missed' = (missed \/ s.grew)
    /\ UNCHANGED <<mode, stable, baseKnown, since>>

StepDown(s) ==
    /\ IsCongested(s)
    /\ CooldownElapsed(STEPDOWN_COOLDOWN)
    /\ mode' \in NextLower(mode)
    /\ stable' = 0
    /\ behind' = FALSE
    /\ since' = 0
    /\ Return(TRUE, "StepDown")
    /\ missed' = FALSE
    /\ UNCHANGED baseKnown

AtBottom(s) ==
    /\ IsCongested(s)
    /\ CooldownElapsed(STEPDOWN_COOLDOWN)
    /\ NextLower(mode) = {}
    /\ stable' = 0
    /\ behind' = FALSE
    /\ Return(TRUE, "None")
    /\ missed' = FALSE
    /\ UNCHANGED <<mode, baseKnown, since>>

\* The running average of positive round trip times stays positive.
UpdateBase(s) == baseKnown' = (baseKnown \/ s.rtt # "zero")
MayStepUp == Saturate(stable) >= STABLE_SAMPLES_BEFORE_STEPUP /\ CooldownElapsed(STEPUP_COOLDOWN)

\* Mutant: the sample is not counted.
StableUncounted(s) ==
    /\ ~IsCongested(s)
    /\ ~MayStepUp \/ NextHigher(mode) = {}
    /\ UpdateBase(s)
    /\ behind' = FALSE
    /\ Return(FALSE, "None")
    /\ missed' = FALSE
    /\ UNCHANGED <<mode, stable, since>>

Stable(s) ==
    /\ ~IsCongested(s)
    /\ ~MayStepUp \/ NextHigher(mode) = {}
    /\ UpdateBase(s)
    /\ behind' = FALSE
    /\ stable' = Saturate(stable)
    /\ Return(FALSE, "None")
    /\ missed' = FALSE
    /\ UNCHANGED <<mode, since>>

StepUp(s) ==
    /\ ~IsCongested(s)
    /\ MayStepUp
    /\ mode' \in NextHigher(mode)
    /\ UpdateBase(s)
    /\ behind' = FALSE
    /\ stable' = 0
    /\ since' = 0
    /\ Return(FALSE, "StepUp")
    /\ missed' = FALSE

\* observe(&mut self, telemetry, rtt_ms, now)
Observe(s) == \/ IgnoreCongestion(s) \/ StepDown(s) \/ AtBottom(s)
              \/ Stable(s) \/ StepUp(s)

LadderNext == Tick \/ \E s \in Samples : Observe(s)

LadderSpec == LadderInit /\ [][LadderNext]_ladderVars

\* Time passes, and telemetry keeps coming (every 500 ms while a session runs).
LadderLiveSpec == LadderSpec /\ WF_ladderVars(Tick) /\ WF_ladderVars(\E s \in Samples : Observe(s))

-----------------------------------------------------------------------------
(* Properties.                                                              *)

\* Every variable of AdaptationState, and of the history, has its type; the
\* counter of samples saturates.
LadderTypeOK ==
    /\ mode \in Modes
    /\ stable \in 0..MaxStable
    /\ baseKnown \in BOOLEAN
    /\ behind \in BOOLEAN
    /\ since \in 0..STEPUP_COOLDOWN
    /\ verdict \in [congested : BOOLEAN, action : {"None", "StepUp", "StepDown"}, nth : {0, 1}]
    /\ missed \in BOOLEAN

\* However the steps up and down alternate, an encoded mode never asks for more
\* than the table's bitrate for its resolution and rate (a step of next_lower or
\* next_higher that forgot to recompute it would), nor for less than 750 kbps.
BitrateInRange == InRange(mode)

Area(m) == m.width * m.height
Descends(n, m) ==
    \/ Area(n) < Area(m) /\ n.fps <= m.fps
    \/ /\ <<n.width, n.height>> = <<m.width, m.height>>
       /\ \/ n.fps < m.fps /\ n.format = m.format
          \/ n.fps = m.fps /\ n.format = "Encoded" /\ m.format = "Raw"
          \/ n.fps = m.fps /\ n.format = m.format /\ n.bitrate < m.bitrate
Ascends(n, m) ==
    /\ n.format = m.format /\ n.codec = m.codec
    /\ \/ Area(n) > Area(m) /\ n.fps = m.fps
       \/ <<n.width, n.height>> = <<m.width, m.height>> /\ n.fps > m.fps

\* The mode only moves along the ladder: a step down makes it strictly lower in
\* the well-founded order (resolution, rate, raw before encoded, bitrate), so it
\* cannot go round; a step up raises resolution or rate and keeps the codec.
LadderIsMonotone ==
    [][ \/ mode' = mode
        \/ verdict'.action = "StepDown" /\ Descends(mode', mode)
        \/ verdict'.action = "StepUp" /\ Ascends(mode', mode) ]_ladderVars

\* Drops reported during the cooldown are not lost: the first sample after it,
\* even one without a new drop, is answered by a step down (or the mode is the
\* lowest), because observe leaves last_drop_count alone when it returns early.
DropsAnswered ==
    [][ missed /\ ~missed' => \/ verdict'.action = "StepDown"
                              \/ NextLower(mode) = {} /\ verdict'.congested ]_ladderVars

\* Under lasting congestion the mode comes down to the lowest one and stays; on a link
\* that stays calm it climbs to the highest one and stays.
LadderSettles == /\ <>[]verdict.congested => <>[](NextLower(mode) = {})
                 /\ <>[](~verdict.congested) => <>[](NextHigher(mode) = {})
=============================================================================
