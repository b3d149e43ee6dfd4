--------------------------- MODULE AdaptiveProofs ---------------------------
(***************************************************************************)
(* Proofs about the measurements and the choices of the adaptive crate:    *)
(* Speedtest, for any number of sessions and calls, any ramp and any space *)
(* of sequence numbers it fits in; select_mode, for any finite list of     *)
(* camera modes; and Adaptation, for any initial modes.                    *)
(***************************************************************************)
EXTENDS Speedtest, Adaptation, FiniteSetTheorems, TLAPS

-----------------------------------------------------------------------------
(* The inductive invariant of a speedtest.  The counter is shared by all    *)
(* runs and frames carry no owner the code sees, so what a run may find in  *)
(* it must be known before it comes: from starts under way, ramps that run  *)
(* and frames on the wire.                                                  *)

WireFrames == [seq : Int, own : Owners]
Phases == {"idle", "out", "drain", "send", "wait", "proxy", "done", "failed"}

\* The types the argument needs.
Shapes ==
    /\ slotOut \in Sessions \cup {None} /\ slotCtr \in Sessions \cup {None}
    /\ phase \in [Runs -> Phases]
    /\ out \in [Runs -> Sessions \cup {None}] /\ ctr \in [Runs -> Sessions \cup {None}]
    /\ DOMAIN counter = Sessions /\ DOMAIN got = Runs
    /\ starts \in [Sessions -> SUBSET Runs] /\ ramp \in [Runs -> [step : Nat, left : Int]]
    /\ wire \in [Sessions -> Seq(WireFrames)]
    /\ videoSeq \in [Sessions -> Nat] /\ sent \in [Sessions -> Nat]
    /\ rivals \in [Runs -> SUBSET Runs]

\* A run that reached the phone, or what is left of it there or on the way.
Sent(r) == phase[r] \in {"wait", "done"}
Measuring(r) == phase[r] \in {"send", "wait"}
HasSlots(r) == phase[r] \in {"drain", "send", "wait"}

\* A run has its two slots before it drains and measures, and a ramp only after its start was sent.
Started ==
    /\ \A r \in Runs : HasSlots(r) => out[r] \in Sessions /\ ctr[r] \in Sessions
    /\ \A s \in Sessions, r \in Runs : r \in starts[s] => out[r] = s /\ Sent(r)
    /\ \A r \in Runs : ramp[r] # NoRamp => out[r] \in Sessions /\ Sent(r)
    /\ \A s \in Sessions, r \in Runs : OnWire(r, s) => out[r] = s /\ Sent(r)

\* Whoever can still bring frames to a counter that is being measured is a known rival.
RivalsKnown ==
    /\ \A r \in Runs : \A q \in rivals[r] : Sent(q)
    /\ \A r, q \in Runs, s \in Sessions :
           Measuring(r) /\ ctr[r] = s /\ q # r /\ Outstanding(q, s) => q \in rivals[r]

\* The generator's numbers are no higher than the frames it sent.
VideoNumbered ==
    \A s \in Sessions :
        /\ videoSeq[s] <= sent[s]
        /\ \A i \in 1 .. Len(wire[s]) :
               wire[s][i].own = Video /\ wire[s][i].seq >= SeqBase => sent[s] > SeqBase

Explained(r, s, own) ==
    \/ own = r /\ out[r] = s
    \/ own \in rivals[r] /\ out[own] = s
    \/ own = Video /\ sent[s] > SeqBase

\* What is in a counter that is being measured, and what was taken out of one.
ArrivalsExplained ==
    /\ \A r \in Runs, s \in Sessions : Measuring(r) /\ ctr[r] = s =>
           \A a \in BagToSet(counter[s]) : Explained(r, s, a.own)
    /\ \A r \in Runs : phase[r] # "done" => BagToSet(got[r]) = {}
    /\ \A r \in Runs : \A a \in BagToSet(got[r]) :
           \E s \in Sessions : ctr[r] = s /\ Explained(r, s, a.own)

IInv == Shapes /\ Started /\ RivalsKnown /\ VideoNumbered /\ ArrivalsExplained

-----------------------------------------------------------------------------
(* Bags and sequences. *)

\* A drained counter holds nothing.
LEMMA NoArrivals == BagToSet(EmptyBag) = {}
BY DEF BagToSet, EmptyBag, SetToBag

\* A counted frame is added to what was there.
LEMMA OneMore == ASSUME NEW B, NEW e PROVE BagToSet(B (+) SetToBag({e})) = BagToSet(B) \cup {e}
BY DEF BagToSet, SetToBag, (+)

\* A frame written last leaves the others where they are.
LEMMA Appended ==
    ASSUME NEW S, NEW q \in Seq(S), NEW e \in S
    PROVE  /\ Append(q, e) \in Seq(S) /\ Len(Append(q, e)) = Len(q) + 1 /\ Len(q) \in Nat
           /\ DOMAIN q = 1 .. Len(q) /\ DOMAIN Append(q, e) = 1 .. Len(q) + 1
           /\ \A i \in 1 .. Len(q) : Append(q, e)[i] = q[i]
           /\ Append(q, e)[Len(q) + 1] = e
OBVIOUS

\* A frame read from the front moves the others up.
LEMMA Shifted ==
    ASSUME NEW S, NEW q \in Seq(S), q # <<>>
    PROVE  /\ Tail(q) \in Seq(S) /\ Len(Tail(q)) = Len(q) - 1 /\ Len(q) \in Nat /\ Len(q) >= 1
           /\ DOMAIN q = 1 .. Len(q) /\ DOMAIN Tail(q) = 1 .. Len(q) - 1
           /\ \A i \in 1 .. Len(q) - 1 : Tail(q)[i] = q[i + 1]
           /\ Head(q) = q[1] /\ q[1] \in S
OBVIOUS

\* What a wire holds are frames.
LEMMA Elements ==
    ASSUME NEW S, NEW q \in Seq(S)
    PROVE  Len(q) \in Nat /\ DOMAIN q = 1 .. Len(q) /\ \A i \in 1 .. Len(q) : q[i] \in S
OBVIOUS

-----------------------------------------------------------------------------
(* Types. *)

\* frames_per_step_for_target is a number.
LEMMA FramesInt == ASSUME NEW i \in 1 .. Len(Ramp) PROVE Frames(i) \in Int
<1>1. Ramp[i] \in Nat /\ Width * Height * 12 \in Nat /\ Width * Height * 12 > 0
  BY RampAssumption
<1>2. ASSUME NEW a \in Nat, NEW b \in Nat, b > 0 PROVE a \div b \in Int
  BY <1>2
<1>3. Ramp[i] * DEFAULT_STEP_MS \in Nat
  BY <1>1 DEF DEFAULT_STEP_MS
<1>4. (Ramp[i] * DEFAULT_STEP_MS) \div (Width * Height * 12) \in Int
  BY <1>1, <1>2, <1>3
<1> QED
  BY <1>4 DEF Frames, FramesPerStep

\* A ramp task steps to a ramp state.
LEMMA RampSteps ==
    ASSUME NEW p \in [step : Nat, left : Int] PROVE NextRamp(p) \in [step : Nat, left : Int]
<1>1. CASE p.left > 1
  BY <1>1 DEF NextRamp
<1>2. CASE ~(p.left > 1) /\ p.step < Len(Ramp)
  <2>1. p.step + 1 \in 1 .. Len(Ramp)
    BY <1>2, RampAssumption
  <2>2. Frames(p.step + 1) \in Int
    BY <2>1, FramesInt
  <2> QED
    BY <1>2, <2>1, <2>2 DEF NextRamp
<1>3. CASE ~(p.left > 1) /\ ~(p.step < Len(Ramp))
  BY <1>3 DEF NextRamp, NoRamp
<1> QED
  BY <1>1, <1>2, <1>3

\* The u32 sequence number wraps, and never gets ahead.
LEMMA Wrapping == ASSUME NEW n \in Nat PROVE (n + 1) % SeqSpan \in Nat /\ (n + 1) % SeqSpan <= n + 1
<1>1. ASSUME NEW a \in Nat, NEW b \in Nat, b > 0 PROVE a % b \in Nat /\ a % b <= a
  BY <1>1
<1> QED
  BY <1>1, SeqAssumption

\* What SPEEDTEST_START changes, sent or not.
LEMMA Sending ==
    ASSUME Shapes, NEW r \in Runs, SendStart(r)
    PROVE  /\ phase[r] = "send"
           /\ phase' = [phase EXCEPT ![r] = "wait"] \/ phase' = [phase EXCEPT ![r] = "failed"]
           /\ starts' \in [Sessions -> SUBSET Runs]
           /\ \A s \in Sessions : \A q \in Runs :
                  q \in starts'[s] => q \in starts[s] \/ (q = r /\ out[r] = s /\ phase'[r] = "wait")
           /\ rivals' \in [Runs -> SUBSET Runs]
           /\ \A q \in Runs : rivals[q] \subseteq rivals'[q]
           /\ \A q, p \in Runs : p \in rivals'[q] => p \in rivals[q] \/ (p = r /\ phase'[r] = "wait")
           /\ \A q \in Runs : q # r /\ phase[q] \in {"send", "wait"} /\ phase'[r] = "wait"
                               => r \in rivals'[q]
           /\ UNCHANGED <<slotOut, slotCtr, out, ctr, counter, got, ramp, videoSeq, sent, wire>>
<1>1. /\ starts \in [Sessions -> SUBSET Runs] /\ rivals \in [Runs -> SUBSET Runs]
      /\ phase \in [Runs -> Phases]
  BY DEF Shapes
<1>2. /\ UNCHANGED <<slotOut, slotCtr, out, ctr, counter, got, ramp, videoSeq, sent, wire>>
      /\ phase[r] = "send"
  BY DEF SendStart, desktop
<1>3. CASE control[out[r]] = "live"
  <2>1. /\ phase' = [phase EXCEPT ![r] = "wait"] /\ starts' = [starts EXCEPT ![out[r]] = @ \cup {r}]
        /\ rivals' = [q \in Runs |-> IF q # r /\ phase[q] \in {"send", "wait"}
                                     THEN rivals[q] \cup {r} ELSE rivals[q]]
    BY <1>3 DEF SendStart
  <2>2. phase'[r] = "wait"
    BY <1>1, <2>1
  <2>3. /\ starts' \in [Sessions -> SUBSET Runs]
        /\ \A s \in Sessions : starts'[s] = IF s = out[r] THEN starts[s] \cup {r} ELSE starts[s]
    BY <1>1, <2>1
  <2>4. \A q \in Runs : rivals'[q] = IF q # r /\ phase[q] \in {"send", "wait"}
                                     THEN rivals[q] \cup {r} ELSE rivals[q]
    BY <2>1
  <2>5. rivals' \in [Runs -> SUBSET Runs]
    <3>1. \A q \in Runs : (IF q # r /\ phase[q] \in {"send", "wait"}
                            THEN rivals[q] \cup {r} ELSE rivals[q]) \in SUBSET Runs
      BY <1>1
    <3> QED
      BY <2>1, <3>1
  <2> QED
    BY <1>2, <2>1, <2>2, <2>3, <2>4, <2>5
<1>4. CASE control[out[r]] # "live"
  <2>1. phase' = [phase EXCEPT ![r] = "failed"] /\ starts' = starts /\ rivals' = rivals
    BY <1>4 DEF SendStart
  <2>2. phase'[r] = "failed"
    BY <1>1, <2>1
  <2> QED
    BY <1>1, <1>2, <2>1, <2>2
<1> QED
  BY <1>3, <1>4

\* Every step keeps the shapes.
LEMMA ShapesStep == ASSUME IInv, [Next]_vars PROVE Shapes'
<1> USE DEF Shapes
<1> USE DEF IInv
<1> USE DEF Phases
<1>1. ASSUME NEW s \in Sessions, AcceptControl(s) \/ AttachMedia(s) \/ ClearCounter(s)
      PROVE  Shapes'
  BY <1>1 DEF AcceptControl, AttachMedia, ClearCounter, runState, phone
<1>13. ASSUME NEW s \in Sessions, ClearOutbound(s) PROVE Shapes'
  BY <1>13 DEF ClearOutbound, runState
<1>2. ASSUME NEW r \in Runs, ReadOutbound(r) PROVE Shapes'
  BY <1>2 DEF ReadOutbound, desktop, phone
<1>3. ASSUME NEW r \in Runs, ReadCounter(r) PROVE Shapes'
  BY <1>3 DEF ReadCounter, desktop, phone
<1>14. ASSUME NEW r \in Runs, Drain(r) PROVE Shapes'
  <2>1. rivals' \in [Runs -> SUBSET Runs]
    <3>1. {q \in Runs \ {r} : Outstanding(q, ctr[r])} \in SUBSET Runs
      OBVIOUS
    <3> QED
      BY <1>14, <3>1 DEF Drain
  <2>2. phase' \in [Runs -> Phases]
    BY <1>14 DEF Drain
  <2>3. DOMAIN counter' = Sessions
    BY <1>14 DEF Drain
  <2> QED
    BY <1>14, <2>1, <2>2, <2>3 DEF Drain, desktop, phone
<1>4. ASSUME NEW r \in Runs, SendStart(r) PROVE Shapes'
  <2>1. /\ phase' = [phase EXCEPT ![r] = "wait"] \/ phase' = [phase EXCEPT ![r] = "failed"]
        /\ starts' \in [Sessions -> SUBSET Runs] /\ rivals' \in [Runs -> SUBSET Runs]
        /\ UNCHANGED <<slotOut, slotCtr, out, ctr, counter, got, ramp, videoSeq, sent, wire>>
    BY <1>4, Sending
  <2>2. phase' \in [Runs -> Phases]
    BY <2>1
  <2> QED
    BY <2>1, <2>2
<1>5. ASSUME NEW r \in Runs, TimeUp(r) PROVE Shapes'
  BY <1>5 DEF TimeUp, Conclude, desktop, phone
<1>6. ASSUME NEW r \in Runs, Proxy(r) PROVE Shapes'
  BY <1>6 DEF Proxy, Conclude, desktop, phone
<1>7. ASSUME NEW s \in Sessions, NEW r \in Runs, StartRamp(s, r) PROVE Shapes'
  <2>1. 1 \in 1 .. Len(Ramp)
    BY RampAssumption
  <2>2. [step |-> 1, left |-> Frames(1)] \in [step : Nat, left : Int]
    BY <2>1, FramesInt
  <2>3. ramp' \in [Runs -> [step : Nat, left : Int]]
    BY <1>7, <2>2 DEF StartRamp
  <2> QED
    BY <1>7, <2>3 DEF StartRamp, desktop, runState
<1>8. ASSUME NEW r \in Runs, RampFrame(r) PROVE Shapes'
  <2>1. out[r] \in Sessions /\ ramp[r] \in [step : Nat, left : Int]
    BY <1>8 DEF RampFrame, Started
  <2>2. [seq |-> SeqBase + ramp[r].step - 1, own |-> r] \in WireFrames
    BY <2>1, SeqAssumption DEF WireFrames, Owners
  <2>3. Append(wire[out[r]], [seq |-> SeqBase + ramp[r].step - 1, own |-> r]) \in Seq(WireFrames)
    BY <2>1, <2>2, Appended
  <2>4. wire' \in [Sessions -> Seq(WireFrames)]
    BY <1>8, <2>1, <2>3 DEF RampFrame
  <2>5. ramp' \in [Runs -> [step : Nat, left : Int]]
    BY <1>8, <2>1, RampSteps DEF RampFrame
  <2> QED
    BY <1>8, <2>4, <2>5 DEF RampFrame, desktop, runState
<1>9. ASSUME NEW r \in Runs, RampFails(r) PROVE Shapes'
  BY <1>9 DEF RampFails, desktop, runState, NoRamp
<1>10. ASSUME NEW s \in Sessions, VideoFrame(s) PROVE Shapes'
  <2>1. [seq |-> videoSeq[s], own |-> Video] \in WireFrames
    BY DEF WireFrames, Owners
  <2>2. Append(wire[s], [seq |-> videoSeq[s], own |-> Video]) \in Seq(WireFrames)
    BY <2>1, Appended
  <2>3. wire' \in [Sessions -> Seq(WireFrames)]
    BY <1>10, <2>2 DEF VideoFrame
  <2>4. videoSeq' \in [Sessions -> Nat] /\ sent' \in [Sessions -> Nat]
    BY <1>10, Wrapping DEF VideoFrame
  <2> QED
    BY <1>10, <2>3, <2>4 DEF VideoFrame, desktop, runState
<1>11. ASSUME NEW s \in Sessions, ReadFrame(s) PROVE Shapes'
  <2>1. wire' \in [Sessions -> Seq(WireFrames)]
    BY <1>11, Shifted DEF ReadFrame
  <2>2. DOMAIN counter' = Sessions
    BY <1>11 DEF ReadFrame
  <2> QED
    BY <1>11, <2>1, <2>2 DEF ReadFrame, desktop, runState, phone
<1>12. ASSUME NEW s \in Sessions, LoseMedia(s) PROVE Shapes'
  BY <1>12 DEF LoseMedia, desktop, runState, phone
<1>15. CASE UNCHANGED vars
  BY <1>15 DEF vars, desktop, runState, phone
<1> QED
  BY <1>1, <1>2, <1>3, <1>4, <1>5, <1>6, <1>7, <1>8, <1>9, <1>10, <1>11, <1>12, <1>13, <1>14,
     <1>15
  DEF Next, RunStep

-----------------------------------------------------------------------------
(* What a step may not take back. *)

\* A run keeps its slots from its first read on, and its rivals; the generator counts up.
LEMMA Onward ==
    ASSUME IInv, [Next]_vars
    PROVE  /\ \A r \in Runs : Measuring(r) \/ Sent(r) =>
                  (Measuring(r)' \/ Sent(r)' \/ phase'[r] = "failed") /\ out'[r] = out[r]
                  /\ ctr'[r] = ctr[r] /\ rivals[r] \subseteq rivals'[r]
           /\ \A r \in Runs : Sent(r) => Sent(r)'
           /\ \A s \in Sessions : sent'[s] >= sent[s] /\ sent'[s] \in Nat /\ sent[s] \in Nat
<1> USE DEF Measuring, Sent
<1>1. ASSUME UNCHANGED <<phase, out, ctr, rivals, sent>>
      PROVE  /\ \A r \in Runs : Measuring(r) \/ Sent(r) =>
                    (Measuring(r)' \/ Sent(r)' \/ phase'[r] = "failed") /\ out'[r] = out[r]
                    /\ ctr'[r] = ctr[r] /\ rivals[r] \subseteq rivals'[r]
             /\ \A r \in Runs : Sent(r) => Sent(r)'
             /\ \A s \in Sessions : sent'[s] >= sent[s] /\ sent'[s] \in Nat /\ sent[s] \in Nat
  BY <1>1 DEF IInv, Shapes
<1>2. ASSUME NEW r \in Runs, ReadOutbound(r) \/ ReadCounter(r) \/ Drain(r)
      PROVE  /\ \A q \in Runs : Measuring(q) \/ Sent(q) =>
                    phase'[q] = phase[q] /\ out'[q] = out[q]
                    /\ ctr'[q] = ctr[q] /\ rivals[q] \subseteq rivals'[q]
             /\ sent' = sent
  BY <1>2 DEF ReadOutbound, ReadCounter, Drain, IInv, Shapes, phone
<1>3. ASSUME NEW r \in Runs, SendStart(r)
      PROVE  /\ \A q \in Runs : Measuring(q) \/ Sent(q) =>
                    (phase'[q] \in {phase[q], "wait", "failed"}) /\ rivals[q] \subseteq rivals'[q]
             /\ \A q \in Runs : Sent(q) => phase'[q] \in {"wait", "done"}
             /\ sent' = sent /\ out' = out /\ ctr' = ctr
  <2>1. Shapes /\ phase \in [Runs -> Phases]
    BY DEF IInv, Shapes
  <2>2. /\ phase[r] = "send"
        /\ phase' = [phase EXCEPT ![r] = "wait"] \/ phase' = [phase EXCEPT ![r] = "failed"]
        /\ \A q \in Runs : rivals[q] \subseteq rivals'[q]
        /\ sent' = sent /\ out' = out /\ ctr' = ctr
    BY <1>3, <2>1, Sending
  <2> QED
    BY <2>1, <2>2
<1>4. ASSUME NEW r \in Runs, TimeUp(r) \/ Proxy(r)
      PROVE  /\ \A q \in Runs : phase'[q] \in {phase[q], "done"}
             /\ sent' = sent /\ out' = out /\ ctr' = ctr /\ rivals' = rivals
  BY <1>4 DEF TimeUp, Proxy, Conclude, IInv, Shapes, phone
<1>5. ASSUME NEW s \in Sessions, VideoFrame(s)
      PROVE  UNCHANGED <<phase, out, ctr, rivals>>
             /\ \A z \in Sessions : sent'[z] >= sent[z] /\ sent'[z] \in Nat /\ sent[z] \in Nat
  BY <1>5 DEF VideoFrame, runState, IInv, Shapes
<1>6. \A s \in Sessions : sent[s] \in Nat
  BY DEF IInv, Shapes
<1>7. CASE \E r \in Runs : ReadOutbound(r) \/ ReadCounter(r) \/ Drain(r)
  BY <1>2, <1>6, <1>7
<1>8. CASE \E r \in Runs : SendStart(r)
  BY <1>3, <1>6, <1>8
<1>9. CASE \E r \in Runs : TimeUp(r) \/ Proxy(r)
  BY <1>4, <1>6, <1>9
<1>10. CASE \E s \in Sessions : VideoFrame(s)
  BY <1>5, <1>10
<1>11. CASE \/ UNCHANGED vars
            \/ \E s \in Sessions : \/ AcceptControl(s) \/ AttachMedia(s) \/ ClearOutbound(s)
                                   \/ ClearCounter(s) \/ ReadFrame(s) \/ LoseMedia(s)
                                   \/ \E r \in Runs : StartRamp(s, r)
            \/ \E r \in Runs : RampFrame(r) \/ RampFails(r)
  <2>1. UNCHANGED <<phase, out, ctr, rivals, sent>>
    BY <1>11 DEF vars, AcceptControl, AttachMedia, ClearOutbound, ClearCounter, ReadFrame,
         LoseMedia, StartRamp, RampFrame, RampFails, runState, phone
  <2> QED
    BY <1>1, <2>1
<1> QED
  BY <1>7, <1>8, <1>9, <1>10, <1>11 DEF Next, RunStep

\* An explanation stays one.
LEMMA StillExplained ==
    ASSUME IInv, [Next]_vars, NEW r \in Runs, Measuring(r) \/ Sent(r), NEW s \in Sessions,
           NEW own, Explained(r, s, own)
    PROVE  Explained(r, s, own)'
<1>1. CASE own = r /\ out[r] = s
  BY <1>1, Onward DEF Explained
<1>2. CASE own \in rivals[r] /\ out[own] = s
  <2>1. own \in Runs /\ Sent(own)
    BY <1>2 DEF IInv, Shapes, RivalsKnown
  <2> QED
    BY <1>2, <2>1, Onward DEF Explained
<1>3. CASE own = Video /\ sent[s] > SeqBase
  <2>1. sent'[s] > SeqBase
    BY <1>3, Onward, SeqAssumption
  <2> QED
    BY <1>3, <2>1 DEF Explained
<1> QED
  BY <1>1, <1>2, <1>3 DEF Explained

-----------------------------------------------------------------------------
(* Ramps. *)

\* Which frames of a ramp are under way after a step: those that were, unless the ramp
\* itself wrote one.
LEMMA WireStep ==
    ASSUME IInv, [Next]_vars, NEW q \in Runs, NEW s \in Sessions, OnWire(q, s)'
    PROVE  OnWire(q, s) \/ (RampFrame(q) /\ out[q] = s)
<1>1. ASSUME wire' = wire PROVE OnWire(q, s)
  BY <1>1 DEF OnWire
<1>2. wire \in [Sessions -> Seq(WireFrames)]
  BY DEF IInv, Shapes
<1>3. ASSUME NEW z \in Sessions, NEW e \in WireFrames,
             wire' = [wire EXCEPT ![z] = Append(@, e)], OnWire(q, s)' 
      PROVE  OnWire(q, s) \/ (z = s /\ e.own = q)
  <2>1. CASE z # s
    BY <1>2, <1>3, <2>1 DEF OnWire
  <2>2. CASE z = s
    <3>1. wire'[s] = Append(wire[s], e) /\ wire[s] \in Seq(WireFrames)
      BY <1>2, <1>3, <2>2
    <3>2. PICK i \in DOMAIN wire'[s] : wire'[s][i].own = q
      BY <1>3 DEF OnWire
    <3>3. CASE i \in DOMAIN wire[s]
      BY <3>1, <3>2, <3>3, Appended DEF OnWire
    <3>4. CASE i = Len(wire[s]) + 1
      BY <2>2, <3>1, <3>2, <3>4, Appended
    <3> QED
      BY <3>1, <3>2, <3>3, <3>4, Appended
  <2> QED
    BY <2>1, <2>2
<1>4. ASSUME NEW r \in Runs, RampFrame(r) PROVE OnWire(q, s) \/ (RampFrame(q) /\ out[q] = s)
  <2>1. out[r] \in Sessions /\ ramp[r] \in [step : Nat, left : Int]
    BY <1>4 DEF RampFrame, IInv, Started, Shapes
  <2>2. PICK e \in WireFrames : e = [seq |-> SeqBase + ramp[r].step - 1, own |-> r]
    <3>1. [seq |-> SeqBase + ramp[r].step - 1, own |-> r] \in WireFrames
      BY <2>1, SeqAssumption DEF WireFrames, Owners
    <3> QED
      BY <3>1, Zenon
  <2>3. wire' = [wire EXCEPT ![out[r]] = Append(@, e)] /\ e.own = r
    BY <1>4, <2>2 DEF RampFrame
  <2>4. PICK z \in Sessions : z = out[r]
    BY <2>1
  <2>5. OnWire(q, s) \/ (z = s /\ e.own = q)
    BY <1>3, <2>3, <2>4
  <2> QED
    BY <1>4, <2>3, <2>4, <2>5
<1>5. ASSUME NEW z \in Sessions, VideoFrame(z) PROVE OnWire(q, s)
  <2>1. PICK e \in WireFrames : e = [seq |-> videoSeq[z], own |-> Video]
    <3>1. [seq |-> videoSeq[z], own |-> Video] \in WireFrames
      BY DEF WireFrames, Owners, IInv, Shapes
    <3> QED
      BY <3>1, Zenon
  <2>2. wire' = [wire EXCEPT ![z] = Append(@, e)] /\ e.own = Video
    BY <1>5, <2>1 DEF VideoFrame
  <2>3. OnWire(q, s) \/ (z = s /\ e.own = q)
    BY <1>3, <2>2
  <2> QED
    BY <2>2, <2>3, OwnerAssumption
<1>6. ASSUME NEW z \in Sessions, ReadFrame(z) PROVE OnWire(q, s)
  <2>1. wire' = [wire EXCEPT ![z] = Tail(@)] /\ wire[z] # <<>>
    BY <1>6 DEF ReadFrame
  <2>2. CASE z # s
    BY <1>2, <2>1, <2>2 DEF OnWire
  <2>3. CASE z = s
    <3>1. wire'[s] = Tail(wire[s]) /\ wire[s] \in Seq(WireFrames) /\ wire[s] # <<>>
      BY <1>2, <2>1, <2>3
    <3>2. PICK i \in DOMAIN wire'[s] : wire'[s][i].own = q
      BY DEF OnWire
    <3>3. i + 1 \in DOMAIN wire[s] /\ wire[s][i + 1] = wire'[s][i]
      BY <3>1, <3>2, Shifted
    <3> QED
      BY <3>2, <3>3 DEF OnWire
  <2> QED
    BY <2>2, <2>3
<1>7. ASSUME NEW z \in Sessions, LoseMedia(z) PROVE OnWire(q, s)
  BY <1>2, <1>7 DEF LoseMedia, OnWire
<1>8. CASE \/ UNCHANGED vars
           \/ \E z \in Sessions : \/ AcceptControl(z) \/ AttachMedia(z) \/ ClearOutbound(z)
                                  \/ ClearCounter(z) \/ \E r \in Runs : StartRamp(z, r)
           \/ \E r \in Runs : RunStep(r) \/ RampFails(r)
  <2>1. wire' = wire
    BY <1>8 DEF vars, AcceptControl, AttachMedia, ClearOutbound, ClearCounter, StartRamp,
         RunStep, ReadOutbound, ReadCounter, Drain, SendStart, TimeUp, Proxy, RampFails
  <2> QED
    BY <1>1, <2>1
<1> QED
  BY <1>4, <1>5, <1>6, <1>7, <1>8 DEF Next

\* A start on its way, or a ramp, after a step was one before, or the run has just sent it.
LEMMA RampStep ==
    ASSUME IInv, [Next]_vars, NEW q \in Runs
    PROVE  /\ \A s \in Sessions : q \in starts'[s] => q \in starts[s] \/ (SendStart(q) /\ out[q] = s)
           /\ ramp'[q] # NoRamp =>
                  ramp[q] # NoRamp \/ \E s \in Sessions : StartRamp(s, q) /\ q \in starts[s]
<1>1. starts \in [Sessions -> SUBSET Runs] /\ ramp \in [Runs -> [step : Nat, left : Int]]
  BY DEF IInv, Shapes
<1>2. ASSUME NEW s \in Sessions, ClearOutbound(s)
      PROVE  ramp' = ramp /\ \A z \in Sessions : starts'[z] \subseteq starts[z]
  BY <1>1, <1>2 DEF ClearOutbound
<1>3. ASSUME NEW r \in Runs, SendStart(r)
      PROVE  /\ ramp' = ramp
             /\ \A z \in Sessions : q \in starts'[z] => q \in starts[z] \/ (q = r /\ out[r] = z)
  BY <1>1, <1>3 DEF SendStart
<1>4. ASSUME NEW s \in Sessions, NEW r \in Runs, StartRamp(s, r)
      PROVE  /\ \A z \in Sessions : starts'[z] \subseteq starts[z]
             /\ ramp'[q] # NoRamp => ramp[q] # NoRamp \/ (q = r /\ q \in starts[s])
  BY <1>1, <1>4 DEF StartRamp
<1>5. ASSUME NEW r \in Runs, RampFrame(r) \/ RampFails(r)
      PROVE  starts' = starts /\ (ramp'[q] # NoRamp => ramp[q] # NoRamp)
  BY <1>1, <1>5 DEF RampFrame, RampFails
<1>6. CASE \/ UNCHANGED vars
           \/ \E s \in Sessions : \/ AcceptControl(s) \/ AttachMedia(s) \/ ClearCounter(s)
                                  \/ VideoFrame(s) \/ ReadFrame(s) \/ LoseMedia(s)
           \/ \E r \in Runs : ReadOutbound(r) \/ ReadCounter(r) \/ Drain(r) \/ TimeUp(r) \/ Proxy(r)
  <2>1. UNCHANGED phone \/ UNCHANGED <<starts, ramp>>
    <3>1. CASE UNCHANGED vars
      BY <3>1 DEF vars
    <3>2. CASE \E s \in Sessions : AcceptControl(s) \/ AttachMedia(s) \/ ClearCounter(s)
      BY <3>2 DEF AcceptControl, AttachMedia, ClearCounter
    <3>3. CASE \E s \in Sessions : VideoFrame(s) \/ ReadFrame(s) \/ LoseMedia(s)
      BY <3>3 DEF VideoFrame, ReadFrame, LoseMedia
    <3>4. CASE \E r \in Runs : ReadOutbound(r) \/ ReadCounter(r) \/ Drain(r) \/ TimeUp(r) \/ Proxy(r)
      BY <3>4 DEF ReadOutbound, ReadCounter, Drain, TimeUp, Proxy
    <3> QED
      BY <1>6, <3>1, <3>2, <3>3, <3>4
  <2>2. starts' = starts /\ ramp' = ramp
    BY <2>1 DEF phone
  <2> QED
    BY <2>2
<1> QED
  BY <1>2, <1>3, <1>4, <1>5, <1>6 DEF Next, RunStep

\* The phase of a run changes by its own steps only.
LEMMA PhaseStep ==
    ASSUME IInv, [Next]_vars, phase' # phase PROVE \E q \in Runs : RunStep(q)
<1>1. ASSUME NEW z \in Sessions, AcceptControl(z) \/ AttachMedia(z) \/ ClearOutbound(z) \/ ClearCounter(z)
      PROVE  FALSE
  BY <1>1 DEF AcceptControl, AttachMedia, ClearOutbound, ClearCounter, runState
<1>2. ASSUME NEW z \in Sessions, VideoFrame(z) \/ ReadFrame(z) \/ LoseMedia(z) PROVE FALSE
  BY <1>2 DEF VideoFrame, ReadFrame, LoseMedia, runState
<1>3. ASSUME NEW z \in Sessions, NEW r \in Runs, StartRamp(z, r) PROVE FALSE
  BY <1>3 DEF StartRamp, runState
<1>4. ASSUME NEW r \in Runs, RampFrame(r) \/ RampFails(r) PROVE FALSE
  BY <1>4 DEF RampFrame, RampFails, runState
<1>5. ~UNCHANGED vars
  BY DEF vars, runState
<1> QED
  BY <1>1, <1>2, <1>3, <1>4, <1>5 DEF Next

\* A run has its two slots from when it has read the second one.
LEMMA Reads ==
    ASSUME IInv, [Next]_vars, NEW r \in Runs, ~HasSlots(r), HasSlots(r)'
    PROVE  out'[r] \in Sessions /\ ctr'[r] \in Sessions
<1>1. /\ phase \in [Runs -> Phases] /\ out \in [Runs -> Sessions \cup {None}]
      /\ ctr \in [Runs -> Sessions \cup {None}] /\ slotCtr \in Sessions \cup {None} /\ Shapes
  BY DEF IInv, Shapes
<1>2. phase' # phase
  BY DEF HasSlots
<1>3. \E q \in Runs : RunStep(q)
  BY <1>2, PhaseStep
<1>4. ASSUME NEW q \in Runs, ReadOutbound(q) \/ Drain(q) \/ TimeUp(q) \/ Proxy(q) PROVE FALSE
  BY <1>1, <1>4 DEF ReadOutbound, Drain, TimeUp, Proxy, Conclude, HasSlots
<1>5. ASSUME NEW q \in Runs, SendStart(q) PROVE FALSE
  <2>1. /\ phase[q] = "send"
        /\ phase' = [phase EXCEPT ![q] = "wait"] \/ phase' = [phase EXCEPT ![q] = "failed"]
    BY <1>1, <1>5, Sending
  <2> QED
    BY <1>1, <2>1 DEF HasSlots
<1>6. PICK q \in Runs : ReadCounter(q)
  BY <1>3, <1>4, <1>5 DEF RunStep
<1>7. q = r
  BY <1>1, <1>6 DEF ReadCounter, HasSlots
<1>8. CASE out[r] # None /\ slotCtr # None
  BY <1>1, <1>6, <1>7, <1>8 DEF ReadCounter
<1>9. CASE ~(out[r] # None /\ slotCtr # None)
  BY <1>1, <1>6, <1>7, <1>9 DEF ReadCounter, HasSlots
<1> QED
  BY <1>8, <1>9

\* And keeps them while it drains, sends and waits.
LEMMA KeepsSlots ==
    ASSUME IInv, [Next]_vars, NEW r \in Runs, HasSlots(r)
    PROVE  out'[r] = out[r] /\ ctr'[r] = ctr[r]
<1>1. Shapes /\ phase \in [Runs -> Phases] /\ ctr \in [Runs -> Sessions \cup {None}]
      /\ out \in [Runs -> Sessions \cup {None}]
  BY DEF IInv, Shapes
<1>2. CASE Measuring(r)
  BY <1>2, Onward
<1>3. CASE phase[r] = "drain"
  <2>1. ASSUME NEW q \in Runs, ReadOutbound(q) PROVE out'[r] = out[r] /\ ctr'[r] = ctr[r]
    BY <1>1, <1>3, <2>1 DEF ReadOutbound
  <2>2. ASSUME NEW q \in Runs, ReadCounter(q) PROVE out'[r] = out[r] /\ ctr'[r] = ctr[r]
    BY <1>1, <1>3, <2>2 DEF ReadCounter
  <2>3. ASSUME NEW q \in Runs, Drain(q) \/ TimeUp(q) \/ Proxy(q)
        PROVE  out'[r] = out[r] /\ ctr'[r] = ctr[r]
    BY <2>3 DEF Drain, TimeUp, Proxy
  <2>4. ASSUME NEW q \in Runs, SendStart(q) PROVE out'[r] = out[r] /\ ctr'[r] = ctr[r]
    BY <2>4 DEF SendStart
  <2>5. ASSUME NEW z \in Sessions, AcceptControl(z) \/ AttachMedia(z) \/ ClearOutbound(z) \/ ClearCounter(z)
        PROVE  out' = out /\ ctr' = ctr
    BY <2>5 DEF AcceptControl, AttachMedia, ClearOutbound, ClearCounter, runState
  <2>6. ASSUME NEW z \in Sessions, VideoFrame(z) \/ ReadFrame(z) \/ LoseMedia(z)
        PROVE  out' = out /\ ctr' = ctr
    BY <2>6 DEF VideoFrame, ReadFrame, LoseMedia, runState
  <2>7. ASSUME NEW z \in Sessions, NEW q \in Runs, StartRamp(z, q) PROVE out' = out /\ ctr' = ctr
    BY <2>7 DEF StartRamp, runState
  <2>8. ASSUME NEW q \in Runs, RampFrame(q) \/ RampFails(q) PROVE out' = out /\ ctr' = ctr
    BY <2>8 DEF RampFrame, RampFails, runState
  <2>9. (UNCHANGED vars) => out' = out /\ ctr' = ctr
    BY DEF vars, runState
  <2> QED
    BY <2>1, <2>2, <2>3, <2>4, <2>5, <2>6, <2>7, <2>8, <2>9 DEF Next, RunStep
<1> QED
  BY <1>2, <1>3 DEF HasSlots, Measuring

\* A run starts to measure when it has drained its counter.
LEMMA Begins ==
    ASSUME IInv, [Next]_vars, NEW r \in Runs, ~Measuring(r), Measuring(r)'
    PROVE  /\ phase[r] = "drain" /\ ctr[r] \in Sessions
           /\ ctr'[r] = ctr[r] /\ phase' = [phase EXCEPT ![r] = "send"]
           /\ counter' = [counter EXCEPT ![ctr[r]] = EmptyBag]
           /\ rivals' = [rivals EXCEPT ![r] = {q \in Runs \ {r} : Outstanding(q, ctr[r])}]
<1>1. phase \in [Runs -> Phases] /\ Shapes /\ Started
  BY DEF IInv, Shapes
<1>2. phase' # phase
  BY DEF Measuring
<1>3. \E q \in Runs : RunStep(q)
  BY <1>2, PhaseStep
<1>4. ASSUME NEW q \in Runs, ReadOutbound(q) \/ ReadCounter(q) \/ TimeUp(q) \/ Proxy(q) PROVE FALSE
  BY <1>1, <1>4 DEF ReadOutbound, ReadCounter, TimeUp, Proxy, Conclude, Measuring
<1>5. ASSUME NEW q \in Runs, SendStart(q) PROVE FALSE
  <2>1. /\ phase[q] = "send"
        /\ phase' = [phase EXCEPT ![q] = "wait"] \/ phase' = [phase EXCEPT ![q] = "failed"]
    BY <1>1, <1>5, Sending
  <2> QED
    BY <1>1, <2>1 DEF Measuring
<1>6. PICK q \in Runs : Drain(q)
  BY <1>3, <1>4, <1>5 DEF RunStep
<1>7. q = r
  BY <1>1, <1>6 DEF Drain, Measuring
<1>8. ctr[r] \in Sessions
  BY <1>1, <1>6, <1>7 DEF Drain, Started, HasSlots
<1> QED
  BY <1>6, <1>7, <1>8 DEF Drain

\* Ramps belong to runs that sent a start, and bring frames to its session.
LEMMA StartedStep == ASSUME IInv, [Next]_vars PROVE Started'
<1>1. Shapes /\ Started
  BY DEF IInv
<1>2. ASSUME NEW r \in Runs, HasSlots(r)' PROVE out'[r] \in Sessions /\ ctr'[r] \in Sessions
  <2>1. CASE HasSlots(r)
    BY <1>1, <2>1, KeepsSlots DEF Started
  <2>2. CASE ~HasSlots(r)
    BY <1>2, <2>2, Reads
  <2> QED
    BY <2>1, <2>2
<1>3. ASSUME NEW r \in Runs, NEW s \in Sessions, Sent(r), out[r] = s PROVE out'[r] = s /\ Sent(r)'
  BY <1>3, Onward
<1>4. ASSUME NEW s \in Sessions, NEW r \in Runs, r \in starts'[s] PROVE out'[r] = s /\ Sent(r)'
  <2>1. CASE r \in starts[s]
    BY <1>1, <1>3, <2>1 DEF Started
  <2>2. CASE r \notin starts[s]
    <3>1. SendStart(r)
      BY <1>4, <2>2, RampStep
    <3>2. out[r] = s /\ phase'[r] = "wait" /\ out' = out
      BY <1>1, <1>4, <2>2, <3>1, Sending
    <3> QED
      BY <3>2 DEF Sent
  <2> QED
    BY <2>1, <2>2
<1>5. ASSUME NEW r \in Runs, ramp'[r] # NoRamp PROVE out'[r] \in Sessions /\ Sent(r)'
  <2>1. CASE ramp[r] # NoRamp
    BY <1>1, <1>3, <2>1 DEF Started
  <2>2. CASE ramp[r] = NoRamp
    <3>1. PICK s \in Sessions : r \in starts[s]
      BY <1>5, <2>2, RampStep
    <3> QED
      BY <1>1, <1>3, <3>1 DEF Started
  <2> QED
    BY <2>1, <2>2
<1>6. ASSUME NEW s \in Sessions, NEW r \in Runs, OnWire(r, s)' PROVE out'[r] = s /\ Sent(r)'
  <2>1. CASE OnWire(r, s)
    BY <1>1, <1>3, <2>1 DEF Started
  <2>2. CASE ~OnWire(r, s)
    <3>1. RampFrame(r) /\ out[r] = s
      BY <1>6, <2>2, WireStep
    <3>2. Sent(r)
      BY <1>1, <3>1 DEF Started, RampFrame
    <3> QED
      BY <1>3, <3>1, <3>2
  <2> QED
    BY <2>1, <2>2
<1> QED
  BY <1>2, <1>4, <1>5, <1>6 DEF Started

\* A ramp that can bring frames to a session could before, or is started by this step.
LEMMA OutstandingStep ==
    ASSUME IInv, [Next]_vars, NEW q \in Runs, NEW s \in Sessions, Outstanding(q, s)'
    PROVE  Outstanding(q, s) \/ (SendStart(q) /\ phase'[q] = "wait")
<1>1. Shapes /\ Started
  BY DEF IInv
<1>2. out'[q] = s
  BY DEF Outstanding
<1>3. ASSUME Sent(q), q \in starts[s] \/ ramp[q] # NoRamp \/ OnWire(q, s) PROVE Outstanding(q, s)
  <2>1. out[q] = s
    BY <1>2, <1>3, Onward
  <2> QED
    BY <1>3, <2>1 DEF Outstanding, Sent
<1>4. CASE q \in starts'[s]
  <2>1. CASE q \in starts[s]
    BY <1>1, <1>3, <2>1 DEF Started
  <2>2. CASE q \notin starts[s]
    <3>1. SendStart(q)
      BY <1>4, <2>2, RampStep
    <3> QED
      BY <1>1, <1>4, <2>2, <3>1, Sending
  <2> QED
    BY <2>1, <2>2
<1>5. CASE ramp'[q] # NoRamp
  <2>1. CASE ramp[q] # NoRamp
    BY <1>1, <1>3, <2>1 DEF Started
  <2>2. CASE ramp[q] = NoRamp
    <3>1. PICK z \in Sessions : q \in starts[z]
      BY <1>5, <2>2, RampStep
    <3>2. Sent(q) /\ out[q] = z
      BY <1>1, <3>1 DEF Started
    <3>3. z = s
      BY <1>2, <3>2, Onward
    <3> QED
      BY <1>3, <3>1, <3>2, <3>3
  <2> QED
    BY <2>1, <2>2
<1>6. CASE OnWire(q, s)'
  <2>1. CASE OnWire(q, s)
    BY <1>1, <1>3, <2>1 DEF Started
  <2>2. CASE ~OnWire(q, s)
    <3>1. ramp[q] # NoRamp
      BY <1>6, <2>2, WireStep DEF RampFrame
    <3> QED
      BY <1>1, <1>3, <3>1 DEF Started
  <2> QED
    BY <2>1, <2>2
<1> QED
  BY <1>4, <1>5, <1>6 DEF Outstanding

\* Rivals are known before their frames come.
LEMMA RivalsStep == ASSUME IInv, [Next]_vars PROVE RivalsKnown'
<1>1. Shapes /\ Started /\ RivalsKnown /\ phase \in [Runs -> Phases] /\ rivals \in [Runs -> SUBSET Runs]
  BY DEF IInv, Shapes
<1>2. ASSUME NEW r \in Runs, NEW q \in rivals'[r] PROVE Sent(q)'
  <2>1. CASE q \in rivals[r]
    <3>1. q \in Runs /\ Sent(q)
      BY <1>1, <2>1 DEF RivalsKnown
    <3> QED
      BY <3>1, Onward
  <2>2. CASE q \notin rivals[r]
    <3>1. \E p \in Runs : Drain(p) \/ SendStart(p)
      <4>1. rivals' # rivals
        BY <2>2
      <4>2. ASSUME NEW z \in Sessions, AcceptControl(z) \/ AttachMedia(z) \/ ClearOutbound(z) \/ ClearCounter(z)
            PROVE  rivals' = rivals
        BY <4>2 DEF AcceptControl, AttachMedia, ClearOutbound, ClearCounter
      <4>3. ASSUME NEW z \in Sessions, VideoFrame(z) \/ ReadFrame(z) \/ LoseMedia(z) PROVE rivals' = rivals
        BY <4>3 DEF VideoFrame, ReadFrame, LoseMedia
      <4>4. ASSUME NEW z \in Sessions, NEW p \in Runs, StartRamp(z, p) PROVE rivals' = rivals
        BY <4>4 DEF StartRamp
      <4>5. ASSUME NEW p \in Runs, RampFrame(p) \/ RampFails(p) PROVE rivals' = rivals
        BY <4>5 DEF RampFrame, RampFails
      <4>6. ASSUME NEW p \in Runs, ReadOutbound(p) \/ ReadCounter(p) \/ TimeUp(p) \/ Proxy(p)
            PROVE  rivals' = rivals
        BY <4>6 DEF ReadOutbound, ReadCounter, TimeUp, Proxy
      <4>7. (UNCHANGED vars) => rivals' = rivals
        BY DEF vars
      <4> QED
        BY <4>1, <4>2, <4>3, <4>4, <4>5, <4>6, <4>7 DEF Next, RunStep
    <3>2. ASSUME NEW p \in Runs, Drain(p) PROVE Sent(q)'
      <4>1. /\ rivals' = [rivals EXCEPT ![p] = {x \in Runs \ {p} : Outstanding(x, ctr[p])}]
            /\ ctr[p] \in Sessions
        BY <1>1, <3>2 DEF Drain, Started, HasSlots
      <4>2. q \in Runs /\ Outstanding(q, ctr[p])
        BY <1>1, <1>2, <2>2, <4>1
      <4>3. Sent(q)
        BY <1>1, <4>1, <4>2 DEF Outstanding, Started
      <4> QED
        BY <4>2, <4>3, Onward
    <3>3. ASSUME NEW p \in Runs, SendStart(p) PROVE Sent(q)'
      <4>1. q = p /\ phase'[p] = "wait"
        <5>1. rivals' \in [Runs -> SUBSET Runs]
          BY <1>1, <3>3, Sending
        <5>2. q \in Runs
          BY <1>2, <5>1
        <5> QED
          BY <1>1, <1>2, <2>2, <3>3, <5>2, Sending
      <4> QED
        BY <4>1 DEF Sent
    <3> QED
      BY <3>1, <3>2, <3>3
  <2> QED
    BY <2>1, <2>2
<1>3. ASSUME NEW r \in Runs, NEW q \in Runs, NEW s \in Sessions, Measuring(r)', ctr'[r] = s,
             q # r, Outstanding(q, s)'
      PROVE  q \in rivals'[r]
  <2>1. Outstanding(q, s) \/ (SendStart(q) /\ phase'[q] = "wait")
    BY <1>3, OutstandingStep
  <2>2. CASE Measuring(r)
    <3>1. ctr[r] = s /\ rivals[r] \subseteq rivals'[r]
      BY <1>3, <2>2, Onward
    <3>2. CASE Outstanding(q, s)
      BY <1>1, <1>3, <2>2, <3>1, <3>2 DEF RivalsKnown
    <3>3. CASE SendStart(q) /\ phase'[q] = "wait"
      BY <1>1, <1>3, <2>2, <3>3, Sending DEF Measuring
    <3> QED
      BY <2>1, <3>2, <3>3
  <2>3. CASE ~Measuring(r)
    <3>1. /\ ctr'[r] = ctr[r] /\ phase' = [phase EXCEPT ![r] = "send"]
          /\ rivals' = [rivals EXCEPT ![r] = {x \in Runs \ {r} : Outstanding(x, ctr[r])}]
      BY <1>3, <2>3, Begins
    <3>2. ~SendStart(q) \/ phase'[q] # "wait"
      BY <1>1, <1>3, <3>1 DEF SendStart
    <3> QED
      BY <1>1, <1>3, <2>1, <3>1, <3>2
  <2> QED
    BY <2>2, <2>3
<1> QED
  BY <1>2, <1>3 DEF RivalsKnown

-----------------------------------------------------------------------------
(* Arrivals. *)

\* The generator's numbers stay behind its count.
LEMMA VideoStep == ASSUME IInv, [Next]_vars PROVE VideoNumbered'
<1>1. /\ VideoNumbered /\ wire \in [Sessions -> Seq(WireFrames)] /\ Started
      /\ videoSeq \in [Sessions -> Nat] /\ sent \in [Sessions -> Nat]
      /\ out \in [Runs -> Sessions \cup {None}] /\ ramp \in [Runs -> [step : Nat, left : Int]]
  BY DEF IInv, Shapes
<1>2. ASSUME UNCHANGED <<videoSeq, sent>>,
             \A s \in Sessions : \A i \in 1 .. Len(wire'[s]) :
                 wire'[s][i].own = Video => \E j \in 1 .. Len(wire[s]) : wire[s][j] = wire'[s][i]
      PROVE  VideoNumbered'
  <2>1. ASSUME NEW s \in Sessions PROVE videoSeq'[s] <= sent'[s]
    BY <1>1, <1>2 DEF VideoNumbered
  <2>2. ASSUME NEW s \in Sessions, NEW i \in 1 .. Len(wire'[s]),
               wire'[s][i].own = Video, wire'[s][i].seq >= SeqBase
        PROVE  sent'[s] > SeqBase
    <3>1. PICK j \in 1 .. Len(wire[s]) : wire[s][j] = wire'[s][i]
      BY <1>2, <2>2
    <3>2. wire[s][j].own = Video /\ wire[s][j].seq >= SeqBase
      BY <2>2, <3>1
    <3>3. sent[s] > SeqBase
      BY <1>1, <3>2 DEF VideoNumbered
    <3> QED
      BY <1>2, <3>3
  <2> QED
    BY <2>1, <2>2 DEF VideoNumbered
<1>3. ASSUME NEW r \in Runs, RampFrame(r) PROVE VideoNumbered'
  <2>1. out[r] \in Sessions
    BY <1>1, <1>3 DEF RampFrame, Started
  <2>2. PICK e \in WireFrames : e = [seq |-> SeqBase + ramp[r].step - 1, own |-> r]
    <3>1. [seq |-> SeqBase + ramp[r].step - 1, own |-> r] \in WireFrames
      BY <1>1, SeqAssumption DEF WireFrames, Owners
    <3> QED
      BY <3>1, Zenon
  <2>3. wire' = [wire EXCEPT ![out[r]] = Append(@, e)] /\ e.own # Video /\ UNCHANGED <<videoSeq, sent>>
    <3>1. wire' = [wire EXCEPT ![out[r]] = Append(@, e)] /\ UNCHANGED <<videoSeq, sent>>
      BY <1>3, <2>2 DEF RampFrame
    <3>2. e.own # Video
      BY <2>2, OwnerAssumption
    <3> QED
      BY <3>1, <3>2
  <2>4. ASSUME NEW s \in Sessions, NEW i \in 1 .. Len(wire'[s]), wire'[s][i].own = Video
        PROVE  \E j \in 1 .. Len(wire[s]) : wire[s][j] = wire'[s][i]
    <3>1. CASE s # out[r]
      BY <1>1, <2>1, <2>3, <2>4, <3>1
    <3>2. CASE s = out[r]
      <4>1. wire'[s] = Append(wire[s], e) /\ wire[s] \in Seq(WireFrames)
        BY <1>1, <2>1, <2>3, <3>2
      <4>2. i # Len(wire[s]) + 1
        BY <2>3, <2>4, <4>1, Appended
      <4>3. i \in 1 .. Len(wire[s])
        BY <2>4, <4>1, <4>2, Appended
      <4> QED
        BY <4>1, <4>3, Appended
    <3> QED
      BY <3>1, <3>2
  <2> QED
    BY <1>2, <2>3, <2>4
<1>4. ASSUME NEW z \in Sessions, VideoFrame(z) PROVE VideoNumbered'
  <2>1. PICK e \in WireFrames : e = [seq |-> videoSeq[z], own |-> Video]
    <3>1. [seq |-> videoSeq[z], own |-> Video] \in WireFrames
      BY <1>1 DEF WireFrames, Owners
    <3> QED
      BY <3>1, Zenon
  <2>2. /\ wire' = [wire EXCEPT ![z] = Append(@, e)] /\ e.seq = videoSeq[z]
        /\ videoSeq' = [videoSeq EXCEPT ![z] = (@ + 1) % SeqSpan]
        /\ sent' = [sent EXCEPT ![z] = @ + 1]
    BY <1>4, <2>1 DEF VideoFrame
  <2>3. ASSUME NEW s \in Sessions PROVE videoSeq'[s] <= sent'[s]
    <3>1. videoSeq[s] <= sent[s] /\ videoSeq[s] \in Nat /\ sent[s] \in Nat
      BY <1>1 DEF VideoNumbered
    <3>2. (videoSeq[s] + 1) % SeqSpan <= videoSeq[s] + 1 /\ (videoSeq[s] + 1) % SeqSpan \in Nat
      BY <3>1, Wrapping
    <3> QED
      BY <1>1, <2>2, <3>1, <3>2
  <2>4. ASSUME NEW s \in Sessions, NEW i \in 1 .. Len(wire'[s]), wire'[s][i].own = Video,
               wire'[s][i].seq >= SeqBase
        PROVE  sent'[s] > SeqBase
    <3>1. videoSeq[s] <= sent[s] /\ videoSeq[s] \in Nat /\ sent[s] \in Nat /\ sent'[s] >= sent[s]
      BY <1>1, <2>2 DEF VideoNumbered
    <3>2. CASE \E j \in 1 .. Len(wire[s]) : wire[s][j] = wire'[s][i]
      <4>1. sent[s] > SeqBase
        BY <1>1, <2>4, <3>2 DEF VideoNumbered
      <4> QED
        BY <1>1, <2>2, <3>1, <4>1, SeqAssumption
    <3>3. CASE s = z /\ wire'[s][i] = e
      <4>1. sent'[s] = sent[s] + 1
        BY <1>1, <2>2, <3>3
      <4> QED
        BY <2>2, <2>4, <3>1, <3>3, <4>1, SeqAssumption
    <3>4. CASE s # z
      BY <1>1, <2>2, <2>4, <3>2, <3>4
    <3>5. CASE s = z
      <4>1. wire'[s] = Append(wire[s], e) /\ wire[s] \in Seq(WireFrames)
        BY <1>1, <2>2, <3>5
      <4>2. CASE i = Len(wire[s]) + 1
        BY <3>3, <3>5, <4>1, <4>2, Appended
      <4>3. CASE i # Len(wire[s]) + 1
        <5>1. i \in 1 .. Len(wire[s])
          BY <2>4, <4>1, <4>3, Appended
        <5> QED
          BY <3>2, <4>1, <5>1, Appended
      <4> QED
        BY <4>2, <4>3
    <3> QED
      BY <3>4, <3>5
  <2> QED
    BY <2>3, <2>4 DEF VideoNumbered
<1>5. ASSUME NEW z \in Sessions, ReadFrame(z) PROVE VideoNumbered'
  <2>1. wire' = [wire EXCEPT ![z] = Tail(@)] /\ wire[z] # <<>> /\ UNCHANGED <<videoSeq, sent>>
    BY <1>5 DEF ReadFrame, phone
  <2>2. ASSUME NEW s \in Sessions, NEW i \in 1 .. Len(wire'[s])
        PROVE  \E j \in 1 .. Len(wire[s]) : wire[s][j] = wire'[s][i]
    <3>1. CASE s # z
      BY <1>1, <2>1, <2>2, <3>1
    <3>2. CASE s = z
      <4>1. wire'[s] = Tail(wire[s]) /\ wire[s] \in Seq(WireFrames) /\ wire[s] # <<>>
        BY <1>1, <2>1, <3>2
      <4>2. i + 1 \in 1 .. Len(wire[s]) /\ wire[s][i + 1] = wire'[s][i]
        BY <2>2, <4>1, Shifted
      <4> QED
        BY <4>2
    <3> QED
      BY <3>1, <3>2
  <2> QED
    BY <1>2, <2>1, <2>2
<1>6. ASSUME NEW z \in Sessions, LoseMedia(z) PROVE VideoNumbered'
  <2>1. wire' = [wire EXCEPT ![z] = <<>>] /\ UNCHANGED <<videoSeq, sent>>
    BY <1>6 DEF LoseMedia, phone
  <2>2. ASSUME NEW s \in Sessions, NEW i \in 1 .. Len(wire'[s])
        PROVE  \E j \in 1 .. Len(wire[s]) : wire[s][j] = wire'[s][i]
    BY <1>1, <2>1, <2>2
  <2> QED
    BY <1>2, <2>1, <2>2
<1>7. CASE \/ UNCHANGED vars
           \/ \E z \in Sessions : \/ AcceptControl(z) \/ AttachMedia(z) \/ ClearOutbound(z)
                                  \/ ClearCounter(z) \/ \E r \in Runs : StartRamp(z, r)
           \/ \E r \in Runs : RunStep(r) \/ RampFails(r)
  <2>1. UNCHANGED <<wire, videoSeq, sent>>
    BY <1>7 DEF vars, AcceptControl, AttachMedia, ClearOutbound, ClearCounter, StartRamp,
         RunStep, ReadOutbound, ReadCounter, Drain, SendStart, TimeUp, Proxy, RampFails, phone
  <2> QED
    BY <1>1, <2>1 DEF VideoNumbered
<1> QED
  BY <1>3, <1>4, <1>5, <1>6, <1>7 DEF Next

\* What a counter holds after a step: what it held, unless its pipeline read a frame
\* numbered as filler.
LEMMA CounterStep ==
    ASSUME IInv, [Next]_vars, NEW s \in Sessions, NEW a \in BagToSet(counter'[s])
    PROVE  \/ a \in BagToSet(counter[s])
           \/ \E i \in DOMAIN wire[s] : a.own = wire[s][i].own /\ wire[s][i].seq >= SeqBase
<1>1. DOMAIN counter = Sessions /\ wire \in [Sessions -> Seq(WireFrames)]
  BY DEF IInv, Shapes
<1>2. ASSUME counter' = counter PROVE a \in BagToSet(counter[s])
  BY <1>2
<1>3. ASSUME NEW z, counter' = [counter EXCEPT ![z] = EmptyBag] PROVE a \in BagToSet(counter[s])
  <2>1. CASE z = s
    <3>1. counter'[s] = EmptyBag
      BY <1>1, <1>3, <2>1
    <3> QED
      BY <3>1, NoArrivals
  <2>2. CASE z # s
    BY <1>1, <1>3, <2>2
  <2> QED
    BY <2>1, <2>2
<1>4. ASSUME NEW r \in Runs, Drain(r) PROVE a \in BagToSet(counter[s])
  <2>1. counter' = [counter EXCEPT ![ctr[r]] = EmptyBag]
    BY <1>4 DEF Drain
  <2> QED
    BY <1>3, <2>1
<1>5. ASSUME NEW r \in Runs, TimeUp(r) PROVE a \in BagToSet(counter[s])
  <2>1. counter' = [counter EXCEPT ![ctr[r]] = EmptyBag]
    BY <1>5 DEF TimeUp
  <2> QED
    BY <1>3, <2>1
<1>6. ASSUME NEW z \in Sessions, ReadFrame(z)
      PROVE  \/ a \in BagToSet(counter[s])
             \/ \E i \in DOMAIN wire[s] : a.own = wire[s][i].own /\ wire[s][i].seq >= SeqBase
  <2>1. /\ wire[z] \in Seq(WireFrames) /\ wire[z] # <<>>
        /\ Head(wire[z]) = wire[z][1] /\ 1 \in DOMAIN wire[z]
    <3>1. wire[z] \in Seq(WireFrames) /\ wire[z] # <<>>
      BY <1>1, <1>6 DEF ReadFrame
    <3> QED
      BY <3>1, Shifted
  <2>2. CASE ~IsSpeedtestMarker(wire[z][1].seq)
    BY <1>2, <1>6, <2>1, <2>2 DEF ReadFrame
  <2>3. CASE IsSpeedtestMarker(wire[z][1].seq)
    <3> DEFINE e == [step |-> SpeedtestStepIndex(wire[z][1].seq), own |-> wire[z][1].own]
    <3>1. counter' = [counter EXCEPT ![z] = @ (+) SetToBag({e})]
      BY <1>6, <2>1, <2>3 DEF ReadFrame
    <3>2. CASE z # s
      BY <1>1, <3>1, <3>2
    <3>3. CASE z = s
      <4>1. counter'[s] = counter[s] (+) SetToBag({e})
        BY <1>1, <3>1, <3>3
      <4>2. a \in BagToSet(counter[s]) \cup {e}
        <5> HIDE DEF e
        <5>1. BagToSet(counter[s] (+) SetToBag({e})) = BagToSet(counter[s]) \cup {e}
          BY OneMore, Zenon
        <5> QED
          BY <4>1, <5>1, Zenon
      <4>3. e.own = wire[z][1].own
        OBVIOUS
      <4> QED
        BY <2>1, <2>3, <3>3, <4>2, <4>3 DEF IsSpeedtestMarker
    <3> QED
      BY <3>2, <3>3
  <2> QED
    BY <2>2, <2>3
<1>7. ASSUME NEW z \in Sessions, AcceptControl(z) \/ AttachMedia(z) \/ ClearOutbound(z) \/ ClearCounter(z)
      PROVE  counter' = counter
  BY <1>7 DEF AcceptControl, AttachMedia, ClearOutbound, ClearCounter
<1>8. ASSUME NEW z \in Sessions, VideoFrame(z) \/ LoseMedia(z) PROVE counter' = counter
  BY <1>8 DEF VideoFrame, LoseMedia
<1>9. ASSUME NEW z \in Sessions, NEW r \in Runs, StartRamp(z, r) PROVE counter' = counter
  BY <1>9 DEF StartRamp
<1>10. ASSUME NEW r \in Runs, RampFrame(r) \/ RampFails(r) PROVE counter' = counter
  BY <1>10 DEF RampFrame, RampFails
<1>11. ASSUME NEW r \in Runs, ReadOutbound(r) \/ ReadCounter(r) \/ SendStart(r) \/ Proxy(r)
       PROVE  counter' = counter
  BY <1>11 DEF ReadOutbound, ReadCounter, SendStart, Proxy
<1>12. (UNCHANGED vars) => counter' = counter
  BY DEF vars
<1> QED
  BY <1>2, <1>4, <1>5, <1>6, <1>7, <1>8, <1>9, <1>10, <1>11, <1>12 DEF Next, RunStep

\* A run takes arrivals once, when its time is up.
LEMMA GotStep ==
    ASSUME IInv, [Next]_vars, NEW r \in Runs
    PROVE  \/ got'[r] = got[r] /\ (phase[r] = "done" => phase'[r] = "done" /\ ctr'[r] = ctr[r])
           \/ /\ phase[r] = "wait" /\ got'[r] = counter[ctr[r]] /\ phase'[r] = "done"
              /\ ctr'[r] = ctr[r]
<1>1. phase \in [Runs -> Phases] /\ DOMAIN got = Runs /\ ctr \in [Runs -> Sessions \cup {None}] /\ Shapes
  BY DEF IInv, Shapes
<1>2. ASSUME UNCHANGED <<phase, ctr, got>>
      PROVE  got'[r] = got[r] /\ (phase[r] = "done" => phase'[r] = "done" /\ ctr'[r] = ctr[r])
  BY <1>2
<1>3. ASSUME NEW q \in Runs, TimeUp(q)
      PROVE  \/ got'[r] = got[r] /\ (phase[r] = "done" => phase'[r] = "done" /\ ctr'[r] = ctr[r])
             \/ /\ phase[r] = "wait" /\ got'[r] = counter[ctr[r]] /\ phase'[r] = "done"
                /\ ctr'[r] = ctr[r]
  <2>1. /\ phase[q] = "wait" /\ got' = [got EXCEPT ![q] = counter[ctr[q]]]
        /\ phase' = [phase EXCEPT ![q] = "done"] /\ ctr' = ctr
    BY <1>3 DEF TimeUp, Conclude
  <2> QED
    BY <1>1, <2>1
<1>4. ASSUME NEW q \in Runs, ReadOutbound(q) \/ ReadCounter(q) \/ Drain(q) \/ Proxy(q)
      PROVE  got'[r] = got[r] /\ (phase[r] = "done" => phase'[r] = "done" /\ ctr'[r] = ctr[r])
  BY <1>1, <1>4 DEF ReadOutbound, ReadCounter, Drain, Proxy, Conclude
<1>5. ASSUME NEW q \in Runs, SendStart(q)
      PROVE  got'[r] = got[r] /\ (phase[r] = "done" => phase'[r] = "done" /\ ctr'[r] = ctr[r])
  <2>1. /\ phase[q] = "send" /\ got' = got /\ ctr' = ctr
        /\ phase' = [phase EXCEPT ![q] = "wait"] \/ phase' = [phase EXCEPT ![q] = "failed"]
    BY <1>1, <1>5, Sending
  <2> QED
    BY <1>1, <2>1
<1>6. ASSUME NEW z \in Sessions, AcceptControl(z) \/ AttachMedia(z) \/ ClearOutbound(z) \/ ClearCounter(z)
      PROVE  UNCHANGED <<phase, ctr, got>>
  BY <1>6 DEF AcceptControl, AttachMedia, ClearOutbound, ClearCounter, runState
<1>7. ASSUME NEW z \in Sessions, VideoFrame(z) \/ ReadFrame(z) \/ LoseMedia(z)
      PROVE  UNCHANGED <<phase, ctr, got>>
  BY <1>7 DEF VideoFrame, ReadFrame, LoseMedia, runState
<1>8. ASSUME NEW z \in Sessions, NEW q \in Runs, StartRamp(z, q) PROVE UNCHANGED <<phase, ctr, got>>
  BY <1>8 DEF StartRamp, runState
<1>9. ASSUME NEW q \in Runs, RampFrame(q) \/ RampFails(q) PROVE UNCHANGED <<phase, ctr, got>>
  BY <1>9 DEF RampFrame, RampFails, runState
<1>10. (UNCHANGED vars) => UNCHANGED <<phase, ctr, got>>
  BY DEF vars, runState
<1> QED
  BY <1>2, <1>3, <1>4, <1>5, <1>6, <1>7, <1>8, <1>9, <1>10 DEF Next, RunStep

\* What is on a session's wire under a filler number is explained to whoever measures it.
LEMMA ComingExplained ==
    ASSUME IInv, NEW r \in Runs, NEW s \in Sessions, Measuring(r), ctr[r] = s,
           NEW i \in DOMAIN wire[s], wire[s][i].seq >= SeqBase
    PROVE  Explained(r, s, wire[s][i].own)
<1>1. /\ wire[s] \in Seq(WireFrames) /\ Started /\ RivalsKnown /\ VideoNumbered
  BY DEF IInv, Shapes
<1>2. i \in 1 .. Len(wire[s]) /\ wire[s][i] \in WireFrames
  BY <1>1, Elements
<1>3. CASE wire[s][i].own = Video
  BY <1>1, <1>2, <1>3 DEF VideoNumbered, Explained
<1>4. CASE wire[s][i].own # Video
  <2>1. PICK q \in Runs : q = wire[s][i].own
    BY <1>2, <1>4 DEF WireFrames, Owners
  <2>2. OnWire(q, s)
    BY <2>1 DEF OnWire
  <2>3. out[q] = s /\ Sent(q)
    BY <1>1, <2>2 DEF Started
  <2>4. CASE q = r
    BY <2>1, <2>3, <2>4 DEF Explained
  <2>5. CASE q # r
    <3>1. Outstanding(q, s)
      BY <2>2, <2>3 DEF Outstanding, Sent
    <3>2. q \in rivals[r]
      BY <1>1, <2>5, <3>1 DEF RivalsKnown
    <3> QED
      BY <2>1, <2>3, <3>2 DEF Explained
  <2> QED
    BY <2>4, <2>5
<1> QED
  BY <1>3, <1>4

\* Arrivals stay explained.
LEMMA ArrivalsStep == ASSUME IInv, [Next]_vars PROVE ArrivalsExplained'
<1>1. ArrivalsExplained /\ Started /\ DOMAIN counter = Sessions /\ phase \in [Runs -> Phases]
  BY DEF IInv, Shapes
<1>2. ASSUME NEW r \in Runs, NEW s \in Sessions, Measuring(r)', ctr'[r] = s,
             NEW a \in BagToSet(counter'[s])
      PROVE  Explained(r, s, a.own)'
  <2>1. CASE ~Measuring(r)
    <3>1. ctr'[r] = ctr[r] /\ counter' = [counter EXCEPT ![ctr[r]] = EmptyBag]
      BY <1>2, <2>1, Begins
    <3>2. counter'[s] = EmptyBag
      BY <1>1, <1>2, <3>1
    <3> QED
      BY <1>2, <3>2, NoArrivals
  <2>2. CASE Measuring(r)
    <3>1. ctr[r] = s
      BY <1>2, <2>2, Onward
    <3>2. CASE a \in BagToSet(counter[s])
      <4>1. Explained(r, s, a.own)
        BY <1>1, <2>2, <3>1, <3>2 DEF ArrivalsExplained
      <4> QED
        BY <2>2, <4>1, StillExplained
    <3>3. CASE \E i \in DOMAIN wire[s] : a.own = wire[s][i].own /\ wire[s][i].seq >= SeqBase
      <4>1. Explained(r, s, a.own)
        BY <2>2, <3>1, <3>3, ComingExplained
      <4> QED
        BY <2>2, <4>1, StillExplained
    <3> QED
      BY <1>2, <3>2, <3>3, CounterStep
  <2> QED
    BY <2>1, <2>2
<1>3. ASSUME NEW r \in Runs, phase'[r] # "done" PROVE BagToSet(got'[r]) = {}
  <2>1. got'[r] = got[r] /\ phase[r] # "done"
    BY <1>3, GotStep
  <2> QED
    BY <1>1, <2>1 DEF ArrivalsExplained
<1>4. ASSUME NEW r \in Runs, NEW a \in BagToSet(got'[r])
      PROVE  \E s \in Sessions : ctr'[r] = s /\ Explained(r, s, a.own)'
  <2>1. CASE got'[r] = got[r] /\ (phase[r] = "done" => phase'[r] = "done" /\ ctr'[r] = ctr[r])
    <3>1. phase[r] = "done" /\ ctr'[r] = ctr[r]
      BY <1>1, <1>4, <2>1 DEF ArrivalsExplained
    <3>2. PICK s \in Sessions : ctr[r] = s /\ Explained(r, s, a.own)
      BY <1>1, <1>4, <2>1 DEF ArrivalsExplained
    <3>3. Explained(r, s, a.own)'
      BY <3>1, <3>2, StillExplained DEF Sent
    <3> QED
      BY <3>1, <3>2, <3>3
  <2>2. CASE /\ phase[r] = "wait" /\ got'[r] = counter[ctr[r]] /\ phase'[r] = "done"
             /\ ctr'[r] = ctr[r]
    <3>1. Measuring(r)
      BY <2>2 DEF Measuring
    <3>2. PICK s \in Sessions : ctr[r] = s
      BY <1>1, <3>1 DEF Started, Measuring, HasSlots
    <3>3. Explained(r, s, a.own)
      BY <1>1, <1>4, <2>2, <3>1, <3>2 DEF ArrivalsExplained
    <3>4. Explained(r, s, a.own)'
      BY <3>1, <3>3, StillExplained
    <3> QED
      BY <2>2, <3>2, <3>4
  <2> QED
    BY <2>1, <2>2, GotStep
<1> QED
  BY <1>2, <1>3, <1>4 DEF ArrivalsExplained

-----------------------------------------------------------------------------
(* The invariant. *)

\* The invariant holds at the start.
LEMMA InitIInv == Init => IInv
<1> SUFFICES ASSUME Init PROVE IInv
  OBVIOUS
<1>1. Shapes
  <2>1. NoRamp \in [step : Nat, left : Int]
    BY DEF NoRamp
  <2>2. <<>> \in Seq(WireFrames)
    OBVIOUS
  <2> QED
    BY <2>1, <2>2 DEF Init, Shapes, Phases
<1>2. \A r \in Runs : phase[r] = "idle" /\ ramp[r] = NoRamp /\ rivals[r] = {} /\ got[r] = EmptyBag
  BY DEF Init
<1>3. \A s \in Sessions : starts[s] = {} /\ wire[s] = <<>> /\ videoSeq[s] = 0 /\ sent[s] = 0
  BY DEF Init
<1>4. \A r \in Runs, s \in Sessions : ~OnWire(r, s) /\ ~Outstanding(r, s)
  BY <1>2, <1>3 DEF OnWire, Outstanding
<1>5. Started /\ RivalsKnown
  BY <1>2, <1>3, <1>4 DEF Started, RivalsKnown, Measuring, HasSlots
<1>6. VideoNumbered
  BY <1>3 DEF VideoNumbered
<1>7. ArrivalsExplained
  BY <1>2, NoArrivals DEF ArrivalsExplained, Measuring
<1> QED
  BY <1>1, <1>5, <1>6, <1>7 DEF IInv

\* The inductive invariant holds in every reachable state.
LEMMA Invariance == Spec => []IInv
<1>1. IInv /\ [Next]_vars => IInv'
  BY ShapesStep, StartedStep, RivalsStep, VideoStep, ArrivalsStep DEF IInv
<1> QED
  BY InitIInv, <1>1, PTL DEF Spec

\* What run_speedtest takes out of a counter is its own ramp's, a known rival's on the
\* same session, or video whose numbers reached the filler's range, for any number of
\* sessions and calls, any ramp and any sequence space the ramp's numbers fit in.
THEOREM ForeignExplained == Spec => []ForeignArrivalsExplained
<1>1. IInv => ForeignArrivalsExplained
  <2> SUFFICES ASSUME IInv, NEW r \in Runs, NEW a \in BagToSet(got[r])
               PROVE  \/ a.own = r /\ out[r] = ctr[r]
                      \/ a.own \in rivals[r] /\ out[a.own] = ctr[r]
                      \/ a.own = Video /\ sent[ctr[r]] > SeqBase
    BY DEF ForeignArrivalsExplained
  <2> QED
    BY DEF IInv, ArrivalsExplained, Explained
<1> QED
  BY Invariance, <1>1, PTL

-----------------------------------------------------------------------------
(* select_mode. *)

\* AvailableMode: u16 sizes and rates are numbers.
Cameras == [width : Nat, height : Nat, fps : Nat, caps : SUBSET {"Hevc", "H264", "RawNv12"}]
CaptureModes == [format : {"Raw", "Encoded"}, codec : {"None", "Hevc", "H264"}, width : Nat,
                 height : Nat, fps : Nat, bitrate : Int]

\* Products of sizes and rates.
LEMMA Products == ASSUME NEW a \in Nat, NEW b \in Nat PROVE a * b \in Nat
OBVIOUS

\* Bitrates are rounded down.
LEMMA Quotients == ASSUME NEW a \in Int, NEW b \in Nat, b > 0 PROVE a \div b \in Int
OBVIOUS

\* hevc_target_kbps of any mode is a number.
LEMMA TargetInt ==
    ASSUME NEW w \in Nat, NEW h \in Nat, NEW f \in Nat PROVE HevcTargetKbps(w, h, f) \in Int
<1>1. CASE <<w, h, f>> \in DOMAIN HevcTargets
  <2>1. \A r \in DOMAIN HevcTargets : HevcTargets[r] \in Int
    BY SMTT(30) DEF HevcTargets
  <2> QED
    BY <1>1, <2>1 DEF HevcTargetKbps
<1>2. CASE <<w, h, f>> \notin DOMAIN HevcTargets
  <2>1. w * h * f \in Int
    BY Products
  <2>2. (w * h * f) \div 2560 \in Int
    BY <2>1, Quotients
  <2> QED
    BY <1>2, <2>2 DEF HevcTargetKbps
<1> QED
  BY <1>1, <1>2

\* raw_bitrate_kbps of any mode is a number.
LEMMA RawInt ==
    ASSUME NEW w \in Nat, NEW h \in Nat, NEW f \in Nat PROVE RawBitrateKbps(w, h, f) \in Int
<1>1. w * h * 12 \in Nat
  BY Products
<1>2. ASSUME NEW n \in Nat PROVE n \div 1000 \in Nat /\ n % 1000 \in Nat
  BY <1>2
<1>3. ((w * h * 12) \div 1000) * f \in Nat /\ ((w * h * 12) % 1000) * f \in Nat
  BY <1>1, <1>2, Products
<1>4. (((w * h * 12) % 1000) * f) \div 1000 \in Nat
  BY <1>2, <1>3
<1> QED
  BY <1>3, <1>4 DEF RawBitrateKbps

\* What the two builders make of a camera's mode.
LEMMA Built ==
    ASSUME NEW m \in Cameras
    PROVE  /\ Raw(m) \in CaptureModes /\ Load(Raw(m)) \in Int
           /\ Encoded(m) \in CaptureModes /\ Load(Encoded(m)) \in Int
<1>1. /\ m.width \in Nat /\ m.height \in Nat /\ m.fps \in Nat
  BY DEF Cameras
<1>2. Raw(m) \in CaptureModes
  BY <1>1 DEF Raw, CaptureModes
<1>3. Load(Raw(m)) \in Int
  <2>1. Load(Raw(m)) = RawBitrateKbps(m.width, m.height, m.fps)
    BY DEF Load, Raw
  <2> QED
    BY <1>1, <2>1, RawInt
<1> DEFINE target == HevcTargetKbps(m.width, m.height, m.fps)
           rate == IF EncodedCodec(m.caps) = "H264" THEN (target * 8) \div 5 ELSE target
<1>4. target \in Int
  BY <1>1, TargetInt
<1>5. rate \in Int
  <2> HIDE DEF target
  <2>1. (target * 8) \div 5 \in Int
    BY <1>4, Quotients
  <2> QED
    BY <1>4, <2>1
<1>6. EncodedCodec(m.caps) \in {"None", "Hevc", "H264"}
  BY DEF EncodedCodec
<1>7. Encoded(m) = [format |-> "Encoded", codec |-> EncodedCodec(m.caps), width |-> m.width,
                    height |-> m.height, fps |-> m.fps, bitrate |-> rate]
  BY Zenon DEF Encoded
<1> HIDE DEF target, rate
<1>8. Encoded(m) \in CaptureModes
  BY <1>1, <1>5, <1>6, <1>7 DEF CaptureModes
<1>9. Load(Encoded(m)) \in Int
  BY <1>5, <1>7 DEF Load
<1> QED
  BY <1>2, <1>3, <1>8, <1>9

\* More goodput leaves every mode usable that was.
LEMMA UsableGrows ==
    ASSUME NEW g \in Nat, NEW h \in Nat, g <= h
    PROVE  Usable(g) \in Int /\ Usable(h) \in Int /\ Usable(g) <= Usable(h)
BY DEF Usable

\* More goodput leaves every candidate a candidate.
LEMMA CandidatesGrow ==
    ASSUME NEW caps \in SUBSET Cameras, NEW t \in Transports, NEW limits,
           NEW g \in Nat, NEW h \in Nat, g <= h
    PROVE  /\ Candidates(g, caps, t, limits) \subseteq Candidates(h, caps, t, limits)
           /\ Candidates(g, caps, t, limits) \subseteq CaptureModes
<1>1. ASSUME NEW m \in caps, Load(Raw(m)) <= Usable(g) PROVE Load(Raw(m)) <= Usable(h)
  BY <1>1, Built, UsableGrows
<1>2. ASSUME NEW m \in caps, Load(Encoded(m)) <= Usable(g) PROVE Load(Encoded(m)) <= Usable(h)
  BY <1>2, Built, UsableGrows
<1>3. Candidates(g, caps, t, limits) \subseteq Candidates(h, caps, t, limits)
  BY <1>1, <1>2, Zenon DEF Candidates
<1>4. \A m \in caps : Raw(m) \in CaptureModes /\ Encoded(m) \in CaptureModes
  BY Built
<1>5. Candidates(g, caps, t, limits) \subseteq CaptureModes
  BY <1>4, Zenon DEF Candidates
<1> QED
  BY <1>3, <1>5

\* The candidates are a list.
LEMMA CandidatesFinite ==
    ASSUME NEW caps, IsFiniteSet(caps), NEW t, NEW limits, NEW g
    PROVE  IsFiniteSet(Candidates(g, caps, t, limits))
<1> DEFINE D == {n \in caps : /\ Within(n, limits) /\ "RawNv12" \in n.caps
                              /\ Load(Raw(n)) <= Usable(g)
                              /\ Load(Raw(n)) <= RawCeilingKbps(t)}
           E == {n \in caps : /\ Within(n, limits) /\ EncodedCodec(n.caps) # "None"
                              /\ Load(Encoded(n)) <= Usable(g)}
<1>1. Candidates(g, caps, t, limits) = {Raw(m) : m \in D} \cup {Encoded(m) : m \in E}
  BY Zenon DEF Candidates
<1>2. D \in SUBSET caps /\ E \in SUBSET caps
  OBVIOUS
<1> HIDE DEF D, E
<1>3. IsFiniteSet(D) /\ IsFiniteSet(E)
  BY <1>2, FS_Subset
<1>4. IsFiniteSet({Raw(m) : m \in D})
  <2> DEFINE f == [m \in D |-> Raw(m)]
  <2>1. f \in Surjection(D, {Raw(m) : m \in D})
    BY DEF Surjection
  <2> QED
    BY <1>3, <2>1, FS_Surjection
<1>5. IsFiniteSet({Encoded(m) : m \in E})
  <2> DEFINE f == [m \in E |-> Encoded(m)]
  <2>1. f \in Surjection(E, {Encoded(m) : m \in E})
    BY DEF Surjection
  <2> QED
    BY <1>3, <2>1, FS_Surjection
<1> QED
  BY <1>1, <1>4, <1>5, FS_Union

\* The order of the key is strict.
LEMMA BelowStrict ==
    ASSUME NEW a \in CaptureModes, NEW b \in CaptureModes, NEW c \in CaptureModes
    PROVE  ~Below(a, a) /\ (Below(a, b) /\ Below(b, c) => Below(a, c))
<1>1. /\ a.width * a.height \in Int /\ b.width * b.height \in Int /\ c.width * c.height \in Int
      /\ a.fps \in Int /\ b.fps \in Int /\ c.fps \in Int
  BY Products DEF CaptureModes
<1>2. Weight(a) \in Int /\ Weight(b) \in Int /\ Weight(c) \in Int
  BY DEF Weight
<1>3. ASSUME NEW x1 \in Int, NEW x2 \in Int, NEW x3 \in Int, NEW y1 \in Int, NEW y2 \in Int,
             NEW y3 \in Int, NEW z1 \in Int, NEW z2 \in Int, NEW z3 \in Int
      PROVE  LET Lt(p1, p2, p3, q1, q2, q3) ==
                     p1 < q1 \/ (p1 = q1 /\ (p2 < q2 \/ (p2 = q2 /\ p3 < q3)))
             IN  /\ ~Lt(x1, x2, x3, x1, x2, x3)
                 /\ Lt(x1, x2, x3, y1, y2, y3) /\ Lt(y1, y2, y3, z1, z2, z3)
                      => Lt(x1, x2, x3, z1, z2, z3)
  BY <1>3
<1> QED
  BY <1>1, <1>2, <1>3 DEF Below

\* max_by_key on a list that is not empty returns one of its elements.
LEMMA BestExists ==
    ASSUME NEW c \in SUBSET CaptureModes, IsFiniteSet(c), c # {} PROVE Best(c) # {}
<1> DEFINE Above(m) == {n \in c : Below(m, n)}
           T == {Above(m) : m \in c}
           R == StrictSubsetOrdering(c)
<1>1. IsWellFoundedOn(R, FiniteSubsetsOf(c))
  BY FS_StrictSubsetOrderingWellFounded
<1>2. FiniteSubsetsOf(c) = SUBSET c
  BY FS_FiniteSubsetsOfFinite
<1>3. T \subseteq FiniteSubsetsOf(c) /\ T # {}
  <2>1. \A m \in c : Above(m) \in SUBSET c
    OBVIOUS
  <2>2. PICK m \in c : TRUE
    OBVIOUS
  <2>3. Above(m) \in T
    BY Zenon
  <2>4. T \subseteq SUBSET c
    BY <2>1, Zenon
  <2> QED
    BY <1>2, <2>3, <2>4, Zenon
<1>4. PICK x \in T : \A y \in T : ~(<<y, x>> \in R)
  <2> HIDE DEF T, R
  <2> QED
    BY <1>1, <1>3, WFMin
<1>5. PICK m \in c : x = Above(m)
  BY <1>4
<1>6. ASSUME NEW n \in c, Below(m, n) PROVE FALSE
  <2>1. Above(n) \in T
    OBVIOUS
  <2>2. Above(n) \subseteq Above(m) /\ n \in Above(m) /\ n \notin Above(n)
    BY <1>6, BelowStrict
  <2>3. <<Above(n), x>> \in R
    BY <1>5, <2>2 DEF StrictSubsetOrdering
  <2> QED
    BY <1>4, <2>1, <2>3
<1>7. m \in Best(c)
  BY <1>6 DEF Best
<1> QED
  BY <1>7

\* select_mode with more goodput, the same cameras, transport and limits, and no wish
\* for raw: never a worse mode, unless the first was the fallback.
THEOREM NeverWorse ==
    ASSUME NEW caps \in SUBSET Cameras, IsFiniteSet(caps), NEW t \in Transports,
           NEW limits, ~limits.preferRaw, NEW g \in Nat, NEW h \in Nat, g <= h,
           NEW a \in SelectMode(g, caps, t, limits), NEW b \in SelectMode(h, caps, t, limits),
           a # SafeFallback
    PROVE  ~Below(b, a)
<1> DEFINE C(k) == Candidates(k, caps, t, limits)
<1>1. \A k : Preferred(C(k), limits) = C(k)
  BY DEF Preferred
<1>2. a \in Best(C(g))
  BY <1>1, Zenon DEF SelectMode
<1>3. a \in C(g) /\ C(g) \subseteq C(h) /\ C(h) \in SUBSET CaptureModes
  BY <1>2, CandidatesGrow DEF Best
<1>4. Best(C(h)) # {}
  <2>1. IsFiniteSet(C(h))
    BY CandidatesFinite
  <2> HIDE DEF C
  <2> QED
    BY <1>3, <2>1, BestExists
<1>5. b \in Best(C(h))
  <2>1. SelectMode(h, caps, t, limits) = IF Best(C(h)) = {} THEN {SafeFallback} ELSE Best(C(h))
    <3>1. Preferred(Candidates(h, caps, t, limits), limits) = Candidates(h, caps, t, limits)
      BY <1>1
    <3> QED
      BY <3>1 DEF SelectMode
  <2> HIDE DEF C
  <2> QED
    BY <1>4, <2>1, Zenon
<1> QED
  BY <1>3, <1>5 DEF Best

\* The cameras run_speedtest chooses from: the mock's and the default list.
LEMMA KnownCameras == ASSUME NEW c \in CapsSets PROVE c \in SUBSET Cameras /\ IsFiniteSet(c)
<1> DEFINE A(z) == [width |-> z[1], height |-> z[2], fps |-> z[3],
                    caps |-> {"Hevc", "H264", "RawNv12"}]
<1>1. A(<<4032, 3024, 60>>) \in Cameras /\ A(<<3088, 2316, 60>>) \in Cameras
  BY DEF Cameras
<1>2. /\ A(<<1280, 720, 30>>) \in Cameras /\ A(<<1280, 720, 60>>) \in Cameras
      /\ A(<<1920, 1080, 30>>) \in Cameras /\ A(<<1920, 1080, 60>>) \in Cameras
  BY DEF Cameras
<1>3. ASSUME NEW x, NEW y PROVE IsFiniteSet({A(x), A(y)})
  <2>1. IsFiniteSet({A(x)} \cup {A(y)})
    BY FS_Singleton, FS_Union
  <2>2. {A(x), A(y)} = {A(x)} \cup {A(y)}
    OBVIOUS
  <2> QED
    BY <2>1, <2>2
<1> HIDE DEF A
<1>4. SyntheticCameras = {A(<<4032, 3024, 60>>), A(<<3088, 2316, 60>>)}
  BY DEF SyntheticCameras, Available, A
<1>5. DefaultIphoneCaps = {A(<<1280, 720, 30>>), A(<<1280, 720, 60>>)}
                          \cup {A(<<1920, 1080, 30>>), A(<<1920, 1080, 60>>)}
  BY DEF DefaultIphoneCaps, Available, A
<1>6. IsFiniteSet(SyntheticCameras) /\ IsFiniteSet(DefaultIphoneCaps)
  <2>1. IsFiniteSet(SyntheticCameras)
    BY <1>3, <1>4
  <2>2. /\ IsFiniteSet({A(<<1280, 720, 30>>), A(<<1280, 720, 60>>)})
        /\ IsFiniteSet({A(<<1920, 1080, 30>>), A(<<1920, 1080, 60>>)})
    BY <1>3
  <2>3. ASSUME NEW S, IsFiniteSet(S), NEW T, IsFiniteSet(T) PROVE IsFiniteSet(S \cup T)
    BY <2>3, FS_Union
  <2> QED
    BY <1>5, <2>1, <2>2, <2>3
<1> QED
  BY <1>1, <1>2, <1>4, <1>5, <1>6 DEF CapsSets

\* What arrives of a step when all of its frames do: all but less than one frame of it.
LEMMA StepArrives ==
    ASSUME NEW w \in Nat \ {0}, NEW h \in Nat \ {0}, NEW kbps \in Nat
    PROVE  /\ FramesPerStep(kbps, w, h) \in Nat
           /\ (FramesPerStep(kbps, w, h) + 1) * (w * h * 12) > kbps * DEFAULT_STEP_MS
<1> DEFINE b == w * h * 12
           T == kbps * DEFAULT_STEP_MS
           n == T \div b
<1>1. b \in Nat /\ b > 0 /\ T \in Nat
  BY DEF DEFAULT_STEP_MS
<1>2. FramesPerStep(kbps, w, h) = IF n = 0 THEN 1 ELSE n
  BY DEF FramesPerStep
<1> HIDE DEF b, T
<1>3. n \in Nat /\ (n + 1) * b > T
  BY <1>1
<1>4. CASE n # 0
  BY <1>1, <1>2, <1>3, <1>4 DEF b, T
<1>5. CASE n = 0
  <2>1. b > T
    BY <1>1, <1>3, <1>5
  <2> QED
    BY <1>1, <1>2, <1>5, <2>1 DEF b, T
<1> QED
  BY <1>4, <1>5

\* evaluate finds a step as good as one that arrived.
LEMMA EvaluateAtLeast ==
    ASSUME NEW bytes \in [DOMAIN DEFAULT_RAMP_KBPS -> Nat],
           MeasuredKbps(bytes[5]) * 100 >= Top * 85
    PROVE  Evaluate(DEFAULT_RAMP_KBPS, bytes) * 100 >= Top * 85
<1> DEFINE R == DEFAULT_RAMP_KBPS
           M(i) == MeasuredKbps(bytes[i])
           V(i) == IF M(i) < R[i] THEN M(i) ELSE R[i]
           fits == {i \in DOMAIN R : M(i) * 100 >= R[i] * 85}
           kept == {V(i) : i \in fits}
<1>1. /\ DOMAIN R = 1 .. 5 /\ R[1] = 50000 /\ R[2] = 100000 /\ R[3] = 200000 /\ R[4] = 400000
      /\ R[5] = 800000 /\ Top = 800000
  BY SMT DEF DEFAULT_RAMP_KBPS, Top
<1>2. \A i \in 1 .. 5 : M(i) \in Nat
  <2>1. \A i \in 1 .. 5 : bytes[i] \in Nat
    BY <1>1, SMT
  <2> QED
    BY <2>1, SMT DEF MeasuredKbps, DEFAULT_STEP_MS
<1>3. Evaluate(DEFAULT_RAMP_KBPS, bytes)
        = IF fits = {} THEN 0 ELSE CHOOSE k \in kept : \A l \in kept : l <= k
  BY SMT DEF Evaluate
<1>4. 5 \in fits
  BY <1>1, SMT
<1> HIDE DEF M
<1>5. V(5) \in kept /\ V(5) * 100 >= Top * 85 /\ \A i \in 1 .. 5 : V(i) \in Nat
  <2>1. V(5) \in kept
    BY <1>4, SMT
  <2>2. \A i \in 1 .. 5 : R[i] \in Nat
    BY <1>1, SMT
  <2>3. \A i \in 1 .. 5 : V(i) \in Nat
    BY <1>2, <2>2, SMT
  <2>4. M(5) * 100 >= Top * 85
    BY SMT DEF M
  <2> QED
    BY <1>1, <1>2, <2>1, <2>3, <2>4, SMT
<1>6. \A i \in fits : V(i) \in Nat /\ i \in 1 .. 5
  BY <1>1, <1>5, SMT
<1> HIDE DEF V
<1>7. \E k \in kept : \A l \in kept : l <= k
  <2>1. \E j \in fits : \A i \in fits : V(i) <= V(j)
    <3> HIDE DEF fits
    <3>1. ASSUME NEW n \in 0 .. 4, \E j \in fits : \A i \in fits : i > 5 - n - 1 => V(i) <= V(j)
          PROVE  \E j \in fits : \A i \in fits : i > 5 - n - 2 => V(i) <= V(j)
      <4>1. PICK j \in fits : \A i \in fits : i > 5 - n - 1 => V(i) <= V(j)
        BY <3>1, SMT
      <4>2. CASE 5 - n - 1 \in fits /\ V(5 - n - 1) > V(j)
        BY <1>6, <4>1, <4>2, SMT
      <4>3. CASE ~(5 - n - 1 \in fits /\ V(5 - n - 1) > V(j))
        BY <1>6, <4>1, <4>3, SMT
      <4> QED
        BY <4>2, <4>3, SMT
    <3>2. \E j \in fits : \A i \in fits : i > 4 => V(i) <= V(j)
      BY <1>4, <1>6, SMT
    <3>3. \E j \in fits : \A i \in fits : i > 3 => V(i) <= V(j)
      BY <3>1, <3>2, SMT
    <3>4. \E j \in fits : \A i \in fits : i > 2 => V(i) <= V(j)
      BY <3>1, <3>3, SMT
    <3>5. \E j \in fits : \A i \in fits : i > 1 => V(i) <= V(j)
      BY <3>1, <3>4, SMT
    <3>6. \E j \in fits : \A i \in fits : i > 0 => V(i) <= V(j)
      BY <3>1, <3>5, SMT
    <3> QED
      BY <1>6, <3>6, SMT
  <2> QED
    BY <2>1, SMT
<1>8. Evaluate(DEFAULT_RAMP_KBPS, bytes) \in kept /\ Evaluate(DEFAULT_RAMP_KBPS, bytes) >= V(5)
  <2> HIDE DEF kept, fits
  <2>1. fits # {}
    BY <1>4, SMT
  <2> DEFINE e == CHOOSE k \in kept : \A l \in kept : l <= k
  <2>2. e \in kept /\ \A l \in kept : l <= e
    BY <1>7, SMT
  <2> QED
    BY <1>3, <1>5, <2>1, <2>2, SMT
<1> QED
  BY <1>1, <1>5, <1>6, <1>8, SMT

\* A whole ramp of frames of any even width, six of which fit in the top step, is measured
\* at the top.
THEOREM RampSustained ==
    ASSUME NEW v \in Nat \ {0}, NEW h \in Nat \ {0}, SixFit(2 * v, h)
    PROVE  Evaluate(DEFAULT_RAMP_KBPS, RampBytes(2 * v, h)) * 100 >= Top * 85
<1> DEFINE w == 2 * v
           p == v * h
           F(i) == FramesPerStep(DEFAULT_RAMP_KBPS[i], w, h)
           B == FrameBytes(w, h)
<1>1. p \in Nat /\ p > 0 /\ w * h = 2 * p /\ w \in Nat \ {0}
  <2>1. ASSUME NEW x \in Nat \ {0}, NEW y \in Nat \ {0} PROVE x * y \in Nat /\ x * y > 0 /\ (2 * x) * y = 2 * (x * y)
    BY <2>1, SMT
  <2> QED
    BY <2>1, SMT
<1>2. B = 3 * p
  BY <1>1, SMT DEF FrameBytes
<1>3. Top = 800000 /\ DEFAULT_RAMP_KBPS[5] = 800000 /\ DOMAIN DEFAULT_RAMP_KBPS = 1 .. 5
      /\ \A i \in 1 .. 5 : DEFAULT_RAMP_KBPS[i] \in Nat
  BY SMT DEF Top, DEFAULT_RAMP_KBPS
<1>4. 144 * p <= 400000000
  BY <1>1, <1>3, SMT DEF SixFit, DEFAULT_STEP_MS
<1>5. \A i \in 1 .. 5 : F(i) \in Nat
  <2>1. ASSUME NEW i \in 1 .. 5 PROVE F(i) \in Nat
    <3>1. PICK k \in Nat : k = DEFAULT_RAMP_KBPS[i]
      BY <1>3, SMT
    <3>2. PICK x \in Nat \ {0} : x = w
      BY <1>1, SMT
    <3>3. FramesPerStep(k, x, h) \in Nat
      BY StepArrives
    <3> QED
      BY <3>1, <3>2, <3>3, SMT
  <2> QED
    BY <2>1
<1>6. (F(5) + 1) * (24 * p) > 400000000
  BY <1>1, <1>3, StepArrives, SMT DEF DEFAULT_STEP_MS
<1> HIDE DEF F, B, p, w
<1>7. F(5) * (24 * p) >= 340000000
  <2>1. PICK n \in Nat : n = F(5)
    BY <1>5, SMT
  <2>2. PICK b \in Nat : b = 24 * p
    BY <1>1, SMT
  <2>3. (n + 1) * b > 400000000 /\ 6 * b <= 400000000 /\ (n + 1) * b = n * b + b
    BY <1>4, <1>6, <1>1, <2>1, <2>2, SMT
  <2>4. n >= 6
    <3>1. ASSUME n <= 5 PROVE FALSE
      <4>1. (n + 1) * b <= 6 * b
        BY <3>1, SMT
      <4> QED
        BY <2>3, <4>1, SMT
    <3> QED
      BY <3>1, SMT
  <2>5. n * b >= 6 * b
    BY <2>4, SMT
  <2>6. n * b >= 340000000
    BY <2>3, <2>5, SMT
  <2> QED
    BY <2>1, <2>2, <2>6, SMT
<1>8. \A i \in 1 .. 5 : F(i) * B \in Nat
  BY <1>1, <1>2, <1>5, SMT
<1>9. RampBytes(w, h) = [i \in 1 .. 5 |-> F(i) * B]
  BY <1>3, SMT DEF RampBytes, F, B
<1>10. RampBytes(w, h) \in [DOMAIN DEFAULT_RAMP_KBPS -> Nat] /\ RampBytes(w, h)[5] = F(5) * B
  BY <1>3, <1>8, <1>9, SMT
<1>11. MeasuredKbps(F(5) * B) * 100 >= Top * 85
  <2>1. PICK x \in Nat : x = F(5) * B
    BY <1>8, SMT
  <2>2. x * 8 = F(5) * (24 * p)
    BY <1>1, <1>2, <1>5, <2>1, SMT
  <2>3. x * 8 >= 340000000
    BY <1>7, <2>2, SMT
  <2>4. (x * 8) \div 500 >= 680000
    BY <2>3, SMT
  <2> QED
    BY <1>3, <2>1, <2>4, SMT DEF MeasuredKbps, DEFAULT_STEP_MS
<1> QED
  BY <1>10, <1>11, EvaluateAtLeast, SMT DEF w

\* The sizes the run evaluates are a case of it.
THEOREM WholeRampIsSustained == WholeRampSustained
<1> SUFFICES ASSUME NEW z \in FrameSizes, SixFit(z[1], z[2])
             PROVE  Evaluate(DEFAULT_RAMP_KBPS, RampBytes(z[1], z[2])) * 100 >= Top * 85
  BY SMT DEF WholeRampSustained
<1>1. PICK k \in 1 .. 24 : z = <<160 * k, 90 * k>>
  BY SMT DEF FrameSizes
<1>2. PICK v \in Nat \ {0} : v = 80 * k
  BY SMT
<1>3. PICK h \in Nat \ {0} : h = 90 * k
  BY SMT
<1>4. z[1] = 2 * v /\ z[2] = h
  BY <1>1, <1>2, <1>3, SMT
<1>5. SixFit(2 * v, h)
  BY <1>4, SMT
<1>6. Evaluate(DEFAULT_RAMP_KBPS, RampBytes(2 * v, h)) * 100 >= Top * 85
  BY <1>5, RampSustained, SMT
<1> QED
  BY <1>4, <1>6, SMT

\* The choice run_speedtest makes between goodputs of the grid.
THEOREM MoreIsNotWorse == Spec => []MoreGoodputNeverWorse
<1>1. MoreGoodputNeverWorse
  <2> SUFFICES ASSUME NEW c \in CapsSets, NEW t \in Transports,
                      NEW l \in LimitSets, ~l.preferRaw,
                      NEW g \in Goodputs, g + 10000 \in Goodputs,
                      NEW a \in SelectMode(g, c, t, l), NEW b \in SelectMode(g + 10000, c, t, l),
                      a # SafeFallback
               PROVE  ~Below(b, a)
    BY DEF MoreGoodputNeverWorse
  <2>1. g \in Nat /\ g + 10000 \in Nat /\ g <= g + 10000
    BY DEF Goodputs
  <2> QED
    BY <2>1, KnownCameras, NeverWorse
<1> QED
  BY <1>1, PTL

-----------------------------------------------------------------------------
(* Live adaptation, for every set of initial modes and every saturation     *)
(* bound of the sample counter.  First the bitrate table and the ladder.    *)

\* A natural number multiplied by a bounded one.
LEMMA ProductBound ==
    ASSUME NEW x \in Nat, NEW y \in Nat, NEW p \in Nat, NEW q \in Nat, x <= p, y <= q
    PROVE  x * y \in Nat /\ x * y <= p * q
<1>1. x * y \in Nat /\ x * q \in Nat /\ p * q \in Nat
  OBVIOUS
<1>2. x * y <= x * q
  OBVIOUS
<1>3. x * q <= p * q
  OBVIOUS
<1> QED
  BY <1>1, <1>2, <1>3

\* hevc_target_kbps is a natural number, the table's or the fallback's.
LEMMA HevcNat ==
    ASSUME NEW w \in Sizes, NEW h \in Sizes, NEW f \in Rates
    PROVE  HevcTargetKbps(w, h, f) \in Nat /\ HevcTargetKbps(w, h, f) <= 402640896
<1> DEFINE a == w * h
           b == a * f
<1>1. w \in Nat /\ w <= 65535 /\ h \in Nat /\ h <= 65535 /\ f \in Nat /\ f <= 240
  BY DEF Sizes, Rates
<1>2. a \in Nat /\ a <= 4294836225
  <2>1. w * h \in Nat /\ w * h <= 65535 * 65535
    BY <1>1, ProductBound
  <2> QED
    BY <2>1
<1> HIDE DEF a
<1>3. b \in Nat /\ b <= 1030760694000
  <2>1. a * f \in Nat /\ a * f <= 4294836225 * 240
    BY <1>1, <1>2, ProductBound
  <2> QED
    BY <2>1
<1> HIDE DEF b
<1>4. b \div 2560 \in Nat /\ b \div 2560 <= 402640896
  BY <1>3
<1>5. (w * h * f) \div 2560 = b \div 2560
  BY DEF a, b
<1>6. CASE <<w, h, f>> \in DOMAIN HevcTargets
  BY <1>6 DEF HevcTargetKbps, HevcTargets
<1>7. CASE <<w, h, f>> \notin DOMAIN HevcTargets
  BY <1>4, <1>5, <1>7 DEF HevcTargetKbps
<1> QED
  BY <1>6, <1>7

\* encoded_target of a mode is a u32, and so is three times it: neither the
\* conversion nor the 25% cut of a bitrate up to the target overflows.
THEOREM TargetFits ==
    ASSUME NEW m \in Modes
    PROVE  EncodedTarget(m) \in Nat /\ 3 * EncodedTarget(m) < 4294967296
<1> DEFINE t == HevcTargetKbps(m.width, m.height, m.fps)
<1>1. t \in Nat /\ t <= 402640896
  BY HevcNat DEF Modes
<1>2. EncodedTarget(m) \in {t, (t * 8) \div 5}
  BY DEF EncodedTarget, H264TargetKbps
<1> HIDE DEF t
<1>3. (t * 8) \div 5 \in Nat /\ 3 * ((t * 8) \div 5) < 4294967296
  BY <1>1
<1> QED
  BY <1>1, <1>2, <1>3

\* Recomputing the bitrate of a mode puts it in range and changes nothing else.
LEMMA RetargetFacts ==
    ASSUME NEW m \in Modes
    PROVE  /\ Retarget(m) \in Modes
           /\ InRange(Retarget(m))
           /\ Retarget(m).format = m.format /\ Retarget(m).codec = m.codec
           /\ Retarget(m).width = m.width /\ Retarget(m).height = m.height
           /\ Retarget(m).fps = m.fps
<1>1. EncodedTarget(m) \in Nat
  BY TargetFits
<1> DEFINE n == [m EXCEPT !.bitrate = EncodedTarget(m)]
<1>2. /\ n \in Modes /\ n.bitrate = EncodedTarget(m)
      /\ n.format = m.format /\ n.codec = m.codec
      /\ n.width = m.width /\ n.height = m.height /\ n.fps = m.fps
  BY <1>1 DEF Modes
<1>3. EncodedTarget(n) = EncodedTarget(m)
  BY <1>2 DEF EncodedTarget
<1>4. CASE m.format = "Encoded"
  <2>1. Retarget(m) = n
    BY <1>4 DEF Retarget
  <2>2. InRange(n)
    BY <1>1, <1>2, <1>3 DEF InRange
  <2> HIDE DEF n
  <2> QED
    BY <1>2, <2>1, <2>2
<1>5. CASE m.format # "Encoded"
  BY <1>5 DEF Retarget, InRange
<1> QED
  BY <1>4, <1>5

\* A change of resolution goes along the table, in either direction.
LEMMA ChangeResFacts ==
    ASSUME NEW m \in Modes, NEW table \in {LowerRes, HigherRes}, NEW n \in ChangeRes(m, table)
    PROVE  /\ n \in Modes /\ InRange(n)
           /\ n.format = m.format /\ n.codec = m.codec /\ n.fps = m.fps
           /\ table = LowerRes => Area(n) < Area(m)
           /\ table = HigherRes => Area(n) > Area(m)
<1>1. PICK p \in table : /\ p[1] = <<m.width, m.height>>
                         /\ n = Retarget([m EXCEPT !.width = p[2][1], !.height = p[2][2]])
  BY DEF ChangeRes
<1> DEFINE k == [m EXCEPT !.width = p[2][1], !.height = p[2][2]]
<1>2. /\ p[2][1] \in Sizes /\ p[2][2] \in Sizes
      /\ p \in LowerRes => p[2][1] * p[2][2] < m.width * m.height
      /\ p \in HigherRes => p[2][1] * p[2][2] > m.width * m.height
  <2>1. /\ p \in LowerRes => \/ p = <<<<3840, 2160>>, <<1920, 1080>>>>
                             \/ p = <<<<1920, 1080>>, <<1280, 720>>>>
        /\ p \in HigherRes => \/ p = <<<<1920, 1080>>, <<3840, 2160>>>>
                              \/ p = <<<<1280, 720>>, <<1920, 1080>>>>
    BY DEF LowerRes, HigherRes
  <2>2. p[1][1] = m.width /\ p[1][2] = m.height
    BY <1>1
  <2>3. p \in LowerRes \/ p \in HigherRes
    OBVIOUS
  <2> DEFINE w1 == p[1][1]
             h1 == p[1][2]
             w2 == p[2][1]
             h2 == p[2][2]
  <2>4. /\ p \in LowerRes => \/ w1 = 3840 /\ h1 = 2160 /\ w2 = 1920 /\ h2 = 1080
                             \/ w1 = 1920 /\ h1 = 1080 /\ w2 = 1280 /\ h2 = 720
        /\ p \in HigherRes => \/ w1 = 1920 /\ h1 = 1080 /\ w2 = 3840 /\ h2 = 2160
                              \/ w1 = 1280 /\ h1 = 720 /\ w2 = 1920 /\ h2 = 1080
    BY <2>1
  <2> HIDE DEF w1, h1, w2, h2
  <2>5. w2 \in Sizes /\ h2 \in Sizes
    <3>1. w2 \in {1280, 1920, 3840} /\ h2 \in {720, 1080, 2160}
      BY <2>3, <2>4
    <3> QED
      BY <3>1 DEF Sizes
  <2>6. ASSUME p \in LowerRes PROVE w2 * h2 < w1 * h1
    <3>1. CASE w1 = 3840 /\ h1 = 2160 /\ w2 = 1920 /\ h2 = 1080
      BY <3>1
    <3>2. CASE w1 = 1920 /\ h1 = 1080 /\ w2 = 1280 /\ h2 = 720
      BY <3>2
    <3> QED
      BY <2>4, <2>6, <3>1, <3>2
  <2>7. ASSUME p \in HigherRes PROVE w2 * h2 > w1 * h1
    <3>1. CASE w1 = 1920 /\ h1 = 1080 /\ w2 = 3840 /\ h2 = 2160
      BY <3>1
    <3>2. CASE w1 = 1280 /\ h1 = 720 /\ w2 = 1920 /\ h2 = 1080
      BY <3>2
    <3> QED
      BY <2>4, <2>7, <3>1, <3>2
  <2> QED
    BY <2>2, <2>5, <2>6, <2>7 DEF w1, h1, w2, h2
<1>3. /\ k \in Modes /\ k.format = m.format /\ k.codec = m.codec /\ k.fps = m.fps
      /\ k.width = p[2][1] /\ k.height = p[2][2]
  BY <1>2 DEF Modes
<1>4. n = Retarget(k)
  BY <1>1
<1> HIDE DEF k
<1>5. /\ n \in Modes /\ InRange(n) /\ n.format = k.format /\ n.codec = k.codec
      /\ n.fps = k.fps /\ n.width = k.width /\ n.height = k.height
  BY <1>3, <1>4, RetargetFacts
<1> QED
  BY <1>1, <1>2, <1>3, <1>5 DEF Area

\* next_lower of a mode in range is a lower mode in range.
LEMMA NextLowerFacts ==
    ASSUME NEW m \in Modes, InRange(m), NEW n \in NextLower(m)
    PROVE  n \in Modes /\ InRange(n) /\ Descends(n, m)
<1>1. CASE m.fps > 30
  <2> DEFINE k == [m EXCEPT !.fps = 30]
  <2>1. /\ k \in Modes /\ k.format = m.format /\ k.fps = 30
        /\ k.width = m.width /\ k.height = m.height
    BY <1>1 DEF Modes, Rates
  <2>2. n = Retarget(k)
    BY <1>1 DEF NextLower
  <2> HIDE DEF k
  <2> QED
    BY <1>1, <2>1, <2>2, RetargetFacts DEF Descends
<1>2. CASE ~(m.fps > 30) /\ m.format = "Encoded" /\ m.bitrate > 1000
  <2>1. n = [m EXCEPT !.bitrate = (@ * 3) \div 4]
    BY <1>2 DEF NextLower
  <2>2. m.bitrate \in Nat
    BY DEF Modes
  <2>3. \A b \in Nat : b > 1000 => (b * 3) \div 4 \in Nat /\ (b * 3) \div 4 < b /\ (b * 3) \div 4 >= 750
    OBVIOUS
  <2>4. /\ n \in Modes /\ n.bitrate < m.bitrate /\ n.bitrate >= 750
        /\ n.format = m.format /\ n.codec = m.codec /\ n.fps = m.fps
        /\ n.width = m.width /\ n.height = m.height
    BY <1>2, <2>1, <2>2, <2>3 DEF Modes
  <2>5. EncodedTarget(n) = EncodedTarget(m) /\ EncodedTarget(m) \in Nat
    BY <2>4, TargetFits DEF EncodedTarget
  <2>6. InRange(n)
    BY <1>2, <2>2, <2>4, <2>5 DEF InRange, Modes
  <2> QED
    BY <2>4, <2>6 DEF Descends
<1>3. CASE ~(m.fps > 30) /\ m.format = "Raw"
  <2> DEFINE k == [m EXCEPT !.format = "Encoded", !.codec = "Hevc"]
  <2>1. /\ k \in Modes /\ k.format = "Encoded" /\ k.fps = m.fps
        /\ k.width = m.width /\ k.height = m.height
    BY DEF Modes
  <2>2. n = Retarget(k)
    BY <1>3 DEF NextLower
  <2> HIDE DEF k
  <2> QED
    BY <1>3, <2>1, <2>2, RetargetFacts DEF Descends
<1>4. CASE ~(m.fps > 30) /\ m.format # "Raw" /\ ~(m.format = "Encoded" /\ m.bitrate > 1000)
  <2>1. n \in ChangeRes(m, LowerRes)
    BY <1>4 DEF NextLower
  <2>2. n \in Modes /\ InRange(n) /\ n.fps = m.fps /\ Area(n) < Area(m)
    BY <2>1, ChangeResFacts
  <2>3. m.fps <= m.fps
    BY DEF Modes, Rates
  <2> QED
    BY <2>2, <2>3 DEF Descends
<1> QED
  BY <1>1, <1>2, <1>3, <1>4

\* next_higher of a mode is a higher mode in range, with the same codec.
LEMMA NextHigherFacts ==
    ASSUME NEW m \in Modes, NEW n \in NextHigher(m)
    PROVE  n \in Modes /\ InRange(n) /\ Ascends(n, m)
<1>1. CASE m.fps = 30
  <2> DEFINE k == [m EXCEPT !.fps = 60]
  <2>1. /\ k \in Modes /\ k.format = m.format /\ k.codec = m.codec /\ k.fps = 60
        /\ k.width = m.width /\ k.height = m.height
    BY DEF Modes, Rates
  <2>2. n = Retarget(k)
    BY <1>1 DEF NextHigher
  <2> HIDE DEF k
  <2> QED
    BY <1>1, <2>1, <2>2, RetargetFacts DEF Ascends
<1>2. CASE m.fps # 30
  <2>1. n \in ChangeRes(m, HigherRes)
    BY <1>2 DEF NextHigher
  <2> QED
    BY <2>1, ChangeResFacts DEF Ascends
<1> QED
  BY <1>1, <1>2

-----------------------------------------------------------------------------
(* The inductive invariant.                                                 *)

\* Drops missed in a cooldown are still above last_drop_count.
HistoryInv == missed => behind

LadderInv == LadderTypeOK /\ BitrateInRange /\ HistoryInv

\* The invariant holds at the start.
LEMMA InitLadderInv == LadderInit => LadderInv
<1> SUFFICES ASSUME LadderInit PROVE LadderInv
  OBVIOUS
<1>1. mode \in Modes /\ BitrateInRange
  BY InitialAssumption DEF LadderInit, BitrateInRange
<1>2. stable \in 0..MaxStable
  BY MaxStableAssumption DEF LadderInit
<1>3. since \in 0..STEPUP_COOLDOWN
  BY DEF LadderInit, STEPUP_COOLDOWN
<1>4. verdict \in [congested : BOOLEAN, action : {"None", "StepUp", "StepDown"}, nth : {0, 1}]
  BY DEF LadderInit
<1>5. baseKnown \in BOOLEAN /\ behind \in BOOLEAN /\ missed \in BOOLEAN /\ (missed => behind)
  BY DEF LadderInit
<1> QED
  BY <1>1, <1>2, <1>3, <1>4, <1>5 DEF LadderInv, LadderTypeOK, HistoryInv

\* Every action preserves the invariant.
LEMMA StepLadderInv == LadderInv /\ [LadderNext]_ladderVars => LadderInv'
<1> SUFFICES ASSUME LadderInv, [LadderNext]_ladderVars PROVE LadderInv'
  OBVIOUS
<1> USE DEF LadderInv, LadderTypeOK, HistoryInv, Return
<1>1. ASSUME Tick PROVE LadderInv'
  BY <1>1 DEF Tick, BitrateInRange, STEPUP_COOLDOWN
<1>2. ASSUME NEW s \in Samples, IgnoreCongestion(s) PROVE LadderInv'
  <2>1. (mode \in Modes)' /\ BitrateInRange'
    BY <1>2 DEF IgnoreCongestion, BitrateInRange
  <2>2. stable' \in 0..MaxStable /\ since' \in 0..STEPUP_COOLDOWN
    BY <1>2, MaxStableAssumption DEF IgnoreCongestion, STEPUP_COOLDOWN
  <2>3. verdict' \in [congested : BOOLEAN, action : {"None", "StepUp", "StepDown"}, nth : {0, 1}]
    BY <1>2 DEF IgnoreCongestion
  <2>4. baseKnown' \in BOOLEAN /\ behind' \in BOOLEAN /\ missed' \in BOOLEAN /\ (missed' => behind')
    BY <1>2 DEF IgnoreCongestion, UpdateBase, Samples
  <2> QED
    BY <2>1, <2>2, <2>3, <2>4
<1>3. ASSUME NEW s \in Samples, StepDown(s) PROVE LadderInv'
  <2>1. (mode \in Modes)' /\ BitrateInRange'
    BY <1>3, NextLowerFacts DEF StepDown, BitrateInRange
  <2>2. stable' \in 0..MaxStable /\ since' \in 0..STEPUP_COOLDOWN
    BY <1>3, MaxStableAssumption DEF StepDown, STEPUP_COOLDOWN
  <2>3. verdict' \in [congested : BOOLEAN, action : {"None", "StepUp", "StepDown"}, nth : {0, 1}]
    BY <1>3 DEF StepDown
  <2>4. baseKnown' \in BOOLEAN /\ behind' \in BOOLEAN /\ missed' \in BOOLEAN /\ (missed' => behind')
    BY <1>3 DEF StepDown, UpdateBase, Samples
  <2> QED
    BY <2>1, <2>2, <2>3, <2>4
<1>4. ASSUME NEW s \in Samples, AtBottom(s) PROVE LadderInv'
  <2>1. (mode \in Modes)' /\ BitrateInRange'
    BY <1>4 DEF AtBottom, BitrateInRange
  <2>2. stable' \in 0..MaxStable /\ since' \in 0..STEPUP_COOLDOWN
    BY <1>4, MaxStableAssumption DEF AtBottom, STEPUP_COOLDOWN
  <2>3. verdict' \in [congested : BOOLEAN, action : {"None", "StepUp", "StepDown"}, nth : {0, 1}]
    BY <1>4 DEF AtBottom
  <2>4. baseKnown' \in BOOLEAN /\ behind' \in BOOLEAN /\ missed' \in BOOLEAN /\ (missed' => behind')
    BY <1>4 DEF AtBottom, UpdateBase, Samples
  <2> QED
    BY <2>1, <2>2, <2>3, <2>4
<1>5. ASSUME NEW s \in Samples, Stable(s) PROVE LadderInv'
  <2>1. (mode \in Modes)' /\ BitrateInRange'
    BY <1>5 DEF Stable, BitrateInRange
  <2>2. stable' \in 0..MaxStable /\ since' \in 0..STEPUP_COOLDOWN
    BY <1>5, MaxStableAssumption DEF Stable, Saturate, STEPUP_COOLDOWN
  <2>3. verdict' \in [congested : BOOLEAN, action : {"None", "StepUp", "StepDown"}, nth : {0, 1}]
    BY <1>5 DEF Stable
  <2>4. baseKnown' \in BOOLEAN /\ behind' \in BOOLEAN /\ missed' \in BOOLEAN /\ (missed' => behind')
    BY <1>5 DEF Stable, UpdateBase, Samples
  <2> QED
    BY <2>1, <2>2, <2>3, <2>4
<1>6. ASSUME NEW s \in Samples, StepUp(s) PROVE LadderInv'
  <2>1. (mode \in Modes)' /\ BitrateInRange'
    BY <1>6, NextHigherFacts DEF StepUp, BitrateInRange
  <2>2. stable' \in 0..MaxStable /\ since' \in 0..STEPUP_COOLDOWN
    BY <1>6, MaxStableAssumption DEF StepUp, STEPUP_COOLDOWN
  <2>3. verdict' \in [congested : BOOLEAN, action : {"None", "StepUp", "StepDown"}, nth : {0, 1}]
    BY <1>6 DEF StepUp
  <2>4. baseKnown' \in BOOLEAN /\ behind' \in BOOLEAN /\ missed' \in BOOLEAN /\ (missed' => behind')
    BY <1>6 DEF StepUp, UpdateBase, Samples
  <2> QED
    BY <2>1, <2>2, <2>3, <2>4
<1>7. CASE UNCHANGED ladderVars
  BY <1>7 DEF ladderVars, stateVars, BitrateInRange
<1> QED
  BY <1>1, <1>2, <1>3, <1>4, <1>5, <1>6, <1>7 DEF LadderNext, Observe

\* The inductive invariant holds in every reachable state.
THEOREM LadderInvariance == LadderSpec => []LadderInv
BY InitLadderInv, StepLadderInv, PTL DEF LadderSpec

\* Every variable keeps its type.
THEOREM LadderTypeCorrect == LadderSpec => []LadderTypeOK
<1>1. LadderInv => LadderTypeOK
  BY DEF LadderInv
<1> QED
  BY LadderInvariance, <1>1, PTL

\* The bitrate of an encoded mode stays between the floor and the table's target.
THEOREM BitrateStaysInRange == LadderSpec => []BitrateInRange
<1>1. LadderInv => BitrateInRange
  BY DEF LadderInv
<1> QED
  BY LadderInvariance, <1>1, PTL

-----------------------------------------------------------------------------
(* Action properties.                                                       *)

\* Every step down descends and every step up ascends, so that only a step up
\* can undo a step down.
THEOREM LadderMonotone == LadderSpec => LadderIsMonotone
<1> DEFINE A == \/ mode' = mode
                \/ verdict'.action = "StepDown" /\ Descends(mode', mode)
                \/ verdict'.action = "StepUp" /\ Ascends(mode', mode)
<1>1. ASSUME LadderInv, [LadderNext]_ladderVars PROVE [A]_ladderVars
  <2>1. ASSUME NEW s \in Samples, StepDown(s) PROVE A
    BY <1>1, <2>1, NextLowerFacts DEF StepDown, Return, LadderInv, LadderTypeOK, BitrateInRange
  <2>2. ASSUME NEW s \in Samples, StepUp(s) PROVE A
    BY <1>1, <2>2, NextHigherFacts DEF StepUp, Return, LadderInv, LadderTypeOK
  <2>3. ASSUME NEW s \in Samples, IgnoreCongestion(s) \/ AtBottom(s) \/ Stable(s) PROVE A
    BY <2>3 DEF IgnoreCongestion, AtBottom, Stable
  <2>4. ASSUME Tick PROVE A
    BY <2>4 DEF Tick
  <2> QED
    BY <1>1, <2>1, <2>2, <2>3, <2>4 DEF LadderNext, Observe
<1> QED
  BY LadderInvariance, <1>1, PTL DEF LadderSpec, LadderIsMonotone

\* Drops reported during a cooldown are answered at the first sample after it.
THEOREM NoDropForgotten == LadderSpec => DropsAnswered
<1> DEFINE A == missed /\ ~missed' => \/ verdict'.action = "StepDown"
                                      \/ NextLower(mode) = {} /\ verdict'.congested
<1>1. ASSUME LadderInv, [LadderNext]_ladderVars PROVE [A]_ladderVars
  <2>1. ASSUME NEW s \in Samples, Stable(s) \/ StepUp(s) PROVE A
    BY <1>1, <2>1 DEF Stable, StepUp, IsCongested, LadderInv, HistoryInv
  <2>2. ASSUME NEW s \in Samples, StepDown(s) PROVE A
    BY <2>2 DEF StepDown, Return
  <2>3. ASSUME NEW s \in Samples, AtBottom(s) PROVE A
    BY <2>3 DEF AtBottom, Return
  <2>4. ASSUME NEW s \in Samples, IgnoreCongestion(s) PROVE A
    BY <2>4 DEF IgnoreCongestion
  <2>5. ASSUME Tick PROVE A
    BY <2>5 DEF Tick
  <2> QED
    BY <1>1, <2>1, <2>2, <2>3, <2>4, <2>5 DEF LadderNext, Observe
<1> QED
  BY LadderInvariance, <1>1, PTL DEF LadderSpec, DropsAnswered
=============================================================================
