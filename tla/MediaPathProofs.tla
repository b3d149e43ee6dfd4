-------------------------- MODULE MediaPathProofs ---------------------------
(***************************************************************************)
(* Proofs about MediaPath, for any headers, sizes, room and numbers of     *)
(* frames.                                                                 *)
(***************************************************************************)
EXTENDS MediaPath, SequenceTheorems, FiniteSetTheorems, TLAPS

\* Frames are numbered in the order of their first units.
Numbered == \A i \in 1 .. Len(sent) : sent[i].n = i /\ sent[i].own \in Writers

\* Who holds the lock runs, and writes the next frame or the last one begun.
Writing == lock # Free /\ put > 0
Holding ==
    lock # Free =>
        /\ Running(lock) /\ cur.own = lock /\ put < Parts(cur)
        /\ IF put = 0 THEN cur.n = Len(sent) + 1 ELSE sent # <<>> /\ cur = sent[Len(sent)]

\* A write is cut short by the end of the session.
TornOnce == torn = TRUE => live = FALSE /\ video = "over"

\* The stream, when p units of the t-th frame are all there is of it (t = 0: of none).
\* Units of a frame that go out, and those that are out.
Ends(t, p, f) == IF f.n = t THEN p ELSE Parts(f)
Avail(t, p, f) == IF Writing /\ f.n = Len(sent) THEN put ELSE Ends(t, p, f)
\* The m-th frame's unit j comes next to f's unit k.
Follows(t, p, f, k, m, j) ==
    IF k = Ends(t, p, f) THEN m = f.n + 1 /\ j = 1 ELSE m = f.n /\ j = k + 1
InStream(t, p, u) ==
    /\ u.f.n \in 1 .. Len(sent) /\ u.f = sent[u.f.n]
    /\ u.part >= 1 /\ u.part <= Avail(t, p, u.f)

\* The unit to be written next, and the one to be read next.
OutN == IF Writing THEN Len(sent) ELSE Len(sent) + 1
OutK == IF Writing THEN put + 1 ELSE 1
NextN == IF wire # <<>> THEN wire[1].f.n ELSE OutN
NextK == IF wire # <<>> THEN wire[1].part ELSE OutK

TornAt(t, p) ==
    IF torn = TRUE
    THEN /\ t \in 1 .. Len(sent) /\ p >= 1 /\ p < Parts(sent[t])
         /\ Writing => t < Len(sent)
    ELSE t = 0

\* The connection holds consecutive units, up to the last one written.
Chained(t, p) ==
    /\ \A i \in 1 .. Len(wire) : InStream(t, p, wire[i])
    /\ \A i \in 1 .. Len(wire) - 1 :
           Follows(t, p, wire[i].f, wire[i].part, wire[i + 1].f.n, wire[i + 1].part)
    /\ wire # <<>> => Follows(t, p, wire[Len(wire)].f, wire[Len(wire)].part, OutN, OutK)

\* The frame the pipeline is at, and whether it is one before the tear, or the torn one.
Reached(t) ==
    IF at = "payload" THEN (IF hdr.n = 0 THEN t ELSE hdr.n)
    ELSE IF buf # <<>> THEN buf[1].f.n ELSE NextN
Before(t, n) == t = 0 \/ n <= t

\* read_exact of a header holds consecutive units; before the tear, those of a header.
AtHeader(t, p) ==
    /\ Len(buf) <= 2
    /\ at = "encode" => buf = <<>>
    /\ \A i \in 1 .. Len(buf) : InStream(t, p, buf[i])
    /\ Len(buf) = 2 => Follows(t, p, buf[1].f, buf[1].part, buf[2].f.n, buf[2].part)
    /\ buf # <<>> => Follows(t, p, buf[Len(buf)].f, buf[Len(buf)].part, NextN, NextK)
    /\ Before(t, Reached(t)) => IF buf = <<>> THEN NextK = 1 ELSE buf[1].part = 1

\* read_exact of a payload holds its first units, or has run past the tear.
Clean(t, p) ==
    /\ \A i \in 1 .. Len(buf) : buf[i] = [f |-> hdr, part |-> i + 2]
    /\ Len(buf) + 2 <= Avail(t, p, hdr)
    /\ Follows(t, p, hdr, Len(buf) + 2, NextN, NextK)
Past(t) == torn = TRUE /\ hdr.n \in {0, t} /\ NextN > t
AtPayload(t, p) ==
    /\ Len(buf) <= hdr.head.len
    /\ hdr.n # 0 => hdr.n \in 1 .. Len(sent) /\ hdr = sent[hdr.n]
    /\ (hdr.n # 0 /\ Clean(t, p)) \/ Past(t)

\* What was handed on so far: every frame before the one reached, as long as the tear is
\* still to come; in any case nothing whole from there on.
HandedOn(t) ==
    /\ Before(t, Reached(t)) =>
           /\ Reached(t) = Len(handed) + 1
           /\ \A i \in 1 .. Len(handed) : handed[i].whole = TRUE /\ handed[i].f = sent[i]
    /\ \A i \in 1 .. Len(handed) : handed[i].whole = TRUE => handed[i].f.n < Reached(t)

Stream(t, p) ==
    /\ TornAt(t, p) /\ Chained(t, p) /\ HandedOn(t)
    /\ IF at = "payload" THEN AtPayload(t, p) ELSE AtHeader(t, p)
Streaming == at # "ended" => \E t, p \in Nat : Stream(t, p)

\* FramesAsWritten, with the one mixed frame counted by hand.
Delivered ==
    /\ torn = FALSE => \A i \in 1 .. Len(handed) :
           i <= Len(sent) /\ handed[i].whole = TRUE /\ handed[i].f = sent[i]
    /\ Increasing(handed)
    /\ \A i, j \in 1 .. Len(handed) :
           handed[i].whole = FALSE /\ handed[j].whole = FALSE => i = j

\* The inductive invariant.
IInv == TypeOK /\ Numbered /\ Holding /\ TornOnce /\ Streaming /\ Delivered /\ ExitsForAReason
-----------------------------------------------------------------------------
(* Sequences. *)

\* The elements of a sequence with one more, and of one without its head.
LEMMA Appended ==
    ASSUME NEW S, NEW q \in Seq(S), NEW e \in S
    PROVE  /\ Append(q, e) \in Seq(S) /\ Len(Append(q, e)) = Len(q) + 1
           /\ \A i \in 1 .. Len(q) : Append(q, e)[i] = q[i]
           /\ Append(q, e)[Len(q) + 1] = e
           /\ Append(q, e) # <<>>
OBVIOUS

\* A read from the front moves the rest up.
LEMMA Shifted ==
    ASSUME NEW S, NEW q \in Seq(S), q # <<>>
    PROVE  /\ Tail(q) \in Seq(S) /\ Len(Tail(q)) = Len(q) - 1
           /\ \A i \in 1 .. Len(q) - 1 : Tail(q)[i] = q[i + 1]
           /\ Head(q) = q[1] /\ q[1] \in S /\ Len(q) \in Nat /\ Len(q) >= 1
OBVIOUS

\* A sequence is empty when its length is 0.
LEMMA Emptiness ==
    ASSUME NEW S, NEW q \in Seq(S)
    PROVE  Len(q) \in Nat /\ (q = <<>> <=> Len(q) = 0) /\ \A i \in 1 .. Len(q) : q[i] \in S
OBVIOUS

-----------------------------------------------------------------------------
(* Types. *)

\* Headers and frames the writers make have their types.
LEMMA Heading == FillerHead \in Header /\ Heads \subseteq Header /\ NoFrame \in Frame
BY SizesAssumption DEF FillerHead, Header, VideoType, Raw, NoFrame, Frame, Free

\* Halves of two frames give a header.
LEMMA Mixing == ASSUME NEW h \in Header PROVE Mixtures(h) \subseteq Header
BY SizesAssumption DEF Mixtures, Header

\* What MediaHeader::decode makes is a frame, or the error; it is the frame of both halves,
\* or was never sent.
LEMMA Decoding ==
    ASSUME NEW u \in Unit, NEW v \in Unit, NEW f \in Decode(u, v)
    PROVE  f \in Frame /\ (v # [f |-> u.f, part |-> 2] /\ f # NoFrame => f.n = 0)
<1>1. u.f \in Frame /\ u.f.head \in Header /\ u.f.own \in Writers \cup {Free}
  BY DEF Unit, Frame
<1>2. CASE f = NoFrame
  BY <1>2, Heading
<1>3. CASE f = u.f /\ v = [f |-> u.f, part |-> 2]
  BY <1>1, <1>3
<1>4. CASE \E h \in Mixtures(u.f.head) : f = [own |-> u.f.own, n |-> 0, head |-> h]
  <2>1. PICK h \in Mixtures(u.f.head) : f = [own |-> u.f.own, n |-> 0, head |-> h]
    BY <1>4
  <2>2. h \in Header
    BY <1>1, Mixing
  <2> QED
    BY <1>1, <2>1, <2>2 DEF Frame
<1> QED
  BY <1>2, <1>3, <1>4 DEF Decode

\* Every step keeps the types.
LEMMA TypeStep == ASSUME TypeOK, [Next]_vars PROVE TypeOK'
<1> USE DEF TypeOK
<1>1. CASE StartRamp
  BY <1>1 DEF StartRamp, reader
<1>2. CASE RampOver
  BY <1>2 DEF RampOver, reader
<1>3. CASE EndSession
  BY <1>3, Zenon DEF EndSession, reader
<1>4. CASE AbandonSession
  BY <1>4 DEF AbandonSession, reader
<1>5. CASE ReadFails
  BY <1>5 DEF ReadFails, phone
<1>6. CASE Tick
  BY <1>6 DEF Tick, phone, reader
<1>7. ASSUME NEW w \in Writers, Lock(w) PROVE TypeOK'
  <2>1. PICK h \in HeadsOf(w) : cur' = [own |-> w, n |-> Len(sent) + 1, head |-> h]
    BY <1>7 DEF Lock
  <2>2. h \in Header
    BY Heading DEF HeadsOf
  <2>3. cur' \in Frame
    BY <2>1, <2>2 DEF Frame
  <2> QED
    BY <1>7, <2>3 DEF Lock, reader
<1>8. ASSUME NEW w \in Writers, Write(w) PROVE TypeOK'
  <2>1. [f |-> cur, part |-> put + 1] \in Unit
    BY DEF Unit
  <2>2. wire' \in Seq(Unit) /\ Len(wire') <= Room
    BY <1>8, <2>1, Appended, SizesAssumption DEF Write
  <2>3. sent' \in Seq(Frame)
    BY <1>8 DEF Write
  <2> QED
    BY <1>8, <2>2, <2>3 DEF Write, reader
<1>9. ASSUME NEW w \in Writers, WriteFails(w) PROVE TypeOK'
  BY <1>9 DEF WriteFails, reader
<1>10. CASE Receive
  <2>1. buf' \in Seq(Unit) /\ wire' \in Seq(Unit) /\ Len(wire') <= Room
    BY <1>10, SizesAssumption DEF Receive
  <2> QED
    BY <1>10, <2>1 DEF Receive, phone
<1>11. CASE ReadHeader
  <2>1. buf[1] \in Unit /\ buf[2] \in Unit
    <3>1. buf \in Seq(Unit) /\ 1 \in 1 .. Len(buf) /\ 2 \in 1 .. Len(buf)
      BY <1>11 DEF ReadHeader
    <3> QED
      BY <3>1, Emptiness
  <2>2. PICK f \in Decode(buf[1], buf[2]) :
            IF f = NoFrame \/ f.head.len > MaxFrame
            THEN at' = "ended" /\ UNCHANGED hdr
            ELSE at' = "payload" /\ hdr' = f
    BY <1>11 DEF ReadHeader
  <2>3. f \in Frame
    BY <2>1, Decoding
  <2>4. hdr' \in Frame /\ at' \in {"header", "payload", "encode", "ended"}
    BY <2>2, <2>3
  <2> QED
    BY <1>11, <2>4 DEF ReadHeader, phone
<1>12. CASE ReadPayload
  <2> DEFINE item == [f |-> hdr, whole |-> Whole(hdr, buf), to |-> WayOf(hdr.head)]
  <2>1. Whole(hdr, buf) \in BOOLEAN
    BY DEF Whole
  <2>2. WayOf(hdr.head) \in {"sinks", "counter", "none"}
    BY DEF WayOf
  <2>3. item \in Item
    BY <2>1, <2>2, Zenon DEF Item
  <2>4. handed' = Append(handed, item)
    BY <1>12 DEF ReadPayload
  <2>5. handed' \in Seq(Item)
    <3> HIDE DEF item
    <3> QED
      BY <2>3, <2>4, Appended
  <2>6. at' \in {"header", "encode"} /\ due' \in BOOLEAN /\ buf' = <<>>
    BY <1>12 DEF ReadPayload, Submit
  <2> QED
    BY <1>12, <2>5, <2>6 DEF ReadPayload, phone
<1>13. CASE Encoded
  BY <1>13 DEF Encoded, phone
<1>14. CASE EndOfStream
  BY <1>14 DEF EndOfStream, phone
<1>15. CASE UNCHANGED vars
  BY <1>15 DEF vars, phone, reader
<1> QED
  BY <1>1, <1>2, <1>3, <1>4, <1>5, <1>6, <1>7, <1>8, <1>9, <1>10, <1>11, <1>12, <1>13,
     <1>14, <1>15 DEF Next, Pipeline, Phone

-----------------------------------------------------------------------------
(* The phone. *)

\* Frames are numbered as they are begun.
LEMMA NumberedStep == ASSUME TypeOK, Numbered, Holding, [Next]_vars PROVE Numbered'
<1>1. ASSUME UNCHANGED sent PROVE Numbered'
  BY <1>1 DEF Numbered
<1>2. ASSUME NEW w \in Writers, Write(w) PROVE Numbered'
  <2>1. CASE put = 0
    <3>1. sent' = Append(sent, cur) /\ cur.n = Len(sent) + 1 /\ cur.own = w
      BY <1>2, <2>1 DEF Write, Holding, Writers, Free
    <3>2. sent \in Seq(Frame) /\ cur \in Frame
      BY DEF TypeOK
    <3> QED
      BY <3>1, <3>2, Appended DEF Numbered
  <2>2. CASE put # 0
    BY <1>1, <1>2, <2>2 DEF Write
  <2> QED
    BY <2>1, <2>2
<1> QED
  BY <1>1, <1>2
  DEF Next, Pipeline, Phone, StartRamp, RampOver, EndSession, AbandonSession, ReadFails, Tick,
      Lock, WriteFails, Receive, ReadHeader, ReadPayload, Encoded, EndOfStream, vars, phone

\* The lock's holder runs until it lets go.
LEMMA HoldingStep == ASSUME TypeOK, Holding, [Next]_vars PROVE Holding'
<1> USE DEF Writers, Free
<1>1. CASE UNCHANGED phone
  BY <1>1 DEF Holding, phone, Running, Parts
<1>2. CASE StartRamp
  BY <1>2 DEF StartRamp, Holding, Running, Parts
<1>3. CASE RampOver
  BY <1>3 DEF RampOver, Holding, Running, Parts, TypeOK
<1>4. CASE EndSession
  BY <1>4 DEF EndSession, Holding, Running, Parts, TypeOK
<1>5. CASE AbandonSession
  BY <1>5 DEF AbandonSession, Holding, Running, Parts
<1>6. ASSUME NEW w \in Writers, Lock(w) PROVE Holding'
  <2>1. PICK h \in HeadsOf(w) : cur' = [own |-> w, n |-> Len(sent) + 1, head |-> h]
    BY <1>6 DEF Lock
  <2>2. h \in Header
    BY Heading DEF HeadsOf
  <2> QED
    BY <1>6, <2>1, <2>2 DEF Lock, Holding, Running, Parts, Header
<1>7. ASSUME NEW w \in Writers, Write(w) PROVE Holding'
  <2>1. cur \in Frame /\ cur.head.len \in Nat /\ sent \in Seq(Frame) /\ put \in Nat
    BY DEF TypeOK, Frame, Header
  <2>2. sent' # <<>> /\ cur' = sent'[Len(sent')]
    <3>1. CASE put = 0
      <4>1. sent' = Append(sent, cur) /\ cur' = cur
        BY <1>7, <3>1 DEF Write
      <4> QED
        BY <2>1, <4>1, Appended
    <3>2. CASE put # 0
      BY <1>7, <3>2 DEF Write, Holding
    <3> QED
      BY <3>1, <3>2
  <2> QED
    BY <1>7, <2>1, <2>2 DEF Write, Holding, Running, Parts
<1>8. ASSUME NEW w \in Writers, WriteFails(w) PROVE Holding'
  BY <1>8 DEF WriteFails, Holding
<1> QED
  BY <1>1, <1>2, <1>3, <1>4, <1>5, <1>6, <1>7, <1>8
  DEF Next, Pipeline, Phone, ReadFails, Tick, Receive, ReadHeader, ReadPayload, Encoded,
      EndOfStream, vars, phone

\* After a write was cut short the session is over, and its generator.
LEMMA TornOnceStep == ASSUME TypeOK, TornOnce, [Next]_vars PROVE TornOnce'
<1>1. ASSUME UNCHANGED <<live, video, torn>> PROVE TornOnce'
  BY <1>1 DEF TornOnce
<1>2. CASE EndSession
  BY <1>2 DEF EndSession, TornOnce
<1>3. CASE AbandonSession
  BY <1>3 DEF AbandonSession, TornOnce
<1>4. ASSUME NEW w \in Writers, WriteFails(w) PROVE TornOnce'
  BY <1>4 DEF WriteFails, TornOnce
<1> QED
  BY <1>1, <1>2, <1>3, <1>4
  DEF Next, Pipeline, Phone, StartRamp, RampOver, ReadFails, Tick, Lock, Write, Receive,
      ReadHeader, ReadPayload, Encoded, EndOfStream, vars, phone
-----------------------------------------------------------------------------
(* The stream. *)

\* Facts about the numbers in a state.
LEMMA Numbers ==
    ASSUME TypeOK
    PROVE  /\ sent \in Seq(Frame) /\ wire \in Seq(Unit) /\ buf \in Seq(Unit)
           /\ Len(sent) \in Nat /\ Len(wire) \in Nat /\ Len(buf) \in Nat /\ put \in Nat
           /\ handed \in Seq(Item) /\ Len(handed) \in Nat
           /\ hdr \in Frame /\ hdr.n \in Nat /\ Parts(hdr) \in Nat /\ Parts(hdr) >= 2
           /\ Parts(hdr) = hdr.head.len + 2 /\ hdr.head.len \in Nat
           /\ cur \in Frame /\ cur.n \in Nat /\ Parts(cur) \in Nat /\ Parts(cur) >= 2
           /\ OutN \in Nat /\ OutK \in Nat /\ NextN \in Nat /\ NextK \in Nat
<1>1. /\ sent \in Seq(Frame) /\ wire \in Seq(Unit) /\ buf \in Seq(Unit) /\ handed \in Seq(Item)
      /\ hdr \in Frame /\ cur \in Frame /\ put \in Nat
  BY DEF TypeOK
<1>2. \A f \in Frame : /\ f.n \in Nat /\ f.head.len \in Nat /\ Parts(f) \in Nat
                       /\ Parts(f) = f.head.len + 2 /\ Parts(f) >= 2
  BY DEF Frame, Header, Parts
<1>3. OutN \in Nat /\ OutK \in Nat
  BY <1>1 DEF OutN, OutK
<1>4. NextN \in Nat /\ NextK \in Nat
  <2>1. CASE wire = <<>>
    BY <1>3, <2>1 DEF NextN, NextK
  <2>2. CASE wire # <<>>
    <3>1. wire[1] \in Unit
      BY <1>1, <2>2, Shifted
    <3>2. wire[1].f.n \in Nat /\ wire[1].part \in Nat
      BY <3>1 DEF Unit, Frame
    <3> QED
      BY <2>2, <3>2 DEF NextN, NextK
  <2> QED
    BY <2>1, <2>2
<1> QED
  BY <1>1, <1>2, <1>3, <1>4, Emptiness

\* Every unit has its numbers.
LEMMA Units ==
    ASSUME NEW u \in Unit
    PROVE  /\ u.f \in Frame /\ u.f.n \in Nat /\ u.part \in Nat
           /\ Parts(u.f) \in Nat /\ Parts(u.f) >= 2 /\ Parts(u.f) = u.f.head.len + 2
BY DEF Unit, Frame, Header, Parts

\* A step that leaves the stream and the reader alone leaves their relation alone.
LEMMA Keeps ==
    ASSUME TypeOK, NEW t \in Nat, NEW p \in Nat, Stream(t, p),
           UNCHANGED <<sent, torn, wire, buf, hdr, handed>>,
           Writing' <=> Writing, Writing => put' = put,
           at' = at \/ (at = "encode" /\ at' = "header")
    PROVE  Stream(t, p)'
<1>1. OutN' = OutN /\ OutK' = OutK
  BY Zenon DEF OutN, OutK
<1>2. NextN' = NextN /\ NextK' = NextK
  BY <1>1 DEF NextN, NextK
<1>3. \A f : Avail(t, p, f)' = Avail(t, p, f)
  BY DEF Avail, Ends
<1>4. \A u : InStream(t, p, u)' <=> InStream(t, p, u)
  BY <1>3 DEF InStream
<1>5. Reached(t)' = Reached(t)
  BY <1>2 DEF Reached
<1>6. TornAt(t, p)'
  BY DEF Stream, TornAt
<1>7. Chained(t, p)'
  BY <1>1, <1>4 DEF Stream, Chained
<1>8. HandedOn(t)'
  BY <1>5 DEF Stream, HandedOn
<1>9. CASE at = "payload"
  <2>1. AtPayload(t, p)
    BY <1>9 DEF Stream
  <2>2. Clean(t, p) => Clean(t, p)'
    BY <1>2, <1>3 DEF Clean
  <2>3. Past(t) => Past(t)'
    BY <1>2 DEF Past
  <2>4. AtPayload(t, p)'
    BY <2>1, <2>2, <2>3 DEF AtPayload
  <2> QED
    BY <1>6, <1>7, <1>8, <1>9, <2>4 DEF Stream
<1>10. CASE at # "payload"
  <2>1. AtHeader(t, p)
    BY <1>10 DEF Stream
  <2>2. AtHeader(t, p)'
    BY <1>2, <1>4, <1>5, <2>1 DEF AtHeader
  <2>3. at' # "payload"
    BY <1>10
  <2> QED
    BY <1>6, <1>7, <1>8, <2>2, <2>3 DEF Stream
<1> QED
  BY <1>9, <1>10

\* write_media_frame puts the next unit behind the others.
LEMMA WriteStream ==
    ASSUME TypeOK, TypeOK', Numbered, Numbered', Holding, Holding', TornOnce,
           NEW w \in Writers, Write(w), NEW t \in Nat, NEW p \in Nat, Stream(t, p)
    PROVE  Stream(t, p)'
<1>3. PICK u \in Unit : u = [f |-> cur, part |-> put + 1]
  <2>1. cur \in Frame /\ put + 1 \in Nat
    BY Numbers
  <2>2. [f |-> cur, part |-> put + 1] \in Unit
    BY <2>1 DEF Unit
  <2> QED
    BY <2>2, Zenon
<1>1. /\ lock = w /\ w # Free /\ wire' = Append(wire, u) /\ put' = put + 1
      /\ UNCHANGED <<cur, torn, at, buf, hdr, handed>>
      /\ sent' = IF put = 0 THEN Append(sent, cur) ELSE sent
      /\ lock' = IF put + 1 = Parts(cur) THEN Free ELSE w
  BY <1>3 DEF Write, reader, Writers, Free
<1>2. /\ put < Parts(cur) /\ put \in Nat /\ cur \in Frame /\ cur.n \in Nat /\ Parts(cur) \in Nat
      /\ Parts(cur) >= 2 /\ sent \in Seq(Frame) /\ wire \in Seq(Unit) /\ Len(sent) \in Nat
      /\ Len(wire) \in Nat
  BY <1>1, Numbers DEF Holding
<1>4. /\ wire' \in Seq(Unit) /\ Len(wire') = Len(wire) + 1 /\ wire' # <<>>
      /\ \A i \in 1 .. Len(wire) : wire'[i] = wire[i]
      /\ wire'[Len(wire) + 1] = u
  BY <1>1, <1>2, Appended
<1>5. /\ Len(sent') \in Nat /\ Len(sent') >= Len(sent) /\ cur = sent'[Len(sent')]
      /\ \A i \in 1 .. Len(sent) : sent'[i] = sent[i]
      /\ cur.n = Len(sent') /\ Len(sent') >= 1
  <2>1. CASE put = 0
    <3>1. sent' = Append(sent, cur) /\ cur.n = Len(sent) + 1
      BY <1>1, <2>1 DEF Holding
    <3> QED
      BY <1>2, <3>1, Appended
  <2>2. CASE put # 0
    <3>1. sent' = sent /\ sent # <<>> /\ cur = sent[Len(sent)]
      BY <1>1, <2>2 DEF Holding
    <3>2. Len(sent) >= 1
      BY <1>2, <3>1, Shifted
    <3> QED
      BY <1>2, <3>1, <3>2 DEF Numbered
  <2> QED
    BY <2>1, <2>2
\* The unit is the one that was to come.
<1>6. OutN = cur.n /\ OutK = put + 1
  <2>1. CASE put = 0
    BY <1>1, <2>1 DEF OutN, OutK, Writing, Holding
  <2>2. CASE put # 0
    BY <1>1, <1>2, <1>5, <2>2 DEF OutN, OutK, Writing
  <2> QED
    BY <2>1, <2>2
\* It is not of the torn frame.
<1>7. cur.n # t /\ TornAt(t, p)'
  <2>1. TornAt(t, p)
    BY DEF Stream
  <2>2. CASE torn = TRUE
    <3>1. /\ t \in 1 .. Len(sent) /\ p >= 1 /\ p < Parts(sent[t]) /\ (Writing => t < Len(sent))
      BY <2>1, <2>2 DEF TornAt
    <3>2. t < Len(sent')
      <4>1. CASE put = 0
        <5>1. Len(sent') = Len(sent) + 1
          BY <1>1, <1>2, <4>1, Appended
        <5> QED
          BY <1>2, <3>1, <5>1
      <4>2. CASE put # 0
        BY <1>1, <1>2, <3>1, <4>2 DEF Writing
      <4> QED
        BY <4>1, <4>2
    <3> QED
      BY <1>1, <1>2, <1>5, <2>2, <3>1, <3>2 DEF TornAt
  <2>3. CASE torn # TRUE
    <3>1. t = 0 /\ torn' # TRUE /\ cur.n >= 1
      BY <1>1, <1>5, <2>1, <2>3 DEF TornAt
    <3>2. TornAt(t, p)'
      BY <3>1, Zenon DEF TornAt
    <3> QED
      BY <1>2, <3>1, <3>2
  <2> QED
    BY <2>2, <2>3
<1>8. Ends(t, p, cur) = Parts(cur)
  BY <1>7 DEF Ends
<1>9. Follows(t, p, cur, put + 1, OutN', OutK')
  <2>1. CASE put + 1 = Parts(cur)
    BY <1>1, <1>5, <1>8, <2>1 DEF Follows, OutN, OutK, Writing
  <2>2. CASE put + 1 # Parts(cur)
    <3>1. Writing'
      BY <1>1, <1>2, <2>2 DEF Writing
    <3>2. OutN' = cur.n /\ OutK' = put + 2
      BY <1>1, <1>2, <1>5, <3>1 DEF OutN, OutK
    <3> QED
      BY <1>2, <1>8, <2>2, <3>2 DEF Follows
  <2> QED
    BY <2>1, <2>2
\* The reader sees no difference.
<1>10. NextN' = NextN /\ NextK' = NextK
  <2>1. NextN' = wire'[1].f.n /\ NextK' = wire'[1].part
    BY <1>4 DEF NextN, NextK
  <2>2. CASE wire = <<>>
    <3>1. wire'[1] = u
      BY <1>2, <1>4, <2>2
    <3> QED
      BY <1>3, <1>6, <2>1, <2>2, <3>1 DEF NextN, NextK
  <2>3. CASE wire # <<>>
    <3>1. wire'[1] = wire[1]
      BY <1>2, <1>4, <2>3, Shifted
    <3> QED
      BY <2>1, <2>3, <3>1 DEF NextN, NextK
  <2> QED
    BY <2>2, <2>3
<1>11. ASSUME NEW f \in Frame, f.n \in 1 .. Len(sent), f = sent[f.n], NEW k \in Nat,
              k <= Avail(t, p, f)
       PROVE  k <= Avail(t, p, f)'
  <2>1. f.n \in Nat /\ Parts(f) \in Nat /\ Parts(f) >= 2
    BY DEF Frame, Header, Parts
  <2>2. CASE f.n = Len(sent')
    <3>1. put # 0 /\ Len(sent') = Len(sent)
      <4>1. CASE put = 0
        <5>1. Len(sent') = Len(sent) + 1
          BY <1>1, <1>2, <4>1, Appended
        <5> QED
          BY <1>2, <1>11, <2>2, <5>1
      <4>2. CASE put # 0
        BY <1>1, <4>2
      <4> QED
        BY <4>1, <4>2
    <3>2. f = cur
      BY <1>5, <1>11, <2>2, <3>1
    <3>3. Writing /\ k <= put
      BY <1>1, <1>2, <1>11, <2>2, <3>1 DEF Writing, Avail
    <3>4. Avail(t, p, f)' \in {put + 1, Parts(cur)}
      BY <1>1, <1>8, <3>2 DEF Avail, Ends
    <3> QED
      BY <1>2, <3>3, <3>4
  <2>3. CASE f.n # Len(sent')
    <3>1. Avail(t, p, f)' = Ends(t, p, f)
      BY <2>3 DEF Avail, Ends
    <3>2. CASE Writing /\ f.n = Len(sent)
      <4>1. sent' = sent
        BY <1>1, <3>2 DEF Writing
      <4> QED
        BY <2>3, <3>2, <4>1
    <3>3. CASE ~(Writing /\ f.n = Len(sent))
      BY <1>11, <3>1, <3>3 DEF Avail
    <3> QED
      BY <3>2, <3>3
  <2> QED
    BY <2>2, <2>3
<1>12. ASSUME NEW v \in Unit, InStream(t, p, v) PROVE InStream(t, p, v)'
  <2>1. v.f.n \in 1 .. Len(sent) /\ v.f = sent[v.f.n] /\ v.part >= 1 /\ v.part <= Avail(t, p, v.f)
    BY <1>12 DEF InStream
  <2>2. v.f \in Frame /\ v.part \in Nat
    BY Units
  <2>3. v.part <= Avail(t, p, v.f)'
    BY <1>11, <2>1, <2>2
  <2> QED
    BY <1>2, <1>5, <2>1, <2>3 DEF InStream
<1>13. InStream(t, p, u)'
  <2>1. u.f = cur /\ u.part = put + 1
    BY <1>3
  <2>2. u.part <= Avail(t, p, u.f)'
    <3>1. CASE Writing'
      BY <1>1, <1>2, <1>5, <2>1, <3>1 DEF Avail
    <3>2. CASE ~Writing'
      BY <1>2, <1>8, <2>1, <3>2 DEF Avail, Ends
    <3> QED
      BY <3>1, <3>2
  <2> QED
    BY <1>2, <1>5, <2>1, <2>2 DEF InStream
<1>14. Chained(t, p)'
  <2>1. Chained(t, p)
    BY DEF Stream
  <2>2. ASSUME NEW i \in 1 .. Len(wire') PROVE InStream(t, p, wire[i])'
    <3>1. CASE i \in 1 .. Len(wire)
      <4>1. PICK v \in Unit : v = wire[i]
        BY <1>2, <3>1, Emptiness
      <4>2. InStream(t, p, v) /\ v = wire'[i]
        BY <1>4, <2>1, <3>1, <4>1 DEF Chained
      <4>3. InStream(t, p, v)'
        BY <1>12, <4>2
      <4> QED
        BY <4>2, <4>3 DEF InStream, Avail, Ends
    <3>2. CASE i = Len(wire) + 1
      BY <1>4, <1>13, <3>2 DEF InStream, Avail, Ends
    <3> QED
      BY <1>2, <1>4, <3>1, <3>2
  <2>3. ASSUME NEW i \in 1 .. Len(wire') - 1
        PROVE  Follows(t, p, wire'[i].f, wire'[i].part, wire'[i + 1].f.n, wire'[i + 1].part)
    <3>1. CASE i \in 1 .. Len(wire) - 1
      <4>1. wire'[i] = wire[i] /\ wire'[i + 1] = wire[i + 1]
        BY <1>2, <1>4, <3>1
      <4> QED
        BY <2>1, <3>1, <4>1 DEF Chained
    <3>2. CASE i = Len(wire)
      <4>1. wire # <<>> /\ wire'[i] = wire[Len(wire)] /\ wire'[i + 1] = u
        BY <1>2, <1>4, <3>2, Emptiness
      <4> QED
        BY <1>3, <1>6, <2>1, <4>1 DEF Chained
    <3> QED
      BY <1>2, <1>4, <3>1, <3>2
  <2>4. wire'[Len(wire')] = u
    BY <1>2, <1>4
  <2>5. Follows(t, p, wire'[Len(wire')].f, wire'[Len(wire')].part, OutN', OutK')
    BY <1>3, <1>9, <2>4
  <2> QED
    BY <2>2, <2>3, <2>5 DEF Chained, Follows, Ends
<1>15. Reached(t)' = Reached(t)
  BY <1>1, <1>10 DEF Reached
<1>16. HandedOn(t)'
  <2>1. HandedOn(t) /\ TornAt(t, p)
    BY DEF Stream
  <2>2. Len(handed) <= Len(sent) \/ ~Before(t, Reached(t))
    <3>1. ASSUME Before(t, Reached(t)) PROVE Len(handed) <= Len(sent)
      <4>1. Reached(t) = Len(handed) + 1 /\ Len(handed) \in Nat
        BY <2>1, <3>1, Numbers DEF HandedOn
      <4>2. CASE at = "payload"
        <5>1. AtPayload(t, p)
          BY <4>2 DEF Stream
        <5>2. Reached(t) <= Len(sent)
          BY <1>2, <2>1, <4>2, <5>1 DEF AtPayload, Reached, Past, TornAt
        <5> QED
          BY <1>2, <4>1, <5>2
      <4>3. CASE at # "payload" /\ buf # <<>>
        <5>1. AtHeader(t, p) /\ buf \in Seq(Unit)
          BY <4>3, Numbers DEF Stream
        <5>2. InStream(t, p, buf[1])
          BY <4>3, <5>1, Emptiness DEF AtHeader
        <5> QED
          BY <1>2, <4>1, <4>3, <5>2 DEF InStream, Reached
      <4>4. CASE at # "payload" /\ buf = <<>>
        <5>1. NextN <= Len(sent) + 1
          <6>1. CASE wire = <<>>
            BY <1>2, <6>1 DEF NextN, OutN
          <6>2. CASE wire # <<>>
            <7>1. InStream(t, p, wire[1])
              BY <1>2, <6>2, Emptiness DEF Stream, Chained
            <7> QED
              BY <1>2, <6>2, <7>1 DEF NextN, InStream
          <6> QED
            BY <6>1, <6>2
        <5> QED
          BY <1>2, <4>1, <4>4, <5>1, Numbers DEF Reached
      <4> QED
        BY <4>2, <4>3, <4>4
    <3> QED
      BY <3>1
  <2> QED
    BY <1>1, <1>2, <1>5, <1>15, <2>1, <2>2, Numbers DEF HandedOn
<1>17. CASE at = "payload"
  <2>1. AtPayload(t, p) /\ hdr \in Frame /\ hdr.n \in Nat /\ Len(buf) \in Nat
    BY <1>17, Numbers DEF Stream
  <2>2. hdr.n # 0 => hdr.n \in 1 .. Len(sent') /\ hdr = sent'[hdr.n]
    BY <1>2, <1>5, <2>1 DEF AtPayload
  <2>3. hdr.n # 0 /\ Clean(t, p) => Clean(t, p)'
    <3> SUFFICES ASSUME hdr.n # 0, Clean(t, p) PROVE Clean(t, p)'
      OBVIOUS
    <3>1. hdr.n \in 1 .. Len(sent) /\ hdr = sent[hdr.n]
      BY <2>1 DEF AtPayload
    <3>2. PICK h \in Frame : h = hdr
      BY <2>1
    <3>3. Len(buf) + 2 <= Avail(t, p, h)'
      BY <1>11, <2>1, <3>1, <3>2 DEF Clean
    <3>4. Len(buf') + 2 <= Avail(t, p, hdr)'
      BY <1>1, <3>2, <3>3 DEF Avail, Ends
    <3> QED
      BY <1>1, <1>10, <3>4 DEF Clean, Follows, Ends
  <2>4. Past(t) => Past(t)'
    BY <1>1, <1>10 DEF Past
  <2>5. AtPayload(t, p)'
    BY <1>1, <2>1, <2>2, <2>3, <2>4 DEF AtPayload
  <2> QED
    BY <1>1, <1>7, <1>14, <1>16, <1>17, <2>5 DEF Stream
<1>18. CASE at # "payload"
  <2>1. AtHeader(t, p) /\ buf \in Seq(Unit)
    BY <1>18, Numbers DEF Stream
  <2>2. ASSUME NEW i \in 1 .. Len(buf') PROVE InStream(t, p, buf[i])'
    <3>1. PICK v \in Unit : v = buf[i] /\ v = buf'[i]
      BY <1>1, <2>1, Emptiness
    <3>2. InStream(t, p, v)'
      BY <1>1, <1>12, <2>1, <3>1 DEF AtHeader
    <3> QED
      BY <3>1, <3>2 DEF InStream, Avail, Ends
  <2>3. AtHeader(t, p)'
    BY <1>1, <1>10, <1>15, <2>1, <2>2 DEF AtHeader, Follows, Ends, Before
  <2> QED
    BY <1>1, <1>7, <1>14, <1>16, <1>18, <2>3 DEF Stream
<1> QED
  BY <1>17, <1>18
\* The next unit is of the same frame or of the one behind it.
LEMMA Onwards ==
    ASSUME NEW t \in Nat, NEW p \in Nat, NEW f \in Frame, NEW k \in Nat, NEW m \in Nat,
           NEW j \in Nat, Follows(t, p, f, k, m, j)
    PROVE  m >= f.n /\ (m > f.n => m = f.n + 1 /\ j = 1 /\ k = Ends(t, p, f))
BY DEF Follows, Frame

\* The end of the session leaves the frame that was being written by the generator torn;
\* what was to follow in it never comes.
LEMMA EndStream ==
    ASSUME TypeOK, TypeOK', Numbered, Holding, TornOnce, EndSession,
           NEW t \in Nat, NEW p \in Nat, Stream(t, p)
    PROVE  \E n, q \in Nat : Stream(n, q)'
<1>1. /\ torn = FALSE /\ UNCHANGED <<cur, put, sent, wire, at, buf, hdr, handed>>
      /\ torn' = (lock = "video" /\ put > 0)
      /\ lock' = IF lock = "video" THEN Free ELSE lock
  BY Zenon DEF EndSession, TornOnce, TypeOK, reader
<1>2. t = 0
  BY <1>1 DEF Stream, TornAt
<1>3. CASE ~(lock = "video" /\ put > 0)
  <2>1. torn' = torn /\ (Writing' <=> Writing)
    BY <1>1, <1>3 DEF Writing, Free
  <2>2. Stream(t, p)'
    BY <1>1, <2>1, Keeps
  <2> QED
    BY <2>2
<1>4. CASE lock = "video" /\ put > 0
  <2>1. PICK n \in Nat, q \in Nat : n = Len(sent) /\ q = put
    BY Numbers
  <2>2. /\ Writing /\ ~Writing' /\ torn' = TRUE /\ q >= 1 /\ n >= 1
        /\ cur = sent[n] /\ cur.n = n /\ q < Parts(sent[n])
    <3>1. Writing /\ ~Writing' /\ torn' = TRUE /\ q >= 1
      <4>1. torn' = TRUE
        BY <1>1, <1>4, Zenon
      <4>2. q >= 1
        BY <1>4, <2>1
      <4> QED
        BY <1>1, <1>4, <4>1, <4>2 DEF Writing, Free
    <3>2. sent # <<>> /\ cur = sent[n] /\ q < Parts(sent[n])
      BY <1>4, <2>1 DEF Holding, Free
    <3>3. n >= 1
      BY <2>1, <3>2, Numbers, Emptiness
    <3> QED
      BY <2>1, <3>1, <3>2, <3>3 DEF Numbered
  <2>3. OutN = n /\ OutK = q + 1 /\ OutN' = n + 1 /\ OutK' = 1
    BY <1>1, <2>1, <2>2 DEF OutN, OutK
  \* As many units of each frame are out as before.
  <2>4. ASSUME NEW f \in Frame, f.n >= 1
        PROVE  /\ Avail(n, q, f)' = Avail(t, p, f)
               /\ f.n # n => Ends(n, q, f) = Ends(t, p, f)
               /\ f.n = n => Avail(t, p, f) = q /\ Ends(n, q, f) = q
               /\ Ends(t, p, f) = Parts(f)
    BY <1>2, <2>1, <2>2, <2>4 DEF Avail, Ends
  <2>5. ASSUME NEW v \in Unit, InStream(t, p, v) PROVE InStream(n, q, v)'
    <3>1. v.f \in Frame /\ v.f.n >= 1
      BY <2>5, Units DEF InStream
    <3> QED
      BY <1>1, <2>4, <2>5, <3>1 DEF InStream
  \* And they follow each other as before.
  <2>6. ASSUME NEW f \in Frame, f.n \in 1 .. n, f = sent[f.n], NEW k \in Nat,
               k <= Avail(t, p, f), NEW v \in Unit, InStream(t, p, v),
               Follows(t, p, f, k, v.f.n, v.part)
        PROVE  Follows(n, q, f, k, v.f.n, v.part)
    <3>1. v.f.n \in Nat /\ v.part \in Nat /\ v.f \in Frame /\ v.f.n >= 1 /\ v.f.n <= n /\ f.n \in Nat
      BY <2>1, <2>6, Units DEF InStream
    <3>2. CASE f.n # n
      BY <2>4, <2>6, <3>1, <3>2 DEF Follows
    <3>3. CASE f.n = n
      <4>1. Ends(t, p, f) = Parts(f) /\ k <= q /\ q < Parts(f) /\ Ends(n, q, f) = q
        BY <2>2, <2>4, <2>6, <3>1, <3>3
      <4>2. Parts(f) \in Nat
        BY DEF Parts, Frame, Header
      <4>3. v.f.n = n /\ v.part = k + 1
        BY <2>1, <2>6, <3>3, <4>1, <4>2 DEF Follows
      <4>4. v.part <= q
        BY <2>4, <2>6, <3>1, <4>3 DEF InStream
      <4> QED
        BY <2>1, <3>3, <4>1, <4>3, <4>4 DEF Follows
    <3> QED
      BY <3>2, <3>3
  <2>7. ASSUME NEW f \in Frame, f.n \in 1 .. n, f = sent[f.n], NEW k \in Nat,
               k <= Avail(t, p, f), Follows(t, p, f, k, OutN, OutK)
        PROVE  Follows(n, q, f, k, OutN', OutK')
    <3>1. Ends(t, p, f) = Parts(f) /\ f.n \in Nat /\ Parts(f) \in Nat
      BY <2>1, <2>4, <2>7 DEF Parts, Frame, Header
    <3>2. f.n = n /\ k = q
      BY <2>1, <2>2, <2>3, <2>7, <3>1 DEF Follows
    <3> QED
      BY <2>3, <2>4, <2>7, <3>2 DEF Follows
  <2>8. Chained(t, p) /\ wire \in Seq(Unit) /\ Len(wire) \in Nat
    BY Numbers DEF Stream
  <2>9. wire # <<>> => /\ wire[1] \in Unit /\ InStream(t, p, wire[1])
                       /\ NextN = wire[1].f.n /\ NextK = wire[1].part
                       /\ NextN' = wire[1].f.n /\ NextK' = wire[1].part
    BY <1>1, <2>8, Shifted DEF Chained, NextN, NextK
  <2>10. wire = <<>> => /\ NextN = n /\ NextK = q + 1 /\ NextN' = n + 1 /\ NextK' = 1
    BY <1>1, <2>3 DEF NextN, NextK
  <2>11. ASSUME NEW f \in Frame, f.n \in 1 .. n, f = sent[f.n], NEW k \in Nat,
                k <= Avail(t, p, f), Follows(t, p, f, k, NextN, NextK)
         PROVE  Follows(n, q, f, k, NextN', NextK')
    <3>1. CASE wire = <<>>
      BY <2>3, <2>7, <2>10, <2>11, <3>1
    <3>2. CASE wire # <<>>
      BY <2>6, <2>9, <2>11, <3>2
    <3> QED
      BY <3>1, <3>2
  <2>12. ASSUME NEW v \in Unit, InStream(t, p, v)
         PROVE  v.f \in Frame /\ v.f.n \in 1 .. n /\ v.f = sent[v.f.n] /\ v.part \in Nat
                /\ v.part <= Avail(t, p, v.f)
    BY <2>1, <2>12, Units DEF InStream
  <2>13. Chained(n, q)'
    <3>1. ASSUME NEW i \in 1 .. Len(wire') PROVE InStream(n, q, wire[i])'
      <4>1. PICK v \in Unit : v = wire[i] /\ v = wire'[i]
        BY <1>1, <2>8, Emptiness
      <4>2. InStream(n, q, v)'
        BY <1>1, <2>5, <2>8, <4>1 DEF Chained
      <4> QED
        BY <4>1, <4>2 DEF InStream, Avail, Ends
    <3>2. ASSUME NEW i \in 1 .. Len(wire) - 1
          PROVE  Follows(n, q, wire[i].f, wire[i].part, wire[i + 1].f.n, wire[i + 1].part)
      <4>1. i \in 1 .. Len(wire) /\ i + 1 \in 1 .. Len(wire)
        BY <2>8
      <4>2. /\ wire[i] \in Unit /\ wire[i + 1] \in Unit
            /\ InStream(t, p, wire[i]) /\ InStream(t, p, wire[i + 1])
            /\ Follows(t, p, wire[i].f, wire[i].part, wire[i + 1].f.n, wire[i + 1].part)
        BY <2>8, <4>1, Emptiness DEF Chained
      <4> QED
        BY <2>6, <2>12, <4>2
    <3>3. ASSUME wire # <<>>
          PROVE  Follows(n, q, wire[Len(wire)].f, wire[Len(wire)].part, OutN', OutK')
      <4>1. Len(wire) \in 1 .. Len(wire)
        BY <2>8, <3>3, Emptiness
      <4>2. /\ wire[Len(wire)] \in Unit /\ InStream(t, p, wire[Len(wire)])
            /\ Follows(t, p, wire[Len(wire)].f, wire[Len(wire)].part, OutN, OutK)
        BY <2>8, <3>3, <4>1, Emptiness DEF Chained
      <4> QED
        BY <2>7, <2>12, <4>2
    <3> QED
      BY <1>1, <3>1, <3>2, <3>3 DEF Chained, Follows, Ends
  <2>14. TornAt(n, q)'
    BY <1>1, <2>1, <2>2 DEF TornAt
  <2>15. CASE at = "payload"
    <3>1. AtPayload(t, p) /\ ~Past(t) /\ Len(buf) \in Nat /\ hdr \in Frame
      BY <1>1, <2>15, Numbers DEF Stream, Past
    <3>2. hdr.n # 0 /\ Clean(t, p) /\ hdr.n \in 1 .. n /\ hdr = sent[hdr.n]
      BY <2>1, <3>1 DEF AtPayload
    <3>3. PICK h \in Frame : h = hdr /\ h = hdr'
      BY <1>1, <3>1
    <3>4. Follows(n, q, h, Len(buf) + 2, NextN', NextK')
      BY <2>11, <3>1, <3>2, <3>3 DEF Clean
    <3>5. Len(buf) + 2 <= Avail(n, q, h)'
      BY <2>4, <3>1, <3>2, <3>3 DEF Clean
    <3>6. Clean(n, q)'
      BY <1>1, <3>2, <3>3, <3>4, <3>5 DEF Clean, Follows, Ends, Avail
    <3>7. AtPayload(n, q)'
      BY <1>1, <2>1, <3>1, <3>2, <3>6 DEF AtPayload
    <3>8. Reached(n)' = Reached(t)
      BY <1>1, <2>15, <3>2 DEF Reached
    <3>9. HandedOn(n)'
      BY <1>1, <1>2, <3>8 DEF Stream, HandedOn, Before
    <3>10. Stream(n, q)'
      BY <1>1, <2>13, <2>14, <2>15, <3>7, <3>9 DEF Stream
    <3> QED
      BY <3>10
  <2>16. CASE at # "payload"
    <3>1. AtHeader(t, p) /\ Len(buf) \in Nat /\ buf \in Seq(Unit)
      BY <2>16, Numbers DEF Stream
    <3>2. ASSUME NEW i \in 1 .. Len(buf') PROVE InStream(n, q, buf[i])'
      <4>1. PICK v \in Unit : v = buf[i] /\ v = buf'[i]
        BY <1>1, <3>1, Emptiness
      <4>2. InStream(n, q, v)'
        BY <1>1, <2>5, <3>1, <4>1 DEF AtHeader
      <4> QED
        BY <4>1, <4>2 DEF InStream, Avail, Ends
    <3>3. ASSUME Len(buf) = 2
          PROVE  Follows(n, q, buf[1].f, buf[1].part, buf[2].f.n, buf[2].part)
      <4>1. 1 \in 1 .. Len(buf) /\ 2 \in 1 .. Len(buf)
        BY <3>3
      <4>2. buf[1] \in Unit /\ buf[2] \in Unit /\ InStream(t, p, buf[1]) /\ InStream(t, p, buf[2])
        BY <3>1, <4>1, Emptiness DEF AtHeader
      <4> QED
        BY <2>6, <2>12, <3>1, <3>3, <4>2 DEF AtHeader
    <3>4. ASSUME buf # <<>>
          PROVE  Follows(n, q, buf[Len(buf)].f, buf[Len(buf)].part, NextN', NextK')
      <4>1. Len(buf) \in 1 .. Len(buf)
        BY <3>1, <3>4, Emptiness
      <4>2. buf[Len(buf)] \in Unit /\ InStream(t, p, buf[Len(buf)])
        BY <3>1, <4>1, Emptiness DEF AtHeader
      <4> QED
        BY <2>11, <2>12, <3>1, <3>4, <4>2 DEF AtHeader
    <3>5. IF buf = <<>> THEN NextK = 1 ELSE buf[1].part = 1
      BY <1>2, <3>1 DEF AtHeader, Before
    <3>6. buf = <<>> => wire # <<>> /\ NextK' = 1 /\ NextN' = NextN
      BY <2>2, <2>9, <2>10, <3>5
    <3>7. AtHeader(n, q)'
      BY <1>1, <3>1, <3>2, <3>3, <3>4, <3>5, <3>6 DEF AtHeader, Follows, Ends
    <3>8. Reached(n)' = Reached(t)
      BY <1>1, <2>16, <3>6 DEF Reached
    <3>9. HandedOn(n)'
      BY <1>1, <1>2, <3>8 DEF Stream, HandedOn, Before
    <3>10. Stream(n, q)'
      BY <1>1, <2>13, <2>14, <2>16, <3>7, <3>9 DEF Stream
    <3> QED
      BY <3>10
  <2> QED
    BY <2>15, <2>16
<1> QED
  BY <1>3, <1>4
\* read_exact takes the next unit off the connection.
LEMMA ReceiveStream ==
    ASSUME TypeOK, TypeOK', Receive, NEW t \in Nat, NEW p \in Nat, Stream(t, p)
    PROVE  Stream(t, p)'
<1>1. /\ UNCHANGED <<lock, cur, put, sent, torn, at, hdr, handed>> /\ wire # <<>>
      /\ Len(buf) < Need /\ buf' = Append(buf, Head(wire)) /\ wire' = Tail(wire)
      /\ at \in {"header", "payload"}
  BY DEF Receive, phone
<1>2. /\ wire \in Seq(Unit) /\ Len(wire) \in Nat /\ buf \in Seq(Unit) /\ Len(buf) \in Nat
      /\ NextN \in Nat /\ NextK \in Nat
  BY Numbers
<1>3. /\ Tail(wire) \in Seq(Unit) /\ Len(wire') = Len(wire) - 1 /\ Len(wire) >= 1
      /\ \A i \in 1 .. Len(wire) - 1 : wire'[i] = wire[i + 1]
      /\ Head(wire) = wire[1] /\ wire[1] \in Unit
  BY <1>1, <1>2, Shifted
<1>4. PICK e \in Unit : e = wire[1]
  BY <1>3
<1>5. /\ Len(buf') = Len(buf) + 1 /\ buf' # <<>> /\ buf'[Len(buf) + 1] = e
      /\ \A i \in 1 .. Len(buf) : buf'[i] = buf[i]
  BY <1>1, <1>2, <1>3, <1>4, Appended
<1>6. NextN = e.f.n /\ NextK = e.part /\ e.f \in Frame /\ e.part \in Nat /\ e.f.n \in Nat
  BY <1>1, <1>4, Units DEF NextN, NextK
<1>7. OutN' = OutN /\ OutK' = OutK /\ (Writing' <=> Writing)
  BY <1>1, Zenon DEF OutN, OutK, Writing
<1>8. \A f : Avail(t, p, f)' = Avail(t, p, f)
  BY <1>1 DEF Avail, Ends, Writing
<1>9. ASSUME NEW v \in Unit, InStream(t, p, v) PROVE InStream(t, p, v)'
  BY <1>1, <1>8, <1>9 DEF InStream
<1>10. Chained(t, p)
  BY DEF Stream
<1>11. InStream(t, p, e)
  BY <1>2, <1>3, <1>4, <1>10 DEF Chained
\* The unit behind it is the next one now.
<1>12. NextN' \in Nat /\ NextK' \in Nat /\ Follows(t, p, e.f, e.part, NextN', NextK')
  <2>1. CASE wire' = <<>>
    <3>1. Len(wire) = 1
      BY <1>2, <1>3, <2>1
    <3>2. Follows(t, p, e.f, e.part, OutN, OutK)
      BY <1>1, <1>4, <1>10, <3>1 DEF Chained
    <3> QED
      BY <1>7, <2>1, <3>2, Numbers DEF NextN, NextK
  <2>2. CASE wire' # <<>>
    <3>1. Len(wire') \in Nat /\ Len(wire') # 0
      BY <1>1, <1>2, <1>3, <2>2, Emptiness
    <3>2. 1 \in 1 .. Len(wire) - 1 /\ wire'[1] = wire[2] /\ wire[2] \in Unit
      BY <1>2, <1>3, <3>1, Emptiness
    <3>3. Follows(t, p, e.f, e.part, wire[2].f.n, wire[2].part)
      BY <1>4, <1>10, <3>2 DEF Chained
    <3>4. NextN' = wire[2].f.n /\ NextK' = wire[2].part
      BY <2>2, <3>2 DEF NextN, NextK
    <3> QED
      BY <3>2, <3>3, <3>4, Units
  <2> QED
    BY <2>1, <2>2
<1>13. NextN' >= NextN
  BY <1>6, <1>12, Onwards
<1>14. Chained(t, p)'
  <2>1. ASSUME NEW i \in 1 .. Len(wire') PROVE InStream(t, p, wire[i])'
    <3>1. i + 1 \in 1 .. Len(wire) /\ i \in 1 .. Len(wire) - 1
      BY <1>2, <1>3
    <3>2. PICK v \in Unit : v = wire[i + 1] /\ v = wire'[i]
      BY <1>2, <1>3, <3>1, Emptiness
    <3>3. InStream(t, p, v)'
      BY <1>9, <1>10, <3>1, <3>2 DEF Chained
    <3> QED
      BY <3>2, <3>3 DEF InStream, Avail, Ends
  <2>2. ASSUME NEW i \in 1 .. Len(wire') - 1
        PROVE  Follows(t, p, wire'[i].f, wire'[i].part, wire'[i + 1].f.n, wire'[i + 1].part)
    <3>1. /\ i + 1 \in 1 .. Len(wire) - 1 /\ wire'[i] = wire[i + 1] /\ wire'[i + 1] = wire[i + 2]
      BY <1>2, <1>3
    <3> QED
      BY <1>10, <3>1 DEF Chained
  <2>3. ASSUME wire' # <<>>
        PROVE  Follows(t, p, wire'[Len(wire')].f, wire'[Len(wire')].part, OutN', OutK')
    <3>1. Len(wire') \in Nat /\ Len(wire') # 0
      BY <1>1, <1>2, <1>3, <2>3, Emptiness
    <3>2. wire'[Len(wire')] = wire[Len(wire)]
      BY <1>2, <1>3, <3>1
    <3> QED
      BY <1>1, <1>7, <1>10, <3>2 DEF Chained
  <2> QED
    BY <2>1, <2>2, <2>3 DEF Chained, Follows, Ends
<1>15. TornAt(t, p)'
  BY <1>1, <1>7 DEF Stream, TornAt
<1>16. CASE at = "payload"
  <2>1. /\ AtPayload(t, p) /\ hdr \in Frame /\ hdr.n \in Nat /\ hdr.head.len \in Nat
        /\ Parts(hdr) = hdr.head.len + 2 /\ Len(buf) < hdr.head.len
    BY <1>1, <1>16, Numbers DEF Stream, Need
  <2>2. Past(t) => Past(t)'
    BY <1>1, <1>2, <1>12, <1>13 DEF Past
  <2>3. ASSUME hdr.n # 0, Clean(t, p) PROVE Clean(t, p)' \/ Past(t)'
    <3>1. hdr.n \in 1 .. Len(sent) /\ hdr = sent[hdr.n]
      BY <2>1, <2>3 DEF AtPayload
    <3>2. Follows(t, p, hdr, Len(buf) + 2, e.f.n, e.part)
      BY <1>6, <2>3 DEF Clean
    \* The torn frame is at its end, and the payload not.
    <3>3. CASE Len(buf) + 2 = Ends(t, p, hdr)
      <4>1. hdr.n = t
        BY <1>2, <2>1, <3>3 DEF Ends
      <4>2. e.f.n = t + 1
        BY <3>2, <3>3, <4>1 DEF Follows
      <4>3. torn = TRUE
        BY <2>3, <4>1 DEF Stream, TornAt
      <4>4. NextN' > t
        BY <1>6, <1>12, <1>13, <4>2
      <4> QED
        BY <1>1, <4>1, <4>3, <4>4 DEF Past
    <3>4. CASE Len(buf) + 2 # Ends(t, p, hdr)
      <4>1. e.f.n = hdr.n /\ e.part = Len(buf) + 3
        BY <1>2, <3>2, <3>4 DEF Follows
      <4>2. e.f = hdr
        BY <1>11, <3>1, <4>1 DEF InStream
      <4>3. e = [f |-> hdr, part |-> Len(buf) + 3]
        BY <4>1, <4>2 DEF Unit
      <4>4. ASSUME NEW i \in 1 .. Len(buf') PROVE buf'[i] = [f |-> hdr, part |-> i + 2]
        <5>1. CASE i \in 1 .. Len(buf)
          BY <1>5, <2>3, <5>1 DEF Clean
        <5>2. CASE i = Len(buf) + 1
          BY <1>2, <1>5, <4>3, <5>2
        <5> QED
          BY <1>2, <1>5, <5>1, <5>2
      <4>5. Len(buf) + 3 <= Avail(t, p, e.f)
        BY <1>11, <4>1 DEF InStream
      <4>6. Len(buf') + 2 <= Avail(t, p, hdr)'
        BY <1>1, <1>2, <1>5, <1>7, <4>2, <4>5 DEF Avail, Ends
      <4>7. Follows(t, p, hdr, Len(buf') + 2, NextN', NextK')
        <5>1. Len(buf') + 2 = Len(buf) + 3
          BY <1>2, <1>5
        <5> QED
          BY <1>12, <4>1, <4>2, <5>1
      <4>8. Clean(t, p)'
        BY <1>1, <4>4, <4>6, <4>7 DEF Clean, Follows, Ends
      <4> QED
        BY <4>8
    <3> QED
      BY <3>3, <3>4
  <2>4. AtPayload(t, p)'
    BY <1>1, <1>2, <1>5, <2>1, <2>2, <2>3 DEF AtPayload
  <2>5. Reached(t)' = Reached(t)
    BY <1>1, <1>16 DEF Reached
  <2>6. HandedOn(t)'
    BY <1>1, <2>5 DEF Stream, HandedOn, Before
  <2> QED
    BY <1>1, <1>14, <1>15, <1>16, <2>4, <2>6 DEF Stream
<1>17. CASE at = "header"
  <2>1. AtHeader(t, p) /\ Len(buf) < 2
    BY <1>1, <1>17 DEF Stream, Need
  <2>2. ASSUME NEW i \in 1 .. Len(buf') PROVE InStream(t, p, buf[i])'
    <3>1. CASE i \in 1 .. Len(buf)
      <4>1. PICK v \in Unit : v = buf[i] /\ v = buf'[i]
        BY <1>2, <1>5, <3>1, Emptiness
      <4>2. InStream(t, p, v)'
        BY <1>9, <2>1, <3>1, <4>1 DEF AtHeader
      <4> QED
        BY <4>1, <4>2 DEF InStream, Avail, Ends
    <3>2. CASE i = Len(buf) + 1
      <4>1. InStream(t, p, e)'
        BY <1>9, <1>11
      <4> QED
        BY <1>5, <3>2, <4>1 DEF InStream, Avail, Ends
    <3> QED
      BY <1>2, <1>5, <3>1, <3>2
  <2>3. ASSUME Len(buf') = 2
        PROVE  Follows(t, p, buf'[1].f, buf'[1].part, buf'[2].f.n, buf'[2].part)
    <3>1. Len(buf) + 1 = 2 /\ buf # <<>> /\ buf'[1] = buf[1] /\ buf'[2] = e
      <4>1. Len(buf) + 1 = 2
        BY <1>5, <2>3
      <4>2. Len(buf) >= 1
        BY <1>2, <4>1
      <4>3. 1 \in 1 .. Len(buf) /\ buf # <<>>
        BY <1>2, <4>2, Emptiness
      <4> QED
        BY <1>5, <4>1, <4>3
    <3>2. Follows(t, p, buf[1].f, buf[1].part, NextN, NextK)
      <4>1. Follows(t, p, buf[Len(buf)].f, buf[Len(buf)].part, NextN, NextK)
        BY <2>1, <3>1 DEF AtHeader
      <4>2. buf[Len(buf)] = buf[1]
        BY <1>2, <3>1
      <4> QED
        BY <4>1, <4>2
    <3> QED
      BY <1>6, <3>1, <3>2
  <2>4. Follows(t, p, buf'[Len(buf')].f, buf'[Len(buf')].part, NextN', NextK')
    BY <1>5, <1>12
  <2>5. buf'[1] = IF buf = <<>> THEN e ELSE buf[1]
    BY <1>2, <1>5, Emptiness
  <2>6. Reached(t)' = Reached(t)
    BY <1>1, <1>5, <1>6, <1>17, <2>5 DEF Reached
  <2>7. Before(t, Reached(t)) => buf'[1].part = 1
    BY <1>6, <2>1, <2>5 DEF AtHeader
  <2>8. Len(buf') <= 2
    BY <1>2, <1>5, <2>1
  <2>9. AtHeader(t, p)'
    BY <1>1, <1>5, <1>17, <2>2, <2>3, <2>4, <2>6, <2>7, <2>8 DEF AtHeader, Follows, Ends, Before
  <2>10. HandedOn(t)'
    BY <1>1, <2>6 DEF Stream, HandedOn, Before
  <2> QED
    BY <1>1, <1>14, <1>15, <1>17, <2>9, <2>10 DEF Stream
<1> QED
  BY <1>1, <1>16, <1>17
\* A header's two units, before the tear, are those of one frame; the ones at the tear
\* are the first unit of the torn frame and the first of the frame behind it.
LEMMA HeaderRead ==
    ASSUME TypeOK, at = "header", Len(buf) = 2, NEW t \in Nat, NEW p \in Nat, Stream(t, p),
           buf[1].part = 1
    PROVE  /\ buf[1] \in Unit /\ buf[2] \in Unit
           /\ InStream(t, p, buf[1]) /\ InStream(t, p, buf[2])
           /\ Follows(t, p, buf[2].f, buf[2].part, NextN, NextK)
           /\ \/ buf[2] = [f |-> buf[1].f, part |-> 2]
              \/ torn = TRUE /\ buf[1].f.n = t /\ NextN > t
<1>1. AtHeader(t, p) /\ TornAt(t, p) /\ buf \in Seq(Unit) /\ NextN \in Nat /\ NextK \in Nat
  BY Numbers DEF Stream
<1>2. 1 \in 1 .. Len(buf) /\ 2 \in 1 .. Len(buf) /\ buf # <<>>
  BY <1>1, Emptiness
<1>3. buf[1] \in Unit /\ buf[2] \in Unit /\ InStream(t, p, buf[1]) /\ InStream(t, p, buf[2])
  BY <1>1, <1>2, Emptiness DEF AtHeader
<1>4. /\ Follows(t, p, buf[1].f, 1, buf[2].f.n, buf[2].part)
      /\ Follows(t, p, buf[2].f, buf[2].part, NextN, NextK)
  BY <1>1, <1>2 DEF AtHeader
<1>5. /\ buf[1].f.n \in Nat /\ buf[2].f.n \in Nat /\ buf[2].part \in Nat /\ buf[2].f \in Frame
      /\ Parts(buf[1].f) >= 2 /\ Parts(buf[1].f) \in Nat
  BY <1>3, Units
<1>6. CASE Ends(t, p, buf[1].f) = 1
  <2>1. buf[1].f.n = t /\ buf[2].f.n = t + 1
    BY <1>4, <1>5, <1>6 DEF Ends, Follows
  <2>2. torn = TRUE
    BY <1>1, <1>3, <2>1 DEF InStream, TornAt
  <2>3. NextN >= buf[2].f.n
    BY <1>1, <1>4, <1>5, Onwards
  <2>4. NextN > t
    BY <1>1, <2>1, <2>3
  <2> QED
    BY <1>3, <1>4, <2>1, <2>2, <2>4
<1>7. CASE Ends(t, p, buf[1].f) # 1
  <2>1. buf[2].f.n = buf[1].f.n /\ buf[2].part = 2
    BY <1>4, <1>7 DEF Follows
  <2>2. buf[2].f = buf[1].f
    BY <1>3, <2>1 DEF InStream
  <2>3. buf[2] = [f |-> buf[1].f, part |-> 2]
    BY <1>3, <2>1, <2>2 DEF Unit
  <2> QED
    BY <1>3, <1>4, <2>3
<1> QED
  BY <1>6, <1>7

\* A header is decoded: the frame's own, or one made at the tear.
LEMMA HeaderStream ==
    ASSUME TypeOK, TypeOK', ReadHeader, at' # "ended", NEW t \in Nat, NEW p \in Nat, Stream(t, p)
    PROVE  Stream(t, p)'
<1>1. /\ at = "header" /\ Len(buf) = 2 /\ buf' = <<>>
      /\ UNCHANGED <<lock, cur, put, sent, torn, wire, handed>>
  BY DEF ReadHeader, phone
<1>2. PICK f \in Decode(buf[1], buf[2]) : f # NoFrame /\ at' = "payload" /\ hdr' = f
  BY DEF ReadHeader
<1>3. buf[1].part = 1
  BY <1>2 DEF Decode
<1>4. /\ buf[1] \in Unit /\ buf[2] \in Unit
      /\ InStream(t, p, buf[1]) /\ InStream(t, p, buf[2])
      /\ Follows(t, p, buf[2].f, buf[2].part, NextN, NextK)
      /\ \/ buf[2] = [f |-> buf[1].f, part |-> 2]
         \/ torn = TRUE /\ buf[1].f.n = t /\ NextN > t
  BY <1>1, <1>3, HeaderRead
<1>5. OutN' = OutN /\ OutK' = OutK /\ (Writing' <=> Writing)
  BY <1>1, Zenon DEF OutN, OutK, Writing
<1>6. NextN' = NextN /\ NextK' = NextK
  BY <1>1, <1>5 DEF NextN, NextK
<1>7. \A g : Avail(t, p, g)' = Avail(t, p, g)
  BY <1>1 DEF Avail, Ends, Writing
<1>8. \A v : InStream(t, p, v)' <=> InStream(t, p, v)
  BY <1>1, <1>7 DEF InStream
<1>9. Chained(t, p)' /\ TornAt(t, p)'
  BY <1>1, <1>5, <1>8 DEF Stream, Chained, TornAt
<1>10. buf # <<>> /\ Reached(t) = buf[1].f.n
  <2>1. buf \in Seq(Unit) /\ Len(buf) # 0
    BY <1>1, Numbers
  <2>2. buf # <<>>
    BY <2>1, Emptiness
  <2> QED
    BY <1>1, <2>2 DEF Reached
<1>11. AtPayload(t, p)' /\ Reached(t)' = Reached(t)
  <2>1. CASE buf[2] = [f |-> buf[1].f, part |-> 2]
    <3>1. f = buf[1].f
      BY <1>2, <2>1 DEF Decode
    <3>2. f.n \in 1 .. Len(sent) /\ f = sent[f.n] /\ f \in Frame /\ f.n # 0
      BY <1>4, <3>1, Units DEF InStream
    <3>3. 2 <= Avail(t, p, f) /\ Follows(t, p, f, 2, NextN, NextK)
      BY <1>4, <2>1, <3>1 DEF InStream
    <3>4. Len(buf') = 0
      BY <1>1
    <3>5. 2 <= Avail(t, p, hdr)' /\ Follows(t, p, hdr', 2, NextN', NextK')
      BY <1>1, <1>2, <1>5, <1>6, <3>3 DEF Avail, Ends
    <3>6. Clean(t, p)'
      BY <3>4, <3>5 DEF Clean, Follows, Ends
    <3>7. f.head.len \in Nat
      BY <3>2 DEF Frame, Header
    <3>8. AtPayload(t, p)'
      BY <1>1, <1>2, <3>2, <3>4, <3>6, <3>7 DEF AtPayload
    <3> QED
      BY <1>2, <1>10, <3>1, <3>2, <3>8 DEF Reached
  <2>2. CASE buf[2] # [f |-> buf[1].f, part |-> 2]
    <3>1. f.n = 0 /\ f \in Frame
      BY <1>2, <1>4, <2>2, Decoding
    <3>2. torn = TRUE /\ buf[1].f.n = t /\ NextN > t
      BY <1>4, <2>2
    <3>3. Len(buf') = 0 /\ f.head.len \in Nat
      BY <1>1, <3>1 DEF Frame, Header
    <3>4. Past(t)'
      BY <1>1, <1>2, <1>6, <3>1, <3>2 DEF Past
    <3>5. AtPayload(t, p)'
      BY <1>2, <3>1, <3>3, <3>4 DEF AtPayload
    <3> QED
      BY <1>2, <1>10, <3>1, <3>2, <3>5 DEF Reached
  <2> QED
    BY <2>1, <2>2
<1>12. HandedOn(t)'
  BY <1>1, <1>11 DEF Stream, HandedOn, Before
<1> QED
  BY <1>2, <1>9, <1>11, <1>12 DEF Stream

\* A complete payload is the frame's own, and then the next unit begins a frame; or it
\* was completed behind the tear, and everything handed on so far is whole.
LEMMA PayloadRead ==
    ASSUME TypeOK, at = "payload", Len(buf) = hdr.head.len, NEW t \in Nat, NEW p \in Nat,
           Stream(t, p)
    PROVE  \/ /\ hdr.n \in 1 .. Len(sent) /\ hdr = sent[hdr.n] /\ Whole(hdr, buf)
              /\ NextN = hdr.n + 1 /\ NextK = 1 /\ Reached(t) = hdr.n
           \/ /\ torn = TRUE /\ hdr.n \in {0, t} /\ NextN > t /\ Reached(t) = t /\ t > 0
              /\ \A i \in 1 .. Len(handed) : handed[i].whole = TRUE
<1>1. /\ AtPayload(t, p) /\ TornAt(t, p) /\ hdr \in Frame /\ hdr.n \in Nat /\ Len(buf) \in Nat
      /\ Parts(hdr) = hdr.head.len + 2 /\ Parts(hdr) \in Nat /\ buf \in Seq(Unit)
      /\ Len(sent) \in Nat
  BY Numbers DEF Stream
<1>2. CASE hdr.n # 0 /\ Clean(t, p)
  <2>1. hdr.n \in 1 .. Len(sent) /\ hdr = sent[hdr.n]
    BY <1>1, <1>2 DEF AtPayload
  <2>2. Parts(hdr) <= Avail(t, p, hdr)
    BY <1>1, <1>2 DEF Clean
  <2>3. hdr.n # t
    BY <1>1, <2>1, <2>2 DEF Avail, Ends, TornAt
  <2>4. NextN = hdr.n + 1 /\ NextK = 1
    BY <1>1, <1>2, <2>3 DEF Clean, Follows, Ends
  <2>5. \A i \in 1 .. Len(buf) : buf[i] = [f |-> hdr, part |-> i + 2]
    BY <1>2 DEF Clean
  <2>6. buf = [i \in 1 .. hdr.head.len |-> [f |-> hdr, part |-> i + 2]]
    <3>1. buf = [i \in 1 .. Len(buf) |-> buf[i]]
      BY <1>1
    <3> QED
      BY <2>5, <3>1
  <2>7. Whole(hdr, buf)
    BY <1>1, <1>2, <2>6 DEF Whole
  <2> QED
    BY <1>2, <2>1, <2>4, <2>7 DEF Reached
<1>3. CASE Past(t)
  <2>1. torn = TRUE /\ hdr.n \in {0, t} /\ NextN > t /\ Reached(t) = t
    BY <1>3 DEF Past, Reached
  <2>2. t > 0
    BY <1>1, <2>1 DEF TornAt
  <2>3. \A i \in 1 .. Len(handed) : handed[i].whole = TRUE
    BY <2>1 DEF Stream, HandedOn, Before
  <2> QED
    BY <2>1, <2>2, <2>3
<1> QED
  BY <1>1, <1>2, <1>3 DEF AtPayload

\* A frame is handed on.
LEMMA PayloadStream ==
    ASSUME TypeOK, TypeOK', ReadPayload, NEW t \in Nat, NEW p \in Nat, Stream(t, p)
    PROVE  Stream(t, p)'
<1>1. /\ at = "payload" /\ Len(buf) = hdr.head.len /\ buf' = <<>> /\ at' \in {"header", "encode"}
      /\ UNCHANGED <<lock, cur, put, sent, torn, wire, hdr>>
  BY DEF ReadPayload, phone, Submit
<1>2. PICK item \in Item : /\ handed' = Append(handed, item) /\ item.f = hdr
                           /\ item.whole = Whole(hdr, buf)
  <2> DEFINE it == [f |-> hdr, whole |-> Whole(hdr, buf), to |-> WayOf(hdr.head)]
  <2>1. it \in Item
    <3>1. hdr \in Frame
      BY Numbers
    <3>2. Whole(hdr, buf) \in BOOLEAN
      BY DEF Whole
    <3>3. WayOf(hdr.head) \in {"sinks", "counter", "none"}
      BY DEF WayOf
    <3> QED
      BY <3>1, <3>2, <3>3, Zenon DEF Item
  <2>2. handed' = Append(handed, it)
    BY DEF ReadPayload
  <2>3. it.f = hdr /\ it.whole = Whole(hdr, buf)
    BY Zenon
  <2> HIDE DEF it
  <2> QED
    BY <2>1, <2>2, <2>3
<1>3. /\ Len(handed') = Len(handed) + 1 /\ handed'[Len(handed) + 1] = item
      /\ \A i \in 1 .. Len(handed) : handed'[i] = handed[i]
      /\ Len(handed) \in Nat
  BY <1>2, Appended, Numbers
<1>4. OutN' = OutN /\ OutK' = OutK /\ (Writing' <=> Writing)
  BY <1>1, Zenon DEF OutN, OutK, Writing
<1>5. NextN' = NextN /\ NextK' = NextK /\ NextN \in Nat
  BY <1>1, <1>4, Numbers DEF NextN, NextK
<1>6. \A g : Avail(t, p, g)' = Avail(t, p, g)
  BY <1>1 DEF Avail, Ends, Writing
<1>7. \A v : InStream(t, p, v)' <=> InStream(t, p, v)
  BY <1>1, <1>6 DEF InStream
<1>8. Chained(t, p)' /\ TornAt(t, p)'
  BY <1>1, <1>4, <1>7 DEF Stream, Chained, TornAt
<1>9. Reached(t)' = NextN /\ Len(buf') = 0
  BY <1>1, <1>5 DEF Reached
<1>10. HandedOn(t)
  BY DEF Stream
<1>11. \A i \in 1 .. Len(handed) : handed[i].f.n \in Nat
  <2>1. \A it \in Item : it.f.n \in Nat
    BY DEF Item, Frame
  <2>2. \A i \in 1 .. Len(handed) : handed[i] \in Item
    BY Numbers, Emptiness
  <2> QED
    BY <2>1, <2>2
<1>12. CASE /\ hdr.n \in 1 .. Len(sent) /\ hdr = sent[hdr.n] /\ Whole(hdr, buf)
            /\ NextN = hdr.n + 1 /\ NextK = 1 /\ Reached(t) = hdr.n
  <2>1. item.whole = TRUE /\ hdr.n \in Nat
    BY <1>2, <1>12, Numbers
  <2>2. ASSUME Before(t, NextN)
        PROVE  /\ NextN = Len(handed') + 1
               /\ \A i \in 1 .. Len(handed') : handed'[i].whole = TRUE /\ handed'[i].f = sent[i]
    <3>1. Before(t, Reached(t))
      BY <1>12, <2>1, <2>2 DEF Before
    <3>2. /\ hdr.n = Len(handed) + 1
          /\ \A i \in 1 .. Len(handed) : handed[i].whole = TRUE /\ handed[i].f = sent[i]
      BY <1>10, <1>12, <3>1 DEF HandedOn
    <3>3. NextN = Len(handed') + 1
      BY <1>3, <1>12, <3>2
    <3>4. ASSUME NEW i \in 1 .. Len(handed')
          PROVE  handed'[i].whole = TRUE /\ handed'[i].f = sent[i]
      <4>1. CASE i \in 1 .. Len(handed)
        BY <1>3, <3>2, <4>1
      <4>2. CASE i = Len(handed) + 1
        <5>1. handed'[i] = item /\ item.f = sent[i]
          BY <1>2, <1>3, <1>12, <3>2, <4>2
        <5> QED
          BY <2>1, <5>1
      <4>3. i \in 1 .. Len(handed) \/ i = Len(handed) + 1
        BY <1>3
      <4> QED
        BY <4>1, <4>2, <4>3
    <3> QED
      BY <3>3, <3>4
  <2>3. ASSUME NEW i \in 1 .. Len(handed'), handed'[i].whole = TRUE PROVE handed'[i].f.n < NextN
    <3>1. CASE i \in 1 .. Len(handed)
      BY <1>3, <1>10, <1>11, <1>12, <2>1, <2>3, <3>1 DEF HandedOn
    <3>2. CASE i = Len(handed) + 1
      BY <1>2, <1>3, <1>12, <2>1, <3>2
    <3> QED
      BY <1>3, <3>1, <3>2
  <2>4. HandedOn(t)'
    BY <1>1, <1>9, <2>2, <2>3 DEF HandedOn, Before
  <2>5. AtHeader(t, p)'
    BY <1>1, <1>5, <1>9, <1>12 DEF AtHeader
  <2> QED
    BY <1>1, <1>8, <2>4, <2>5 DEF Stream
<1>13. CASE /\ torn = TRUE /\ hdr.n \in {0, t} /\ NextN > t /\ Reached(t) = t /\ t > 0
  <2>1. ~Before(t, NextN)
    BY <1>5, <1>13 DEF Before
  <2>2. ASSUME NEW i \in 1 .. Len(handed'), handed'[i].whole = TRUE PROVE handed'[i].f.n < NextN
    <3>1. CASE i \in 1 .. Len(handed)
      BY <1>3, <1>5, <1>10, <1>11, <1>13, <2>2, <3>1 DEF HandedOn
    <3>2. CASE i = Len(handed) + 1
      BY <1>2, <1>3, <1>5, <1>13, <3>2
    <3> QED
      BY <1>3, <3>1, <3>2
  <2>3. HandedOn(t)'
    BY <1>1, <1>9, <2>1, <2>2 DEF HandedOn, Before
  <2>4. AtHeader(t, p)'
    BY <1>1, <1>5, <1>9, <2>1 DEF AtHeader, Before
  <2> QED
    BY <1>1, <1>8, <2>3, <2>4 DEF Stream
<1> QED
  BY <1>1, <1>12, <1>13, PayloadRead
\* Every step keeps the relation between what was written and what is read.
LEMMA StreamingStep ==
    ASSUME TypeOK, TypeOK', Numbered, Numbered', Holding, Holding', TornOnce, Streaming,
           [Next]_vars
    PROVE  Streaming'
<1> SUFFICES ASSUME at' # "ended" PROVE \E t, p \in Nat : Stream(t, p)'
  BY DEF Streaming
<1>1. at # "ended"
  BY DEF Next, Pipeline, Phone, StartRamp, RampOver, EndSession, AbandonSession, ReadFails, Tick,
         Lock, Write, WriteFails, Receive, ReadHeader, ReadPayload, Encoded, EndOfStream, vars,
         reader
<1>2. PICK t \in Nat, p \in Nat : Stream(t, p)
  BY <1>1 DEF Streaming
<1>3. ASSUME UNCHANGED <<lock, put, sent, torn, wire, buf, hdr, handed>>,
             at' = at \/ (at = "encode" /\ at' = "header")
      PROVE  Stream(t, p)'
  <2>1. (Writing' <=> Writing) /\ put' = put
    BY <1>3 DEF Writing
  <2> QED
    BY <1>2, <1>3, <2>1, Keeps
<1>4. CASE UNCHANGED vars \/ StartRamp \/ RampOver \/ AbandonSession \/ Tick \/ Encoded
  BY <1>3, <1>4 DEF vars, phone, reader, StartRamp, RampOver, AbandonSession, Tick, Encoded
<1>5. CASE EndSession
  BY <1>2, <1>5, EndStream
<1>6. CASE ReadFails \/ EndOfStream
  BY <1>6 DEF ReadFails, EndOfStream
<1>7. ASSUME NEW w \in Writers, Lock(w) PROVE Stream(t, p)'
  <2>1. /\ UNCHANGED <<sent, torn, wire, at, buf, hdr, handed>> /\ lock = Free /\ put' = 0
    BY <1>7 DEF Lock, reader
  <2>2. ~Writing /\ ~Writing'
    BY <2>1 DEF Writing
  <2> QED
    BY <1>2, <2>1, <2>2, Keeps
<1>8. ASSUME NEW w \in Writers, Write(w) PROVE Stream(t, p)'
  BY <1>2, <1>8, WriteStream
<1>9. ASSUME NEW w \in Writers, WriteFails(w) PROVE FALSE
  BY <1>1, <1>9 DEF WriteFails
<1>10. CASE Receive
  BY <1>2, <1>10, ReceiveStream
<1>11. CASE ReadHeader
  BY <1>2, <1>11, HeaderStream
<1>12. CASE ReadPayload
  BY <1>2, <1>12, PayloadStream
<1> QED
  BY <1>4, <1>5, <1>6, <1>7, <1>8, <1>9, <1>10, <1>11, <1>12 DEF Next, Pipeline, Phone

-----------------------------------------------------------------------------
(* What is handed on. *)

\* A frame handed on behind others.
LEMMA HandingOn ==
    ASSUME TypeOK, TypeOK', Streaming, Delivered, ReadPayload
    PROVE  Delivered'
<1>1. /\ at = "payload" /\ Len(buf) = hdr.head.len /\ UNCHANGED <<sent, torn>>
  BY DEF ReadPayload, phone
<1>2. PICK t \in Nat, p \in Nat : Stream(t, p)
  BY <1>1 DEF Streaming
<1>3. PICK item \in Item : /\ handed' = Append(handed, item) /\ item.f = hdr
                           /\ item.whole = Whole(hdr, buf) /\ item.to = WayOf(hdr.head)
  <2> DEFINE it == [f |-> hdr, whole |-> Whole(hdr, buf), to |-> WayOf(hdr.head)]
  <2>1. it \in Item
    <3>1. hdr \in Frame
      BY Numbers
    <3>2. Whole(hdr, buf) \in BOOLEAN
      BY DEF Whole
    <3>3. WayOf(hdr.head) \in {"sinks", "counter", "none"}
      BY DEF WayOf
    <3> QED
      BY <3>1, <3>2, <3>3, Zenon DEF Item
  <2>2. handed' = Append(handed, it)
    BY DEF ReadPayload
  <2>3. it.f = hdr /\ it.whole = Whole(hdr, buf) /\ it.to = WayOf(hdr.head)
    BY Zenon
  <2> HIDE DEF it
  <2> QED
    BY <2>1, <2>2, <2>3
<1>4. PICK l \in Nat : l = Len(handed)
  BY Numbers
<1>5. /\ Len(handed') = l + 1 /\ handed'[l + 1] = item
      /\ \A i \in 1 .. l : handed'[i] = handed[i]
  BY <1>3, <1>4, Appended, Numbers
<1>6. \A i \in 1 .. l + 1 : i \in 1 .. l \/ i = l + 1
  OBVIOUS
<1>7. \/ /\ hdr.n \in 1 .. Len(sent) /\ hdr = sent[hdr.n] /\ Whole(hdr, buf)
         /\ NextN = hdr.n + 1 /\ NextK = 1 /\ Reached(t) = hdr.n
      \/ /\ torn = TRUE /\ hdr.n \in {0, t} /\ NextN > t /\ Reached(t) = t /\ t > 0
         /\ \A i \in 1 .. Len(handed) : handed[i].whole = TRUE
  BY <1>1, <1>2, PayloadRead
<1>8. ASSUME torn' = FALSE, NEW i \in 1 .. Len(handed')
      PROVE  i <= Len(sent') /\ handed'[i].whole = TRUE /\ handed'[i].f = sent'[i]
  <2>1. torn = FALSE
    BY <1>1, <1>8
  <2>2. t = 0 /\ HandedOn(t)
    BY <1>2, <2>1 DEF Stream, TornAt
  <2>3. hdr.n \in 1 .. Len(sent) /\ hdr = sent[hdr.n] /\ Whole(hdr, buf) /\ Reached(t) = hdr.n
    BY <1>7, <2>1
  <2>4. hdr.n = l + 1
    BY <1>4, <2>2, <2>3 DEF HandedOn, Before
  <2>5. CASE i \in 1 .. l
    BY <1>1, <1>4, <1>5, <2>1, <2>5 DEF Delivered
  <2>6. CASE i = l + 1
    <3>1. item.whole = TRUE
      BY <1>3, <2>3
    <3>2. handed'[i] = item /\ item.f = sent[i] /\ i <= Len(sent)
      BY <1>3, <1>5, <2>3, <2>4, <2>6, Numbers
    <3> QED
      BY <1>1, <3>1, <3>2
  <2> QED
    BY <1>5, <1>6, <2>5, <2>6
<1>9. ASSUME NEW i \in 1 .. l, handed[i].whole = TRUE, item.whole = TRUE
      PROVE  handed[i].f.n < item.f.n
  <2>1. hdr.n > 0
    BY <1>3, <1>9 DEF Whole
  <2>2. Reached(t) = hdr.n
    BY <1>1, <2>1, Numbers DEF Reached
  <2> QED
    BY <1>2, <1>3, <1>4, <1>9, <2>2 DEF Stream, HandedOn
<1>10. Increasing(handed)'
  <2>1. DOMAIN handed' = 1 .. l + 1 /\ DOMAIN handed = 1 .. l
    BY <1>3, <1>4, <1>5, Numbers DEF TypeOK
  <2>2. ASSUME NEW i \in 1 .. l + 1, NEW j \in 1 .. l + 1, i < j, handed'[i].whole,
               handed'[j].whole
        PROVE  handed'[i].f.n < handed'[j].f.n
    <3>1. i \in 1 .. l
      BY <2>2
    <3>2. handed'[i] = handed[i] /\ handed[i] \in Item
      BY <1>4, <1>5, <3>1, Numbers, Emptiness
    <3>3. CASE j \in 1 .. l
      BY <1>5, <2>1, <2>2, <3>1, <3>3 DEF Delivered, Increasing
    <3>4. CASE j = l + 1
      <4>1. handed[i].whole = TRUE
        BY <2>2, <3>2 DEF Item
      <4>2. item.whole = TRUE
        BY <1>5, <2>2, <3>4 DEF Item
      <4> QED
        BY <1>5, <1>9, <3>1, <3>2, <3>4, <4>1, <4>2
    <3> QED
      BY <1>6, <3>3, <3>4
  <2> QED
    BY <2>1, <2>2 DEF Increasing
<1>11. ASSUME NEW i \in 1 .. l, handed[i].whole = FALSE PROVE item.whole = TRUE
  BY <1>3, <1>4, <1>7, <1>11
<1>12. ASSUME NEW i \in 1 .. Len(handed'), NEW j \in 1 .. Len(handed'),
              handed'[i].whole = FALSE, handed'[j].whole = FALSE
       PROVE  i = j
  <2>1. CASE i \in 1 .. l /\ j \in 1 .. l
    BY <1>4, <1>5, <1>12, <2>1 DEF Delivered
  <2>2. CASE i = l + 1 /\ j \in 1 .. l
    BY <1>5, <1>11, <1>12, <2>2
  <2>3. CASE i \in 1 .. l /\ j = l + 1
    BY <1>5, <1>11, <1>12, <2>3
  <2>4. CASE i = l + 1 /\ j = l + 1
    BY <2>4
  <2> QED
    BY <1>5, <1>6, <2>1, <2>2, <2>3, <2>4
<1> QED
  BY <1>8, <1>10, <1>12 DEF Delivered

\* What the sinks were given stays as it was written.
LEMMA DeliveredStep ==
    ASSUME TypeOK, TypeOK', TornOnce, Streaming, Delivered, [Next]_vars
    PROVE  Delivered'
<1>1. CASE ReadPayload
  BY <1>1, HandingOn
<1>2. ASSUME UNCHANGED <<sent, handed>>, torn' = FALSE => torn = FALSE PROVE Delivered'
  BY <1>2 DEF Delivered, Increasing
<1>3. ASSUME NEW w \in Writers, Write(w) PROVE Delivered'
  <2>1. UNCHANGED <<torn, handed>> /\ sent' = IF put = 0 THEN Append(sent, cur) ELSE sent
    BY <1>3 DEF Write, reader
  <2>2. Len(sent') >= Len(sent) /\ \A i \in 1 .. Len(sent) : sent'[i] = sent[i]
    <3>1. CASE put = 0
      BY <2>1, <3>1, Numbers, Appended
    <3>2. CASE put # 0
      BY <2>1, <3>2, Numbers
    <3> QED
      BY <3>1, <3>2
  <2>3. ASSUME torn' = FALSE, NEW i \in 1 .. Len(handed')
        PROVE  i <= Len(sent') /\ handed'[i].whole = TRUE /\ handed'[i].f = sent'[i]
    <3>1. i <= Len(sent) /\ handed[i].whole = TRUE /\ handed[i].f = sent[i] /\ i \in Nat /\ i >= 1
      BY <2>1, <2>3 DEF Delivered
    <3>2. i \in 1 .. Len(sent) /\ Len(sent') \in Nat
      BY <3>1, Numbers DEF TypeOK
    <3> QED
      BY <2>1, <2>2, <3>1, <3>2
  <2> QED
    BY <2>1, <2>3 DEF Delivered, Increasing
<1>4. CASE EndSession
  <2>1. torn = FALSE /\ UNCHANGED <<sent, handed>>
    BY <1>4, Zenon DEF EndSession, TornOnce, TypeOK, reader
  <2> QED
    BY <1>2, <2>1
<1>5. CASE \/ UNCHANGED vars \/ StartRamp \/ RampOver \/ AbandonSession \/ ReadFails \/ Tick
           \/ Receive \/ ReadHeader \/ Encoded \/ EndOfStream
           \/ \E w \in Writers : Lock(w) \/ WriteFails(w)
  <2>1. UNCHANGED <<sent, handed, torn>>
    BY <1>5 DEF vars, phone, reader, StartRamp, RampOver, AbandonSession, ReadFails, Tick, Receive,
                ReadHeader, Encoded, EndOfStream, Lock, WriteFails
  <2> QED
    BY <1>2, <2>1
<1> QED
  BY <1>1, <1>3, <1>4, <1>5 DEF Next, Pipeline, Phone

-----------------------------------------------------------------------------
(* The exit. *)

\* Of an untorn stream the header read is the next frame's own.
LEMMA HeaderRefused ==
    ASSUME TypeOK, Numbered, Streaming, ReadHeader, at' = "ended", torn = FALSE
    PROVE  Len(handed) < Len(sent) /\ Undecodable(sent[Len(handed) + 1].head)
<1>1. at = "header" /\ Len(buf) = 2
  BY DEF ReadHeader
<1>2. PICK t \in Nat, p \in Nat : Stream(t, p)
  BY <1>1 DEF Streaming
<1>3. t = 0 /\ HandedOn(t) /\ AtHeader(t, p)
  BY <1>1, <1>2 DEF Stream, TornAt
<1>4. buf # <<>>
  <2>1. buf \in Seq(Unit) /\ Len(buf) # 0
    BY <1>1, Numbers
  <2> QED
    BY <2>1, Emptiness
<1>5. buf[1].part = 1 /\ buf[1].f.n = Len(handed) + 1
  BY <1>1, <1>3, <1>4 DEF AtHeader, Before, HandedOn, Reached
<1>6. buf[2] = [f |-> buf[1].f, part |-> 2] /\ InStream(t, p, buf[1])
  BY <1>1, <1>2, <1>5, HeaderRead
<1>7. buf[1].f = sent[Len(handed) + 1] /\ Len(handed) < Len(sent)
  BY <1>5, <1>6, Numbers DEF InStream
<1>8. PICK f \in Decode(buf[1], buf[2]) : f = NoFrame \/ f.head.len > MaxFrame
  BY DEF ReadHeader
<1>9. CASE \/ buf[1].f.head.type # VideoType
           \/ buf[1].f.head.codec \notin {Raw, Hevc, H264}
  BY <1>7, <1>9 DEF Undecodable
<1>10. CASE /\ buf[1].f.head.type = VideoType
            /\ buf[1].f.head.codec \in {Raw, Hevc, H264}
  <2>1. f = buf[1].f
    BY <1>5, <1>6, <1>8, <1>10 DEF Decode
  <2>2. f # NoFrame
    BY <1>5, <2>1, Numbers DEF NoFrame
  <2> QED
    BY <1>7, <1>8, <2>1, <2>2 DEF Undecodable
<1> QED
  BY <1>9, <1>10

\* Of an untorn stream that is over every frame was read.
LEMMA AllRead ==
    ASSUME TypeOK, Numbered, Holding, Streaming, EndOfStream, torn = FALSE
    PROVE  Closed /\ Len(handed) = Len(sent)
<1>1. at \in {"header", "payload"} /\ Len(buf) < Need /\ wire = <<>> /\ Closed
  BY DEF EndOfStream
<1>2. PICK t \in Nat, p \in Nat : Stream(t, p)
  BY <1>1 DEF Streaming
<1>3. t = 0 /\ HandedOn(t)
  BY <1>2 DEF Stream, TornAt
<1>4. lock = Free
  BY <1>1 DEF Closed, Holding, Running, TypeOK, Writers, Free
<1>5. NextN = Len(sent) + 1 /\ NextK = 1
  BY <1>1, <1>4 DEF NextN, NextK, OutN, OutK, Writing
<1>6. CASE at = "header"
  <2>1. AtHeader(t, p) /\ buf \in Seq(Unit) /\ Len(buf) \in Nat
    BY <1>2, <1>6, Numbers DEF Stream
  <2>2. buf = <<>>
    <3> SUFFICES ASSUME buf # <<>> PROVE FALSE
      OBVIOUS
    <3>1. Len(buf) # 0 /\ Len(buf) < 2
      BY <1>1, <1>6, <2>1, Emptiness DEF Need
    <3>2. Len(buf) \in 1 .. Len(buf) /\ buf[Len(buf)] = buf[1]
      BY <2>1, <3>1
    <3>3. buf[1] \in Unit /\ InStream(t, p, buf[1]) /\ buf[1].part = 1
      BY <1>3, <2>1, <3>2, Emptiness DEF AtHeader, Before
    <3>4. Follows(t, p, buf[1].f, 1, NextN, NextK)
      BY <2>1, <3>2, <3>3 DEF AtHeader
    <3>5. /\ buf[1].f.n # t /\ Parts(buf[1].f) >= 2 /\ Parts(buf[1].f) \in Nat
      BY <1>3, <3>3, Units DEF InStream
    <3> QED
      BY <1>5, <3>4, <3>5 DEF Follows, Ends
  <2>3. Reached(t) = Len(sent) + 1
    BY <1>5, <1>6, <2>2 DEF Reached
  <2> QED
    BY <1>1, <1>3, <2>3, Numbers DEF HandedOn, Before
<1>7. CASE at = "payload"
  <2>1. /\ AtPayload(t, p) /\ Len(buf) \in Nat /\ Parts(hdr) = hdr.head.len + 2 /\ hdr.n \in Nat
        /\ hdr.head.len \in Nat /\ Len(buf) < hdr.head.len
    BY <1>1, <1>2, <1>7, Numbers DEF Stream, Need
  <2>2. hdr.n # 0 /\ Follows(t, p, hdr, Len(buf) + 2, NextN, NextK)
    BY <2>1 DEF AtPayload, Past, Clean
  <2> QED
    BY <1>3, <1>5, <2>1, <2>2 DEF Follows, Ends
<1> QED
  BY <1>1, <1>6, <1>7

\* The pipeline exits for a reason, and the reason stays.
LEMMA ExitsStep ==
    ASSUME TypeOK, TypeOK', Numbered, Holding, TornOnce, Streaming, ExitsForAReason, [Next]_vars
    PROVE  ExitsForAReason'
<1>1. CASE at = "ended"
  <2>1. UNCHANGED <<handed, lost, sent, at>>
    BY <1>1 DEF Next, Pipeline, Phone, StartRamp, RampOver, EndSession, AbandonSession, ReadFails,
         Tick, Lock, Write, WriteFails, Receive, ReadHeader, ReadPayload, Encoded, EndOfStream,
         vars, reader, phone
  <2>2. Closed => Closed'
    BY DEF Closed, Next, Pipeline, Phone, StartRamp, RampOver, EndSession, AbandonSession,
         ReadFails, Tick, Lock, Write, WriteFails, Receive, ReadHeader, ReadPayload, Encoded,
         EndOfStream, vars, reader, phone
  <2>3. torn => torn'
    <3>1. CASE EndSession
      BY <3>1 DEF EndSession, TornOnce, TypeOK
    <3>2. CASE ~EndSession
      BY <3>2 DEF Next, Pipeline, Phone, StartRamp, RampOver, AbandonSession, ReadFails,
         Tick, Lock, Write, WriteFails, Receive, ReadHeader, ReadPayload, Encoded,
         EndOfStream, vars, reader, phone
    <3> QED
      BY <3>1, <3>2
  <2> QED
    BY <1>1, <2>1, <2>2, <2>3 DEF ExitsForAReason
<1>2. CASE at # "ended" /\ at' = "ended"
  <2>1. CASE ReadFails
    BY <2>1 DEF ReadFails, ExitsForAReason
  <2>2. CASE ReadHeader
    <3>1. UNCHANGED <<torn, handed, sent>>
      BY <2>2 DEF ReadHeader, phone
    <3>2. CASE torn
      BY <3>1, <3>2 DEF ExitsForAReason
    <3>3. CASE ~torn
      <4>1. torn = FALSE
        BY <3>3 DEF TypeOK
      <4>2. Len(handed) < Len(sent) /\ Undecodable(sent[Len(handed) + 1].head)
        BY <1>2, <2>2, <4>1, HeaderRefused
      <4> QED
        BY <3>1, <4>2 DEF ExitsForAReason
    <3> QED
      BY <3>2, <3>3
  <2>3. CASE EndOfStream
    <3>1. UNCHANGED <<torn, handed, sent, live, video, ramp>>
      BY <2>3 DEF EndOfStream, phone
    <3>2. CASE torn
      BY <3>1, <3>2 DEF ExitsForAReason
    <3>3. CASE ~torn
      <4>1. torn = FALSE
        BY <3>3 DEF TypeOK
      <4>2. Closed /\ Len(handed) = Len(sent)
        BY <2>3, <4>1, AllRead
      <4> QED
        BY <3>1, <4>2 DEF ExitsForAReason, Closed
    <3> QED
      BY <3>2, <3>3
  <2>4. ReadFails \/ ReadHeader \/ EndOfStream
    BY <1>2 DEF Next, Pipeline, Phone, StartRamp, RampOver, EndSession, AbandonSession, Tick,
         Lock, Write, WriteFails, Receive, ReadPayload, Submit, Encoded, vars, reader, phone
  <2> QED
    BY <2>1, <2>2, <2>3, <2>4
<1>3. CASE at' # "ended"
  BY <1>3 DEF ExitsForAReason
<1> QED
  BY <1>1, <1>2, <1>3

-----------------------------------------------------------------------------
(* The theorems. *)

\* The invariant holds at the start.
LEMMA InitIInv == Init => IInv
<1> SUFFICES ASSUME Init PROVE IInv
  OBVIOUS
<1>1. TypeOK
  <2>1. <<>> \in Seq(Unit) /\ <<>> \in Seq(Frame) /\ <<>> \in Seq(Item) /\ Len(<<>>) <= Room
    BY SizesAssumption
  <2> QED
    BY <2>1, Heading DEF Init, TypeOK, Writers, Free
<1>2. Numbered /\ Holding /\ TornOnce /\ ExitsForAReason
  BY DEF Init, Numbered, Holding, TornOnce, ExitsForAReason
<1>3. Delivered
  BY DEF Init, Delivered, Increasing
<1>4. Stream(0, 0)
  <2>1. OutN = 1 /\ OutK = 1 /\ NextN = 1 /\ NextK = 1
    BY DEF Init, OutN, OutK, NextN, NextK, Writing
  <2>2. TornAt(0, 0) /\ Chained(0, 0)
    BY DEF Init, TornAt, Chained
  <2>3. Reached(0) = 1
    BY <2>1 DEF Init, Reached
  <2>4. HandedOn(0) /\ AtHeader(0, 0)
    BY <2>1, <2>3 DEF Init, HandedOn, AtHeader
  <2> QED
    BY <2>2, <2>4 DEF Init, Stream
<1> QED
  BY <1>1, <1>2, <1>3, <1>4 DEF IInv, Streaming

\* The inductive invariant holds.
LEMMA Invariance == Spec => []IInv
<1>1. IInv /\ [Next]_vars => IInv'
  <2> SUFFICES ASSUME IInv, [Next]_vars PROVE IInv'
    OBVIOUS
  <2>1. TypeOK'
    BY TypeStep DEF IInv
  <2>2. Numbered' /\ Holding' /\ TornOnce'
    BY NumberedStep, HoldingStep, TornOnceStep DEF IInv
  <2>3. Streaming'
    BY <2>1, <2>2, StreamingStep DEF IInv
  <2>4. Delivered' /\ ExitsForAReason'
    BY <2>1, DeliveredStep, ExitsStep DEF IInv
  <2> QED
    BY <2>1, <2>2, <2>3, <2>4 DEF IInv
<1> QED
  BY <1>1, InitIInv, PTL DEF Spec

\* The types of the media connection's two sides, for any headers, sizes and room: the
\* lock has at most one holder, and the connection never holds more than its room.
THEOREM TypeCorrect == Spec => []TypeOK
<1>1. IInv => TypeOK
  BY DEF IInv
<1> QED
  BY <1>1, Invariance, PTL

\* What MediaPipeline hands on is what the two writers wrote, frame by frame and in
\* order, except for one frame made of two where the generator was aborted in the middle
\* of a write; for any headers, lengths and room.
THEOREM FramesFound == Spec => []FramesAsWritten
<1>1. IInv => FramesAsWritten
  <2> SUFFICES ASSUME IInv PROVE FramesAsWritten
    OBVIOUS
  <2>1. DOMAIN handed = 1 .. Len(handed) /\ handed \in Seq(Item) /\ torn \in BOOLEAN /\ Delivered
    BY DEF IInv, TypeOK
  <2>2. \A i \in DOMAIN handed : handed[i].whole \in BOOLEAN
    <3>1. \A it \in Item : it.whole \in BOOLEAN
      BY DEF Item
    <3> QED
      BY <2>1, <3>1, Emptiness
  <2>3. Cardinality(Mixed) <= 1
    <3>1. CASE Mixed = {}
      BY <3>1, FS_EmptySet
    <3>2. CASE Mixed # {}
      <4>1. PICK i \in Mixed : TRUE
        BY <3>2
      <4>2. \A j \in Mixed : j = i
        BY <2>1, <2>2, <4>1 DEF Mixed, Delivered
      <4>3. Mixed = {i}
        BY <4>1, <4>2
      <4>4. Cardinality({i}) = 1
        BY FS_Singleton
      <4> QED
        BY <4>3, <4>4
    <3> QED
      BY <3>1, <3>2
  <2>4. ~torn => \A i \in DOMAIN handed : handed[i].whole /\ handed[i].f = sent[i]
    BY <2>1 DEF Delivered
  <2> QED
    BY <2>1, <2>3, <2>4 DEF FramesAsWritten, Delivered
<1> QED
  BY <1>1, Invariance, PTL

\* MediaPipeline exits only when the connection broke, behind a torn frame, at a header it
\* cannot decode or that announces too much, or with every frame read.
THEOREM ExitsExplained == Spec => []ExitsForAReason
<1>1. IInv => ExitsForAReason
  BY DEF IInv
<1> QED
  BY <1>1, Invariance, PTL
=============================================================================
