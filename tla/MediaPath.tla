------------------------------ MODULE MediaPath ------------------------------
(***************************************************************************)
(* The media connection, byte stream and all.  On the phone's side two     *)
(* tasks of the mock iPhone (desktop/tools/mock-iphone/src/lib.rs) write   *)
(* frames to one connection, each under the connection's lock: the video   *)
(* generator, which the end of the session aborts wherever it is, and a    *)
(* speedtest ramp, which goes on.  On the desktop's side MediaPipeline     *)
(* (desktop/crates/mediapipeline) cuts the stream into frames again, sends *)
(* filler to the counter and pictures to the sinks, of which PreviewSink   *)
(* (desktop/src-tauri/src/preview.rs) is the one that is registered.       *)
(*                                                                         *)
(* The stream is a sequence of units: a header is two (magic, type, flags  *)
(* and codec; size, sequence number and length), a payload `len' of them.  *)
(* A unit says which frame it is a part of, which the reader only learns   *)
(* from where it stands.  No payload is taken for a header's first half:   *)
(* neither the gradient nor the filler holds the magic.                    *)
(***************************************************************************)
EXTENDS Naturals, Sequences, FiniteSets

CONSTANTS
    Heads,         \* headers of the video frames a phone may send
    PictureSize,   \* units of an NV12 picture of the session's size
    MaxFrame,      \* MAX_FRAME_BYTES, in units
    Room,          \* units the connection holds
    MaxVideo,      \* video frames considered
    MaxFiller      \* filler frames of the ramp

\* MediaType, Codec; KEYFRAME, ENCODED and FULL_RANGE change nothing on the way.
VideoType == 1
Raw == 0
Hevc == 1
H264 == 2
\* MediaHeader.  even: width and height are; marker: seq is in the filler's range, which a
\* phone's video reaches when it has counted far enough.
Header == [type : Nat, codec : Nat, config : BOOLEAN, len : Nat, even : BOOLEAN,
           marker : BOOLEAN]
ASSUME SizesAssumption ==
    PictureSize \in Nat \ {0} /\ MaxFrame \in Nat /\ Room \in Nat \ {0} /\ Heads \subseteq Header
ASSUME BoundsAssumption == MaxVideo \in Nat /\ MaxFiller \in Nat

Writers == {"video", "ramp"}
Free == "free"
NoFrame == [own |-> Free, n |-> 0, head |-> [type |-> 0, codec |-> 0, config |-> FALSE,
                                             len |-> 0, even |-> FALSE,
                                             marker |-> FALSE]]

VARIABLES
    live,       \* the phone's session loop runs
    ramp,       \* its ramp task: "off", "on", "over"
    video,      \* its generator: "on", "over"
    lock,       \* who holds the connection's lock, or Free
    cur, put,   \* the frame being written, and the units of it that are out
    sent,       \* the frames of which a unit is out, in order
    torn,       \* a write was cut short by the abort
    wire,       \* units in the connection
    at, buf,    \* the pipeline: "header", "payload", "encode", "ended"; what read_exact has
    hdr,        \* the frame whose header was decoded
    handed,     \* what the pipeline took off the stream, and who got it
    lost,       \* the connection broke
    due         \* MIN_EMIT_INTERVAL_MS have passed since the last preview was begun

phone == <<live, ramp, video, lock, cur, put, sent, torn>>
reader == <<at, buf, hdr, handed, lost>>
vars == <<phone, wire, reader, due>>

Init ==
    /\ live = TRUE /\ ramp = "off" /\ video = "on"
    /\ lock = Free /\ cur = NoFrame /\ put = 0 /\ sent = <<>> /\ torn = FALSE
    /\ wire = <<>>
    /\ at = "header" /\ buf = <<>> /\ hdr = NoFrame /\ handed = <<>> /\ lost = FALSE
    /\ due = TRUE

-----------------------------------------------------------------------------
(* The phone. *)

Running(w) == IF w = "video" THEN video = "on" ELSE ramp = "on"

\* SPEEDTEST_START: the ramp is a task of its own.
StartRamp ==
    /\ live /\ ramp = "off"
    /\ ramp' = "on"
    /\ UNCHANGED <<live, video, lock, cur, put, sent, torn, wire, reader, due>>

\* Filler is raw, of the session's picture size, and numbered from the range's base.
FillerHead == [type |-> VideoType, codec |-> Raw, config |-> FALSE, len |-> PictureSize,
               even |-> TRUE, marker |-> TRUE]
HeadsOf(w) == IF w = "video" THEN Heads ELSE {FillerHead}
Made(w) == Cardinality({i \in DOMAIN sent : sent[i].own = w})
Quota(w) == IF w = "video" THEN MaxVideo ELSE MaxFiller

\* Mutant: a task writes without the lock.
LockBroken(w) ==
    /\ Running(w) /\ Made(w) < Quota(w)
    /\ \E h \in HeadsOf(w) : cur' = [own |-> w, n |-> Len(sent) + 1, head |-> h]
    /\ lock' = w /\ put' = 0
    /\ UNCHANGED <<live, ramp, video, sent, torn, wire, reader, due>>

\* The next frame is due; media.lock().await.
Lock(w) ==
    /\ Running(w) /\ lock = Free /\ Made(w) < Quota(w)
    /\ \E h \in HeadsOf(w) : cur' = [own |-> w, n |-> Len(sent) + 1, head |-> h]
    /\ lock' = w /\ put' = 0
    /\ UNCHANGED <<live, ramp, video, sent, torn, wire, reader, due>>

Parts(f) == 2 + f.head.len

\* write_media_frame: the header, the payload, each as the connection has room.  With
\* the last unit the lock is free again.
Write(w) ==
    /\ lock = w /\ at # "ended" /\ Len(wire) < Room
    /\ wire' = Append(wire, [f |-> cur, part |-> put + 1])
    /\ put' = put + 1
    /\ sent' = IF put = 0 THEN Append(sent, cur) ELSE sent
    /\ lock' = IF put + 1 = Parts(cur) THEN Free ELSE w
    /\ UNCHANGED <<live, ramp, video, cur, torn, reader, due>>

\* The desktop has let go of the connection: the write fails and its task returns.
WriteFails(w) ==
    /\ lock = w /\ at = "ended"
    /\ lock' = Free
    /\ video' = IF w = "video" THEN "over" ELSE video
    /\ ramp' = IF w = "ramp" THEN "over" ELSE ramp
    /\ UNCHANGED <<live, cur, put, sent, torn, wire, reader, due>>

\* The last step of the ramp.
RampOver ==
    /\ ramp = "on" /\ lock # "ramp" /\ Made("ramp") = MaxFiller
    /\ ramp' = "over"
    /\ UNCHANGED <<live, video, lock, cur, put, sent, torn, wire, reader, due>>

\* A BYE or a control error ends the session: handle.abort() drops the generator, and
\* the lock with it, at whatever await it is.
EndSession ==
    /\ live
    /\ live' = FALSE /\ video' = "over"
    /\ lock' = IF lock = "video" THEN Free ELSE lock
    /\ torn' = (lock = "video" /\ put > 0)
    /\ UNCHANGED <<ramp, cur, put, sent, wire, reader, due>>

\* A control send that fails returns by `?' past the abort: the generator goes on.
AbandonSession ==
    /\ live
    /\ live' = FALSE
    /\ UNCHANGED <<ramp, video, lock, cur, put, sent, torn, wire, reader, due>>

\* The last owner of the connection is gone.
Closed == ~live /\ video # "on" /\ ramp # "on"

-----------------------------------------------------------------------------
(* The pipeline. *)

Need == IF at = "header" THEN 2 ELSE hdr.head.len

\* read_exact takes what is there.
Receive ==
    /\ at \in {"header", "payload"} /\ Len(buf) < Need /\ wire # <<>>
    /\ buf' = Append(buf, Head(wire)) /\ wire' = Tail(wire)
    /\ UNCHANGED <<phone, at, hdr, handed, lost, due>>

\* The headers that halves of two frames may give: of the first one's type, codec and
\* flags, and of any length, size and number.
Mixtures(h) == [type : {h.type}, codec : {h.codec}, config : {h.config},
                len : 0 .. MaxFrame + 1, even : BOOLEAN, marker : BOOLEAN]

\* MediaHeader::decode of two units.  NoFrame is an error.
Decode(u, v) ==
    IF u.part # 1 \/ u.f.head.type # VideoType \/ u.f.head.codec \notin {Raw, Hevc, H264}
    THEN {NoFrame}
    ELSE IF v = [f |-> u.f, part |-> 2] THEN {u.f}
    ELSE {[own |-> u.f.own, n |-> 0, head |-> h] : h \in Mixtures(u.f.head)}

\* A header that does not decode, or announces too long a payload, ends the pipeline.
ReadHeader ==
    /\ at = "header" /\ Len(buf) = 2
    /\ buf' = <<>>
    /\ \E f \in Decode(buf[1], buf[2]) :
           IF f = NoFrame \/ f.head.len > MaxFrame
           THEN at' = "ended" /\ UNCHANGED hdr
           ELSE at' = "payload" /\ hdr' = f
    /\ UNCHANGED <<phone, wire, handed, lost, due>>

\* split_nv12 takes a payload of exactly two planes; PassthroughDecoder makes a picture
\* of any coded frame but a configuration.
SplitNv12(h) == h.len = PictureSize
Decoded(h) == ~h.config

\* Where a frame goes: what is numbered like filler to the counter, whoever sent it; what
\* gives a picture to the sinks.
WayOf(h) ==
    CASE h.marker -> "counter"
      [] ~h.marker /\ (IF h.codec = Raw THEN SplitNv12(h) ELSE Decoded(h)) -> "sinks"
      [] OTHER -> "none"

\* PreviewSink::submit: within the interval the frame is dropped; otherwise the encoder
\* is started, and awaited.
Submit == IF due THEN at' = "encode" /\ due' = FALSE ELSE at' = "header" /\ UNCHANGED due

\* The payload is the frame's own.
Whole(f, units) == f.n > 0 /\ units = [i \in 1 .. f.head.len |-> [f |-> f, part |-> i + 2]]

\* Mutant: an error of ingest ends the loop.
ReadPayloadStrict ==
    /\ at = "payload" /\ Len(buf) = hdr.head.len
    /\ LET item == [f |-> hdr, whole |-> Whole(hdr, buf), to |-> WayOf(hdr.head)] IN
       /\ handed' = Append(handed, item)
       /\ at' = IF item.to = "none" THEN "ended" ELSE "header"
    /\ buf' = <<>>
    /\ UNCHANGED <<phone, wire, hdr, lost, due>>

\* The frame is complete: record, or ingest and submit.  What cannot be ingested is
\* logged, and the loop goes on.
ReadPayload ==
    /\ at = "payload" /\ Len(buf) = hdr.head.len
    /\ LET item == [f |-> hdr, whole |-> Whole(hdr, buf), to |-> WayOf(hdr.head)] IN
       /\ handed' = Append(handed, item)
       /\ IF item.to = "sinks" THEN Submit ELSE at' = "header" /\ UNCHANGED due
    /\ buf' = <<>>
    /\ UNCHANGED <<phone, wire, hdr, lost>>

\* Mutant: nobody is told of an encoder that failed.
EncodedUnheard ==
    /\ at = "encode" /\ hdr.head.even
    /\ at' = "header"
    /\ UNCHANGED <<phone, wire, buf, hdr, handed, lost, due>>

\* The encoder is done and session://preview emitted.  Of a picture with an odd side it
\* runs off the chroma plane, its thread panics, and there is no preview.
Encoded ==
    /\ at = "encode"
    /\ at' = "header"
    /\ UNCHANGED <<phone, wire, buf, hdr, handed, lost, due>>

\* The interval passes.
Tick ==
    /\ ~due
    /\ due' = TRUE
    /\ UNCHANGED <<phone, wire, reader>>

\* read_exact at the end of the stream, which may be in the middle of a frame.
EndOfStream ==
    /\ at \in {"header", "payload"} /\ Len(buf) < Need /\ wire = <<>> /\ Closed
    /\ at' = "ended"
    /\ UNCHANGED <<phone, wire, buf, hdr, handed, lost, due>>

\* The connection breaks under the pipeline.
ReadFails ==
    /\ at \in {"header", "payload"} /\ Len(buf) < Need
    /\ at' = "ended" /\ lost' = TRUE
    /\ UNCHANGED <<phone, wire, buf, hdr, handed, due>>

Pipeline == Receive \/ ReadHeader \/ ReadPayload \/ Encoded \/ EndOfStream
Phone(w) == Lock(w) \/ Write(w) \/ WriteFails(w)

Next ==
    \/ StartRamp \/ RampOver \/ EndSession \/ AbandonSession \/ ReadFails \/ Tick
    \/ \E w \in Writers : Phone(w)
    \/ Pipeline

\* The pipeline is a task that runs whenever it can, and so is a writer that has the lock.
Fairness == WF_vars(Pipeline) /\ \A w \in Writers : WF_vars(Write(w) \/ WriteFails(w))
Spec == Init /\ [][Next]_vars /\ Fairness

-----------------------------------------------------------------------------
Frame == [own : Writers \cup {Free}, n : Nat, head : Header]
Unit == [f : Frame, part : Nat]
Item == [f : Frame, whole : BOOLEAN, to : {"sinks", "counter", "none"}]

\* Types: the lock has at most one holder, the connection holds no more than its room.
TypeOK ==
    /\ live \in BOOLEAN /\ torn \in BOOLEAN /\ lost \in BOOLEAN /\ due \in BOOLEAN
    /\ ramp \in {"off", "on", "over"} /\ video \in {"on", "over"}
    /\ lock \in Writers \cup {Free} /\ cur \in Frame /\ put \in Nat /\ sent \in Seq(Frame)
    /\ wire \in Seq(Unit) /\ Len(wire) <= Room /\ buf \in Seq(Unit)
    /\ at \in {"header", "payload", "encode", "ended"} /\ hdr \in Frame
    /\ handed \in Seq(Item)

Increasing(items) ==
    \A i, j \in DOMAIN items :
        i < j /\ items[i].whole /\ items[j].whole => items[i].f.n < items[j].f.n
Mixed == {i \in DOMAIN handed : ~handed[i].whole}

\* Two tasks write to one connection, and MediaPipeline finds their frames again: what
\* it hands on is what was written, frame by frame and in the same order.  Only the
\* abort of the generator in the middle of a write lets the ramp's bytes into a frame,
\* and then no more than one frame is made of the two.
FramesAsWritten ==
    /\ ~torn => \A i \in DOMAIN handed : handed[i].whole /\ handed[i].f = sent[i]
    /\ Increasing(handed)
    /\ Cardinality(Mixed) <= 1

Undecodable(h) == \/ h.type # VideoType \/ h.codec \notin {Raw, Hevc, H264} \/ h.len > MaxFrame

\* MediaPipeline goes on through frames it cannot ingest and pictures it cannot encode.
\* It exits when the connection breaks, after a torn frame, at a header that announces
\* what it does not know or too much, or when both writers are gone and every frame they
\* wrote was read.
ExitsForAReason ==
    at = "ended" => \/ lost \/ torn
                    \/ Len(handed) < Len(sent) /\ Undecodable(sent[Len(handed) + 1].head)
                    \/ Closed /\ Len(handed) = Len(sent)

\* A task that holds the connection's lock lets go of it: reading, ingesting and encoding
\* never leave a writer without room for good, nor does the end of the pipeline.
WritersProceed == \A w \in Writers : lock = w ~> lock # w
=============================================================================
