---------------------------- MODULE MCAdaptation ----------------------------
(* Instances of Adaptation for TLC.                                         *)
EXTENDS Adaptation

Mode(f, c, w, h, r, b) == [format |-> f, codec |-> c, width |-> w, height |-> h,
                           fps |-> r, bitrate |-> b]

\* Mode::default_streaming_1080p30, the mode the driver starts in.
DefaultModes == {Mode("Encoded", "Hevc", 1920, 1080, 30, 30000)}

\* That one; a raw one; an H.264 one at the film rate, off the 30/60 ladder; and
\* one whose resolution is not in the table.
VariedModes == DefaultModes \cup
    {Mode("Raw", "None", 3840, 2160, 60, 0),
     Mode("Encoded", "H264", 1280, 720, 24, 13824),
     Mode("Encoded", "Hevc", 640, 480, 30, 3600)}
=============================================================================
