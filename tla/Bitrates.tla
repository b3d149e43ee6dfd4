------------------------------ MODULE Bitrates ------------------------------
(***************************************************************************)
(* The bitrate tables of desktop/crates/adaptive/src/tables.rs, in kbps.   *)
(***************************************************************************)
EXTENDS Integers

HevcTargets == [r \in {<<1280, 720, 30>>, <<1280, 720, 60>>, <<1920, 1080, 30>>,
                       <<1920, 1080, 60>>, <<3840, 2160, 30>>} |->
                  CASE r = <<1280, 720, 30>>  -> 12000
                    [] r = <<1280, 720, 60>>  -> 20000
                    [] r = <<1920, 1080, 30>> -> 30000
                    [] r = <<1920, 1080, 60>> -> 50000
                    [] r = <<3840, 2160, 30>> -> 90000]

HevcTargetKbps(w, h, f) ==
    IF <<w, h, f>> \in DOMAIN HevcTargets THEN HevcTargets[<<w, h, f>>]
                                          ELSE (w * h * f) \div 2560

H264TargetKbps(w, h, f) == (HevcTargetKbps(w, h, f) * 8) \div 5

\* Raw NV12: 12 bits a pixel.  (width * height * 12 * fps) / 1000, multiplied in an
\* order that stays within 32 bits.
RawBitrateKbps(w, h, f) ==
    LET frame == w * h * 12
    IN  (frame \div 1000) * f + ((frame % 1000) * f) \div 1000
=============================================================================
