----------------------------- MODULE MCMediaPath -----------------------------
EXTENDS MediaPath

H(type, codec, config, len, even, marker) ==
    [type |-> type, codec |-> codec, config |-> config, len |-> len, even |-> even,
     marker |-> marker]
\* A raw picture, one with odd sides, one numbered like filler, a raw frame of another
\* size; HEVC configuration and a coded frame; one over the limit, and a type from a later
\* version.
MCHeads == {H(1, 0, FALSE, 2, TRUE, FALSE), H(1, 0, FALSE, 2, FALSE, FALSE),
            H(1, 0, FALSE, 2, TRUE, TRUE), H(1, 0, FALSE, 1, TRUE, FALSE),
            H(1, 1, TRUE, 1, TRUE, FALSE), H(1, 2, FALSE, 1, TRUE, FALSE),
            H(1, 0, FALSE, 4, TRUE, FALSE), H(2, 0, FALSE, 1, TRUE, FALSE)}
==============================================================================
