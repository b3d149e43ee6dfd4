SPECIFICATION Spec
CHECK_DEADLOCK FALSE
CONSTANTS
    s1 = s1
    s2 = s2
    r1 = r1
    r2 = r2
    Sessions = {s1, s2}
    Runs = {r1, r2}
    Ramp <- MCRamp
    Width = 3840
    Height = 2160
    SeqSpan = 3
    SeqBase = 1
    WireCap = 1
    MaxVideo = 2
    MaxLost = 1
    TelemetryKbps = {5000}
SYMMETRY Symmetric
INVARIANTS
    ForeignArrivalsExplained
    WholeRampSustained
    MoreGoodputNeverWorse
