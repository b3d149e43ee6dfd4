CONSTANTS
    c1 = c1
    c2 = c2
    k1 = k1
    k2 = k2
    s1 = s1
    s2 = s2
    v1 = v1
    v2 = v2
    Conns = {c1, c2}
    Sids = {s1, s2}
    Secrets = {k1, k2}
    Versions = {v1, v2}
    ProtoVer = v1
    None = None
    MaxSent = 2
SPECIFICATION MCSpec
CHECK_DEADLOCK FALSE
INVARIANTS
    Agreement
    MediaHelloMatches
    RefusedForCause
PROPERTIES
    ConnectReturns
    ImplementsAdmission
