CONSTANTS
    p1 = p1
    p2 = p2
    u1 = u1
    u2 = u2
    k1 = k1
    Procs = {p1, p2}
    Udids = {u1, u2}
    Keys = {k1}
    None = None
    Torn = Torn
SPECIFICATION StoreSpec
INVARIANTS
    PromiseKept
