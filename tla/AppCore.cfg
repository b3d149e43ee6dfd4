CONSTANTS
    w1 = w1
    u1 = u1
    WifiConns = {w1}
    UsbConns = {u1}
    None = None
    WifiCap = 1
    UsbCap = 1
    MaxStarts = 2
    Messages = {"device", "cameras"}
SPECIFICATION LiveSpec
CHECK_DEADLOCK FALSE
INVARIANTS
    ReadyHasSession
    OutboundNotFinished
    SoleSourceConsistent
PROPERTIES
    EveryControlServed
