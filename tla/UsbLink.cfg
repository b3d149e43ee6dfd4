CONSTANTS
    MaxPlugs = 2
    MaxDials = 2
    MaxKeys = 2
    MaxFaults = 1
    OutCap = 1
SPECIFICATION Spec
CHECK_DEADLOCK FALSE
INVARIANTS
    OnlySharedKeysServe
PROPERTIES
    NewAttachmentDialed
    PairedPhoneServed
