CONSTANTS
    m1 = m1
    m2 = m2
    DeadAfter = 3
    EventCap = 1
    OutCap = 1
    TeleCap = 1
    UpCap = 2
    MaxFaults = 1
    Modes = {m1, m2}
    FirstMode = m1
SPECIFICATION Spec
CHECK_DEADLOCK FALSE
INVARIANTS
    EndsForAReason
    ModesConfirmed
PROPERTIES
    DriverProceeds
    SilentPhoneNoticed
