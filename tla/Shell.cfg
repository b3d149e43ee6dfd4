SPECIFICATION Spec
CHECK_DEADLOCK FALSE
CONSTANTS
    EventCap = 1
    OutCap = 1
    MaxServers = 2
    MaxSessions = 2
    MaxEvents = 2
    MaxClicks = 2
    MaxStalls = 1
PROPERTIES
    SnapshotAnswered
    BlockedGoesOn
