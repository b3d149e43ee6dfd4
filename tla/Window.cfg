SPECIFICATION Spec
CHECK_DEADLOCK FALSE
CONSTANTS
    MaxServers = 1
    MaxSessions = 2
    MaxLists = 1
    MaxClicks = 1
    EventCap = 1
INVARIANTS
    WindowAgrees
PROPERTIES
    ChoiceKept
