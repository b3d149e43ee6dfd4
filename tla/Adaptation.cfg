CONSTANTS
    InitialModes <- VariedModes
    MaxStable = 4
SPECIFICATION LadderLiveSpec
INVARIANTS
    BitrateInRange
PROPERTIES
    LadderIsMonotone
    DropsAnswered
    LadderSettles
