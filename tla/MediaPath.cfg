SPECIFICATION Spec
CHECK_DEADLOCK FALSE
CONSTANTS
    Heads <- MCHeads
    PictureSize = 2
    MaxFrame = 3
    Room = 3
    MaxVideo = 2
    MaxFiller = 3
INVARIANTS
    FramesAsWritten
    ExitsForAReason
PROPERTIES
    WritersProceed
