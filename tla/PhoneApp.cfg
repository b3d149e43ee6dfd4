SPECIFICATION Spec
CHECK_DEADLOCK FALSE
CONSTANTS
    MaxAttempts = 2
    MaxTaps = 2
INVARIANTS
    SessionUnderControl
    CameraOffAtRest
    EmitterOffAtRest
PROPERTIES
    ConnectReturns
