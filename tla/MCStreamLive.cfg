SPECIFICATION FairSpec
CONSTANTS
    EnterSeconds = 1
    ExitSeconds = 1
    RetryCooldown = 1
    TileRecoveryTimeout = 1
    VideoRecoveryTimeout = 1
    VideoRecoveryMaxAttempts = 1
    ClientFailureSeconds = 1
    SessionVideoModes = {"force"}
    Events = {"resize"}
    MaxEpoch = 2
    MaxGeneration = 2
    MaxFrameId = 1
    MaxVideoTx = 1
PROPERTIES
    DisplaySettles
