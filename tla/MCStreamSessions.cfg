SPECIFICATION Spec
CONSTANTS
    EnterSeconds = 1
    ExitSeconds = 1
    RetryCooldown = 0
    TileRecoveryTimeout = 1
    VideoRecoveryTimeout = 1
    VideoRecoveryMaxAttempts = 1
    ClientFailureSeconds = 1
    SessionVideoModes = {"auto"}
    Events = {"disconnect"}
    MaxEpoch = 3
    MaxGeneration = 1
    MaxFrameId = 1
    MaxVideoTx = 1
INVARIANTS
    OwnershipInv
