SPECIFICATION Spec
CONSTANTS
    EnterSeconds = 1
    ExitSeconds = 1
    RetryCooldown = 0
    TileRecoveryTimeout = 1
    VideoRecoveryTimeout = 1
    VideoRecoveryMaxAttempts = 1
    ClientFailureSeconds = 1
    SessionVideoModes = {"force"}
    Events = {"feedback", "channel", "transport"}
    MaxEpoch = 2
    MaxGeneration = 1
    MaxFrameId = 2
    MaxVideoTx = 1
INVARIANTS
    RecoveryKeyframeCurrent
    
