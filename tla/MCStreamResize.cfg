SPECIFICATION Spec
CONSTANTS
    EnterSeconds = 1
    ExitSeconds = 1
    RetryCooldown = 1
    TileRecoveryTimeout = 1
    VideoRecoveryTimeout = 1
    VideoRecoveryMaxAttempts = 1
    ClientFailureSeconds = 1
    SessionVideoModes = {"force"}
    Events = {"resize", "gpu"}
    MaxEpoch = 3
    MaxGeneration = 2
    MaxFrameId = 1
    MaxVideoTx = 1
INVARIANTS
    TypeOK
    DamageAccounted
PROPERTIES
    KeepsOwnership
    RecoverySentIsWhole
