SPECIFICATION ControlSpec
CONSTANTS
    MaxMessages = 2
    Sizes = {1, 2}
    Types = {summary, other, config}
    Sockets = {a}
    NoSocket = NoSocket
    MaxPendingBytes = 0
    SyscallBurst = 1
    DrainLimit = 2
    Tiles = {t1}
    SummaryType = summary
    SummarySize = 2
    MaxGeneration = 2
    MaxEpoch = 1
INVARIANTS OneSummaryQueued RepairRemembered
PROPERTY SenderReports
