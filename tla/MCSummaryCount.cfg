SPECIFICATION SummarySpec
CONSTANTS
    MaxMessages = 2
    Sizes = {2}
    Types = {summary, other}
    Sockets = {a}
    NoSocket = NoSocket
    MaxPendingBytes = 0
    SyscallBurst = 2
    DrainLimit = 1
    Tiles = {t1}
    SummaryType = summary
    SummarySize = 2
    MaxGeneration = 2
    MaxEpoch = 1
INVARIANT CountRetired
