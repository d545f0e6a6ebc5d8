SPECIFICATION ChannelsSpec
CONSTANTS
    MaxMessages = 3
    Sizes = {1, 2}
    Types = {summary, other}
    Sockets = {a, b}
    NoSocket = NoSocket
    MaxPendingBytes = 4
    SyscallBurst = 2
    DrainLimit = 2
    MaxPackets = 4
    PacketSizes = {1, 2}
    RingEntries = 2
    MaxQueuedPackets = 3
    MaxQueuedBytes = 4
    UdpBurst = 2
    UdpDrainLimit = 2
    FrameSamples = 2
    Quantum = 1
    RingFrames = 3
    Tolerance = 2
    MaxTx = 1
    AudioScenarios <- MCAudioScenarios
    PacketSamples = 2
    CodecDelay = 1
    Period = 1
    TargetSamples = 4
    MaxQueuedSamples = 6
    LateSamples = 0
    HoldMax = 2
    InboxCapacity = 2
    PlayScenarios <- MCPlayScenarios
SYMMETRY Symmetry
INVARIANTS InFlightIsHead QueueExact OutcomeMatchesWire Framing
    UdpLockstep UdpReportedOnce
    AudioContained AudioUnbroken ClockHonest
PROPERTY CompletedOnce
