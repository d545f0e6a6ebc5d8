SPECIFICATION SessionSpec
CONSTANTS
    SessionScenarios <- MCProbeScenarios
    SessionIdMax = 255
    PingCount = 8
INVARIANT NothingRefused
