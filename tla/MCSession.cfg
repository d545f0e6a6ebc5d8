SPECIFICATION SessionFairSpec
CONSTANTS
    SessionScenarios <- MCScenarios
    SessionIdMax = 1
    PingCount = 2
INVARIANTS
    OneClientPerSession
PROPERTY EventuallySettled
