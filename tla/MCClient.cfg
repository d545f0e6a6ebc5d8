SPECIFICATION ContentFairSpec
CONSTANTS
    Tiles = {"t1", "t2"}
    FrameCapacity = 1
    ContentScenarios <- MCScenarios
CHECK_DEADLOCK FALSE

    
    
PROPERTIES
    
    VideoNeverLate
    CommitsWhole
    EventuallyShown
