\* Tiles and video: nothing lost for good, no picture without its reference.
SPECIFICATION MediaSpec
CONSTANTS
    Tiles = {1, 2}
    Regions = {{1, 2}}
    LargePercent = 75
    TileScenarios <- MCScenarios
    VideoScenarios <- MCVideoScenarios
    DecodeCapacity = 1
    PresentCapacity = 1
    MaxAttempts = 2
INVARIANTS TilesAccounted ReferencesIntact
 
