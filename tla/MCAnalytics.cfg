SPECIFICATION MCSpec
CONSTANTS
    Classes = {person, car}
    MinHits = 2
    MaxLostFrames = 1
    MaxTrajectoryPoints = 2
    MaxDetections = 2
    MaxId = 4
    MaxFrames = 6
    t1 = t1
    t2 = t2
    Ids <- MCIds
    Filters <- MCFilters
    Feet <- MCFeet
    Roi <- MCRoi
    Lines <- MCLines
    Gaps <- MCGaps
    LoiterTime = 3
    MaxTime = 6
    MaxCrossings = 4
INVARIANTS
    CountersAreTrue
    TrajectoryContinuous
    MemoryOfPresentOnly
    OccupancyExplained
    StayBeginsWithIntrusion
PROPERTIES
    ShownFromConfirmationToExpiry
    ImplementsLifecycle
    EventsMatchMovement
