SPECIFICATION MCSpec
CONSTANTS
    Versions = {1, 2, 3}
    Shape <- MCShape
    FloatOutputs = {1, 2}
    Stamp <- MCStamp
    Gpu <- MCGpu
    Slug <- MCSlug
    AnyGpu = "gpu"
    FastFp16 = {"gpu0"}
    Configs <- MCConfigs
    Frames = {f1, f2}
    Unparsable = Unparsable
    None = None
    Environments <- MCEnvironments
    InputShape = "320x320"
    RowOutputs = {1, 2}
    MaxEngines = 3
    MaxSeen = 2
    Unit = 4
    Levels = 2
    FrameSizes <- MCFrameSizes
    YoloOutputs <- MCYoloOutputs
    SsdOutputs <- MCSsdOutputs
    ContourLists <- MCContourLists
    Thresholds = {1, 2}
    MostOverlaps <- MCMostOverlaps
    DetectionLists <- MCObjectLists
    TrackLists <- MCObjectLists
    LeastOverlaps <- MCLeastOverlaps
    Items <- MCItems
    Clicks <- MCClicks
    WindowSize = 3
    Latencies = {1, 4}
    NoPoint = NoPoint
SYMMETRY MCSymmetry
INVARIANTS
    TypeOK
    ReadyAsAsked
    DetectionsExplained
    AssociationStable
    ClicksLandWhereDrawn
    WindowsHoldNewest
    LatenciesExplained
PROPERTIES
    DirtyCacheHeals
    ImplementsPort
