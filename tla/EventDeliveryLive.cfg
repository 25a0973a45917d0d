SPECIFICATION FairSpec
CONSTANTS
    Modes = {Face, Object}
    FirstMode = Face
    NoMode = NoMode
    LogCapacity = 1
    WriterCapacity = 1
    StoreRows = 1
    HistoryLimit = 1
    MaxBatch = 1
    MaxEvents = 2
    MaxCalls = 1
PROPERTIES
    LoggedIsHanded
    HandedIsSettled
