SPECIFICATION Spec
CONSTANTS
    Modes = {Face, Object}
    FirstMode = Face
    NoMode = NoMode
    LogCapacity = 2
    WriterCapacity = 2
    StoreRows = 2
    HistoryLimit = 1
    MaxBatch = 1
    MaxEvents = 2
    MaxCalls = 1
INVARIANTS
    NotifiedIsPersisted
