SPECIFICATION Spec
CONSTANTS
    Modes = {Face, Object}
    FirstMode = Face
    NoMode = NoMode
    LogCapacity = 2
    WriterCapacity = 2
    StoreRows = 1
    HistoryLimit = 1
    MaxBatch = 2
    MaxEvents = 3
    MaxCalls = 1
INVARIANTS
    StoredOnceInOrder
    ShownOnce
    MetEventsAreHanded
    NothingVanishes
    NewestRowsAreKept
