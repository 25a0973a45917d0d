SPECIFICATION Spec
CONSTANTS
    Controllers = {gui, host}
    Modes = {Face, Object}
    NoMode = NoMode
    NoOne = NoOne
    Capturer = Capturer
    Capacity = 2
    MaxFrames = 4
    MaxSessions = 2
SYMMETRY MCSymmetry
INVARIANTS
    LifecycleSound
    FramesAccounted
    ReadersSeeOrder
PROPERTIES
    LatestMovesForward
    TakesFreshFrame
