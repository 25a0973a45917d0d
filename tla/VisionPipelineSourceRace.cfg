SPECIFICATION Spec
CONSTANTS
    Controllers = {gui}
    Modes = {Face}
    NoMode = NoMode
    NoOne = NoOne
    Capturer = Capturer
    Capacity = 1
    MaxFrames = 1
    MaxSessions = 1
INVARIANTS
    SourceNotShared
