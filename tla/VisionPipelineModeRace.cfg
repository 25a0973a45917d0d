SPECIFICATION Spec
CONSTANTS
    Controllers = {gui}
    Modes = {Face, Object}
    NoMode = NoMode
    NoOne = NoOne
    Capturer = Capturer
    Capacity = 1
    MaxFrames = 2
    MaxSessions = 1
INVARIANTS
    TrackerSeesOneMode
