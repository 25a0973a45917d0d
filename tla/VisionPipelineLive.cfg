SPECIFICATION FairSpec
CONSTANTS
    Controllers = {gui}
    Modes = {Face}
    NoMode = NoMode
    NoOne = NoOne
    Capturer = Capturer
    Capacity = 2
    MaxFrames = 4
    MaxSessions = 2
PROPERTIES
    StopReturns
    FramesArePresented
