SPECIFICATION Spec
CONSTANTS
    p = p
    q = q
    Plugins <- MCPlugins
    PluginId <- MCPluginId
    PluginMode <- MCPluginMode
    Modes <- MCModes
    Face = "Face"
    Settings = {1, 2}
    Tools <- MCTools
    Points <- MCPoints
    Seconds <- MCSeconds
    NoMode = "none"
    NoTool = "none"
    MaxRules = 2
    MaxDraft = 3
SYMMETRY MCSymmetry
INVARIANTS
    TypeOK
    SessionAgrees
PROPERTIES
    RebuiltOrKept
    StartUsesShownRules
