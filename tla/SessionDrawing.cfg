SPECIFICATION Spec
CONSTANTS
    p = p
    q = q
    Plugins <- MCPlugins
    PluginId <- MCPluginId
    PluginMode <- MCPluginMode
    Modes <- MCModes
    Face = "Face"
    Settings = {1}
    Tools <- MCTools
    Points <- MCPoints
    Seconds <- MCSeconds
    NoMode = "none"
    NoTool = "none"
    MaxRules = 1
    MaxDraft = 3
PROPERTIES
    DrawToolsRestWhileRunning
