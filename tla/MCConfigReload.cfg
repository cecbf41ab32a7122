CONSTANTS
    Configs <- MCConfigs
    Defaults <- Plain
    Sheets = {"default.css", "custom.css"}
    DefaultSheet = "default.css"
    Palettes <- MCPalettes
    AppNames <- MCAppNames
    Lower <- MCLower
    HalfRange = 8
    None = None
SPECIFICATION Spec
INVARIANTS TypeOK NoSignalLost RulesAsFiled
PROPERTY ReloadTakesEffect
