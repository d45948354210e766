SPECIFICATION Spec
CONSTANTS
    Palette <- MCPalette
    Options <- MCOptions
    Labels <- MCLabels
    Conditions <- MCConditions
    Texts <- MCTexts
    Definitions <- MCDefinitions
    Features <- MCFeatures
    MaxNodes = 2
    MaxEdits = 6
INVARIANTS
    SaveIsAccepted
    MermaidKeepsGraph
    OfferedIsEntitled
