SPECIFICATION WorkspaceSpec
CONSTANTS
    MaxLen = 1
    MaxDocs = 2
    MaxViews = 5
    MaxWindows = 2
CHECK_DEADLOCK FALSE
INVARIANTS
    
    CursorsInText
    QuitDropsNothingUnseen
