SPECIFICATION Spec
CONSTANTS
    Origins = {user}
    UserInput = user
    Hints = {"Continue", "BreakBefore"}
    Texts = {t1, t2}
    LogCap = 2
    MaxNodes = 3
    MaxRevision = 4
SYMMETRY TextSymmetry
INVARIANTS
    TypeOK
    TextIsCurrentNodes
    
    LogReplaysToText
PROPERTIES
    RevisionNamesText
    
