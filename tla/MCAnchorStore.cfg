SPECIFICATION StoreSpec
CONSTANTS
    NL = NL
    BLANK = BLANK
    NoAnchor = NoAnchor
    Letter = Letter
    Byte = {Letter}
    Texts <- MCTexts
    Inserts <- MCInserts
    Kinds <- MCKinds
    MaxLen = 4
    MaxDel = 2
    MaxChanged = 2
    MaxIds = 2
INVARIANTS
    StoreIsOrdered
    SweepFollowsRule
    
CHECK_DEADLOCK FALSE
