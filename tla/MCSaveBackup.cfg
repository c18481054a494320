SPECIFICATION Spec
CONSTANTS
    Text = {t0, t1}
    Blank = t0
    Torn = Torn
    Gone = Gone
    MaxId = 6
    MaxEvents = 4
    Options <- Combinations
INVARIANTS
    BackupOfInPlaceIsCopy
CHECK_DEADLOCK FALSE
