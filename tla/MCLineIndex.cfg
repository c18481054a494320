SPECIFICATION Spec
CONSTANTS
    NL = NL
    BLANK = BLANK
    Byte = {a}
    MaxLen = 3
    MaxIns = 2
    MaxEdits = 2
INVARIANTS
    InverseRestores
    ApplyIsSplicing
    CachedStartsAreExact
    LineEditIsWhole
    MarksStayOnTheirLine
