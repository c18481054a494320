SPECIFICATION FairSpec
CONSTANTS
    Buffer = {a, b}
    Asked = {"format", "action"}
    Item <- TwoItems
    MaxRev = 1
    MaxId = 3
INVARIANTS
    ServerFollows
PROPERTIES
    ClosedStaysClosed
    ApplyEditAnswered
