SPECIFICATION Spec
CONSTANTS
    Buffer = {a, b}
    Asked = {"goto", "format", "rename"}
    Item <- TwoItems
    MaxRev = 1
    MaxId = 3
INVARIANTS
    EditsAreCurrent
