SPECIFICATION Spec
CONSTANTS
    Origins = {user, lsp}
    MaxNodes = 6
INVARIANTS
    TypeOK
    TreeShape
    GroupsAreChains
    CurrentIsTip
PROPERTIES
    UndoRedoInverse
    ChronologicalInverse
