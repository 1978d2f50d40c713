SPECIFICATION Spec
CONSTANTS
    CNIDs = {2, 3, 4, 5}
    Names = {"", "a", "b"}
    ROOT_FOLDER_CNID = 2
    Catalogs <- SmallCatalogs
INVARIANTS
    TypeOK
    ListedExactlyOnce
    PathsLeadToTheRoot
PROPERTIES
    WalkEnds
    TraversesTheTree
CHECK_DEADLOCK FALSE
