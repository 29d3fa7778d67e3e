SPECIFICATION TabsSpec
CONSTANTS
    Folders <- MCFolders
    MainPositions <- MCAnyPosition
INVARIANTS
    TabsTypeOK
    FoldersInOrder
    IndexesExact
    RowsHaveModels
    MainTabFirst
CHECK_DEADLOCK FALSE
