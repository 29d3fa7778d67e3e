SPECIFICATION Spec
CONSTANTS
    Topics <- MCTopics
    History <- MCHistory
    MaxMsg <- MCMaxMsg
    PageSize <- MCPageSize
    MaxPages <- MCMaxPages
    MaxFetches <- MCMaxFetches
    MaxEdits <- MCMaxEdits
    MaxRows <- MCMaxRows
INVARIANTS
    DeletedLastMessageRefetched
CHECK_DEADLOCK FALSE
