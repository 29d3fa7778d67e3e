SPECIFICATION Spec
CONSTANTS
    Topics <- MCTopics
    History <- MCHistory
    MaxMsg <- MCMaxMsg
    PageSize <- MCPageSize
    MaxPages <- MCMaxPages
    MaxFetches <- MCMaxFetches
    MaxEdits <- MCMaxEdits
    MaxRows <- MCMaxRows
INVARIANTS
    TypeOK
    TopicIndexSound
    OrderedWhileContinued
    NoTopicOverlooked
CHECK_DEADLOCK FALSE
