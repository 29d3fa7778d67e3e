SPECIFICATION FairSpec
CONSTANTS
    Chats <- MCChats
    MaxClient <- MCMaxClient
    MaxRequest <- MCMaxRequest
    MaxQueued <- MCMaxQueued
INVARIANTS
    RowsAlive
PROPERTIES
    NextSessionSetUp
    ResponsesFinish
    DestructorEnds
