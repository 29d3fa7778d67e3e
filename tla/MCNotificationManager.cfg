SPECIFICATION FairSpec
CONSTANTS
    Groups <- MCGroups
    Chats <- MCChats
    ChatOf <- MCChatOf
    MaxId <- MCMaxId
    SilentIds <- MCSilentIds
    MaxAsked <- MCMaxAsked
    MaxDismissals <- MCMaxDismissals
INVARIANTS
    TypeOK
    NothingLeftBehind
    MirrorsTDLib
    ShownIsCurrent
    DismissesWhatWasShown
PROPERTIES
    EventuallyShown
