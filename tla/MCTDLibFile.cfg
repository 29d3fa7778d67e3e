SPECIFICATION FairSpec
CONSTANTS
    Files <- MCFiles
    MaxUpdates <- MCMaxUpdates
    MaxDepth <- MCMaxDepth
INVARIANTS
    TypeOK
    AutoLoadArmed
    ChangesAnnounced
PROPERTIES
    AutoLoadRetries
