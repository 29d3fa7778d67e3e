SPECIFICATION Spec
CONSTANTS
    Ids <- MCIds
    AlbumOf <- MCAlbumOf
    MaxBatch <- MCMaxBatch
INVARIANTS
    TypeOK
    IndexMapExact
    UpdatesReachTheirRow
    AlbumsShownOnce
CHECK_DEADLOCK FALSE
