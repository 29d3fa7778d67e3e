SPECIFICATION Spec
CONSTANTS
    Ids <- MCFewIds
    AlbumOf <- MCNoAlbum
    MaxBatch <- MCMaxBatch
INVARIANTS
    DeletedAreRemoved
