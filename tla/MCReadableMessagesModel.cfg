SPECIFICATION HistorySpec
CONSTANTS
    Ids <- MCIds
    AlbumOf <- MCNoAlbum
    MaxBatch <- MCMaxBatch
    Matching <- MCMatching
    Few <- MCFew
    Ahead <- MCAhead
    MaxRequests <- MCMaxRequests
INVARIANTS
    HistoryTypeOK
    NoGaps
    EndReachedIsEnd
