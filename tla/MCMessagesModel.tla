-------------------------- MODULE MCMessagesModel --------------------------
\* Small instances of MessagesModel for TLC: a chat of up to five messages,
\* three of them an album.
EXTENDS MessagesModel

MCIds == 1..5
MCAlbumOf == [m \in 1..5 |-> IF m \in 2..4 THEN 7 ELSE 0]
MCMaxBatch == 3
MCFewIds == 1..4
MCNoAlbum == [m \in 1..4 |-> 0]
=============================================================================
