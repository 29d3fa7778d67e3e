---------------------- MODULE MCReadableMessagesModel ----------------------
\* Small instances of ReadableMessagesModel for TLC: four messages, of which one
\* query finds three, so that message 2 may be sent as 4 over 3 and a search
\* may have a gap; with Few = 4 an answer of one new message asks for more and
\* one of two does not.
EXTENDS ReadableMessagesModel

MCIds == 1..4
MCNoAlbum == [m \in MCIds |-> 0]
MCMaxBatch == 1
MCMatching == [q \in {"query"} |-> {1, 2, 4}]
MCFew == 4
MCAhead == 2
MCMaxRequests == 2
=============================================================================
