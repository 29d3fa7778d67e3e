------------------------ MODULE MCForumTopicsModel ------------------------
\* Small instances of ForumTopicsModel for TLC: two topics, loaded one by one,
\* and one that is created later.
EXTENDS ForumTopicsModel

MCTopics == {11, 12, 13}
MCHistory == (11 :> {1}) @@ (12 :> {2}) @@ (13 :> {})
MCMaxMsg == 4
MCPageSize == 1
MCMaxPages == 2
MCMaxFetches == 1
MCMaxEdits == 1
MCMaxRows == 3
=============================================================================
