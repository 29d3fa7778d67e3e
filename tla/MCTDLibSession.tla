--------------------------- MODULE MCTDLibSession ---------------------------
\* Small instances of TDLibSession for TLC: two sessions.
EXTENDS TDLibSession

MCChats == {"a"}
MCMaxClient == 2
MCMaxRequest == 2
MCMaxQueued == 2
=============================================================================
