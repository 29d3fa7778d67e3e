----------------------------- MODULE MCTDLibFile -----------------------------
\* Small instances of TDLibFile for TLC: two files, one update at a time, and
\* handlers that call an operation, one level deep.
EXTENDS TDLibFile

MCFiles == {1, 2}
MCMaxUpdates == 1
MCMaxDepth == 2
=============================================================================
