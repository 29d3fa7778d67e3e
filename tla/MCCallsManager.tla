--------------------------- MODULE MCCallsManager ---------------------------
\* Small instances of CallsManager for TLC: two incoming calls and an outgoing
\* one.
EXTENDS CallsManager

MCIncoming == {1, 2}
MCOutgoing == {3}
=============================================================================
