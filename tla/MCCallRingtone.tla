--------------------------- MODULE MCCallRingtone ---------------------------
\* Small instances of CallRingtone for TLC: one call is enough.
EXTENDS CallRingtone

MCIncoming == {1}
MCMaxPlays == 2
=============================================================================
