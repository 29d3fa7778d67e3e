------------------------- MODULE MCChatFoldersModel -------------------------
\* Small instances of ChatFoldersModel for TLC: three folders give all the
\* ways in which a folder and the main list can pass each other.
EXTENDS ChatFoldersModel

MCFolders == {2, 3, 4}
MCAnyPosition == 0..3
=============================================================================
