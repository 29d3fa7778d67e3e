-------------------------- MODULE MCChatListModel --------------------------
\* Small instances of ChatListModel for TLC.
EXTENDS ChatListModel

MCChats == {-1, 1, 2}
MCOrders == {1, 2}
MCMaxLoads == 2
=============================================================================
