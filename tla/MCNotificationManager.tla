----------------------- MODULE MCNotificationManager -----------------------
\* Small instances of NotificationManager for TLC: the messages and the
\* mentions of one chat.
EXTENDS NotificationManager

MCGroups == {1, 2}
MCChats == {"chat"}
MCChatOf == [g \in MCGroups |-> "chat"]
MCMaxId == 3
MCSilentIds == {2}
MCMaxAsked == 1
MCMaxDismissals == 1
=============================================================================
