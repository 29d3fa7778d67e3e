------------------------ MODULE NotificationManager ------------------------
(***************************************************************************)
(* Notification groups (src/notificationmanager.cpp).  TDLib keeps a list  *)
(* of active notifications per group and reports its changes; the manager  *)
(* mirrors each group and publishes one notification for it, with the text *)
(* of the last one and the number of all of them.  A custom sound is first *)
(* asked for, and the notification is published by the answer.             *)
(*                                                                         *)
(* What is published stays on screen when the process ends: the next one   *)
(* restores its groups from the screen and is then told by TDLib which     *)
(* notifications are active (updateActiveNotifications, once, before any   *)
(* other update of a group).  Without a message database (onlineOnlyMode)  *)
(* TDLib remembers none.                                                   *)
(*                                                                         *)
(* Assumed of TDLib: a group fits into its window, so that it adds only    *)
(* notifications newer than all others, and total_count is the number of   *)
(* active ones.  A group that outgrows the window gets an older one back   *)
(* when another is removed, which the code appends as if it were the       *)
(* newest, and has a total_count above the active ones; that is left out.  *)
(*                                                                         *)
(* Left out: the texts and actions of a notification, sounds and the hints *)
(* that follow needFeedback, and the notifications of calls, which are in  *)
(* CallsManager and CallRingtone.                                          *)
(***************************************************************************)
EXTENDS Integers, Sequences, FiniteSets, SequencesExt, Functions

CONSTANTS
    Groups,     \* notification groups
    Chats,
    ChatOf,     \* the chat of each group
    MaxId,      \* bound on the notifications TDLib issues: 1..MaxId
    SilentIds,  \* the notifications with is_silent
    MaxAsked,       \* bound on sound requests in flight per group
    MaxDismissals   \* bound on dismissals in flight

ASSUME NotificationAssumption ==
    /\ ChatOf \in [Groups -> Chats]
    /\ MaxId \in Nat /\ MaxAsked \in Nat /\ MaxDismissals \in Nat
    /\ SilentIds \subseteq 1..MaxId

VARIABLES
    notificationGroups,     \* QHash<int, QSharedPointer<NotificationGroup>>
    pendingChatPhotoChats,  \* chats whose photo is being downloaded
    led,                    \* the LED pattern of messages
    onlineOnlyMode,         \* the setting; TDLib is set up with it
    asked,                  \* getSavedNotificationSound requests in flight
    dismissals,             \* removeNotificationGroup requests in flight
    screen,                 \* the notifications on screen
    dismissed,              \* user: groups dismissed and not published since
    phase,                  \* TDLib: "starting" until updateActiveNotifications
    pending,                \* TDLib: the active notifications of each group
    edited,                 \* TDLib: notifications whose content has changed
    issued,                 \* TDLib: notifications so far
    photos                  \* TDLib: chats whose photo is on disk

appVars == <<notificationGroups, pendingChatPhotoChats, led>>
requestVars == <<asked, dismissals>>
tdVars == <<pending, edited, issued>>
vars == <<appVars, requestVars, tdVars, onlineOnlyMode, screen, dismissed, phase, photos>>

Ids == 1..MaxId

\* The nemo notification of a group.  hintCount is HINT_TOTAL_COUNT.
Content == [last: Ids \cup {0}, edited: BOOLEAN, itemCount: 0..MaxId, hintCount: 0..MaxId]

NewNotification(totalCount) ==
    [last |-> 0, edited |-> FALSE, itemCount |-> 0, hintCount |-> totalCount]

NewGroup(totalCount, notification, connected) ==
    [totalCount |-> totalCount, activeNotifications |-> <<>>,
     notificationOrder |-> <<>>, nemoNotification |-> notification,
     connected |-> connected]

Init ==
    /\ notificationGroups = <<>>
    /\ pendingChatPhotoChats = {}
    /\ led = FALSE
    /\ onlineOnlyMode \in BOOLEAN
    /\ asked = [g \in Groups |-> 0]
    /\ dismissals = {}
    /\ screen = <<>>
    /\ dismissed = {}
    /\ phase = "starting"
    /\ pending = [g \in Groups |-> <<>>]
    /\ edited = {}
    /\ issued = 0
    /\ photos = {}

-----------------------------------------------------------------------------
(***************************************************************************)
(* Publishing                                                              *)
(***************************************************************************)

Put(f, x, y) == [d \in DOMAIN f \cup {x} |-> IF d = x THEN y ELSE f[d]]

\* The identifier of the last notification, 0 if there is none.
lastNotification(group) ==
    IF group.notificationOrder # <<>>
        /\ Last(group.notificationOrder) \in DOMAIN group.activeNotifications
    THEN Last(group.notificationOrder)
    ELSE 0

\* Faulty: the notification keeps the number of notifications it was made with.
FilledWithFirstCount(group) ==
    LET last == lastNotification(group)
    IN  [group.nemoNotification EXCEPT
            !.last = last,
            !.edited = last # 0 /\ group.activeNotifications[last],
            !.itemCount = group.nemoNotification.hintCount]

\* What publishNotification writes into the nemo notification.
Filled(group) ==
    LET last == lastNotification(group)
    IN  [group.nemoNotification EXCEPT
            !.last = last,
            !.edited = last # 0 /\ group.activeNotifications[last],
            !.itemCount = group.totalCount]

\* publishNotification for each group of G, without updateChatPhoto.
Publish(groups, G) ==
    /\ notificationGroups' =
        [g \in DOMAIN groups |->
            IF g \in G THEN [groups[g] EXCEPT !.nemoNotification = Filled(groups[g])]
            ELSE groups[g]]
    /\ screen' = [g \in DOMAIN screen \cup G |->
                    IF g \in G THEN Filled(groups[g]) ELSE screen[g]]
    /\ dismissed' = dismissed \ G

\* With it the photos that are not on disk are downloaded.
publishNotification(groups, G) ==
    /\ Publish(groups, G)
    /\ pendingChatPhotoChats' =
        pendingChatPhotoChats \cup ({ChatOf[g] : g \in G} \ photos)

-----------------------------------------------------------------------------
(***************************************************************************)
(* Updates of groups                                                       *)
(***************************************************************************)

\* s without the notifications in removed, the others in their order.
Without(s, removed) ==
    LET kept[i \in 0..Len(s)] ==
            IF i = 0 THEN <<>>
            ELSE IF s[i] \in removed THEN kept[i - 1]
            ELSE Append(kept[i - 1], s[i])
    IN  kept[Len(s)]

\* Faulty: a removed notification stays in notificationOrder.
MergedKeepingOrder(group, totalCount, added, removed) ==
    [group EXCEPT
        !.totalCount = totalCount,
        !.activeNotifications =
            [n \in (DOMAIN @ \cup Range(added)) \ removed |->
                IF n \in Range(added) THEN n \in edited ELSE @[n]],
        !.notificationOrder = @ \o added]

\* A group with the notifications of an update added and removed.
Merged(group, totalCount, added, removed) ==
    [group EXCEPT
        !.totalCount = totalCount,
        !.activeNotifications =
            [n \in (DOMAIN @ \cup Range(added)) \ removed |->
                IF n \in Range(added) THEN n \in edited ELSE @[n]],
        !.notificationOrder = Without(@ \o added, removed)]

\* The group of an update, made if it is new: only then are the signals of
\* its notification connected.
GroupOf(g, totalCount) ==
    IF g \in DOMAIN notificationGroups THEN notificationGroups[g]
    ELSE NewGroup(totalCount, NewNotification(totalCount), TRUE)

needFeedback(feedback, g, added, group) ==
    /\ \/ feedback = "New" /\ g \notin DOMAIN screen
       \/ feedback = "All" /\ added # <<>>
    /\ lastNotification(group) \notin SilentIds

\* customSound: sounds are enabled and the update names a saved one.
updateNotificationGroup(g, totalCount, added, removed, feedback, customSound) ==
    LET group == Merged(GroupOf(g, totalCount), totalCount, added, removed)
        groups == Put(notificationGroups, g, group)
        alert == needFeedback(feedback, g, added, group)
    IN  \/ /\ totalCount # 0
           /\ IF alert /\ customSound
              THEN /\ asked[g] < MaxAsked
                   /\ asked' = [asked EXCEPT ![g] = @ + 1]
                   /\ notificationGroups' = groups
                   /\ UNCHANGED <<screen, dismissed, pendingChatPhotoChats>>
              ELSE /\ publishNotification(groups, {g})
                   /\ UNCHANGED asked
           /\ led' = (led \/ alert)
        \/ /\ totalCount = 0
           /\ notificationGroups' = Restrict(notificationGroups, DOMAIN notificationGroups \ {g})
           /\ screen' = IF g \in DOMAIN notificationGroups
                        THEN Restrict(screen, DOMAIN screen \ {g}) ELSE screen
           /\ dismissed' = dismissed \ {g}
           /\ led' = (led /\ DOMAIN notificationGroups' # {})
           /\ UNCHANGED <<asked, pendingChatPhotoChats>>

\* TDLib adds or removes notifications: messages arrive, are read or deleted.
handleUpdateNotificationGroup(g, added, removed, feedback, customSound) ==
    LET rest == Without(pending[g] \o added, removed)
    IN  /\ added # <<>> \/ removed # {}
        /\ pending' = [pending EXCEPT ![g] = rest]
        /\ updateNotificationGroup(g, Len(rest), added, removed, feedback, customSound)

\* TDLib within its window: what it adds is newer than all that it has issued.
GroupUpdate ==
    /\ phase = "running"
    /\ \E g \in Groups, n \in {0, 1} :
        /\ issued + n <= MaxId
        /\ issued' = issued + n
        /\ \E removed \in SUBSET Range(pending[g]), customSound \in BOOLEAN,
              feedback \in {"None", "New", "All"} :
            handleUpdateNotificationGroup(g, [i \in 1..n |-> issued + i],
                                          removed, feedback, customSound)
    /\ UNCHANGED <<dismissals, edited, onlineOnlyMode, phase, photos>>

\* The content of a notification changes.
handleUpdateNotification(g, n) ==
    /\ phase = "running"
    /\ n \in Range(pending[g]) \ edited
    /\ edited' = edited \cup {n}
    /\ IF g \in DOMAIN notificationGroups
          /\ n \in DOMAIN notificationGroups[g].activeNotifications
       THEN publishNotification(
                [notificationGroups EXCEPT ![g].activeNotifications[n] = TRUE], {g})
       ELSE UNCHANGED <<notificationGroups, screen, dismissed, pendingChatPhotoChats>>
    /\ UNCHANGED <<led, requestVars, pending, issued, onlineOnlyMode, phase, photos>>

\* The first update after the start: the groups TDLib remembers, silently.
handleUpdateActiveNotifications ==
    /\ phase = "starting"
    /\ phase' = "running"
    /\ LET active == {g \in Groups : pending[g] # <<>>}
           groups == [g \in DOMAIN notificationGroups \cup active |->
                        IF g \in active
                        THEN Merged(GroupOf(g, Len(pending[g])), Len(pending[g]), pending[g], {})
                        ELSE notificationGroups[g]]
       IN  publishNotification(groups, active)
    /\ UNCHANGED <<led, requestVars, tdVars, onlineOnlyMode, photos>>

-----------------------------------------------------------------------------
(***************************************************************************)
(* Sounds, photos, titles                                                  *)
(***************************************************************************)

\* Faulty: without its sound the notification is not published.
SoundAnsweredOnlyIfFound(g, found) ==
    /\ asked[g] > 0
    /\ asked' = [asked EXCEPT ![g] = @ - 1]
    /\ IF found /\ g \in DOMAIN notificationGroups
       THEN publishNotification(notificationGroups, {g})
       ELSE UNCHANGED <<notificationGroups, screen, dismissed, pendingChatPhotoChats>>
    /\ UNCHANGED <<led, dismissals, tdVars, onlineOnlyMode, phase, photos>>

\* Faulty: the answer holds on to the group it was asked for, and publishes
\* its notification although the group is gone.
SoundAnsweredForGoneGroup(g, found) ==
    /\ asked[g] > 0
    /\ asked' = [asked EXCEPT ![g] = @ - 1]
    /\ IF g \in DOMAIN notificationGroups
       THEN publishNotification(notificationGroups, {g})
       ELSE /\ screen' = Put(screen, g, NewNotification(1))
            /\ UNCHANGED <<notificationGroups, dismissed, pendingChatPhotoChats>>
    /\ UNCHANGED <<led, dismissals, tdVars, onlineOnlyMode, phase, photos>>

\* The lambda of updateNotificationGroup: the group is looked up again.  It is
\* published with the sound if that is on disk, and with the default one if it
\* is not or the answer is an error.
SoundAnswered(g, found) ==
    /\ asked[g] > 0
    /\ asked' = [asked EXCEPT ![g] = @ - 1]
    /\ IF g \in DOMAIN notificationGroups
       THEN publishNotification(notificationGroups, {g})
       ELSE UNCHANGED <<notificationGroups, screen, dismissed, pendingChatPhotoChats>>
    /\ UNCHANGED <<led, dismissals, tdVars, onlineOnlyMode, phase, photos>>

\* updateNotificationForChat: a chat was discovered or has a new title.  Only
\* the first group of the chat that the hash yields is published.
updateNotificationForChat(chat) ==
    /\ \E g \in DOMAIN notificationGroups :
        ChatOf[g] = chat /\ publishNotification(notificationGroups, {g})
    /\ UNCHANGED <<led, requestVars, tdVars, onlineOnlyMode, phase, photos>>

\* handleChatRolesUpdated for a new photo, which is not on disk
ChatPhotoChanged(chat) ==
    /\ chat \in photos
    /\ photos' = photos \ {chat}
    /\ LET G == {g \in DOMAIN notificationGroups : ChatOf[g] = chat}
       IN  IF G = {}
           THEN UNCHANGED <<notificationGroups, screen, dismissed, pendingChatPhotoChats>>
           ELSE \E g \in G :
                /\ Publish(notificationGroups, {g})
                /\ pendingChatPhotoChats' = pendingChatPhotoChats \cup {chat}
    /\ UNCHANGED <<led, requestVars, tdVars, onlineOnlyMode, phase>>

\* The photo is on disk: the notification is shown again as it was last filled.
handleChatPhotoDownloadingCompletedChanged(chat) ==
    /\ chat \in pendingChatPhotoChats
    /\ pendingChatPhotoChats' = pendingChatPhotoChats \ {chat}
    /\ photos' = photos \cup {chat}
    /\ LET G == {g \in DOMAIN notificationGroups : ChatOf[g] = chat}
       IN  IF G = {} THEN UNCHANGED <<screen, dismissed>>
           ELSE \E g \in G :
                /\ screen' = Put(screen, g, notificationGroups[g].nemoNotification)
                /\ dismissed' = dismissed \ {g}
    /\ UNCHANGED <<notificationGroups, led, requestVars, tdVars, onlineOnlyMode, phase>>

\* A setting or the default reaction has changed.
updateAllNotifications ==
    /\ publishNotification(notificationGroups, DOMAIN notificationGroups)
    /\ UNCHANGED <<led, requestVars, tdVars, onlineOnlyMode, phase, photos>>

\* The user interface takes over the actions or gives them back.
setUseSignalActions ==
    /\ Publish(notificationGroups, DOMAIN notificationGroups)
    /\ UNCHANGED <<pendingChatPhotoChats, led, requestVars, tdVars, onlineOnlyMode, phase, photos>>

-----------------------------------------------------------------------------
(***************************************************************************)
(* Dismissal, restart                                                      *)
(***************************************************************************)

\* Faulty: the request names no notification, the whole group is removed.
handleNotificationClosedAll(g) ==
    /\ g \in DOMAIN screen
    /\ Cardinality(dismissals) < MaxDismissals
    /\ screen' = Restrict(screen, DOMAIN screen \ {g})
    /\ dismissed' = dismissed \cup {g}
    /\ dismissals' =
        IF notificationGroups[g].connected
        THEN dismissals \cup {[group |-> g, max |-> MaxId, shown |-> screen[g].last,
                               waiting |-> asked[g] > 0]}
        ELSE dismissals
    /\ UNCHANGED <<appVars, asked, tdVars, onlineOnlyMode, phase, photos>>

\* The user dismisses a notification.  That of a restored group is not
\* connected to the manager.  shown and waiting are kept for the property.
handleNotificationClosed(g) ==
    /\ g \in DOMAIN screen
    /\ Cardinality(dismissals) < MaxDismissals
    /\ screen' = Restrict(screen, DOMAIN screen \ {g})
    /\ dismissed' = dismissed \cup {g}
    /\ dismissals' =
        IF notificationGroups[g].connected
        THEN dismissals \cup {[group |-> g, max |-> lastNotification(notificationGroups[g]),
                               shown |-> screen[g].last, waiting |-> asked[g] > 0]}
        ELSE dismissals
    /\ UNCHANGED <<appVars, asked, tdVars, onlineOnlyMode, phase, photos>>

\* TDLib removes the notifications up to the one named and reports it.
GroupRemoved(d) ==
    /\ dismissals' = dismissals \ {d}
    /\ LET removed == {n \in Range(pending[d.group]) : n <= d.max}
       IN  IF removed = {}
           THEN UNCHANGED <<appVars, asked, pending, screen, dismissed>>
           ELSE \E feedback \in {"None", "New", "All"}, customSound \in BOOLEAN :
                handleUpdateNotificationGroup(d.group, <<>>, removed, feedback, customSound)
    /\ UNCHANGED <<edited, issued, onlineOnlyMode, phase, photos>>

\* Faulty: the number of notifications is not restored.
RestartWithoutCount ==
    /\ phase' = "starting"
    /\ notificationGroups' =
        [g \in DOMAIN screen |-> NewGroup(0, screen[g], FALSE)]
    /\ pendingChatPhotoChats' = {}
    /\ led' = FALSE
    /\ asked' = [g \in Groups |-> 0]
    /\ dismissals' = {}
    /\ dismissed' = {}
    /\ pending' = IF onlineOnlyMode THEN [g \in Groups |-> <<>>] ELSE pending
    /\ UNCHANGED <<edited, issued, screen, onlineOnlyMode, photos>>

\* The process ends, the next one starts: the constructor.
Restart ==
    /\ phase' = "starting"
    /\ notificationGroups' =
        [g \in DOMAIN screen |-> NewGroup(screen[g].hintCount, screen[g], FALSE)]
    /\ pendingChatPhotoChats' = {}
    /\ led' = FALSE
    /\ asked' = [g \in Groups |-> 0]
    /\ dismissals' = {}
    /\ dismissed' = {}
    /\ pending' = IF onlineOnlyMode THEN [g \in Groups |-> <<>>] ELSE pending
    /\ UNCHANGED <<edited, issued, screen, onlineOnlyMode, photos>>

SoundAnswers(g) == \E found \in BOOLEAN : SoundAnswered(g, found)

Next ==
    \/ GroupUpdate
    \/ \E g \in Groups, n \in Ids : handleUpdateNotification(g, n)
    \/ handleUpdateActiveNotifications
    \/ \E g \in Groups : SoundAnswers(g) \/ handleNotificationClosed(g)
    \/ \E chat \in Chats :
        \/ updateNotificationForChat(chat)
        \/ ChatPhotoChanged(chat)
        \/ handleChatPhotoDownloadingCompletedChanged(chat)
    \/ updateAllNotifications
    \/ setUseSignalActions
    \/ \E d \in dismissals : GroupRemoved(d)
    \/ Restart

Spec == Init /\ [][Next]_vars

\* TDLib answers every request, with an error if all else fails, and sends
\* the active notifications after the start.
FairSpec ==
    /\ Spec
    /\ WF_vars(handleUpdateActiveNotifications)
    /\ \A g \in Groups : WF_vars(SoundAnswers(g))

-----------------------------------------------------------------------------
(***************************************************************************)
(* Properties                                                              *)
(***************************************************************************)

\* Types.  A group that exists has notifications, also one that is restored.
TypeOK ==
    /\ DOMAIN notificationGroups \subseteq Groups
    /\ \A g \in DOMAIN notificationGroups :
        LET group == notificationGroups[g]
        IN  /\ group.totalCount \in 1..MaxId
            /\ group.nemoNotification \in Content
            /\ group.connected \in BOOLEAN
    /\ pendingChatPhotoChats \subseteq Chats
    /\ led \in BOOLEAN
    /\ asked \in [Groups -> 0..MaxAsked]
    /\ DOMAIN screen \subseteq Groups
    /\ \A g \in DOMAIN screen : screen[g] \in Content
    /\ dismissed \subseteq Groups
    /\ phase \in {"starting", "running"}

\* Nothing is left behind: once TDLib has said which notifications are active,
\* the groups, what is on screen and the LED are those of notifications TDLib
\* still has.  The sound of a group may be answered after its last
\* notification is gone, and the process may have been restarted.  Without a
\* message database the restored groups are never taken back.
NothingLeftBehind ==
    /\ DOMAIN screen \subseteq DOMAIN notificationGroups
    /\ phase = "running" /\ ~onlineOnlyMode =>
        DOMAIN notificationGroups = {g \in Groups : pending[g] # <<>>}
    /\ led => notificationGroups # <<>>

\* The mirror of a group is exact: in the order of TDLib, nothing twice, and
\* lastNotification() is the newest one with its newest content.
MirrorsTDLib ==
    phase = "running" =>
        \A g \in {h \in Groups : pending[h] # <<>>} :
            LET group == notificationGroups[g]
            IN  /\ group.notificationOrder = pending[g]
                /\ group.totalCount = Len(pending[g])
                /\ group.activeNotifications = [n \in Range(pending[g]) |-> n \in edited]

\* What is on screen is the newest notification and the number of all of them,
\* unless the user dismissed it or its sound is still asked for: an answer that
\* comes late, or is an error, publishes the group as it is by then.
ShownIsCurrent ==
    phase = "running" =>
        \A g \in {h \in Groups : pending[h] # <<>>} :
            \/ asked[g] > 0
            \/ g \in dismissed
            \/ /\ g \in DOMAIN screen
               /\ screen[g].last = Last(pending[g])
               /\ screen[g].edited = (Last(pending[g]) \in edited)
               /\ screen[g].itemCount = Len(pending[g])

\* Dismissing a notification removes what it stood for and nothing the user has
\* not seen, unless a newer one was waiting for its sound.
DismissesWhatWasShown ==
    \A d \in dismissals : d.max = d.shown \/ d.waiting

\* The newest notification of a group is not on screen.
Behind(g) ==
    /\ phase = "running"
    /\ pending[g] # <<>>
    /\ g \notin dismissed
    /\ ~(g \in DOMAIN screen /\ screen[g].last = Last(pending[g]))

\* A notification is eventually shown, unless it is gone or dismissed by then:
\* whatever becomes of the request for its sound, and also after a restart.
EventuallyShown == \A g \in Groups : []<>~Behind(g)
=============================================================================
