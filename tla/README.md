# yaqtlib in TLA+

yaqtlib is the Qt library behind a Telegram client for Sailfish OS: it turns
the JSON objects of TDLib into signals, caches what TDLib says of chats, users
and groups, and offers Qt item models and managers to a QML user interface.
This directory holds TLA+ models of its stateful parts, TLC configurations that
check them on small instances, and TLAPS proofs about all but one of them. Paths below
are relative to `src/src/`; `PROJECT.json` maps every definition to its lines.

## 1. Inventory

Everything except two kinds of threads runs in one event loop: the thread of
`TDLibReceiver`, which only emits queued signals, and the threads of tgcalls,
whose callbacks write to `CallsManager` directly. What makes the code hard is
therefore rarely a lock; it is the order in which TDLib's updates, the answers
to requests, timers, D-Bus answers and the user's actions are served, state
kept across them, and positions cached in several places.

| Component | State | Operations | Interaction | What is hard, what makes it correct |
|---|---|---|---|---|
| TDLib receiver (`tdlib/tdlibreceiver.cpp`) | `clientId`, `isActive` | one `process...` per object type | queued signals to the wrapper | keeps the order of updates; drops what belongs to an old client |
| TDLib wrapper (`tdlib/tdlibwrapper.cpp`) | authorization and connection state, options | one method per request, answers matched by `extra` | requests to TDLib, signals to everyone | logout clears contents twice, then a new client; errors of a request reach nobody |
| TDLib data (`tdlib/tdlibdata.cpp`, `chatdata.cpp`) | chats, users, groups | `handle...Updated` | signals per chat list and role | routing an update to each list that shows the chat |
| Chat list (`chatlistmodel.cpp`) | rows, `chatIndexMap`, `loading`, refresh timer | add, remove, reposition, load, reset | data, wrapper, folders | sorted rows; map patched in place; survives logout |
| Chat folders (`chatfoldersmodel.cpp`) | rows, index map, main index, a list model per folder | rearrange, reset, route chats | data, chat lists | long sequences of moves end in TDLib's order |
| Messages (`chat/messagesmodel.cpp`) | rows, `messageIndexMap`, albums | insert, delete ranges, send, edit, clear | base of all message lists | map patched in place; ranges; albums shown once |
| Chat history (`chat/jumpablemessagesmodel.cpp`, `chat/readablemessagesmodel.cpp`) | `waitingFor`, start and end reached, search | slices, jumps, reload, search, new messages | wrapper, messages | answers carry only their kind: late ones meet a cleared list; no gaps |
| Chat manager (`chat/chatmanager.cpp`) | open chat, models, sponsored messages, chat actions | open, close, search, sponsored | all message models | models replaced while requests are in flight |
| Forum topics (`chat/forumtopicsmodel.cpp`) | topics, index by topic, index by last message, next offset | paging, fetching one topic, updates | wrapper, chat manager | pages and fetched topics overlap; two maps patched in place |
| Media (`chat/mediamessagesmodel.cpp`) | filter, total, next message | search slices, content changes | messages | total and next message of late answers |
| Files (`tdlib/tdlibfile.cpp`) | fields of the file, `autoLoad`, hold-off timer, queued signals | set, load, cancel, updates | wrapper, QML | retries; handlers that re-enter |
| Calls (`callsmanager.cpp`) | calls, current call, tgcalls instance, connection | answer, decline, hang up, updates, callbacks | TDLib, tgcalls threads, notifications, device | everything belongs to the right call, is released at its end |
| Notifications (`notificationmanager.cpp`) | groups, notifications of calls, photos being downloaded, LED | publish, remove, dismiss, restore, ringtone | TDLib, D-Bus, calls | asynchronous sounds and photos, restart with notifications left on screen |
| Device state and feedback (`mceinterface.cpp`, `ngfinterface.cpp`) | call state, playing events | set, play, stop | D-Bus | play is asynchronous, stop is not |
| Suggested actions, contacts, users, stickers, proxies, filter models, formatting, settings | one answer each, or nothing | | | little that several steps could break |

`PROJECT.json` lists every component with what is modelled of it, and under
`hazards` what is hard to test, each at its line with the properties that would
catch it.

## 2. Modules

| Module | Models | Checked by | Proved in |
|---|---|---|---|
| `ChatListModel` | one chat list | `MCChatListModel` | `ChatListModelProofs` (lemmas in `ListLemmas`) |
| `ChatListView` | what a chat list promises (abstract); `ChatListModel` instantiates it `WITH` the refinement mapping `entries`, `view` | as `ImplementsView` of the above | `ChatListModelProofs` (`Refinement`) |
| `ChatFoldersModel` | the tabs of folders | `MCChatFoldersModel` | `ChatListModelProofs` |
| `MessagesModel` | rows of a message list | `MCMessagesModel` | `MessagesModelProofs` |
| `ReadableMessagesModel` | loading a chat's history; extends `MessagesModel`, as the class does | `MCReadableMessagesModel` | `MessagesModelProofs` |
| `CallsManager` | calls, their notifications, the state of the device | `MCCallsManager` | `CallsManagerProofs` |
| `NgfInterface`, `CallRingtone` | the feedback daemon, and the ringtone on top of it | `MCCallRingtone` | - |
| `TDLibFile` | a file that QML follows | `MCTDLibFile` | `TDLibFileProofs` |
| `NotificationManager` | the groups of notifications | `MCNotificationManager` | `NotificationManagerProofs` |
| `ForumTopicsModel` | the topics of a forum | `MCForumTopicsModel` | `ForumTopicsModelProofs` |
| `TDLibSession` | wrapper, receiver thread, cached chats and responses, over several clients | `MCTDLibSession` | `TDLibSessionProofs` |

Each module has one variable per member of the class that matters, under the
member's name, and one action per handler or slot, under the method's name.
Signals of Qt between objects of the main thread are direct calls, so an action
contains what it makes other objects do. Variables of the environment (marked
`TDLib:`, `ngfd:`, `tgcalls:`) hold what the other side knows and what is in
flight. Definitions that begin with `Faulty:` are variants with a plausible bug,
one for each checked property; nothing uses them in the specifications.

**Chat list.** `chatList` and `chatIndexMap` as in the code, positions 1-based.
`handleChatAddedToList`, `handleChatRemovedFromList`, `handleChatPositionUpdated`
with `updateChatOrder` (up first, down only if it did not move up) and the
patches of the map; `load`, `handleReady` and the three answers to loadChats;
`LoggingOut`, `Closing` (each clears the contents) and `Closed`. Left out: the
roles of a row that do not move it.

**Chat folders.** `handleChatFoldersUpdated` is a loop of removals, a move of the
main list and a loop with one placement per folder, over a record of rows, map
and main index; `TabsReset` removes a range on each side of the main list. An
access outside of the list sets `broken`. What `ChatListModel` has too is named
`Tabs...` (`TabsSpec`, `TabsTypeOK`), because `ChatListModelProofs` extends both.

**Messages.** Batches are inserted at one end, chosen by the first message;
`handleMessagesDeleted` is the loop over the identifiers from the last to the
first, with its ranges and 0-based positions; albums are regrouped at each
insertion and removal.

**Chat history.** Requests in flight are a set, answered in any order, with the
slices TDLib may give, or failing. A clear (jump, reload, search, chat opened
again) leaves older requests in flight; `foreign` records that one of their
answers was taken for the new list's. A message that was sent gets its final
identifier through the inherited `handleMessageSendSucceeded`; any message of the
chat may be one. Its row goes to the end of what is loaded, also over messages
that are not, and a sent message without a row gets none, also after the end was
reached. Later slices are asked for from the first and the last row, so that what
was left out stays out until the list is cleared; `skipped` records those
messages. Of what the classes inherit, updates of contents and fields are left
out (they change no identifier and no place; `MessagesModel` has them), and so
are sponsored messages and `insertMessageInOrder` (section 7) and deletions of
several messages at once (`MessagesModel` has them). The module extends `MessagesModel` and uses
its operations on the rows; its own specification is named `History...`
(`HistorySpec`, `HistoryTypeOK`).

**Calls.** Updates of a call, the identifier of an outgoing call, the user's
answers through the notification (which stays until TDLib reports that the call
is not pending), and the callbacks of tgcalls. An instance that was stopped may
call back until `InstanceStopped`; `late` records that one did. The callbacks are
unsynchronised writes; each is one step, at any time.

**Ringtone.** `play` is a D-Bus call answered later (`PlayAnswered`,
`PlayFailed`), `stop` blocks, the daemon signals the end of a sound later.

**Files.** An operation queues the signals of what it changed and runs a loop
over them; `emitting` is the stack of such loops, because the handler of a
signal may call an operation of the object. `downloadHoldOffTimer` is whether
the timer runs. TDLib may say anything of any file at any time.

**Notifications.** `pending` is TDLib's list of active notifications per group,
`notificationGroups` the manager's mirror of it, `screen` what the user sees. An
update that asks for a custom sound leaves the screen alone until
`SoundAnswered`, which looks the group up again. `Restart` ends the process and
runs the constructor of the next one: the groups are rebuilt from the screen,
with a count but without notifications, before `handleUpdateActiveNotifications`
brings TDLib's. Three behaviours of the code are in the model as they are: a
dismissal while a newer notification waits for its sound removes that one
unseen (`DismissesWhatWasShown` excludes it); the signals of a restored
notification are not connected, so that its dismissal is not reported to TDLib;
and an update of a chat reaches only the first of its groups. Without a message
database (`onlineOnlyMode`) TDLib forgets its notifications with the process, and
restored groups stay until they are updated (`NothingLeftBehind` excludes it).
One thing is assumed of TDLib (`GroupUpdate`): it adds only notifications newer
than all it issued before, and `total_count` is the number of active ones. TDLib
keeps a window of each group, whose size the wrapper leaves at its default (it
sets `notification_group_count_max` only, `tdlib/tdlibwrapper.cpp:298`). A group
that outgrows the window may get an older notification back when another one is
removed, and a `total_count` above the active ones; the code appends what is added
whatever its age (`notificationmanager.cpp:260`) and would then show the older one
as the newest. `MirrorsTDLib` and `ShownIsCurrent`, and their theorems, are about
groups that fit into the window.

**Forum topics.** A page is appended as it comes, in the order of `lessThan`; a
topic that gets a message before its page is fetched by itself and inserted in
order, so that its page may repeat it. `continued` records whether every page
belonged below the rows it met: only then is the whole list in order.
`topicIndexMap` stays sound in any case; `topicLastMessageIdIndexMap` does not,
and a position behind the end of the list is an undefined read, any topic or
none. A draft is its date. `excused` are topics of which a fetch failed, or that
were pinned before they were loaded, for which nothing promises a row.

**Sessions.** Three threads: TDLib appends documents to `stream`, the receiver
takes one (`receiverLoop`) and compares its client in a step of its own
(`processReceivedDocument`), the main thread handles `events` one by one. `pc` is
where the main thread is inside the change of clients (new identifier, told to
the receiver, options sent: in between the receiver runs on) and inside the
destructor, whose two waiting loops handle events too. Chats are named after the
client that announced them, so that a row that points to another object than
`TDLibData` has is visible. The lists stand for the main and the archive list;
the models of folders are not reset at all (a hazard without a property). That a
client answers its requests before it closes, and sends nothing but errors
afterwards, is TDLib's documented contract and is assumed.

## 3. Runs

| Run | Instance | Distinct states | Result |
|---|---|---|---|
| `chat_list` | 3 chats (one negative identifier), 2 orders, 2 loads in flight | 8,376 | `IndexMapExact`, `Sorted`, `RowsAreListed`, `ImplementsView` hold |
| `chat_folders` | 3 folders, main list anywhere | 29,074 | `FoldersInOrder`, `IndexesExact`, `RowsHaveModels`, `MainTabFirst` hold |
| `messages` | 5 messages, an album of 3, batches of 3 | 21,312 | `IndexMapExact`, `UpdatesReachTheirRow`, `AlbumsShownOnce` hold |
| `messages_deletion` | 4 messages | - | `DeletedAreRemoved` violated |
| `chat_history` | 4 messages, 1 query, 2 requests in flight | 901,949 | `NoGaps`, `EndReachedIsEnd` hold |
| `calls` | 2 incoming calls, 1 outgoing | 2,541,420 | `NotifiedWhilePending`, `CurrentCallKnown`, `ConnectionIsOwn`, `ResourcesReleased` hold |
| `call_ringtone` | 1 call, 2 sounds | - | `RefusedStopMeansSilent` violated |
| `notifications` | 2 groups of one chat, 3 notifications (one silent), 1 sound and 1 dismissal in flight, with fairness | 173,024 | `NothingLeftBehind`, `MirrorsTDLib`, `ShownIsCurrent`, `DismissesWhatWasShown`, `EventuallyShown` hold |
| `forum_topics` | 3 topics (one without messages at first), pages of 1, 2 pages in flight, 4 messages, 1 pin or draft, 3 rows | 3,054,547 | `TopicIndexSound`, `OrderedWhileContinued`, `NoTopicOverlooked` hold |
| `forum_topic_deletion` | the same | - | `DeletedLastMessageRefetched` violated |
| `sessions` | 1 chat, 2 clients, 2 requests, with fairness | 92,619 | `RowsAlive`, `NextSessionSetUp`, `ResponsesFinish`, `DestructorEnds` hold |
| `files` | 2 files, 1 update in flight, handlers one level deep | 529,380 | `AutoLoadArmed`, `ChangesAnnounced`, `AutoLoadRetries` hold |

Every passing run but `sessions` also checks the module's `TypeOK` (`HistoryTypeOK`,
`TabsTypeOK`).

Why the bounds are enough:

- Three chats and two orders give ties decided by identifier, also across the
  sign, moves by one and by two places in both directions, and insertions at
  both ends and in the middle. Two loads in flight are what `load` and
  `handleReady` can have together. The proofs remove the bound.
- Three folders are the least for which a folder and the main list can pass
  each other in both directions while another one is removed and a third added.
- Five messages hold an album with a message on either side; a batch of three
  deletes two ranges, or one of two and one of one.
- With four messages a sent one can pass over another that is not loaded, between
  a row below and its new place, and a query that finds three of them keeps sent
  messages in a search as well; two requests in flight are the least for which answers change places.
- Two incoming calls and one outgoing are the least for which one call replaces
  another while a third rings.
- Two files are what the timer of one and the download of another need. One
  update in flight is enough because the updates are not related to each other.
- Two groups of one chat are what `iterateNotificationGroupsForChat` needs to
  choose between; three notifications let one come, one follow while the sound of
  the first is asked for, and one be added after a removal or a restart.
- Three topics in pages of one let a page fall behind, repeat or pass a topic
  that is fetched by itself, and a row move over another one; a fourth message is
  what a sent message gets as its final identifier.
- Two clients are one change of clients. The second one is closed only by the
  destructor, so that the bound ends nothing by itself; updates of chats are held
  back while two documents or events are under way (`MaxQueued`), answers and
  authorization states never.
- Identifiers are not symmetric in any of these (they are compared), so no
  symmetry is used.

`CHECK_DEADLOCK FALSE` is set where the bounded supply of identifiers may run
out (`messages`, `forum_topics`) or where the undefined access `broken` ends a behaviour
(`chat_folders`).

Preconditions of properties that are about the code: `NoGaps` and
`EndReachedIsEnd` are about lists filled by answers to their own requests
(`~foreign`) and leave out the messages that a sent one passed over or that got no
row when they were sent (`skipped`). Without the latter both fail: of messages 1
to 3 with rows 1 and 2, message 2 is sent as 4, and 3 is missing; with rows 2 and 3
and the end reached, message 1 is sent as 4 and is missing itself.
`ConnectionIsOwn` excludes late callbacks (`~late`), and
`CurrentCallKnown` a call answered twice (`~answeredTwice`);
`DismissesWhatWasShown` excludes groups that wait for a sound. In each case the
excluded behaviour is possible in the code, is in the model, and is listed as a
hazard; the properties show that it is the only cause. `RowsHaveModels` says that
each tab has a model, not that it is the one its chats went to. `MainTabFirst` is about
accounts whose main list always came first: elsewhere `reset()` computes its
second range from an index that the first removal made stale, and leaves folders
of the old account behind. From four folders on it can even remove the tab of the
main list: while an old folder above the main list waits for its turn, new ones
are inserted above the main list as well, and the last line of
`handleChatFoldersUpdated` sets an index that is not its row (the tabs
`<<Main, a>>` become `<<b, c, d, Main, a>>` with index 2 when the folders
`b, c, d, a` arrive with the main list at position 1). The next update then finds
no row to move. The model has both. `OrderedWhileContinued` is about forum lists whose
pages continued them; `ResponsesFinish` leaves out requests sent to a client that
had closed without the main thread knowing (`late`).

Fairness: `files` assumes
that a loop over signals goes on (`WF(Emit)`: it is a `for` loop) and that a
timer that expired is served although other events are served between (`SF` on
`timerEvent`: Qt's event loop serves timers in every round). `notifications`
assumes that TDLib answers every request for a sound, with an error if all else
fails, and sends the active notifications after a start. `sessions` assumes that
the receiver's and the main thread run, and that TDLib starts a client, closes
one that is closing or told to, and answers requests; nothing makes the user log
in or out. Weak fairness is enough: no bound holds these steps back. Otherwise
TDLib, QML and the user are under no obligation.

## 4. What disagrees with the repository's own words

| Run | The repository says | The code does |
|---|---|---|
| `messages_deletion` | one last range is removed "if we found at least one item to remove" (`chat/messagesmodel.cpp:322`) | the number of deleted messages marks "none found" and is a valid position: the one message at position 1 is not removed |
| `forum_topic_deletion` | a topic whose last message is deleted is fetched again: it "could have been deleted or last message was updated" (`chat/forumtopicsmodel.cpp:370`) | a new last message is indexed under the identifier of its topic: its deletion finds no row |
| `call_ringtone` | stop() does nothing when the event is "not being played" (`ngfinterface.cpp:79`) | an event counts as playing only once Play was answered: a ringtone stopped before that sounds on |

Four more, met while modelling, are in the models and not checked by a run of
their own: every error of loadChats but 404 leaves a chat list in its cooldown
for the rest of the session (against `tdlib/tdlibwrapper.cpp:1735`); `reset()` of
the folders does not remove "all chat folders" when the main list is not first
(`chatfoldersmodel.cpp:118`); a slice can reach over both ends of a history and
is prepended as a whole (against "only an append or a prepend",
`chat/messagesmodel.cpp:360`); a late empty answer to an abandoned search makes a
chat with messages look empty (against `chat/jumpablemessagesmodel.cpp:57`).

## 5. Proofs

Everything below holds for every value of the constants under the named
assumptions of the modules, which TLC evaluates in every run:

| Assumption | What it says, and why |
|---|---|
| `ChatListAssumption` | chats and orders are integers, the number of loads is a natural number |
| `FileAssumption` | files are positive (0 is "no file"), the bounds at least 1 |
| `CallsAssumption` | calls are positive (0 is "no call"), none is both incoming and outgoing |
| `NotificationAssumption` | each group belongs to a chat; bounds are natural numbers; the silent notifications are some of them |
| `SessionAssumption` | there is a client; bounds are natural numbers |
| `MessagesAssumption` | messages are positive and finitely many (identifiers have 64 bits); each is in an album or in none (0); a batch has a message |
| `ReadableAssumption` | a query is not empty and finds messages of the chat; more than 0 messages are asked for on the newer side, as in the code (with 0 every such answer would be empty and would end the list); a request can be in flight |
| `FoldersAssumption` | folders are positive (0 is the main list) and finitely many (an update is a finite list), positions are natural numbers |
| `ForumAssumption` | topics are finitely many integers and not identifiers of the messages that come later; each topic begins with some set of messages; a page has a topic |

`ListLemmas` holds what the proofs about lists share: what `Min`, `Max`,
`InsertAt` and `RemoveAt` of the community modules and `QList::move` do, position
by position; what is left of a range when one is cut out; and sorting.
`IncreasingOnto`: whoever counts to a number in order and leaves none out counts
one by one, which is how two lists with the same members in the same order are
found to be equal.
`CountingUp` is induction over the natural numbers for a set (the library states
it for an operator, which the provers cannot instantiate), and gives
`SortedExists`: a finite set can be listed in the order of any strict total
order. The models sort with `CHOOSE` of such a list (`InIdOrder`, `SortedPage`),
and the lemma is what makes the choice exist.

**`ChatListModelProofs`.** `TypeCorrect`, `IndexMapCorrect`, `SortedCorrect` and
`RowsCorrect`: `Spec => []TypeOK`, `[]IndexMapExact`, `[]Sorted`,
`[]RowsAreListed`. The inductive invariant is their conjunction, and none of
them is inductive alone: a position update goes through the map, so it moves the
right row only if the map is exact; the scans of `updateChatOrder` find the
right place only in a list sorted but for that row; an insertion leaves the map
exact only if the chat has no row yet, which is what `RowsAreListed` says. The
argument: `compareTo` is a strict total order (`CompareTotal`,
`CompareTransitive`); the insertion position separates the rows above from those
below (`InsertionPosCorrect`), and so does the place of a moved row
(`MovedPosCorrect`), so `InsertSorted`, `RemoveSorted`, `MoveSorted`; a map that
is right outside of a range and reindexed inside it is exact (`ReindexExact`);
`RowAdded`, `RowRemoved`, `RowMoved` combine these, and there is one lemma per
action. `Refinement` is `Spec => ImplementsView`, the specification of
`ChatListView` under the mapping `entries`, `view`: from the same invariant
every action is a step of the view or leaves it unchanged. The view only says
that its rows are the entries in order (`IsViewOf`); that the rows the code
arrives at by insertions, removals and moves are such a view is what exact map
and sorted rows give together (`ViewOfEntries`).

**The tabs, also in `ChatListModelProofs`.** `TabsTypeCorrect`,
`FoldersOrderCorrect`, `FolderIndexCorrect`, `ModelsCorrect` and `MainTabCorrect`:
`TabsSpec => []TabsTypeOK`, `[]FoldersInOrder`, `[]IndexesExact`,
`[]RowsHaveModels`, `[]MainTabFirst`, for any number of folders and any positions
of the main list. Between handlers the invariant `TabsInv` needs little more than
those five: every tab is there once (`TabsExact`), or the patches of the map would
contradict each other. The work is inside `handleChatFoldersUpdated`, where
`TabsExact` holds between any two steps: `MoveRowExact` shows that `finishMove`
may leave the moved row out because its entry was set before, `RemoveRangeExact`
that a removal repairs the rows below. The loop that removes keeps exactly the
rows of folders that stay (`Swept`). The loop that places has the invariant
`Placed`: the folders placed so far are in order and none is below its place.
Not that they are at their place, which is false: a folder that is still to be
placed may lie above them, and they move up when it is taken away. An insertion
and a move both carry the other rows along in order and push none above the
target down (`Carried`), so one lemma, `CarriedKeepsPlaced`, serves both. A move stays in
the list because the main list and the folders placed before it need room as well
(`RoomToMove`, by the pigeonhole principle), so that `broken` can only come from
the move of the main list. After the last round the rows without the main list
are the folders, one by one (`PlacedInOrder`).

**`TDLibFileProofs`.** `TypeCorrect`, `AutoLoadArmedCorrect` and
`ChangesAnnouncedCorrect`. `ChangesAnnounced` speaks of the event loop only and
needs `SignalsCovered`: in the middle of nested loops every queued signal is
still ahead of some loop, not always of the innermost one. A new loop begins
with the first of its own signals and covers them; a loop that ends has no
queued signal ahead of it, so what is left was covered by another. TLC checks
handlers one level deep; the theorem is for any depth.

**`CallsManagerProofs`.** `TypeCorrect`, `NotificationsCorrect`,
`ReleaseCorrect`, `CurrentCallCorrect` and `ConnectionCorrect`, for any number of
calls. `CallsManager` forgets calls (`setCurrentCallId` removes one), so its map
is not TDLib's list, and the notifications are right only because of
`KnownAsSeen`: what it does know of a call is what TDLib last said of it. Then a
call that it meets for the first time as pending has no notification yet, and
one that stops being pending loses its own. `UnidentifiedPending` says that
TDLib sends nothing between the first update of an outgoing call and its
identifier. `CurrentCallKnown` needs more (`JInv`): pending calls that the user
has not answered, and outgoing calls that wait for their identifier, are known;
and the current call is an answered or identified one, so that a first answer
never meets the call that `setCurrentCallId` is about to remove.
`ConnectionIsOwn` needs `Connection`: a current call that TDLib has not reported
as ready has no instance and no timestamp, because `setCurrentCallId` comes
before and clears both; so the instance that sets them is its own.

**`NotificationManagerProofs`.** `TypeCorrect`, `NothingLeft`, `MirrorExact`,
`ScreenCurrent` and `DismissalsExact`, for any number of groups and
notifications. `MirrorsTDLib` alone is not inductive across a restart: the
constructor rebuilds groups with a count and no notifications, so the invariant
(`GroupsMirror`) has a clause for the phase before
`handleUpdateActiveNotifications`, and `OnScreen` says that what the constructor
finds on the screen are the notifications of the groups that the last process
had. `GroupsCurrent` is `ShownIsCurrent` for the nemo notification whether or not
it is on screen: `SoundAnswered` and an update of the chat publish it later.
`GroupsActive` ties the groups to TDLib's, `RequestsSound` says that no answer
and no dismissal outlives its process, `PendingDisjoint` that no notification is
in two groups.

**`TDLibSessionProofs`.** `RowsCorrect` (`[]RowsAlive`), and the action property
`FilterLosesOnlyAnswers`, which no run states: the filter of
`processReceivedDocument` never drops an authorization state or an update of a
chat. Both are about `Pipeline`, the documents and events between TDLib and the
main thread taken as one list, which every thread shortens, lengthens or leaves
alone. `FromCurrent`: what is in it is of the current client, answers aside;
`Ordered`: nothing fills the data after `Closing`; `ClearedInTime`: a client that
closes has `Closing` in the pipeline still, or the data are empty and nothing in
the pipeline fills them. So when the client changes the pipeline has answers
only, and the receiver is told of the new client before that one can send.

**`MessagesModelProofs`.** `TypeCorrect`, `IndexCorrect`, `UpdatesCorrect` and
`AlbumsCorrect`. The invariant adds what `albumMessageMap` holds (exactly the
shown messages of each album, and the rows marked accordingly: `AlbumsExact`) and
`MessagesKnown`: rows are of messages that exist or were deleted, so that an
identifier that arrives has no row unless the code finds it in the map. The hard
part is `handleMessagesDeleted`, a loop that removes ranges while it walks down
the list. Its loop invariant (`LoopSound`, carried through the rounds by `CountingUp`) says
that after each round rows, map and albums agree, that every row is one of the
rows before (`RowsFrom`), and that both ends of the range being collected are
positions of the list or the number of deleted messages. It cannot say more,
because that number doubles as "none found" and as a position; that it suffices
shows that the confusion loses a removal and damages nothing else. The defect that
`messages_deletion` shows (a message that stays) is in the model; the theorems
hold in spite of it.

**The history, also in `MessagesModelProofs`.** `HistoryTypeCorrect`,
`NoGapsCorrect` and `EndCorrect`: `HistorySpec => []HistoryTypeOK`, `[]NoGaps`,
`[]EndReachedIsEnd`, for any messages, queries, slices and number of requests in
flight, answered in any order. `NoGaps` is not inductive: a slice continues the
list from the message that its request names, and that row may have been deleted
since. So the invariant `ViewInv` speaks of `Reach`, the rows and the messages
named by requests since the last clear: nothing is missing between any two of
them (`ReachNoGaps`), and once the end is reached nothing is missing that is newer
than any of them (`ReachIsEnd`), the `skipped` messages aside. A sent message adds
its new identifier to `Reach`: whatever is missing below it was missing below its
old place, or has just been skipped (`SentHistoryStep`). `FirstAlone` says that before the first answer the list
is empty and no other request of this list is in flight, so that the first slice
meets nothing. The lemmas on insertions, deletions and sent messages are those of the message
list, whose operations the history uses.

**`ForumTopicsModelProofs`.** `TypeCorrect`, `IndexCorrect`, `OrderCorrect` and
`PagesCorrect`, for any number of topics, messages and pages in flight and any
page size. `ListOK` says of the list what holds always (rows know no message that
was not issued; `topicIndexMap` points to rows of its topics) and what holds
while pages continued it (sorted, no topic twice, the map complete); `lessThan` is
a strict total order on the rows, and the scans of `insertNewTopic` and
`updateForumTopicOrder` are treated as in the chat list. `NoTopicOverlooked` is
not inductive: the next offset becomes that of whichever answer comes last, so
`Covered` says the same of every page in flight (`CoveredTo`), and has two clauses
on what moves between pages, pinned topics and topics with a message being sent.
`PageCovers` is the step from one page to the next: a page has every topic below
its offset whose last message is not older than that of its last row, by the
number of topics above each.

Some definitions have the form that can be reasoned about, and mean what the
code does: loops are recursive functions on the number of rounds (`Without` of
`NotificationManager`, the rounds of `Deleted` in `MessagesModel`,
`RemoveRemoved` and `Rearranged` in `ChatFoldersModel`) rather than folds or
RECURSIVE operators, and sorting is the choice of the sorted list. Each
inductive invariant was checked by TLC on the instance of its run before it was
proved.

Only model-checked: liveness and the fairness it rests on (`AutoLoadRetries`,
`EventuallyShown`, `NextSessionSetUp`, `ResponsesFinish`, `DestructorEnds`: out of
this prover's reach). Every invariant and every action property of a passing run
is a theorem. The runs that show a violation have a counterexample and need no
proof; `CallRingtone` has no other run.

## 6. What is not modelled

- Texts, layout, images, logging, settings: no state that several steps change.
- Most of `TDLibWrapper`: some 200 methods build one request each and keep
  nothing. Requests whose answers matter are in the models of those who send
  them.
- The proxy models that filter rows: stateless.
- Users, groups and options in `TDLibData`, and the handlers per type of the
  receiver: each stores or emits what TDLib last said of one identifier.
- The sound, popup and LED hints of one notification beyond whether the LED is
  on: values passed to the platform.
- Audio of calls, signalling data, and the protocol of TDLib itself: external.
- vendored headers (`tg_owt/`, `tdlib/`).

## 7. Plan

In this order:

1. `ChatMessagesModel` on top of `ReadableMessagesModel`: sponsored messages
   (positions from the last row, an empty list, `removeMessage` and the map it
   leaves), `insertMessageInOrder`; then `MediaMessagesModel` (total, next
   message, content that starts or stops to match) on the same rows.
2. `TDLibSession` composed with several `ChatListModel`s, folder lists included.
3. `CallsManager` together with `CallRingtone`.
4. The small lists (contacts, suggested actions, users, stickers).

Passing runs are extended rather than multiplied: `messages` and `chat_history`
take the new operations of step 1, `sessions` those of step 2.

Theorems to prove next: with step 1 those of the rows again, now for
`insertMessageInOrder` and the sponsored messages; that `mainChatListIndex` is the
row of the main list also when it is not first, once `handleChatFoldersUpdated`
sets it from the row; and `FilterLosesOnlyAnswers` for several lists.
