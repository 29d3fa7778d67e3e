-------------------------- MODULE ForumTopicsModel --------------------------
(***************************************************************************)
(* The topics of a forum (src/chat/forumtopicsmodel.cpp and forumtopic.cpp)*)
(* The list is loaded in pages and kept in the order of lessThan.          *)
(* topicIndexMap finds the row of a topic, topicLastMessageIdIndexMap the  *)
(* row whose last message has an identifier.                               *)
(*                                                                         *)
(* TDLib, the environment, has the messages of each topic; a topic exists  *)
(* while it has one.  A page holds the topics whose last message is older  *)
(* than the offset, newest first, and the first page the pinned ones too.  *)
(* Message identifiers grow with the date and stand for it.                *)
(*                                                                         *)
(* Left out: the fields of a topic that do not move it, the refresh timer  *)
(* and reset(), after which the model belongs to no chat.  Positions are   *)
(* 1-based here and 0-based in the code.                                   *)
(***************************************************************************)
EXTENDS Integers, Sequences, FiniteSets, FiniteSetsExt, SequencesExt, Functions

CONSTANTS
    Topics,         \* topic identifiers
    History,        \* the messages of each topic when the model is created
    MaxMsg,         \* bound on messages: 1..MaxMsg, the last one for a
                    \* message that gets its final identifier
    PageSize,       \* topics in a page
    MaxPages,       \* bound on getForumTopics requests in flight
    MaxFetches,     \* bound on getForumTopic requests in flight per topic
    MaxEdits,       \* bound on changes of pins and drafts
    MaxRows         \* bound on the rows: with as many no page is asked for

MsgIds == 1..MaxMsg

ASSUME ForumAssumption ==
    /\ Topics \subseteq Int /\ IsFiniteSet(Topics) /\ Topics \cap (0..MaxMsg) = {}
    /\ History \in [Topics -> SUBSET MsgIds]
    /\ MaxMsg \in Nat /\ PageSize \in Nat \ {0} /\ MaxPages \in Nat
    /\ MaxFetches \in Nat /\ MaxEdits \in Nat /\ MaxRows \in Nat

VARIABLES
    topics,                         \* QList<ForumTopic*>
    topicIndexMap,                  \* QHash<int, int>
    topicLastMessageIdIndexMap,     \* QHash<qlonglong, int>
    nextOffset,                     \* nextOffsetMessageId, with its date and topic
    endReached,
    pages,          \* offsets of getForumTopics requests in flight
    fetching,       \* getForumTopic requests in flight, per topic
    continued,      \* every page so far belonged below all rows it met
    excused,        \* topics of which a getForumTopic has failed, or that were
                    \* pinned while they were not loaded
    messages,       \* TDLib: the messages of each topic
    pinned,         \* TDLib: the pinned topics
    drafts,         \* TDLib: the date of the draft in each topic, 0 if none
    issued,         \* TDLib: messages so far
    edits,          \* TDLib: changes of pins and drafts so far
    sending,        \* TDLib: messages being sent
    deleted         \* TDLib: deleted messages

listVars == <<topics, topicIndexMap, topicLastMessageIdIndexMap>>
pageVars == <<nextOffset, endReached, pages, continued>>
tdVars == <<messages, pinned, drafts, edits, issued, sending, deleted>>
vars == <<listVars, pageVars, fetching, excused, tdVars>>

Row == [id: Topics, last: MsgIds, isPinned: BOOLEAN, draft: 0..MaxMsg]

Existing == {t \in Topics : messages[t] # {}}

\* A topic as TDLib returns it.
Topic(t) == [id |-> t, last |-> Max(messages[t]), isPinned |-> t \in pinned, draft |-> drafts[t]]

\* The constructor asks for the first page.
Init ==
    /\ topics = <<>>
    /\ topicIndexMap = <<>>
    /\ topicLastMessageIdIndexMap = <<>>
    /\ nextOffset = 0
    /\ endReached = FALSE
    /\ pages = <<0>>
    /\ fetching = [t \in Topics |-> 0]
    /\ continued = TRUE
    /\ excused = {}
    /\ messages = History
    /\ pinned = {}
    /\ drafts = [t \in Topics |-> 0]
    /\ edits = 0
    /\ issued = Max((UNION Range(History)) \cup {0})
    /\ sending = {}
    /\ deleted = {}

-----------------------------------------------------------------------------
(***************************************************************************)
(* Order and index maps                                                    *)
(***************************************************************************)

Date(row) == IF row.draft = 0 THEN row.last ELSE row.draft

lessThan(a, b) ==
    IF a.isPinned # b.isPinned THEN a.isPinned
    ELSE IF Date(a) # Date(b) THEN Date(a) > Date(b)
    ELSE IF a.last # b.last THEN a.last > b.last
    ELSE a.id > b.id

\* map.insert(key(row), i) for the rows at positions R: of two rows with one
\* key the later one is remembered.
Inserted(map, list, key(_), R) ==
    [k \in DOMAIN map \cup {key(list[i]) : i \in R} |->
        LET here == {i \in R : key(list[i]) = k}
        IN  IF here = {} THEN map[k] ELSE Max(here)]

IdOf(row) == row.id
LastOf(row) == row.last

Without(map, k) == Restrict(map, DOMAIN map \ {k})

\* Both maps repaired for the rows at positions R.
Reindex(list, R) ==
    /\ topics' = list
    /\ topicIndexMap' = Inserted(topicIndexMap, list, IdOf, R)
    /\ topicLastMessageIdIndexMap' = Inserted(topicLastMessageIdIndexMap, list, LastOf, R)

\* Faulty: the rows that the new one pushes down keep their positions.
insertNewTopicNoRepair(row) ==
    LET pos == Min({p \in 1..Len(topics) + 1 :
                      p = Len(topics) + 1 \/ lessThan(row, topics[p])})
    IN  Reindex(InsertAt(topics, pos, row), {pos})

insertNewTopic(row) ==
    LET pos == Min({p \in 1..Len(topics) + 1 :
                      p = Len(topics) + 1 \/ lessThan(row, topics[p])})
    IN  Reindex(InsertAt(topics, pos, row), pos..Len(topics) + 1)

\* Faulty: a topic never moves down.
NewIndexUpOnly(list, i) ==
    Min({p \in 1..i : \A q \in p..i - 1 : lessThan(list[i], list[q])})

\* Up as far as it goes; down only if it cannot move up.
NewIndex(list, i) ==
    LET up == Min({p \in 1..i : \A q \in p..i - 1 : lessThan(list[i], list[q])})
        down == Max({p \in i..Len(list) : \A q \in i + 1..p : ~lessThan(list[i], list[q])})
    IN  IF up # i THEN up ELSE down

\* The moved row is entered first, then the rows it passed; the entry of its own
\* last message is not repaired.
updateForumTopicOrder(list, lastMap, i) ==
    LET j == NewIndex(list, i)
        moved == InsertAt(RemoveAt(list, i), j, list[i])
        passed == Min({i, j})..Max({i, j})
    IN  /\ topics' = moved
        /\ IF i = j
           THEN /\ topicIndexMap' = topicIndexMap
                /\ topicLastMessageIdIndexMap' = lastMap
           ELSE /\ topicIndexMap' =
                    Inserted(Inserted(topicIndexMap, moved, IdOf, {j}), moved, IdOf, passed \ {j})
                /\ topicLastMessageIdIndexMap' = Inserted(lastMap, moved, LastOf, passed \ {j})

\* handleForumTopicRolesChanged, the row at i being replaced.  The entry of the
\* last message before is removed; the new one is made under the identifier of
\* the topic, not of the message.
handleForumTopicRolesChanged(i, row, withPrev) ==
    LET old == topics[i]
        lastMap == IF withPrev /\ old.last # row.last
                   THEN Inserted(Without(topicLastMessageIdIndexMap, old.last),
                                 topics, IdOf, {i})
                   ELSE topicLastMessageIdIndexMap
    IN  updateForumTopicOrder([topics EXCEPT ![i] = row], lastMap, i)

Fetch(t) ==
    /\ fetching[t] < MaxFetches
    /\ fetching' = [fetching EXCEPT ![t] = @ + 1]

-----------------------------------------------------------------------------
(***************************************************************************)
(* Pages                                                                   *)
(***************************************************************************)

loadMore ==
    /\ nextOffset # 0
    /\ ~endReached
    /\ Len(pages) < MaxPages /\ Len(topics) < MaxRows
    /\ pages' = Append(pages, nextOffset)
    /\ UNCHANGED <<listVars, nextOffset, endReached, continued, fetching, excused, tdVars>>

\* TDLib: the topics of a page, newest last message first.
Page(offset) ==
    LET rest == {t \in Existing : (offset = 0 \/ Max(messages[t]) < offset) /\ t \notin pinned}
        newest == {t \in rest : Cardinality({u \in rest :
                        Max(messages[u]) > Max(messages[t])}) < PageSize}
    IN  newest \cup (IF offset = 0 THEN pinned ELSE {})

\* std::sort with lessThan
SortedPage(page) ==
    LET order == CHOOSE list \in [1..Cardinality(page) -> page] :
                    \A i, j \in DOMAIN list : i < j => lessThan(Topic(list[i]), Topic(list[j]))
    IN  [i \in DOMAIN order |-> Topic(order[i])]

handleForumTopicsReceived(k) ==
    LET page == Page(pages[k])
        rows == SortedPage(page)
        n == Len(topics)
        unpinned == page \ pinned
    IN  /\ pages' = RemoveAt(pages, k)
        /\ IF page = {}
           THEN /\ endReached' = TRUE
                /\ UNCHANGED <<listVars, nextOffset, continued>>
           ELSE /\ Reindex(topics \o rows, n + 1..n + Len(rows))
                /\ nextOffset' = IF unpinned = {} THEN 0
                                 ELSE Min({Max(messages[t]) : t \in unpinned})
                /\ continued' = (continued /\ \A i \in 1..n, t \in page :
                        topics[i].id # t /\ lessThan(topics[i], Topic(t)))
                /\ UNCHANGED endReached
        /\ UNCHANGED <<fetching, excused, tdVars>>

-----------------------------------------------------------------------------
(***************************************************************************)
(* Updates                                                                 *)
(***************************************************************************)

\* A row as updateLastMessage leaves it.
updateLastMessage(row, m) == [row EXCEPT !.last = m]

\* Faulty: a message in a topic that is not loaded is ignored.
handleNewMessageReceivedLoaded(t, outgoing) ==
    /\ issued < MaxMsg - 1
    /\ issued' = issued + 1
    /\ messages' = [messages EXCEPT ![t] = @ \cup {issued'}]
    /\ sending' = IF outgoing THEN sending \cup {issued'} ELSE sending
    /\ IF t \in DOMAIN topicIndexMap
       THEN LET i == topicIndexMap[t]
            IN  handleForumTopicRolesChanged(i, updateLastMessage(topics[i], issued'), TRUE)
       ELSE UNCHANGED listVars
    /\ UNCHANGED <<pageVars, fetching, excused, pinned, drafts, edits, deleted>>

\* A message arrives, perhaps the first one of a new topic.
handleNewMessageReceived(t, outgoing) ==
    /\ issued < MaxMsg - 1
    /\ issued' = issued + 1
    /\ messages' = [messages EXCEPT ![t] = @ \cup {issued'}]
    /\ sending' = IF outgoing THEN sending \cup {issued'} ELSE sending
    /\ \/ /\ t \in DOMAIN topicIndexMap
          /\ LET i == topicIndexMap[t]
             IN  handleForumTopicRolesChanged(i, updateLastMessage(topics[i], issued'), TRUE)
          /\ UNCHANGED fetching
       \/ /\ t \notin DOMAIN topicIndexMap
          /\ Fetch(t)
          /\ UNCHANGED listVars
    /\ UNCHANGED <<pageVars, excused, pinned, drafts, edits, deleted>>

\* An outgoing message gets its final identifier: the row is looked up by that
\* one, which no row can have yet.
handleMessageSendSucceeded(t, m) ==
    /\ issued < MaxMsg
    /\ m \in messages[t] \cap sending
    /\ issued' = issued + 1
    /\ messages' = [messages EXCEPT ![t] = (@ \ {m}) \cup {issued'}]
    /\ sending' = sending \ {m}
    /\ IF issued' \in DOMAIN topicLastMessageIdIndexMap
       THEN LET i == topicLastMessageIdIndexMap[issued']
            IN  handleForumTopicRolesChanged(i, updateLastMessage(topics[i], issued'), TRUE)
       ELSE UNCHANGED listVars
    /\ UNCHANGED <<pageVars, fetching, excused, pinned, drafts, edits, deleted>>

\* The content of a message is edited.  The row found for it counts as changed
\* in its date and is put in order; a position behind the end of the list is an
\* undefined read.
handleMessageContentUpdated(m) ==
    /\ m \in DOMAIN topicLastMessageIdIndexMap \cap MsgIds
    /\ LET i == topicLastMessageIdIndexMap[m]
       IN  IF i \in DOMAIN topics
           THEN updateForumTopicOrder(topics, topicLastMessageIdIndexMap, i)
           ELSE UNCHANGED listVars
    /\ UNCHANGED <<pageVars, fetching, excused, tdVars>>

\* Pinned or unpinned, or a draft written or removed.
handleForumTopicUpdated(t, isPinned, draft) ==
    /\ edits < MaxEdits
    /\ edits' = edits + 1
    /\ t \in Existing
    /\ isPinned # (t \in pinned) \/ draft # drafts[t]
    /\ pinned' = IF isPinned THEN pinned \cup {t} ELSE pinned \ {t}
    /\ drafts' = [drafts EXCEPT ![t] = draft]
    /\ IF t \in DOMAIN topicIndexMap
       THEN LET i == topicIndexMap[t]
                row == [topics[i] EXCEPT !.isPinned = isPinned, !.draft = draft]
            IN  handleForumTopicRolesChanged(i, row, FALSE)
       ELSE UNCHANGED listVars
    /\ excused' = IF isPinned /\ t \notin DOMAIN topicIndexMap THEN excused \cup {t} ELSE excused
    /\ UNCHANGED <<pageVars, fetching, messages, issued, sending, deleted>>

\* The last message of a topic is deleted, and the topic with its only one.
\* A position behind the end of the list is an undefined read.
handleMessagesDeleted(t) ==
    /\ t \in Existing
    /\ LET m == Max(messages[t])
       IN  /\ messages' = [messages EXCEPT ![t] = @ \ {m}]
           /\ deleted' = deleted \cup {m}
           /\ IF m \in DOMAIN topicLastMessageIdIndexMap
              THEN LET i == topicLastMessageIdIndexMap[m]
                   IN  IF i \in DOMAIN topics THEN Fetch(topics[i].id)
                       ELSE UNCHANGED fetching \/ \E u \in Topics : Fetch(u)
              ELSE UNCHANGED fetching
    /\ pinned' = {u \in pinned : messages'[u] # {}}
    /\ drafts' = [u \in Topics |-> IF messages'[u] = {} THEN 0 ELSE drafts[u]]
    /\ UNCHANGED <<listVars, pageVars, excused, edits, issued, sending>>

\* Faulty: a topic that was not asked for is taken for an answer.
handleForumTopicReceivedUnasked(t) ==
    /\ t \in Existing
    /\ fetching' = [fetching EXCEPT ![t] = @ - 1]
    /\ IF t \in DOMAIN topicIndexMap
       THEN handleForumTopicRolesChanged(topicIndexMap[t], Topic(t), TRUE)
       ELSE insertNewTopic(Topic(t))
    /\ UNCHANGED <<pageVars, excused, tdVars>>

\* The answer to getForumTopic.
handleForumTopicReceived(t) ==
    /\ fetching[t] > 0
    /\ t \in Existing
    /\ fetching' = [fetching EXCEPT ![t] = @ - 1]
    /\ IF t \in DOMAIN topicIndexMap
       THEN handleForumTopicRolesChanged(topicIndexMap[t], Topic(t), TRUE)
       ELSE insertNewTopic(Topic(t))
    /\ UNCHANGED <<pageVars, excused, tdVars>>

\* Any error that answers getForumTopic: the topic is gone, or not.
handleForumTopicNotFound(t) ==
    /\ fetching[t] > 0
    /\ fetching' = [fetching EXCEPT ![t] = @ - 1]
    /\ excused' = excused \cup {t}
    /\ IF t \in DOMAIN topicIndexMap
       THEN LET pos == topicIndexMap[t]
                rest == RemoveAt(topics, pos)
                behind == pos..Len(rest)
            IN  /\ topics' = rest
                /\ topicIndexMap' = Inserted(Without(topicIndexMap, t), rest, IdOf, behind)
                /\ topicLastMessageIdIndexMap' =
                    Inserted(Without(topicLastMessageIdIndexMap, t), rest, IdOf, behind)
       ELSE UNCHANGED listVars
    /\ UNCHANGED <<pageVars, tdVars>>

Next ==
    \/ loadMore
    \/ \E k \in DOMAIN pages : handleForumTopicsReceived(k)
    \/ \E m \in UNION Range(messages) : handleMessageContentUpdated(m)
    \/ \E t \in Topics :
        \/ \E outgoing \in BOOLEAN : handleNewMessageReceived(t, outgoing)
        \/ \E m \in sending : handleMessageSendSucceeded(t, m)
        \/ handleMessagesDeleted(t)
        \/ handleForumTopicReceived(t)
        \/ handleForumTopicNotFound(t)
        \/ \E isPinned \in BOOLEAN, draft \in {0, issued} :
            handleForumTopicUpdated(t, isPinned, draft)

Spec == Init /\ [][Next]_vars

-----------------------------------------------------------------------------
(***************************************************************************)
(* Properties                                                              *)
(***************************************************************************)

\* Types.  Only positions of rows are remembered, and only a request that was
\* made is answered.
TypeOK ==
    /\ topics \in Seq(Row)
    /\ DOMAIN topicIndexMap \subseteq Topics
    /\ DOMAIN topicLastMessageIdIndexMap \subseteq Topics \cup MsgIds
    /\ Range(topicLastMessageIdIndexMap) \subseteq Nat \ {0}
    /\ nextOffset \in 0..MaxMsg
    /\ endReached \in BOOLEAN
    /\ Range(pages) \subseteq 0..MaxMsg
    /\ fetching \in [Topics -> 0..MaxFetches]

\* Whatever pages, fetched topics and failures come in which order, also when
\* a topic is listed twice: every topic in topicIndexMap is found at its row.
\* All handlers index the list with it unchecked.
TopicIndexSound ==
    \A t \in DOMAIN topicIndexMap :
        topicIndexMap[t] \in DOMAIN topics /\ topics[topicIndexMap[t]].id = t

\* As long as each page belonged below the rows it met, insertions, moves and
\* removals keep every topic once, in the order of lessThan, and in the map.
OrderedWhileContinued ==
    continued =>
        /\ \A i, j \in DOMAIN topics : i < j =>
            topics[i].id # topics[j].id /\ lessThan(topics[i], topics[j])
        /\ DOMAIN topicIndexMap = {topics[i].id : i \in DOMAIN topics}

\* No topic is overlooked: one with a message at or above the end of the last
\* page is a row, or is being fetched, unless that failed or the topic was
\* pinned before it was loaded.  A message may come in a topic that is not
\* loaded, before or after its page.
NoTopicOverlooked ==
    nextOffset # 0 =>
        \A t \in Existing \ excused :
            \/ Max(messages[t]) < nextOffset
            \/ fetching[t] > 0
            \/ \E i \in DOMAIN topics : topics[i].id = t

\* forumtopicsmodel.cpp, handleMessagesDeleted, of a row whose last message was
\* deleted: "Topic could have been deleted or last message was updated", so the
\* topic is fetched again.
DeletedLastMessageRefetched ==
    \A i \in DOMAIN topics :
        topics[i].last \in deleted => fetching[topics[i].id] > 0
=============================================================================
