---------------------------- MODULE TDLibSession ----------------------------
(***************************************************************************)
(* Sessions with TDLib: TDLibWrapper, TDLibReceiver, TDLibData and         *)
(* TDLibResponse (src/tdlib/).  A client of TDLib lives from its first     *)
(* request to authorizationStateClosed, the last thing it sends but for    *)
(* errors that answer requests to a closed client; then the wrapper makes  *)
(* a new one.                                                              *)
(*                                                                         *)
(* There are three threads.  TDLib puts documents into a stream.  The      *)
(* receiver takes one at a time, drops those of other clients and turns    *)
(* the rest into events.  The main thread handles the events in order, and *)
(* sets the client of the receiver while the receiver runs.                *)
(*                                                                         *)
(* Of the data that TDLibData caches, the chats are modelled, and the rows *)
(* of the chat lists that point to them; an object ChatData is named after *)
(* the client that announced the chat.                                     *)
(***************************************************************************)
EXTENDS Integers, Sequences, FiniteSets, SequencesExt, Functions

CONSTANTS
    Chats,
    MaxClient,      \* bound on clients: 1..MaxClient
    MaxRequest,     \* bound on requests with an identifier
    MaxQueued       \* bound on documents and events that hold back chat updates

ASSUME SessionAssumption ==
    MaxClient \in Nat \ {0} /\ MaxRequest \in Nat /\ MaxQueued \in Nat

Clients == 1..MaxClient

VARIABLES
    clientId,               \* TDLibWrapper::clientId
    authorizationState,
    isClosing,              \* the destructor is waiting
    pc,                     \* what the main thread is about to do
    nextRequestId,
    responses,              \* TDLibResponse objects: unanswered requests
    chats,                  \* TDLibData::chats: chat -> ChatData
    rows,                   \* rows of the chat lists: chat -> ChatData
    events,                 \* queued signals
    receiverClientId,       \* TDLibReceiver::clientId
    received,               \* the document the receiver has taken
    receiving,              \* TDLibReceiver::isActive
    stream,                 \* TDLib: documents not yet taken
    client,                 \* TDLib: the state of each client
    requests,               \* TDLib: requests to answer
    announced,              \* TDLib: chats sent by updateNewChat
    listed                  \* TDLib: chats in the chat lists

wrapperVars == <<clientId, authorizationState, isClosing, pc>>
responseVars == <<nextRequestId, responses>>
dataVars == <<chats, rows>>
receiverVars == <<events, receiverClientId, received, receiving>>
tdVars == <<stream, client, requests, announced, listed>>
vars == <<wrapperVars, responseVars, dataVars, receiverVars, tdVars>>

\* A document: its client, its type and its chat or request identifier.
Doc(c, type, arg) == [client |-> c, type |-> type, arg |-> arg]

\* The constructor: the receiver is started, the options are to be sent.
Init ==
    /\ clientId = 1
    /\ authorizationState = "AuthorizationUnknown"
    /\ isClosing = FALSE
    /\ pc = "setInitialOptions"
    /\ nextRequestId = 1
    /\ responses = {}
    /\ chats = <<>>
    /\ rows = <<>>
    /\ events = <<>>
    /\ receiverClientId = 1
    /\ received = <<>>
    /\ receiving = TRUE
    /\ stream = <<>>
    /\ client = [c \in Clients |-> "created"]
    /\ requests = {}
    /\ announced = {}
    /\ listed = {}

-----------------------------------------------------------------------------
(***************************************************************************)
(* TDLib                                                                   *)
(***************************************************************************)

Send(c, type, arg) == stream' = Append(stream, Doc(c, type, arg))

\* The authorization states a client goes through.  It closes once it has
\* answered its requests.  The last client of the bound stays unless it is told
\* to close.
Authorization(c) ==
    /\ \/ /\ client[c] = "started"
          /\ client' = [client EXCEPT ![c] = "waiting"]
          /\ Send(c, "WaitTdlibParameters", 0)
       \/ /\ client[c] = "parameters"
          /\ client' = [client EXCEPT ![c] = "ready"]
          /\ Send(c, "AuthorizationReady", 0)
       \/ /\ client[c] = "ready"
          /\ c < MaxClient
          /\ client' = [client EXCEPT ![c] = "loggingOut"]
          /\ Send(c, "LoggingOut", 0)
       \/ /\ client[c] \in {"ready", "loggingOut", "toClose"}
          /\ c < MaxClient \/ client[c] = "toClose"
          /\ client' = [client EXCEPT ![c] = "closing"]
          /\ Send(c, "Closing", 0)
       \/ /\ client[c] = "closing"
          /\ \A r \in requests : r.client # c
          /\ client' = [client EXCEPT ![c] = "closed"]
          /\ Send(c, "Closed", 0)
    /\ IF client'[c] = "closing"
       THEN announced' = {} /\ listed' = {}
       ELSE UNCHANGED <<announced, listed>>
    /\ UNCHANGED <<wrapperVars, responseVars, dataVars, receiverVars, requests>>

Live(c) == client[c] \in {"ready", "loggingOut"}

ChatUpdate(c, chat) ==
    /\ Live(c)
    /\ Len(stream) + Len(received) + Len(events) < MaxQueued
    /\ \/ /\ chat \notin announced
          /\ announced' = announced \cup {chat}
          /\ \/ Send(c, "newChat", chat) /\ UNCHANGED listed
             \/ Send(c, "newListedChat", chat) /\ listed' = listed \cup {chat}
       \/ /\ chat \in announced \ listed
          /\ listed' = listed \cup {chat}
          /\ Send(c, "chatAddedToList", chat)
          /\ UNCHANGED announced
       \/ /\ chat \in listed
          /\ listed' = listed \ {chat}
          /\ Send(c, "chatRemovedFromList", chat)
          /\ UNCHANGED announced
    /\ UNCHANGED <<wrapperVars, responseVars, dataVars, receiverVars, client, requests>>

\* Every request is answered: by a closing or closed client with an error.
Answer(r) ==
    /\ requests' = requests \ {r}
    /\ Send(r.client, "response", r.id)
    /\ UNCHANGED <<wrapperVars, responseVars, dataVars, receiverVars, client, announced, listed>>

-----------------------------------------------------------------------------
(***************************************************************************)
(* The receiver                                                            *)
(***************************************************************************)

\* One round of receiverLoop: td_receive
receiverLoop ==
    /\ receiving
    /\ received = <<>>
    /\ stream # <<>>
    /\ received' = <<Head(stream)>>
    /\ stream' = Tail(stream)
    /\ UNCHANGED <<wrapperVars, responseVars, dataVars, events, receiverClientId, receiving,
                   client, requests, announced, listed>>

\* The client is compared when the document is processed.
processReceivedDocument ==
    /\ received # <<>>
    /\ received' = <<>>
    /\ events' = IF received[1].client = receiverClientId
                 THEN Append(events, received[1]) ELSE events
    /\ UNCHANGED <<wrapperVars, responseVars, dataVars, receiverClientId, receiving, tdVars>>

Receiver == receiverLoop \/ processReceivedDocument

-----------------------------------------------------------------------------
(***************************************************************************)
(* The main thread                                                         *)
(***************************************************************************)

Put(f, x, y) == [d \in DOMAIN f \cup {x} |-> IF d = x THEN y ELSE f[d]]

\* TDLibData::handleNewChatDiscovered
handleNewChatDiscovered(e) ==
    /\ e.type \in {"newChat", "newListedChat"}
    /\ chats' = Put(chats, e.arg, e.client)
    /\ rows' = IF e.type = "newListedChat" THEN Put(rows, e.arg, e.client) ELSE rows
    /\ UNCHANGED <<wrapperVars, responseVars, client>>

\* TDLibData::handleChatAddedToList
handleChatAddedToList(e) ==
    /\ e.type = "chatAddedToList"
    /\ rows' = IF e.arg \in DOMAIN chats THEN Put(rows, e.arg, chats[e.arg]) ELSE rows
    /\ UNCHANGED <<wrapperVars, responseVars, chats, client>>

\* TDLibData::handleChatRemovedFromList
handleChatRemovedFromList(e) ==
    /\ e.type = "chatRemovedFromList"
    /\ rows' = IF e.arg \in DOMAIN chats THEN Restrict(rows, DOMAIN rows \ {e.arg}) ELSE rows
    /\ UNCHANGED <<wrapperVars, responseVars, chats, client>>

\* TDLibResponse::handleResponseForRequestIdReceived
handleResponseForRequestIdReceived(e) ==
    /\ e.type = "response"
    /\ responses' = {r \in responses : r.id # e.arg}
    /\ UNCHANGED <<wrapperVars, nextRequestId, dataVars, client>>

\* clearContent: the chat lists are reset.
ClearContent == rows' = <<>>

\* TDLibData::reset: the chats are deleted.
Reset == chats' = <<>>

\* Faulty: the lists were cleared when the logout began.
WhenClosingResetOnly ==
    /\ IF isClosing THEN UNCHANGED dataVars ELSE Reset /\ UNCHANGED rows
    /\ UNCHANGED <<clientId, pc>>

\* authorizationStateClosing
WhenClosing ==
    /\ IF isClosing THEN UNCHANGED dataVars ELSE ClearContent /\ Reset
    /\ UNCHANGED <<clientId, pc>>

\* authorizationStateClosed; td_create_client_id
WhenClosed ==
    /\ IF isClosing THEN UNCHANGED <<clientId, pc>>
       ELSE /\ clientId' = clientId + 1
            /\ pc' = "setClientId"
    /\ UNCHANGED dataVars

\* Faulty: Closed is only stored when a new client is made.
handleAuthorizationStateNotStored(e) ==
    /\ e.type \in {"WaitTdlibParameters", "AuthorizationReady", "LoggingOut", "Closing", "Closed"}
    /\ authorizationState' = IF isClosing /\ e.type = "Closed" THEN authorizationState ELSE e.type
    /\ client' = IF e.type = "WaitTdlibParameters" /\ client[clientId] = "waiting"
                 THEN [client EXCEPT ![clientId] = "parameters"] ELSE client
    /\ CASE e.type = "LoggingOut" -> ClearContent /\ UNCHANGED <<clientId, pc, chats>>
         [] e.type = "Closing" -> WhenClosing
         [] e.type = "Closed" -> WhenClosed
         [] OTHER -> UNCHANGED <<clientId, pc, dataVars>>
    /\ UNCHANGED <<isClosing, responseVars>>

\* setTdlibParameters is sent to the client that waits for it.
handleAuthorizationStateChanged(e) ==
    /\ e.type \in {"WaitTdlibParameters", "AuthorizationReady", "LoggingOut", "Closing", "Closed"}
    /\ authorizationState' = e.type
    /\ client' = IF e.type = "WaitTdlibParameters" /\ client[clientId] = "waiting"
                 THEN [client EXCEPT ![clientId] = "parameters"] ELSE client
    /\ CASE e.type = "LoggingOut" -> ClearContent /\ UNCHANGED <<clientId, pc, chats>>
         [] e.type = "Closing" -> WhenClosing
         [] e.type = "Closed" -> WhenClosed
         [] OTHER -> UNCHANGED <<clientId, pc, dataVars>>
    /\ UNCHANGED <<isClosing, responseVars>>

\* The event loop, also the one that the destructor runs while it waits.
HandleEvent ==
    /\ pc \in {"idle", "waitForClosed", "waitForReceiver"}
    /\ events # <<>>
    /\ events' = Tail(events)
    /\ LET e == Head(events)
       IN  \/ handleAuthorizationStateChanged(e)
           \/ handleNewChatDiscovered(e)
           \/ handleChatAddedToList(e)
           \/ handleChatRemovedFromList(e)
           \/ handleResponseForRequestIdReceived(e)
    /\ UNCHANGED <<receiverClientId, received, receiving, stream, requests, announced, listed>>

\* Faulty: the new client is told its options before the receiver knows it.
SetClientOptionsFirst ==
    \/ /\ pc = "setClientId"
       /\ client' = [client EXCEPT ![clientId] = "started"]
       /\ pc' = "setInitialOptions"
       /\ UNCHANGED receiverClientId
    \/ /\ pc = "setInitialOptions"
       /\ receiverClientId' = clientId
       /\ client' = IF client[clientId] = "created"
                    THEN [client EXCEPT ![clientId] = "started"] ELSE client
       /\ pc' = "idle"

\* The receiver gets to know the new client, then the options start it.
SetClient ==
    \/ /\ pc = "setClientId"
       /\ receiverClientId' = clientId
       /\ pc' = "setInitialOptions"
       /\ UNCHANGED client
    \/ /\ pc = "setInitialOptions"
       /\ client' = [client EXCEPT ![clientId] = "started"]
       /\ pc' = "idle"
       /\ UNCHANGED receiverClientId

NewClient ==
    /\ SetClient
    /\ UNCHANGED <<clientId, authorizationState, isClosing, responseVars, dataVars,
                   events, received, receiving, stream, requests, announced, listed>>

\* Faulty: the response waits for the identifier of the next request.
sendRequestWithNextId ==
    /\ pc = "idle"
    /\ nextRequestId <= MaxRequest
    /\ nextRequestId' = nextRequestId + 1
    /\ requests' = requests \cup {[id |-> nextRequestId, client |-> clientId]}
    /\ responses' = responses \cup {[id |-> nextRequestId', late |-> client[clientId] = "closed"]}
    /\ UNCHANGED <<wrapperVars, dataVars, receiverVars, stream, client, announced, listed>>

\* late: the client was closed, which the main thread does not know yet.
sendRequestWithId ==
    /\ pc = "idle"
    /\ nextRequestId <= MaxRequest
    /\ nextRequestId' = nextRequestId + 1
    /\ requests' = requests \cup {[id |-> nextRequestId, client |-> clientId]}
    /\ responses' = responses \cup {[id |-> nextRequestId, late |-> client[clientId] = "closed"]}
    /\ UNCHANGED <<wrapperVars, dataVars, receiverVars, stream, client, announced, listed>>

\* ~TDLibWrapper: close() and wait, unless the client is closed already.
Destroy ==
    /\ pc = "idle"
    /\ IF authorizationState # "Closed"
       THEN /\ isClosing' = TRUE
            /\ pc' = "waitForClosed"
            /\ client' = IF client[clientId] \in {"closing", "closed"} THEN client
                         ELSE [client EXCEPT ![clientId] = "toClose"]
       ELSE /\ pc' = "stop"
            /\ UNCHANGED <<isClosing, client>>
    /\ UNCHANGED <<clientId, authorizationState, responseVars, dataVars, receiverVars,
                   stream, requests, announced, listed>>

\* The wait is over; the receiver is told to stop, and does after its round.
StopReceiver ==
    /\ \/ pc = "waitForClosed" /\ authorizationState = "Closed"
       \/ pc = "stop"
    /\ pc' = "waitForReceiver"
    /\ receiving' = FALSE
    /\ UNCHANGED <<clientId, authorizationState, isClosing, responseVars, dataVars, events,
                   receiverClientId, received, tdVars>>

Destroyed ==
    /\ pc = "waitForReceiver"
    /\ received = <<>>
    /\ pc' = "gone"
    /\ UNCHANGED <<clientId, authorizationState, isClosing, responseVars, dataVars,
                   receiverVars, tdVars>>

MainThread == HandleEvent \/ NewClient \/ StopReceiver \/ Destroyed

\* The process is gone.
Gone == pc = "gone" /\ UNCHANGED vars

Next ==
    \/ \E c \in Clients : Authorization(c) \/ \E chat \in Chats : ChatUpdate(c, chat)
    \/ \E r \in requests : Answer(r)
    \/ Receiver
    \/ MainThread
    \/ sendRequestWithId
    \/ Destroy
    \/ Gone

Spec == Init /\ [][Next]_vars

\* The threads run.  TDLib starts a client, closes one that is closing or told
\* to, and answers every request; nothing makes the user log in or out.
FairSpec ==
    /\ Spec
    /\ WF_vars(Receiver)
    /\ WF_vars(MainThread)
    /\ \A c \in Clients :
        WF_vars(client[c] \in {"started", "toClose", "loggingOut", "closing"} /\ Authorization(c))
    /\ WF_vars(\E r \in requests : Answer(r))

-----------------------------------------------------------------------------
(***************************************************************************)
(* Properties                                                              *)
(***************************************************************************)

\* No row outlives its chat: what a row of the chat lists points to is the
\* ChatData that TDLibData has for the chat, so that a row neither dangles
\* after the reset of a logout, nor shows data that updates no longer reach,
\* although chats come and go until the session closes, and in the next one.
RowsAlive ==
    \A chat \in DOMAIN rows : chat \in DOMAIN chats /\ rows[chat] = chats[chat]

\* After a session has closed the next one is set up: no document of the new
\* client is lost while the receiver still filters for the old one.
NextSessionSetUp ==
    (authorizationState = "Closed" /\ pc = "setClientId")
        ~> (authorizationState = "WaitTdlibParameters" \/ pc = "gone")

\* Every request is answered to its TDLibResponse, also when the client closes
\* meanwhile; only one that was sent to a closed client may go unanswered.
ResponsesFinish ==
    \A id \in 1..MaxRequest :
        [id |-> id, late |-> FALSE] \in responses
            ~> ([id |-> id, late |-> FALSE] \notin responses \/ pc \in {"waitForReceiver", "gone"})

\* The destructor ends, whatever state the session is in.
DestructorEnds == isClosing ~> pc = "gone"
=============================================================================
