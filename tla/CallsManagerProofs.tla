------------------------- MODULE CallsManagerProofs -------------------------
(***************************************************************************)
(* Proofs about CallsManager, for any number of calls: the notifications   *)
(* are those of the pending calls, and what calls use is released.         *)
(***************************************************************************)
EXTENDS CallsManager, TLAPS

CallsTyped ==
    /\ seen \in [Calls -> CallState \cup {"none"}]
    /\ DOMAIN activeCalls \subseteq Calls
    /\ currentCallId \in Calls \cup {0}
    /\ callNotifications \subseteq Incoming
    /\ unidentified \subseteq Outgoing

\* CallsManager forgets calls, but what it knows of a call is up to date.
KnownAsSeen ==
    \A c \in DOMAIN activeCalls : activeCalls[c] = seen[c] /\ seen[c] # "none"

\* TDLib sends nothing between the first update of an outgoing call and its
\* identifier.
UnidentifiedPending == \A c \in unidentified : seen[c] = "Pending"

IInv ==
    /\ CallsTyped
    /\ KnownAsSeen
    /\ UnidentifiedPending
    /\ NotifiedWhilePending
    /\ ResourcesReleased

-----------------------------------------------------------------------------
(***************************************************************************)
(* Updates of TDLib                                                        *)
(***************************************************************************)

\* The first update of a call reports it as pending, and only a pending call
\* is reported as pending again.
LEMMA PendingUpdates ==
    ASSUME NEW c \in Calls, NEW s \in Updates(c)
    PROVE  /\ seen[c] = "none" => s = "Pending"
           /\ s = "Pending" => seen[c] \in {"none", "Pending"}
           /\ s \in CallState
<1>1. CASE seen[c] = "none"
  BY <1>1 DEF Updates, NextStates, CallState
<1>2. CASE seen[c] = "Pending"
  BY <1>2 DEF Updates, NextStates, CallState
<1>3. CASE seen[c] \notin {"none", "Pending"}
  BY <1>3 DEF Updates, NextStates, CallState
<1> QED
  BY <1>1, <1>2, <1>3

\* handleCallUpdated adds and removes notifications by what CallsManager knows
\* of the call, which is what TDLib last said, or nothing.
LEMMA UpdatedStep ==
    ASSUME IInv, NEW c \in Calls, NEW s \in CallState, handleCallUpdated(c, s)
    PROVE  IInv'
<1>1. /\ CallsTyped /\ KnownAsSeen /\ UnidentifiedPending
      /\ NotifiedWhilePending /\ ResourcesReleased
  BY DEF IInv
<1>2. /\ s \in Updates(c) /\ c \notin unidentified
      /\ seen' = [seen EXCEPT ![c] = s]
      /\ unidentified' = IF seen[c] = "none" /\ c \in Outgoing
                         THEN unidentified \cup {c} ELSE unidentified
      /\ activeCalls' = [d \in DOMAIN activeCalls \cup {c} |->
                            IF d = c THEN s ELSE activeCalls[d]]
      /\ callNotifications' = IF Rings(c, s) THEN callNotifications \cup {c}
                              ELSE IF NotPending(c, s) THEN callNotifications \ {c}
                              ELSE callNotifications
      /\ callState' = IF c = currentCallId /\ s = "Discarded" THEN "none"
                      ELSE controlCallState(callNotifications', Rings(c, s))
      /\ currentCallId' = currentCallId
      /\ IF c = currentCallId THEN CurrentCallUpdated(s) ELSE UNCHANGED connectionVars
  BY DEF handleCallUpdated
<1>3. /\ seen[c] = "none" => s = "Pending"
      /\ s = "Pending" => seen[c] \in {"none", "Pending"}
  BY <1>2, PendingUpdates
<1>4. /\ seen' \in [Calls -> CallState \cup {"none"}]
      /\ seen'[c] = s
      /\ \A d \in Calls : d # c => seen'[d] = seen[d]
  BY <1>1, <1>2 DEF CallsTyped
<1>5. Rings(c, s) <=> c \in Incoming /\ c \notin DOMAIN activeCalls /\ s = "Pending"
  BY DEF Rings, Known
<1>6. NotPending(c, s) <=> /\ c \in Incoming /\ s # "Pending"
                           /\ c \notin DOMAIN activeCalls \/ seen[c] = "Pending"
  BY <1>1 DEF NotPending, Known, KnownAsSeen
<1>7. callNotifications' = {d \in Incoming : seen'[d] = "Pending"}
  <2>1. Incoming \subseteq Calls
    BY DEF Calls
  <2>2. callNotifications = {d \in Incoming : seen[d] = "Pending"}
    BY <1>1 DEF NotifiedWhilePending
  <2>3. c \in DOMAIN activeCalls => seen[c] # "none"
    BY <1>1 DEF KnownAsSeen
  <2>4. ASSUME NEW d \in Incoming, d # c
        PROVE  d \in callNotifications' <=> seen'[d] = "Pending"
    BY <1>2, <1>4, <2>1, <2>2, <2>4
  <2>5. ASSUME c \in Incoming
        PROVE  c \in callNotifications' <=> seen'[c] = "Pending"
    <3>1. CASE s = "Pending" /\ c \notin DOMAIN activeCalls
      BY <1>2, <1>4, <1>5, <2>5, <3>1
    <3>2. CASE s = "Pending" /\ c \in DOMAIN activeCalls
      <4>1. seen[c] = "Pending"
        BY <1>3, <2>3, <3>2
      <4> QED
        BY <1>2, <1>4, <1>5, <1>6, <2>2, <2>5, <3>2, <4>1
    <3>3. CASE s # "Pending"
      BY <1>2, <1>4, <1>5, <1>6, <2>2, <2>5, <3>3
    <3> QED
      BY <3>1, <3>2, <3>3
  <2>6. callNotifications' \subseteq Incoming
    BY <1>2, <1>5, <2>2
  <2> QED
    BY <2>4, <2>5, <2>6
<1>8. CallsTyped'
  <2>1. unidentified' \subseteq Outgoing /\ DOMAIN activeCalls' \subseteq Calls
    BY <1>1, <1>2 DEF CallsTyped
  <2> QED
    BY <1>1, <1>2, <1>4, <1>7, <2>1 DEF CallsTyped
<1>9. KnownAsSeen'
  <2> SUFFICES ASSUME NEW d \in DOMAIN activeCalls'
               PROVE  activeCalls'[d] = seen'[d] /\ seen'[d] # "none"
    BY DEF KnownAsSeen
  <2>1. CASE d = c
    BY <1>2, <1>4, <2>1 DEF CallState
  <2>2. CASE d # c
    BY <1>1, <1>2, <1>4, <2>2 DEF KnownAsSeen, CallsTyped
  <2> QED
    BY <2>1, <2>2
<1>10. UnidentifiedPending'
  <2> SUFFICES ASSUME NEW d \in unidentified'
               PROVE  seen'[d] = "Pending"
    BY DEF UnidentifiedPending
  <2>1. CASE d = c
    BY <1>2, <1>3, <1>4, <2>1
  <2>2. CASE d # c
    <3>1. d \in unidentified /\ d \in Calls
      BY <1>1, <1>2, <2>2 DEF CallsTyped, Calls
    <3> QED
      BY <1>1, <1>4, <2>2, <3>1 DEF UnidentifiedPending
  <2> QED
    BY <2>1, <2>2
<1>11. ResourcesReleased'
  <2>1. instance' # 0 => instance' = currentCallId' /\ seen'[instance'] # "Discarded"
    <3>1. CASE c # currentCallId
      <4>1. instance' = instance
        BY <1>2, <3>1 DEF connectionVars
      <4> QED
        BY <1>1, <1>2, <1>4, <3>1, <4>1 DEF ResourcesReleased, CallsTyped
    <3>2. CASE c = currentCallId
      <4>1. CASE s = "Ready"
        BY <1>2, <1>4, <3>2, <4>1 DEF CurrentCallUpdated, handleCallReady
      <4>2. CASE s = "Discarded"
        BY <1>2, <3>2, <4>2 DEF CurrentCallUpdated, resetInstance
      <4>3. CASE s \notin {"Ready", "Discarded"}
        <5>1. instance' = instance
          BY <1>2, <3>2, <4>3 DEF CurrentCallUpdated, connectionVars
        <5> QED
          BY <1>1, <1>2, <1>4, <3>2, <4>3, <5>1 DEF ResourcesReleased
      <4> QED
        BY <4>1, <4>2, <4>3
    <3> QED
      BY <3>1, <3>2
  <2>2. callState' = "active" => currentCallId' # 0 /\ seen'[currentCallId'] # "Discarded"
    <3> SUFFICES ASSUME callState' = "active"
                 PROVE  currentCallId # 0 /\ seen'[currentCallId] # "Discarded"
      BY <1>2
    <3>1. callState = "active" /\ ~(c = currentCallId /\ s = "Discarded")
      BY <1>2 DEF controlCallState
    <3> QED
      BY <1>1, <1>4, <3>1 DEF ResourcesReleased, CallsTyped
  <2>3. callState' = "ringing" => callNotifications' # {}
    <3> SUFFICES ASSUME callState' = "ringing", callNotifications' = {}
                 PROVE  FALSE
      OBVIOUS
    <3>1. ~Rings(c, s)
      BY <1>2
    <3>2. callState = "ringing" /\ callNotifications = {}
      BY <1>2, <3>1 DEF controlCallState
    <3> QED
      BY <1>1, <3>2 DEF ResourcesReleased
  <2> QED
    BY <2>1, <2>2, <2>3 DEF ResourcesReleased
<1> QED
  BY <1>7, <1>8, <1>9, <1>10, <1>11 DEF IInv, NotifiedWhilePending

-----------------------------------------------------------------------------
(***************************************************************************)
(* The user, and the callbacks of tgcalls                                  *)
(***************************************************************************)

\* A new current call: it is pending, and has no instance yet.
LEMMA CurrentCallStep ==
    ASSUME IInv, NEW c \in Calls, seen[c] # "Discarded", setCurrentCallId(c),
           seen' = seen, callNotifications' = callNotifications,
           unidentified' \subseteq unidentified
    PROVE  IInv'
<1>1. /\ instance' = 0 /\ currentCallId' = c /\ callState' = "active"
      /\ activeCalls' = [d \in DOMAIN activeCalls \ {currentCallId} |-> activeCalls[d]]
  BY DEF setCurrentCallId, resetInstance
<1>2. CallsTyped' /\ KnownAsSeen' /\ UnidentifiedPending' /\ NotifiedWhilePending'
  BY <1>1 DEF IInv, CallsTyped, KnownAsSeen, UnidentifiedPending, NotifiedWhilePending
<1>3. c # 0
  BY CallsAssumption
<1>4. ResourcesReleased'
  BY <1>1, <1>3 DEF ResourcesReleased
<1> QED
  BY <1>2, <1>4 DEF IInv

\* Steps that touch neither the notifications nor the current call.
LEMMA OtherStep ==
    ASSUME IInv,
           seen' = seen, callNotifications' = callNotifications,
           unidentified' = unidentified, currentCallId' = currentCallId,
           instance' = instance,
           activeCalls' = activeCalls
             \/ \E c \in Calls : activeCalls' = [d \in DOMAIN activeCalls \ {c} |-> activeCalls[d]],
           callState' = callState \/ (callState' = "ringing" /\ callNotifications # {})
    PROVE  IInv'
<1>1. CallsTyped' /\ KnownAsSeen'
  BY DEF IInv, CallsTyped, KnownAsSeen
<1>2. UnidentifiedPending' /\ NotifiedWhilePending' /\ ResourcesReleased'
  BY DEF IInv, UnidentifiedPending, NotifiedWhilePending, ResourcesReleased
<1> QED
  BY <1>1, <1>2 DEF IInv

\* A new CallsManager knows no calls.
LEMMA InitIInv == Init => IInv
<1> SUFFICES ASSUME Init PROVE IInv
  OBVIOUS
<1>1. seen = [c \in Calls |-> "none"] /\ DOMAIN activeCalls = {}
  BY DEF Init
<1>2. CallsTyped
  BY <1>1 DEF Init, CallsTyped
<1>3. KnownAsSeen /\ UnidentifiedPending
  BY <1>1 DEF Init, KnownAsSeen, UnidentifiedPending
<1>4. NotifiedWhilePending
  BY <1>1 DEF Init, NotifiedWhilePending, Calls
<1>5. ResourcesReleased
  BY DEF Init, ResourcesReleased
<1> QED
  BY <1>2, <1>3, <1>4, <1>5 DEF IInv

\* The invariant is inductive.
LEMMA NextIInv == IInv /\ [Next]_vars => IInv'
<1> SUFFICES ASSUME IInv, [Next]_vars PROVE IInv'
  OBVIOUS
<1>1. ASSUME NEW c \in Calls, NEW s \in CallState, handleCallUpdated(c, s)
      PROVE  IInv'
  BY <1>1, UpdatedStep
<1>2. ASSUME NEW c \in Calls, handleCallIdReceived(c)
      PROVE  IInv'
  <2>1. seen[c] = "Pending"
    BY <1>2 DEF handleCallIdReceived, IInv, UnidentifiedPending
  <2>2. /\ setCurrentCallId(c) /\ seen' = seen
        /\ callNotifications' = callNotifications
        /\ unidentified' \subseteq unidentified
    BY <1>2 DEF handleCallIdReceived
  <2> QED
    BY <2>1, <2>2, CurrentCallStep
<1>3. ASSUME NEW c \in Incoming, acceptCall(c)
      PROVE  IInv'
  <2>1. seen[c] = "Pending" /\ c \in Calls
    BY <1>3 DEF acceptCall, Answered, IInv, NotifiedWhilePending, Calls
  <2>2. /\ setCurrentCallId(c) /\ seen' = seen
        /\ callNotifications' = callNotifications
        /\ unidentified' \subseteq unidentified
    BY <1>3 DEF acceptCall, Answered
  <2> QED
    BY <2>1, <2>2, CurrentCallStep
<1>4. ASSUME NEW c \in Incoming, discardCall(c)
      PROVE  IInv'
  <2>1. c \in Calls
    BY DEF Calls
  <2>2. /\ seen' = seen /\ callNotifications' = callNotifications
        /\ unidentified' = unidentified /\ currentCallId' = currentCallId
        /\ instance' = instance /\ callState' = callState
        /\ \/ activeCalls' = activeCalls
           \/ activeCalls' = [d \in DOMAIN activeCalls \ {c} |-> activeCalls[d]]
    BY <1>4 DEF discardCall, Answered, connectionVars
  <2> QED
    BY <2>1, <2>2, OtherStep
<1>5. ASSUME NEW c \in Incoming, updateNotificationForChat(c)
      PROVE  IInv'
  <2>1. /\ seen' = seen /\ callNotifications' = callNotifications
        /\ unidentified' = unidentified /\ currentCallId' = currentCallId
        /\ instance' = instance /\ callState' = "ringing" /\ callNotifications # {}
        /\ activeCalls' = activeCalls
    BY <1>5
    DEF updateNotificationForChat, controlCallState, connectionVars, tdVars, listVars
  <2> QED
    BY <2>1, OtherStep
<1>6. CASE discardCurrentCall \/ OwnCallback \/ LateCallback \/ InstanceStopped
           \/ UNCHANGED vars
  <2>1. /\ seen' = seen /\ callNotifications' = callNotifications
        /\ unidentified' = unidentified /\ currentCallId' = currentCallId
        /\ instance' = instance /\ callState' = callState
        /\ activeCalls' = activeCalls
    BY <1>6
    DEF discardCurrentCall, OwnCallback, LateCallback, InstanceStopped, vars,
        connectionVars, tdVars, listVars
  <2> QED
    BY <2>1, OtherStep
<1> QED
  BY <1>1, <1>2, <1>3, <1>4, <1>5, <1>6 DEF Next, TDLib, User

-----------------------------------------------------------------------------

\* For any number of calls, however they are answered, declined, replaced and
\* forgotten: NotificationManager shows exactly the pending incoming ones.
THEOREM NotificationsCorrect == Spec => []NotifiedWhilePending
<1>1. IInv => NotifiedWhilePending
  BY DEF IInv
<1> QED
  BY <1>1, InitIInv, NextIInv, PTL DEF Spec

\* The instance of tgcalls and the state of the device belong to the current
\* call, or to calls that ring, and are released when it is discarded.
THEOREM ReleaseCorrect == Spec => []ResourcesReleased
<1>1. IInv => ResourcesReleased
  BY DEF IInv
<1> QED
  BY <1>1, InitIInv, NextIInv, PTL DEF Spec

-----------------------------------------------------------------------------
(***************************************************************************)
(* The current call is known.  The first answer of the user, and the       *)
(* identifier of an outgoing call, meet a call that is still known, and is *)
(* not the one that setCurrentCallId is about to remove.                   *)
(***************************************************************************)
UnansweredKnown ==
    \A c \in callNotifications : c \notin accepted \cup discarded => Known(c)

UnidentifiedKnown == \A c \in unidentified : Known(c)

CurrentAnswered ==
    /\ currentCallId \in Incoming => currentCallId \in accepted
    /\ currentCallId \in Outgoing => /\ currentCallId \notin unidentified
                                     /\ seen[currentCallId] # "none"

JInv == IInv /\ UnansweredKnown /\ UnidentifiedKnown /\ CurrentAnswered /\ CurrentCallKnown

\* handleCallUpdated makes a call known and forgets none.
LEMMA UpdatedKeepsKnown ==
    ASSUME JInv, NEW c \in Calls, NEW s \in CallState, handleCallUpdated(c, s)
    PROVE  UnansweredKnown' /\ UnidentifiedKnown' /\ CurrentAnswered' /\ CurrentCallKnown'
<1>1. /\ DOMAIN activeCalls' = DOMAIN activeCalls \cup {c}
      /\ callNotifications' \subseteq callNotifications \cup {c}
      /\ unidentified' \subseteq unidentified \cup {c}
      /\ c \in unidentified' => seen[c] = "none"
      /\ currentCallId' = currentCallId /\ accepted' = accepted
      /\ discarded' = discarded /\ answeredTwice' = answeredTwice
      /\ seen' = [seen EXCEPT ![c] = s]
  BY DEF handleCallUpdated
<1>2. UnansweredKnown' /\ UnidentifiedKnown'
  BY <1>1 DEF JInv, UnansweredKnown, UnidentifiedKnown, Known
<1>3. CurrentAnswered'
  <2>1. seen \in [Calls -> CallState \cup {"none"}] /\ s # "none"
    BY DEF JInv, IInv, CallsTyped, CallState
  <2> QED
    BY <1>1, <2>1 DEF JInv, CurrentAnswered, Calls
<1>4. CurrentCallKnown'
  BY <1>1 DEF JInv, CurrentCallKnown, Known
<1> QED
  BY <1>2, <1>3, <1>4

\* A call that the user answers for the first time.
LEMMA AcceptedKnown ==
    ASSUME JInv, NEW c \in Incoming, acceptCall(c)
    PROVE  UnansweredKnown' /\ UnidentifiedKnown' /\ CurrentAnswered' /\ CurrentCallKnown'
<1>1. /\ DOMAIN activeCalls' = DOMAIN activeCalls \ {currentCallId}
      /\ c \in callNotifications /\ callNotifications' = callNotifications
      /\ unidentified' = unidentified /\ currentCallId' = c
      /\ accepted' = accepted \cup {c} /\ discarded' = discarded
      /\ answeredTwice' = (answeredTwice \/ c \in accepted \cup discarded)
  BY DEF acceptCall, Answered, setCurrentCallId
<1>2. /\ callNotifications \subseteq Incoming /\ unidentified \subseteq Outgoing
      /\ currentCallId \in Incoming \cup Outgoing \cup {0}
      /\ 0 \notin Incoming /\ 0 \notin Outgoing /\ Incoming \cap Outgoing = {}
  BY CallsAssumption DEF JInv, IInv, CallsTyped, Calls
<1>3. UnansweredKnown'
  BY <1>1, <1>2 DEF JInv, UnansweredKnown, CurrentAnswered, Known
<1>4. UnidentifiedKnown'
  BY <1>1, <1>2 DEF JInv, UnidentifiedKnown, CurrentAnswered, Known
<1>5. CurrentAnswered'
  BY <1>1, <1>2 DEF CurrentAnswered
<1>6. CurrentCallKnown'
  BY <1>1, <1>2 DEF JInv, CurrentCallKnown, UnansweredKnown, CurrentAnswered, Known
<1> QED
  BY <1>3, <1>4, <1>5, <1>6

\* An outgoing call gets its identifier.
LEMMA IdentifiedKnown ==
    ASSUME JInv, NEW c \in Calls, handleCallIdReceived(c)
    PROVE  UnansweredKnown' /\ UnidentifiedKnown' /\ CurrentAnswered' /\ CurrentCallKnown'
<1>1. /\ DOMAIN activeCalls' = DOMAIN activeCalls \ {currentCallId}
      /\ c \in unidentified /\ callNotifications' = callNotifications
      /\ unidentified' = unidentified \ {c} /\ currentCallId' = c
      /\ accepted' = accepted /\ discarded' = discarded /\ seen' = seen
      /\ answeredTwice' = answeredTwice
  BY DEF handleCallIdReceived, setCurrentCallId
<1>2. /\ callNotifications \subseteq Incoming /\ unidentified \subseteq Outgoing
      /\ currentCallId \in Incoming \cup Outgoing \cup {0}
      /\ 0 \notin Incoming /\ 0 \notin Outgoing /\ Incoming \cap Outgoing = {}
      /\ seen[c] = "Pending"
  BY <1>1, CallsAssumption DEF JInv, IInv, CallsTyped, Calls, UnidentifiedPending
<1>3. UnansweredKnown'
  BY <1>1, <1>2 DEF JInv, UnansweredKnown, CurrentAnswered, Known
<1>4. UnidentifiedKnown'
  BY <1>1, <1>2 DEF JInv, UnidentifiedKnown, CurrentAnswered, Known
<1>5. CurrentAnswered'
  BY <1>1, <1>2 DEF CurrentAnswered
<1>6. CurrentCallKnown'
  BY <1>1, <1>2 DEF JInv, CurrentCallKnown, UnidentifiedKnown, CurrentAnswered, Known
<1> QED
  BY <1>3, <1>4, <1>5, <1>6

\* A call that the user declines is forgotten, unless it is the current one.
LEMMA DeclinedKnown ==
    ASSUME JInv, NEW c \in Incoming, discardCall(c)
    PROVE  UnansweredKnown' /\ UnidentifiedKnown' /\ CurrentAnswered' /\ CurrentCallKnown'
<1>1. /\ DOMAIN activeCalls \ {c} \subseteq DOMAIN activeCalls'
      /\ c = currentCallId => DOMAIN activeCalls' = DOMAIN activeCalls
      /\ callNotifications' = callNotifications
      /\ unidentified' = unidentified /\ currentCallId' = currentCallId
      /\ accepted' = accepted /\ discarded' = discarded \cup {c} /\ seen' = seen
      /\ answeredTwice' = (answeredTwice \/ c \in accepted \cup discarded)
  BY DEF discardCall, Answered
<1>2. unidentified \subseteq Outgoing /\ Incoming \cap Outgoing = {}
  BY CallsAssumption DEF JInv, IInv, CallsTyped
<1>3. UnansweredKnown' /\ CurrentAnswered'
  BY <1>1 DEF JInv, UnansweredKnown, CurrentAnswered, Known
<1>4. UnidentifiedKnown'
  BY <1>1, <1>2 DEF JInv, UnidentifiedKnown, Known
<1>5. CurrentCallKnown'
  BY <1>1 DEF JInv, CurrentCallKnown, Known
<1> QED
  BY <1>3, <1>4, <1>5

\* The strengthened invariant is inductive.
LEMMA NextJInv == JInv /\ [Next]_vars => JInv'
<1> SUFFICES ASSUME JInv, [Next]_vars
             PROVE  UnansweredKnown' /\ UnidentifiedKnown' /\ CurrentAnswered' /\ CurrentCallKnown'
  BY NextIInv DEF JInv
<1>1. CASE TDLib
  BY <1>1, UpdatedKeepsKnown, IdentifiedKnown DEF TDLib
<1>2. CASE discardCurrentCall
  BY <1>2
  DEF discardCurrentCall, listVars, JInv, UnansweredKnown, UnidentifiedKnown,
      CurrentAnswered, CurrentCallKnown, Known
<1>3. CASE \E c \in Incoming : acceptCall(c) \/ discardCall(c)
  BY <1>3, AcceptedKnown, DeclinedKnown
<1>4. CASE \/ \E c \in Incoming : updateNotificationForChat(c)
           \/ OwnCallback \/ LateCallback \/ InstanceStopped \/ UNCHANGED vars
  <2>1. UNCHANGED <<listVars, callNotifications, tdVars>>
    BY <1>4
    DEF updateNotificationForChat, OwnCallback, LateCallback, InstanceStopped, vars
  <2> QED
    BY <2>1
    DEF listVars, tdVars, JInv, UnansweredKnown, UnidentifiedKnown,
        CurrentAnswered, CurrentCallKnown, Known
<1> QED
  BY <1>1, <1>2, <1>3, <1>4 DEF Next, User

\* Unless the user answers a call twice, currentCallUserId,
\* getCurrentCallState, currentCallError and currentCallEmojis find the call
\* that they dereference without a check, for any number of calls.
THEOREM CurrentCallCorrect == Spec => []CurrentCallKnown
<1>1. Init => JInv
  BY InitIInv, CallsAssumption
  DEF Init, JInv, UnansweredKnown, UnidentifiedKnown, CurrentAnswered,
      CurrentCallKnown, Calls
<1>2. JInv => CurrentCallKnown
  BY DEF JInv
<1> QED
  BY <1>1, <1>2, NextJInv, PTL DEF Spec

-----------------------------------------------------------------------------
(***************************************************************************)
(* Types.  The calls and the notifications are typed by IInv already; what *)
(* is left are the connection, the device and the requests of the user.    *)
(***************************************************************************)
ConnectionTyped ==
    /\ currentCallReadyState \in ReadyState
    /\ currentCallReadyTimestamp \in BOOLEAN
    /\ signalBars \in BOOLEAN
    /\ instance \in Calls \cup {0}
    /\ stopped \subseteq Stopped
    /\ established \in BOOLEAN
    /\ late \in BOOLEAN

RequestsTyped ==
    /\ callState \in {"none", "ringing", "active"}
    /\ accepted \subseteq Incoming
    /\ discarded \subseteq Calls
    /\ answeredTwice \in BOOLEAN

LEMMA TypesCombined ==
    ASSUME IInv, ConnectionTyped, RequestsTyped
    PROVE  TypeOK
<1>1. \A c \in DOMAIN activeCalls : activeCalls[c] \in CallState
  BY DEF IInv, CallsTyped, KnownAsSeen
<1> QED
  BY <1>1 DEF IInv, CallsTyped, ConnectionTyped, RequestsTyped, TypeOK

\* An instance that is stopped was that of a call.
LEMMA ResetTyped ==
    ASSUME ConnectionTyped, NEW s, resetInstance(s)
    PROVE  /\ currentCallReadyState' \in ReadyState /\ signalBars' \in BOOLEAN
           /\ instance' \in Calls \cup {0} /\ stopped' \subseteq Stopped
<1>1. ASSUME instance # 0
      PROVE  [call |-> instance, ready |-> s = "Ready"] \in Stopped
  BY <1>1 DEF ConnectionTyped, Stopped
<1>2. stopped' \subseteq Stopped
  BY <1>1 DEF resetInstance, ConnectionTyped
<1> QED
  BY <1>2 DEF resetInstance, ReadyState

LEMMA NextConnectionTyped ==
    IInv /\ ConnectionTyped /\ [Next]_vars => ConnectionTyped'
<1> SUFFICES ASSUME IInv, ConnectionTyped, [Next]_vars PROVE ConnectionTyped'
  OBVIOUS
<1>1. ASSUME NEW c \in Calls, NEW s \in CallState, handleCallUpdated(c, s)
      PROVE  ConnectionTyped'
  <2>1. CASE UNCHANGED connectionVars
    BY <2>1 DEF connectionVars, ConnectionTyped
  <2>2. CASE handleCallReady
    <3>1. currentCallId \in Calls \cup {0}
      BY DEF IInv, CallsTyped
    <3> QED
      BY <2>2, <3>1 DEF handleCallReady, ConnectionTyped
  <2>3. CASE /\ resetInstance(s)
             /\ UNCHANGED <<currentCallReadyTimestamp, established, late>>
    BY <2>3, ResetTyped DEF ConnectionTyped
  <2> QED
    BY <1>1, <2>1, <2>2, <2>3 DEF handleCallUpdated, CurrentCallUpdated
<1>2. ASSUME NEW c, setCurrentCallId(c)
      PROVE  ConnectionTyped'
  <2>1. /\ resetInstance(CurrentState) /\ currentCallReadyTimestamp' = FALSE
        /\ established' = FALSE /\ late' = FALSE
    BY <1>2 DEF setCurrentCallId
  <2> QED
    BY <2>1, ResetTyped DEF ConnectionTyped
<1>3. ASSUME NEW ready, CallbackOf(ready)
      PROVE  /\ currentCallReadyState' \in ReadyState
             /\ currentCallReadyTimestamp' \in BOOLEAN /\ signalBars' \in BOOLEAN
  BY <1>3 DEF CallbackOf, stateUpdated, signalBarsUpdated, ConnectionTyped
<1>4. CASE OwnCallback
  <2>1. /\ UNCHANGED <<instance, stopped, late>>
        /\ established' = (\/ established
                           \/ /\ currentCallReadyState' # currentCallReadyState
                              /\ currentCallReadyState' = "Established")
        /\ CallbackOf(activeCalls[instance] = "Ready")
    BY <1>4 DEF OwnCallback
  <2>2. established' \in BOOLEAN
    BY <2>1
  <2> QED
    BY <1>3, <2>1, <2>2 DEF ConnectionTyped
<1>5. CASE LateCallback
  <2>1. PICK i \in stopped : CallbackOf(i.ready)
    BY <1>5 DEF LateCallback
  <2>2. UNCHANGED <<instance, stopped, established>> /\ late' = TRUE
    BY <1>5 DEF LateCallback
  <2> QED
    BY <1>3, <2>1, <2>2 DEF ConnectionTyped
<1>6. CASE InstanceStopped
  BY <1>6 DEF InstanceStopped, ConnectionTyped
<1>7. CASE \/ discardCurrentCall
           \/ \E c \in Incoming : discardCall(c) \/ updateNotificationForChat(c)
           \/ UNCHANGED vars
  <2>1. UNCHANGED connectionVars
    BY <1>7 DEF discardCurrentCall, discardCall, updateNotificationForChat, vars
  <2> QED
    BY <2>1 DEF connectionVars, ConnectionTyped
<1> QED
  BY <1>1, <1>2, <1>4, <1>5, <1>6, <1>7
  DEF Next, TDLib, User, acceptCall, handleCallIdReceived

LEMMA NextRequestsTyped ==
    IInv /\ RequestsTyped /\ [Next]_vars => RequestsTyped'
<1> SUFFICES ASSUME IInv, RequestsTyped, [Next]_vars PROVE RequestsTyped'
  OBVIOUS
<1>1. ASSUME NEW c \in Calls, NEW s \in CallState, handleCallUpdated(c, s)
      PROVE  RequestsTyped'
  BY <1>1 DEF handleCallUpdated, controlCallState, RequestsTyped
<1>2. ASSUME NEW c \in Calls, handleCallIdReceived(c)
      PROVE  RequestsTyped'
  BY <1>2 DEF handleCallIdReceived, setCurrentCallId, RequestsTyped
<1>3. ASSUME NEW c \in Incoming, acceptCall(c)
      PROVE  RequestsTyped'
  <2>1. answeredTwice' \in BOOLEAN
    BY <1>3 DEF acceptCall, Answered
  <2> QED
    BY <1>3, <2>1 DEF acceptCall, setCurrentCallId, RequestsTyped
<1>4. ASSUME NEW c \in Incoming, discardCall(c)
      PROVE  RequestsTyped'
  <2>1. answeredTwice' \in BOOLEAN
    BY <1>4 DEF discardCall, Answered
  <2> QED
    BY <1>4, <2>1 DEF discardCall, RequestsTyped, Calls
<1>5. CASE discardCurrentCall
  BY <1>5 DEF discardCurrentCall, RequestsTyped, IInv, CallsTyped
<1>6. CASE \/ \E c \in Incoming : updateNotificationForChat(c)
           \/ OwnCallback \/ LateCallback \/ InstanceStopped \/ UNCHANGED vars
  <2>1. /\ UNCHANGED <<accepted, discarded, answeredTwice>>
        /\ callState' \in {callState, "ringing"}
    BY <1>6
    DEF updateNotificationForChat, controlCallState, OwnCallback, LateCallback,
        InstanceStopped, vars, tdVars
  <2> QED
    BY <2>1 DEF RequestsTyped
<1> QED
  BY <1>1, <1>2, <1>3, <1>4, <1>5, <1>6 DEF Next, TDLib, User

\* The variables of CallsManager keep their types, for any number of calls:
\* an instance, and one that was stopped, is always that of a call.
THEOREM TypeCorrect == Spec => []TypeOK
<1> DEFINE TInv == IInv /\ ConnectionTyped /\ RequestsTyped
<1>1. Init => TInv
  BY InitIInv DEF Init, ConnectionTyped, RequestsTyped, ReadyState
<1>2. TInv /\ [Next]_vars => TInv'
  BY NextIInv, NextConnectionTyped, NextRequestsTyped
<1>3. TInv => TypeOK
  BY TypesCombined
<1> QED
  BY <1>1, <1>2, <1>3, PTL DEF Spec

-----------------------------------------------------------------------------
(***************************************************************************)
(* The connection is the current call's.  A call gets its instance when    *)
(* TDLib reports it as ready, once, and setCurrentCallId comes before:     *)
(* until then nothing is left of the connection of the call before.        *)
(***************************************************************************)
NotYetReady ==
    currentCallId # 0 /\ seen[currentCallId] \in {"none", "Pending", "ExchangingKeys"}

Connection ==
    /\ ~late /\ currentCallReadyTimestamp => established
    /\ ~late /\ currentCallReadyState = "Established" => instance # 0 /\ established
    /\ NotYetReady => instance = 0
    /\ ~late /\ NotYetReady => ~currentCallReadyTimestamp

CInv == IInv /\ ConnectionTyped /\ Connection

\* Only a call whose keys are exchanged becomes ready, and a call does not
\* return to a state before that.
LEMMA ReadyUpdates ==
    ASSUME NEW c \in Calls, NEW s \in Updates(c)
    PROVE  /\ s = "Ready" => seen[c] = "ExchangingKeys"
           /\ s \in {"none", "Pending", "ExchangingKeys"} =>
                seen[c] \in {"none", "Pending", "ExchangingKeys"}
<1>1. CASE seen[c] = "none"
  BY <1>1 DEF Updates, NextStates
<1>2. CASE seen[c] = "Pending"
  BY <1>2 DEF Updates, NextStates
<1>3. CASE seen[c] = "ExchangingKeys"
  BY <1>3 DEF Updates, NextStates
<1>4. CASE seen[c] \notin {"none", "Pending", "ExchangingKeys"}
  BY <1>4 DEF Updates, NextStates
<1> QED
  BY <1>1, <1>2, <1>3, <1>4

LEMMA UpdatedConnection ==
    ASSUME CInv, NEW c \in Calls, NEW s \in CallState, handleCallUpdated(c, s)
    PROVE  Connection'
<1>1. /\ s \in Updates(c) /\ currentCallId' = currentCallId
      /\ seen' = [seen EXCEPT ![c] = s]
      /\ IF c = currentCallId THEN CurrentCallUpdated(s) ELSE UNCHANGED connectionVars
  BY DEF handleCallUpdated
<1>2. /\ currentCallId \in Calls \cup {0} /\ 0 \notin Calls
      /\ seen \in [Calls -> CallState \cup {"none"}]
  BY CallsAssumption DEF CInv, IInv, CallsTyped
<1>3. CASE c # currentCallId
  <2>1. NotYetReady' = NotYetReady
    BY <1>1, <1>2, <1>3 DEF NotYetReady
  <2> QED
    BY <1>1, <1>3, <2>1 DEF connectionVars, CInv, Connection
<1>4. CASE c = currentCallId
  <2>1. /\ s = "Ready" => seen[c] = "ExchangingKeys"
        /\ s \in {"none", "Pending", "ExchangingKeys"} =>
             seen[c] \in {"none", "Pending", "ExchangingKeys"}
    BY <1>1, ReadyUpdates
  <2>2. NotYetReady' => NotYetReady
    BY <1>1, <1>2, <1>4, <2>1 DEF NotYetReady
  <2>3. CASE s = "Ready"
    <3>1. NotYetReady /\ ~NotYetReady'
      BY <1>1, <1>2, <1>4, <2>1, <2>3 DEF NotYetReady
    <3>2. /\ UNCHANGED <<currentCallReadyState, currentCallReadyTimestamp, late>>
      BY <1>1, <1>4, <2>3 DEF CurrentCallUpdated, handleCallReady
    <3>3. instance = 0 /\ (~late => ~currentCallReadyTimestamp)
      BY <3>1 DEF CInv, Connection
    <3>4. ~late => currentCallReadyState # "Established"
      BY <3>3 DEF CInv, Connection
    <3> QED
      BY <3>1, <3>2, <3>3, <3>4 DEF Connection
  <2>4. CASE s = "Discarded"
    <3>1. /\ instance' = 0 /\ currentCallReadyState' = "Reconnecting"
          /\ UNCHANGED <<currentCallReadyTimestamp, established, late>>
      BY <1>1, <1>4, <2>4 DEF CurrentCallUpdated, resetInstance
    <3>2. ~NotYetReady'
      BY <1>1, <1>2, <1>4, <2>4 DEF NotYetReady
    <3> QED
      BY <3>1, <3>2 DEF CInv, Connection
  <2>5. CASE s \notin {"Ready", "Discarded"}
    <3>1. UNCHANGED connectionVars
      BY <1>1, <1>4, <2>5 DEF CurrentCallUpdated
    <3> QED
      BY <2>2, <3>1 DEF connectionVars, CInv, Connection
  <2> QED
    BY <2>3, <2>4, <2>5
<1> QED
  BY <1>3, <1>4

LEMMA NextConnection == CInv /\ [Next]_vars => Connection'
<1> SUFFICES ASSUME CInv, [Next]_vars PROVE Connection'
  OBVIOUS
<1>1. ASSUME NEW c \in Calls, NEW s \in CallState, handleCallUpdated(c, s)
      PROVE  Connection'
  BY <1>1, UpdatedConnection
<1>2. ASSUME NEW c, setCurrentCallId(c)
      PROVE  Connection'
  BY <1>2 DEF setCurrentCallId, resetInstance, Connection
<1>3. CASE OwnCallback
  <2>1. /\ UNCHANGED <<currentCallId, seen, instance, late>> /\ instance # 0
        /\ established' = (\/ established
                           \/ /\ currentCallReadyState' # currentCallReadyState
                              /\ currentCallReadyState' = "Established")
        /\ CallbackOf(activeCalls[instance] = "Ready")
    BY <1>3 DEF OwnCallback, listVars, tdVars
  <2>2. ~NotYetReady /\ ~NotYetReady'
    BY <2>1 DEF CInv, Connection, NotYetReady
  <2>3. CASE UNCHANGED <<currentCallReadyState, currentCallReadyTimestamp>>
    BY <2>1, <2>2, <2>3 DEF CInv, Connection
  <2>4. ASSUME NEW state \in ReadyState,
               stateUpdated(activeCalls[instance] = "Ready", state)
        PROVE  Connection'
    <3>1. /\ currentCallReadyState # state /\ currentCallReadyState' = state
          /\ currentCallReadyTimestamp' = (currentCallReadyTimestamp \/ state = "Established")
      BY <2>4 DEF stateUpdated
    <3>2. CASE state = "Established"
      BY <2>1, <2>2, <3>1, <3>2 DEF Connection
    <3>3. CASE state # "Established"
      BY <2>1, <2>2, <3>1, <3>3 DEF CInv, ConnectionTyped, Connection
    <3> QED
      BY <3>2, <3>3
  <2> QED
    BY <2>1, <2>3, <2>4 DEF CallbackOf, signalBarsUpdated
<1>4. CASE LateCallback
  <2>1. UNCHANGED <<currentCallId, seen, instance>> /\ late' = TRUE
    BY <1>4 DEF LateCallback, listVars, tdVars
  <2> QED
    BY <2>1 DEF CInv, Connection, NotYetReady
<1>5. CASE \/ discardCurrentCall
           \/ \E c \in Incoming : discardCall(c) \/ updateNotificationForChat(c)
           \/ InstanceStopped
           \/ UNCHANGED vars
  <2>1. UNCHANGED <<currentCallId, seen, instance, late, established,
                    currentCallReadyState, currentCallReadyTimestamp>>
    BY <1>5
    DEF discardCurrentCall, discardCall, Answered, updateNotificationForChat,
        InstanceStopped, vars, connectionVars, listVars, tdVars
  <2> QED
    BY <2>1 DEF CInv, Connection, NotYetReady
<1> QED
  BY <1>1, <1>2, <1>3, <1>4, <1>5
  DEF Next, TDLib, User, acceptCall, handleCallIdReceived

\* As long as no callback of an earlier instance comes late, the ready
\* timestamp and Connected are those of the current call's own instance,
\* whatever calls were accepted, replaced or discarded before.
THEOREM ConnectionCorrect == Spec => []ConnectionIsOwn
<1>1. Init => CInv
  BY InitIInv
  DEF Init, CInv, ConnectionTyped, Connection, NotYetReady, ReadyState
<1>2. CInv /\ [Next]_vars => CInv'
  BY NextIInv, NextConnectionTyped, NextConnection DEF CInv
<1>3. CInv => ConnectionIsOwn
  BY DEF CInv, Connection, ConnectionIsOwn, getCurrentCallStateConnected
<1> QED
  BY <1>1, <1>2, <1>3, PTL DEF Spec
=============================================================================
