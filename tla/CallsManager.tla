---------------------------- MODULE CallsManager ----------------------------
(***************************************************************************)
(* Calls: CallsManager, the notifications of incoming calls (the calls     *)
(* part of NotificationManager) and the call state of the device           *)
(* (MceInterface).                                                         *)
(*                                                                         *)
(* Signals between these objects are direct calls, so a handler includes   *)
(* what it makes the others do.  The instance of tgcalls that carries a    *)
(* call runs threads of its own: its callbacks write to CallsManager       *)
(* without synchronisation, and one that is under way while the instance   *)
(* is stopped comes late, possibly into the next call.                     *)
(*                                                                         *)
(* TDLib and the user are the environment.  TDLib sends the first update   *)
(* of an outgoing call, then its identifier, then its other updates.  The  *)
(* user answers through the notification, which stays until TDLib reports  *)
(* that the call is not pending any more.                                  *)
(***************************************************************************)
EXTENDS Naturals

CONSTANTS
    Incoming, Outgoing      \* call identifiers

Calls == Incoming \cup Outgoing

ASSUME CallsAssumption ==
    /\ Calls \subseteq Nat \ {0}
    /\ Incoming \cap Outgoing = {}

VARIABLES
    activeCalls,                \* identifier -> state
    currentCallId,              \* 0: none
    currentCallReadyState,      \* tgcalls::State
    currentCallReadyTimestamp,  \* TRUE when not 0
    signalBars,                 \* TRUE when not 0; remoteAudioMuted and
                                \* remoteBatteryLevelIsLow are kept like it
    instance,                   \* the call that it was created for, or 0
    callNotifications,          \* NotificationManager: calls with one
    callState,                  \* MceInterface
    seen,                       \* TDLib: state in the last update of a call
    unidentified,               \* TDLib: outgoing calls before their identifier
    accepted, discarded,        \* TDLib: requests of the user
    stopped,                    \* tgcalls: instances that were told to stop
    established,                \* the instance of this call was established
    late,                       \* a callback of another call came late into this one
    answeredTwice               \* the user answered a call again

listVars == <<activeCalls, currentCallId>>
connectionVars == <<currentCallReadyState, currentCallReadyTimestamp, signalBars,
                    instance, stopped, established, late>>
tdVars == <<seen, unidentified, accepted, discarded, answeredTwice>>
vars == <<listVars, connectionVars, callNotifications, callState, tdVars>>

CallState == {"Pending", "ExchangingKeys", "HangingUp", "Discarded", "Error", "Ready"}

\* Reconnecting stands for every state that is not Established.
ReadyState == {"Reconnecting", "Established"}

\* An instance that was told to stop.  Its callbacks keep the call alive that
\* they were created for: ready is what that one's state will always be.
Stopped == [call: Calls, ready: BOOLEAN]

Known(c) == c \in DOMAIN activeCalls

-----------------------------------------------------------------------------
(***************************************************************************)
(* TDLib's updates                                                         *)
(***************************************************************************)

\* The states that may follow the last one of c.
NextStates(c) ==
    CASE seen[c] = "none" -> {"Pending"}
      [] seen[c] = "Pending" ->
            {"Pending", "Discarded", "Error"}
              \cup (IF c \in Outgoing \cup accepted THEN {"ExchangingKeys"} ELSE {})
      [] seen[c] = "ExchangingKeys" -> {"Ready", "Discarded", "Error"}
      [] seen[c] = "Ready" -> {"Discarded", "Error"}
      [] seen[c] = "HangingUp" -> {"Discarded", "Error"}
      [] OTHER -> {}

Updates(c) ==
    NextStates(c) \cup
        IF c \in discarded /\ seen[c] \in {"Pending", "ExchangingKeys", "Ready"}
        THEN {"HangingUp"} ELSE {}

-----------------------------------------------------------------------------
(***************************************************************************)
(* NotificationManager                                                     *)
(***************************************************************************)

\* The state of the device when these notifications are left, and when one
\* was published, also again.
controlCallState(notifications, published) ==
    IF published THEN "ringing"
    ELSE IF notifications = {} /\ callNotifications # {} /\ callState = "ringing"
    THEN "none" ELSE callState

\* A change of the caller's title or photo, or a chat discovered late.
updateNotificationForChat(c) ==
    /\ c \in callNotifications
    /\ Known(c)
    /\ callState' = controlCallState(callNotifications, TRUE)
    /\ UNCHANGED <<listVars, connectionVars, callNotifications, tdVars>>

-----------------------------------------------------------------------------
(***************************************************************************)
(* CallsManager                                                            *)
(***************************************************************************)

\* The current call, whose state is s, has its instance stopped.
resetInstance(s) ==
    /\ instance' = 0
    /\ stopped' = IF instance = 0 THEN stopped
                  ELSE stopped \cup {[call |-> instance, ready |-> s = "Ready"]}
    /\ currentCallReadyState' = "Reconnecting"
    /\ signalBars' = FALSE

CurrentState == IF Known(currentCallId) THEN activeCalls[currentCallId] ELSE "Discarded"

\* Faulty: currentCallId is set before the call that it names is removed.
setCurrentCallIdFirst(c) ==
    /\ resetInstance(CurrentState)
    /\ currentCallReadyTimestamp' = FALSE
    /\ activeCalls' = [d \in DOMAIN activeCalls \ {c} |-> activeCalls[d]]
    /\ currentCallId' = c
    /\ callState' = "active"
    /\ established' = FALSE
    /\ late' = FALSE

\* Faulty: the start of the last call is kept.
setCurrentCallIdKeepingTimestamp(c) ==
    /\ resetInstance(CurrentState)
    /\ activeCalls' = [d \in DOMAIN activeCalls \ {currentCallId} |-> activeCalls[d]]
    /\ currentCallId' = c
    /\ callState' = "active"
    /\ established' = FALSE
    /\ late' = FALSE
    /\ UNCHANGED currentCallReadyTimestamp

setCurrentCallId(c) ==
    /\ resetInstance(CurrentState)
    /\ currentCallReadyTimestamp' = FALSE
    /\ activeCalls' = [d \in DOMAIN activeCalls \ {currentCallId} |-> activeCalls[d]]
    /\ currentCallId' = c
    /\ callState' = "active"
    /\ established' = FALSE
    /\ late' = FALSE

handleCallReady ==
    /\ instance' = currentCallId
    /\ established' = FALSE
    /\ UNCHANGED <<currentCallReadyState, currentCallReadyTimestamp, signalBars,
                   stopped, late>>

\* Faulty: outgoing calls ring, too.
RingsAlsoOutgoing(c, s) == ~Known(c) /\ s = "Pending"

\* pendingIncomingCall(c) is emitted.
Rings(c, s) == c \in Incoming /\ ~Known(c) /\ s = "Pending"

\* Faulty: only a call that CallsManager knows can have rung.
NotPendingIfKnown(c, s) ==
    /\ c \in Incoming
    /\ Known(c) /\ activeCalls[c] = "Pending"
    /\ s # "Pending"

\* incomingCallNotPending(c) is emitted.
NotPending(c, s) ==
    /\ c \in Incoming
    /\ ~Known(c) \/ activeCalls[c] = "Pending"
    /\ s # "Pending"

\* Faulty: the instance runs on when the call is over.
CurrentCallUpdatedOnlyReady(s) ==
    IF s = "Ready" THEN handleCallReady ELSE UNCHANGED connectionVars

\* The end of the call keeps its ready timestamp.
CurrentCallUpdated(s) ==
    \/ s = "Ready" /\ handleCallReady
    \/ /\ s = "Discarded"
       /\ resetInstance(s)
       /\ UNCHANGED <<currentCallReadyTimestamp, established, late>>
    \/ s \notin {"Ready", "Discarded"} /\ UNCHANGED connectionVars

\* The signals are emitted first: the end of the current call has the last
\* word on the state of the device.
handleCallUpdated(c, s) ==
    /\ s \in Updates(c)
    /\ c \notin unidentified
    /\ seen' = [seen EXCEPT ![c] = s]
    /\ unidentified' = IF seen[c] = "none" /\ c \in Outgoing
                       THEN unidentified \cup {c} ELSE unidentified
    /\ activeCalls' = [d \in DOMAIN activeCalls \cup {c} |->
                         IF d = c THEN s ELSE activeCalls[d]]
    /\ callNotifications' = IF Rings(c, s) THEN callNotifications \cup {c}
                            ELSE IF NotPending(c, s) THEN callNotifications \ {c}
                            ELSE callNotifications
    /\ callState' = IF c = currentCallId /\ s = "Discarded" THEN "none"
                    ELSE controlCallState(callNotifications', Rings(c, s))
    /\ IF c = currentCallId THEN CurrentCallUpdated(s) ELSE UNCHANGED connectionVars
    /\ UNCHANGED <<currentCallId, accepted, discarded, answeredTwice>>

handleCallIdReceived(c) ==
    /\ c \in unidentified
    /\ setCurrentCallId(c)
    /\ unidentified' = unidentified \ {c}
    /\ UNCHANGED <<callNotifications, seen, accepted, discarded, answeredTwice>>

\* The user's answers come from the notification.
Answered(c) ==
    /\ c \in callNotifications
    /\ answeredTwice' = (answeredTwice \/ c \in accepted \cup discarded)
    /\ UNCHANGED <<callNotifications, seen, unidentified>>

acceptCall(c) ==
    /\ Answered(c)
    /\ setCurrentCallId(c)
    /\ accepted' = accepted \cup {c}
    /\ UNCHANGED discarded

discardCall(c) ==
    /\ Answered(c)
    /\ activeCalls' = IF c = currentCallId THEN activeCalls
                      ELSE [d \in DOMAIN activeCalls \ {c} |-> activeCalls[d]]
    /\ discarded' = discarded \cup {c}
    /\ UNCHANGED <<currentCallId, connectionVars, callState, accepted>>

\* Without a current call the request names no call, and TDLib refuses it.
discardCurrentCall ==
    /\ currentCallId # 0
    /\ discarded' = discarded \cup {currentCallId}
    /\ UNCHANGED <<listVars, connectionVars, callNotifications, callState, seen,
                   unidentified, accepted, answeredTwice>>

\* getCurrentCallState returns Connected.
getCurrentCallStateConnected ==
    /\ Known(currentCallId)
    /\ activeCalls[currentCallId] = "Ready"
    /\ signalBars
    /\ currentCallReadyState = "Established"

-----------------------------------------------------------------------------
(***************************************************************************)
(* Callbacks of tgcalls.  ready: the state of the call that the callbacks  *)
(* were created for is Ready.                                              *)
(***************************************************************************)

stateUpdated(ready, state) ==
    /\ ready
    /\ currentCallReadyState # state
    /\ currentCallReadyState' = state
    /\ currentCallReadyTimestamp' = (currentCallReadyTimestamp \/ state = "Established")
    /\ UNCHANGED signalBars

signalBarsUpdated(bars) ==
    /\ signalBars' = bars
    /\ UNCHANGED <<currentCallReadyState, currentCallReadyTimestamp>>

CallbackOf(ready) ==
    \/ \E state \in ReadyState : stateUpdated(ready, state)
    \/ \E bars \in BOOLEAN : signalBarsUpdated(bars)

OwnCallback ==
    /\ instance # 0
    /\ CallbackOf(activeCalls[instance] = "Ready")
    /\ established' = \/ established
                       \/ /\ currentCallReadyState' # currentCallReadyState
                          /\ currentCallReadyState' = "Established"
    /\ UNCHANGED <<listVars, instance, stopped, late, callNotifications, callState, tdVars>>

LateCallback ==
    /\ \E i \in stopped : CallbackOf(i.ready)
    /\ late' = TRUE
    /\ UNCHANGED <<listVars, instance, stopped, established, callNotifications,
                   callState, tdVars>>

\* The last callback of an instance has returned.
InstanceStopped ==
    /\ \E i \in stopped : stopped' = stopped \ {i}
    /\ UNCHANGED <<listVars, currentCallReadyState, currentCallReadyTimestamp,
                   signalBars, instance, established, late,
                   callNotifications, callState, tdVars>>

-----------------------------------------------------------------------------

Init ==
    /\ activeCalls = <<>>
    /\ currentCallId = 0
    /\ currentCallReadyState = "Reconnecting"
    /\ currentCallReadyTimestamp = FALSE
    /\ signalBars = FALSE
    /\ instance = 0
    /\ callNotifications = {}
    /\ callState = "none"
    /\ seen = [c \in Calls |-> "none"]
    /\ unidentified = {}
    /\ accepted = {}
    /\ discarded = {}
    /\ stopped = {}
    /\ established = FALSE
    /\ late = FALSE
    /\ answeredTwice = FALSE

TDLib ==
    \E c \in Calls :
        \/ \E s \in CallState : handleCallUpdated(c, s)
        \/ handleCallIdReceived(c)

User ==
    \/ discardCurrentCall
    \/ \E c \in Incoming :
        \/ acceptCall(c)
        \/ discardCall(c)
        \/ updateNotificationForChat(c)

Next ==
    \/ TDLib
    \/ User
    \/ OwnCallback
    \/ LateCallback
    \/ InstanceStopped

Spec == Init /\ [][Next]_vars

-----------------------------------------------------------------------------
(***************************************************************************)
(* Properties                                                              *)
(***************************************************************************)

\* The variables keep their types.
TypeOK ==
    /\ DOMAIN activeCalls \subseteq Calls
    /\ \A c \in DOMAIN activeCalls : activeCalls[c] \in CallState
    /\ currentCallId \in Calls \cup {0}
    /\ currentCallReadyState \in ReadyState
    /\ currentCallReadyTimestamp \in BOOLEAN
    /\ signalBars \in BOOLEAN
    /\ instance \in Calls \cup {0}
    /\ callNotifications \subseteq Incoming
    /\ callState \in {"none", "ringing", "active"}
    /\ seen \in [Calls -> CallState \cup {"none"}]
    /\ unidentified \subseteq Outgoing
    /\ accepted \subseteq Incoming
    /\ discarded \subseteq Calls
    /\ stopped \subseteq Stopped
    /\ established \in BOOLEAN
    /\ late \in BOOLEAN
    /\ answeredTwice \in BOOLEAN

\* NotificationManager shows exactly the incoming calls that TDLib last
\* reported as pending, although CallsManager forgets calls that the user
\* declined or that another current call replaced, and meets them again as new
\* ones: no notification rings on for a call that is over, or is missing.
NotifiedWhilePending ==
    callNotifications = {c \in Incoming : seen[c] = "Pending"}

\* currentCallUserId, getCurrentCallState, currentCallError and
\* currentCallEmojis dereference the current call without a check: it is in
\* activeCalls, unless the user answers a call twice (a second acceptCall
\* makes setCurrentCallId remove the call that it is about to set).
CurrentCallKnown ==
    currentCallId # 0 /\ ~answeredTwice => Known(currentCallId)

\* The connection that CallsManager reports is the current call's: no ready
\* timestamp, from which discardCurrentCall computes the duration, and no
\* Connected before its own instance was established, whatever calls came
\* before, as long as no callback of their instances comes late.
ConnectionIsOwn ==
    ~late =>
        /\ currentCallReadyTimestamp => established
        /\ getCurrentCallStateConnected => instance # 0 /\ established

\* resetInstance and the notifications release what calls use: no instance
\* carries the sound of another call than the current one, nor of one that was
\* discarded, and the device is in a call, or ringing, only for one.  A call
\* that ends with an error keeps its instance until the next call starts.
ResourcesReleased ==
    /\ instance # 0 => instance = currentCallId /\ seen[instance] # "Discarded"
    /\ callState = "active" => currentCallId # 0 /\ seen[currentCallId] # "Discarded"
    /\ callState = "ringing" => callNotifications # {}
=============================================================================
