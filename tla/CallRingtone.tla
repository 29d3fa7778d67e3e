---------------------------- MODULE CallRingtone ----------------------------
(***************************************************************************)
(* The ringtone of incoming calls: NotificationManager::controlCallState   *)
(* plays and stops it through NgfInterface.  Which calls have a            *)
(* notification is up to CallsManager; here any call gets and loses one.   *)
(***************************************************************************)
EXTENDS NgfInterface

CONSTANT Incoming

VARIABLES
    callNotifications,          \* calls with a notification
    enableNgfCallsRingtone,
    refused                     \* stop() was refused, nothing played since

vars == <<callNotifications, enableNgfCallsRingtone, refused, ngfVars>>

Ringtone(on) ==
    /\ IF on THEN play ELSE stop
    /\ refused' = (~on /\ playingEvent = 0)

controlCallState(enabled) ==
    IF enableNgfCallsRingtone THEN Ringtone(enabled) ELSE UNCHANGED <<refused, ngfVars>>

\* For a new call, and again when the title or the photo of the caller changes.
publishCallNotification(c) ==
    /\ callNotifications' = callNotifications \cup {c}
    /\ controlCallState(TRUE)
    /\ UNCHANGED enableNgfCallsRingtone

removeCallNotification(c) ==
    /\ c \in callNotifications
    /\ callNotifications' = callNotifications \ {c}
    /\ IF callNotifications' = {} THEN controlCallState(FALSE)
       ELSE UNCHANGED <<refused, ngfVars>>
    /\ UNCHANGED enableNgfCallsRingtone

setEnableNgfCallsRingtone(value) ==
    /\ enableNgfCallsRingtone # value
    /\ enableNgfCallsRingtone' = value
    /\ IF callNotifications = {} THEN UNCHANGED <<refused, ngfVars>>
       ELSE Ringtone(value)
    /\ UNCHANGED callNotifications

Init ==
    /\ callNotifications = {}
    /\ enableNgfCallsRingtone = FALSE
    /\ refused = FALSE
    /\ NgfInit

Next ==
    \/ \E c \in Incoming : publishCallNotification(c) \/ removeCallNotification(c)
    \/ \E value \in BOOLEAN : setEnableNgfCallsRingtone(value)
    \/ NgfNext /\ UNCHANGED <<callNotifications, enableNgfCallsRingtone, refused>>

Spec == Init /\ [][Next]_vars

\* NgfInterface::stop refuses to stop an event "as it's not being played": a
\* ringtone that could not be stopped is silent.
RefusedStopMeansSilent == refused => sounding = {}
=============================================================================
