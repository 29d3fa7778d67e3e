---------------------------- MODULE NgfInterface ----------------------------
(***************************************************************************)
(* NgfInterface for one event, the ringtone of incoming calls.  ngfd, the  *)
(* feedback daemon, plays it: it answers a Play call with an identifier    *)
(* and signals the end of what it plays.  Both arrive through the event    *)
(* loop, while Stop is a blocking call.  ngfd may end what it plays by     *)
(* itself, as it does when the user silences a ringing phone.              *)
(***************************************************************************)
EXTENDS Integers, FiniteSets

CONSTANT
    MaxPlays        \* bound on calls of Play without an answer, and on what
                    \* ngfd plays at a time

VARIABLES
    playingEvent,   \* playingEvents.value("ringtone"), 0 if it has no value
    asked,          \* calls of Play without an answer
    sounding,       \* ngfd: identifiers of what is played
    ended           \* ngfd: identifiers whose end was signalled, not handled

ngfVars == <<playingEvent, asked, sounding, ended>>

\* Identifiers are unique.  One that neither side knows any more is used again.
Unused == (1..2 * MaxPlays + 1) \ (sounding \cup ended \cup {playingEvent})

NgfInit ==
    /\ playingEvent = 0
    /\ asked = 0
    /\ sounding = {}
    /\ ended = {}

play ==
    /\ asked' = IF playingEvent # 0 THEN asked ELSE asked + 1
    /\ asked' <= MaxPlays
    /\ UNCHANGED <<playingEvent, sounding, ended>>

\* The lambda of play(): the event is known from here on.
PlayAnswered ==
    /\ asked > 0
    /\ Cardinality(sounding) < MaxPlays
    /\ asked' = asked - 1
    /\ LET id == CHOOSE i \in Unused : \A j \in Unused : i <= j
       IN  /\ sounding' = sounding \cup {id}
           /\ playingEvent' = id
    /\ UNCHANGED ended

PlayFailed ==
    /\ asked > 0
    /\ asked' = asked - 1
    /\ UNCHANGED <<playingEvent, sounding, ended>>

\* The end of an event that was asked to stop is signalled like any other.
stop ==
    /\ sounding' = sounding \ {playingEvent}
    /\ ended' = ended \cup (sounding \cap {playingEvent})
    /\ UNCHANGED <<playingEvent, asked>>

SoundEnds(id) ==
    /\ id \in sounding
    /\ sounding' = sounding \ {id}
    /\ ended' = ended \cup {id}
    /\ UNCHANGED <<playingEvent, asked>>

handleEventStatusChanged(id) ==
    /\ id \in ended
    /\ ended' = ended \ {id}
    /\ playingEvent' = IF playingEvent = id THEN 0 ELSE playingEvent
    /\ UNCHANGED <<asked, sounding>>

NgfNext ==
    \/ PlayAnswered
    \/ PlayFailed
    \/ \E id \in sounding : SoundEnds(id)
    \/ \E id \in ended : handleEventStatusChanged(id)
=============================================================================
