----------------------------- MODULE TDLibFile -----------------------------
(***************************************************************************)
(* TDLibFile: the QML object that follows one file of TDLib, downloads it  *)
(* on demand or by itself (autoLoad), and announces its changes.           *)
(*                                                                         *)
(* The object knows of the file what the last information about it said:   *)
(* updates of TDLib, which come through a queue, or what QML gave it, such *)
(* as the file of a message, which may be of any age.  A download that was *)
(* asked for is not asked for again before a hold-off timer expires.       *)
(*                                                                         *)
(* Changes are announced at the end of an operation, one signal after the  *)
(* other.  The handler of a signal may call an operation of the object, in *)
(* the middle of the loop that emits the signals of the first.             *)
(***************************************************************************)
EXTENDS Integers, Sequences, FiniteSets

CONSTANTS
    Files,          \* identifiers
    MaxUpdates,     \* bound on the updates that TDLib has sent
    MaxDepth        \* bound on operations that run inside each other

ASSUME FileAssumption ==
    /\ Files \subseteq Nat \ {0}
    /\ MaxUpdates \in Nat \ {0}
    /\ MaxDepth \in Nat \ {0}

VARIABLES
    tdLibWrapper,           \* it is set
    autoLoad,
    info,                   \* the fields of the file that matter to downloads
    downloadHoldOffTimer,   \* it runs
    queuedSignals,
    emitting,               \* the loops of emitQueuedSignals, innermost last
    requests,               \* TDLib: files to download
    updates                 \* TDLib: updates sent

objectVars == <<tdLibWrapper, autoLoad, info, downloadHoldOffTimer>>
signalVars == <<queuedSignals, emitting>>
tdVars == <<requests, updates>>
vars == <<objectVars, signalVars, tdVars>>

NoInfo == [id |-> 0, can_be_downloaded |-> FALSE,
           is_downloading_active |-> FALSE, is_downloading_completed |-> FALSE]

\* What TDLib may say of a file: it cannot be had, or can, or is being
\* downloaded, or is here.
Snapshot ==
    {[id |-> f, can_be_downloaded |-> s # "unavailable",
      is_downloading_active |-> s = "active", is_downloading_completed |-> s = "complete"]
        : f \in Files, s \in {"unavailable", "absent", "active", "complete"}}

\* The announced properties in the order of QUEUED_SIGNALS.  The fields left
\* out are announced in the same way.
Properties == <<tdLibWrapper, info, autoLoad, info.id, info.can_be_downloaded,
                info.is_downloading_active, info.is_downloading_completed>>
Signals == 1..7

-----------------------------------------------------------------------------
(***************************************************************************)
(* Signals                                                                 *)
(***************************************************************************)

\* Code runs: from the event loop, or the handler of a signal just emitted,
\* which calls one operation.
EventLoop == emitting = <<>>
Handler ==
    /\ emitting # <<>>
    /\ Len(emitting) < MaxDepth
    /\ emitting[Len(emitting)].handler
MayCall == EventLoop \/ Handler

\* The handler that is running, if any, does not call again.
Called ==
    [n \in DOMAIN emitting |-> IF n = Len(emitting)
                               THEN [emitting[n] EXCEPT !.handler = FALSE]
                               ELSE emitting[n]]

\* The properties that change, and a loop over the signals since first.
Changed == {k \in Signals : Properties'[k] # Properties[k]}
Loop(first) == Append(Called, [next |-> first, handler |-> FALSE])

\* Faulty: inside a loop the signals are left to that loop.
AnnounceToOuterLoop ==
    /\ queuedSignals' = queuedSignals \cup Changed
    /\ emitting' = IF Changed = {} \/ emitting # <<>> THEN Called
                   ELSE Loop(CHOOSE k \in Changed : \A j \in Changed : k <= j)

\* queueSignal for every property that changes, and emitQueuedSignals.  Inside
\* another loop firstQueuedSignal was reset: the new loop starts with the first
\* of its own signals.
Announce ==
    /\ queuedSignals' = queuedSignals \cup Changed
    /\ emitting' = IF Changed = {} THEN Called
                   ELSE Loop(CHOOSE k \in Changed : \A j \in Changed : k <= j)

\* A step of the innermost loop: it emits the next signal, or ends.
Emit ==
    LET n == Len(emitting)
        rest == {k \in queuedSignals : k >= emitting[n].next}
        k == CHOOSE i \in rest : \A j \in rest : i <= j
    IN  /\ n > 0
        /\ \/ /\ rest # {}
              /\ queuedSignals' = queuedSignals \ {k}
              /\ emitting' = [emitting EXCEPT ![n] = [next |-> k + 1, handler |-> TRUE]]
           \/ /\ rest = {}
              /\ emitting' = SubSeq(emitting, 1, n - 1)
              /\ UNCHANGED queuedSignals
        /\ UNCHANGED <<objectVars, tdVars>>

-----------------------------------------------------------------------------
(***************************************************************************)
(* Operations                                                              *)
(***************************************************************************)

\* Faulty: whether there is a file that can be downloaded is not looked at.
downloadFileUnchecked(auto, timer) ==
    LET go == /\ auto
              /\ tdLibWrapper' /\ ~timer
              /\ ~info'.is_downloading_active /\ ~info'.is_downloading_completed
    IN  /\ downloadHoldOffTimer' = (timer \/ go)
        /\ requests' = IF go THEN requests \cup {info'.id} ELSE requests

\* With the new values of the object, when auto is set and timer tells whether
\* the timer runs.
downloadFile(auto, timer) ==
    LET go == /\ auto
              /\ info'.id # 0 /\ tdLibWrapper' /\ ~timer
              /\ ~info'.is_downloading_active /\ ~info'.is_downloading_completed
              /\ info'.can_be_downloaded
    IN  /\ downloadHoldOffTimer' = (timer \/ go)
        /\ requests' = IF go THEN requests \cup {info'.id} ELSE requests

\* There is one wrapper, which is set and taken away.
setTDLibWrapper(set) ==
    /\ MayCall
    /\ set # tdLibWrapper
    /\ tdLibWrapper' = set
    /\ UNCHANGED <<autoLoad, info, updates>>
    /\ downloadFile(autoLoad /\ set, downloadHoldOffTimer)
    /\ Announce

\* Faulty: the file that is shown already is not loaded.
setAutoLoadOnly(on) ==
    /\ MayCall
    /\ on # autoLoad
    /\ autoLoad' = on
    /\ UNCHANGED <<tdLibWrapper, info, downloadHoldOffTimer, tdVars>>
    /\ Announce

setAutoLoad(on) ==
    /\ MayCall
    /\ on # autoLoad
    /\ autoLoad' = on
    /\ UNCHANGED <<tdLibWrapper, info, updates>>
    /\ downloadFile(on, downloadHoldOffTimer)
    /\ Announce

\* TDLib cancels the download, deletes what it has of the file, and says so.
cancel ==
    /\ MayCall
    /\ tdLibWrapper /\ info.id # 0 /\ info.is_downloading_active
    /\ requests' = requests \ {info.id}
    /\ emitting' = Called
    /\ UNCHANGED <<objectVars, updates, queuedSignals>>

load ==
    /\ MayCall
    /\ UNCHANGED <<tdLibWrapper, autoLoad, info, updates>>
    /\ downloadFile(TRUE, FALSE)
    /\ emitting' = Called
    /\ UNCHANGED queuedSignals

\* setFileInfo with the fields of a file, or with clearWithInvalidFileInfo and
\* something else.
setFileInfo(new) ==
    /\ info' = new
    /\ UNCHANGED <<tdLibWrapper, autoLoad>>
    /\ downloadFile(autoLoad, downloadHoldOffTimer /\ ~new.is_downloading_completed)
    /\ Announce

setFileInfoByQml(new) ==
    /\ MayCall
    /\ setFileInfo(new)
    /\ UNCHANGED updates

handleFileUpdated ==
    /\ EventLoop
    /\ updates # <<>>
    /\ updates' = Tail(updates)
    /\ IF tdLibWrapper /\ info.id = Head(updates).id
       THEN setFileInfo(Head(updates))
       ELSE UNCHANGED <<objectVars, signalVars, requests>>

\* Faulty: the timer is not started again.
timerEventOnce ==
    /\ EventLoop
    /\ downloadHoldOffTimer
    /\ downloadHoldOffTimer' = FALSE
    /\ UNCHANGED <<tdLibWrapper, autoLoad, info, signalVars, tdVars>>

timerEvent ==
    /\ EventLoop
    /\ downloadHoldOffTimer
    /\ UNCHANGED <<tdLibWrapper, autoLoad, info, signalVars, updates>>
    /\ downloadFile(autoLoad, FALSE)

-----------------------------------------------------------------------------
(***************************************************************************)
(* TDLib                                                                   *)
(***************************************************************************)

\* A file changes, for this object, for another one or by itself.
FileChanges(new) ==
    /\ Len(updates) < MaxUpdates
    /\ updates' = Append(updates, new)
    /\ UNCHANGED <<objectVars, signalVars, requests>>

\* A request is answered with the file, or refused with an error, which nobody
\* handles.  What changes is another step.
DownloadAnswered(f) ==
    /\ f \in requests
    /\ requests' = requests \ {f}
    /\ UNCHANGED <<objectVars, signalVars, updates>>

-----------------------------------------------------------------------------

Init ==
    /\ tdLibWrapper = FALSE
    /\ autoLoad = FALSE
    /\ info = NoInfo
    /\ downloadHoldOffTimer = FALSE
    /\ queuedSignals = {}
    /\ emitting = <<>>
    /\ requests = {}
    /\ updates = <<>>

Qml ==
    \/ \E on \in BOOLEAN : setTDLibWrapper(on) \/ setAutoLoad(on)
    \/ cancel
    \/ load
    \/ \E new \in Snapshot \cup {NoInfo} : setFileInfoByQml(new)

TDLib == (\E new \in Snapshot : FileChanges(new)) \/ (\E f \in Files : DownloadAnswered(f))

Next == Emit \/ Qml \/ handleFileUpdated \/ timerEvent \/ TDLib

Spec == Init /\ [][Next]_vars

\* A loop runs to its end.  The event loop of Qt serves a timer that has
\* expired however busy it is.
FairSpec == Spec /\ WF_vars(Emit) /\ SF_vars(timerEvent)

-----------------------------------------------------------------------------
(***************************************************************************)
(* Properties                                                              *)
(***************************************************************************)

\* The variables keep their types.
TypeOK ==
    /\ tdLibWrapper \in BOOLEAN
    /\ autoLoad \in BOOLEAN
    /\ info \in Snapshot \cup {NoInfo}
    /\ downloadHoldOffTimer \in BOOLEAN
    /\ queuedSignals \subseteq Signals
    /\ emitting \in Seq([next: 1..8, handler: BOOLEAN])
    /\ Len(emitting) <= MaxDepth
    /\ requests \subseteq Files
    /\ updates \in Seq(Snapshot)
    /\ Len(updates) <= MaxUpdates

\* With autoLoad a file that could be downloaded, as far as the object knows,
\* is never left alone: the timer that tries again is running, whatever order
\* wrapper, file and autoLoad were set in and however the last try ended.
WantsDownload ==
    /\ autoLoad /\ tdLibWrapper /\ info.id # 0
    /\ ~info.is_downloading_active /\ ~info.is_downloading_completed
    /\ info.can_be_downloaded
AutoLoadArmed == WantsDownload => downloadHoldOffTimer

\* No change is lost, also when handlers of signals change the object again in
\* the middle of the loop: back in the event loop, every property has been
\* announced since it last changed.
ChangesAnnounced == EventLoop => queuedSignals = {}

\* timerEvent tries again as long as TDLib refuses.
AutoLoadRetries == WantsDownload ~> (info.id \in requests \/ ~WantsDownload)
=============================================================================
