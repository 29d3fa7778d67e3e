-------------------------- MODULE TDLibFileProofs --------------------------
(***************************************************************************)
(* Proofs about TDLibFile, for any files and any depth of handlers: the    *)
(* automatic download is never left unarmed, and no change stays           *)
(* unannounced.                                                            *)
(***************************************************************************)
EXTENDS TDLibFile, NaturalsInduction, WellFoundedInduction, TLAPS

\* ChangesAnnounced is not inductive: in the middle of the loops the queue
\* holds signals.  Each of them is still ahead of some loop, not always of the
\* innermost one.
SignalsCovered ==
    \A k \in queuedSignals : \E n \in DOMAIN emitting : emitting[n].next <= k

IInv == TypeOK /\ AutoLoadArmed /\ SignalsCovered

Loops == [next: 1..8, handler: BOOLEAN]

-----------------------------------------------------------------------------
(***************************************************************************)
(* The loops                                                               *)
(***************************************************************************)

\* The handler of a loop has called: its place in the loop stays.
LEMMA LoopCalled ==
    ASSUME NEW e \in Loops
    PROVE  /\ [e EXCEPT !.handler = FALSE] \in Loops
           /\ [e EXCEPT !.handler = FALSE].next = e.next
  BY Zenon DEF Loops

\* The place of a loop is a signal, or the end.
LEMMA LoopNext ==
    ASSUME NEW e \in Seq(Loops), NEW i \in 1..Len(e)
    PROVE  e[i].next \in 1..8
<1>1. e[i] \in Loops
  OBVIOUS
<1> QED
  BY <1>1 DEF Loops

\* The innermost loop advances.
LEMMA LastReplaced ==
    ASSUME NEW S, NEW e \in Seq(S), NEW n \in Nat, n = Len(e), n > 0, NEW x \in S
    PROVE  LET f == [e EXCEPT ![n] = x]
           IN  /\ f \in Seq(S) /\ Len(f) = n /\ DOMAIN f = 1..n
               /\ f[n] = x
               /\ \A i \in 1..n : i # n => f[i] = e[i]
  OBVIOUS

\* The innermost loop ends.
LEMMA LastRemoved ==
    ASSUME NEW S, NEW e \in Seq(S), NEW n \in Nat, n = Len(e), n > 0
    PROVE  LET f == SubSeq(e, 1, n - 1)
           IN  /\ f \in Seq(S) /\ Len(f) = n - 1 /\ DOMAIN f = 1..n - 1
               /\ \A i \in 1..n - 1 : f[i] = e[i]
  OBVIOUS

\* What a loop is made of.
LEMMA LoopTyped ==
    ASSUME NEW next \in 1..8, NEW handler \in BOOLEAN
    PROVE  [next |-> next, handler |-> handler] \in Loops
  BY Zenon DEF Loops

\* A handler that has called leaves the loops where they are.
LEMMA CalledLoops ==
    ASSUME emitting \in Seq(Loops)
    PROVE  /\ Called \in Seq(Loops)
           /\ Len(Called) = Len(emitting)
           /\ DOMAIN Called = DOMAIN emitting
           /\ \A n \in DOMAIN emitting : Called[n].next = emitting[n].next
<1>1. DOMAIN Called = 1..Len(emitting) /\ Len(emitting) \in Nat
  BY DEF Called
<1>2. ASSUME NEW n \in 1..Len(emitting)
      PROVE  Called[n] \in Loops /\ Called[n].next = emitting[n].next
  <2>1. emitting[n] \in Loops
    OBVIOUS
  <2>2. CASE n = Len(emitting)
    <3> DEFINE e == emitting[n]
    <3>1. Called[n] = [e EXCEPT !.handler = FALSE]
      <4>1. n \in DOMAIN emitting
        OBVIOUS
      <4> QED
        BY <2>2, <4>1, Zenon DEF Called
    <3> QED
      BY <2>1, <3>1, LoopCalled
  <2>3. CASE n # Len(emitting)
    BY <2>1, <2>3 DEF Called
  <2> QED
    BY <2>2, <2>3
<1>3. Called \in [1..Len(emitting) -> Loops]
  BY <1>1, <1>2 DEF Called
<1> QED
  BY <1>1, <1>2, <1>3

\* A set of signals has a first one.
LEMMA FirstSignal ==
    ASSUME NEW S, S \subseteq Signals, S # {}
    PROVE  LET f == CHOOSE k \in S : \A j \in S : k <= j
           IN  f \in S /\ \A j \in S : f <= j
<1>1. PICK k \in S : \A j \in S : ~(<<j, k>> \in OpToRel(<, Nat))
  <2>1. S \subseteq Nat
    BY DEF Signals
  <2> QED
    BY <2>1, NatLessThanWellFounded, WFMin
<1>2. ASSUME NEW j \in S PROVE k <= j
  <2>1. j \in Nat /\ k \in Nat
    BY DEF Signals
  <2>2. ~(j < k)
    BY <1>1, <2>1 DEF OpToRel
  <2> QED
    BY <2>1, <2>2
<1> QED
  BY <1>2

\* Announce starts a loop that is not past any of the new signals.
LEMMA AnnounceStep ==
    ASSUME queuedSignals \subseteq Signals, emitting \in Seq(Loops),
           Len(emitting) <= MaxDepth, SignalsCovered, MayCall, Announce
    PROVE  /\ queuedSignals' \subseteq Signals
           /\ emitting' \in Seq(Loops)
           /\ Len(emitting') <= MaxDepth
           /\ SignalsCovered'
<1>1. Changed \subseteq Signals
  BY DEF Changed
<1>2. /\ Called \in Seq(Loops) /\ Len(Called) = Len(emitting)
      /\ DOMAIN Called = DOMAIN emitting
      /\ \A n \in DOMAIN emitting : Called[n].next = emitting[n].next
  BY CalledLoops
<1>3. CASE Changed = {}
  BY <1>1, <1>2, <1>3 DEF Announce, SignalsCovered
<1>4. CASE Changed # {}
  <2>1. PICK first \in Changed :
            /\ first = CHOOSE k \in Changed : \A j \in Changed : k <= j
            /\ \A j \in Changed : first <= j
    BY <1>1, <1>4, FirstSignal
  <2> DEFINE loop == [next |-> first, handler |-> FALSE]
  <2>2. emitting' = Append(Called, loop)
    BY <1>4, <2>1 DEF Announce, Loop
  <2>3. loop \in Loops
    <3>1. first \in 1..8
      BY <1>1, <2>1 DEF Signals
    <3> QED
      BY <3>1, LoopTyped
  <2>4. /\ emitting' \in Seq(Loops)
        /\ Len(emitting') = Len(emitting) + 1
        /\ DOMAIN emitting' = 1..Len(emitting) + 1
        /\ \A n \in 1..Len(emitting) : emitting'[n] = Called[n]
        /\ emitting'[Len(emitting) + 1] = loop
    BY <1>2, <2>2, <2>3
  <2>5. Len(emitting) + 1 <= MaxDepth
    BY FileAssumption DEF MayCall, EventLoop, Handler
  <2>6. SignalsCovered'
    <3> SUFFICES ASSUME NEW k \in queuedSignals'
                 PROVE  \E n \in DOMAIN emitting' : emitting'[n].next <= k
      BY DEF SignalsCovered
    <3>1. CASE k \in Changed
      <4>1. emitting'[Len(emitting) + 1].next <= k
        BY <2>1, <2>4, <3>1
      <4>2. Len(emitting) + 1 \in DOMAIN emitting'
        BY <2>4
      <4> QED
        BY <4>1, <4>2
    <3>2. CASE k \in queuedSignals
      <4>1. PICK n \in DOMAIN emitting : emitting[n].next <= k
        BY <3>2 DEF SignalsCovered
      <4>2. n \in DOMAIN emitting' /\ emitting'[n].next = emitting[n].next
        BY <1>2, <2>4
      <4> QED
        BY <4>1, <4>2
    <3> QED
      BY <3>1, <3>2 DEF Announce
  <2> QED
    BY <1>1, <2>4, <2>5, <2>6 DEF Announce
<1> QED
  BY <1>3, <1>4

\* So does an operation that announces nothing.
LEMMA CalledStep ==
    ASSUME emitting \in Seq(Loops), SignalsCovered,
           emitting' = Called, queuedSignals' = queuedSignals
    PROVE  /\ emitting' \in Seq(Loops)
           /\ Len(emitting') = Len(emitting)
           /\ SignalsCovered'
  BY CalledLoops DEF SignalsCovered

\* A step of the loops leaves the rest alone.
LEMMA Unrelated ==
    ASSUME IInv, UNCHANGED <<objectVars, tdVars>>,
           queuedSignals' \subseteq Signals, emitting' \in Seq(Loops),
           Len(emitting') <= MaxDepth, SignalsCovered'
    PROVE  IInv'
<1>1. TypeOK'
  BY DEF IInv, TypeOK, Loops, objectVars, tdVars
<1>2. AutoLoadArmed'
  BY DEF IInv, AutoLoadArmed, WantsDownload, objectVars, tdVars
<1> QED
  BY <1>1, <1>2 DEF IInv

\* Emit: a loop that ends has passed no signal that another one is not ahead of.
LEMMA EmitStep ==
    ASSUME IInv, Emit
    PROVE  IInv'
<1>0. PICK n \in Nat : n = Len(emitting)
  BY DEF IInv, TypeOK
<1> DEFINE rest == {k \in queuedSignals : k >= emitting[n].next}
<1>1. /\ emitting \in Seq(Loops) /\ n > 0 /\ n <= MaxDepth
      /\ DOMAIN emitting = 1..n
      /\ queuedSignals \subseteq Signals /\ SignalsCovered
  BY <1>0 DEF IInv, TypeOK, Loops, Emit
<1>2. UNCHANGED <<objectVars, tdVars>>
  BY DEF Emit
<1>3. CASE rest # {}
  <2>1. PICK first \in rest :
            /\ first = CHOOSE i \in rest : \A j \in rest : i <= j
            /\ \A j \in rest : first <= j
    <3>1. rest \subseteq Signals
      BY <1>1
    <3> QED
      BY <1>3, <3>1, FirstSignal
  <2> DEFINE loop == [next |-> first + 1, handler |-> TRUE]
  <2>2. /\ queuedSignals' = queuedSignals \ {first}
        /\ emitting' = [emitting EXCEPT ![n] = loop]
    BY <1>0, <1>3, <2>1 DEF Emit
  <2>3. loop \in Loops
    <3>1. first \in Signals
      BY <1>1, <2>1
    <3>2. first + 1 \in 1..8
      BY <3>1 DEF Signals
    <3> QED
      BY <3>2, LoopTyped
  <2>4. /\ emitting' \in Seq(Loops) /\ Len(emitting') = n
        /\ DOMAIN emitting' = 1..n
        /\ emitting'[n] = loop
        /\ \A i \in 1..n : i # n => emitting'[i] = emitting[i]
    BY <1>0, <1>1, <2>2, <2>3, LastReplaced
  <2>5. SignalsCovered'
    <3> SUFFICES ASSUME NEW k \in queuedSignals'
                 PROVE  \E i \in DOMAIN emitting' : emitting'[i].next <= k
      BY DEF SignalsCovered
    <3>1. PICK i \in 1..n : emitting[i].next <= k
      BY <1>1, <2>2 DEF SignalsCovered
    <3>2. k \in Signals /\ first \in Signals /\ k # first
      BY <1>1, <2>1, <2>2
    <3>3. CASE i = n
      <4>1. k \in rest
        BY <2>2, <3>1, <3>2, <3>3 DEF Signals
      <4>2. first <= k
        BY <2>1, <4>1
      <4>3. first + 1 <= k
        BY <3>2, <4>2 DEF Signals
      <4>4. emitting'[n].next <= k
        <5>1. emitting'[n].next = first + 1
          BY <2>4
        <5> QED
          BY <4>3, <5>1
      <4>5. n \in DOMAIN emitting'
        BY <1>1, <2>4
      <4> QED
        BY <4>4, <4>5
    <3>4. CASE i # n
      BY <2>4, <3>1, <3>4
    <3> QED
      BY <3>3, <3>4
  <2> QED
    <3>1. queuedSignals' \subseteq Signals /\ Len(emitting') <= MaxDepth
      BY <1>1, <2>2, <2>4
    <3> QED
      BY <1>2, <2>4, <2>5, <3>1, Unrelated
<1>4. CASE rest = {}
  <2>1. emitting' = SubSeq(emitting, 1, n - 1) /\ queuedSignals' = queuedSignals
    BY <1>0, <1>4 DEF Emit
  <2>2. /\ emitting' \in Seq(Loops) /\ Len(emitting') = n - 1
        /\ DOMAIN emitting' = 1..n - 1
        /\ \A i \in 1..n - 1 : emitting'[i] = emitting[i]
    BY <1>0, <1>1, <2>1, LastRemoved
  <2>3. SignalsCovered'
    <3> SUFFICES ASSUME NEW k \in queuedSignals
                 PROVE  \E i \in DOMAIN emitting' : emitting'[i].next <= k
      BY <2>1 DEF SignalsCovered
    <3>1. PICK i \in 1..n : emitting[i].next <= k
      BY <1>1 DEF SignalsCovered
    <3>2. i # n
      <4>1. k \notin rest
        BY <1>4
      <4>2. emitting[n].next \in 1..8
        BY <1>0, <1>1, LoopNext
      <4>3. k \in Signals
        BY <1>1
      <4> QED
        BY <3>1, <4>1, <4>2, <4>3 DEF Signals
    <3>3. i \in 1..n - 1
      BY <1>1, <3>1, <3>2
    <3> QED
      BY <2>2, <3>1, <3>3
  <2> QED
    <3>1. queuedSignals' \subseteq Signals /\ Len(emitting') <= MaxDepth
      BY <1>1, <2>1, <2>2, FileAssumption
    <3> QED
      BY <1>2, <2>2, <2>3, <3>1, Unrelated
<1> QED
  BY <1>3, <1>4

-----------------------------------------------------------------------------
(***************************************************************************)
(* The operations                                                          *)
(***************************************************************************)
\* What is known of a file is about one, or about none.
LEMMA InfoId ==
    ASSUME NEW i \in Snapshot \cup {NoInfo}
    PROVE  i.id \in Files \cup {0}
<1>1. CASE i = NoInfo
  BY <1>1 DEF NoInfo
<1>2. CASE i \in Snapshot
  <2>1. PICK f \in Files, t \in {"unavailable", "absent", "active", "complete"} :
            i = [id |-> f, can_be_downloaded |-> t # "unavailable",
                 is_downloading_active |-> t = "active",
                 is_downloading_completed |-> t = "complete"]
    BY <1>2 DEF Snapshot
  <2> QED
    BY <2>1, Zenon
<1> QED
  BY <1>1, <1>2

\* downloadFile, called with autoLoad, asks for the file or leaves the timer
\* running that will.
LEMMA DownloadStep ==
    ASSUME NEW auto \in BOOLEAN, NEW timer \in BOOLEAN,
           info' \in Snapshot \cup {NoInfo}, requests \subseteq Files,
           autoLoad' /\ tdLibWrapper' => auto,
           downloadFile(auto, timer)
    PROVE  /\ downloadHoldOffTimer' \in BOOLEAN
           /\ requests' \subseteq Files
           /\ AutoLoadArmed'
<1> DEFINE go == /\ auto
                 /\ info'.id # 0 /\ tdLibWrapper' /\ ~timer
                 /\ ~info'.is_downloading_active /\ ~info'.is_downloading_completed
                 /\ info'.can_be_downloaded
<1>1. /\ downloadHoldOffTimer' = (timer \/ go)
      /\ requests' = IF go THEN requests \cup {info'.id} ELSE requests
  BY Zenon DEF downloadFile
<1>2. downloadHoldOffTimer' \in BOOLEAN
  BY <1>1, Zenon
<1>3. requests' \subseteq Files
  <2>1. info'.id \in Files \cup {0}
    BY InfoId
  <2> QED
    BY <1>1, <2>1
<1>4. AutoLoadArmed'
  BY <1>1, Zenon DEF AutoLoadArmed, WantsDownload
<1> QED
  BY <1>2, <1>3, <1>4

\* An operation that downloads and announces.
LEMMA OperationStep ==
    ASSUME IInv, NEW auto \in BOOLEAN, NEW timer \in BOOLEAN,
           tdLibWrapper' \in BOOLEAN, autoLoad' \in BOOLEAN,
           info' \in Snapshot \cup {NoInfo},
           updates' \in Seq(Snapshot), Len(updates') <= MaxUpdates,
           autoLoad' /\ tdLibWrapper' => auto,
           MayCall, downloadFile(auto, timer),
           Announce \/ (emitting' = Called /\ queuedSignals' = queuedSignals)
    PROVE  IInv'
<1>1. /\ queuedSignals \subseteq Signals /\ emitting \in Seq(Loops)
      /\ Len(emitting) <= MaxDepth /\ SignalsCovered /\ requests \subseteq Files
  BY DEF IInv, TypeOK, Loops
<1>2. /\ downloadHoldOffTimer' \in BOOLEAN /\ requests' \subseteq Files
      /\ AutoLoadArmed'
  BY <1>1, DownloadStep
<1>3. /\ queuedSignals' \subseteq Signals /\ emitting' \in Seq(Loops)
      /\ Len(emitting') <= MaxDepth /\ SignalsCovered'
  <2>1. CASE Announce
    BY <1>1, <2>1, AnnounceStep
  <2>2. CASE emitting' = Called /\ queuedSignals' = queuedSignals
    BY <1>1, <2>2, CalledStep
  <2> QED
    BY <2>1, <2>2
<1> QED
  BY <1>2, <1>3 DEF IInv, TypeOK, Loops

\* The operations that QML calls.
LEMMA QmlStep ==
    ASSUME IInv, Qml
    PROVE  IInv'
<1>1. /\ tdLibWrapper \in BOOLEAN /\ autoLoad \in BOOLEAN
      /\ downloadHoldOffTimer \in BOOLEAN
      /\ info \in Snapshot \cup {NoInfo}
      /\ updates \in Seq(Snapshot) /\ Len(updates) <= MaxUpdates
  BY DEF IInv, TypeOK
<1>2. ASSUME NEW on \in BOOLEAN, setTDLibWrapper(on)
      PROVE  IInv'
  <2>1. (autoLoad /\ on) \in BOOLEAN
    BY Zenon
  <2>2. /\ tdLibWrapper' = on /\ autoLoad' = autoLoad /\ info' = info
        /\ updates' = updates /\ MayCall /\ Announce
        /\ downloadFile(autoLoad /\ on, downloadHoldOffTimer)
    BY <1>2 DEF setTDLibWrapper
  <2> QED
    BY <1>1, <2>1, <2>2, OperationStep
<1>3. ASSUME NEW on \in BOOLEAN, setAutoLoad(on)
      PROVE  IInv'
  <2>1. /\ tdLibWrapper' = tdLibWrapper /\ autoLoad' = on /\ info' = info
        /\ updates' = updates /\ MayCall /\ Announce
        /\ downloadFile(on, downloadHoldOffTimer)
    BY <1>3 DEF setAutoLoad
  <2> QED
    BY <1>1, <2>1, OperationStep
<1>4. CASE cancel
  <2>1. /\ UNCHANGED <<objectVars, updates, queuedSignals>>
        /\ emitting' = Called /\ requests' = requests \ {info.id}
    BY <1>4 DEF cancel
  <2>2. /\ emitting' \in Seq(Loops) /\ Len(emitting') = Len(emitting)
        /\ SignalsCovered'
    BY <2>1, CalledStep DEF IInv, TypeOK, Loops
  <2>3. TypeOK'
    BY <2>1, <2>2 DEF IInv, TypeOK, Loops, objectVars
  <2>4. AutoLoadArmed'
    BY <2>1 DEF IInv, AutoLoadArmed, WantsDownload, objectVars
  <2> QED
    BY <2>2, <2>3, <2>4 DEF IInv
<1>5. CASE load
  <2>1. /\ tdLibWrapper' = tdLibWrapper /\ autoLoad' = autoLoad /\ info' = info
        /\ updates' = updates /\ MayCall /\ downloadFile(TRUE, FALSE)
        /\ emitting' = Called /\ queuedSignals' = queuedSignals
    BY <1>5 DEF load
  <2> QED
    BY <1>1, <2>1, OperationStep
<1>6. ASSUME NEW new \in Snapshot \cup {NoInfo}, setFileInfoByQml(new)
      PROVE  IInv'
  <2> DEFINE timer == downloadHoldOffTimer /\ ~new.is_downloading_completed
  <2>1. timer \in BOOLEAN
    BY Zenon
  <2>2. /\ tdLibWrapper' = tdLibWrapper /\ autoLoad' = autoLoad /\ info' = new
        /\ updates' = updates /\ MayCall /\ Announce
        /\ downloadFile(autoLoad, timer)
    BY <1>6 DEF setFileInfoByQml, setFileInfo
  <2> QED
    BY <1>1, <2>1, <2>2, OperationStep
<1> QED
  BY <1>2, <1>3, <1>4, <1>5, <1>6 DEF Qml

\* handleFileUpdated, for the file of the object and for others.
LEMMA UpdatedStep ==
    ASSUME IInv, handleFileUpdated
    PROVE  IInv'
<1> DEFINE new == Head(updates)
           timer == downloadHoldOffTimer /\ ~new.is_downloading_completed
<1>1. /\ tdLibWrapper \in BOOLEAN /\ autoLoad \in BOOLEAN
      /\ updates \in Seq(Snapshot) /\ Len(updates) <= MaxUpdates
      /\ updates # <<>> /\ updates' = Tail(updates)
  BY DEF IInv, TypeOK, handleFileUpdated
<1>2. /\ new \in Snapshot
      /\ updates' \in Seq(Snapshot) /\ Len(updates') <= MaxUpdates
  BY <1>1, FileAssumption
<1>3. CASE tdLibWrapper /\ info.id = new.id
  <2>1. timer \in BOOLEAN
    BY Zenon
  <2>2. /\ tdLibWrapper' = tdLibWrapper /\ autoLoad' = autoLoad /\ info' = new
        /\ MayCall /\ Announce /\ downloadFile(autoLoad, timer)
    BY <1>3 DEF handleFileUpdated, setFileInfo, MayCall
  <2> QED
    BY <1>1, <1>2, <2>1, <2>2, OperationStep
<1>4. CASE ~(tdLibWrapper /\ info.id = new.id)
  <2>1. UNCHANGED <<objectVars, signalVars, requests>>
    BY <1>4 DEF handleFileUpdated
  <2> QED
    BY <1>2, <2>1
    DEF IInv, TypeOK, AutoLoadArmed, WantsDownload, SignalsCovered, objectVars, signalVars
<1> QED
  BY <1>3, <1>4

\* timerEvent starts the timer again when it asks for the file.
LEMMA TimerStep ==
    ASSUME IInv, timerEvent
    PROVE  IInv'
<1>1. /\ UNCHANGED <<tdLibWrapper, autoLoad, info, queuedSignals, emitting, updates>>
      /\ downloadFile(autoLoad, FALSE)
  BY DEF timerEvent, signalVars
<1>2. /\ autoLoad \in BOOLEAN /\ info \in Snapshot \cup {NoInfo}
      /\ requests \subseteq Files
  BY DEF IInv, TypeOK
<1>3. /\ downloadHoldOffTimer' \in BOOLEAN /\ requests' \subseteq Files
      /\ AutoLoadArmed'
  BY <1>1, <1>2, DownloadStep
<1> QED
  BY <1>1, <1>3 DEF IInv, TypeOK, SignalsCovered

\* TDLib changes its own state only.
LEMMA TDLibStep ==
    ASSUME IInv, TDLib
    PROVE  IInv'
<1>1. ASSUME NEW new \in Snapshot, FileChanges(new)
      PROVE  IInv'
  <2>1. updates' \in Seq(Snapshot) /\ Len(updates') <= MaxUpdates
    BY <1>1, FileAssumption DEF FileChanges, IInv, TypeOK
  <2> QED
    BY <1>1, <2>1
    DEF FileChanges, IInv, TypeOK, AutoLoadArmed, WantsDownload, SignalsCovered,
        objectVars, signalVars
<1>2. ASSUME NEW f \in Files, DownloadAnswered(f)
      PROVE  IInv'
  BY <1>2
  DEF DownloadAnswered, IInv, TypeOK, AutoLoadArmed, WantsDownload, SignalsCovered,
      objectVars, signalVars
<1> QED
  BY <1>1, <1>2 DEF TDLib

\* A new object has no file, and nothing to announce.
LEMMA InitIInv == Init => IInv
<1> SUFFICES ASSUME Init PROVE IInv
  OBVIOUS
<1>1. /\ emitting \in Seq([next: 1..8, handler: BOOLEAN]) /\ Len(emitting) <= MaxDepth
      /\ updates \in Seq(Snapshot) /\ Len(updates) <= MaxUpdates
  BY FileAssumption DEF Init
<1>2. TypeOK
  BY <1>1 DEF Init, TypeOK
<1>3. AutoLoadArmed /\ SignalsCovered
  BY DEF Init, AutoLoadArmed, WantsDownload, SignalsCovered
<1> QED
  BY <1>2, <1>3 DEF IInv

\* The invariant is inductive.
LEMMA NextIInv == IInv /\ [Next]_vars => IInv'
<1>1. ASSUME IInv, UNCHANGED vars PROVE IInv'
  BY <1>1
  DEF vars, objectVars, signalVars, tdVars, IInv, TypeOK, AutoLoadArmed,
      WantsDownload, SignalsCovered
<1> QED
  BY <1>1, EmitStep, QmlStep, UpdatedStep, TimerStep, TDLibStep DEF Next

-----------------------------------------------------------------------------

\* The variables of TDLibFile keep their types, however deep the handlers of
\* its signals call each other.
THEOREM TypeCorrect == Spec => []TypeOK
<1>1. IInv => TypeOK
  BY DEF IInv
<1> QED
  BY <1>1, InitIInv, NextIInv, PTL DEF Spec

\* With autoLoad, whatever order wrapper, file and autoLoad are set in and
\* whatever TDLib says, a file that could be downloaded has the timer running
\* that tries again.
THEOREM AutoLoadArmedCorrect == Spec => []AutoLoadArmed
<1>1. IInv => AutoLoadArmed
  BY DEF IInv
<1> QED
  BY <1>1, InitIInv, NextIInv, PTL DEF Spec

\* emitQueuedSignals loses no change to handlers that change the object in the
\* middle of it: back in the event loop the queue is empty.
THEOREM ChangesAnnouncedCorrect == Spec => []ChangesAnnounced
<1>1. IInv => ChangesAnnounced
  BY DEF IInv, ChangesAnnounced, EventLoop, SignalsCovered
<1> QED
  BY <1>1, InitIInv, NextIInv, PTL DEF Spec
=============================================================================
