--------------------- MODULE NotificationManagerProofs ---------------------
(***************************************************************************)
(* Proofs about NotificationManager, for any number of groups, chats and   *)
(* notifications, however updates, sound answers, dismissals and restarts  *)
(* interleave.                                                             *)
(***************************************************************************)
EXTENDS NotificationManager, ListLemmas

-----------------------------------------------------------------------------
(***************************************************************************)
(* Without: taking notifications out of a list                             *)
(***************************************************************************)

\* The recursion of Without has a solution.
LEMMA WithoutDef ==
    ASSUME NEW S, NEW s \in Seq(S), NEW R
    PROVE  \E f : /\ Without(s, R) = f[Len(s)]
                  /\ f[0] = <<>>
                  /\ \A i \in 1..Len(s) :
                        f[i] = IF s[i] \in R THEN f[i - 1]
                               ELSE Append(f[i - 1], s[i])
<1> DEFINE Step(f, n) == [i \in 0..n |->
                            IF i = 0 THEN <<>>
                            ELSE IF s[i] \in R THEN f[i - 1]
                            ELSE Append(f[i - 1], s[i])]
           Defined(n) == \E f : f = Step(f, n)
           T == {n \in 0..Len(s) : Defined(n)}
<1>1. Len(s) \in Nat
  OBVIOUS
<1>2. Defined(0)
  <2> DEFINE f == [i \in 0..0 |-> <<>>]
  <2>1. f = Step(f, 0)
    OBVIOUS
  <2> HIDE DEF f, Step
  <2> QED
    BY <2>1
<1>3. ASSUME NEW n \in 0..Len(s), n # Len(s), Defined(n)
      PROVE  Defined(n + 1)
  <2>1. PICK f : f = Step(f, n)
    BY <1>3
  <2> DEFINE g == [i \in 0..n + 1 |->
                    IF i = n + 1 THEN IF s[n + 1] \in R THEN f[n]
                                      ELSE Append(f[n], s[n + 1])
                    ELSE f[i]]
  <2>2. g = Step(g, n + 1)
    <3>1. ASSUME NEW i \in 0..n + 1
          PROVE  g[i] = Step(g, n + 1)[i]
      <4>1. CASE i = 0
        BY <1>1, <1>3, <2>1, <4>1
      <4>2. CASE i \in 1..n
        <5>1. i - 1 \in 0..n /\ i \in 0..n /\ i # n + 1 /\ i - 1 # n + 1
          BY <1>1, <1>3, <4>2
        <5>2. g[i] = f[i] /\ g[i - 1] = f[i - 1]
          BY <1>1, <5>1
        <5> QED
          BY <2>1, <4>2, <5>1, <5>2
      <4>3. CASE i = n + 1
        BY <1>1, <1>3, <4>3
      <4> QED
        BY <1>1, <1>3, <4>1, <4>2, <4>3
    <3> QED
      BY <3>1
  <2> HIDE DEF g, Step
  <2> QED
    BY <2>2
<1>4. Defined(Len(s))
  <2> HIDE DEF Defined
  <2>1. 0 \in T /\ \A n \in 0..Len(s) : n # Len(s) /\ n \in T => n + 1 \in T
    BY <1>1, <1>2, <1>3
  <2> HIDE DEF T
  <2>2. \A n \in 0..Len(s) : n \in T
    BY <1>1, <2>1, CountingUp, Zenon
  <2> QED
    BY <1>1, <2>2 DEF T
<1>5. PICK f : f = Step(f, Len(s)) /\ Without(s, R) = f[Len(s)]
  BY <1>4, Zenon DEF Without
<1> DEFINE g == Step(f, Len(s))
<1>6. /\ g[0] = <<>>
      /\ \A i \in 1..Len(s) :
            g[i] = IF s[i] \in R THEN f[i - 1] ELSE Append(f[i - 1], s[i])
  BY <1>1
<1> HIDE DEF Step, g
<1>7. f = g
  BY <1>5, Zenon DEF g
<1> QED
  BY <1>5, <1>6, <1>7, Zenon

\* What is left has lost the removed elements and nothing else, and every
\* element has moved up, if at all.
LEMMA WithoutProperties ==
    ASSUME NEW S, NEW s \in Seq(S), NEW R
    PROVE  /\ Without(s, R) \in Seq(S)
           /\ Range(Without(s, R)) = Range(s) \ R
           /\ \A k \in DOMAIN Without(s, R) :
                \E h \in DOMAIN s : h >= k /\ Without(s, R)[k] = s[h]
<1>1. PICK f : /\ Without(s, R) = f[Len(s)]
               /\ f[0] = <<>>
               /\ \A i \in 1..Len(s) :
                    f[i] = IF s[i] \in R THEN f[i - 1] ELSE Append(f[i - 1], s[i])
  BY WithoutDef
<1>2. Len(s) \in Nat
  OBVIOUS
<1>2a. DOMAIN s = 1..Len(s) /\ \A k \in 1..Len(s) : s[k] \in S
  OBVIOUS
<1> DEFINE Good(i, t) ==
            /\ t \in Seq(S)
            /\ \A k \in 1..Len(t) : \E h \in 1..i : h >= k /\ t[k] = s[h] /\ s[h] \notin R
            /\ \A h \in 1..i : s[h] \in R \/ \E k \in 1..Len(t) : t[k] = s[h]
            /\ Len(t) <= i
           T == {i \in 0..Len(s) : Good(i, f[i])}
<1>3. Good(0, f[0])
  <2>1. f[0] = <<>>
    BY <1>1, <1>2
  <2> QED
    BY <2>1
<1>4. ASSUME NEW i \in 0..Len(s), i # Len(s), Good(i, f[i])
      PROVE  Good(i + 1, f[i + 1])
  <2> DEFINE t == f[i]
  <2> HIDE DEF Good
  <2>1. i + 1 \in 1..Len(s) /\ i \in Nat /\ (i + 1) - 1 = i
    BY <1>2, <1>4
  <2>2. f[i + 1] = IF s[i + 1] \in R THEN t ELSE Append(t, s[i + 1])
    BY <1>1, <1>2, <2>1
  <2> USE DEF Good
  <2>3. /\ t \in Seq(S) /\ Len(t) \in Nat /\ Len(t) <= i
        /\ \A k \in 1..Len(t) : \E h \in 1..i : h >= k /\ t[k] = s[h] /\ s[h] \notin R
        /\ \A h \in 1..i : s[h] \in R \/ \E k \in 1..Len(t) : t[k] = s[h]
    BY <1>4
  <2> HIDE DEF t
  <2>4. CASE s[i + 1] \in R
    <3>1. f[i + 1] = t
      BY <2>2, <2>4
    <3>2. \A k \in 1..Len(t) :
            \E h \in 1..i + 1 : h >= k /\ t[k] = s[h] /\ s[h] \notin R
      BY <2>1, <2>3
    <3>3. \A h \in 1..i + 1 : s[h] \in R \/ \E k \in 1..Len(t) : t[k] = s[h]
      BY <2>1, <2>3, <2>4
    <3>4. Len(t) <= i + 1
      BY <2>1, <2>3
    <3> QED
      BY <2>3, <3>1, <3>2, <3>3, <3>4
  <2>5. CASE s[i + 1] \notin R
    <3> DEFINE u == Append(t, s[i + 1])
    <3>1. /\ u \in Seq(S) /\ Len(u) = Len(t) + 1 /\ u[Len(t) + 1] = s[i + 1]
          /\ \A k \in 1..Len(t) : u[k] = t[k]
      BY <1>2, <1>2a, <2>1, <2>3
    <3> HIDE DEF u
    <3>2. \A k \in 1..Len(u) :
            \E h \in 1..i + 1 : h >= k /\ u[k] = s[h] /\ s[h] \notin R
      <4> TAKE k \in 1..Len(u)
      <4>1. CASE k = Len(t) + 1
        BY <2>1, <2>3, <2>5, <3>1, <4>1
      <4>2. CASE k \in 1..Len(t)
        BY <2>1, <2>3, <3>1, <4>2
      <4> QED
        BY <2>3, <3>1, <4>1, <4>2
    <3>3. \A h \in 1..i + 1 : s[h] \in R \/ \E k \in 1..Len(u) : u[k] = s[h]
      <4> TAKE h \in 1..i + 1
      <4>1. CASE h = i + 1
        BY <2>3, <3>1, <4>1
      <4>2. CASE h \in 1..i /\ s[h] \notin R
        <5>1. PICK k \in 1..Len(t) : t[k] = s[h]
          BY <2>3, <4>2
        <5> QED
          BY <2>3, <3>1, <5>1
      <4> QED
        BY <2>1, <4>1, <4>2
    <3>4. Len(u) <= i + 1 /\ f[i + 1] = u
      BY <2>1, <2>2, <2>3, <2>5, <3>1 DEF u
    <3> QED
      BY <3>1, <3>2, <3>3, <3>4
  <2> QED
    BY <2>4, <2>5
<1>5. Good(Len(s), f[Len(s)])
  <2> HIDE DEF Good
  <2>1. 0 \in T /\ \A i \in 0..Len(s) : i # Len(s) /\ i \in T => i + 1 \in T
    <3>1. 0 \in 0..Len(s) /\ \A i \in 0..Len(s) : i # Len(s) => i + 1 \in 0..Len(s)
      BY <1>2
    <3> QED
      BY <1>3, <1>4, <3>1, Zenon
  <2> HIDE DEF T
  <2>2. \A i \in 0..Len(s) : i \in T
    BY <1>2, <2>1, CountingUp, Zenon
  <2> QED
    BY <1>2, <2>2 DEF T
<1> DEFINE r == Without(s, R)
<1> HIDE DEF r
<1>6. Good(Len(s), r)
  BY <1>1, <1>5 DEF r
<1>7. /\ r \in Seq(S) /\ DOMAIN r = 1..Len(r)
      /\ \A k \in 1..Len(r) : \E h \in 1..Len(s) : h >= k /\ r[k] = s[h] /\ s[h] \notin R
      /\ \A h \in 1..Len(s) : s[h] \in R \/ \E k \in 1..Len(r) : r[k] = s[h]
  BY <1>6
<1>8. Range(r) = Range(s) \ R
  BY <1>2a, <1>7, Zenon DEF Range
<1> QED
  BY <1>2a, <1>7, <1>8 DEF r

\* Taking nothing out changes nothing.
LEMMA WithoutNothing ==
    ASSUME NEW S, NEW s \in Seq(S)
    PROVE  Without(s, {}) = s
<1> SUFFICES ASSUME NEW R, \A x : x \notin R PROVE Without(s, R) = s
  OBVIOUS
<1>1. PICK f : /\ Without(s, R) = f[Len(s)]
               /\ f[0] = <<>>
               /\ \A i \in 1..Len(s) :
                    f[i] = IF s[i] \in R THEN f[i - 1] ELSE Append(f[i - 1], s[i])
  BY WithoutDef
<1>2. Len(s) \in Nat
  OBVIOUS
<1>2a. DOMAIN s = 1..Len(s) /\ \A k \in 1..Len(s) : s[k] \in S
  OBVIOUS
<1> DEFINE Good(i, t) == t \in Seq(S) /\ Len(t) = i /\ \A k \in 1..i : t[k] = s[k]
           T == {i \in 0..Len(s) : Good(i, f[i])}
<1>3. Good(0, f[0])
  <2>1. f[0] = <<>>
    BY <1>1, <1>2
  <2> QED
    BY <2>1
<1>4. ASSUME NEW i \in 0..Len(s), i # Len(s), Good(i, f[i])
      PROVE  Good(i + 1, f[i + 1])
  <2> DEFINE t == f[i]
  <2> HIDE DEF Good
  <2>1. i + 1 \in 1..Len(s) /\ i \in Nat /\ (i + 1) - 1 = i
    BY <1>2, <1>4
  <2>2. f[i + 1] = Append(t, s[i + 1])
    BY <1>1, <1>2, <2>1
  <2> USE DEF Good
  <2>3. t \in Seq(S) /\ Len(t) = i /\ \A k \in 1..i : t[k] = s[k]
    BY <1>4
  <2> HIDE DEF t
  <2>4. /\ Append(t, s[i + 1]) \in Seq(S) /\ Len(Append(t, s[i + 1])) = i + 1
        /\ Append(t, s[i + 1])[i + 1] = s[i + 1]
        /\ \A k \in 1..i : Append(t, s[i + 1])[k] = s[k]
    BY <1>2, <1>2a, <2>1, <2>3
  <2>5. \A k \in 1..i + 1 : k = i + 1 \/ k \in 1..i
    BY <2>1
  <2> QED
    BY <2>2, <2>4, <2>5
<1>5. Good(Len(s), f[Len(s)])
  <2> HIDE DEF Good
  <2>1. 0 \in T /\ \A i \in 0..Len(s) : i # Len(s) /\ i \in T => i + 1 \in T
    <3>1. 0 \in 0..Len(s) /\ \A i \in 0..Len(s) : i # Len(s) => i + 1 \in 0..Len(s)
      BY <1>2
    <3> QED
      BY <1>3, <1>4, <3>1, Zenon
  <2> HIDE DEF T
  <2>2. \A i \in 0..Len(s) : i \in T
    BY <1>2, <2>1, CountingUp, Zenon
  <2> QED
    BY <1>2, <2>2 DEF T
<1> DEFINE r == Without(s, R)
<1> HIDE DEF r, Good
<1>6. Good(Len(s), r)
  BY <1>1, <1>5 DEF r
<1> USE DEF Good
<1>7. r \in Seq(S) /\ Len(r) = Len(s) /\ \A k \in 1..Len(s) : r[k] = s[k]
  BY <1>6
<1> QED
  BY <1>2, <1>2a, <1>7 DEF r

-----------------------------------------------------------------------------
(***************************************************************************)
(* The invariant                                                           *)
(***************************************************************************)

Active == {g \in Groups : pending[g] # <<>>}

\* Position by position the identifiers grow at least as fast as the
\* positions, so that no group has more notifications than TDLib issued.
Counted(s, n) == \A i \in DOMAIN s : s[i] >= i /\ s[i] <= n

PendingTyped ==
    /\ pending \in [Groups -> Seq(Ids)]
    /\ \A g \in Groups : Counted(pending[g], issued)
    /\ issued \in 0..MaxId

\* A notification belongs to one group.
PendingDisjoint ==
    \A g, h \in Groups : g # h => Range(pending[g]) \cap Range(pending[h]) = {}

\* hintCount, from which the count of a group is restored, is never 0.
Nemo == [last: Ids \cup {0}, edited: BOOLEAN, itemCount: 0..MaxId, hintCount: 1..MaxId]

Group == [totalCount: 1..MaxId,
          activeNotifications: UNION {[N -> BOOLEAN] : N \in SUBSET Ids},
          notificationOrder: Seq(Ids),
          nemoNotification: Nemo,
          connected: BOOLEAN]

AreGroups(groups) ==
    DOMAIN groups \subseteq Groups /\ \A g \in DOMAIN groups : groups[g] \in Group
GroupsTyped == AreGroups(notificationGroups)

OthersTyped ==
    /\ pendingChatPhotoChats \subseteq Chats
    /\ led \in BOOLEAN
    /\ asked \in [Groups -> 0..MaxAsked]
    /\ dismissed \subseteq Groups
    /\ phase \in {"starting", "running"}

\* After the start a group has what the screen keeps and nothing of TDLib;
\* then it has the notifications p of TDLib and nothing else.
Mirrors(group, ph, p, E) ==
    IF ph = "starting"
    THEN /\ group.notificationOrder = <<>>
         /\ group.activeNotifications = <<>>
         /\ ~group.connected
    ELSE /\ group.notificationOrder = p
         /\ group.activeNotifications = [n \in Range(p) |-> n \in E]
         /\ p # <<>> => group.totalCount = Len(p)
         /\ group.connected => p # <<>>

\* content is the newest notification of p, and the number of all of them.
Shows(content, p, E) ==
    /\ content.last = Last(p)
    /\ content.edited = (Last(p) \in E)
    /\ content.itemCount = Len(p)

GroupsMirror ==
    \A g \in DOMAIN notificationGroups :
        Mirrors(notificationGroups[g], phase, pending[g], edited)

\* The nemo notification of a group is filled with what TDLib has, unless a
\* sound is asked for.
GroupsCurrent ==
    \A g \in DOMAIN notificationGroups :
        phase = "running" /\ pending[g] # <<>> /\ asked[g] = 0 =>
            Shows(notificationGroups[g].nemoNotification, pending[g], edited)

\* The screen shows the nemo notifications of the groups, of all of them but
\* those that the user dismissed and those that wait for a sound.
OnScreen ==
    /\ DOMAIN screen \subseteq DOMAIN notificationGroups
    /\ \A g \in DOMAIN screen : screen[g] = notificationGroups[g].nemoNotification
    /\ \A g \in DOMAIN notificationGroups :
        asked[g] = 0 => g \in dismissed \/ g \in DOMAIN screen

GroupsActive ==
    /\ phase = "running" => Active \subseteq DOMAIN notificationGroups
    /\ ~onlineOnlyMode => DOMAIN notificationGroups \subseteq Active

\* Requests do not outlive the process.
RequestsSound ==
    /\ phase = "starting" => dismissals = {} /\ \A g \in Groups : asked[g] = 0
    /\ \A d \in dismissals : d.group \in Groups

LedSound == led => DOMAIN notificationGroups # {}

GInv == GroupsTyped /\ GroupsMirror /\ GroupsCurrent /\ OnScreen

IInv ==
    /\ PendingTyped /\ PendingDisjoint /\ OthersTyped
    /\ GInv
    /\ GroupsActive
    /\ RequestsSound
    /\ LedSound
    /\ DismissesWhatWasShown

-----------------------------------------------------------------------------
(***************************************************************************)
(* publishNotification                                                     *)
(***************************************************************************)

\* A list of issued notifications is no longer than there are identifiers.
LEMMA CountedLen ==
    ASSUME NEW n \in 0..MaxId, NEW s \in Seq(Ids), Counted(s, n)
    PROVE  Len(s) \in 0..n /\ (s # <<>> => Len(s) \in 1..MaxId)
<1>1. MaxId \in Nat /\ Len(s) \in Nat
  BY NotificationAssumption
<1>2. CASE Len(s) = 0
  BY <1>1, <1>2
<1>3. CASE Len(s) # 0
  <2>1. Len(s) \in DOMAIN s
    BY <1>1, <1>3
  <2>2. s[Len(s)] >= Len(s) /\ s[Len(s)] <= n /\ s[Len(s)] \in Int
    BY <1>1, <2>1 DEF Counted, Ids
  <2> QED
    BY <1>1, <1>3, <2>2
<1> QED
  BY <1>2, <1>3

\* A filled notification is one, with the hint it had.
LEMMA FilledTyped ==
    ASSUME NEW group \in Group
    PROVE  /\ lastNotification(group) \in Ids \cup {0}
           /\ [group EXCEPT !.nemoNotification = Filled(group)] \in Group
<1> DEFINE last == lastNotification(group)
<1>1. PICK N \in SUBSET Ids : group.activeNotifications \in [N -> BOOLEAN]
  BY DEF Group
<1>2. last \in N \cup {0} /\ 0 \notin Ids
  BY <1>1, NotificationAssumption DEF lastNotification, Ids
<1>3. last # 0 => group.activeNotifications[last] \in BOOLEAN
  BY <1>1, <1>2
<1>4. (last # 0 /\ group.activeNotifications[last]) \in BOOLEAN
  BY <1>3
<1>5. group.totalCount \in 0..MaxId
  BY NotificationAssumption DEF Group
<1> HIDE DEF last
<1>6. Filled(group) = [group.nemoNotification EXCEPT
                        !.last = last,
                        !.edited = last # 0 /\ group.activeNotifications[last],
                        !.itemCount = group.totalCount]
  BY DEF Filled, last
<1> DEFINE e == (last # 0 /\ group.activeNotifications[last])
<1> HIDE DEF e
<1>7. Filled(group) = [group.nemoNotification EXCEPT
                        !.last = last, !.edited = e, !.itemCount = group.totalCount]
  BY <1>6, Zenon DEF e
<1>8. e \in BOOLEAN /\ last \in Ids \cup {0}
  BY <1>2, <1>4 DEF e
<1>9. Filled(group) \in Nemo
  BY <1>5, <1>7, <1>8 DEF Group, Nemo
<1> QED
  BY <1>8, <1>9 DEF Group, last

\* In a group that mirrors TDLib the last notification is the newest one, and
\* it is what a published notification shows.
LEMMA FilledShows ==
    ASSUME NEW group \in Group, NEW p \in Seq(Ids), p # <<>>, NEW E,
           Mirrors(group, "running", p, E)
    PROVE  lastNotification(group) = Last(p) /\ Shows(Filled(group), p, E)
<1>1. /\ group.notificationOrder = p /\ group.totalCount = Len(p)
      /\ group.activeNotifications = [n \in Range(p) |-> n \in E]
  BY DEF Mirrors
<1>2. Len(p) \in DOMAIN p
  BY DEF Ids
<1>3. Last(p) \in Range(p) /\ Last(p) \in Ids /\ Last(p) # 0
  BY <1>2, NotificationAssumption DEF Last, Range, Ids
<1>4. lastNotification(group) = Last(p)
  BY <1>1, <1>3 DEF lastNotification
<1>5. group.activeNotifications[Last(p)] = (Last(p) \in E)
  BY <1>1, <1>3, Zenon
<1>6. /\ Filled(group).last = Last(p)
      /\ Filled(group).edited = (Last(p) # 0 /\ group.activeNotifications[Last(p)])
      /\ Filled(group).itemCount = group.totalCount
  BY <1>4 DEF Filled, Group, Nemo
<1>7. Filled(group).edited = (Last(p) \in E)
  <2>1. (Last(p) # 0 /\ group.activeNotifications[Last(p)]) = (Last(p) \in E)
    <3> DEFINE b == group.activeNotifications[Last(p)]
               x == Last(p)
    <3>1. b = (x \in E) /\ x # 0
      BY <1>3, <1>5
    <3> HIDE DEF b, x
    <3>2. b <=> x \in E
      BY <3>1, Zenon
    <3>3. (x # 0 /\ b) <=> x \in E
      BY <3>1, <3>2
    <3> QED
      BY <3>3 DEF b, x
  <2> QED
    BY <1>6, <2>1, Zenon
<1> QED
  BY <1>1, <1>4, <1>6, <1>7 DEF Shows

\* Publishing some of the groups.  groups are the groups as the handler left
\* them; those that it does not publish are as they were.
LEMMA PublishStep ==
    ASSUME NEW groups, NEW G, Publish(groups, G),
           AreGroups(groups), G \subseteq DOMAIN groups,
           pending' \in [Groups -> Seq(Ids)], phase' \in {"starting", "running"},
           asked' \in [Groups -> 0..MaxAsked],
           \A g \in DOMAIN groups : Mirrors(groups[g], phase', pending'[g], edited'),
           \A g \in DOMAIN groups \ G :
                /\ phase' = "running" /\ pending'[g] # <<>> /\ asked'[g] = 0 =>
                    Shows(groups[g].nemoNotification, pending'[g], edited')
                /\ asked'[g] = 0 => g \in dismissed \/ g \in DOMAIN screen
           ,
           DOMAIN screen \subseteq DOMAIN groups,
           \A g \in DOMAIN screen \ G : screen[g] = groups[g].nemoNotification
    PROVE  GInv' /\ DOMAIN notificationGroups' = DOMAIN groups
<1> DEFINE new(g) == [groups[g] EXCEPT !.nemoNotification = Filled(groups[g])]
<1>1. /\ notificationGroups' = [g \in DOMAIN groups |->
                                    IF g \in G THEN new(g) ELSE groups[g]]
      /\ screen' = [g \in DOMAIN screen \cup G |->
                        IF g \in G THEN Filled(groups[g]) ELSE screen[g]]
      /\ dismissed' = dismissed \ G
  BY DEF Publish
<1>2. /\ DOMAIN groups \subseteq Groups
      /\ \A g \in DOMAIN groups : groups[g] \in Group /\ new(g) \in Group
  BY FilledTyped DEF AreGroups
<1>3. \A g \in DOMAIN groups :
        /\ new(g).nemoNotification = Filled(groups[g])
        /\ new(g).notificationOrder = groups[g].notificationOrder
        /\ new(g).activeNotifications = groups[g].activeNotifications
        /\ new(g).totalCount = groups[g].totalCount
        /\ new(g).connected = groups[g].connected
  BY <1>2 DEF Group
<1> HIDE DEF new
<1>4. GroupsTyped'
  BY <1>1, <1>2 DEF GroupsTyped, AreGroups
<1>5. GroupsMirror'
  BY <1>1, <1>3 DEF GroupsMirror, Mirrors
<1>6. GroupsCurrent'
  <2> SUFFICES ASSUME NEW g \in DOMAIN groups, phase' = "running",
                      pending'[g] # <<>>, asked'[g] = 0
               PROVE  Shows(notificationGroups'[g].nemoNotification, pending'[g], edited')
    BY <1>1 DEF GroupsCurrent
  <2>1. CASE g \in G
    <3>1. Shows(Filled(groups[g]), pending'[g], edited')
      BY <1>2, FilledShows
    <3> QED
      BY <1>1, <1>3, <2>1, <3>1
  <2>2. CASE g \notin G
    BY <1>1, <2>2
  <2> QED
    BY <2>1, <2>2
<1>7. OnScreen'
  BY <1>1, <1>3 DEF OnScreen
<1> QED
  BY <1>1, <1>4, <1>5, <1>6, <1>7 DEF GInv

-----------------------------------------------------------------------------
(***************************************************************************)
(* Updates of a group                                                      *)
(***************************************************************************)

\* The elements of two lists, one after the other.
LEMMA RangeOfConcat ==
    ASSUME NEW S, NEW p \in Seq(S), NEW added \in Seq(S)
    PROVE  p \o added \in Seq(S) /\ Range(p \o added) = Range(p) \cup Range(added)
<1>1. /\ p \o added \in Seq(S) /\ Len(p \o added) = Len(p) + Len(added)
      /\ \A k \in 1..Len(p) + Len(added) :
          (p \o added)[k] = IF k <= Len(p) THEN p[k] ELSE added[k - Len(p)]
  BY ConcatProperties
<1>2. Len(p) \in Nat /\ Len(added) \in Nat
  OBVIOUS
<1> DEFINE all == p \o added
<1>3. DOMAIN all = 1..Len(p) + Len(added)
  BY <1>1
<1> HIDE DEF all
<1>4. ASSUME NEW k \in DOMAIN p
      PROVE  \E m \in DOMAIN all : all[m] = p[k]
  <2>1. k \in 1..Len(p) + Len(added) /\ k <= Len(p)
    BY <1>2
  <2> QED
    BY <1>1, <1>3, <2>1 DEF all
<1>5. ASSUME NEW k \in DOMAIN added
      PROVE  \E m \in DOMAIN all : all[m] = added[k]
  <2> DEFINE m == Len(p) + k
  <2>1. m \in 1..Len(p) + Len(added) /\ ~(m <= Len(p)) /\ m - Len(p) = k
    BY <1>2
  <2> HIDE DEF m
  <2> QED
    BY <1>1, <1>3, <2>1 DEF all
<1>6. ASSUME NEW m \in DOMAIN all
      PROVE  (\E k \in DOMAIN p : all[m] = p[k]) \/ (\E k \in DOMAIN added : all[m] = added[k])
  <2>1. CASE m <= Len(p)
    BY <1>1, <1>2, <1>3, <2>1 DEF all
  <2>2. CASE ~(m <= Len(p))
    <3>1. m - Len(p) \in DOMAIN added
      BY <1>2, <1>3, <2>2
    <3> QED
      BY <1>1, <1>3, <2>2, <3>1 DEF all
  <2> QED
    BY <2>1, <2>2
<1>7. Range(all) = Range(p) \cup Range(added)
  <2>1. ASSUME NEW x \in Range(all)
        PROVE  x \in Range(p) \cup Range(added)
    <3>1. PICK m \in DOMAIN all : x = all[m]
      BY DEF Range
    <3> QED
      BY <1>6, <3>1 DEF Range
  <2>2. ASSUME NEW x \in Range(p) \cup Range(added)
        PROVE  x \in Range(all)
    <3>1. (\E k \in DOMAIN p : x = p[k]) \/ (\E k \in DOMAIN added : x = added[k])
      BY DEF Range
    <3>2. PICK m \in DOMAIN all : x = all[m]
      BY <1>4, <1>5, <3>1
    <3> QED
      BY <3>2 DEF Range
  <2> QED
    BY <2>1, <2>2
<1> QED
  BY <1>1, <1>7 DEF all

\* A group that had the notifications p has, after an update, what TDLib has.
LEMMA MergedMirrors ==
    ASSUME NEW old \in Group, NEW p \in Seq(Ids), NEW added \in Seq(Ids), NEW removed,
           old.notificationOrder = p,
           old.activeNotifications = [n \in Range(p) |-> n \in edited],
           NEW rest, rest = Without(p \o added, removed), Len(rest) \in 1..MaxId
    PROVE  LET group == Merged(old, Len(rest), added, removed)
           IN  /\ group \in Group
               /\ group.nemoNotification = old.nemoNotification
               /\ Mirrors(group, "running", rest, edited)
<1> DEFINE group == Merged(old, Len(rest), added, removed)
           act == [n \in (Range(p) \cup Range(added)) \ removed |->
                    IF n \in Range(added) THEN n \in edited
                    ELSE old.activeNotifications[n]]
<1>1. p \o added \in Seq(Ids) /\ Range(p \o added) = Range(p) \cup Range(added)
  BY RangeOfConcat
<1>2. rest \in Seq(Ids) /\ Range(rest) = (Range(p) \cup Range(added)) \ removed
  <2> DEFINE all == p \o added
  <2>1. all \in Seq(Ids) /\ Range(all) = Range(p) \cup Range(added)
    BY <1>1
  <2>2. rest = Without(all, removed)
    OBVIOUS
  <2> HIDE DEF all
  <2> QED
    BY <2>1, <2>2, WithoutProperties
<1>3. DOMAIN old.activeNotifications = Range(p)
  OBVIOUS
<1>4. group = [old EXCEPT !.totalCount = Len(rest), !.activeNotifications = act,
                          !.notificationOrder = rest]
  BY <1>3 DEF Merged
<1>5. act = [n \in Range(rest) |-> n \in edited]
  <2>1. \A n \in Range(rest) :
            (IF n \in Range(added) THEN n \in edited ELSE old.activeNotifications[n])
                = (n \in edited)
    BY <1>2
  <2> QED
    BY <1>2, <2>1
<1> HIDE DEF act
<1>6. act \in [Range(rest) -> BOOLEAN] /\ Range(rest) \in SUBSET Ids
  BY <1>2, <1>5 DEF Range
<1>7. act \in UNION {[N -> BOOLEAN] : N \in SUBSET Ids}
  BY <1>6
<1> HIDE DEF group
<1>8. group \in Group
  BY <1>2, <1>4, <1>7 DEF Group
<1>9. /\ group.nemoNotification = old.nemoNotification
      /\ group.totalCount = Len(rest) /\ group.notificationOrder = rest
      /\ group.activeNotifications = act
  BY <1>4 DEF Group
<1>10. rest # <<>>
  BY NotificationAssumption
<1>11. Mirrors(group, "running", rest, edited)
  BY <1>5, <1>9, <1>10 DEF Mirrors
<1> QED
  BY <1>8, <1>9, <1>11 DEF group

\* What TDLib keeps of a group after an update is still counted.
LEMMA RestCounted ==
    ASSUME NEW s \in Seq(Ids), NEW n \in Nat, Counted(s, n), NEW removed
    PROVE  Counted(Without(s, removed), n)
<1> DEFINE r == Without(s, removed)
<1>1. /\ r \in Seq(Ids)
      /\ \A k \in DOMAIN r : \E h \in DOMAIN s : h >= k /\ r[k] = s[h]
  BY WithoutProperties
<1> HIDE DEF r
<1>2. ASSUME NEW k \in DOMAIN r
      PROVE  r[k] >= k /\ r[k] <= n
  <2>1. PICK h \in DOMAIN s : h >= k /\ r[k] = s[h]
    BY <1>1
  <2>2. s[h] >= h /\ s[h] <= n
    BY DEF Counted
  <2>3. k \in Int /\ h \in Int /\ n \in Int /\ s[h] \in Int
    <3>1. DOMAIN r = 1..Len(r) /\ DOMAIN s = 1..Len(s)
      BY <1>1
    <3>2. s[h] \in Ids
      OBVIOUS
    <3> QED
      BY <3>1, <3>2 DEF Ids
  <2> QED
    BY <2>1, <2>2, <2>3
<1> QED
  BY <1>2 DEF Counted, r

\* A group as it is made, by an update or from what is on screen.
LEMMA NewGroupTyped ==
    ASSUME NEW n \in 1..MaxId
    PROVE  /\ NewNotification(n) \in Nemo
           /\ \A notification \in Nemo, connected \in BOOLEAN :
                LET group == NewGroup(n, notification, connected)
                IN  /\ group \in Group
                    /\ group.notificationOrder = <<>> /\ group.activeNotifications = <<>>
                    /\ group.nemoNotification = notification /\ group.connected = connected
<1>1. NewNotification(n) \in Nemo
  BY NotificationAssumption DEF NewNotification, Nemo
<1>2. <<>> \in [{} -> BOOLEAN] /\ <<>> \in Seq(Ids)
  OBVIOUS
<1>3. <<>> \in UNION {[N -> BOOLEAN] : N \in SUBSET Ids}
  BY <1>2
<1> QED
  BY <1>1, <1>2, <1>3 DEF NewGroup, Group

\* The group that an update is for, as it is found or made.
LEMMA GroupFound ==
    ASSUME IInv, phase = "running", NEW g \in Groups, NEW n \in 1..MaxId
    PROVE  /\ GroupOf(g, n) \in Group
           /\ GroupOf(g, n).notificationOrder = pending[g]
           /\ GroupOf(g, n).activeNotifications = [m \in Range(pending[g]) |-> m \in edited]
<1>1. CASE g \in DOMAIN notificationGroups
  <2>1. GroupOf(g, n) = notificationGroups[g]
    BY <1>1 DEF GroupOf
  <2>2. notificationGroups[g] \in Group
    BY <1>1 DEF IInv, GInv, GroupsTyped, AreGroups
  <2>3. Mirrors(notificationGroups[g], "running", pending[g], edited)
    BY <1>1 DEF IInv, GInv, GroupsMirror
  <2> QED
    BY <2>1, <2>2, <2>3 DEF Mirrors
<1>2. CASE g \notin DOMAIN notificationGroups
  <2>1. pending[g] = <<>>
    BY <1>2 DEF IInv, GroupsActive, Active
  <2> DEFINE new == GroupOf(g, n)
  <2>2. new \in Group /\ new.notificationOrder = <<>> /\ new.activeNotifications = <<>>
    BY <1>2, NewGroupTyped DEF GroupOf
  <2>3. Range(pending[g]) = {}
    BY <2>1 DEF Range
  <2>4. <<>> = [m \in Range(pending[g]) |-> m \in edited]
    BY <2>3
  <2> QED
    BY <2>1, <2>2, <2>4
<1> QED
  BY <1>1, <1>2

\* TDLib adds and removes notifications of a group: handleUpdateNotificationGroup.
LEMMA UpdateStep ==
    ASSUME IInv, phase = "running", NEW g \in Groups, NEW added \in Seq(Ids),
           NEW removed, NEW feedback, NEW customSound,
           handleUpdateNotificationGroup(g, added, removed, feedback, customSound),
           issued' \in 0..MaxId, issued <= issued',
           Counted(pending[g] \o added, issued'),
           \A h \in Groups : Range(added) \cap Range(pending[h]) = {},
           UNCHANGED <<edited, onlineOnlyMode, phase>>
    PROVE  /\ PendingTyped' /\ PendingDisjoint' /\ OthersTyped'
           /\ GInv' /\ GroupsActive' /\ LedSound'
<1> DEFINE all == pending[g] \o added
           rest == Without(all, removed)
           old == GroupOf(g, Len(rest))
           group == Merged(old, Len(rest), added, removed)
           groups == Put(notificationGroups, g, group)
           alert == needFeedback(feedback, g, added, group)
<1>1. /\ pending \in [Groups -> Seq(Ids)] /\ issued \in 0..MaxId /\ MaxId \in Nat
      /\ \A h \in Groups : Counted(pending[h], issued)
      /\ asked \in [Groups -> 0..MaxAsked] /\ led \in BOOLEAN
      /\ pendingChatPhotoChats \subseteq Chats /\ dismissed \subseteq Groups
      /\ MaxAsked \in Nat /\ ChatOf \in [Groups -> Chats]
  BY NotificationAssumption DEF IInv, PendingTyped, OthersTyped
<1>2. pending' = [pending EXCEPT ![g] = rest]
  BY DEF handleUpdateNotificationGroup
<1>3. updateNotificationGroup(g, Len(rest), added, removed, feedback, customSound)
  BY DEF handleUpdateNotificationGroup
<1>4. all \in Seq(Ids)
  BY <1>1
<1>5. rest \in Seq(Ids) /\ Counted(rest, issued')
  <2>1. Counted(all, issued') /\ issued' \in Nat
    BY <1>1
  <2> HIDE DEF all
  <2> QED
    BY <1>4, <2>1, WithoutProperties, RestCounted
<1>6. Len(rest) \in 0..MaxId /\ (Len(rest) # 0 <=> rest # <<>>)
  <2> HIDE DEF rest
  <2>1. Len(rest) \in 0..issued'
    BY <1>5, CountedLen
  <2> QED
    BY <1>1, <1>5, <2>1
<1>7. PendingTyped'
  <2> HIDE DEF rest
  <2>1. ASSUME NEW h \in Groups
        PROVE  Counted(pending'[h], issued')
    <3>1. CASE h = g
      BY <1>1, <1>2, <1>5, <3>1
    <3>2. CASE h # g
      <4>1. pending'[h] = pending[h] /\ Counted(pending[h], issued) /\ pending[h] \in Seq(Ids)
        BY <1>1, <1>2, <3>2
      <4>2. \A i \in DOMAIN pending[h] : pending[h][i] \in Int
        <5> DEFINE q == pending[h]
        <5>1. q \in Seq(Ids) /\ Ids \subseteq Int
          BY <4>1 DEF Ids
        <5> HIDE DEF q
        <5>2. \A i \in DOMAIN q : q[i] \in Ids
          BY <5>1
        <5> QED
          BY <5>1, <5>2 DEF q
      <4>3. issued \in Int /\ issued' \in Int
        BY <1>1
      <4> QED
        BY <4>1, <4>2, <4>3 DEF Counted
    <3> QED
      BY <3>1, <3>2
  <2> QED
    BY <1>1, <1>2, <1>5, <2>1 DEF PendingTyped
<1>7a. PendingDisjoint'
  <2>1. Range(rest) \subseteq Range(pending[g]) \cup Range(added)
    <3> DEFINE p == pending[g]
    <3>1. p \in Seq(Ids) /\ all = p \o added
      BY <1>1
    <3> HIDE DEF p, all
    <3>2. Range(p \o added) = Range(p) \cup Range(added)
      BY <3>1, RangeOfConcat
    <3>3. Range(rest) = Range(all) \ removed
      BY <1>4, WithoutProperties
    <3> QED
      BY <3>1, <3>2, <3>3 DEF p
  <2> HIDE DEF rest
  <2>2. \A h \in Groups : pending'[h] = IF h = g THEN rest ELSE pending[h]
    BY <1>1, <1>2
  <2>3. \A h, k \in Groups : h # k => Range(pending[h]) \cap Range(pending[k]) = {}
    BY DEF IInv, PendingDisjoint
  <2> SUFFICES ASSUME NEW h \in Groups, NEW k \in Groups, h # k
               PROVE  Range(pending'[h]) \cap Range(pending'[k]) = {}
    BY DEF PendingDisjoint
  <2>4. CASE h = g
    <3>1. pending'[h] = rest /\ pending'[k] = pending[k]
      BY <2>2, <2>4
    <3> QED
      BY <2>1, <2>3, <2>4, <3>1
  <2>5. CASE k = g
    <3>1. pending'[k] = rest /\ pending'[h] = pending[h]
      BY <2>2, <2>5
    <3> QED
      BY <2>1, <2>3, <2>5, <3>1
  <2>6. CASE h # g /\ k # g
    BY <2>2, <2>3, <2>6
  <2> QED
    BY <2>4, <2>5, <2>6
<1>8. /\ AreGroups(notificationGroups)
      /\ \A h \in DOMAIN notificationGroups :
            Mirrors(notificationGroups[h], "running", pending[h], edited)
      /\ \A h \in DOMAIN notificationGroups : pending[h] # <<>> /\ asked[h] = 0 =>
            Shows(notificationGroups[h].nemoNotification, pending[h], edited)
      /\ DOMAIN screen \subseteq DOMAIN notificationGroups
      /\ \A h \in DOMAIN screen : screen[h] = notificationGroups[h].nemoNotification
      /\ \A h \in DOMAIN notificationGroups :
            asked[h] = 0 => h \in dismissed \/ h \in DOMAIN screen
  BY DEF IInv, GInv, GroupsTyped, GroupsMirror, GroupsCurrent, OnScreen
<1>9. /\ \A h \in Groups : h # g => pending'[h] = pending[h]
      /\ pending'[g] = rest
  BY <1>1, <1>2
<1>10. CASE Len(rest) # 0
  <2>1. Len(rest) \in 1..MaxId /\ rest # <<>>
    BY <1>1, <1>6, <1>10
  <2>2. /\ old \in Group /\ old.notificationOrder = pending[g]
        /\ old.activeNotifications = [m \in Range(pending[g]) |-> m \in edited]
    <3> HIDE DEF rest
    <3> QED
      BY <2>1, GroupFound
  <2>3. /\ group \in Group /\ group.nemoNotification = old.nemoNotification
        /\ Mirrors(group, "running", rest, edited)
    <3> HIDE DEF old
    <3> DEFINE p == pending[g]
    <3>1. p \in Seq(Ids) /\ rest = Without(p \o added, removed)
      BY <1>1
    <3> HIDE DEF p, rest
    <3>2. /\ old.notificationOrder = p
          /\ old.activeNotifications = [m \in Range(p) |-> m \in edited]
      BY <2>2 DEF p
    <3> QED
      BY <2>1, <2>2, <3>1, <3>2, MergedMirrors
  <2>4. g \in DOMAIN notificationGroups =>
            group.nemoNotification = notificationGroups[g].nemoNotification
    BY <2>3 DEF GroupOf
  <2> HIDE DEF group, old, rest
  <2>5. /\ DOMAIN groups = DOMAIN notificationGroups \cup {g} /\ groups[g] = group
        /\ \A h \in DOMAIN notificationGroups : h # g => groups[h] = notificationGroups[h]
    BY DEF Put
  <2> HIDE DEF groups
  <2>6. AreGroups(groups)
    BY <1>8, <2>3, <2>5 DEF AreGroups
  <2>7. \A h \in DOMAIN groups : Mirrors(groups[h], phase', pending'[h], edited')
    <3> TAKE h \in DOMAIN groups
    <3>1. CASE h = g
      BY <1>9, <2>3, <2>5, <3>1
    <3>2. CASE h # g
      BY <1>8, <1>9, <2>5, <2>6, <3>2 DEF AreGroups
    <3> QED
      BY <3>1, <3>2
  <2>8. DOMAIN screen \subseteq DOMAIN groups
    BY <1>8, <2>5
  <2>9. \A h \in DOMAIN screen : screen[h] = groups[h].nemoNotification
    BY <1>8, <2>4, <2>5
  <2>10. CASE alert /\ customSound
    <3> HIDE DEF alert
    <3>1. /\ asked[g] < MaxAsked /\ asked' = [asked EXCEPT ![g] = @ + 1]
          /\ notificationGroups' = groups
          /\ UNCHANGED <<screen, dismissed, pendingChatPhotoChats>>
          /\ led' = (led \/ alert)
      BY <1>3, <1>10, <2>10 DEF updateNotificationGroup, groups, group, old, alert
    <3>2. /\ asked' \in [Groups -> 0..MaxAsked] /\ asked'[g] # 0
          /\ \A h \in Groups : h # g => asked'[h] = asked[h]
      BY <1>1, <3>1
    <3>3. GroupsTyped' /\ GroupsMirror'
      BY <2>6, <2>7, <3>1 DEF GroupsTyped, GroupsMirror
    <3>4. GroupsCurrent'
      <4> SUFFICES ASSUME NEW h \in DOMAIN groups, pending'[h] # <<>>, asked'[h] = 0
                   PROVE  Shows(groups[h].nemoNotification, pending'[h], edited')
        BY <3>1 DEF GroupsCurrent
      <4>1. h # g /\ h \in DOMAIN notificationGroups /\ h \in Groups
        BY <2>5, <2>6, <3>2 DEF AreGroups
      <4> QED
        BY <1>8, <1>9, <2>5, <3>2, <4>1
    <3>5. OnScreen'
      <4>1. \A h \in DOMAIN groups : asked'[h] = 0 => h \in dismissed' \/ h \in DOMAIN screen'
        <5> SUFFICES ASSUME NEW h \in DOMAIN groups, asked'[h] = 0
                     PROVE  h \in dismissed \/ h \in DOMAIN screen
          BY <3>1
        <5>1. h # g /\ h \in DOMAIN notificationGroups /\ h \in Groups
          BY <2>5, <2>6, <3>2 DEF AreGroups
        <5> QED
          BY <1>8, <3>2, <5>1
      <4> QED
        BY <2>8, <2>9, <3>1, <4>1 DEF OnScreen
    <3>6. OthersTyped'
      BY <1>1, <3>1, <3>2 DEF OthersTyped
    <3>7. GroupsActive'
      BY <1>9, <2>1, <2>5, <2>6, <3>1 DEF IInv, GroupsActive, Active, AreGroups
    <3>8. LedSound'
      BY <2>5, <3>1 DEF LedSound
    <3> QED
      BY <1>7, <1>7a, <3>3, <3>4, <3>5, <3>6, <3>7, <3>8 DEF GInv
  <2>11. CASE ~(alert /\ customSound)
    <3> HIDE DEF alert
    <3>1. /\ publishNotification(groups, {g}) /\ asked' = asked
          /\ led' = (led \/ alert)
      BY <1>3, <1>10, <2>11 DEF updateNotificationGroup, groups, group, old, alert
    <3>2. /\ Publish(groups, {g})
          /\ pendingChatPhotoChats' = pendingChatPhotoChats \cup ({ChatOf[h] : h \in {g}} \ photos)
      BY <3>1 DEF publishNotification
    <3>3. \A h \in DOMAIN groups \ {g} :
            /\ phase' = "running" /\ pending'[h] # <<>> /\ asked'[h] = 0 =>
                Shows(groups[h].nemoNotification, pending'[h], edited')
            /\ asked'[h] = 0 => h \in dismissed \/ h \in DOMAIN screen
      BY <1>8, <1>9, <2>5, <2>6, <3>1 DEF AreGroups
    <3>4. GInv' /\ DOMAIN notificationGroups' = DOMAIN groups
      <4>1. {g} \subseteq DOMAIN groups /\ phase' \in {"starting", "running"}
            /\ pending' \in [Groups -> Seq(Ids)] /\ asked' \in [Groups -> 0..MaxAsked]
        BY <1>1, <1>7, <2>5, <3>1 DEF PendingTyped
      <4>2. \A h \in DOMAIN screen \ {g} : screen[h] = groups[h].nemoNotification
        BY <2>9
      <4> QED
        BY <2>6, <2>7, <2>8, <3>2, <3>3, <4>1, <4>2, PublishStep
    <3>5. OthersTyped'
      BY <1>1, <3>1, <3>2 DEF OthersTyped, Publish
    <3>6. GroupsActive'
      BY <1>9, <2>1, <2>5, <2>6, <3>4 DEF IInv, GroupsActive, Active, AreGroups
    <3>7. LedSound'
      BY <2>5, <3>4 DEF LedSound
    <3> QED
      BY <1>7, <1>7a, <3>4, <3>5, <3>6, <3>7
  <2> QED
    BY <2>10, <2>11
<1>11. CASE Len(rest) = 0
  <2>1. rest = <<>>
    BY <1>6, <1>11
  <2> HIDE DEF rest
  <2>2. /\ notificationGroups' =
            Restrict(notificationGroups, DOMAIN notificationGroups \ {g})
        /\ screen' = IF g \in DOMAIN notificationGroups
                     THEN Restrict(screen, DOMAIN screen \ {g}) ELSE screen
        /\ dismissed' = dismissed \ {g}
        /\ led' = (led /\ DOMAIN notificationGroups' # {})
        /\ UNCHANGED <<asked, pendingChatPhotoChats>>
    BY <1>3, <1>11 DEF updateNotificationGroup
  <2>3. /\ DOMAIN notificationGroups' = DOMAIN notificationGroups \ {g}
        /\ \A h \in DOMAIN notificationGroups' :
            notificationGroups'[h] = notificationGroups[h]
        /\ DOMAIN screen' = DOMAIN screen \ {g}
        /\ \A h \in DOMAIN screen' : screen'[h] = screen[h]
    BY <1>8, <2>2 DEF Restrict
  <2>4. GroupsTyped' /\ GroupsMirror' /\ GroupsCurrent' /\ OnScreen'
    BY <1>8, <1>9, <2>2, <2>3
    DEF GroupsTyped, AreGroups, GroupsMirror, GroupsCurrent, OnScreen
  <2>5. OthersTyped'
    BY <1>1, <2>2 DEF OthersTyped
  <2>6. GroupsActive' /\ LedSound'
    BY <1>9, <2>1, <2>2, <2>3 DEF IInv, GroupsActive, Active, LedSound
  <2> QED
    BY <1>7, <1>7a, <2>4, <2>5, <2>6 DEF GInv
<1> QED
  BY <1>10, <1>11

\* A message arrives or notifications are removed: the new ones are numbered on.
LEMMA GroupUpdateStep ==
    ASSUME IInv, GroupUpdate
    PROVE  IInv'
<1>1. PICK g \in Groups, n \in {0, 1} :
        /\ issued + n <= MaxId
        /\ issued' = issued + n
        /\ \E removed \in SUBSET Range(pending[g]), customSound \in BOOLEAN,
              feedback \in {"None", "New", "All"} :
            handleUpdateNotificationGroup(g, [i \in 1..n |-> issued + i],
                                          removed, feedback, customSound)
  BY DEF GroupUpdate
<1> DEFINE added == [i \in 1..n |-> issued + i]
           p == pending[g]
<1>2. PICK removed \in SUBSET Range(pending[g]), customSound \in BOOLEAN,
           feedback \in {"None", "New", "All"} :
        handleUpdateNotificationGroup(g, added, removed, feedback, customSound)
  BY <1>1
<1>3. /\ phase = "running" /\ phase' = phase /\ dismissals' = dismissals
      /\ UNCHANGED <<edited, onlineOnlyMode, phase>>
  BY DEF GroupUpdate
<1>4. /\ issued \in 0..MaxId /\ issued' \in 0..MaxId /\ issued <= issued' /\ MaxId \in Nat
      /\ n \in Nat
  BY <1>1, NotificationAssumption DEF IInv, PendingTyped
<1>5. /\ p \in Seq(Ids) /\ Counted(p, issued)
      /\ \A h \in Groups : pending[h] \in Seq(Ids) /\ Counted(pending[h], issued)
  BY DEF IInv, PendingTyped
<1>6. added \in Seq(Ids) /\ Len(added) = n /\ \A i \in 1..n : added[i] = issued + i
  <2>1. \A i \in 1..n : issued + i \in Ids
    BY <1>1, <1>4 DEF Ids
  <2>2. \A i \in 1..n : added[i] = issued + i
    OBVIOUS
  <2>3. added \in [1..n -> Ids]
    BY <2>1
  <2> HIDE DEF added
  <2> QED
    BY <1>4, <2>2, <2>3
<1> HIDE DEF added, p
<1>7. Counted(p \o added, issued')
  <2>1. Len(p) \in 0..issued
    BY <1>4, <1>5, CountedLen
  <2>2. /\ Len(p \o added) = Len(p) + n /\ p \o added \in Seq(Ids)
        /\ \A k \in 1..Len(p) + n :
            (p \o added)[k] = IF k <= Len(p) THEN p[k] ELSE added[k - Len(p)]
    BY <1>5, <1>6, ConcatProperties
  <2>3. DOMAIN (p \o added) = 1..Len(p) + n
    BY <2>2
  <2>4. ASSUME NEW k \in 1..Len(p) + n
        PROVE  (p \o added)[k] >= k /\ (p \o added)[k] <= issued'
    <3>1. CASE k <= Len(p)
      <4>1. k \in DOMAIN p /\ (p \o added)[k] = p[k]
        BY <1>5, <2>1, <2>2, <3>1
      <4>2. p[k] \in Ids
        BY <1>5, <4>1
      <4>3. p[k] >= k /\ p[k] <= issued
        BY <1>5, <4>1 DEF Counted
      <4> QED
        BY <1>4, <4>1, <4>2, <4>3 DEF Ids
    <3>2. CASE ~(k <= Len(p))
      <4>1. k - Len(p) \in 1..n /\ (p \o added)[k] = added[k - Len(p)]
        BY <1>4, <2>1, <2>2, <3>2
      <4>2. (p \o added)[k] = issued + (k - Len(p))
        BY <1>6, <4>1
      <4> QED
        BY <1>1, <1>4, <2>1, <4>1, <4>2
    <3> QED
      BY <3>1, <3>2
  <2> QED
    BY <2>3, <2>4 DEF Counted
<1>8. ASSUME NEW h \in Groups, NEW x \in Range(added) \cap Range(pending[h])
      PROVE  FALSE
  <2>1. DOMAIN added = 1..n
    BY <1>4, <1>6
  <2>2. PICK i \in 1..n : x = issued + i
    BY <1>6, <1>8, <2>1 DEF Range
  <2>3. PICK k \in DOMAIN pending[h] : x = pending[h][k]
    BY <1>8 DEF Range
  <2>4. x <= issued
    BY <1>5, <2>3 DEF Counted
  <2> QED
    BY <1>4, <2>2, <2>4
<1>9. /\ PendingTyped' /\ PendingDisjoint' /\ OthersTyped'
      /\ GInv' /\ GroupsActive' /\ LedSound'
  <2>1. Counted(pending[g] \o added, issued')
    BY <1>7 DEF p
  <2>2. \A h \in Groups : Range(added) \cap Range(pending[h]) = {}
    BY <1>8
  <2> QED
    BY <1>2, <1>3, <1>4, <1>6, <2>1, <2>2, UpdateStep
<1>10. RequestsSound' /\ DismissesWhatWasShown'
  BY <1>3 DEF IInv, RequestsSound, DismissesWhatWasShown
<1> QED
  BY <1>9, <1>10 DEF IInv

\* TDLib removes what the user dismissed, at once or after other updates.
LEMMA GroupRemovedStep ==
    ASSUME IInv, NEW d \in dismissals, GroupRemoved(d)
    PROVE  IInv'
<1> DEFINE removed == {n \in Range(pending[d.group]) : n <= d.max}
<1>1. /\ dismissals' = dismissals \ {d}
      /\ UNCHANGED <<edited, issued, onlineOnlyMode, phase>>
  BY DEF GroupRemoved
<1>2. d.group \in Groups /\ phase = "running"
  BY DEF IInv, RequestsSound, OthersTyped
<1>3. RequestsSound' /\ DismissesWhatWasShown'
  BY <1>1, <1>2 DEF IInv, RequestsSound, DismissesWhatWasShown
<1>4. CASE removed = {}
  <2>1. UNCHANGED <<appVars, asked, pending, screen, dismissed>>
    BY <1>4 DEF GroupRemoved
  <2> QED
    BY <1>1, <1>3, <2>1
    DEF IInv, PendingTyped, PendingDisjoint, OthersTyped, GInv, GroupsTyped, GroupsMirror,
        GroupsCurrent, OnScreen, GroupsActive, Active, LedSound, appVars
<1>5. CASE removed # {}
  <2>1. PICK feedback \in {"None", "New", "All"}, customSound \in BOOLEAN :
            handleUpdateNotificationGroup(d.group, <<>>, removed, feedback, customSound)
    BY <1>5 DEF GroupRemoved
  <2> HIDE DEF removed
  <2>2. /\ issued \in 0..MaxId /\ issued' \in 0..MaxId /\ issued <= issued'
        /\ pending[d.group] \in Seq(Ids) /\ Counted(pending[d.group], issued')
    BY <1>1, <1>2, NotificationAssumption DEF IInv, PendingTyped
  <2>3. pending[d.group] \o <<>> = pending[d.group] /\ <<>> \in Seq(Ids)
    BY <2>2
  <2>4. \A h \in Groups : Range(<<>>) \cap Range(pending[h]) = {}
    BY DEF Range
  <2>5. /\ PendingTyped' /\ PendingDisjoint' /\ OthersTyped'
        /\ GInv' /\ GroupsActive' /\ LedSound'
    <3> DEFINE g == d.group
               added == <<>>
    <3>1. g \in Groups /\ added \in Seq(Ids)
      BY <1>2, <2>3
    <3>2. handleUpdateNotificationGroup(g, added, removed, feedback, customSound)
      BY <2>1
    <3>3. Counted(pending[g] \o added, issued')
      BY <2>2, <2>3
    <3>4. \A h \in Groups : Range(added) \cap Range(pending[h]) = {}
      BY <2>4
    <3> HIDE DEF g, added
    <3> QED
      BY <1>1, <1>2, <2>2, <3>1, <3>2, <3>3, <3>4, UpdateStep
  <2> QED
    BY <1>3, <2>5 DEF IInv
<1> QED
  BY <1>4, <1>5

\* The invariant for the groups, with its parts where the steps need them.
LEMMA GroupFacts ==
    ASSUME IInv
    PROVE  /\ AreGroups(notificationGroups)
           /\ \A h \in DOMAIN notificationGroups :
                Mirrors(notificationGroups[h], phase, pending[h], edited)
           /\ \A h \in DOMAIN notificationGroups :
                phase = "running" /\ pending[h] # <<>> /\ asked[h] = 0 =>
                    Shows(notificationGroups[h].nemoNotification, pending[h], edited)
           /\ DOMAIN screen \subseteq DOMAIN notificationGroups
           /\ \A h \in DOMAIN screen : screen[h] = notificationGroups[h].nemoNotification
           /\ \A h \in DOMAIN notificationGroups :
                asked[h] = 0 => h \in dismissed \/ h \in DOMAIN screen
BY DEF IInv, GInv, GroupsTyped, GroupsMirror, GroupsCurrent, OnScreen

\* The content of a notification changes: its group is the only one that has it.
LEMMA EditStep ==
    ASSUME IInv, NEW g \in Groups, NEW n \in Ids, handleUpdateNotification(g, n)
    PROVE  IInv'
<1> DEFINE old == notificationGroups[g]
           group == [old EXCEPT !.activeNotifications[n] = TRUE]
           groups == [notificationGroups EXCEPT ![g].activeNotifications[n] = TRUE]
<1>1. /\ phase = "running" /\ n \in Range(pending[g]) /\ edited' = edited \cup {n}
      /\ UNCHANGED <<led, asked, dismissals, pending, issued, onlineOnlyMode, phase>>
  BY DEF handleUpdateNotification, requestVars
<1>2. pending[g] # <<>>
  BY <1>1 DEF Range
<1>3. g \in DOMAIN notificationGroups
  BY <1>1, <1>2 DEF IInv, GroupsActive, Active
<1>4. old \in Group /\ Mirrors(old, "running", pending[g], edited)
  BY <1>1, <1>3, GroupFacts DEF AreGroups
<1>5. old.activeNotifications = [m \in Range(pending[g]) |-> m \in edited]
  BY <1>4 DEF Mirrors
<1>6. publishNotification(groups, {g})
  <2>1. n \in DOMAIN notificationGroups[g].activeNotifications
    BY <1>1, <1>5
  <2> QED
    BY <1>3, <2>1 DEF handleUpdateNotification
<1>7. /\ DOMAIN groups = DOMAIN notificationGroups /\ groups[g] = group
      /\ \A h \in DOMAIN notificationGroups : h # g => groups[h] = notificationGroups[h]
  BY <1>3
<1> DEFINE act == [m \in Range(pending[g]) |-> m \in edited']
<1>8. [old.activeNotifications EXCEPT ![n] = TRUE] = act
  <2>1. ASSUME NEW m \in Range(pending[g])
        PROVE  [old.activeNotifications EXCEPT ![n] = TRUE][m] = (m \in edited')
    <3>1. CASE m = n
      <4>1. m \in edited'
        BY <1>1, <3>1
      <4>2. [old.activeNotifications EXCEPT ![n] = TRUE][m] = TRUE
        BY <1>5, <3>1
      <4>3. (m \in edited') = TRUE
        BY <4>1
      <4> QED
        BY <4>2, <4>3
    <3>2. CASE m # n
      <4>1. m \in edited <=> m \in edited'
        BY <1>1, <3>2
      <4>2. (m \in edited) = (m \in edited')
        BY <4>1
      <4>3. [old.activeNotifications EXCEPT ![n] = TRUE][m] = (m \in edited)
        BY <1>5, <3>2
      <4> QED
        BY <4>2, <4>3
    <3> QED
      BY <3>1, <3>2
  <2> QED
    BY <1>5, <2>1
<1>9. /\ group \in Group /\ group.notificationOrder = old.notificationOrder
      /\ group.activeNotifications = act /\ group.totalCount = old.totalCount
      /\ group.connected = old.connected /\ group.nemoNotification = old.nemoNotification
  <2>1. group = [old EXCEPT !.activeNotifications = act]
    BY <1>8
  <2>2. act \in [Range(pending[g]) -> BOOLEAN] /\ Range(pending[g]) \in SUBSET Ids
    BY DEF IInv, PendingTyped, Range
  <2>3. act \in UNION {[N -> BOOLEAN] : N \in SUBSET Ids}
    BY <2>2
  <2> HIDE DEF group, act, old
  <2> QED
    BY <1>4, <2>1, <2>3 DEF Group
<1> HIDE DEF group, groups, old
<1>10. Mirrors(group, "running", pending[g], edited')
  BY <1>4, <1>9 DEF Mirrors
<1>11. ASSUME NEW h \in Groups, h # g
       PROVE  \A m \in Range(pending[h]) : (m \in edited) = (m \in edited')
  <2>1. n \notin Range(pending[h])
    BY <1>1, <1>11 DEF IInv, PendingDisjoint
  <2>2. \A m \in Range(pending[h]) : m \in edited <=> m \in edited'
    BY <1>1, <2>1
  <2> QED
    BY <2>2
<1>12. ASSUME NEW h \in DOMAIN groups, h # g
       PROVE  /\ Mirrors(groups[h], "running", pending[h], edited')
              /\ pending[h] # <<>> /\ asked[h] = 0 =>
                    Shows(groups[h].nemoNotification, pending[h], edited')
  <2>1. /\ h \in Groups /\ groups[h] = notificationGroups[h]
        /\ Mirrors(notificationGroups[h], "running", pending[h], edited)
    BY <1>1, <1>7, <1>12, GroupFacts DEF AreGroups
  <2>2. \A m \in Range(pending[h]) : (m \in edited) = (m \in edited')
    BY <1>11, <1>12, <2>1
  <2>3. [m \in Range(pending[h]) |-> m \in edited] = [m \in Range(pending[h]) |-> m \in edited']
    BY <2>2
  <2>4. Mirrors(groups[h], "running", pending[h], edited')
    BY <2>1, <2>3 DEF Mirrors
  <2>5. ASSUME pending[h] # <<>>, asked[h] = 0
        PROVE  Shows(groups[h].nemoNotification, pending[h], edited')
    <3>1. Shows(notificationGroups[h].nemoNotification, pending[h], edited)
      BY <1>1, <1>7, <1>12, <2>5, GroupFacts
    <3> DEFINE q == pending[h]
    <3>2. q \in Seq(Ids) /\ q # <<>>
      BY <2>1, <2>5 DEF IInv, PendingTyped
    <3>3. Last(q) \in Range(q)
      <4> HIDE DEF q
      <4>1. Len(q) \in DOMAIN q
        BY <3>2
      <4> QED
        BY <4>1 DEF Last, Range
    <3>4. (Last(q) \in edited) = (Last(q) \in edited')
      BY <2>2, <3>3
    <3> QED
      BY <2>1, <3>1, <3>4, Zenon DEF Shows
  <2> QED
    BY <2>4, <2>5
<1>13. Publish(groups, {g})
       /\ pendingChatPhotoChats' = pendingChatPhotoChats \cup ({ChatOf[h] : h \in {g}} \ photos)
  BY <1>6 DEF publishNotification
<1>14. GInv' /\ DOMAIN notificationGroups' = DOMAIN groups
  <2>1. AreGroups(groups)
    <3>1. AreGroups(notificationGroups)
      BY GroupFacts
    <3> QED
      BY <1>3, <1>7, <1>9, <3>1 DEF AreGroups
  <2>2. \A h \in DOMAIN groups : Mirrors(groups[h], phase', pending'[h], edited')
    <3> TAKE h \in DOMAIN groups
    <3>1. CASE h = g
      BY <1>1, <1>7, <1>10, <3>1
    <3>2. CASE h # g
      BY <1>1, <1>12, <3>2
    <3> QED
      BY <3>1, <3>2
  <2>3. \A h \in DOMAIN groups \ {g} :
            /\ phase' = "running" /\ pending'[h] # <<>> /\ asked'[h] = 0 =>
                Shows(groups[h].nemoNotification, pending'[h], edited')
            /\ asked'[h] = 0 => h \in dismissed \/ h \in DOMAIN screen
    BY <1>1, <1>7, <1>12, GroupFacts
  <2>4. /\ DOMAIN screen \subseteq DOMAIN groups
        /\ \A h \in DOMAIN screen \ {g} : screen[h] = groups[h].nemoNotification
    BY <1>7, GroupFacts
  <2>5. /\ {g} \subseteq DOMAIN groups /\ phase' \in {"starting", "running"}
        /\ pending' \in [Groups -> Seq(Ids)] /\ asked' \in [Groups -> 0..MaxAsked]
    BY <1>1, <1>3, <1>7 DEF IInv, PendingTyped, OthersTyped
  <2> QED
    BY <1>13, <2>1, <2>2, <2>3, <2>4, <2>5, PublishStep
<1>15. OthersTyped'
  BY <1>1, <1>13, NotificationAssumption DEF IInv, OthersTyped, Publish
<1>16. PendingTyped' /\ PendingDisjoint' /\ GroupsActive' /\ LedSound'
  BY <1>1, <1>7, <1>14
  DEF IInv, PendingTyped, PendingDisjoint, GroupsActive, Active, LedSound
<1>17. RequestsSound' /\ DismissesWhatWasShown'
  BY <1>1 DEF IInv, RequestsSound, DismissesWhatWasShown
<1> QED
  BY <1>14, <1>15, <1>16, <1>17 DEF IInv

\* The groups TDLib remembers are added to those that the screen kept.
LEMMA ActiveStep ==
    ASSUME IInv, handleUpdateActiveNotifications
    PROVE  IInv'
<1> DEFINE merged(g) == Merged(GroupOf(g, Len(pending[g])), Len(pending[g]), pending[g], {})
           groups == [g \in DOMAIN notificationGroups \cup Active |->
                        IF g \in Active THEN merged(g) ELSE notificationGroups[g]]
<1>1. /\ phase = "starting" /\ phase' = "running"
      /\ UNCHANGED <<led, asked, dismissals, pending, edited, issued, onlineOnlyMode>>
  BY DEF handleUpdateActiveNotifications, requestVars, tdVars
<1>2. publishNotification(groups, Active)
  BY DEF handleUpdateActiveNotifications, Active
<1>3. ASSUME NEW g \in Active
      PROVE  merged(g) \in Group /\ Mirrors(merged(g), "running", pending[g], edited)
  <2> DEFINE rest == pending[g]
             old == GroupOf(g, Len(rest))
  <2>1. rest \in Seq(Ids) /\ rest # <<>> /\ Counted(rest, issued) /\ issued \in 0..MaxId
        /\ g \in Groups
    BY <1>3 DEF IInv, PendingTyped, Active
  <2>2. Len(rest) \in 1..MaxId
    BY <2>1, CountedLen
  <2> HIDE DEF rest
  <2>3. old \in Group /\ old.notificationOrder = <<>> /\ old.activeNotifications = <<>>
    <3>1. CASE g \in DOMAIN notificationGroups
      <4>1. old = notificationGroups[g]
        BY <3>1 DEF GroupOf
      <4>2. notificationGroups[g] \in Group
            /\ Mirrors(notificationGroups[g], "starting", pending[g], edited)
        BY <1>1, <3>1, GroupFacts DEF AreGroups
      <4> QED
        BY <4>1, <4>2 DEF Mirrors
    <3>2. CASE g \notin DOMAIN notificationGroups
      BY <2>2, <3>2, NewGroupTyped DEF GroupOf
    <3> QED
      BY <3>1, <3>2
  <2>4. merged(g) = Merged(old, Len(rest), rest, {})
    BY DEF rest
  <2> HIDE DEF old, merged
  <2> DEFINE p == <<>>
  <2>5. p \in Seq(Ids) /\ old.notificationOrder = p
    BY <2>3
  <2>6. Range(p) = {}
    BY DEF Range
  <2>7. old.activeNotifications = [n \in Range(p) |-> n \in edited]
    BY <2>3, <2>6
  <2>8. p \o rest = rest
    BY <2>1
  <2> HIDE DEF p
  <2>9. rest = Without(p \o rest, {})
    BY <2>1, <2>8, WithoutNothing
  <2>10. /\ Merged(old, Len(rest), rest, {}) \in Group
         /\ Mirrors(Merged(old, Len(rest), rest, {}), "running", rest, edited)
    BY <2>1, <2>2, <2>3, <2>5, <2>7, <2>9, MergedMirrors
  <2> QED
    BY <2>4, <2>10 DEF rest
<1> HIDE DEF merged
<1>4. /\ DOMAIN groups = DOMAIN notificationGroups \cup Active
      /\ \A g \in Active : groups[g] = merged(g)
      /\ \A g \in DOMAIN groups \ Active :
            g \in DOMAIN notificationGroups /\ groups[g] = notificationGroups[g]
  OBVIOUS
<1> HIDE DEF groups
<1>5. AreGroups(groups) /\ Active \subseteq Groups
  <2>1. AreGroups(notificationGroups)
    BY GroupFacts
  <2> QED
    BY <1>3, <1>4, <2>1 DEF AreGroups, Active
<1>6. ASSUME NEW g \in DOMAIN groups \ Active
      PROVE  Mirrors(groups[g], "running", pending[g], edited) /\ pending[g] = <<>>
  <2>1. pending[g] = <<>>
    BY <1>5, <1>6 DEF Active, AreGroups
  <2>2. Range(pending[g]) = {}
    BY <2>1 DEF Range
  <2>3. <<>> = [n \in Range(pending[g]) |-> n \in edited]
    BY <2>2
  <2>4. Mirrors(groups[g], "starting", pending[g], edited)
    BY <1>1, <1>4, <1>6, GroupFacts
  <2> QED
    BY <2>1, <2>3, <2>4 DEF Mirrors
<1>7. /\ Publish(groups, Active)
      /\ pendingChatPhotoChats' = pendingChatPhotoChats \cup ({ChatOf[g] : g \in Active} \ photos)
  BY <1>2 DEF publishNotification
<1>8. GInv' /\ DOMAIN notificationGroups' = DOMAIN groups
  <2>1. \A g \in DOMAIN groups : Mirrors(groups[g], phase', pending'[g], edited')
    BY <1>1, <1>3, <1>4, <1>6
  <2>2. \A g \in DOMAIN groups \ Active :
            /\ phase' = "running" /\ pending'[g] # <<>> /\ asked'[g] = 0 =>
                Shows(groups[g].nemoNotification, pending'[g], edited')
            /\ asked'[g] = 0 => g \in dismissed \/ g \in DOMAIN screen
    BY <1>1, <1>4, <1>6, GroupFacts
  <2>3. /\ DOMAIN screen \subseteq DOMAIN groups
        /\ \A g \in DOMAIN screen \ Active : screen[g] = groups[g].nemoNotification
    BY <1>4, GroupFacts
  <2>4. /\ Active \subseteq DOMAIN groups /\ phase' \in {"starting", "running"}
        /\ pending' \in [Groups -> Seq(Ids)] /\ asked' \in [Groups -> 0..MaxAsked]
    BY <1>1, <1>4 DEF IInv, PendingTyped, OthersTyped
  <2> QED
    BY <1>5, <1>7, <2>1, <2>2, <2>3, <2>4, PublishStep
<1>9. OthersTyped'
  <2>1. {ChatOf[g] : g \in Active} \subseteq Chats
    BY <1>5, NotificationAssumption
  <2> QED
    BY <1>1, <1>7, <2>1 DEF IInv, OthersTyped, Publish
<1>10. PendingTyped' /\ PendingDisjoint' /\ GroupsActive' /\ LedSound'
  <2>1. Active' = Active
    BY <1>1 DEF Active
  <2> QED
    BY <1>1, <1>4, <1>8, <2>1
    DEF IInv, PendingTyped, PendingDisjoint, GroupsActive, LedSound
<1>11. RequestsSound' /\ DismissesWhatWasShown'
  BY <1>1 DEF IInv, RequestsSound, DismissesWhatWasShown
<1> QED
  BY <1>8, <1>9, <1>10, <1>11 DEF IInv

-----------------------------------------------------------------------------
(***************************************************************************)
(* Sounds, photos, titles                                                  *)
(***************************************************************************)

\* Publishing groups as they are.  Requests may be answered, for the groups
\* that are published by it or are gone.
LEMMA RepublishStep ==
    ASSUME IInv, NEW G, G \subseteq DOMAIN notificationGroups,
           Publish(notificationGroups, G),
           asked' \in [Groups -> 0..MaxAsked],
           \A g \in DOMAIN notificationGroups \ G : asked'[g] = asked[g],
           phase = "starting" => asked' = asked,
           pendingChatPhotoChats' \subseteq Chats,
           UNCHANGED <<led, dismissals, pending, edited, issued, onlineOnlyMode, phase>>
    PROVE  IInv'
<1>1. GInv' /\ DOMAIN notificationGroups' = DOMAIN notificationGroups
  <2> DEFINE groups == notificationGroups
  <2>1. /\ AreGroups(groups) /\ DOMAIN screen \subseteq DOMAIN groups
        /\ \A g \in DOMAIN screen \ G : screen[g] = groups[g].nemoNotification
        /\ \A g \in DOMAIN groups : Mirrors(groups[g], phase', pending'[g], edited')
        /\ \A g \in DOMAIN groups \ G :
            /\ phase' = "running" /\ pending'[g] # <<>> /\ asked'[g] = 0 =>
                Shows(groups[g].nemoNotification, pending'[g], edited')
            /\ asked'[g] = 0 => g \in dismissed \/ g \in DOMAIN screen
    BY GroupFacts
  <2>2. /\ Publish(groups, G) /\ G \subseteq DOMAIN groups
        /\ phase' \in {"starting", "running"} /\ pending' \in [Groups -> Seq(Ids)]
    BY DEF IInv, PendingTyped, OthersTyped
  <2>3. GInv' /\ DOMAIN notificationGroups' = DOMAIN groups
    <3> HIDE DEF groups
    <3> QED
      BY <2>1, <2>2, PublishStep
  <2> QED
    BY <2>3
<1>2. OthersTyped'
  BY DEF IInv, OthersTyped, Publish
<1>3. PendingTyped' /\ PendingDisjoint' /\ GroupsActive' /\ LedSound'
  <2>1. Active' = Active
    BY DEF Active
  <2> QED
    BY <1>1, <2>1 DEF IInv, PendingTyped, PendingDisjoint, GroupsActive, LedSound
<1>4. RequestsSound' /\ DismissesWhatWasShown'
  BY DEF IInv, RequestsSound, DismissesWhatWasShown
<1> QED
  BY <1>1, <1>2, <1>3, <1>4 DEF IInv

\* The answer to the request for a sound, in time or late, also an error.
LEMMA SoundStep ==
    ASSUME IInv, NEW g \in Groups, SoundAnswers(g)
    PROVE  IInv'
<1>1. PICK found \in BOOLEAN : SoundAnswered(g, found)
  BY DEF SoundAnswers
<1>2. /\ asked[g] > 0 /\ asked' = [asked EXCEPT ![g] = @ - 1]
      /\ UNCHANGED <<led, dismissals, pending, edited, issued, onlineOnlyMode, phase>>
  BY <1>1 DEF SoundAnswered, tdVars
<1>3. /\ asked \in [Groups -> 0..MaxAsked] /\ MaxAsked \in Nat
      /\ DOMAIN notificationGroups \subseteq Groups
  BY NotificationAssumption, GroupFacts DEF IInv, OthersTyped, AreGroups
<1>4. /\ asked' \in [Groups -> 0..MaxAsked]
      /\ \A h \in Groups : h # g => asked'[h] = asked[h]
  BY <1>2, <1>3
<1>5. phase # "starting"
  BY <1>2, <1>3 DEF IInv, RequestsSound
<1>6. CASE g \in DOMAIN notificationGroups
  <2>1. /\ Publish(notificationGroups, {g})
        /\ pendingChatPhotoChats' = pendingChatPhotoChats \cup ({ChatOf[h] : h \in {g}} \ photos)
    BY <1>1, <1>6 DEF SoundAnswered, publishNotification
  <2>2. pendingChatPhotoChats' \subseteq Chats
    BY <2>1, NotificationAssumption DEF IInv, OthersTyped
  <2> QED
    BY <1>2, <1>3, <1>4, <1>5, <1>6, <2>1, <2>2, RepublishStep
<1>7. CASE g \notin DOMAIN notificationGroups
  <2>1. UNCHANGED <<notificationGroups, screen, dismissed, pendingChatPhotoChats>>
    BY <1>1, <1>7 DEF SoundAnswered
  <2>2. \A h \in DOMAIN notificationGroups : asked'[h] = asked[h]
    BY <1>3, <1>4, <1>7
  <2>3. GInv' /\ OthersTyped'
    BY <1>2, <1>4, <2>1, <2>2
    DEF IInv, GInv, GroupsTyped, GroupsMirror, GroupsCurrent, OnScreen, OthersTyped
  <2>4. PendingTyped' /\ PendingDisjoint' /\ GroupsActive' /\ LedSound'
    BY <1>2, <2>1 DEF IInv, PendingTyped, PendingDisjoint, GroupsActive, Active, LedSound
  <2>5. RequestsSound' /\ DismissesWhatWasShown'
    BY <1>2, <1>5 DEF IInv, RequestsSound, DismissesWhatWasShown
  <2> QED
    BY <2>3, <2>4, <2>5 DEF IInv
<1> QED
  BY <1>6, <1>7

\* Chats, photos and settings change what is published, and nothing else.
LEMMA ChatStep ==
    ASSUME IInv, NEW chat \in Chats,
           \/ updateNotificationForChat(chat)
           \/ ChatPhotoChanged(chat)
           \/ handleChatPhotoDownloadingCompletedChanged(chat)
    PROVE  IInv'
<1>1. /\ asked \in [Groups -> 0..MaxAsked] /\ ChatOf \in [Groups -> Chats]
      /\ DOMAIN notificationGroups \subseteq Groups
      /\ pendingChatPhotoChats \subseteq Chats
  BY NotificationAssumption, GroupFacts DEF IInv, OthersTyped, AreGroups
<1>2. /\ UNCHANGED <<led, asked, dismissals, pending, edited, issued, onlineOnlyMode, phase>>
      /\ asked' = asked /\ asked' \in [Groups -> 0..MaxAsked]
  BY <1>1 DEF updateNotificationForChat, ChatPhotoChanged,
              handleChatPhotoDownloadingCompletedChanged, requestVars, tdVars
<1>3. ASSUME NEW g \in DOMAIN notificationGroups, Publish(notificationGroups, {g}),
             pendingChatPhotoChats' \subseteq Chats
      PROVE  IInv'
  BY <1>2, <1>3, RepublishStep
<1>4. ASSUME UNCHANGED <<notificationGroups, screen, dismissed>>,
             pendingChatPhotoChats' \subseteq Chats
      PROVE  IInv'
  BY <1>2, <1>4
  DEF IInv, PendingTyped, PendingDisjoint, OthersTyped, GInv, GroupsTyped, GroupsMirror,
      GroupsCurrent, OnScreen, GroupsActive, Active, LedSound, RequestsSound,
      DismissesWhatWasShown
<1>5. CASE updateNotificationForChat(chat)
  <2>1. PICK g \in DOMAIN notificationGroups : publishNotification(notificationGroups, {g})
    BY <1>5 DEF updateNotificationForChat
  <2>2. {ChatOf[h] : h \in {g}} \subseteq Chats
    BY <1>1
  <2> QED
    BY <1>1, <1>3, <2>1, <2>2 DEF publishNotification
<1>6. CASE ChatPhotoChanged(chat)
  <2> DEFINE G == {g \in DOMAIN notificationGroups : ChatOf[g] = chat}
  <2>1. CASE G = {}
    BY <1>1, <1>4, <1>6, <2>1 DEF ChatPhotoChanged
  <2>2. CASE G # {}
    <3>1. PICK g \in G : /\ Publish(notificationGroups, {g})
                         /\ pendingChatPhotoChats' = pendingChatPhotoChats \cup {chat}
      BY <1>6, <2>2 DEF ChatPhotoChanged
    <3> QED
      BY <1>1, <1>3, <3>1
  <2> QED
    BY <2>1, <2>2
<1>7. CASE handleChatPhotoDownloadingCompletedChanged(chat)
  <2> DEFINE G == {g \in DOMAIN notificationGroups : ChatOf[g] = chat}
  <2>1. /\ pendingChatPhotoChats' \subseteq Chats
        /\ notificationGroups' = notificationGroups
    BY <1>1, <1>7 DEF handleChatPhotoDownloadingCompletedChanged
  <2>2. CASE G = {}
    BY <1>4, <1>7, <2>1, <2>2 DEF handleChatPhotoDownloadingCompletedChanged
  <2>3. CASE G # {}
    <3>1. PICK g \in G : /\ screen' = Put(screen, g, notificationGroups[g].nemoNotification)
                         /\ dismissed' = dismissed \ {g}
      BY <1>7, <2>3 DEF handleChatPhotoDownloadingCompletedChanged
    <3>2. OnScreen'
      BY <1>2, <2>1, <3>1, GroupFacts DEF OnScreen, Put
    <3>3. GInv'
      BY <1>2, <2>1, <3>2 DEF IInv, GInv, GroupsTyped, GroupsMirror, GroupsCurrent
    <3>4. OthersTyped'
      BY <1>2, <2>1, <3>1 DEF IInv, OthersTyped
    <3> QED
      BY <1>2, <2>1, <3>3, <3>4
      DEF IInv, PendingTyped, PendingDisjoint, GroupsActive, Active, LedSound,
          RequestsSound, DismissesWhatWasShown
  <2> QED
    BY <2>2, <2>3
<1> QED
  BY <1>5, <1>6, <1>7

\* All groups are published.
LEMMA SettingsStep ==
    ASSUME IInv, updateAllNotifications \/ setUseSignalActions
    PROVE  IInv'
<1>1. /\ asked \in [Groups -> 0..MaxAsked] /\ ChatOf \in [Groups -> Chats]
      /\ DOMAIN notificationGroups \subseteq Groups
      /\ pendingChatPhotoChats \subseteq Chats
  BY NotificationAssumption, GroupFacts DEF IInv, OthersTyped, AreGroups
<1>2. /\ Publish(notificationGroups, DOMAIN notificationGroups)
      /\ UNCHANGED <<led, asked, dismissals, pending, edited, issued, onlineOnlyMode, phase>>
      /\ asked' = asked /\ asked' \in [Groups -> 0..MaxAsked]
  BY <1>1 DEF updateAllNotifications, setUseSignalActions, publishNotification,
              requestVars, tdVars
<1>3. pendingChatPhotoChats' \subseteq Chats
  <2>1. {ChatOf[g] : g \in DOMAIN notificationGroups} \subseteq Chats
    BY <1>1
  <2> QED
    BY <1>1, <2>1 DEF updateAllNotifications, setUseSignalActions, publishNotification
<1> QED
  BY <1>2, <1>3, RepublishStep

-----------------------------------------------------------------------------
(***************************************************************************)
(* Dismissal, restart                                                      *)
(***************************************************************************)

\* A connected notification is that of a group TDLib has notifications of; when
\* no sound is asked for, its last one is what is on screen.
LEMMA ClosedStep ==
    ASSUME IInv, NEW g \in Groups, handleNotificationClosed(g)
    PROVE  IInv'
<1> DEFINE group == notificationGroups[g]
           d == [group |-> g, max |-> lastNotification(group),
                 shown |-> screen[g].last, waiting |-> asked[g] > 0]
<1>1. /\ g \in DOMAIN screen /\ screen' = Restrict(screen, DOMAIN screen \ {g})
      /\ dismissed' = dismissed \cup {g}
      /\ dismissals' = IF group.connected THEN dismissals \cup {d} ELSE dismissals
      /\ UNCHANGED <<notificationGroups, pendingChatPhotoChats, led, asked, pending,
                     edited, issued, onlineOnlyMode, phase>>
  BY DEF handleNotificationClosed, appVars, tdVars
<1>2. /\ g \in DOMAIN notificationGroups /\ group \in Group
      /\ screen[g] = group.nemoNotification
      /\ Mirrors(group, phase, pending[g], edited)
      /\ phase = "running" /\ pending[g] # <<>> /\ asked[g] = 0 =>
            Shows(group.nemoNotification, pending[g], edited)
  BY <1>1, GroupFacts DEF AreGroups
<1>3. /\ pending[g] \in Seq(Ids) /\ asked[g] \in 0..MaxAsked /\ MaxAsked \in Nat
      /\ phase \in {"starting", "running"}
  BY NotificationAssumption DEF IInv, PendingTyped, OthersTyped
<1>4. ASSUME group.connected
      PROVE  phase = "running" /\ (d.max = d.shown \/ d.waiting)
  <2>1. phase = "running" /\ pending[g] # <<>>
    BY <1>2, <1>3, <1>4 DEF Mirrors
  <2>2. CASE asked[g] = 0
    <3>1. lastNotification(group) = Last(pending[g])
      BY <1>2, <1>3, <2>1, FilledShows
    <3>2. screen[g].last = Last(pending[g])
      BY <1>2, <2>1, <2>2 DEF Shows
    <3> QED
      BY <2>1, <3>1, <3>2
  <2>3. CASE asked[g] # 0
    <3>1. asked[g] > 0
      BY <1>3, <2>3
    <3>2. d.waiting = (asked[g] > 0)
      BY Zenon
    <3> QED
      BY <2>1, <3>1, <3>2, Zenon
  <2> QED
    BY <2>2, <2>3
<1>5. RequestsSound' /\ DismissesWhatWasShown'
  <2>1. CASE group.connected
    <3>1. /\ dismissals' = dismissals \cup {d} /\ phase = "running"
          /\ d.group \in Groups /\ (d.max = d.shown \/ d.waiting)
      BY <1>1, <1>4, <2>1
    <3> HIDE DEF d
    <3> QED
      BY <1>1, <3>1 DEF IInv, RequestsSound, DismissesWhatWasShown
  <2>2. CASE ~group.connected
    BY <1>1, <2>2 DEF IInv, RequestsSound, DismissesWhatWasShown
  <2> QED
    BY <2>1, <2>2
<1>6. DOMAIN screen' = DOMAIN screen \ {g} /\ \A h \in DOMAIN screen' : screen'[h] = screen[h]
  BY <1>1 DEF Restrict
<1> HIDE DEF d, group
<1>7. OnScreen'
  BY <1>1, <1>6 DEF IInv, GInv, OnScreen
<1>8. GInv' /\ OthersTyped'
  BY <1>1, <1>7 DEF IInv, GInv, GroupsTyped, GroupsMirror, GroupsCurrent, OthersTyped
<1>9. PendingTyped' /\ PendingDisjoint' /\ GroupsActive' /\ LedSound'
  BY <1>1 DEF IInv, PendingTyped, PendingDisjoint, GroupsActive, Active, LedSound
<1> QED
  BY <1>5, <1>8, <1>9 DEF IInv

\* No request in flight is a number of requests in flight.
LEMMA NoneAsked == [g \in Groups |-> 0] \in [Groups -> 0..MaxAsked]
<1>1. 0 \in 0..MaxAsked
  BY NotificationAssumption
<1> QED
  BY <1>1

\* The groups of the next process are those on screen.
LEMMA RestartStep ==
    ASSUME IInv, Restart
    PROVE  IInv'
<1>1. /\ phase' = "starting" /\ pendingChatPhotoChats' = {} /\ led' = FALSE
      /\ notificationGroups' =
            [g \in DOMAIN screen |-> NewGroup(screen[g].hintCount, screen[g], FALSE)]
      /\ asked' = [g \in Groups |-> 0] /\ dismissals' = {} /\ dismissed' = {}
      /\ pending' = IF onlineOnlyMode THEN [g \in Groups |-> <<>>] ELSE pending
      /\ UNCHANGED <<edited, issued, screen, onlineOnlyMode>>
  BY DEF Restart
<1>2. /\ DOMAIN notificationGroups' = DOMAIN screen
      /\ \A g \in DOMAIN screen :
            notificationGroups'[g] = NewGroup(screen[g].hintCount, screen[g], FALSE)
  BY <1>1
<1>3. ASSUME NEW g \in DOMAIN screen
      PROVE  /\ g \in Groups /\ notificationGroups'[g] \in Group
             /\ Mirrors(notificationGroups'[g], "starting", pending'[g], edited')
             /\ notificationGroups'[g].nemoNotification = screen[g]
  <2>1. g \in Groups /\ screen[g] \in Nemo
    BY GroupFacts DEF AreGroups, Group
  <2>2. screen[g].hintCount \in 1..MaxId
    BY <2>1 DEF Nemo
  <2> DEFINE group == NewGroup(screen[g].hintCount, screen[g], FALSE)
  <2>3. /\ group \in Group /\ group.notificationOrder = <<>>
        /\ group.activeNotifications = <<>>
        /\ group.nemoNotification = screen[g] /\ group.connected = FALSE
    BY <2>1, <2>2, NewGroupTyped
  <2>4. notificationGroups'[g] = group
    BY <1>2
  <2> HIDE DEF group
  <2> QED
    BY <2>1, <2>3, <2>4 DEF Mirrors
<1>4. GInv'
  BY <1>1, <1>2, <1>3
  DEF GInv, GroupsTyped, AreGroups, GroupsMirror, GroupsCurrent, OnScreen
<1>5. OthersTyped'
  <2>1. asked' \in [Groups -> 0..MaxAsked]
    BY <1>1, NoneAsked
  <2> QED
    BY <1>1, <2>1 DEF OthersTyped
<1>6. PendingTyped' /\ PendingDisjoint'
  <2>1. CASE onlineOnlyMode
    <3>1. pending' = [g \in Groups |-> <<>>]
      BY <1>1, <2>1
    <3>2. DOMAIN <<>> = {} /\ <<>> \in Seq(Ids)
      OBVIOUS
    <3>3. Range(<<>>) = {}
      BY <3>2 DEF Range
    <3> QED
      BY <1>1, <3>1, <3>2, <3>3 DEF IInv, PendingTyped, PendingDisjoint, Counted
  <2>2. CASE ~onlineOnlyMode
    BY <1>1, <2>2 DEF IInv, PendingTyped, PendingDisjoint
  <2> QED
    BY <2>1, <2>2
<1>7. GroupsActive' /\ LedSound'
  <2>1. ~onlineOnlyMode => pending' = pending
    BY <1>1
  <2> QED
    BY <1>1, <1>2, <2>1, GroupFacts DEF IInv, GroupsActive, Active, LedSound
<1>8. RequestsSound' /\ DismissesWhatWasShown'
  BY <1>1 DEF RequestsSound, DismissesWhatWasShown
<1> QED
  BY <1>4, <1>5, <1>6, <1>7, <1>8 DEF IInv

-----------------------------------------------------------------------------
(***************************************************************************)
(* The theorems                                                            *)
(***************************************************************************)

\* Before the first update there is nothing.
LEMMA InitIInv ==
    ASSUME Init
    PROVE  IInv
<1>1. DOMAIN <<>> = {} /\ <<>> \in Seq(Ids)
  OBVIOUS
<1>2. Range(<<>>) = {}
  BY <1>1 DEF Range
<1>3. PendingTyped /\ PendingDisjoint /\ OthersTyped
  <2>1. PendingTyped /\ PendingDisjoint
    BY <1>1, <1>2, NotificationAssumption
    DEF Init, PendingTyped, PendingDisjoint, Counted
  <2>2. asked \in [Groups -> 0..MaxAsked]
    BY NoneAsked DEF Init
  <2> QED
    BY <2>1, <2>2 DEF Init, OthersTyped
<1>4. GInv /\ GroupsActive /\ LedSound
  BY <1>1 DEF Init, GInv, GroupsTyped, AreGroups, GroupsMirror, GroupsCurrent, OnScreen,
              GroupsActive, LedSound
<1>5. RequestsSound /\ DismissesWhatWasShown
  BY DEF Init, RequestsSound, DismissesWhatWasShown
<1> QED
  BY <1>3, <1>4, <1>5 DEF IInv

\* Every step keeps the invariant.
LEMMA NextIInv ==
    ASSUME IInv, [Next]_vars
    PROVE  IInv'
<1>1. CASE GroupUpdate
  BY <1>1, GroupUpdateStep
<1>2. CASE \E g \in Groups, n \in Ids : handleUpdateNotification(g, n)
  BY <1>2, EditStep
<1>3. CASE handleUpdateActiveNotifications
  BY <1>3, ActiveStep
<1>4. CASE \E g \in Groups : SoundAnswers(g) \/ handleNotificationClosed(g)
  BY <1>4, SoundStep, ClosedStep
<1>5. CASE \E chat \in Chats :
            \/ updateNotificationForChat(chat)
            \/ ChatPhotoChanged(chat)
            \/ handleChatPhotoDownloadingCompletedChanged(chat)
  BY <1>5, ChatStep
<1>6. CASE updateAllNotifications \/ setUseSignalActions
  BY <1>6, SettingsStep
<1>7. CASE \E d \in dismissals : GroupRemoved(d)
  BY <1>7, GroupRemovedStep
<1>8. CASE Restart
  BY <1>8, RestartStep
<1>9. CASE UNCHANGED vars
  BY <1>9
  DEF IInv, PendingTyped, PendingDisjoint, OthersTyped, GInv, GroupsTyped, GroupsMirror,
      GroupsCurrent, OnScreen, GroupsActive, Active, LedSound, RequestsSound,
      DismissesWhatWasShown, vars, appVars, requestVars, tdVars
<1> QED
  BY <1>1, <1>2, <1>3, <1>4, <1>5, <1>6, <1>7, <1>8, <1>9 DEF Next

\* The invariant holds of every state.
LEMMA Invariance == Spec => []IInv
BY InitIInv, NextIInv, PTL DEF Spec

\* Types: every group has a count of 1 to MaxId, also one that is restored
\* from the screen, and every notification is that of a known group.
THEOREM TypeCorrect == Spec => []TypeOK
<1>1. ASSUME IInv PROVE TypeOK
  <2>1. \A g \in DOMAIN notificationGroups :
            /\ notificationGroups[g].totalCount \in 1..MaxId
            /\ notificationGroups[g].nemoNotification \in Nemo
            /\ notificationGroups[g].connected \in BOOLEAN
    BY <1>1, GroupFacts DEF AreGroups, Group
  <2>2. Nemo \subseteq Content
    BY NotificationAssumption DEF Nemo, Content
  <2>3. /\ DOMAIN notificationGroups \subseteq Groups
        /\ DOMAIN screen \subseteq DOMAIN notificationGroups
        /\ \A g \in DOMAIN screen : screen[g] = notificationGroups[g].nemoNotification
    BY <1>1, GroupFacts DEF AreGroups
  <2> QED
    BY <1>1, <2>1, <2>2, <2>3 DEF IInv, OthersTyped, TypeOK
<1> QED
  BY <1>1, Invariance, PTL

\* Nothing is left behind by updateNotificationGroup, by an answer for a sound
\* that comes after the last notification is gone, by a dismissal or by a
\* restart: groups, screen and LED are those of notifications TDLib has.
THEOREM NothingLeft == Spec => []NothingLeftBehind
<1>1. ASSUME IInv PROVE NothingLeftBehind
  <2>1. DOMAIN screen \subseteq DOMAIN notificationGroups
    BY <1>1, GroupFacts
  <2>2. phase = "running" /\ ~onlineOnlyMode =>
            DOMAIN notificationGroups = {g \in Groups : pending[g] # <<>>}
    BY <1>1 DEF IInv, GroupsActive, Active
  <2>3. led => notificationGroups # <<>>
    BY <1>1 DEF IInv, LedSound
  <2> QED
    BY <2>1, <2>2, <2>3 DEF NothingLeftBehind
<1> QED
  BY <1>1, Invariance, PTL

\* The mirror that updateNotificationGroup keeps of a group is exact, in
\* TDLib's order and with TDLib's contents, however updates come.
THEOREM MirrorExact == Spec => []MirrorsTDLib
<1>1. ASSUME IInv PROVE MirrorsTDLib
  <2> SUFFICES ASSUME phase = "running", NEW g \in Groups, pending[g] # <<>>
               PROVE  /\ notificationGroups[g].notificationOrder = pending[g]
                      /\ notificationGroups[g].totalCount = Len(pending[g])
                      /\ notificationGroups[g].activeNotifications =
                            [n \in Range(pending[g]) |-> n \in edited]
    BY DEF MirrorsTDLib
  <2>1. g \in DOMAIN notificationGroups
    BY <1>1 DEF IInv, GroupsActive, Active
  <2> QED
    BY <1>1, <2>1, GroupFacts DEF Mirrors
<1> QED
  BY <1>1, Invariance, PTL

\* publishNotification keeps the screen current: what is shown is the newest
\* notification with its newest content and the number of all of them, except
\* where the user dismissed it or a sound is still asked for.
THEOREM ScreenCurrent == Spec => []ShownIsCurrent
<1>1. ASSUME IInv PROVE ShownIsCurrent
  <2> SUFFICES ASSUME phase = "running", NEW g \in Groups, pending[g] # <<>>,
                      ~(asked[g] > 0), g \notin dismissed
               PROVE  /\ g \in DOMAIN screen
                      /\ screen[g].last = Last(pending[g])
                      /\ screen[g].edited = (Last(pending[g]) \in edited)
                      /\ screen[g].itemCount = Len(pending[g])
    BY DEF ShownIsCurrent
  <2>1. g \in DOMAIN notificationGroups
    BY <1>1 DEF IInv, GroupsActive, Active
  <2>2. asked[g] = 0
    BY <1>1, NotificationAssumption DEF IInv, OthersTyped
  <2>3. /\ g \in DOMAIN screen /\ screen[g] = notificationGroups[g].nemoNotification
        /\ Shows(notificationGroups[g].nemoNotification, pending[g], edited)
    BY <1>1, <2>1, <2>2, GroupFacts
  <2> QED
    BY <2>3, Zenon DEF Shows
<1> QED
  BY <1>1, Invariance, PTL

\* The request that handleNotificationClosed makes names the notification that
\* was on screen, unless a newer one was waiting for its sound.
THEOREM DismissalsExact == Spec => []DismissesWhatWasShown
<1>1. ASSUME IInv PROVE DismissesWhatWasShown
  BY <1>1 DEF IInv
<1> QED
  BY <1>1, Invariance, PTL
=============================================================================
