------------------------- MODULE TDLibSessionProofs -------------------------
(***************************************************************************)
(* Proofs about TDLibSession, for any number of chats, sessions and        *)
(* requests, and whatever the three threads do in between.                 *)
(***************************************************************************)
EXTENDS TDLibSession, ListLemmas

-----------------------------------------------------------------------------
(***************************************************************************)
(* The invariant                                                           *)
(***************************************************************************)

ChatTypes == {"newChat", "newListedChat", "chatAddedToList", "chatRemovedFromList"}
Types == ChatTypes \cup {"response", "WaitTdlibParameters", "AuthorizationReady",
                         "LoggingOut", "Closing", "Closed"}
Docs == [client: Nat, type: Types, arg: Chats \cup Nat]

States == {"created", "started", "waiting", "parameters", "ready", "loggingOut",
           "toClose", "closing", "closed"}

\* What TDLib has sent and the main thread has not handled, oldest first.
Pipeline == events \o received \o stream

SessionTyped ==
    /\ clientId \in Nat
    /\ client \in [Clients -> States]
    /\ events \in Seq(Docs) /\ received \in Seq(Docs) /\ stream \in Seq(Docs)
    /\ Len(received) <= 1
    /\ requests \subseteq [id: Nat, client: Nat]
    /\ nextRequestId \in Nat

\* All clients before the current one are closed, the later ones do not exist
\* yet, nor does the current one until its options are sent.
ClientsInTurn ==
    \A c \in Clients :
        /\ c < clientId => client[c] = "closed"
        /\ c > clientId => client[c] = "created"
        /\ c = clientId => (client[c] = "created"
                            <=> pc \in {"setClientId", "setInitialOptions"})

\* Only answers come from other clients than the current one, and the current
\* one has sent nothing before it is started.
FromCurrent ==
    \A i \in DOMAIN Pipeline :
        Pipeline[i].type # "response" =>
            /\ Pipeline[i].client = clientId
            /\ clientId \in Clients
            /\ client[clientId] # "created"
            /\ Pipeline[i].type = "Closing" => client[clientId] \in {"closing", "closed"}
            /\ Pipeline[i].type = "Closed" => client[clientId] = "closed"

\* After Closing there are no updates of chats, after Closed only answers.
Ordered(p) ==
    \A i, j \in DOMAIN p : i < j =>
        /\ p[i].type = "Closing" => p[j].type \in {"response", "Closed"}
        /\ p[i].type = "Closed" => p[j].type = "response"

Has(p, types) == \E i \in DOMAIN p : p[i].type \in types

\* A client that closes has its Closing on the way, or the data are cleared
\* and nothing fills them again.
ClearedInTime ==
    clientId \in Clients /\ client[clientId] \in {"closing", "closed"} /\ ~isClosing =>
        \/ Has(Pipeline, {"Closing"})
        \/ DOMAIN chats = {} /\ DOMAIN rows = {} /\ ~Has(Pipeline, ChatTypes)

\* The data are those of the current client.
DataCurrent ==
    /\ DOMAIN rows \subseteq DOMAIN chats
    /\ \A chat \in DOMAIN chats : chats[chat] = clientId
    /\ \A chat \in DOMAIN rows : rows[chat] = clientId

\* The receiver filters for the current client, unless it is yet to be told.
FilterCurrent == pc # "setClientId" => receiverClientId = clientId

IInv ==
    /\ SessionTyped /\ ClientsInTurn /\ FilterCurrent
    /\ FromCurrent /\ Ordered(Pipeline)
    /\ ClearedInTime /\ DataCurrent

-----------------------------------------------------------------------------
(***************************************************************************)
(* The pipeline, position by position                                      *)
(***************************************************************************)

\* Three lists, one after the other.
LEMMA ThreeLists ==
    ASSUME NEW S, NEW x \in Seq(S), NEW y \in Seq(S), NEW z \in Seq(S)
    PROVE  /\ x \o y \o z \in Seq(S)
           /\ Len(x \o y \o z) = Len(x) + Len(y) + Len(z)
           /\ \A k \in 1..Len(x) + Len(y) + Len(z) :
                (x \o y \o z)[k] = IF k <= Len(x) THEN x[k]
                                   ELSE IF k <= Len(x) + Len(y) THEN y[k - Len(x)]
                                   ELSE z[k - Len(x) - Len(y)]
<1>1. Len(x) \in Nat /\ Len(y) \in Nat /\ Len(z) \in Nat
  OBVIOUS
<1> DEFINE a == x \o y
<1>2. /\ a \in Seq(S) /\ Len(a) = Len(x) + Len(y)
      /\ \A k \in 1..Len(x) + Len(y) : a[k] = IF k <= Len(x) THEN x[k] ELSE y[k - Len(x)]
  BY ConcatProperties
<1> HIDE DEF a
<1>3. /\ a \o z \in Seq(S) /\ Len(a \o z) = Len(a) + Len(z)
      /\ \A k \in 1..Len(a) + Len(z) : (a \o z)[k] = IF k <= Len(a) THEN a[k] ELSE z[k - Len(a)]
  <2>1. a \in Seq(S)
    BY <1>2
  <2> QED
    BY <2>1, ConcatProperties
<1>4. ASSUME NEW k \in 1..Len(x) + Len(y) + Len(z)
      PROVE  (a \o z)[k] = IF k <= Len(x) THEN x[k]
                           ELSE IF k <= Len(x) + Len(y) THEN y[k - Len(x)]
                           ELSE z[k - Len(x) - Len(y)]
  <2>1. (a \o z)[k] = IF k <= Len(a) THEN a[k] ELSE z[k - Len(a)]
    BY <1>2, <1>3
  <2>2. k \in Int /\ k - Len(a) = k - Len(x) - Len(y)
    BY <1>1, <1>2
  <2>3. CASE k <= Len(a)
    <3>1. k \in 1..Len(x) + Len(y) /\ k <= Len(x) + Len(y)
      BY <1>1, <1>2, <2>3
    <3> QED
      BY <1>2, <2>1, <2>3, <3>1
  <2>4. CASE ~(k <= Len(a))
    <3>1. ~(k <= Len(x) + Len(y)) /\ ~(k <= Len(x))
      BY <1>1, <1>2, <2>2, <2>4
    <3> QED
      BY <2>1, <2>2, <2>4, <3>1
  <2> QED
    BY <2>3, <2>4
<1> QED
  BY <1>1, <1>2, <1>3, <1>4 DEF a

\* q is p with d at its end.
Longer(p, q, d) ==
    /\ DOMAIN p = 1..Len(p) /\ Len(p) \in Nat
    /\ DOMAIN q = 1..Len(p) + 1
    /\ \A k \in 1..Len(p) : q[k] = p[k]
    /\ q[Len(p) + 1] = d

\* q is p without its element at m.
Shorter(p, q, m) ==
    /\ DOMAIN p = 1..Len(p) /\ Len(p) \in Nat /\ m \in 1..Len(p)
    /\ DOMAIN q = 1..Len(p) - 1
    /\ \A k \in 1..Len(p) - 1 : q[k] = p[IF k < m THEN k ELSE k + 1]

\* TDLib sends a document.
LEMMA SentLast ==
    ASSUME SessionTyped, NEW d \in Docs, stream' = Append(stream, d),
           events' = events, received' = received
    PROVE  /\ Longer(Pipeline, Pipeline', d)
           /\ events' \in Seq(Docs) /\ received' \in Seq(Docs) /\ stream' \in Seq(Docs)
<1> DEFINE x == events  y == received  z == stream  w == Append(stream, d)
           a == Len(x)  b == Len(y)  c == Len(z)
<1>1. /\ x \in Seq(Docs) /\ y \in Seq(Docs) /\ z \in Seq(Docs) /\ w \in Seq(Docs)
      /\ Len(w) = c + 1 /\ w[c + 1] = d /\ \A k \in 1..c : w[k] = z[k]
  BY DEF SessionTyped
<1>2. Pipeline = x \o y \o z /\ Pipeline' = x \o y \o w
  BY DEF Pipeline
<1>3. a \in Nat /\ b \in Nat /\ c \in Nat
  BY <1>1
<1> DEFINE p == x \o y \o z  q == x \o y \o w
<1> HIDE DEF x, y, z, w
<1>4. /\ p \in Seq(Docs) /\ Len(p) = a + b + c
      /\ \A k \in 1..a + b + c : p[k] = IF k <= a THEN x[k]
                                        ELSE IF k <= a + b THEN y[k - a] ELSE z[k - a - b]
  BY <1>1, ThreeLists
<1>5. /\ q \in Seq(Docs) /\ Len(q) = a + b + (c + 1)
      /\ \A k \in 1..a + b + (c + 1) : q[k] = IF k <= a THEN x[k]
                                        ELSE IF k <= a + b THEN y[k - a] ELSE w[k - a - b]
  <2>1. /\ q \in Seq(Docs) /\ Len(q) = Len(x) + Len(y) + Len(w)
        /\ \A k \in 1..Len(x) + Len(y) + Len(w) :
            q[k] = IF k <= Len(x) THEN x[k]
                   ELSE IF k <= Len(x) + Len(y) THEN y[k - Len(x)]
                   ELSE w[k - Len(x) - Len(y)]
    <3>1. x \in Seq(Docs) /\ y \in Seq(Docs) /\ w \in Seq(Docs)
      BY <1>1
    <3> QED
      BY <3>1, ThreeLists
  <2> QED
    BY <1>1, <2>1
<1> HIDE DEF p, q, a, b, c
<1>6. ASSUME NEW k \in 1..a + b + c
      PROVE  q[k] = p[k]
  <2>1. k \in 1..a + b + (c + 1) /\ (~(k <= a) /\ ~(k <= a + b) => k - a - b \in 1..c)
    BY <1>3
  <2> QED
    BY <1>1, <1>4, <1>5, <2>1
<1>7. q[a + b + c + 1] = d
  <2> DEFINE k == a + b + c + 1
  <2>1. k \in 1..a + b + (c + 1) /\ ~(k <= a) /\ ~(k <= a + b) /\ k - a - b = c + 1
    BY <1>3
  <2> HIDE DEF k
  <2>2. q[k] = w[c + 1]
    BY <1>5, <2>1
  <2> QED
    BY <1>1, <2>2 DEF k
<1>8. DOMAIN p = 1..a + b + c /\ DOMAIN q = 1..a + b + c + 1
  <2>1. DOMAIN p = 1..Len(p) /\ DOMAIN q = 1..Len(q)
    BY <1>4, <1>5
  <2> QED
    BY <1>3, <1>4, <1>5, <2>1
<1>9. Longer(p, q, d)
  BY <1>3, <1>4, <1>6, <1>7, <1>8 DEF Longer
<1> QED
  BY <1>1, <1>2, <1>9 DEF p, q, x, y, z, w, SessionTyped

\* The receiver takes a document: nothing is lost and nothing overtaken.
LEMMA TakenInOrder ==
    ASSUME SessionTyped, receiverLoop
    PROVE  /\ DOMAIN Pipeline' = DOMAIN Pipeline
           /\ \A k \in DOMAIN Pipeline : Pipeline'[k] = Pipeline[k]
           /\ received' \in Seq(Docs) /\ stream' \in Seq(Docs) /\ Len(received') = 1
<1> DEFINE x == events  z == stream  h == <<Head(stream)>>  t == Tail(stream)
           a == Len(x)  c == Len(z)  e == <<>>
<1>1. /\ events' = x /\ received = e /\ received' = h /\ stream' = t /\ z # <<>>
  BY DEF receiverLoop
<1>2. x \in Seq(Docs) /\ z \in Seq(Docs) /\ e \in Seq(Docs) /\ Len(e) = 0
  BY DEF SessionTyped
<1>3. a \in Nat /\ c \in Nat
  BY <1>2
<1>4. /\ h \in Seq(Docs) /\ Len(h) = 1 /\ h[1] = z[1]
      /\ t \in Seq(Docs) /\ Len(t) = c - 1 /\ \A k \in 1..c - 1 : t[k] = z[k + 1]
      /\ c >= 1
  BY <1>1, <1>2
<1> DEFINE p == x \o e \o z  q == x \o h \o t
<1>5. Pipeline = p /\ Pipeline' = q
  BY <1>1 DEF Pipeline
<1> HIDE DEF x, z, h, t, e
<1>6. /\ p \in Seq(Docs) /\ Len(p) = a + 0 + c
      /\ \A k \in 1..a + 0 + c : p[k] = IF k <= a THEN x[k]
                                        ELSE IF k <= a + 0 THEN e[k - a] ELSE z[k - a - 0]
  BY <1>2, ThreeLists
<1>7. /\ q \in Seq(Docs) /\ Len(q) = a + 1 + (c - 1)
      /\ \A k \in 1..a + 1 + (c - 1) : q[k] = IF k <= a THEN x[k]
                                        ELSE IF k <= a + 1 THEN h[k - a] ELSE t[k - a - 1]
  <2>1. /\ q \in Seq(Docs) /\ Len(q) = Len(x) + Len(h) + Len(t)
        /\ \A k \in 1..Len(x) + Len(h) + Len(t) :
            q[k] = IF k <= Len(x) THEN x[k]
                   ELSE IF k <= Len(x) + Len(h) THEN h[k - Len(x)]
                   ELSE t[k - Len(x) - Len(h)]
    <3>1. x \in Seq(Docs) /\ h \in Seq(Docs) /\ t \in Seq(Docs)
      BY <1>2, <1>4
    <3> QED
      BY <3>1, ThreeLists
  <2> QED
    BY <1>4, <2>1
<1> HIDE DEF p, q, a, c
<1>8. ASSUME NEW k \in 1..a + c
      PROVE  q[k] = p[k]
  <2>1. k \in 1..a + 0 + c /\ k \in 1..a + 1 + (c - 1) /\ k \in Int /\ a + 0 = a
    BY <1>3
  <2>2. CASE k <= a
    BY <1>6, <1>7, <2>1, <2>2
  <2>3. CASE k = a + 1
    <3>1. ~(k <= a) /\ k <= a + 1 /\ k - a = 1 /\ k - a - 0 = 1
      BY <1>3, <2>3
    <3>2. q[k] = h[1] /\ p[k] = z[1]
      BY <1>6, <1>7, <2>1, <3>1
    <3> QED
      BY <1>4, <3>2
  <2>4. CASE k > a + 1
    <3>1. /\ ~(k <= a) /\ ~(k <= a + 1) /\ k - a - 1 \in 1..c - 1
          /\ (k - a - 1) + 1 = k - a - 0
      BY <1>3, <2>1, <2>4
    <3>2. q[k] = t[k - a - 1] /\ p[k] = z[k - a - 0]
      BY <1>6, <1>7, <2>1, <3>1
    <3>3. t[k - a - 1] = z[(k - a - 1) + 1]
      BY <1>4, <3>1
    <3> QED
      BY <3>1, <3>2, <3>3
  <2> QED
    BY <1>3, <2>1, <2>2, <2>3, <2>4
<1>9. DOMAIN p = 1..a + c /\ DOMAIN q = 1..a + c
  <2>1. DOMAIN p = 1..Len(p) /\ DOMAIN q = 1..Len(q)
    BY <1>6, <1>7
  <2> QED
    BY <1>3, <1>6, <1>7, <2>1
<1> QED
  BY <1>1, <1>4, <1>5, <1>8, <1>9

\* The receiver passes a document on or drops it.
LEMMA Processed ==
    ASSUME SessionTyped, processReceivedDocument
    PROVE  /\ events' \in Seq(Docs) /\ received' \in Seq(Docs) /\ Len(received') = 0
           /\ \/ /\ DOMAIN Pipeline' = DOMAIN Pipeline
                 /\ \A k \in DOMAIN Pipeline : Pipeline'[k] = Pipeline[k]
              \/ /\ received[1].client # receiverClientId
                 /\ Shorter(Pipeline, Pipeline', Len(events) + 1)
                 /\ Pipeline[Len(events) + 1] = received[1]
<1> DEFINE x == events  y == received  z == stream  e == <<>>
           w == Append(events, received[1])
           a == Len(x)  c == Len(z)
<1>1. /\ y # <<>> /\ received' = e /\ stream' = z
      /\ events' = IF y[1].client = receiverClientId THEN w ELSE x
  BY DEF processReceivedDocument, tdVars
<1>2. /\ x \in Seq(Docs) /\ z \in Seq(Docs) /\ y \in Seq(Docs) /\ e \in Seq(Docs)
      /\ Len(e) = 0 /\ Len(y) = 1 /\ y[1] \in Docs
  <2>1. x \in Seq(Docs) /\ z \in Seq(Docs) /\ y \in Seq(Docs) /\ Len(y) <= 1
    BY DEF SessionTyped
  <2> HIDE DEF x, y, z
  <2>2. Len(y) = 1
    <3>1. y # <<>>
      BY <1>1
    <3>2. Len(y) \in Nat /\ Len(y) # 0
      BY <2>1, <3>1
    <3> QED
      BY <2>1, <3>2
  <2>3. y[1] \in Docs
    BY <2>1, <2>2
  <2> QED
    BY <2>1, <2>2, <2>3
<1>3. a \in Nat /\ c \in Nat
  BY <1>2
<1>4. w \in Seq(Docs) /\ Len(w) = a + 1 /\ w[a + 1] = y[1] /\ \A k \in 1..a : w[k] = x[k]
  BY <1>2
<1> DEFINE p == x \o y \o z  q == w \o e \o z  r == x \o e \o z
<1>5. Pipeline = p /\ (y[1].client = receiverClientId => Pipeline' = q)
      /\ (y[1].client # receiverClientId => Pipeline' = r)
  BY <1>1 DEF Pipeline
<1> HIDE DEF x, y, z, w, e
<1>6. /\ p \in Seq(Docs) /\ Len(p) = a + 1 + c
      /\ \A k \in 1..a + 1 + c : p[k] = IF k <= a THEN x[k]
                                        ELSE IF k <= a + 1 THEN y[k - a] ELSE z[k - a - 1]
  <2>1. /\ p \in Seq(Docs) /\ Len(p) = Len(x) + Len(y) + Len(z)
        /\ \A k \in 1..Len(x) + Len(y) + Len(z) :
            p[k] = IF k <= Len(x) THEN x[k]
                   ELSE IF k <= Len(x) + Len(y) THEN y[k - Len(x)]
                   ELSE z[k - Len(x) - Len(y)]
    <3>1. x \in Seq(Docs) /\ y \in Seq(Docs) /\ z \in Seq(Docs)
      BY <1>2
    <3> QED
      BY <3>1, ThreeLists
  <2> QED
    BY <1>2, <2>1
<1>7. /\ q \in Seq(Docs) /\ Len(q) = (a + 1) + 0 + c
      /\ \A k \in 1..(a + 1) + 0 + c : q[k] = IF k <= a + 1 THEN w[k]
                                        ELSE IF k <= (a + 1) + 0 THEN e[k - (a + 1)]
                                        ELSE z[k - (a + 1) - 0]
  <2>1. /\ q \in Seq(Docs) /\ Len(q) = Len(w) + Len(e) + Len(z)
        /\ \A k \in 1..Len(w) + Len(e) + Len(z) :
            q[k] = IF k <= Len(w) THEN w[k]
                   ELSE IF k <= Len(w) + Len(e) THEN e[k - Len(w)]
                   ELSE z[k - Len(w) - Len(e)]
    <3>1. w \in Seq(Docs) /\ e \in Seq(Docs) /\ z \in Seq(Docs)
      BY <1>2, <1>4
    <3> QED
      BY <3>1, ThreeLists
  <2> QED
    BY <1>2, <1>4, <2>1
<1>8. /\ r \in Seq(Docs) /\ Len(r) = a + 0 + c
      /\ \A k \in 1..a + 0 + c : r[k] = IF k <= a THEN x[k]
                                        ELSE IF k <= a + 0 THEN e[k - a] ELSE z[k - a - 0]
  <2>1. /\ r \in Seq(Docs) /\ Len(r) = Len(x) + Len(e) + Len(z)
        /\ \A k \in 1..Len(x) + Len(e) + Len(z) :
            r[k] = IF k <= Len(x) THEN x[k]
                   ELSE IF k <= Len(x) + Len(e) THEN e[k - Len(x)]
                   ELSE z[k - Len(x) - Len(e)]
    <3>1. x \in Seq(Docs) /\ e \in Seq(Docs) /\ z \in Seq(Docs)
      BY <1>2
    <3> QED
      BY <3>1, ThreeLists
  <2> QED
    BY <1>2, <2>1
<1> HIDE DEF p, q, r, a, c
<1>9. DOMAIN p = 1..a + c + 1 /\ DOMAIN q = 1..a + c + 1 /\ DOMAIN r = 1..a + c
      /\ Len(p) = a + c + 1
  <2>1. DOMAIN p = 1..Len(p) /\ DOMAIN q = 1..Len(q) /\ DOMAIN r = 1..Len(r)
    BY <1>6, <1>7, <1>8
  <2> QED
    BY <1>3, <1>6, <1>7, <1>8, <2>1
<1>10. ASSUME NEW k \in 1..a + c + 1
       PROVE  q[k] = p[k]
  <2>1. k \in 1..a + 1 + c /\ k \in 1..(a + 1) + 0 + c /\ k \in Int /\ (a + 1) + 0 = a + 1
    BY <1>3
  <2>2. CASE k <= a
    <3>1. k \in 1..a /\ k <= a + 1
      BY <1>3, <2>1, <2>2
    <3> QED
      BY <1>4, <1>6, <1>7, <2>1, <2>2, <3>1
  <2>3. CASE k = a + 1
    <3>1. ~(k <= a) /\ k <= a + 1 /\ k - a = 1
      BY <1>3, <2>3
    <3>2. q[k] = w[a + 1] /\ p[k] = y[1]
      BY <1>6, <1>7, <2>1, <2>3, <3>1
    <3> QED
      BY <1>4, <3>2
  <2>4. CASE k > a + 1
    <3>1. ~(k <= a) /\ ~(k <= a + 1) /\ k - (a + 1) - 0 = k - a - 1
      BY <1>3, <2>1, <2>4
    <3>2. q[k] = z[k - (a + 1) - 0] /\ p[k] = z[k - a - 1]
      BY <1>6, <1>7, <2>1, <3>1
    <3> QED
      BY <3>1, <3>2
  <2> QED
    BY <1>3, <2>1, <2>2, <2>3, <2>4
<1>11. ASSUME NEW k \in 1..a + c
       PROVE  r[k] = p[IF k < a + 1 THEN k ELSE k + 1]
  <2>1. k \in 1..a + 0 + c /\ k \in Int /\ a + 0 = a
    BY <1>3
  <2>2. CASE k < a + 1
    <3>1. k <= a /\ k \in 1..a + 1 + c
      BY <1>3, <2>1, <2>2
    <3> QED
      BY <1>6, <1>8, <2>1, <2>2, <3>1
  <2>3. CASE ~(k < a + 1)
    <3>1. /\ ~(k <= a) /\ ~(k + 1 <= a) /\ ~(k + 1 <= a + 1) /\ k + 1 \in 1..a + 1 + c
          /\ (k + 1) - a - 1 = k - a - 0
      BY <1>3, <2>1, <2>3
    <3>2. r[k] = z[k - a - 0] /\ p[k + 1] = z[(k + 1) - a - 1]
      BY <1>6, <1>8, <2>1, <3>1
    <3> QED
      BY <2>3, <3>1, <3>2
  <2> QED
    BY <2>2, <2>3
<1>12. p[a + 1] = y[1]
  <2>1. a + 1 \in 1..a + 1 + c /\ ~(a + 1 <= a) /\ a + 1 <= a + 1 /\ (a + 1) - a = 1
    BY <1>3
  <2> QED
    BY <1>6, <2>1
<1>13. Shorter(p, r, a + 1)
  <2>1. a + 1 \in 1..Len(p) /\ Len(p) \in Nat /\ Len(p) - 1 = a + c
    BY <1>3, <1>9
  <2> QED
    BY <1>9, <1>11, <2>1 DEF Shorter
<1>14. CASE y[1].client = receiverClientId
  BY <1>1, <1>2, <1>4, <1>5, <1>9, <1>10, <1>14
<1>15. CASE y[1].client # receiverClientId
  BY <1>1, <1>2, <1>5, <1>12, <1>13, <1>15 DEF a, x, y
<1> QED
  BY <1>14, <1>15

\* The main thread handles the oldest event.
LEMMA HandledFirst ==
    ASSUME SessionTyped, events # <<>>, events' = Tail(events),
           received' = received, stream' = stream
    PROVE  /\ Shorter(Pipeline, Pipeline', 1)
           /\ Pipeline[1] = Head(events) /\ Head(events) \in Docs
           /\ events' \in Seq(Docs)
<1> DEFINE x == events  y == received  z == stream  t == Tail(events)
           a == Len(x)  b == Len(y) + Len(z)
           p == x \o y \o z  q == t \o y \o z
<1>1. x \in Seq(Docs) /\ y \in Seq(Docs) /\ z \in Seq(Docs) /\ x # <<>>
  BY DEF SessionTyped
<1>2. /\ a \in Nat /\ a >= 1 /\ Len(y) \in Nat /\ Len(z) \in Nat /\ b \in Nat
      /\ Head(x) = x[1] /\ x[1] \in Docs
  BY <1>1
<1>3. t \in Seq(Docs) /\ Len(t) = a - 1 /\ \A k \in 1..a - 1 : t[k] = x[k + 1]
  BY <1>1
<1>4. Pipeline = p /\ Pipeline' = q
  BY DEF Pipeline
<1> HIDE DEF x, y, z, t
<1>5. /\ p \in Seq(Docs) /\ Len(p) = a + Len(y) + Len(z)
      /\ \A k \in 1..a + Len(y) + Len(z) :
            p[k] = IF k <= a THEN x[k]
                   ELSE IF k <= a + Len(y) THEN y[k - a] ELSE z[k - a - Len(y)]
  BY <1>1, ThreeLists
<1>6. /\ q \in Seq(Docs) /\ Len(q) = (a - 1) + Len(y) + Len(z)
      /\ \A k \in 1..(a - 1) + Len(y) + Len(z) :
            q[k] = IF k <= a - 1 THEN t[k]
                   ELSE IF k <= (a - 1) + Len(y) THEN y[k - (a - 1)]
                   ELSE z[k - (a - 1) - Len(y)]
  <2>1. /\ q \in Seq(Docs) /\ Len(q) = Len(t) + Len(y) + Len(z)
        /\ \A k \in 1..Len(t) + Len(y) + Len(z) :
            q[k] = IF k <= Len(t) THEN t[k]
                   ELSE IF k <= Len(t) + Len(y) THEN y[k - Len(t)]
                   ELSE z[k - Len(t) - Len(y)]
    <3>1. t \in Seq(Docs) /\ y \in Seq(Docs) /\ z \in Seq(Docs)
      BY <1>1, <1>3
    <3> QED
      BY <3>1, ThreeLists
  <2> QED
    BY <1>3, <2>1
<1> DEFINE l == Len(y)  m == Len(z)
<1> HIDE DEF p, q, a
<1>7. DOMAIN p = 1..a + l + m /\ DOMAIN q = 1..(a + l + m) - 1 /\ a + l + m \in Nat
      /\ 1 \in 1..a + l + m /\ Len(p) = a + l + m
  <2>1. DOMAIN p = 1..Len(p) /\ DOMAIN q = 1..Len(q)
    BY <1>5, <1>6
  <2> QED
    BY <1>2, <1>5, <1>6, <2>1
<1>8. ASSUME NEW k \in 1..(a + l + m) - 1
      PROVE  q[k] = p[IF k < 1 THEN k ELSE k + 1]
  <2>1. /\ ~(k < 1) /\ k \in 1..(a - 1) + l + m /\ k + 1 \in 1..a + l + m /\ k \in Int
        /\ (k <= a - 1 <=> k + 1 <= a) /\ (k <= (a - 1) + l <=> k + 1 <= a + l)
        /\ k - (a - 1) = (k + 1) - a /\ k - (a - 1) - l = (k + 1) - a - l
        /\ (k <= a - 1 => k \in 1..a - 1)
    BY <1>2, <1>7
  <2>2. p[k + 1] = IF k + 1 <= a THEN x[k + 1]
                   ELSE IF k + 1 <= a + l THEN y[(k + 1) - a] ELSE z[(k + 1) - a - l]
    BY <1>5, <2>1
  <2>3. q[k] = IF k <= a - 1 THEN t[k]
               ELSE IF k <= (a - 1) + l THEN y[k - (a - 1)] ELSE z[k - (a - 1) - l]
    BY <1>6, <2>1
  <2>4. k <= a - 1 => t[k] = x[k + 1]
    BY <1>3, <2>1
  <2> HIDE DEF l, m
  <2> QED
    BY <2>1, <2>2, <2>3, <2>4
<1>9. p[1] = x[1]
  <2>1. 1 <= a /\ 1 \in 1..a + l + m
    BY <1>2, <1>7
  <2> QED
    BY <1>5, <2>1
<1>10. Shorter(p, q, 1)
  BY <1>7, <1>8 DEF Shorter
<1> QED
  BY <1>2, <1>3, <1>4, <1>9, <1>10 DEF x, t

\* What a longer pipeline holds, and when it is still in order.
LEMMA LongerHolds ==
    ASSUME NEW p, NEW q, NEW d, Longer(p, q, d)
    PROVE  /\ \A k \in DOMAIN q : q[k] = d \/ \E i \in DOMAIN p : q[k] = p[i]
           /\ \A i \in DOMAIN p : \E k \in DOMAIN q : q[k] = p[i]
           /\ \E k \in DOMAIN q : q[k] = d
           /\ Ordered(p) /\ (d.type # "response" => ~Has(p, {"Closed"}))
                /\ (d.type \notin {"response", "Closed"} => ~Has(p, {"Closing"}))
                => Ordered(q)
<1>1. /\ DOMAIN p = 1..Len(p) /\ Len(p) \in Nat /\ DOMAIN q = 1..Len(p) + 1
      /\ \A k \in 1..Len(p) : q[k] = p[k]
      /\ q[Len(p) + 1] = d
  BY DEF Longer
<1> DEFINE n == Len(p)
<1> HIDE DEF n
<1>2. /\ DOMAIN p = 1..n /\ n \in Nat /\ DOMAIN q = 1..n + 1
      /\ (\A k \in 1..n : q[k] = p[k]) /\ q[n + 1] = d
  BY <1>1 DEF n
<1>3. \A k \in 1..n + 1 : k = n + 1 \/ k \in 1..n
  BY <1>2
<1>4. n + 1 \in 1..n + 1 /\ \A k \in 1..n : k \in 1..n + 1
  BY <1>2
<1>5. ASSUME Ordered(p), d.type # "response" => ~Has(p, {"Closed"}),
             d.type \notin {"response", "Closed"} => ~Has(p, {"Closing"}),
             NEW i \in DOMAIN q, NEW j \in DOMAIN q, i < j
      PROVE  /\ q[i].type = "Closing" => q[j].type \in {"response", "Closed"}
             /\ q[i].type = "Closed" => q[j].type = "response"
  <2>1. i \in 1..n
    BY <1>2, <1>5
  <2>2. CASE j = n + 1
    BY <1>2, <1>5, <2>1, <2>2 DEF Has
  <2>3. CASE j \in 1..n
    BY <1>2, <1>5, <2>1, <2>3 DEF Ordered
  <2> QED
    BY <1>2, <1>3, <2>2, <2>3
<1>6. Ordered(p) /\ (d.type # "response" => ~Has(p, {"Closed"}))
        /\ (d.type \notin {"response", "Closed"} => ~Has(p, {"Closing"}))
        => Ordered(q)
  BY <1>5 DEF Ordered
<1> QED
  BY <1>2, <1>3, <1>4, <1>6

\* The same for a shorter one.
LEMMA ShorterHolds ==
    ASSUME NEW p, NEW q, NEW m, Shorter(p, q, m)
    PROVE  /\ m \in DOMAIN p
           /\ \A k \in DOMAIN q : \E i \in DOMAIN p : i # m /\ i >= k /\ q[k] = p[i]
           /\ \A i \in DOMAIN p : i # m => \E k \in DOMAIN q : q[k] = p[i]
           /\ Ordered(p) => Ordered(q)
<1> DEFINE n == Len(p)
<1> HIDE DEF n
<1>1. /\ DOMAIN p = 1..n /\ n \in Nat /\ m \in 1..n /\ DOMAIN q = 1..n - 1
      /\ \A k \in 1..n - 1 : q[k] = p[IF k < m THEN k ELSE k + 1]
  BY DEF Shorter, n
<1> DEFINE at(k) == IF k < m THEN k ELSE k + 1
<1>2. \A k \in 1..n - 1 : at(k) \in 1..n /\ at(k) # m /\ at(k) >= k
  BY <1>1
<1>3. \A i, j \in 1..n - 1 : i < j => at(i) < at(j)
  BY <1>1
<1>4. \A k \in 1..n - 1 : q[k] = p[at(k)]
  BY <1>1
<1>5. ASSUME NEW i \in 1..n, i # m
      PROVE  \E k \in 1..n - 1 : at(k) = i
  <2>1. CASE i < m
    <3>1. i \in 1..n - 1 /\ at(i) = i
      BY <1>1, <2>1
    <3> QED
      BY <3>1
  <2>2. CASE i > m
    <3>1. i - 1 \in 1..n - 1 /\ at(i - 1) = i
      BY <1>1, <2>2
    <3> QED
      BY <3>1
  <2> QED
    BY <1>1, <1>5, <2>1, <2>2
<1> HIDE DEF at
<1>6. Ordered(p) => Ordered(q)
  BY <1>1, <1>2, <1>3, <1>4 DEF Ordered
<1>7. \A i \in DOMAIN p : i # m => \E k \in DOMAIN q : q[k] = p[i]
  BY <1>1, <1>4, <1>5
<1>8. \A k \in DOMAIN q : \E i \in DOMAIN p : i # m /\ i >= k /\ q[k] = p[i]
  BY <1>1, <1>2, <1>4
<1> QED
  BY <1>1, <1>6, <1>7, <1>8

-----------------------------------------------------------------------------
(***************************************************************************)
(* The steps of TDLib                                                      *)
(***************************************************************************)

\* A client goes on to its next state and says so.
LEMMA AuthorizationStep ==
    ASSUME IInv, NEW c \in Clients, Authorization(c)
    PROVE  IInv'
<1>1. /\ UNCHANGED <<clientId, isClosing, pc, chats, rows, events, received, receiverClientId,
                     requests, nextRequestId>>
  BY DEF Authorization, wrapperVars, responseVars, dataVars, receiverVars
<1>2. PICK st \in States, type \in Types \ (ChatTypes \cup {"response"}) :
        /\ client[c] \notin {"created", "closed"} /\ st # "created"
        /\ client' = [client EXCEPT ![c] = st]
        /\ stream' = Append(stream, Doc(c, type, 0))
        /\ type \in {"Closing", "Closed"} => client[c] # "closed"
        /\ type # "Closed" => client[c] # "closing"
        /\ type = "Closing" <=> st = "closing"
        /\ type = "Closed" <=> st = "closed"
  <2> USE DEF Authorization, Send, States, Types, ChatTypes
  <2>1. CASE client[c] = "started" /\ client' = [client EXCEPT ![c] = "waiting"]
             /\ Send(c, "WaitTdlibParameters", 0)
    BY <2>1
  <2>2. CASE client[c] = "parameters" /\ client' = [client EXCEPT ![c] = "ready"]
             /\ Send(c, "AuthorizationReady", 0)
    BY <2>2
  <2>3. CASE client[c] = "ready" /\ client' = [client EXCEPT ![c] = "loggingOut"]
             /\ Send(c, "LoggingOut", 0)
    BY <2>3
  <2>4. CASE client[c] \in {"ready", "loggingOut", "toClose"}
             /\ client' = [client EXCEPT ![c] = "closing"] /\ Send(c, "Closing", 0)
    BY <2>4
  <2>5. CASE client[c] = "closing" /\ client' = [client EXCEPT ![c] = "closed"]
             /\ Send(c, "Closed", 0)
    BY <2>5
  <2> QED
    BY <2>1, <2>2, <2>3, <2>4, <2>5
<1> DEFINE d == Doc(c, type, 0)
<1>3. /\ clientId \in Nat /\ c \in Nat /\ client \in [Clients -> States]
      /\ client' \in [Clients -> States] /\ client'[c] = st
      /\ \A b \in Clients : b # c => client'[b] = client[b]
  BY <1>2, SessionAssumption DEF IInv, SessionTyped, Clients
<1>4. c = clientId
  BY <1>2, <1>3 DEF IInv, ClientsInTurn
<1>5. d \in Docs /\ d.type = type /\ d.client = c
  BY <1>2, <1>3 DEF Doc, Docs
<1> DEFINE p == Pipeline  q == Pipeline'
<1>6. Longer(p, q, d) /\ SessionTyped'
  <2>1. SessionTyped
    BY DEF IInv
  <2>2. stream' = Append(stream, d)
    BY <1>2
  <2> HIDE DEF d
  <2> QED
    BY <1>1, <1>3, <1>5, <2>1, <2>2, SentLast DEF SessionTyped
<1> HIDE DEF d, p, q
<1>7. /\ \A k \in DOMAIN q : q[k] = d \/ \E i \in DOMAIN p : q[k] = p[i]
      /\ \A i \in DOMAIN p : \E k \in DOMAIN q : q[k] = p[i]
      /\ \E k \in DOMAIN q : q[k] = d
      /\ Ordered(p) /\ (d.type # "response" => ~Has(p, {"Closed"}))
           /\ (d.type \notin {"response", "Closed"} => ~Has(p, {"Closing"}))
           => Ordered(q)
  BY <1>6, LongerHolds
<1>8. \A i \in DOMAIN p : p[i].type # "response" =>
        /\ p[i].client = clientId
        /\ p[i].type = "Closing" => client[c] \in {"closing", "closed"}
        /\ p[i].type = "Closed" => client[c] = "closed"
  BY <1>4 DEF IInv, FromCurrent, p
<1>9. Ordered(q)
  <2>1. ~Has(p, {"Closed"})
    BY <1>2, <1>8 DEF Has
  <2>2. type # "Closed" => ~Has(p, {"Closing"})
    BY <1>2, <1>8 DEF Has
  <2>3. Ordered(p)
    BY DEF IInv, p
  <2> QED
    BY <1>5, <1>7, <2>1, <2>2, <2>3
<1>10. ClientsInTurn' /\ FilterCurrent' /\ DataCurrent'
  BY <1>1, <1>2, <1>3, <1>4 DEF IInv, ClientsInTurn, FilterCurrent, DataCurrent
<1>11. FromCurrent'
  <2> SUFFICES ASSUME NEW k \in DOMAIN q, q[k].type # "response"
               PROVE  /\ q[k].client = clientId
                      /\ q[k].type = "Closing" => st \in {"closing", "closed"}
                      /\ q[k].type = "Closed" => st = "closed"
    BY <1>1, <1>2, <1>3, <1>4 DEF FromCurrent, q
  <2>1. CASE q[k] = d
    BY <1>2, <1>4, <1>5, <2>1
  <2>2. CASE \E i \in DOMAIN p : q[k] = p[i]
    <3>1. PICK i \in DOMAIN p : q[k] = p[i]
      BY <2>2
    <3> QED
      BY <1>2, <1>8, <3>1
  <2> QED
    BY <1>7, <2>1, <2>2
<1>12. ClearedInTime'
  <2> SUFFICES ASSUME st \in {"closing", "closed"}, ~isClosing
               PROVE  \/ Has(q, {"Closing"})
                      \/ DOMAIN chats = {} /\ DOMAIN rows = {} /\ ~Has(q, ChatTypes)
    BY <1>1, <1>3, <1>4 DEF ClearedInTime, q
  <2>1. CASE type = "Closing"
    BY <1>5, <1>7, <2>1 DEF Has
  <2>2. CASE type = "Closed"
    <3>1. client[c] = "closing"
      BY <1>2, <2>2, <1>1 DEF Authorization, Send, Doc
    <3>2. \/ Has(p, {"Closing"})
          \/ DOMAIN chats = {} /\ DOMAIN rows = {} /\ ~Has(p, ChatTypes)
      BY <1>4, <3>1 DEF IInv, ClearedInTime, p
    <3>3. CASE Has(p, {"Closing"})
      BY <1>7, <3>3 DEF Has
    <3>4. CASE ~Has(p, {"Closing"})
      <4>1. d.type \notin ChatTypes
        BY <1>5, <2>2 DEF ChatTypes
      <4> QED
        BY <1>7, <3>2, <3>4, <4>1 DEF Has
    <3> QED
      BY <3>3, <3>4
  <2> QED
    BY <1>2, <2>1, <2>2
<1> QED
  BY <1>6, <1>9, <1>10, <1>11, <1>12 DEF IInv, q

\* TDLib sends an answer, or an update of a chat by the current client.
LEMMA SendStep ==
    ASSUME IInv, NEW d \in Docs, stream' = Append(stream, d),
           \/ d.type = "response"
           \/ /\ d.type \in ChatTypes /\ d.client = clientId
              /\ clientId \in Clients /\ client[clientId] \in {"ready", "loggingOut"},
           requests' \subseteq requests,
           UNCHANGED <<clientId, isClosing, pc, chats, rows, events, received,
                       receiverClientId, nextRequestId, client>>
    PROVE  IInv'
<1> DEFINE p == Pipeline  q == Pipeline'
<1>1. Longer(p, q, d) /\ SessionTyped'
  <2>1. SessionTyped
    BY DEF IInv
  <2> QED
    BY <2>1, SentLast DEF SessionTyped
<1> HIDE DEF p, q
<1>2. /\ \A k \in DOMAIN q : q[k] = d \/ \E i \in DOMAIN p : q[k] = p[i]
      /\ \A i \in DOMAIN p : \E k \in DOMAIN q : q[k] = p[i]
      /\ Ordered(p) /\ (d.type # "response" => ~Has(p, {"Closed"}))
           /\ (d.type \notin {"response", "Closed"} => ~Has(p, {"Closing"}))
           => Ordered(q)
  BY <1>1, LongerHolds
<1>3. \A i \in DOMAIN p : p[i].type # "response" =>
        /\ p[i].client = clientId /\ clientId \in Clients /\ client[clientId] # "created"
        /\ p[i].type = "Closing" => client[clientId] \in {"closing", "closed"}
        /\ p[i].type = "Closed" => client[clientId] = "closed"
  BY DEF IInv, FromCurrent, p
<1>4. Ordered(q)
  <2>1. d.type # "response" => ~Has(p, {"Closed"}) /\ ~Has(p, {"Closing"})
    BY <1>3 DEF Has
  <2>2. Ordered(p)
    BY DEF IInv, p
  <2> QED
    BY <1>2, <2>1, <2>2
<1>5. ClientsInTurn' /\ FilterCurrent' /\ DataCurrent'
  BY DEF IInv, ClientsInTurn, FilterCurrent, DataCurrent
<1>6. FromCurrent'
  <2> SUFFICES ASSUME NEW k \in DOMAIN q, q[k].type # "response"
               PROVE  /\ q[k].client = clientId /\ clientId \in Clients
                      /\ client[clientId] # "created"
                      /\ q[k].type = "Closing" => client[clientId] \in {"closing", "closed"}
                      /\ q[k].type = "Closed" => client[clientId] = "closed"
    BY DEF FromCurrent, q
  <2>1. CASE q[k] = d
    BY <2>1 DEF ChatTypes
  <2>2. CASE \E i \in DOMAIN p : q[k] = p[i]
    BY <1>3, <2>2
  <2> QED
    BY <1>2, <2>1, <2>2
<1>7. ClearedInTime'
  <2> SUFFICES ASSUME clientId \in Clients, client[clientId] \in {"closing", "closed"},
                      ~isClosing
               PROVE  \/ Has(q, {"Closing"})
                      \/ DOMAIN chats = {} /\ DOMAIN rows = {} /\ ~Has(q, ChatTypes)
    BY DEF ClearedInTime, q
  <2>1. d.type = "response"
    OBVIOUS
  <2>2. \/ Has(p, {"Closing"})
        \/ DOMAIN chats = {} /\ DOMAIN rows = {} /\ ~Has(p, ChatTypes)
    BY DEF IInv, ClearedInTime, p
  <2>3. CASE Has(p, {"Closing"})
    BY <1>2, <2>3 DEF Has
  <2>4. CASE ~Has(p, {"Closing"})
    <3>1. d.type \notin ChatTypes
      BY <2>1 DEF ChatTypes
    <3> QED
      BY <1>2, <2>2, <2>4, <3>1 DEF Has
  <2> QED
    BY <2>3, <2>4
<1> QED
  BY <1>1, <1>4, <1>5, <1>6, <1>7 DEF IInv, q

\* A client that lives announces chats and lists them.
LEMMA ChatUpdateStep ==
    ASSUME IInv, NEW c \in Clients, NEW chat \in Chats, ChatUpdate(c, chat)
    PROVE  IInv'
<1>1. PICK type \in ChatTypes : stream' = Append(stream, Doc(c, type, chat))
  BY DEF ChatUpdate, Send, ChatTypes
<1>2. /\ client[c] \in {"ready", "loggingOut"} /\ requests' = requests
      /\ UNCHANGED <<clientId, isClosing, pc, chats, rows, events, received,
                     receiverClientId, nextRequestId, client>>
  BY DEF ChatUpdate, Live, wrapperVars, responseVars, dataVars, receiverVars
<1>3. c \in Nat /\ clientId \in Nat
  BY SessionAssumption DEF IInv, SessionTyped, Clients
<1>4. c = clientId
  BY <1>2, <1>3 DEF IInv, ClientsInTurn
<1> DEFINE d == Doc(c, type, chat)
<1>5. d \in Docs /\ d.type \in ChatTypes /\ d.client = clientId
  BY <1>3, <1>4 DEF Doc, Docs, Types
<1>6. stream' = Append(stream, d)
  BY <1>1
<1> HIDE DEF d
<1> QED
  BY <1>2, <1>4, <1>5, <1>6, SendStep

\* Requests are answered at any time, also by a closed client.
LEMMA AnswerStep ==
    ASSUME IInv, NEW r \in requests, Answer(r)
    PROVE  IInv'
<1> DEFINE d == Doc(r.client, "response", r.id)
<1>1. d \in Docs /\ d.type = "response"
  BY DEF IInv, SessionTyped, Doc, Docs, Types
<1>2. /\ stream' = Append(stream, d) /\ requests' \subseteq requests
      /\ UNCHANGED <<clientId, isClosing, pc, chats, rows, events, received,
                     receiverClientId, nextRequestId, client>>
  BY DEF Answer, Send, wrapperVars, responseVars, dataVars, receiverVars
<1> HIDE DEF d
<1> QED
  BY <1>1, <1>2, SendStep

-----------------------------------------------------------------------------
(***************************************************************************)
(* The steps of the receiver                                               *)
(***************************************************************************)

\* The receiver drops nothing but answers.
LEMMA DropsAnswers ==
    ASSUME IInv, received # <<>>, received[1].client # receiverClientId
    PROVE  received[1].type = "response"
<1> DEFINE n == Len(events) + 1
<1>1. n \in DOMAIN Pipeline /\ Pipeline[n] = received[1]
  <2> DEFINE x == events  y == received  z == stream  a == Len(x)  b == Len(y)  c == Len(z)
             p == x \o y \o z
  <2>1. x \in Seq(Docs) /\ y \in Seq(Docs) /\ z \in Seq(Docs) /\ y # <<>> /\ Pipeline = p
    BY DEF IInv, SessionTyped, Pipeline
  <2>2. a \in Nat /\ b \in Nat /\ b # 0 /\ c \in Nat
    BY <2>1
  <2> HIDE DEF x, y, z
  <2>3. /\ p \in Seq(Docs) /\ Len(p) = a + b + c
        /\ \A k \in 1..a + b + c : p[k] = IF k <= a THEN x[k]
                                          ELSE IF k <= a + b THEN y[k - a] ELSE z[k - a - b]
    BY <2>1, ThreeLists
  <2> HIDE DEF p, a, b, c
  <2>4. DOMAIN p = 1..a + b + c
    <3>1. DOMAIN p = 1..Len(p)
      BY <2>3
    <3> QED
      BY <2>3, <3>1
  <2>5. a + 1 \in 1..a + b + c /\ ~(a + 1 <= a) /\ a + 1 <= a + b /\ (a + 1) - a = 1
    BY <2>2
  <2>6. p[a + 1] = y[1]
    BY <2>3, <2>5
  <2> QED
    BY <2>1, <2>4, <2>5, <2>6 DEF a, x, y
<1> HIDE DEF n
<1>2. CASE pc = "setClientId"
  <2>1. clientId \in Clients => client[clientId] = "created"
    BY <1>2 DEF IInv, ClientsInTurn
  <2> QED
    BY <1>1, <2>1 DEF IInv, FromCurrent
<1>3. CASE pc # "setClientId"
  <2>1. receiverClientId = clientId
    BY <1>3 DEF IInv, FilterCurrent
  <2> QED
    BY <1>1, <2>1 DEF IInv, FromCurrent
<1> QED
  BY <1>2, <1>3

\* A pipeline without one of its answers, or the same one.
LEMMA ReceiverStep ==
    ASSUME IInv, Receiver
    PROVE  IInv'
<1>1. /\ UNCHANGED <<clientId, isClosing, pc, chats, rows, receiverClientId, requests,
                     nextRequestId, client>>
  BY DEF Receiver, receiverLoop, processReceivedDocument,
         wrapperVars, responseVars, dataVars, tdVars
<1> DEFINE p == Pipeline  q == Pipeline'
<1>2. SessionTyped
  BY DEF IInv
<1>3. /\ \A k \in DOMAIN q : \E i \in DOMAIN p : q[k] = p[i]
      /\ \A i \in DOMAIN p : p[i].type = "response" \/ \E k \in DOMAIN q : q[k] = p[i]
      /\ Ordered(q) /\ SessionTyped'
  <2>1. CASE receiverLoop
    <3>1. /\ DOMAIN q = DOMAIN p /\ \A k \in DOMAIN p : q[k] = p[k]
          /\ received' \in Seq(Docs) /\ stream' \in Seq(Docs) /\ Len(received') = 1
      BY <1>2, <2>1, TakenInOrder
    <3>2. events' = events
      BY <2>1 DEF receiverLoop
    <3>3. Ordered(p)
      BY DEF IInv
    <3> HIDE DEF p, q
    <3> QED
      BY <1>1, <1>2, <3>1, <3>2, <3>3 DEF Ordered, SessionTyped
  <2>2. CASE processReceivedDocument
    <3>1. /\ events' \in Seq(Docs) /\ received' \in Seq(Docs) /\ Len(received') = 0
          /\ \/ DOMAIN q = DOMAIN p /\ \A k \in DOMAIN p : q[k] = p[k]
             \/ /\ received[1].client # receiverClientId
                /\ Shorter(p, q, Len(events) + 1)
                /\ p[Len(events) + 1] = received[1]
      BY <1>2, <2>2, Processed
    <3>2. received # <<>> /\ stream' = stream
      BY <2>2 DEF processReceivedDocument, tdVars
    <3>3. Ordered(p)
      BY DEF IInv
    <3>4. SessionTyped'
      BY <1>1, <1>2, <3>1, <3>2 DEF SessionTyped
    <3> HIDE DEF p, q
    <3>5. CASE DOMAIN q = DOMAIN p /\ \A k \in DOMAIN p : q[k] = p[k]
      BY <3>3, <3>4, <3>5 DEF Ordered
    <3>6. CASE /\ received[1].client # receiverClientId
               /\ Shorter(p, q, Len(events) + 1)
               /\ p[Len(events) + 1] = received[1]
      <4> DEFINE m == Len(events) + 1
      <4>1. p[m].type = "response" /\ Shorter(p, q, m)
        BY <3>2, <3>6, DropsAnswers
      <4> HIDE DEF m
      <4>2. /\ \A k \in DOMAIN q : \E i \in DOMAIN p : i # m /\ i >= k /\ q[k] = p[i]
            /\ \A i \in DOMAIN p : i # m => \E k \in DOMAIN q : q[k] = p[i]
            /\ Ordered(p) => Ordered(q)
        BY <4>1, ShorterHolds
      <4> QED
        BY <3>3, <3>4, <4>1, <4>2
    <3> QED
      BY <3>1, <3>5, <3>6
  <2> QED
    BY <2>1, <2>2 DEF Receiver
<1> HIDE DEF p, q
<1>4. ClientsInTurn' /\ FilterCurrent' /\ DataCurrent'
  BY <1>1 DEF IInv, ClientsInTurn, FilterCurrent, DataCurrent
<1>5. FromCurrent'
  BY <1>1, <1>3 DEF IInv, FromCurrent, p, q
<1>6. ClearedInTime'
  <2>1. Has(p, {"Closing"}) => Has(q, {"Closing"})
    BY <1>3 DEF Has
  <2>2. ~Has(p, ChatTypes) => ~Has(q, ChatTypes)
    BY <1>3 DEF Has
  <2> QED
    BY <1>1, <2>1, <2>2 DEF IInv, ClearedInTime, p, q
<1> QED
  BY <1>3, <1>4, <1>5, <1>6 DEF IInv, q

-----------------------------------------------------------------------------
(***************************************************************************)
(* The steps of the main thread                                            *)
(***************************************************************************)

\* The event that is handled was the oldest document; the others stay.
LEMMA EventTaken ==
    ASSUME IInv, HandleEvent
    PROVE  LET e == Head(events)
           IN  /\ e \in Docs /\ 1 \in DOMAIN Pipeline /\ Pipeline[1] = e
               /\ \A k \in DOMAIN Pipeline' :
                    \E i \in DOMAIN Pipeline : i > 1 /\ Pipeline'[k] = Pipeline[i]
               /\ \A i \in DOMAIN Pipeline : i # 1 =>
                    \E k \in DOMAIN Pipeline' : Pipeline'[k] = Pipeline[i]
               /\ Ordered(Pipeline')
               /\ e.type = "Closing" => ~Has(Pipeline', ChatTypes \cup {"Closing"})
               /\ e.type = "Closed" =>
                    \A k \in DOMAIN Pipeline' : Pipeline'[k].type = "response"
               /\ e.type # "response" =>
                    /\ e.client = clientId /\ clientId \in Clients
                    /\ client[clientId] # "created"
                    /\ e.type = "Closed" => client[clientId] = "closed"
               /\ events' \in Seq(Docs)
<1> DEFINE e == Head(events)  p == Pipeline  q == Pipeline'
<1>1. /\ SessionTyped /\ events # <<>> /\ events' = Tail(events)
      /\ received' = received /\ stream' = stream
  BY DEF IInv, HandleEvent
<1>2. Shorter(p, q, 1) /\ p[1] = e /\ e \in Docs /\ events' \in Seq(Docs)
  BY <1>1, HandledFirst
<1>3. Ordered(p)
  BY DEF IInv
<1>4. /\ e.type # "response" =>
        /\ e.client = clientId /\ clientId \in Clients /\ client[clientId] # "created"
        /\ e.type = "Closed" => client[clientId] = "closed"
  <2>1. 1 \in DOMAIN p
    <3> HIDE DEF p, q
    <3> QED
      BY <1>2, ShorterHolds
  <2> QED
    BY <1>2, <2>1 DEF IInv, FromCurrent
<1> HIDE DEF e, p, q
<1>5. /\ 1 \in DOMAIN p
      /\ \A k \in DOMAIN q : \E i \in DOMAIN p : i # 1 /\ i >= k /\ q[k] = p[i]
      /\ \A i \in DOMAIN p : i # 1 => \E k \in DOMAIN q : q[k] = p[i]
      /\ Ordered(q)
  BY <1>2, <1>3, ShorterHolds
<1>6. DOMAIN p = 1..Len(p) /\ Len(p) \in Nat
  BY <1>2 DEF Shorter
<1>7. \A k \in DOMAIN q : \E i \in DOMAIN p : i > 1 /\ q[k] = p[i]
  <2>1. \A i \in DOMAIN p : i # 1 => i > 1
    BY <1>6
  <2> QED
    BY <1>5, <2>1
<1>8. e.type = "Closing" => ~Has(q, ChatTypes \cup {"Closing"})
  <2> SUFFICES ASSUME e.type = "Closing", NEW k \in DOMAIN q,
                      q[k].type \in ChatTypes \cup {"Closing"}
               PROVE  FALSE
    BY DEF Has
  <2>1. PICK i \in DOMAIN p : i > 1 /\ q[k] = p[i]
    BY <1>7
  <2>2. 1 < i
    BY <1>6, <2>1
  <2>3. q[k].type \in {"response", "Closed"}
    BY <1>2, <1>3, <1>5, <2>1, <2>2 DEF Ordered
  <2> QED
    BY <2>3 DEF ChatTypes
<1>9. e.type = "Closed" => \A k \in DOMAIN q : q[k].type = "response"
  <2> SUFFICES ASSUME e.type = "Closed", NEW k \in DOMAIN q
               PROVE  q[k].type = "response"
    OBVIOUS
  <2>1. PICK i \in DOMAIN p : i > 1 /\ q[k] = p[i]
    BY <1>7
  <2>2. 1 < i
    BY <1>6, <2>1
  <2> QED
    BY <1>2, <1>3, <1>5, <2>1, <2>2 DEF Ordered
<1> QED
  BY <1>2, <1>4, <1>5, <1>7, <1>8, <1>9 DEF e, p, q

\* Events that leave the current client as it is.
LEMMA EventStep ==
    ASSUME IInv, HandleEvent,
           UNCHANGED <<clientId, isClosing, pc, nextRequestId>>,
           client' \in [Clients -> States],
           \A c \in Clients :
                \/ client'[c] = client[c]
                \/ client[c] = "waiting" /\ client'[c] = "parameters",
           DataCurrent',
           Head(events).type = "Closing" => isClosing \/ (DOMAIN chats' = {} /\ DOMAIN rows' = {}),
           \/ DOMAIN chats' \subseteq DOMAIN chats /\ DOMAIN rows' \subseteq DOMAIN rows
           \/ Head(events).type \in ChatTypes
    PROVE  IInv'
<1> DEFINE e == Head(events)  p == Pipeline  q == Pipeline'
<1>1. /\ 1 \in DOMAIN p /\ p[1] = e
      /\ \A k \in DOMAIN q : \E i \in DOMAIN p : i > 1 /\ q[k] = p[i]
      /\ \A i \in DOMAIN p : i # 1 => \E k \in DOMAIN q : q[k] = p[i]
      /\ Ordered(q) /\ events' \in Seq(Docs)
      /\ e.type = "Closing" => ~Has(q, ChatTypes \cup {"Closing"})
  BY EventTaken
<1>2. UNCHANGED <<receiverClientId, received, stream, requests>>
  BY DEF HandleEvent
<1>3. SessionTyped'
  BY <1>1, <1>2 DEF IInv, SessionTyped
<1> HIDE DEF e, p, q
<1>4. ClientsInTurn' /\ FilterCurrent'
  BY <1>2 DEF IInv, ClientsInTurn, FilterCurrent
<1>5. FromCurrent'
  <2> SUFFICES ASSUME NEW k \in DOMAIN q, q[k].type # "response"
               PROVE  /\ q[k].client = clientId /\ clientId \in Clients
                      /\ client'[clientId] # "created"
                      /\ q[k].type = "Closing" => client'[clientId] \in {"closing", "closed"}
                      /\ q[k].type = "Closed" => client'[clientId] = "closed"
    BY DEF FromCurrent, q
  <2>1. PICK i \in DOMAIN p : q[k] = p[i]
    BY <1>1
  <2>2. /\ q[k].client = clientId /\ clientId \in Clients /\ client[clientId] # "created"
        /\ q[k].type = "Closing" => client[clientId] \in {"closing", "closed"}
        /\ q[k].type = "Closed" => client[clientId] = "closed"
    BY <2>1 DEF IInv, FromCurrent, p
  <2> QED
    BY <2>2
<1>6. ClearedInTime'
  <2> SUFFICES ASSUME clientId \in Clients, client'[clientId] \in {"closing", "closed"},
                      ~isClosing
               PROVE  \/ Has(q, {"Closing"})
                      \/ DOMAIN chats' = {} /\ DOMAIN rows' = {} /\ ~Has(q, ChatTypes)
    BY DEF ClearedInTime, q
  <2>1. client[clientId] \in {"closing", "closed"}
    OBVIOUS
  <2>2. CASE e.type = "Closing"
    BY <1>1, <2>2 DEF Has, e
  <2>3. CASE e.type # "Closing"
    <3>1. \/ Has(p, {"Closing"})
          \/ DOMAIN chats = {} /\ DOMAIN rows = {} /\ ~Has(p, ChatTypes)
      BY <2>1 DEF IInv, ClearedInTime, p
    <3>2. CASE Has(p, {"Closing"})
      BY <1>1, <2>3, <3>2 DEF Has
    <3>3. CASE DOMAIN chats = {} /\ DOMAIN rows = {} /\ ~Has(p, ChatTypes)
      <4>1. e.type \notin ChatTypes /\ ~Has(q, ChatTypes)
        BY <1>1, <3>3 DEF Has
      <4>2. DOMAIN chats' = {} /\ DOMAIN rows' = {}
        BY <3>3, <4>1 DEF e
      <4> QED
        BY <4>1, <4>2
    <3> QED
      BY <3>1, <3>2, <3>3
  <2> QED
    BY <2>2, <2>3
<1> QED
  BY <1>1, <1>3, <1>4, <1>5, <1>6 DEF IInv, q

\* The last event of a client: the data are empty, and the next client's turn
\* begins, unless the wrapper is being destroyed.
LEMMA ClosedStep ==
    ASSUME IInv, HandleEvent, handleAuthorizationStateChanged(Head(events)),
           Head(events).type = "Closed"
    PROVE  IInv'
<1> DEFINE e == Head(events)  p == Pipeline  q == Pipeline'
<1>1. /\ 1 \in DOMAIN p /\ p[1] = e /\ events' \in Seq(Docs) /\ Ordered(q)
      /\ \A k \in DOMAIN q : q[k].type = "response"
      /\ e.client = clientId /\ clientId \in Clients /\ client[clientId] = "closed"
  BY EventTaken
<1>2. /\ UNCHANGED <<isClosing, nextRequestId, chats, rows, client,
                     receiverClientId, received, stream, requests>>
      /\ IF isClosing THEN UNCHANGED <<clientId, pc>>
         ELSE clientId' = clientId + 1 /\ pc' = "setClientId"
  BY DEF HandleEvent, handleAuthorizationStateChanged, WhenClosed, responseVars, dataVars
<1>3. clientId \in Nat /\ clientId + 1 \in Nat /\ \A c \in Clients : c \in Nat
  BY SessionAssumption DEF IInv, SessionTyped, Clients
<1>4. SessionTyped'
  BY <1>1, <1>2, <1>3 DEF IInv, SessionTyped
<1>5. ~isClosing => DOMAIN chats = {} /\ DOMAIN rows = {}
  <2>1. ~Has(p, {"Closing"})
    <3> SUFFICES ASSUME NEW i \in DOMAIN p, p[i].type = "Closing" PROVE FALSE
      BY DEF Has
    <3>1. i # 1
      BY <1>1
    <3>2. \E k \in DOMAIN q : q[k] = p[i]
      BY <3>1, EventTaken
    <3> QED
      BY <1>1, <3>2
  <2> QED
    BY <1>1, <2>1 DEF IInv, ClearedInTime
<1> HIDE DEF e, p, q
<1>6. FromCurrent'
  BY <1>1 DEF FromCurrent, q
<1>7. CASE isClosing
  <2>1. ClientsInTurn' /\ FilterCurrent' /\ DataCurrent'
    BY <1>2, <1>7 DEF IInv, ClientsInTurn, FilterCurrent, DataCurrent
  <2>2. ClearedInTime'
    BY <1>2, <1>7 DEF ClearedInTime
  <2> QED
    BY <1>1, <1>4, <1>6, <2>1, <2>2 DEF IInv, q
<1>8. CASE ~isClosing
  <2>1. clientId' = clientId + 1 /\ pc' = "setClientId" /\ client' = client
    BY <1>2, <1>8
  <2>2. ASSUME NEW c \in Clients
        PROVE  /\ c < clientId' => client'[c] = "closed"
               /\ c > clientId' => client'[c] = "created"
               /\ c = clientId' => client'[c] = "created"
    <3>1. c < clientId' => c < clientId \/ c = clientId
      BY <1>3, <2>1
    <3>2. c > clientId' \/ c = clientId' => c > clientId
      BY <1>3, <2>1
    <3> QED
      BY <1>1, <2>1, <3>1, <3>2 DEF IInv, ClientsInTurn
  <2>3. ClientsInTurn' /\ FilterCurrent'
    BY <2>1, <2>2 DEF ClientsInTurn, FilterCurrent
  <2>4. DataCurrent'
    BY <1>2, <1>5, <1>8 DEF DataCurrent
  <2>5. ClearedInTime'
    <3>1. clientId' \in Clients => client'[clientId'] = "created"
      BY <2>2
    <3> QED
      BY <3>1 DEF ClearedInTime
  <2> QED
    BY <1>1, <1>4, <1>6, <2>3, <2>4, <2>5 DEF IInv, q
<1> QED
  BY <1>7, <1>8

\* Every event keeps the invariant.
LEMMA HandleEventStep ==
    ASSUME IInv, HandleEvent
    PROVE  IInv'
<1> DEFINE e == Head(events)
<1>1. /\ e \in Docs
      /\ e.type # "response" => e.client = clientId /\ clientId \in Clients
  BY EventTaken
<1>2. /\ DOMAIN rows \subseteq DOMAIN chats
      /\ \A chat \in DOMAIN chats : chats[chat] = clientId
      /\ \A chat \in DOMAIN rows : rows[chat] = clientId
      /\ client \in [Clients -> States]
  BY DEF IInv, DataCurrent, SessionTyped
<1>3. CASE handleAuthorizationStateChanged(e)
  <2>1. CASE e.type = "Closed"
    BY <1>3, <2>1, ClosedStep
  <2>2. CASE e.type # "Closed"
    <3>1. /\ UNCHANGED <<clientId, isClosing, pc, nextRequestId>>
          /\ client' = IF e.type = "WaitTdlibParameters" /\ client[clientId] = "waiting"
                       THEN [client EXCEPT ![clientId] = "parameters"] ELSE client
      BY <1>3, <2>2 DEF handleAuthorizationStateChanged, WhenClosing, ClearContent,
                        responseVars, dataVars
    <3>2. /\ \/ chats' = chats /\ rows' = rows
             \/ chats' = chats /\ rows' = <<>>
             \/ chats' = <<>> /\ rows' = <<>>
          /\ e.type = "Closing" => isClosing \/ (chats' = <<>> /\ rows' = <<>>)
      <4> HIDE DEF e
      <4>1. CASE e.type = "LoggingOut"
        BY <1>3, <4>1 DEF handleAuthorizationStateChanged, ClearContent
      <4>2. CASE e.type = "Closing"
        <5>1. WhenClosing
          BY <1>3, <4>2 DEF handleAuthorizationStateChanged
        <5>2. CASE isClosing
          BY <4>2, <5>1, <5>2 DEF WhenClosing, dataVars
        <5>3. CASE ~isClosing
          BY <4>2, <5>1, <5>3 DEF WhenClosing, ClearContent, Reset
        <5> QED
          BY <5>2, <5>3
      <4>3. CASE e.type \notin {"LoggingOut", "Closing", "Closed"}
        <5>1. UNCHANGED dataVars
          BY <1>3, <4>3 DEF handleAuthorizationStateChanged
        <5> QED
          BY <4>3, <5>1 DEF dataVars
      <4> QED
        BY <2>2, <4>1, <4>2, <4>3
    <3>3. /\ client' \in [Clients -> States]
          /\ \A c \in Clients :
                \/ client'[c] = client[c]
                \/ client[c] = "waiting" /\ client'[c] = "parameters"
      <4>1. e.type = "WaitTdlibParameters" => clientId \in Clients
        BY <1>1
      <4>2. CASE e.type = "WaitTdlibParameters" /\ client[clientId] = "waiting"
        <5>1. client' = [client EXCEPT ![clientId] = "parameters"] /\ clientId \in Clients
          BY <3>1, <4>1, <4>2
        <5>2. "parameters" \in States
          BY DEF States
        <5> QED
          BY <1>2, <4>2, <5>1, <5>2
      <4>3. CASE ~(e.type = "WaitTdlibParameters" /\ client[clientId] = "waiting")
        <5>1. client' = client
          BY <3>1, <4>3
        <5> QED
          BY <1>2, <5>1
      <4> QED
        BY <4>2, <4>3
    <3>4. DOMAIN <<>> = {}
      OBVIOUS
    <3>5. /\ DataCurrent'
          /\ DOMAIN chats' \subseteq DOMAIN chats /\ DOMAIN rows' \subseteq DOMAIN rows
          /\ e.type = "Closing" => isClosing \/ (DOMAIN chats' = {} /\ DOMAIN rows' = {})
      BY <1>2, <3>1, <3>2, <3>4 DEF DataCurrent
    <3> QED
      BY <3>1, <3>3, <3>5, EventStep
  <2> QED
    BY <2>1, <2>2
<1>4. CASE e.type \in ChatTypes /\ UNCHANGED <<clientId, isClosing, pc, nextRequestId, client>>
           /\ DataCurrent'
  <2>1. e.type # "Closing"
    BY <1>4 DEF ChatTypes
  <2>2. client' \in [Clients -> States] /\ \A c \in Clients : client'[c] = client[c]
    BY <1>2, <1>4
  <2>3. e.type = "Closing" => isClosing \/ (DOMAIN chats' = {} /\ DOMAIN rows' = {})
    BY <2>1
  <2>4. UNCHANGED <<clientId, isClosing, pc, nextRequestId>> /\ DataCurrent'
        /\ e.type \in ChatTypes
    BY <1>4
  <2> QED
    BY <2>2, <2>3, <2>4, EventStep
<1>5. CASE handleNewChatDiscovered(e)
  <2>1. e.type \in ChatTypes /\ UNCHANGED <<clientId, isClosing, pc, nextRequestId, client>>
    BY <1>5 DEF handleNewChatDiscovered, ChatTypes, wrapperVars, responseVars
  <2>2. e.client = clientId
    BY <1>1, <2>1 DEF ChatTypes
  <2>3. /\ chats' = Put(chats, e.arg, e.client)
        /\ rows' = IF e.type = "newListedChat" THEN Put(rows, e.arg, e.client) ELSE rows
    BY <1>5 DEF handleNewChatDiscovered
  <2>4. DataCurrent'
    <3> HIDE DEF e
    <3> QED
      BY <1>2, <2>1, <2>2, <2>3 DEF DataCurrent, Put
  <2> QED
    BY <1>4, <2>1, <2>4
<1>6. CASE handleChatAddedToList(e)
  <2>1. e.type \in ChatTypes
        /\ UNCHANGED <<clientId, isClosing, pc, nextRequestId, client, chats>>
    BY <1>6 DEF handleChatAddedToList, ChatTypes, wrapperVars, responseVars
  <2>2. rows' = IF e.arg \in DOMAIN chats THEN Put(rows, e.arg, chats[e.arg]) ELSE rows
    BY <1>6 DEF handleChatAddedToList
  <2>3. DataCurrent'
    <3> HIDE DEF e
    <3> QED
      BY <1>2, <2>1, <2>2 DEF DataCurrent, Put
  <2> QED
    BY <1>4, <2>1, <2>3
<1>7. CASE handleChatRemovedFromList(e)
  <2>1. e.type \in ChatTypes
        /\ UNCHANGED <<clientId, isClosing, pc, nextRequestId, client, chats>>
    BY <1>7 DEF handleChatRemovedFromList, ChatTypes, wrapperVars, responseVars
  <2>2. rows' = IF e.arg \in DOMAIN chats THEN Restrict(rows, DOMAIN rows \ {e.arg}) ELSE rows
    BY <1>7 DEF handleChatRemovedFromList
  <2>3. DataCurrent'
    <3> HIDE DEF e
    <3> QED
      BY <1>2, <2>1, <2>2 DEF DataCurrent, Restrict
  <2> QED
    BY <1>4, <2>1, <2>3
<1>8. CASE handleResponseForRequestIdReceived(e)
  <2>1. e.type = "response"
        /\ UNCHANGED <<clientId, isClosing, pc, nextRequestId, client, chats, rows>>
    BY <1>8 DEF handleResponseForRequestIdReceived, wrapperVars, dataVars
  <2>2. DataCurrent'
    BY <1>2, <2>1 DEF DataCurrent
  <2> QED
    <3>1. client' \in [Clients -> States] /\ \A c \in Clients : client'[c] = client[c]
      BY <1>2, <2>1
    <3>2. DOMAIN chats' \subseteq DOMAIN chats /\ DOMAIN rows' \subseteq DOMAIN rows
      BY <2>1
    <3>3. e.type = "Closing" => isClosing \/ (DOMAIN chats' = {} /\ DOMAIN rows' = {})
      BY <2>1
    <3>4. UNCHANGED <<clientId, isClosing, pc, nextRequestId>>
      BY <2>1
    <3> QED
      BY <2>2, <3>1, <3>2, <3>3, <3>4, EventStep
<1> QED
  BY <1>3, <1>5, <1>6, <1>7, <1>8 DEF HandleEvent

\* Steps that leave the pipeline and the data alone.
LEMMA QuietStep ==
    ASSUME IInv,
           UNCHANGED <<clientId, chats, rows, events, received, stream>>,
           client' \in [Clients -> States], nextRequestId' \in Nat,
           requests' \subseteq [id: Nat, client: Nat],
           FilterCurrent', ClientsInTurn',
           isClosing' # isClosing => isClosing',
           \A c \in Clients :
                \/ client'[c] = client[c]
                \/ client[c] \notin {"closing", "closed"}
                   /\ client'[c] \notin {"created", "closing", "closed"}
    PROVE  IInv'
<1>1. Pipeline' = Pipeline
  BY DEF Pipeline
<1>2. SessionTyped' /\ DataCurrent'
  BY DEF IInv, SessionTyped, DataCurrent
<1>3. FromCurrent' /\ Ordered(Pipeline)'
  BY <1>1 DEF IInv, FromCurrent, Ordered
<1>4. ClearedInTime'
  BY <1>1 DEF IInv, ClearedInTime, Has
<1> QED
  BY <1>2, <1>3, <1>4 DEF IInv

\* Requests, the setup of a client, and the end of the wrapper.
LEMMA OwnStep ==
    ASSUME IInv, NewClient \/ sendRequestWithId \/ Destroy \/ StopReceiver \/ Destroyed
    PROVE  IInv'
<1>1. /\ clientId \in Nat /\ client \in [Clients -> States] /\ nextRequestId \in Nat
      /\ requests \subseteq [id: Nat, client: Nat] /\ \A c \in Clients : c \in Nat
  BY SessionAssumption DEF IInv, SessionTyped, Clients
<1>2. CASE NewClient
  <2>1. /\ UNCHANGED <<clientId, isClosing, chats, rows, events, received, stream, requests>>
        /\ nextRequestId' = nextRequestId
    BY <1>2 DEF NewClient, responseVars, dataVars
  <2>2. CASE /\ pc = "setClientId" /\ receiverClientId' = clientId
             /\ pc' = "setInitialOptions" /\ UNCHANGED client
    <3>1. FilterCurrent' /\ ClientsInTurn'
      BY <2>1, <2>2 DEF IInv, FilterCurrent, ClientsInTurn
    <3> QED
      BY <1>1, <2>1, <2>2, <3>1, QuietStep
  <2>3. CASE /\ pc = "setInitialOptions" /\ client' = [client EXCEPT ![clientId] = "started"]
             /\ pc' = "idle" /\ UNCHANGED receiverClientId
    <3>1. \A c \in Clients :
            client'[c] = IF c = clientId THEN "started" ELSE client[c]
      BY <1>1, <2>3
    <3>2. client' \in [Clients -> States]
      BY <1>1, <2>3 DEF States
    <3>3. FilterCurrent' /\ ClientsInTurn'
      BY <1>1, <2>1, <2>3, <3>1 DEF IInv, FilterCurrent, ClientsInTurn
    <3>4. \A c \in Clients : c = clientId => client[c] = "created"
      BY <2>3 DEF IInv, ClientsInTurn
    <3> QED
      BY <1>1, <2>1, <3>1, <3>2, <3>3, <3>4, QuietStep
  <2> QED
    BY <1>2, <2>2, <2>3 DEF NewClient, SetClient
<1>3. CASE sendRequestWithId
  <2>1. /\ UNCHANGED <<clientId, isClosing, pc, receiverClientId, chats, rows, events,
                       received, stream, client>>
        /\ nextRequestId' = nextRequestId + 1
        /\ requests' = requests \cup {[id |-> nextRequestId, client |-> clientId]}
    BY <1>3 DEF sendRequestWithId, wrapperVars, dataVars, receiverVars
  <2>2. FilterCurrent' /\ ClientsInTurn'
    BY <2>1 DEF IInv, FilterCurrent, ClientsInTurn
  <2>3. nextRequestId' \in Nat /\ requests' \subseteq [id: Nat, client: Nat]
    BY <1>1, <2>1
  <2> QED
    BY <1>1, <2>1, <2>2, <2>3, QuietStep
<1>4. CASE Destroy
  <2>1. /\ UNCHANGED <<clientId, receiverClientId, chats, rows, events, received, stream,
                       requests>>
        /\ nextRequestId' = nextRequestId /\ pc = "idle"
        /\ pc' \in {"waitForClosed", "stop"}
    BY <1>4 DEF Destroy, responseVars, dataVars, receiverVars
  <2>2. /\ \/ client' = client
           \/ /\ client[clientId] \notin {"closing", "closed"}
              /\ client' = [client EXCEPT ![clientId] = "toClose"]
        /\ isClosing' = isClosing \/ isClosing'
    BY <1>4 DEF Destroy
  <2>3. client' \in [Clients -> States]
    BY <1>1, <2>2 DEF States
  <2>4. \A c \in Clients :
            \/ client'[c] = client[c]
            \/ /\ c = clientId /\ client[c] \notin {"closing", "closed"}
               /\ client'[c] = "toClose"
    BY <1>1, <2>2
  <2>5. FilterCurrent' /\ ClientsInTurn'
    BY <1>1, <2>1, <2>4 DEF IInv, FilterCurrent, ClientsInTurn
  <2> QED
    BY <1>1, <2>1, <2>2, <2>3, <2>4, <2>5, QuietStep
<1>5. CASE StopReceiver \/ Destroyed
  <2>1. /\ UNCHANGED <<clientId, isClosing, receiverClientId, chats, rows, events,
                       received, stream, requests, client>>
        /\ nextRequestId' = nextRequestId
        /\ pc \in {"waitForClosed", "stop", "waitForReceiver"}
        /\ pc' \in {"waitForReceiver", "gone"}
    BY <1>5 DEF StopReceiver, Destroyed, responseVars, dataVars, receiverVars, tdVars
  <2>2. FilterCurrent' /\ ClientsInTurn'
    BY <2>1 DEF IInv, FilterCurrent, ClientsInTurn
  <2> QED
    BY <1>1, <2>1, <2>2, QuietStep
<1> QED
  BY <1>2, <1>3, <1>4, <1>5

-----------------------------------------------------------------------------
(***************************************************************************)
(* The theorems                                                            *)
(***************************************************************************)

\* Before the first client is started nothing is on its way.
LEMMA InitIInv ==
    ASSUME Init
    PROVE  IInv
<1>1. DOMAIN <<>> = {} /\ <<>> \in Seq(Docs) /\ Len(<<>>) = 0
  OBVIOUS
<1>2. Pipeline = <<>>
  BY DEF Init, Pipeline
<1>3. SessionTyped
  BY <1>1, SessionAssumption DEF Init, SessionTyped, States
<1>4. ClientsInTurn /\ FilterCurrent
  <2>1. \A c \in Clients : c \in Nat /\ ~(c < 1)
    BY SessionAssumption DEF Clients
  <2> QED
    BY <2>1 DEF Init, ClientsInTurn, FilterCurrent
<1>5. FromCurrent /\ Ordered(Pipeline)
  BY <1>1, <1>2 DEF FromCurrent, Ordered
<1>6. ClearedInTime /\ DataCurrent
  BY <1>1, <1>2 DEF Init, ClearedInTime, DataCurrent, Has
<1> QED
  BY <1>3, <1>4, <1>5, <1>6 DEF IInv

\* Every step keeps the invariant.
LEMMA NextIInv ==
    ASSUME IInv, [Next]_vars
    PROVE  IInv'
<1>1. CASE \E c \in Clients : Authorization(c) \/ \E chat \in Chats : ChatUpdate(c, chat)
  BY <1>1, AuthorizationStep, ChatUpdateStep
<1>2. CASE \E r \in requests : Answer(r)
  BY <1>2, AnswerStep
<1>3. CASE Receiver
  BY <1>3, ReceiverStep
<1>4. CASE HandleEvent
  BY <1>4, HandleEventStep
<1>5. CASE NewClient \/ sendRequestWithId \/ Destroy \/ StopReceiver \/ Destroyed
  BY <1>5, OwnStep
<1>6. CASE UNCHANGED vars
  <2>1. UNCHANGED <<clientId, isClosing, pc, receiverClientId, nextRequestId, requests,
                    chats, rows, events, received, stream, client>>
    BY <1>6 DEF vars, wrapperVars, responseVars, dataVars, receiverVars, tdVars
  <2>2. FilterCurrent' /\ ClientsInTurn'
    BY <2>1 DEF IInv, FilterCurrent, ClientsInTurn
  <2>3. /\ client' \in [Clients -> States] /\ nextRequestId' \in Nat
        /\ requests' \subseteq [id: Nat, client: Nat]
    BY <2>1 DEF IInv, SessionTyped
  <2> QED
    BY <2>1, <2>2, <2>3, QuietStep
<1> QED
  BY <1>1, <1>2, <1>3, <1>4, <1>5, <1>6 DEF Next, MainThread, Gone

\* The invariant holds of every state.
LEMMA Invariance == Spec => []IInv
BY InitIInv, NextIInv, PTL DEF Spec

\* No row of the chat lists outlives its ChatData: the lists are cleared and the
\* data are reset when a session closes, and no update of a chat that TDLib sent
\* before can come after that, whatever the threads do and however often the
\* user logs out.
THEOREM RowsCorrect == Spec => []RowsAlive
<1>1. ASSUME IInv PROVE RowsAlive
  BY <1>1 DEF IInv, DataCurrent, RowsAlive
<1> QED
  BY <1>1, Invariance, PTL

\* processReceivedDocument never drops an authorization state or an update of a
\* chat: the main thread names the new client to the receiver before the client
\* is started, and the old one has said all it had to say by then.
THEOREM FilterLosesOnlyAnswers ==
    Spec => [][processReceivedDocument /\ received[1].client # receiverClientId
                => received[1].type = "response"]_vars
<1>1. ASSUME IInv, processReceivedDocument, received[1].client # receiverClientId
      PROVE  received[1].type = "response"
  BY <1>1, DropsAnswers DEF processReceivedDocument
<1>2. ASSUME IInv
      PROVE  processReceivedDocument /\ received[1].client # receiverClientId
                => received[1].type = "response"
  BY <1>1, <1>2
<1> QED
  BY <1>2, Invariance, PTL
=============================================================================
