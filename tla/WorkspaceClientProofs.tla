------------------------ MODULE WorkspaceClientProofs ------------------------
(***************************************************************************)
(* What holds of WorkspaceClient for any number of requests, reconnections *)
(* and events.  The properties speak of the two ends of a connection; the  *)
(* invariant that carries them, IInv, speaks of what is on the way between *)
(* them, and mostly of its order.                                          *)
(***************************************************************************)
EXTENDS WorkspaceClient, FiniteSetTheorems, TLAPS

-----------------------------------------------------------------------------
(* What the two channels may hold, the events of a task in their order *)

Has(q, m) == \E i \in DOMAIN q : q[i] = m

Mentions(q, r) == \E i \in DOMAIN q : q[i].request = r

\* Requests come in the order of their numbers, each cancelled before the next one.
Orderly(q) ==
  \A i, k \in DOMAIN q : i < k /\ q[i].type = "request" /\ q[k].type = "request" =>
    /\ q[i].request < q[k].request
    /\ \E j \in DOMAIN q : i < j /\ j < k /\ q[j] = Msg("cancel", q[i].request)

CancelFollows(q, r) ==
  \A i \in DOMAIN q : q[i] = Msg("request", r) =>
    \E j \in DOMAIN q : i < j /\ q[j] = Msg("cancel", r)

RequestPrecedes(q, r) ==
  \A j \in DOMAIN q : q[j] = Msg("cancel", r) =>
    \E i \in DOMAIN q : i < j /\ q[i] = Msg("request", r)

\* No request is read before r is cancelled.
CancelledFirst(q, r) ==
  \A i \in DOMAIN q : q[i].type = "request" =>
    \E j \in DOMAIN q : j < i /\ q[j] = Msg("cancel", r)

IsClosing(e, r) == e.request = r /\ e.type # "progress"

HasClosing(q, r) == \E i \in DOMAIN q : IsClosing(q[i], r)

\* What a closing event says of a request that ended so.
Told(type, how) ==
  CASE type = "completed" -> how = "completed"
    [] type = "cancelled" -> how = "cancelled"
    [] OTHER -> how # "completed"

\* The page acts on the first closing event of a request; that one tells how it ended.
FirstTells(q, r, how) ==
  \A i \in DOMAIN q :
    IsClosing(q[i], r) /\ (\A j \in DOMAIN q : j < i => ~IsClosing(q[j], r)) =>
      Told(q[i].type, how)

ProgressFirst(q, r) ==
  \A i, j \in DOMAIN q : i < j /\ IsClosing(q[i], r) => q[j] # Msg("progress", r)

ProgressIn(q, r) == Cardinality({i \in DOMAIN q : q[i] = Msg("progress", r)})

-----------------------------------------------------------------------------
(* The inductive invariant *)

\* How the connection, the page's idea of it and the request in hand go together.
LinkInv ==
  /\ RunningIsWorkedOn
  /\ socket # "open" =>
       toServer = <<>> /\ toClient = <<>> /\ serving = None /\ failing = FALSE
  /\ Waiting => activeRequest = pendingRequest /\ connectionState # "connected"
  /\ activeRequest # None => activeRequest = requestCounter

\* Nobody but the page knows of r.
Unheard(r) ==
  /\ ended[r] = "not" /\ produced[r] = 0 /\ parts[r] = 0 /\ serving # r
  /\ ~Mentions(toServer, r) /\ ~Mentions(toClient, r)

\* The page runs one request, and has told nobody of those it has not sent yet.
PageInv ==
  \A r \in RequestsOfUser :
    /\ shown[r] = "running" <=> activeRequest = r
    /\ r > requestCounter => shown[r] = "nothing"
    /\ r > requestCounter \/ pendingRequest = r => Unheard(r)

\* The requests on their way to the server have not been touched, they leave no gap up
\* to the last one made, and all but the active one are cancelled behind themselves.
AskInv ==
  /\ Orderly(toServer)
  /\ \A r \in RequestsOfUser : Has(toServer, Msg("request", r)) =>
       /\ ended[r] = "not" /\ produced[r] = 0 /\ r > serving
       /\ shown[r] \in {"running", "dismissed"}
       /\ activeRequest # r => CancelFollows(toServer, r)
       /\ \A p \in r..requestCounter : Has(toServer, Msg("request", p))

\* A cancellation follows the request it is about, and the active request has not got lost.
CancelInv ==
  /\ \A r \in RequestsOfUser : Has(toServer, Msg("cancel", r)) =>
       serving = r \/ ended[r] # "not" \/ RequestPrecedes(toServer, r)
  /\ activeRequest # None /\ socket = "open" /\ ended[activeRequest] = "not" =>
       serving = activeRequest \/ Has(toServer, Msg("request", activeRequest))

\* What was made after the request the server works on has been refused or is on its way,
\* behind the cancellation of a request that has not ended.
ServeInv ==
  /\ failing => serving # None /\ ended[serving] = "failed"
  /\ serving # None =>
       \A p \in (serving + 1)..requestCounter :
         ended[p] = "refused" \/ Has(toServer, Msg("request", p))
  /\ serving # None /\ ~failing =>
       /\ ended[serving] = "not"
       /\ shown[serving] \in {"running", "dismissed"}
       /\ activeRequest # serving => Has(toServer, Msg("cancel", serving))
       /\ CancelledFirst(toServer, serving)

\* With the events on their way the page will have all of its request's answer, and be
\* told first how the request ended.
AnswerInv ==
  /\ \A r \in RequestsOfUser :
       /\ HasClosing(toClient, r) => ended[r] # "not"
       /\ ProgressFirst(toClient, r)
  /\ activeRequest # None /\ socket = "open" =>
       /\ FirstTells(toClient, activeRequest, ended[activeRequest])
       /\ ended[activeRequest] # "not" => HasClosing(toClient, activeRequest)
       /\ parts[activeRequest] + ProgressIn(toClient, activeRequest) = produced[activeRequest]

IInv ==
  TypeOK /\ LinkInv /\ PageInv /\ AskInv /\ CancelInv /\ ServeInv /\ AnswerInv
    /\ ShownMatchesServer

-----------------------------------------------------------------------------
(* The channel to the server *)

\* What taking the first message leaves of each notion above.
LEMMA AfterReading ==
  ASSUME NEW q \in Seq(Messages), q # <<>>
  PROVE  LET h == Head(q)
             t == Tail(q)
         IN  /\ h \in Messages /\ t \in Seq(Messages) /\ Has(q, h)
             /\ \A m : Has(t, m) => Has(q, m)
             /\ \A m : Has(q, m) => m = h \/ Has(t, m)
             /\ \A r : Mentions(t, r) => Mentions(q, r)
             /\ Orderly(q) => Orderly(t)
             /\ Orderly(q) /\ h.type = "request" =>
                  /\ CancelledFirst(t, h.request)
                  /\ \A p : Has(t, Msg("request", p)) => h.request < p
             /\ \A r : CancelFollows(q, r) => CancelFollows(t, r)
             /\ \A r : CancelFollows(q, r) /\ h = Msg("request", r) => Has(t, Msg("cancel", r))
             /\ \A r : RequestPrecedes(q, r) /\ h # Msg("request", r) => RequestPrecedes(t, r)
             /\ \A r : RequestPrecedes(q, r) => h # Msg("cancel", r)
             /\ \A r : CancelledFirst(q, r) => h.type # "request"
             /\ \A r : CancelledFirst(q, r) /\ h # Msg("cancel", r) => CancelledFirst(t, r)
<1> DEFINE h == Head(q)
           t == Tail(q)
           n == Len(q)
<1>1. /\ n \in Nat \ {0} /\ DOMAIN q = 1..n /\ DOMAIN t = 1..(n - 1)
      /\ \A i \in DOMAIN t : i + 1 \in DOMAIN q /\ t[i] = q[i + 1]
      /\ \A i \in DOMAIN q : i = 1 \/ (i - 1 \in DOMAIN t /\ t[i - 1] = q[i])
      /\ 1 \in DOMAIN q /\ h = q[1] /\ t \in Seq(Messages)
      /\ \A i \in DOMAIN q : q[i] \in Messages
  OBVIOUS
<1>2. /\ DOMAIN q \subseteq Nat \ {0} /\ DOMAIN t \subseteq Nat \ {0}
      /\ \A i \in DOMAIN q : i >= 1
  BY <1>1
<1>3. \A r, p : Msg("request", r) # Msg("cancel", p) /\ Msg("request", r).type = "request"
              /\ Msg("request", r).request = r
  BY DEF Msg
<1>4. \A m \in Messages : m.type = "request" => m = Msg("request", m.request)
  BY DEF Messages, Msg
<1> HIDE DEF h, t, n
<1>5. /\ h \in Messages /\ Has(q, h)
      /\ \A m : Has(t, m) => Has(q, m)
      /\ \A m : Has(q, m) => m = h \/ Has(t, m)
      /\ \A r : Mentions(t, r) => Mentions(q, r)
  BY <1>1 DEF Has, Mentions
<1>6. ASSUME Orderly(q) PROVE Orderly(t)
  <2> SUFFICES ASSUME NEW i \in DOMAIN t, NEW k \in DOMAIN t, i < k,
                      t[i].type = "request", t[k].type = "request"
               PROVE  /\ t[i].request < t[k].request
                      /\ \E j \in DOMAIN t : i < j /\ j < k /\ t[j] = Msg("cancel", t[i].request)
    BY DEF Orderly
  <2>1. PICK j \in DOMAIN q : /\ t[i].request < t[k].request
                              /\ i + 1 < j /\ j < k + 1 /\ q[j] = Msg("cancel", t[i].request)
    <3>1. /\ i + 1 \in DOMAIN q /\ k + 1 \in DOMAIN q /\ i + 1 < k + 1
          /\ q[i + 1] = t[i] /\ q[k + 1] = t[k]
      BY <1>1, <1>2
    <3> QED
      BY <1>6, <3>1 DEF Orderly
  <2>2. j - 1 \in DOMAIN t /\ t[j - 1] = q[j] /\ i < j - 1 /\ j - 1 < k
    BY <1>1, <1>2, <2>1
  <2> QED
    BY <2>1, <2>2
<1>7. ASSUME Orderly(q), h.type = "request"
      PROVE  /\ CancelledFirst(t, h.request)
             /\ \A p : Has(t, Msg("request", p)) => h.request < p
  <2>1. ASSUME NEW k \in DOMAIN t, t[k].type = "request"
        PROVE  /\ h.request < t[k].request
               /\ \E j \in DOMAIN t : j < k /\ t[j] = Msg("cancel", h.request)
    <3>1. 1 < k + 1 /\ k + 1 \in DOMAIN q /\ q[k + 1] = t[k]
      BY <1>1, <1>2
    <3>2. /\ h.request < t[k].request
          /\ \E j \in DOMAIN q : 1 < j /\ j < k + 1 /\ q[j] = Msg("cancel", h.request)
      <4>1. 1 \in DOMAIN q /\ q[1].type = "request" /\ q[k + 1].type = "request"
        BY <1>1, <1>7, <2>1, <3>1
      <4>2. /\ q[1].request < q[k + 1].request
            /\ \E j \in DOMAIN q : 1 < j /\ j < k + 1 /\ q[j] = Msg("cancel", q[1].request)
        BY <1>7, <3>1, <4>1 DEF Orderly
      <4> QED
        BY <1>1, <3>1, <4>2
    <3>3. PICK j \in DOMAIN q : 1 < j /\ j < k + 1 /\ q[j] = Msg("cancel", h.request)
      BY <3>2
    <3>4. j - 1 \in DOMAIN t /\ t[j - 1] = q[j] /\ j - 1 < k
      BY <1>1, <1>2, <3>3
    <3> QED
      BY <3>2, <3>3, <3>4
  <2>2. CancelledFirst(t, h.request)
    BY <2>1 DEF CancelledFirst
  <2>3. \A p : Has(t, Msg("request", p)) => h.request < p
    BY <1>3, <2>1 DEF Has
  <2> QED
    BY <2>2, <2>3
<1>8. ASSUME NEW r, CancelFollows(q, r)
      PROVE  /\ CancelFollows(t, r)
             /\ h = Msg("request", r) => Has(t, Msg("cancel", r))
  <2>1. ASSUME NEW i \in DOMAIN q, q[i] = Msg("request", r)
        PROVE  \E j \in DOMAIN t : i < j + 1 /\ t[j] = Msg("cancel", r)
    <3>1. PICK j \in DOMAIN q : i < j /\ q[j] = Msg("cancel", r)
      BY <1>8, <2>1 DEF CancelFollows
    <3>2. j - 1 \in DOMAIN t /\ t[j - 1] = q[j] /\ i < (j - 1) + 1
      BY <1>1, <1>2, <3>1
    <3> QED
      BY <3>1, <3>2
  <2>2. CancelFollows(t, r)
    <3> SUFFICES ASSUME NEW i \in DOMAIN t, t[i] = Msg("request", r)
                 PROVE  \E j \in DOMAIN t : i < j /\ t[j] = Msg("cancel", r)
      BY DEF CancelFollows
    <3>1. PICK j \in DOMAIN t : i + 1 < j + 1 /\ t[j] = Msg("cancel", r)
      BY <1>1, <2>1
    <3> QED
      BY <1>2, <3>1
  <2>3. h = Msg("request", r) => Has(t, Msg("cancel", r))
    BY <1>1, <2>1 DEF Has
  <2> QED
    BY <2>2, <2>3
<1>9. ASSUME NEW r, RequestPrecedes(q, r)
      PROVE  /\ h # Msg("request", r) => RequestPrecedes(t, r)
             /\ h # Msg("cancel", r)
  <2>1. h # Msg("cancel", r)
    BY <1>1, <1>2, <1>9 DEF RequestPrecedes
  <2>2. ASSUME h # Msg("request", r), NEW j \in DOMAIN t, t[j] = Msg("cancel", r)
        PROVE  \E i \in DOMAIN t : i < j /\ t[i] = Msg("request", r)
    <3>1. PICK i \in DOMAIN q : i < j + 1 /\ q[i] = Msg("request", r)
      BY <1>1, <1>9, <2>2 DEF RequestPrecedes
    <3>2. i - 1 \in DOMAIN t /\ t[i - 1] = q[i] /\ i - 1 < j
      BY <1>1, <1>2, <2>2, <3>1
    <3> QED
      BY <3>1, <3>2
  <2> QED
    BY <2>1, <2>2 DEF RequestPrecedes
<1>10. ASSUME NEW r, CancelledFirst(q, r)
       PROVE  /\ h.type # "request"
              /\ h # Msg("cancel", r) => CancelledFirst(t, r)
  <2>1. h.type # "request"
    BY <1>1, <1>2, <1>10 DEF CancelledFirst
  <2>2. ASSUME h # Msg("cancel", r), NEW i \in DOMAIN t, t[i].type = "request"
        PROVE  \E j \in DOMAIN t : j < i /\ t[j] = Msg("cancel", r)
    <3>1. PICK j \in DOMAIN q : j < i + 1 /\ q[j] = Msg("cancel", r)
      BY <1>1, <1>10, <2>2 DEF CancelledFirst
    <3>2. j - 1 \in DOMAIN t /\ t[j - 1] = q[j] /\ j - 1 < i
      BY <1>1, <1>2, <2>2, <3>1
    <3> QED
      BY <3>1, <3>2
  <2> QED
    BY <2>1, <2>2 DEF CancelledFirst
<1> QED
  BY <1>1, <1>5, <1>6, <1>7, <1>8, <1>9, <1>10 DEF h, t

\* What one more message at the end does to each of them.
LEMMA AfterSending ==
  ASSUME NEW q \in Seq(Messages), NEW m \in Messages
  PROVE  LET a == Append(q, m)
         IN  /\ a \in Seq(Messages)
             /\ \A x : Has(a, x) <=> Has(q, x) \/ x = m
             /\ \A r : Mentions(a, r) <=> Mentions(q, r) \/ m.request = r
             /\ Orderly(q)
                  /\ (m.type = "request" =>
                        \A p : Has(q, Msg("request", p)) => p < m.request /\ CancelFollows(q, p))
                  => Orderly(a)
             /\ \A r : CancelFollows(q, r) /\ m # Msg("request", r) => CancelFollows(a, r)
             /\ \A r : m = Msg("cancel", r) => CancelFollows(a, r)
             /\ \A r : RequestPrecedes(q, r) /\ (m = Msg("cancel", r) => Has(q, Msg("request", r)))
                         => RequestPrecedes(a, r)
             /\ \A r : CancelledFirst(q, r) /\ (m.type = "request" => Has(q, Msg("cancel", r)))
                         => CancelledFirst(a, r)
<1> DEFINE a == Append(q, m)
           n == Len(q)
<1>1. /\ n \in Nat /\ DOMAIN q = 1..n /\ DOMAIN a = 1..(n + 1) /\ a \in Seq(Messages)
      /\ \A i \in DOMAIN q : i \in DOMAIN a /\ a[i] = q[i] /\ i < n + 1
      /\ n + 1 \in DOMAIN a /\ a[n + 1] = m
      /\ \A i \in DOMAIN a : i \in DOMAIN q \/ i = n + 1
      /\ \A i \in DOMAIN q : q[i] \in Messages
  OBVIOUS
<1>2. DOMAIN q \subseteq Nat /\ DOMAIN a \subseteq Nat
  BY <1>1
<1>3. /\ \A r, p : Msg("request", r) # Msg("cancel", p)
      /\ \A x \in Messages : x.type = "request" => x = Msg("request", x.request)
  BY DEF Messages, Msg
<1> HIDE DEF a, n
<1>4. \A x : Has(a, x) <=> Has(q, x) \/ x = m
  BY <1>1 DEF Has
<1>5. \A r : Mentions(a, r) <=> Mentions(q, r) \/ m.request = r
  BY <1>1 DEF Mentions
<1>6. ASSUME Orderly(q),
             m.type = "request" =>
               \A p : Has(q, Msg("request", p)) => p < m.request /\ CancelFollows(q, p)
      PROVE  Orderly(a)
  <2> SUFFICES ASSUME NEW i \in DOMAIN a, NEW k \in DOMAIN a, i < k,
                      a[i].type = "request", a[k].type = "request"
               PROVE  /\ a[i].request < a[k].request
                      /\ \E j \in DOMAIN a : i < j /\ j < k /\ a[j] = Msg("cancel", a[i].request)
    BY DEF Orderly
  <2>1. i \in DOMAIN q /\ a[i] = q[i]
    BY <1>1, <1>2
  <2>2. CASE k \in DOMAIN q
    BY <1>1, <1>6, <2>1, <2>2 DEF Orderly
  <2>3. CASE k = n + 1
    <3>1. q[i] = Msg("request", q[i].request) /\ Has(q, Msg("request", q[i].request))
      BY <1>1, <1>3, <2>1 DEF Has
    <3>2. q[i].request < m.request /\ CancelFollows(q, q[i].request)
      BY <1>1, <1>6, <2>3, <3>1
    <3>3. PICK j \in DOMAIN q : i < j /\ q[j] = Msg("cancel", q[i].request)
      BY <2>1, <3>1, <3>2 DEF CancelFollows
    <3> QED
      BY <1>1, <2>1, <2>3, <3>2, <3>3
  <2> QED
    BY <1>1, <2>2, <2>3
<1>7. ASSUME NEW r, CancelFollows(q, r), m # Msg("request", r) PROVE CancelFollows(a, r)
  BY <1>1, <1>7 DEF CancelFollows
<1>8. ASSUME NEW r, m = Msg("cancel", r) PROVE CancelFollows(a, r)
  BY <1>1, <1>3, <1>8 DEF CancelFollows
<1>9. ASSUME NEW r, RequestPrecedes(q, r), m = Msg("cancel", r) => Has(q, Msg("request", r))
      PROVE  RequestPrecedes(a, r)
  <2> SUFFICES ASSUME NEW j \in DOMAIN a, a[j] = Msg("cancel", r)
               PROVE  \E i \in DOMAIN a : i < j /\ a[i] = Msg("request", r)
    BY DEF RequestPrecedes
  <2>1. CASE j \in DOMAIN q
    BY <1>1, <1>9, <2>1 DEF RequestPrecedes
  <2>2. CASE j = n + 1
    BY <1>1, <1>9, <2>2 DEF Has
  <2> QED
    BY <1>1, <2>1, <2>2
<1>10. ASSUME NEW r, CancelledFirst(q, r), m.type = "request" => Has(q, Msg("cancel", r))
       PROVE  CancelledFirst(a, r)
  <2> SUFFICES ASSUME NEW i \in DOMAIN a, a[i].type = "request"
               PROVE  \E j \in DOMAIN a : j < i /\ a[j] = Msg("cancel", r)
    BY DEF CancelledFirst
  <2>1. CASE i \in DOMAIN q
    BY <1>1, <1>10, <2>1 DEF CancelledFirst
  <2>2. CASE i = n + 1
    BY <1>1, <1>10, <2>2 DEF Has
  <2> QED
    BY <1>1, <2>1, <2>2
<1> QED
  BY <1>1, <1>4, <1>5, <1>6, <1>7, <1>8, <1>9, <1>10 DEF a

\* A connection starts with nothing on the way.
LEMMA NothingOnTheWay ==
  /\ \A m : ~Has(<<>>, m)
  /\ \A r : /\ ~Mentions(<<>>, r) /\ ~HasClosing(<<>>, r) /\ ProgressFirst(<<>>, r)
            /\ CancelFollows(<<>>, r) /\ RequestPrecedes(<<>>, r) /\ CancelledFirst(<<>>, r)
            /\ ProgressIn(<<>>, r) = 0
  /\ \A r, how : FirstTells(<<>>, r, how)
  /\ Orderly(<<>>)
<1>1. DOMAIN <<>> = {}
  OBVIOUS
<1>2. \A r : ProgressIn(<<>>, r) = 0
  <2>1. \A r : {i \in DOMAIN <<>> : <<>>[i] = Msg("progress", r)} = {}
    BY <1>1
  <2> QED
    BY <2>1, FS_EmptySet DEF ProgressIn
<1> QED
  BY <1>1, <1>2 DEF Has, Mentions, HasClosing, ProgressFirst, CancelFollows, RequestPrecedes,
                    CancelledFirst, FirstTells, Orderly

-----------------------------------------------------------------------------
(* The channel to the page *)

\* The progress events on the way can be counted.
LEMMA ProgressCounts ==
  ASSUME NEW q \in Seq(Events), NEW r
  PROVE  /\ IsFiniteSet({i \in DOMAIN q : q[i] = Msg("progress", r)})
         /\ ProgressIn(q, r) \in Nat
<1> DEFINE S == {i \in DOMAIN q : q[i] = Msg("progress", r)}
<1>1. S \subseteq 1..Len(q) /\ Len(q) \in Nat
  OBVIOUS
<1>2. IsFiniteSet(1..Len(q))
  BY <1>1, FS_Interval
<1>3. IsFiniteSet(S)
  <2> HIDE DEF S
  <2> QED
    BY <1>1, <1>2, FS_Subset
<1> HIDE DEF S
<1>4. Cardinality(S) \in Nat
  BY <1>3, FS_CardinalityType
<1> QED
  BY <1>3, <1>4 DEF S, ProgressIn

\* What the first event leaves of each notion above when the page has taken it.
LEMMA AfterHearing ==
  ASSUME NEW q \in Seq(Events), q # <<>>
  PROVE  LET h == Head(q)
             t == Tail(q)
         IN  /\ h \in Events /\ t \in Seq(Events) /\ Mentions(q, h.request)
             /\ \A r : Mentions(t, r) => Mentions(q, r)
             /\ \A r : HasClosing(t, r) => HasClosing(q, r)
             /\ \A r : HasClosing(q, r) => IsClosing(h, r) \/ HasClosing(t, r)
             /\ \A r : IsClosing(h, r) => HasClosing(q, r)
             /\ \A r : ProgressFirst(q, r) => ProgressFirst(t, r)
             /\ \A r, how : FirstTells(q, r, how) /\ ~IsClosing(h, r) => FirstTells(t, r, how)
             /\ \A r, how : FirstTells(q, r, how) /\ IsClosing(h, r) => Told(h.type, how)
<1> DEFINE h == Head(q)
           t == Tail(q)
           n == Len(q)
<1>1. /\ n \in Nat \ {0} /\ DOMAIN q = 1..n /\ DOMAIN t = 1..(n - 1)
      /\ \A i \in DOMAIN t : i + 1 \in DOMAIN q /\ t[i] = q[i + 1]
      /\ \A i \in DOMAIN q : i = 1 \/ (i - 1 \in DOMAIN t /\ t[i - 1] = q[i])
      /\ 1 \in DOMAIN q /\ h = q[1] /\ t \in Seq(Events)
      /\ \A i \in DOMAIN q : q[i] \in Events
  OBVIOUS
<1>2. /\ DOMAIN q \subseteq Nat \ {0} /\ DOMAIN t \subseteq Nat \ {0}
      /\ \A i \in DOMAIN q : i >= 1
  BY <1>1
<1> HIDE DEF h, t, n
<1>3. /\ h \in Events /\ Mentions(q, h.request)
      /\ \A r : Mentions(t, r) => Mentions(q, r)
      /\ \A r : HasClosing(t, r) => HasClosing(q, r)
      /\ \A r : HasClosing(q, r) => IsClosing(h, r) \/ HasClosing(t, r)
      /\ \A r : IsClosing(h, r) => HasClosing(q, r)
  BY <1>1 DEF Mentions, HasClosing
<1>4. ASSUME NEW r, ProgressFirst(q, r) PROVE ProgressFirst(t, r)
  <2> SUFFICES ASSUME NEW i \in DOMAIN t, NEW j \in DOMAIN t, i < j, IsClosing(t[i], r)
               PROVE  t[j] # Msg("progress", r)
    BY DEF ProgressFirst
  <2>1. i + 1 < j + 1
    BY <1>2
  <2> QED
    BY <1>1, <1>4, <2>1 DEF ProgressFirst
<1>5. ASSUME NEW r, NEW how, FirstTells(q, r, how), ~IsClosing(h, r) PROVE FirstTells(t, r, how)
  <2> SUFFICES ASSUME NEW i \in DOMAIN t, IsClosing(t[i], r),
                      \A j \in DOMAIN t : j < i => ~IsClosing(t[j], r)
               PROVE  Told(t[i].type, how)
    BY DEF FirstTells
  <2>1. ASSUME NEW j \in DOMAIN q, j < i + 1 PROVE ~IsClosing(q[j], r)
    <3>1. CASE j = 1
      BY <1>1, <1>5, <3>1
    <3>2. CASE j # 1
      <4>1. j - 1 \in DOMAIN t /\ t[j - 1] = q[j] /\ j - 1 < i
        BY <1>1, <1>2, <2>1, <3>2
      <4> QED
        BY <4>1
    <3> QED
      BY <3>1, <3>2
  <2> QED
    BY <1>1, <1>5, <2>1 DEF FirstTells
<1>6. ASSUME NEW r, NEW how, FirstTells(q, r, how), IsClosing(h, r) PROVE Told(h.type, how)
  BY <1>1, <1>2, <1>6 DEF FirstTells
<1> QED
  BY <1>1, <1>3, <1>4, <1>5, <1>6 DEF h, t

\* Taking a progress event lowers the count of what is on the way, and none is left
\* behind a closing event.
LEMMA ProgressTaken ==
  ASSUME NEW q \in Seq(Events), q # <<>>, NEW r
  PROVE  /\ ProgressIn(q, r) =
              ProgressIn(Tail(q), r) + (IF Head(q) = Msg("progress", r) THEN 1 ELSE 0)
         /\ ProgressFirst(q, r) /\ IsClosing(Head(q), r) => ProgressIn(q, r) = 0
<1> DEFINE x == Msg("progress", r)
           n == Len(q)
           t == Tail(q)
           S == {i \in DOMAIN q : q[i] = x}
           R == {i \in DOMAIN t : t[i] = x}
           U == {i \in DOMAIN q : i # 1 /\ q[i] = x}
<1>1. /\ n \in Nat \ {0} /\ DOMAIN q = 1..n /\ t \in Seq(Events) /\ DOMAIN t = 1..(n - 1)
      /\ \A i \in DOMAIN t : t[i] = q[i + 1]
      /\ 1 \in DOMAIN q /\ Head(q) = q[1]
  OBVIOUS
<1>2. IsFiniteSet(S) /\ IsFiniteSet(R)
  BY <1>1, ProgressCounts
<1>3. Cardinality(U) = Cardinality(R) /\ IsFiniteSet(U)
  <2> DEFINE f == [i \in R |-> i + 1]
  <2> HIDE DEF n, t
  <2>1. f \in [R -> U]
    BY <1>1
  <2>2. \A i, j \in R : f[i] = f[j] => i = j
    BY <1>1
  <2>3. \A u \in U : \E i \in R : f[i] = u
    <3> SUFFICES ASSUME NEW u \in U PROVE \E i \in R : f[i] = u
      OBVIOUS
    <3>1. u - 1 \in DOMAIN t /\ t[u - 1] = q[(u - 1) + 1] /\ (u - 1) + 1 = u
      BY <1>1
    <3>2. u - 1 \in R
      BY <3>1
    <3> QED
      BY <3>1, <3>2
  <2> HIDE DEF f, R, U
  <2>4. f \in Bijection(R, U)
    BY <2>1, <2>2, <2>3 DEF Bijection, Injection, Surjection, IsInjective
  <2>5. ExistsBijection(R, U)
    BY <2>4 DEF ExistsBijection
  <2> QED
    BY <1>2, <2>5, FS_Bijection
<1>4. S = IF Head(q) = x THEN U \cup {1} ELSE U
  BY <1>1
<1>5. 1 \notin U
  OBVIOUS
<1>6. ProgressFirst(q, r) /\ IsClosing(Head(q), r) => S = {}
  <2> SUFFICES ASSUME ProgressFirst(q, r), IsClosing(Head(q), r), NEW i \in DOMAIN q
               PROVE  q[i] # x
    OBVIOUS
  <2>1. CASE i = 1
    BY <1>1, <2>1 DEF IsClosing, Msg
  <2>2. CASE i # 1
    <3>1. 1 < i
      BY <1>1, <2>2
    <3> QED
      BY <1>1, <3>1 DEF ProgressFirst
  <2> QED
    BY <2>1, <2>2
<1>7. ProgressIn(q, r) = Cardinality(S) /\ ProgressIn(t, r) = Cardinality(R)
  BY DEF ProgressIn
<1>8. Cardinality(R) \in Nat
  BY <1>1, <1>7, ProgressCounts
<1> HIDE DEF S, R, U, x, t
<1>9. CASE Head(q) = x
  <2>1. Cardinality(S) = Cardinality(U) + 1
    BY <1>3, <1>4, <1>5, <1>9, FS_AddElement
  <2> QED
    BY <1>3, <1>6, <1>7, <1>8, <1>9, <2>1, FS_EmptySet DEF t, x
<1>10. CASE Head(q) # x
  BY <1>3, <1>4, <1>6, <1>7, <1>8, <1>10, FS_EmptySet DEF t, x
<1> QED
  BY <1>9, <1>10

\* What one more event at the end does to each of them.
LEMMA AfterTelling ==
  ASSUME NEW q \in Seq(Events), NEW m \in Events
  PROVE  LET a == Append(q, m)
         IN  /\ a \in Seq(Events)
             /\ \A r : Mentions(a, r) <=> Mentions(q, r) \/ m.request = r
             /\ \A r : HasClosing(a, r) <=> HasClosing(q, r) \/ IsClosing(m, r)
             /\ \A r : ProgressFirst(q, r) /\ (m = Msg("progress", r) => ~HasClosing(q, r))
                         => ProgressFirst(a, r)
             /\ \A r, how : HasClosing(q, r) /\ FirstTells(q, r, how) => FirstTells(a, r, how)
             /\ \A r, how : ~HasClosing(q, r) /\ (IsClosing(m, r) => Told(m.type, how))
                              => FirstTells(a, r, how)
<1> DEFINE a == Append(q, m)
           n == Len(q)
<1>1. /\ n \in Nat /\ DOMAIN q = 1..n /\ DOMAIN a = 1..(n + 1) /\ a \in Seq(Events)
      /\ \A i \in DOMAIN q : i \in DOMAIN a /\ a[i] = q[i] /\ i < n + 1
      /\ n + 1 \in DOMAIN a /\ a[n + 1] = m
      /\ \A i \in DOMAIN a : i \in DOMAIN q \/ i = n + 1
  OBVIOUS
<1>2. DOMAIN q \subseteq Nat /\ DOMAIN a \subseteq Nat
  BY <1>1
<1> HIDE DEF a, n
<1>3. /\ \A r : Mentions(a, r) <=> Mentions(q, r) \/ m.request = r
      /\ \A r : HasClosing(a, r) <=> HasClosing(q, r) \/ IsClosing(m, r)
  BY <1>1 DEF Mentions, HasClosing
<1>4. ASSUME NEW r, ProgressFirst(q, r), m = Msg("progress", r) => ~HasClosing(q, r)
      PROVE  ProgressFirst(a, r)
  <2> SUFFICES ASSUME NEW i \in DOMAIN a, NEW j \in DOMAIN a, i < j, IsClosing(a[i], r)
               PROVE  a[j] # Msg("progress", r)
    BY DEF ProgressFirst
  <2>1. i \in DOMAIN q /\ a[i] = q[i]
    BY <1>1, <1>2
  <2>2. CASE j \in DOMAIN q
    BY <1>1, <1>4, <2>1, <2>2 DEF ProgressFirst
  <2>3. CASE j = n + 1
    BY <1>1, <1>4, <2>1, <2>3 DEF HasClosing
  <2> QED
    BY <1>1, <2>2, <2>3
<1>5. ASSUME NEW r, NEW how, HasClosing(q, r), FirstTells(q, r, how)
      PROVE  FirstTells(a, r, how)
  <2> SUFFICES ASSUME NEW i \in DOMAIN a, IsClosing(a[i], r),
                      \A j \in DOMAIN a : j < i => ~IsClosing(a[j], r)
               PROVE  Told(a[i].type, how)
    BY DEF FirstTells
  <2>1. i \in DOMAIN q
    BY <1>1, <1>5 DEF HasClosing
  <2> QED
    BY <1>1, <1>5, <2>1 DEF FirstTells
<1>6. ASSUME NEW r, NEW how, ~HasClosing(q, r), IsClosing(m, r) => Told(m.type, how)
      PROVE  FirstTells(a, r, how)
  BY <1>1, <1>6 DEF FirstTells, HasClosing
<1> QED
  BY <1>1, <1>3, <1>4, <1>5, <1>6 DEF a

\* An event that is sent counts where it is progress of the request.
LEMMA ProgressSent ==
  ASSUME NEW q \in Seq(Events), NEW m \in Events, NEW r
  PROVE  ProgressIn(Append(q, m), r) =
           ProgressIn(q, r) + (IF m = Msg("progress", r) THEN 1 ELSE 0)
<1> DEFINE x == Msg("progress", r)
           n == Len(q)
           a == Append(q, m)
           S == {i \in DOMAIN q : q[i] = x}
           R == {i \in DOMAIN a : a[i] = x}
<1>1. /\ n \in Nat /\ DOMAIN q = 1..n /\ DOMAIN a = 1..(n + 1)
      /\ \A i \in DOMAIN q : a[i] = q[i]
      /\ a[n + 1] = m
  OBVIOUS
<1>2. R = (IF m = x THEN S \cup {n + 1} ELSE S) /\ n + 1 \notin S
  <2> HIDE DEF a, n, x
  <2> QED
    BY <1>1
<1>3. IsFiniteSet(S) /\ ProgressIn(q, r) \in Nat
  BY ProgressCounts
<1>4. ProgressIn(q, r) = Cardinality(S) /\ ProgressIn(a, r) = Cardinality(R)
  BY DEF ProgressIn
<1> HIDE DEF S, R, a, n, x
<1>5. CASE m = x
  <2>1. Cardinality(R) = Cardinality(S) + 1
    BY <1>2, <1>3, <1>5, FS_AddElement
  <2> QED
    BY <1>4, <1>5, <2>1 DEF a, x
<1>6. CASE m # x
  BY <1>2, <1>3, <1>4, <1>6 DEF a, x
<1> QED
  BY <1>5, <1>6

-----------------------------------------------------------------------------
(* What every step of the proof reads off the invariant *)

\* A message is its kind and its request.
LEMMA MessagesDiffer ==
  /\ \A k, r, l, p : Msg(k, r) = Msg(l, p) <=> k = l /\ r = p
  /\ \A k, r : Msg(k, r).type = k /\ Msg(k, r).request = r
  /\ \A m \in Messages \cup Events : m = Msg(m.type, m.request) /\ m.request \in RequestsOfUser
  /\ \A m \in Messages : m.type \in {"request", "cancel"}
  /\ \A m \in Events : m.type \in EventNames
  /\ \A k \in {"request", "cancel"}, r \in RequestsOfUser : Msg(k, r) \in Messages
  /\ \A k \in EventNames, r \in RequestsOfUser : Msg(k, r) \in Events
<1>1. \A k, r, l, p : Msg(k, r) = Msg(l, p) => k = l /\ r = p
  <2> SUFFICES ASSUME NEW k, NEW r, NEW l, NEW p, Msg(k, r) = Msg(l, p) PROVE k = l /\ r = p
    OBVIOUS
  <2>1. /\ Msg(k, r).type = k /\ Msg(k, r).request = r
        /\ Msg(l, p).type = l /\ Msg(l, p).request = p
    BY DEF Msg
  <2> QED
    BY <2>1
<1> QED
  BY <1>1 DEF Msg, Messages, Events

\* A message on the way speaks of a request that was made.
LEMMA HasMentions ==
  ASSUME NEW q, NEW k, NEW r, Has(q, Msg(k, r))
  PROVE  Mentions(q, r)
BY MessagesDiffer DEF Has, Mentions

\* What the server has still to read is a message.
LEMMA HasTyped ==
  ASSUME NEW q \in Seq(Messages), NEW m, Has(q, m)
  PROVE  m \in Messages
<1>1. \A i \in DOMAIN q : q[i] \in Messages
  OBVIOUS
<1> QED
  BY <1>1 DEF Has

\* Nothing is known on the way of a request no event is about.
LEMMA Unmentioned ==
  ASSUME NEW q \in Seq(Events), NEW r, ~Mentions(q, r)
  PROVE  ~HasClosing(q, r) /\ ProgressIn(q, r) = 0 /\ \A how : FirstTells(q, r, how)
<1>1. ~HasClosing(q, r) /\ \A how : FirstTells(q, r, how)
  BY DEF Mentions, HasClosing, FirstTells, IsClosing
<1>2. {i \in DOMAIN q : q[i] = Msg("progress", r)} = {}
  BY MessagesDiffer DEF Mentions
<1> QED
  BY <1>1, <1>2, FS_EmptySet DEF ProgressIn

\* Requests are numbers, and none is ahead of the counter.
LEMMA Numbers ==
  ASSUME IInv
  PROVE  /\ MaxRequests \in Nat /\ MaxAttempts \in Nat /\ MaxProgress \in Nat
         /\ RequestsOfUser = 1..MaxRequests /\ None = 0 /\ None \notin RequestsOfUser
         /\ requestCounter \in Nat /\ requestCounter <= MaxRequests
         /\ pendingRequest \in Nat /\ pendingRequest <= requestCounter
         /\ activeRequest \in Nat /\ activeRequest <= requestCounter
         /\ serving \in Nat /\ serving <= requestCounter
         /\ activeRequest # None => activeRequest \in RequestsOfUser
         /\ pendingRequest # None => pendingRequest \in RequestsOfUser
         /\ serving # None => serving \in RequestsOfUser
         /\ reconnectAttempts \in Nat /\ reconnectAttempts <= MaxAttempts
<1>1. /\ MaxRequests \in Nat /\ MaxAttempts \in Nat /\ MaxProgress \in Nat
      /\ RequestsOfUser = 1..MaxRequests /\ None = 0
  BY ClientConstants DEF RequestsOfUser, None
<1>2. /\ requestCounter \in 0..MaxRequests /\ reconnectAttempts \in 0..MaxAttempts
      /\ pendingRequest \in 0..requestCounter /\ activeRequest \in 0..requestCounter
      /\ serving \in 0..requestCounter
  BY DEF IInv, TypeOK
<1>3. /\ requestCounter \in Nat /\ requestCounter <= MaxRequests
      /\ reconnectAttempts \in Nat /\ reconnectAttempts <= MaxAttempts
  BY <1>1, <1>2
<1>4. \A n \in 0..requestCounter :
        n \in Nat /\ n <= requestCounter /\ (n # None => n \in RequestsOfUser)
  BY <1>1, <1>3
<1> QED
  BY <1>1, <1>2, <1>3, <1>4

\* A request waits only while there is no connection, and then nothing is on the way.
LEMMA Together ==
  ASSUME IInv
  PROVE  /\ StateTellsSocket
         /\ serving # None => socket = "open"
         /\ toServer # <<>> \/ toClient # <<>> => socket = "open"
         /\ Waiting => activeRequest = pendingRequest /\ connectionState # "connected"
                       /\ socket # "open"
         /\ toServer \in Seq(Messages) /\ toClient \in Seq(Events)
         /\ \A r \in RequestsOfUser : shown[r] = "running" <=> activeRequest = r
         /\ \A r \in RequestsOfUser : Mentions(toServer, r) \/ Mentions(toClient, r) =>
              r <= requestCounter /\ pendingRequest # r
<1>1. RequestsOfUser \subseteq Nat /\ requestCounter \in Nat
  BY Numbers
<1> QED
  BY <1>1 DEF IInv, TypeOK, LinkInv, RunningIsWorkedOn, StateTellsSocket, PageInv, Unheard

\* The requests on their way have been made, and all but the active one are cancelled.
LEMMA OnTheWay ==
  ASSUME IInv
  PROVE  \A r : Has(toServer, Msg("request", r)) =>
           /\ r \in RequestsOfUser /\ r \in Nat /\ r <= requestCounter /\ r > serving
           /\ pendingRequest # r /\ ended[r] = "not" /\ produced[r] = 0
           /\ shown[r] \in {"running", "dismissed"}
           /\ activeRequest # r => CancelFollows(toServer, r)
           /\ \A p \in r..requestCounter : Has(toServer, Msg("request", p))
<1> SUFFICES ASSUME NEW r, Has(toServer, Msg("request", r))
             PROVE  /\ r \in RequestsOfUser /\ r \in Nat /\ r <= requestCounter /\ r > serving
                    /\ pendingRequest # r /\ ended[r] = "not" /\ produced[r] = 0
                    /\ shown[r] \in {"running", "dismissed"}
                    /\ activeRequest # r => CancelFollows(toServer, r)
                    /\ \A p \in r..requestCounter : Has(toServer, Msg("request", p))
  OBVIOUS
<1>1. Msg("request", r) \in Messages /\ Mentions(toServer, r)
  BY HasTyped, HasMentions, Together
<1>2. r \in RequestsOfUser
  BY <1>1, MessagesDiffer
<1> QED
  BY <1>1, <1>2, Numbers, Together DEF IInv, AskInv

-----------------------------------------------------------------------------
(* The page *)

\* A request made on an open connection goes out at once.
LEMMA AskingSends ==
  ASSUME IInv, NEW r \in RequestsOfUser, NEW m \in {"agent", "direct"},
         SubmitConnected(r, m), CanSend
  PROVE  IInv'
<1>0. IInv
  OBVIOUS
<1>1. /\ connectionState = "connected" /\ socket = "open" /\ activeRequest = None
      /\ requestCounter < MaxRequests /\ r = requestCounter + 1 /\ requestCounter' = r
      /\ mode' = [mode EXCEPT ![r] = m] /\ shown' = [shown EXCEPT ![r] = "running"]
      /\ toServer' = Append(toServer, Msg("request", r)) /\ activeRequest' = r
      /\ UNCHANGED <<link, pendingRequest, parts, server, toClient>>
  BY DEF SubmitConnected, Create, CanSend, Show
<1>2. /\ UNCHANGED <<socket, reconnectTimer, reconnectAttempts, connectionState>>
      /\ UNCHANGED <<serving, failing, produced, ended>>
  BY <1>1 DEF link, server
<1>3. /\ r \in Nat /\ r > requestCounter /\ Unheard(r) /\ shown[r] = "nothing"
      /\ pendingRequest = None /\ ~Waiting
  <2>1. requestCounter \in Nat
    BY Numbers
  <2>2. r \in Nat /\ r > requestCounter
    BY <1>1, <2>1
  <2>3. PageInv
    BY DEF IInv
  <2>4. Unheard(r) /\ shown[r] = "nothing"
    BY <2>2, <2>3 DEF PageInv
  <2>5. ~Waiting
    BY <1>1, Together
  <2> QED
    BY <2>2, <2>4, <2>5 DEF Waiting
<1>4. /\ \A k, p : Has(toServer', Msg(k, p)) <=>
           Has(toServer, Msg(k, p)) \/ (k = "request" /\ p = r)
      /\ \A p : Mentions(toServer', p) <=> Mentions(toServer, p) \/ p = r
      /\ toServer' \in Seq(Messages)
  BY <1>1, Together, MessagesDiffer, AfterSending
<1>5. TypeOK'
  <2>1. shown' \in [RequestsOfUser -> Final \cup {"nothing", "running", "dismissed"}]
    BY <1>0, <1>1 DEF IInv, TypeOK
  <2>2. mode' \in [RequestsOfUser -> {"agent", "direct"}]
    BY <1>0, <1>1 DEF IInv, TypeOK
  <2>3. /\ requestCounter' \in 0..MaxRequests
        /\ {pendingRequest', activeRequest', serving'} \subseteq 0..requestCounter'
    BY <1>0, <1>1, <1>2, Numbers
  <2> QED
    BY <1>0, <1>1, <1>2, <1>4, <2>1, <2>2, <2>3 DEF IInv, TypeOK
<1>6. LinkInv'
  BY <1>0, <1>1, <1>2, <1>3, <1>4 DEF IInv, LinkInv, RunningIsWorkedOn, StateTellsSocket, Waiting
<1>7. PageInv'
  <2> SUFFICES ASSUME NEW p \in RequestsOfUser
               PROVE  /\ shown'[p] = "running" <=> activeRequest' = p
                      /\ p > requestCounter' => shown'[p] = "nothing"
                      /\ p > requestCounter' \/ pendingRequest' = p => Unheard(p)'
    BY DEF PageInv
  <2>1. p > requestCounter' => p > requestCounter /\ p # r
    BY <1>1, <1>3, Numbers
  <2>2. shown'[p] = (IF p = r THEN "running" ELSE shown[p])
    BY <1>0, <1>1 DEF IInv, TypeOK
  <2>3. p # r /\ Unheard(p) => Unheard(p)'
    BY <1>1, <1>2, <1>4 DEF Unheard
  <2> QED
    BY <1>0, <1>1, <1>3, <2>1, <2>2, <2>3, Numbers DEF IInv, PageInv
<1>8. AskInv'
  <2>1. Orderly(toServer')
    <3>1. \A p : Has(toServer, Msg("request", p)) => p < r /\ CancelFollows(toServer, p)
      BY <1>0, <1>1, <1>3, OnTheWay, Numbers
    <3> QED
      BY <1>0, <1>1, <3>1, Together, MessagesDiffer, AfterSending DEF IInv, AskInv
  <2>2. ASSUME NEW p \in RequestsOfUser, Has(toServer', Msg("request", p))
        PROVE  /\ ended'[p] = "not" /\ produced'[p] = 0 /\ p > serving'
               /\ shown'[p] \in {"running", "dismissed"}
               /\ activeRequest' # p => CancelFollows(toServer', p)
               /\ \A x \in p..requestCounter' : Has(toServer', Msg("request", x))
    <3>1. CASE p = r
      BY <1>0, <1>1, <1>2, <1>3, <1>4, <3>1, Numbers DEF IInv, TypeOK, Unheard
    <3>2. CASE p # r
      <4>1. Has(toServer, Msg("request", p))
        BY <1>4, <2>2, <3>2
      <4>2. CancelFollows(toServer', p)
        <5>1. p \in RequestsOfUser /\ p \in Nat /\ p <= requestCounter
          BY <4>1, OnTheWay
        <5>2. CancelFollows(toServer, p)
          <6>1. activeRequest # p
            BY <1>1, Numbers
          <6> QED
            BY <4>1, <6>1, OnTheWay
        <5>3. Msg("request", r) \in Messages /\ Msg("request", r) # Msg("request", p)
          BY <3>2, MessagesDiffer
        <5> QED
          BY <1>1, <5>2, <5>3, Together, AfterSending
      <4>3. \A x \in p..requestCounter' : Has(toServer', Msg("request", x))
        <5>1. \A x \in p..requestCounter : Has(toServer, Msg("request", x))
          BY <4>1, OnTheWay
        <5>2. p \in Nat /\ requestCounter \in Nat
          BY <4>1, OnTheWay, Numbers
        <5>3. \A x \in p..requestCounter' : x = r \/ x \in p..requestCounter
          BY <1>1, <5>2
        <5> QED
          BY <1>4, <5>1, <5>3
      <4>4. ended[p] = "not" /\ produced[p] = 0 /\ p > serving
            /\ shown[p] \in {"running", "dismissed"}
        BY <4>1, OnTheWay
      <4>5. shown'[p] = shown[p]
        BY <1>0, <1>1, <3>2 DEF IInv, TypeOK
      <4> QED
        BY <1>2, <4>2, <4>3, <4>4, <4>5
    <3> QED
      BY <3>1, <3>2
  <2> QED
    BY <2>1, <2>2 DEF AskInv
<1>9. CancelInv'
  <2>1. ASSUME NEW p \in RequestsOfUser, Has(toServer', Msg("cancel", p))
        PROVE  serving' = p \/ ended'[p] # "not" \/ RequestPrecedes(toServer', p)
    BY <1>0, <1>1, <1>2, <1>4, <2>1, Together, MessagesDiffer, AfterSending DEF IInv, CancelInv
  <2>2. activeRequest' # None /\ socket' = "open" /\ ended'[activeRequest'] = "not" =>
          serving' = activeRequest' \/ Has(toServer', Msg("request", activeRequest'))
    BY <1>1, <1>4
  <2> QED
    BY <2>1, <2>2 DEF CancelInv
<1>10. ServeInv'
  <2>1. serving # None => serving # r /\ serving \in RequestsOfUser /\ serving <= requestCounter
    BY <1>0, <1>1, Numbers
  <2>2. serving # None => \A p \in (serving + 1)..requestCounter' :
          ended[p] = "refused" \/ Has(toServer', Msg("request", p))
    <3> SUFFICES ASSUME serving # None, NEW p \in (serving + 1)..requestCounter'
                 PROVE  ended[p] = "refused" \/ Has(toServer', Msg("request", p))
      OBVIOUS
    <3>1. p = r \/ p \in (serving + 1)..requestCounter
      BY <1>1, <1>3, Numbers
    <3>2. CASE p = r
      BY <1>4, <3>2
    <3>3. CASE p \in (serving + 1)..requestCounter
      BY <1>4, <3>3 DEF IInv, ServeInv
    <3> QED
      BY <3>1, <3>2, <3>3
  <2>3. serving # None /\ ~failing => CancelledFirst(toServer', serving)
    BY <1>0, <1>1, <2>1, Together, MessagesDiffer, AfterSending DEF IInv, ServeInv
  <2> QED
    BY <1>0, <1>1, <1>2, <1>4, <2>1, <2>2, <2>3 DEF IInv, ServeInv, TypeOK
<1>11. AnswerInv'
  <2>1. ~HasClosing(toClient, r) /\ ProgressIn(toClient, r) = 0 /\ FirstTells(toClient, r, ended[r])
    BY <1>0, <1>3, Together, Unmentioned DEF Unheard
  <2> QED
    BY <1>0, <1>1, <1>2, <1>3, <2>1 DEF IInv, AnswerInv, Unheard
<1>12. ShownMatchesServer'
  <2>1. \A p \in RequestsOfUser : shown'[p] = (IF p = r THEN "running" ELSE shown[p])
    BY <1>0, <1>1 DEF IInv, TypeOK
  <2> QED
    BY <1>0, <1>1, <1>2, <2>1 DEF IInv, ShownMatchesServer
<1> QED
  BY <1>5, <1>6, <1>7, <1>8, <1>9, <1>10, <1>11, <1>12 DEF IInv

\* On a closing socket the call throws and the request fails on the page.
LEMMA AskingThrows ==
  ASSUME IInv, NEW r \in RequestsOfUser, NEW m \in {"agent", "direct"},
         SubmitConnected(r, m), ~CanSend
  PROVE  IInv'
<1>0. IInv
  OBVIOUS
<1>1. /\ connectionState = "connected" /\ socket # "open" /\ activeRequest = None
      /\ requestCounter < MaxRequests /\ r = requestCounter + 1 /\ requestCounter' = r
      /\ mode' = [mode EXCEPT ![r] = m] /\ shown' = [shown EXCEPT ![r] = "failed"]
      /\ activeRequest' = None /\ pendingRequest' = None
      /\ UNCHANGED <<link, parts, server, toServer, toClient>>
  BY DEF SubmitConnected, Create, CanSend, Show
<1>2. /\ UNCHANGED <<socket, reconnectTimer, reconnectAttempts, connectionState>>
      /\ UNCHANGED <<serving, failing, produced, ended>>
  BY <1>1 DEF link, server
<1>3. /\ r \in Nat /\ r > requestCounter /\ Unheard(r)
      /\ serving = None /\ toServer = <<>> /\ toClient = <<>>
  BY <1>1, Numbers, Together DEF IInv, PageInv
<1>4. \A p \in RequestsOfUser : shown'[p] = (IF p = r THEN "failed" ELSE shown[p])
  BY <1>0, <1>1 DEF IInv, TypeOK
<1>5. TypeOK'
  <2>1. shown' \in [RequestsOfUser -> Final \cup {"nothing", "running", "dismissed"}]
    BY <1>0, <1>1 DEF IInv, TypeOK, Final
  <2>2. mode' \in [RequestsOfUser -> {"agent", "direct"}]
    BY <1>0, <1>1 DEF IInv, TypeOK
  <2>3. /\ requestCounter' \in 0..MaxRequests
        /\ {pendingRequest', activeRequest', serving'} \subseteq 0..requestCounter'
    BY <1>0, <1>1, <1>2, Numbers
  <2> QED
    BY <1>0, <1>1, <1>2, <2>1, <2>2, <2>3 DEF IInv, TypeOK
<1>6. LinkInv'
  BY <1>0, <1>1, <1>2, <1>3, <1>4 DEF IInv, LinkInv, RunningIsWorkedOn, StateTellsSocket, Waiting
<1>7. PageInv'
  <2> SUFFICES ASSUME NEW p \in RequestsOfUser
               PROVE  /\ shown'[p] = "running" <=> activeRequest' = p
                      /\ p > requestCounter' => shown'[p] = "nothing"
                      /\ p > requestCounter' \/ pendingRequest' = p => Unheard(p)'
    BY DEF PageInv
  <2>1. p > requestCounter' => p > requestCounter /\ p # r
    BY <1>1, <1>3, Numbers
  <2>2. Unheard(p) => Unheard(p)'
    BY <1>1, <1>2 DEF Unheard
  <2> QED
    BY <1>0, <1>1, <1>4, <2>1, <2>2, Numbers DEF IInv, PageInv
<1>8. AskInv'
  BY <1>1, <1>3, NothingOnTheWay DEF AskInv
<1>9. CancelInv'
  BY <1>1, <1>3, NothingOnTheWay DEF CancelInv
<1>10. ServeInv'
  BY <1>0, <1>1, <1>2, <1>3 DEF IInv, ServeInv
<1>11. AnswerInv'
  BY <1>0, <1>1, <1>2 DEF IInv, AnswerInv
<1>12. ShownMatchesServer'
  BY <1>0, <1>1, <1>2, <1>3, <1>4 DEF IInv, ShownMatchesServer, Unheard
<1> QED
  BY <1>5, <1>6, <1>7, <1>8, <1>9, <1>10, <1>11, <1>12 DEF IInv

\* Without a connection the request waits for the one that is now attempted.
LEMMA AskingConnects ==
  ASSUME IInv, NEW r \in RequestsOfUser, NEW m \in {"agent", "direct"}, SubmitAndConnect(r, m)
  PROVE  IInv'
<1>0. IInv
  OBVIOUS
<1>1. /\ connectionState # "connected" /\ activeRequest = None
      /\ requestCounter < MaxRequests /\ r = requestCounter + 1 /\ requestCounter' = r
      /\ mode' = [mode EXCEPT ![r] = m] /\ shown' = [shown EXCEPT ![r] = "running"]
      /\ activeRequest' = r /\ pendingRequest' = r
      /\ socket' = "connecting" /\ connectionState' = "connecting" /\ reconnectTimer' = FALSE
      /\ UNCHANGED <<reconnectAttempts, parts, server, toServer, toClient>>
  BY DEF SubmitAndConnect, Create
<1>2. UNCHANGED <<serving, failing, produced, ended>>
  BY <1>1 DEF server
<1>3. /\ r \in Nat /\ r > requestCounter /\ Unheard(r) /\ socket # "open"
      /\ serving = None /\ failing = FALSE /\ toServer = <<>> /\ toClient = <<>>
  <2>1. socket # "open"
    BY <1>1, Together DEF StateTellsSocket
  <2>2. r \in Nat /\ r > requestCounter
    BY <1>1, Numbers
  <2> QED
    BY <2>1, <2>2 DEF IInv, PageInv, LinkInv
<1>4. \A p \in RequestsOfUser : shown'[p] = (IF p = r THEN "running" ELSE shown[p])
  BY <1>0, <1>1 DEF IInv, TypeOK
<1>5. TypeOK'
  <2>1. shown' \in [RequestsOfUser -> Final \cup {"nothing", "running", "dismissed"}]
    BY <1>0, <1>1 DEF IInv, TypeOK, Final
  <2>2. mode' \in [RequestsOfUser -> {"agent", "direct"}]
    BY <1>0, <1>1 DEF IInv, TypeOK
  <2>3. /\ requestCounter' \in 0..MaxRequests
        /\ {pendingRequest', activeRequest', serving'} \subseteq 0..requestCounter'
    BY <1>0, <1>1, <1>2, Numbers
  <2> QED
    BY <1>0, <1>1, <1>2, <2>1, <2>2, <2>3 DEF IInv, TypeOK
<1>6. LinkInv'
  BY <1>0, <1>1, <1>2, <1>3
  DEF IInv, LinkInv, RunningIsWorkedOn, StateTellsSocket, Waiting
<1>7. PageInv'
  <2> SUFFICES ASSUME NEW p \in RequestsOfUser
               PROVE  /\ shown'[p] = "running" <=> activeRequest' = p
                      /\ p > requestCounter' => shown'[p] = "nothing"
                      /\ p > requestCounter' \/ pendingRequest' = p => Unheard(p)'
    BY DEF PageInv
  <2>1. p > requestCounter' => p > requestCounter /\ p # r
    BY <1>1, <1>3, Numbers
  <2>2. Unheard(p) => Unheard(p)'
    BY <1>1, <1>2 DEF Unheard
  <2> QED
    BY <1>0, <1>1, <1>3, <1>4, <2>1, <2>2, Numbers DEF IInv, PageInv
<1>8. AskInv'
  BY <1>1, <1>3, NothingOnTheWay DEF AskInv
<1>9. CancelInv'
  BY <1>1, <1>3, NothingOnTheWay DEF CancelInv
<1>10. ServeInv'
  BY <1>0, <1>1, <1>2, <1>3 DEF IInv, ServeInv
<1>11. AnswerInv'
  BY <1>0, <1>1, <1>2 DEF IInv, AnswerInv
<1>12. ShownMatchesServer'
  BY <1>0, <1>1, <1>2, <1>3, <1>4 DEF IInv, ShownMatchesServer, Unheard
<1> QED
  BY <1>5, <1>6, <1>7, <1>8, <1>9, <1>10, <1>11, <1>12 DEF IInv

\* A request that waits is cancelled on the page alone.
LEMMA CancellingWaiting ==
  ASSUME IInv, CancelPending
  PROVE  IInv'
<1>0. IInv
  OBVIOUS
<1>1. /\ activeRequest # None /\ pendingRequest # None
      /\ shown' = [shown EXCEPT ![activeRequest] = "cancelled"]
      /\ activeRequest' = None /\ pendingRequest' = None
      /\ UNCHANGED <<requestCounter, mode, parts, link, server, toServer, toClient>>
  BY DEF CancelPending, Show, Waiting, net
<1>2. /\ UNCHANGED <<socket, reconnectTimer, reconnectAttempts, connectionState>>
      /\ UNCHANGED <<serving, failing, produced, ended>>
  BY <1>1 DEF link, server
<1>3. /\ activeRequest \in RequestsOfUser /\ Unheard(activeRequest)
      /\ serving = None /\ toServer = <<>> /\ toClient = <<>>
  BY <1>0, <1>1, Numbers, Together DEF IInv, PageInv, Waiting
<1>4. \A p \in RequestsOfUser : shown'[p] = (IF p = activeRequest THEN "cancelled" ELSE shown[p])
  BY <1>0, <1>1 DEF IInv, TypeOK
<1>5. TypeOK'
  <2>1. shown' \in [RequestsOfUser -> Final \cup {"nothing", "running", "dismissed"}]
    BY <1>0, <1>1, <1>3 DEF IInv, TypeOK, Final
  <2>2. {pendingRequest', activeRequest', serving'} \subseteq 0..requestCounter'
    BY <1>0, <1>1, <1>2, Numbers
  <2> QED
    BY <1>0, <1>1, <1>2, <2>1, <2>2 DEF IInv, TypeOK
<1>6. LinkInv'
  BY <1>0, <1>1, <1>2, <1>3, <1>4 DEF IInv, LinkInv, RunningIsWorkedOn, StateTellsSocket, Waiting
<1>7. PageInv'
  <2> SUFFICES ASSUME NEW p \in RequestsOfUser
               PROVE  /\ shown'[p] = "running" <=> activeRequest' = p
                      /\ p > requestCounter' => shown'[p] = "nothing"
                      /\ p > requestCounter' \/ pendingRequest' = p => Unheard(p)'
    BY DEF PageInv
  <2>1. Unheard(p) => Unheard(p)'
    BY <1>1, <1>2 DEF Unheard
  <2> QED
    BY <1>0, <1>1, <1>3, <1>4, <2>1, Numbers DEF IInv, PageInv
<1>8. AskInv'
  BY <1>1, <1>3, NothingOnTheWay DEF AskInv
<1>9. CancelInv'
  BY <1>1, <1>3, NothingOnTheWay DEF CancelInv
<1>10. ServeInv'
  BY <1>0, <1>1, <1>2, <1>3 DEF IInv, ServeInv
<1>11. AnswerInv'
  BY <1>0, <1>1, <1>2 DEF IInv, AnswerInv
<1>12. ShownMatchesServer'
  BY <1>0, <1>1, <1>2, <1>3, <1>4, Numbers DEF IInv, ShownMatchesServer, Unheard
<1> QED
  BY <1>5, <1>6, <1>7, <1>8, <1>9, <1>10, <1>11, <1>12 DEF IInv

\* What a cancellation of the active request adds to the way to the server.
LEMMA CancellationSent ==
  ASSUME IInv, activeRequest # None, socket = "open"
  PROVE  LET a == activeRequest
             q == Append(toServer, Msg("cancel", a))
         IN  /\ q \in Seq(Messages) /\ a \in RequestsOfUser /\ a <= requestCounter /\ a \in Nat
             /\ \A k, p : Has(q, Msg(k, p)) <=>
                  Has(toServer, Msg(k, p)) \/ (k = "cancel" /\ p = a)
             /\ \A p : Mentions(q, p) <=> Mentions(toServer, p) \/ p = a
             /\ Orderly(q) /\ CancelFollows(q, a)
             /\ \A p : CancelFollows(toServer, p) => CancelFollows(q, p)
             /\ \A p : CancelledFirst(toServer, p) => CancelledFirst(q, p)
             /\ \A p \in RequestsOfUser : Has(q, Msg("cancel", p)) =>
                  serving = p \/ ended[p] # "not" \/ RequestPrecedes(q, p)
<1> DEFINE a == activeRequest
           m == Msg("cancel", a)
           q == Append(toServer, m)
<1>1. toServer \in Seq(Messages) /\ m \in Messages /\ m.type = "cancel" /\ m.request = a
  BY Together, Numbers, MessagesDiffer
<1>2. /\ q \in Seq(Messages)
      /\ \A k, p : Has(q, Msg(k, p)) <=> Has(toServer, Msg(k, p)) \/ (k = "cancel" /\ p = a)
      /\ \A p : Mentions(q, p) <=> Mentions(toServer, p) \/ p = a
  BY <1>1, AfterSending, MessagesDiffer
<1>3. /\ CancelFollows(q, a)
      /\ \A p : CancelFollows(toServer, p) => CancelFollows(q, p)
      /\ \A p : CancelledFirst(toServer, p) => CancelledFirst(q, p)
  BY <1>1, AfterSending, MessagesDiffer
<1>4. Orderly(q)
  BY <1>1, AfterSending DEF IInv, AskInv
<1>5. ASSUME NEW p \in RequestsOfUser, Has(q, Msg("cancel", p)),
             serving # p, ended[p] = "not"
      PROVE  RequestPrecedes(q, p)
  <2>1. ~Has(toServer, Msg("cancel", p)) => RequestPrecedes(toServer, p)
    BY DEF RequestPrecedes, Has
  <2>2. RequestPrecedes(toServer, p)
    BY <1>5, <2>1 DEF IInv, CancelInv
  <2>3. p = a => Has(toServer, Msg("request", p))
    BY <1>5 DEF IInv, CancelInv
  <2>4. m = Msg("cancel", p) => p = a
    BY MessagesDiffer
  <2> HIDE DEF m
  <2> QED
    BY <1>1, <2>2, <2>3, <2>4, AfterSending
<1> QED
  BY <1>2, <1>3, <1>4, <1>5, Numbers

\* A cancellation goes out, the page waits for the answer.
LEMMA CancellingSent ==
  ASSUME IInv, CancelSent
  PROVE  IInv'
<1>0. IInv
  OBVIOUS
<1>1. /\ activeRequest # None /\ pendingRequest = None /\ socket = "open"
      /\ toServer' = Append(toServer, Msg("cancel", activeRequest))
      /\ UNCHANGED <<page, link, server, toClient>>
  BY DEF CancelSent, CanSend, Waiting
<1>2. /\ UNCHANGED <<requestCounter, mode, pendingRequest, activeRequest, shown, parts>>
      /\ UNCHANGED <<socket, reconnectTimer, reconnectAttempts, connectionState>>
      /\ UNCHANGED <<serving, failing, produced, ended>>
  BY <1>1 DEF page, link, server
<1>3. pendingRequest' = None /\ ~Waiting
  BY <1>1, <1>2 DEF Waiting
<1>4. /\ toServer' \in Seq(Messages) /\ activeRequest \in RequestsOfUser
      /\ activeRequest <= requestCounter /\ activeRequest \in Nat
      /\ \A k, p : Has(toServer', Msg(k, p)) <=>
           Has(toServer, Msg(k, p)) \/ (k = "cancel" /\ p = activeRequest)
      /\ \A p : Mentions(toServer', p) <=> Mentions(toServer, p) \/ p = activeRequest
      /\ \A p : Has(toServer', Msg("request", p)) <=> Has(toServer, Msg("request", p))
  BY <1>1, CancellationSent, MessagesDiffer
<1>5. /\ Orderly(toServer') /\ CancelFollows(toServer', activeRequest)
      /\ \A p : CancelFollows(toServer, p) => CancelFollows(toServer', p)
      /\ \A p : CancelledFirst(toServer, p) => CancelledFirst(toServer', p)
      /\ \A p \in RequestsOfUser : Has(toServer', Msg("cancel", p)) =>
           serving = p \/ ended[p] # "not" \/ RequestPrecedes(toServer', p)
  BY <1>1, CancellationSent
<1>6. TypeOK'
  BY <1>0, <1>1, <1>2, <1>4 DEF IInv, TypeOK
<1>7. LinkInv'
  BY <1>0, <1>1, <1>2, <1>3, <1>4, <1>5 DEF IInv, LinkInv, RunningIsWorkedOn, StateTellsSocket, Waiting
<1>8. PageInv'
  <2> SUFFICES ASSUME NEW p \in RequestsOfUser
               PROVE  /\ shown'[p] = "running" <=> activeRequest' = p
                      /\ p > requestCounter' => shown'[p] = "nothing"
                      /\ p > requestCounter' \/ pendingRequest' = p => Unheard(p)'
    BY DEF PageInv
  <2>1. p > requestCounter => p # activeRequest
    BY <1>4, Numbers
  <2> QED
    BY <1>0, <1>1, <1>2, <1>3, <1>4, <2>1, Numbers DEF IInv, PageInv, Unheard
<1>9. AskInv'
  <2> SUFFICES ASSUME NEW p \in RequestsOfUser, Has(toServer, Msg("request", p))
               PROVE  /\ ended'[p] = "not" /\ produced'[p] = 0 /\ p > serving'
                      /\ shown'[p] \in {"running", "dismissed"}
                      /\ activeRequest' # p => CancelFollows(toServer', p)
                      /\ \A x \in p..requestCounter' : Has(toServer', Msg("request", x))
    BY <1>4, <1>5 DEF AskInv
  <2> QED
    BY <1>0, <1>2, <1>4, <1>5, OnTheWay
<1>10. CancelInv'
  BY <1>0, <1>1, <1>2, <1>4, <1>5 DEF IInv, CancelInv
<1>11. ServeInv'
  BY <1>0, <1>1, <1>2, <1>4, <1>5 DEF IInv, ServeInv
<1>12. AnswerInv'
  BY <1>0, <1>1, <1>2 DEF IInv, AnswerInv
<1>13. ShownMatchesServer'
  BY <1>0, <1>1, <1>2 DEF IInv, ShownMatchesServer
<1> QED
  BY <1>6, <1>7, <1>8, <1>9, <1>10, <1>11, <1>12, <1>13 DEF IInv

\* A reset cancels the request in hand when a connection is open.
LEMMA ResettingCancels ==
  ASSUME IInv, ResetConversation, activeRequest # None, ~Waiting,
         connectionState = "connected", CanSend
  PROVE  IInv'
<1>0. IInv
  OBVIOUS
<1>1. /\ shown' = [p \in RequestsOfUser |-> IF p <= requestCounter THEN "dismissed" ELSE shown[p]]
      /\ activeRequest' = None /\ pendingRequest' = None
      /\ toServer' = Append(toServer, Msg("cancel", activeRequest)) /\ socket = "open"
      /\ UNCHANGED <<requestCounter, mode, parts, link, server, toClient>>
  BY DEF ResetConversation, CanSend
<1>2. /\ UNCHANGED <<socket, reconnectTimer, reconnectAttempts, connectionState>>
      /\ UNCHANGED <<serving, failing, produced, ended>>
  BY <1>1 DEF link, server
<1>3. toServer' \in Seq(Messages)
  BY <1>1, CancellationSent
<1>4. /\ activeRequest \in RequestsOfUser
      /\ activeRequest <= requestCounter /\ activeRequest \in Nat
      /\ \A k, p : Has(toServer', Msg(k, p)) <=>
           Has(toServer, Msg(k, p)) \/ (k = "cancel" /\ p = activeRequest)
      /\ \A p : Mentions(toServer', p) <=> Mentions(toServer, p) \/ p = activeRequest
      /\ \A p : Has(toServer', Msg("request", p)) <=> Has(toServer, Msg("request", p))
  BY <1>1, CancellationSent, MessagesDiffer
<1>5. /\ Orderly(toServer') /\ CancelFollows(toServer', activeRequest)
      /\ \A p : CancelFollows(toServer, p) => CancelFollows(toServer', p)
      /\ \A p : CancelledFirst(toServer, p) => CancelledFirst(toServer', p)
      /\ \A p \in RequestsOfUser : Has(toServer', Msg("cancel", p)) =>
           serving = p \/ ended[p] # "not" \/ RequestPrecedes(toServer', p)
  BY <1>1, CancellationSent
<1>6. TypeOK'
  <2>1. shown' \in [RequestsOfUser -> Final \cup {"nothing", "running", "dismissed"}]
    BY <1>0, <1>1 DEF IInv, TypeOK
  <2>2. {pendingRequest', activeRequest', serving'} \subseteq 0..requestCounter'
    BY <1>0, <1>1, <1>2, Numbers
  <2> QED
    BY <1>0, <1>1, <1>2, <1>3, <2>1, <2>2 DEF IInv, TypeOK
<1>7. LinkInv'
  BY <1>0, <1>1, <1>2, <1>3, <1>4, <1>5 DEF IInv, LinkInv, RunningIsWorkedOn, StateTellsSocket, Waiting
<1>8. PageInv'
  <2> SUFFICES ASSUME NEW p \in RequestsOfUser
               PROVE  /\ shown'[p] = "running" <=> activeRequest' = p
                      /\ p > requestCounter' => shown'[p] = "nothing"
                      /\ p > requestCounter' \/ pendingRequest' = p => Unheard(p)'
    BY DEF PageInv
  <2>1. Unheard(p) /\ p > requestCounter => Unheard(p)'
    BY <1>1, <1>2, <1>4, Numbers DEF Unheard
  <2>2. shown'[p] # "running"
    BY <1>0, <1>1, Numbers DEF IInv, PageInv
  <2>3. p # None /\ (p > requestCounter => shown'[p] = shown[p])
    BY <1>0, <1>1, Numbers
  <2> QED
    BY <1>0, <1>1, <1>2, <2>1, <2>2, <2>3 DEF IInv, PageInv
<1>9. AskInv'
  <2> SUFFICES ASSUME NEW p \in RequestsOfUser, Has(toServer, Msg("request", p))
               PROVE  /\ ended'[p] = "not" /\ produced'[p] = 0 /\ p > serving'
                      /\ shown'[p] \in {"running", "dismissed"}
                      /\ activeRequest' # p => CancelFollows(toServer', p)
                      /\ \A x \in p..requestCounter' : Has(toServer', Msg("request", x))
    BY <1>4, <1>5 DEF AskInv
  <2> QED
    BY <1>0, <1>1, <1>2, <1>4, <1>5, OnTheWay
<1>10. CancelInv'
  BY <1>1, <1>2, <1>5 DEF CancelInv
<1>11. ServeInv'
  <2>1. serving # None => serving \in RequestsOfUser /\ serving <= requestCounter
    BY <1>0, Numbers
  <2> QED
    BY <1>0, <1>1, <1>2, <1>3, <1>4, <1>5, <2>1 DEF IInv, ServeInv
<1>12. AnswerInv'
  BY <1>0, <1>1, <1>2 DEF IInv, AnswerInv
<1>13. ShownMatchesServer'
  BY <1>0, <1>1, <1>2 DEF IInv, ShownMatchesServer
<1> QED
  BY <1>6, <1>7, <1>8, <1>9, <1>10, <1>11, <1>12, <1>13 DEF IInv

\* Otherwise it is a matter of the page alone.
LEMMA ResettingQuietly ==
  ASSUME IInv, ResetConversation,
         ~(activeRequest # None /\ ~Waiting /\ connectionState = "connected" /\ CanSend)
  PROVE  IInv'
<1>0. IInv
  OBVIOUS
<1>1. /\ shown' = [p \in RequestsOfUser |-> IF p <= requestCounter THEN "dismissed" ELSE shown[p]]
      /\ activeRequest' = None /\ pendingRequest' = None
      /\ toServer' = toServer
      /\ UNCHANGED <<requestCounter, mode, parts, link, server, toClient>>
  BY DEF ResetConversation
<1>2. /\ UNCHANGED <<socket, reconnectTimer, reconnectAttempts, connectionState>>
      /\ UNCHANGED <<serving, failing, produced, ended>>
  BY <1>1 DEF link, server
<1>3. activeRequest = None \/ socket # "open"
  BY Together DEF IInv, LinkInv, RunningIsWorkedOn, CanSend
<1>4. /\ toServer' \in Seq(Messages)
      /\ activeRequest # None => toServer = <<>> /\ serving = None
  BY <1>0, <1>1, <1>3, Together
<1>5. \A k, p : Has(toServer, Msg(k, p)) => activeRequest = None
  BY <1>4, NothingOnTheWay
<1>6. TypeOK'
  <2>1. shown' \in [RequestsOfUser -> Final \cup {"nothing", "running", "dismissed"}]
    BY <1>0, <1>1 DEF IInv, TypeOK
  <2>2. {pendingRequest', activeRequest', serving'} \subseteq 0..requestCounter'
    BY <1>0, <1>1, <1>2, Numbers
  <2> QED
    BY <1>0, <1>1, <1>2, <1>3, <2>1, <2>2 DEF IInv, TypeOK
<1>7. LinkInv'
  BY <1>0, <1>1, <1>2, <1>3, <1>4, <1>5 DEF IInv, LinkInv, RunningIsWorkedOn, StateTellsSocket, Waiting
<1>8. PageInv'
  <2> SUFFICES ASSUME NEW p \in RequestsOfUser
               PROVE  /\ shown'[p] = "running" <=> activeRequest' = p
                      /\ p > requestCounter' => shown'[p] = "nothing"
                      /\ p > requestCounter' \/ pendingRequest' = p => Unheard(p)'
    BY DEF PageInv
  <2>1. Unheard(p) /\ p > requestCounter => Unheard(p)'
    BY <1>1, <1>2, <1>4 DEF Unheard
  <2>2. shown'[p] # "running"
    BY <1>0, <1>1, Numbers DEF IInv, PageInv
  <2>3. p # None /\ (p > requestCounter => shown'[p] = shown[p])
    BY <1>0, <1>1, Numbers
  <2> QED
    BY <1>0, <1>1, <1>2, <2>1, <2>2, <2>3 DEF IInv, PageInv
<1>9. AskInv'
  <2> SUFFICES ASSUME NEW p \in RequestsOfUser, Has(toServer, Msg("request", p))
               PROVE  /\ ended'[p] = "not" /\ produced'[p] = 0 /\ p > serving'
                      /\ shown'[p] \in {"running", "dismissed"}
                      /\ activeRequest' # p => CancelFollows(toServer', p)
                      /\ \A x \in p..requestCounter' : Has(toServer', Msg("request", x))
    BY <1>0, <1>1 DEF IInv, AskInv
  <2> QED
    BY <1>0, <1>1, <1>2, <1>5, OnTheWay
<1>10. CancelInv'
  BY <1>0, <1>1, <1>2 DEF IInv, CancelInv
<1>11. ServeInv'
  <2>1. serving # None => serving \in RequestsOfUser /\ serving <= requestCounter
    BY <1>0, Numbers
  <2> QED
    BY <1>0, <1>1, <1>2, <1>3, <1>4, <1>5, <2>1 DEF IInv, ServeInv
<1>12. AnswerInv'
  BY <1>0, <1>1, <1>2 DEF IInv, AnswerInv
<1>13. ShownMatchesServer'
  BY <1>0, <1>1, <1>2 DEF IInv, ShownMatchesServer
<1> QED
  BY <1>6, <1>7, <1>8, <1>9, <1>10, <1>11, <1>12, <1>13 DEF IInv

-----------------------------------------------------------------------------
(* The socket *)

\* A request that waited goes out as the first message of the connection.
LEMMA OpeningAsks ==
  ASSUME IInv, SocketOpens, Waiting
  PROVE  IInv'
<1>0. IInv
  OBVIOUS
<1>1. /\ pendingRequest # None /\ socket = "connecting" /\ socket' = "open"
      /\ reconnectAttempts' = 0 /\ connectionState' = "connected"
      /\ toServer' = Append(<<>>, Msg("request", pendingRequest)) /\ pendingRequest' = None
      /\ UNCHANGED <<reconnectTimer, requestCounter, mode, activeRequest, shown, parts,
                     server, toClient>>
  BY DEF SocketOpens, Waiting
<1>2. UNCHANGED <<serving, failing, produced, ended>>
  BY <1>1 DEF server
<1>3. /\ serving = None /\ failing = FALSE /\ toServer = <<>> /\ toClient = <<>>
      /\ activeRequest = pendingRequest /\ activeRequest = requestCounter
      /\ activeRequest \in RequestsOfUser /\ Unheard(activeRequest) /\ reconnectTimer = FALSE
      /\ shown[activeRequest] = "running" 
  BY <1>0, <1>1, Together, Numbers DEF IInv, LinkInv, PageInv, StateTellsSocket, TypeOK
<1>4. /\ toServer' \in Seq(Messages) /\ Orderly(toServer')
      /\ \A k, p : Has(toServer', Msg(k, p)) <=> k = "request" /\ p = activeRequest
      /\ \A p : Mentions(toServer', p) <=> p = activeRequest
  <2> DEFINE m == Msg("request", pendingRequest)
  <2>1. /\ <<>> \in Seq(Messages) /\ m \in Messages /\ m.type = "request"
        /\ m.request = activeRequest /\ m = Msg("request", activeRequest)
    BY <1>3, MessagesDiffer
  <2>2. toServer' = Append(<<>>, m)
    BY <1>1
  <2> HIDE DEF m
  <2>3. toServer' \in Seq(Messages) /\ Orderly(toServer')
    BY <2>1, <2>2, AfterSending, NothingOnTheWay
  <2>4. /\ \A x : Has(toServer', x) <=> x = m
        /\ \A p : Mentions(toServer', p) <=> p = activeRequest
    BY <2>1, <2>2, AfterSending, NothingOnTheWay
  <2> QED
    BY <2>1, <2>3, <2>4, MessagesDiffer
<1>5. TypeOK'
  <2>1. reconnectAttempts' \in 0..MaxAttempts
    BY <1>0, <1>1, Numbers
  <2>2. {pendingRequest', activeRequest', serving'} \subseteq 0..requestCounter'
    BY <1>0, <1>1, <1>2, Numbers
  <2> QED
    BY <1>0, <1>1, <1>2, <1>4, <2>1, <2>2 DEF IInv, TypeOK
<1>6. LinkInv'
  BY <1>0, <1>1, <1>2, <1>3
  DEF IInv, LinkInv, RunningIsWorkedOn, StateTellsSocket, Waiting
<1>7. PageInv'
  <2> SUFFICES ASSUME NEW p \in RequestsOfUser
               PROVE  /\ shown'[p] = "running" <=> activeRequest' = p
                      /\ p > requestCounter' => shown'[p] = "nothing"
                      /\ p > requestCounter' \/ pendingRequest' = p => Unheard(p)'
    BY DEF PageInv
  <2>1. p > requestCounter /\ Unheard(p) => Unheard(p)'
    BY <1>1, <1>2, <1>3, <1>4, Numbers DEF Unheard
  <2> QED
    BY <1>0, <1>1, <2>1, Numbers DEF IInv, PageInv
<1>8. AskInv'
  <2>1. \A x \in activeRequest..requestCounter : x = activeRequest
    BY <1>3, Numbers
  <2>2. activeRequest > serving
    BY <1>3, Numbers
  <2> QED
    BY <1>1, <1>2, <1>3, <1>4, <2>1, <2>2 DEF AskInv, Unheard
<1>9. CancelInv'
  BY <1>1, <1>4 DEF CancelInv
<1>10. ServeInv'
  BY <1>2, <1>3 DEF ServeInv
<1>11. AnswerInv'
  BY <1>1, <1>2, <1>3, NothingOnTheWay DEF AnswerInv, Unheard
<1>12. ShownMatchesServer'
  BY <1>0, <1>1, <1>2 DEF IInv, ShownMatchesServer
<1> QED
  BY <1>5, <1>6, <1>7, <1>8, <1>9, <1>10, <1>11, <1>12 DEF IInv

\* Without one the connection starts idle.
LEMMA OpeningIdles ==
  ASSUME IInv, SocketOpens, ~Waiting
  PROVE  IInv'
<1>0. IInv
  OBVIOUS
<1>1. /\ socket = "connecting" /\ socket' = "open"
      /\ reconnectAttempts' = 0 /\ connectionState' = "connected"
      /\ toServer' = <<>> /\ pendingRequest' = None
      /\ UNCHANGED <<reconnectTimer, requestCounter, mode, activeRequest, shown, parts,
                     server, toClient>>
  BY DEF SocketOpens
<1>2. UNCHANGED <<serving, failing, produced, ended>>
  BY <1>1 DEF server
<1>3. /\ serving = None /\ failing = FALSE /\ toServer = <<>> /\ toClient = <<>>
      /\ activeRequest = None /\ pendingRequest = None /\ reconnectTimer = FALSE
  BY <1>0, <1>1, Together DEF IInv, LinkInv, RunningIsWorkedOn, StateTellsSocket, TypeOK, Waiting
<1>4. TypeOK'
  <2>1. reconnectAttempts' \in 0..MaxAttempts
    BY <1>0, <1>1, Numbers
  <2> QED
    BY <1>0, <1>1, <1>2, <1>3, <2>1 DEF IInv, TypeOK
<1>5. LinkInv'
  BY <1>0, <1>1, <1>2, <1>3
  DEF IInv, LinkInv, RunningIsWorkedOn, StateTellsSocket, Waiting
<1>6. PageInv'
  BY <1>0, <1>1, <1>2, <1>3 DEF IInv, PageInv, Unheard
<1>7. AskInv'
  BY <1>1, <1>3, NothingOnTheWay DEF AskInv
<1>8. CancelInv'
  BY <1>1, <1>3, NothingOnTheWay DEF CancelInv
<1>9. ServeInv'
  BY <1>2, <1>3 DEF ServeInv
<1>10. AnswerInv'
  BY <1>0, <1>1, <1>2, <1>3 DEF IInv, AnswerInv
<1>11. ShownMatchesServer'
  BY <1>0, <1>1, <1>2 DEF IInv, ShownMatchesServer
<1> QED
  BY <1>4, <1>5, <1>6, <1>7, <1>8, <1>9, <1>10, <1>11 DEF IInv

\* What was on the way is lost with the connection, and the task with it.
LEMMA Losing ==
  ASSUME IInv, ConnectionLost
  PROVE  IInv'
<1>0. IInv
  OBVIOUS
<1>1. /\ socket = "open" /\ socket' = "closing" /\ toServer' = <<>> /\ toClient' = <<>>
      /\ serving' = None /\ failing' = FALSE
      /\ UNCHANGED <<reconnectTimer, reconnectAttempts, connectionState, produced, ended, page>>
  BY DEF ConnectionLost
<1>2. UNCHANGED <<requestCounter, mode, pendingRequest, activeRequest, shown, parts>>
  BY <1>1 DEF page
<1>3. None \in 0..requestCounter /\ None \notin RequestsOfUser
  BY Numbers
<1>4. TypeOK'
  <2>1. <<>> \in Seq(Messages) /\ <<>> \in Seq(Events)
    OBVIOUS
  <2>2. {pendingRequest', activeRequest', serving'} \subseteq 0..requestCounter'
    BY <1>0, <1>1, <1>2, <1>3 DEF IInv, TypeOK
  <2> QED
    BY <1>0, <1>1, <1>2, <2>1, <2>2 DEF IInv, TypeOK
<1>5. LinkInv'
  BY <1>0, <1>1, <1>2
  DEF IInv, LinkInv, RunningIsWorkedOn, StateTellsSocket, Waiting
<1>6. PageInv'
  BY <1>0, <1>1, <1>2, <1>3, NothingOnTheWay DEF IInv, PageInv, Unheard
<1>7. AskInv'
  BY <1>1, NothingOnTheWay DEF AskInv
<1>8. CancelInv'
  BY <1>1, NothingOnTheWay DEF CancelInv
<1>9. ServeInv'
  BY <1>1 DEF ServeInv
<1>10. AnswerInv'
  BY <1>1, NothingOnTheWay DEF AnswerInv
<1>11. ShownMatchesServer'
  BY <1>0, <1>1, <1>2, <1>3 DEF IInv, ShownMatchesServer
<1> QED
  BY <1>4, <1>5, <1>6, <1>7, <1>8, <1>9, <1>10, <1>11 DEF IInv

\* The timer runs after a socket has closed exactly when an attempt is announced.
LEMMA Scheduling ==
  ASSUME IInv, socket # "none", ScheduleReconnect
  PROVE  /\ reconnectAttempts' \in 0..MaxAttempts /\ reconnectTimer' \in BOOLEAN
         /\ connectionState' \in {"connecting", "disconnected"}
         /\ connectionState' = "connecting" <=> reconnectTimer'
         /\ connectionState' = "connecting" \/ reconnectAttempts' = MaxAttempts
<1>1. ~reconnectTimer /\ reconnectTimer \in BOOLEAN
  BY Together DEF IInv, TypeOK, StateTellsSocket
<1>2. reconnectAttempts \in Nat /\ MaxAttempts \in Nat /\ reconnectAttempts <= MaxAttempts
  BY Numbers
<1>3. CASE reconnectAttempts >= MaxAttempts
  <2>1. /\ connectionState' = "disconnected"
        /\ reconnectTimer' = reconnectTimer /\ reconnectAttempts' = reconnectAttempts
    BY <1>3, Zenon DEF ScheduleReconnect
  <2>2. reconnectAttempts' = MaxAttempts /\ reconnectAttempts' \in 0..MaxAttempts
    BY <1>2, <1>3, <2>1
  <2> QED
    BY <1>1, <2>1, <2>2
<1>4. CASE ~(reconnectAttempts >= MaxAttempts)
  <2>1. /\ connectionState' = "connecting" /\ reconnectTimer' = TRUE
        /\ reconnectAttempts' = reconnectAttempts + 1
    BY <1>1, <1>4, Zenon DEF ScheduleReconnect
  <2>2. reconnectAttempts' \in 0..MaxAttempts
    BY <1>2, <1>4, <2>1
  <2> QED
    BY <2>1, <2>2
<1> QED
  BY <1>3, <1>4

\* The request the page had sent is interrupted with the connection.
LEMMA ClosingInterrupts ==
  ASSUME IInv, SocketCloses, connectionState = "connected", activeRequest # None, ~Waiting
  PROVE  IInv'
<1>0. IInv
  OBVIOUS
<1>1. /\ socket \in {"connecting", "closing"} /\ socket' = "none" /\ ScheduleReconnect
      /\ shown' = [shown EXCEPT ![activeRequest] = "interrupted"]
      /\ activeRequest' = None /\ pendingRequest' = None
      /\ UNCHANGED <<requestCounter, mode, parts, server, toServer, toClient>>
  BY DEF SocketCloses, Show, net
<1>2. UNCHANGED <<serving, failing, produced, ended>>
  BY <1>1 DEF server
<1>3. /\ serving = None /\ failing = FALSE /\ toServer = <<>> /\ toClient = <<>>
      /\ activeRequest \in RequestsOfUser
  BY <1>0, <1>1, Numbers DEF IInv, LinkInv
<1>4. /\ reconnectAttempts' \in 0..MaxAttempts /\ reconnectTimer' \in BOOLEAN
      /\ connectionState' \in {"connecting", "disconnected"}
      /\ connectionState' = "connecting" <=> reconnectTimer'
      /\ connectionState' = "connecting" \/ reconnectAttempts' = MaxAttempts
  BY <1>0, <1>1, Scheduling
<1>5. \A p \in RequestsOfUser : shown'[p] = (IF p = activeRequest THEN "interrupted" ELSE shown[p])
  BY <1>0, <1>1 DEF IInv, TypeOK
<1>6. TypeOK'
  <2>1. shown' \in [RequestsOfUser -> Final \cup {"nothing", "running", "dismissed"}]
    BY <1>0, <1>1, <1>3 DEF IInv, TypeOK, Final
  <2>2. {pendingRequest', activeRequest', serving'} \subseteq 0..requestCounter'
    BY <1>0, <1>1, <1>2, Numbers
  <2> QED
    BY <1>0, <1>1, <1>2, <1>4, <2>1, <2>2 DEF IInv, TypeOK
<1>7. LinkInv'
  BY <1>1, <1>2, <1>3, <1>4 DEF LinkInv, RunningIsWorkedOn, StateTellsSocket, Waiting
<1>8. PageInv'
  <2> SUFFICES ASSUME NEW p \in RequestsOfUser
               PROVE  /\ shown'[p] = "running" <=> activeRequest' = p
                      /\ p > requestCounter' => shown'[p] = "nothing"
                      /\ p > requestCounter' \/ pendingRequest' = p => Unheard(p)'
    BY DEF PageInv
  <2>1. Unheard(p) => Unheard(p)'
    BY <1>1, <1>2 DEF Unheard
  <2>2. p # None /\ activeRequest <= requestCounter
    BY <1>0, Numbers
  <2>3. p > requestCounter' => p # activeRequest
    BY <1>1, <2>2, Numbers
  <2> QED
    BY <1>0, <1>1, <1>5, <2>1, <2>2, <2>3 DEF IInv, PageInv
<1>9. AskInv'
  BY <1>1, <1>3, NothingOnTheWay DEF AskInv
<1>10. CancelInv'
  BY <1>1, <1>3, NothingOnTheWay DEF CancelInv
<1>11. ServeInv'
  BY <1>1, <1>2, <1>3 DEF ServeInv
<1>12. AnswerInv'
  BY <1>1, <1>3, NothingOnTheWay DEF AnswerInv
<1>13. ShownMatchesServer'
  BY <1>0, <1>1, <1>2, <1>5 DEF IInv, ShownMatchesServer
<1> QED
  BY <1>6, <1>7, <1>8, <1>9, <1>10, <1>11, <1>12, <1>13 DEF IInv

\* A request that waits is kept for the next attempt.
LEMMA ClosingKeeps ==
  ASSUME IInv, SocketCloses, ~(connectionState = "connected" /\ activeRequest # None /\ ~Waiting)
  PROVE  IInv'
<1>0. IInv
  OBVIOUS
<1>1. /\ socket \in {"connecting", "closing"} /\ socket' = "none" /\ ScheduleReconnect
      /\ UNCHANGED <<shown, activeRequest, pendingRequest, requestCounter, mode, parts, server,
                     toServer, toClient>>
  BY DEF SocketCloses, net
<1>2. UNCHANGED <<serving, failing, produced, ended>>
  BY <1>1 DEF server
<1>3. /\ serving = None /\ failing = FALSE /\ toServer = <<>> /\ toClient = <<>>
      /\ activeRequest # None => Waiting
  BY <1>0, <1>1, Together DEF IInv, LinkInv, RunningIsWorkedOn
<1>4. /\ reconnectAttempts' \in 0..MaxAttempts /\ reconnectTimer' \in BOOLEAN
      /\ connectionState' \in {"connecting", "disconnected"}
      /\ connectionState' = "connecting" <=> reconnectTimer'
      /\ connectionState' = "connecting" \/ reconnectAttempts' = MaxAttempts
  BY <1>0, <1>1, Scheduling
<1>5. TypeOK'
  BY <1>0, <1>1, <1>2, <1>4 DEF IInv, TypeOK
<1>6. LinkInv'
  BY <1>0, <1>1, <1>2, <1>3, <1>4
  DEF IInv, LinkInv, RunningIsWorkedOn, StateTellsSocket, Waiting
<1>7. PageInv'
  BY <1>0, <1>1, <1>2 DEF IInv, PageInv, Unheard
<1>8. AskInv'
  BY <1>1, <1>3, NothingOnTheWay DEF AskInv
<1>9. CancelInv'
  BY <1>1, <1>3, NothingOnTheWay DEF CancelInv
<1>10. ServeInv'
  BY <1>1, <1>2, <1>3 DEF ServeInv
<1>11. AnswerInv'
  BY <1>1, <1>3, NothingOnTheWay DEF AnswerInv
<1>12. ShownMatchesServer'
  BY <1>0, <1>1, <1>2 DEF IInv, ShownMatchesServer
<1> QED
  BY <1>5, <1>6, <1>7, <1>8, <1>9, <1>10, <1>11, <1>12 DEF IInv

\* The timer opens the next socket; it runs only while there is none.
LEMMA Reconnecting ==
  ASSUME IInv, ReconnectTimerFires
  PROVE  IInv'
<1>0. IInv
  OBVIOUS
<1>1. /\ reconnectTimer /\ reconnectTimer' = FALSE /\ socket' = "connecting"
      /\ connectionState' = "connecting"
      /\ UNCHANGED <<reconnectAttempts, page, server, toServer, toClient>>
  BY DEF ReconnectTimerFires, net
<1>2. /\ UNCHANGED <<requestCounter, mode, pendingRequest, activeRequest, shown, parts>>
      /\ UNCHANGED <<serving, failing, produced, ended>>
  BY <1>1 DEF page, server
<1>3. /\ socket = "none" /\ serving = None /\ failing = FALSE
      /\ toServer = <<>> /\ toClient = <<>>
  BY <1>0, <1>1, Together DEF IInv, LinkInv, StateTellsSocket
<1>4. TypeOK'
  BY <1>0, <1>1, <1>2 DEF IInv, TypeOK
<1>5. LinkInv'
  BY <1>0, <1>1, <1>2, <1>3
  DEF IInv, LinkInv, RunningIsWorkedOn, StateTellsSocket, Waiting
<1>6. PageInv'
  BY <1>0, <1>1, <1>2 DEF IInv, PageInv, Unheard
<1>7. AskInv'
  BY <1>1, <1>3, NothingOnTheWay DEF AskInv
<1>8. CancelInv'
  BY <1>1, <1>3, NothingOnTheWay DEF CancelInv
<1>9. ServeInv'
  BY <1>1, <1>2, <1>3 DEF ServeInv
<1>10. AnswerInv'
  BY <1>1, <1>3, NothingOnTheWay DEF AnswerInv
<1>11. ShownMatchesServer'
  BY <1>0, <1>1, <1>2 DEF IInv, ShownMatchesServer
<1> QED
  BY <1>4, <1>5, <1>6, <1>7, <1>8, <1>9, <1>10, <1>11 DEF IInv

-----------------------------------------------------------------------------
(* Events of the server *)

\* An event of another request is taken and ignored.
LEMMA Ignoring ==
  ASSUME IInv, IgnoreEvent
  PROVE  IInv'
<1>0. IInv
  OBVIOUS
<1>1. /\ socket = "open" /\ toClient # <<>> /\ toClient' = Tail(toClient)
      /\ Head(toClient).request # activeRequest
      /\ UNCHANGED <<requestCounter, mode, pendingRequest, activeRequest, shown, parts, link,
                     server, toServer>>
  BY DEF IgnoreEvent, NextEvent
<1>2. /\ UNCHANGED <<socket, reconnectTimer, reconnectAttempts, connectionState>>
      /\ UNCHANGED <<serving, failing, produced, ended>>
  BY <1>1 DEF link, server
<1>3. /\ toClient' \in Seq(Events) /\ Head(toClient) \in Events
      /\ \A p : Mentions(toClient', p) => Mentions(toClient, p)
      /\ \A p : HasClosing(toClient', p) => HasClosing(toClient, p)
      /\ \A p : ProgressFirst(toClient, p) => ProgressFirst(toClient', p)
      /\ Mentions(toClient, Head(toClient).request)
  BY <1>1, Together, AfterHearing
<1>4. /\ \A how : FirstTells(toClient, activeRequest, how) =>
           FirstTells(toClient', activeRequest, how)
      /\ HasClosing(toClient, activeRequest) => HasClosing(toClient', activeRequest)
      /\ ProgressIn(toClient', activeRequest) = ProgressIn(toClient, activeRequest)
  <2>1. ~IsClosing(Head(toClient), activeRequest)
    BY <1>1 DEF IsClosing
  <2>2. Head(toClient) # Msg("progress", activeRequest)
    BY <1>1, MessagesDiffer
  <2>3. ProgressIn(toClient', activeRequest) \in Nat
    BY <1>3, ProgressCounts
  <2>4. ProgressIn(toClient', activeRequest) = ProgressIn(toClient, activeRequest)
    BY <1>1, <2>2, <2>3, Together, ProgressTaken
  <2> QED
    BY <1>1, <2>1, <2>4, Together, AfterHearing
<1>5. TypeOK'
  BY <1>0, <1>1, <1>2, <1>3 DEF IInv, TypeOK
<1>6. LinkInv'
  BY <1>0, <1>1, <1>2, <1>3, <1>4 DEF IInv, LinkInv, RunningIsWorkedOn, StateTellsSocket, Waiting
<1>7. PageInv'
  BY <1>0, <1>1, <1>2, <1>3 DEF IInv, PageInv, Unheard
<1>8. AskInv'
  BY <1>0, <1>1, <1>2 DEF IInv, AskInv
<1>9. CancelInv'
  BY <1>0, <1>1, <1>2 DEF IInv, CancelInv
<1>10. ServeInv'
  BY <1>0, <1>1, <1>2 DEF IInv, ServeInv
<1>11. AnswerInv'
  BY <1>0, <1>1, <1>2, <1>3, <1>4 DEF IInv, AnswerInv
<1>12. ShownMatchesServer'
  BY <1>0, <1>1, <1>2 DEF IInv, ShownMatchesServer
<1> QED
  BY <1>5, <1>6, <1>7, <1>8, <1>9, <1>10, <1>11, <1>12 DEF IInv

\* An event of the answer is counted.
LEMMA TakingProgress ==
  ASSUME IInv, TakeProgress
  PROVE  IInv'
<1>0. IInv
  OBVIOUS
<1>1. /\ socket = "open" /\ toClient # <<>> /\ toClient' = Tail(toClient)
      /\ Head(toClient) = Msg("progress", activeRequest)
      /\ parts' = [parts EXCEPT ![activeRequest] = parts[activeRequest] + 1]
      /\ UNCHANGED <<requestCounter, mode, pendingRequest, activeRequest, shown, link,
                     server, toServer>>
  BY DEF TakeProgress, NextEvent
<1>2. /\ UNCHANGED <<socket, reconnectTimer, reconnectAttempts, connectionState>>
      /\ UNCHANGED <<serving, failing, produced, ended>>
  BY <1>1 DEF link, server
<1>3. /\ toClient' \in Seq(Events) /\ Head(toClient) \in Events
      /\ \A p : Mentions(toClient', p) => Mentions(toClient, p)
      /\ \A p : HasClosing(toClient', p) => HasClosing(toClient, p)
      /\ \A p : ProgressFirst(toClient, p) => ProgressFirst(toClient', p)
      /\ Mentions(toClient, Head(toClient).request)
  BY <1>1, Together, AfterHearing
<1>4. /\ activeRequest \in RequestsOfUser /\ activeRequest # None
      /\ Mentions(toClient, activeRequest)
      /\ \A p \in RequestsOfUser :
           parts'[p] = (IF p = activeRequest THEN parts[p] + 1 ELSE parts[p])
  <2>1. Head(toClient).request = activeRequest
    BY <1>1, MessagesDiffer
  <2>2. activeRequest \in RequestsOfUser
    BY <1>3, <2>1, MessagesDiffer
  <2> QED
    BY <1>0, <1>1, <1>3, <2>1, <2>2, Numbers DEF IInv, TypeOK
<1>5. /\ \A how : FirstTells(toClient, activeRequest, how) =>
           FirstTells(toClient', activeRequest, how)
      /\ HasClosing(toClient, activeRequest) => HasClosing(toClient', activeRequest)
      /\ ProgressIn(toClient, activeRequest) = ProgressIn(toClient', activeRequest) + 1
      /\ ProgressIn(toClient', activeRequest) \in Nat
  <2>1. ~IsClosing(Head(toClient), activeRequest)
    BY <1>1, MessagesDiffer DEF IsClosing
  <2>2. ProgressIn(toClient', activeRequest) \in Nat
    BY <1>3, ProgressCounts
  <2>3. ProgressIn(toClient, activeRequest) = ProgressIn(toClient', activeRequest) + 1
    BY <1>1, <2>2, Together, ProgressTaken
  <2> QED
    BY <1>1, <2>1, <2>2, <2>3, Together, AfterHearing
<1>6. /\ parts'[activeRequest] + ProgressIn(toClient', activeRequest) = produced[activeRequest]
      /\ parts' \in [RequestsOfUser -> 0..MaxProgress]
  <2> DEFINE a == parts[activeRequest]
               b == ProgressIn(toClient', activeRequest)
               c == produced[activeRequest]
  <2>1. a + (b + 1) = c
    BY <1>0, <1>1, <1>4, <1>5 DEF IInv, AnswerInv
  <2>2. a \in Nat /\ b \in Nat /\ c \in Nat /\ c <= MaxProgress /\ MaxProgress \in Nat
    BY <1>0, <1>4, <1>5, Numbers DEF IInv, TypeOK
  <2>3. parts'[activeRequest] = a + 1
    BY <1>4
  <2> HIDE DEF a, b, c
  <2>4. (a + 1) + b = c /\ a + 1 \in 0..MaxProgress
    BY <2>1, <2>2
  <2>5. parts' \in [RequestsOfUser -> 0..MaxProgress]
    BY <1>0, <1>1, <2>4 DEF IInv, TypeOK, a
  <2> QED
    BY <2>3, <2>4, <2>5 DEF b, c
<1>7. TypeOK'
  BY <1>0, <1>1, <1>2, <1>3, <1>6 DEF IInv, TypeOK
<1>8. LinkInv'
  BY <1>0, <1>1, <1>2, <1>3, <1>4, <1>5, <1>6 DEF IInv, LinkInv, RunningIsWorkedOn, StateTellsSocket, Waiting
<1>9. PageInv'
  <2> SUFFICES ASSUME NEW p \in RequestsOfUser
               PROVE  /\ shown'[p] = "running" <=> activeRequest' = p
                      /\ p > requestCounter' => shown'[p] = "nothing"
                      /\ p > requestCounter' \/ pendingRequest' = p => Unheard(p)'
    BY DEF PageInv
  <2>1. p > requestCounter' \/ pendingRequest' = p => p # activeRequest
    BY <1>0, <1>1, <1>4, Numbers, Together
  <2> QED
    BY <1>0, <1>1, <1>2, <1>3, <1>4, <2>1 DEF IInv, PageInv, Unheard
<1>10. AskInv'
  BY <1>0, <1>1, <1>2 DEF IInv, AskInv
<1>11. CancelInv'
  BY <1>0, <1>1, <1>2 DEF IInv, CancelInv
<1>12. ServeInv'
  BY <1>0, <1>1, <1>2 DEF IInv, ServeInv
<1>13. AnswerInv'
  BY <1>0, <1>1, <1>2, <1>3, <1>4, <1>5, <1>6 DEF IInv, AnswerInv
<1>14. ShownMatchesServer'
  <2>1. shown[activeRequest] = "running"
    BY <1>0, <1>4, Together
  <2> QED
    BY <1>0, <1>1, <1>2, <1>4, <2>1 DEF IInv, ShownMatchesServer
<1> QED
  BY <1>7, <1>8, <1>9, <1>10, <1>11, <1>12, <1>13, <1>14 DEF IInv

\* The first closing event of the active request releases it.
LEMMA TakingClosing ==
  ASSUME IInv, TakeClosingEvent
  PROVE  IInv'
<1>0. IInv
  OBVIOUS
<1>1. /\ socket = "open" /\ toClient # <<>> /\ toClient' = Tail(toClient)
      /\ Head(toClient).request = activeRequest /\ Head(toClient).type # "progress"
      /\ shown' = [shown EXCEPT ![activeRequest] = Outcome(Head(toClient).type)]
      /\ activeRequest' = None /\ pendingRequest' = None
      /\ UNCHANGED <<requestCounter, mode, parts, link, server, toServer>>
  BY DEF TakeClosingEvent, NextEvent, Show
<1>2. /\ UNCHANGED <<socket, reconnectTimer, reconnectAttempts, connectionState>>
      /\ UNCHANGED <<serving, failing, produced, ended>>
  BY <1>1 DEF link, server
<1>3. /\ toClient' \in Seq(Events) /\ Head(toClient) \in Events
      /\ \A p : Mentions(toClient', p) => Mentions(toClient, p)
      /\ \A p : HasClosing(toClient', p) => HasClosing(toClient, p)
      /\ \A p : ProgressFirst(toClient, p) => ProgressFirst(toClient', p)
      /\ Mentions(toClient, Head(toClient).request)
  BY <1>1, Together, AfterHearing
<1>4. /\ activeRequest \in RequestsOfUser /\ activeRequest # None /\ pendingRequest = None
      /\ activeRequest <= requestCounter /\ pendingRequest = pendingRequest'
  <2>1. activeRequest \in RequestsOfUser
    BY <1>1, <1>3, MessagesDiffer
  <2> QED
    BY <1>0, <1>1, <2>1, Numbers, Together DEF Waiting
<1>5. /\ ended[activeRequest] # "not"
      /\ Told(Head(toClient).type, ended[activeRequest])
      /\ parts[activeRequest] = produced[activeRequest]
  <2>1. IsClosing(Head(toClient), activeRequest)
    BY <1>1 DEF IsClosing
  <2>2. HasClosing(toClient, activeRequest) /\ ended[activeRequest] # "not"
    BY <1>0, <1>1, <1>4, <2>1, Together, AfterHearing DEF IInv, AnswerInv
  <2>3. Told(Head(toClient).type, ended[activeRequest])
    BY <1>0, <1>1, <1>4, <2>1, Together, AfterHearing DEF IInv, AnswerInv
  <2>4. ProgressIn(toClient, activeRequest) = 0
    BY <1>0, <1>1, <1>4, <2>1, Together, ProgressTaken DEF IInv, AnswerInv
  <2>5. parts[activeRequest] + 0 = produced[activeRequest]
    BY <1>0, <1>1, <1>4, <2>4 DEF IInv, AnswerInv
  <2>6. parts[activeRequest] \in Nat
    BY <1>0, <1>4, Numbers DEF IInv, TypeOK
  <2> QED
    BY <2>2, <2>3, <2>5, <2>6
<1>6. \A p \in RequestsOfUser :
        shown'[p] = (IF p = activeRequest THEN Outcome(Head(toClient).type) ELSE shown[p])
  BY <1>0, <1>1 DEF IInv, TypeOK
<1>7. /\ Outcome(Head(toClient).type) \in {"completed", "cancelled", "failed"}
      /\ Outcome(Head(toClient).type) = "completed" => ended[activeRequest] = "completed"
      /\ Outcome(Head(toClient).type) = "cancelled" => ended[activeRequest] = "cancelled"
      /\ Outcome(Head(toClient).type) = "failed" => ended[activeRequest] # "completed" 
  BY <1>5 DEF Outcome, Told
<1>8. serving = activeRequest => failing /\ ended[activeRequest] = "failed" 
  BY <1>0, <1>4, <1>5 DEF IInv, ServeInv
<1>9. TypeOK'
  <2>1. shown' \in [RequestsOfUser -> Final \cup {"nothing", "running", "dismissed"}]
    BY <1>0, <1>1, <1>7 DEF IInv, TypeOK, Final
  <2>2. {pendingRequest', activeRequest', serving'} \subseteq 0..requestCounter'
    BY <1>0, <1>1, <1>2, Numbers
  <2> QED
    BY <1>0, <1>1, <1>2, <1>3, <2>1, <2>2 DEF IInv, TypeOK
<1>10. LinkInv'
  BY <1>0, <1>1, <1>2, <1>4
  DEF IInv, LinkInv, RunningIsWorkedOn, StateTellsSocket, Waiting
<1>11. PageInv'
  <2> SUFFICES ASSUME NEW p \in RequestsOfUser
               PROVE  /\ shown'[p] = "running" <=> activeRequest' = p
                      /\ p > requestCounter' => shown'[p] = "nothing"
                      /\ p > requestCounter' \/ pendingRequest' = p => Unheard(p)'
    BY DEF PageInv
  <2>1. p > requestCounter' => p # activeRequest
    BY <1>0, <1>1, <1>4, Numbers
  <2>2. Unheard(p) => Unheard(p)'
    BY <1>1, <1>2, <1>3 DEF Unheard
  <2>3. p # None
    BY Numbers
  <2> QED
    BY <1>0, <1>1, <1>4, <1>6, <1>7, <2>1, <2>2, <2>3 DEF IInv, PageInv
<1>12. AskInv'
  <2> SUFFICES ASSUME NEW p \in RequestsOfUser, Has(toServer, Msg("request", p))
               PROVE  /\ ended'[p] = "not" /\ produced'[p] = 0 /\ p > serving'
                      /\ shown'[p] \in {"running", "dismissed"}
                      /\ activeRequest' # p => CancelFollows(toServer', p)
                      /\ \A x \in p..requestCounter' : Has(toServer', Msg("request", x))
    BY <1>0, <1>1 DEF IInv, AskInv
  <2>1. p # activeRequest
    BY <1>0, <1>5, OnTheWay
  <2> QED
    BY <1>0, <1>1, <1>2, <1>6, <2>1, OnTheWay
<1>13. CancelInv'
  BY <1>0, <1>1, <1>2 DEF IInv, CancelInv
<1>14. ServeInv'
  <2>1. serving # None => serving \in RequestsOfUser
    BY <1>0, Numbers
  <2> QED
    BY <1>0, <1>1, <1>2, <1>6, <1>8, <2>1 DEF IInv, ServeInv
<1>15. AnswerInv'
  BY <1>0, <1>1, <1>2, <1>3 DEF IInv, AnswerInv
<1>16. ShownMatchesServer'
  BY <1>0, <1>1, <1>2, <1>5, <1>6, <1>7, <1>8 DEF IInv, ShownMatchesServer
<1> QED
  BY <1>9, <1>10, <1>11, <1>12, <1>13, <1>14, <1>15, <1>16 DEF IInv

-----------------------------------------------------------------------------
(* The server end *)

\* What a closing event at the end of the way to the page changes: nothing for the page
\* when one of the same request is ahead of it.
LEMMA AfterClosing ==
  ASSUME NEW q \in Seq(Events), NEW m \in Events, m.type # "progress"
  PROVE  LET a == Append(q, m)
         IN  /\ a \in Seq(Events)
             /\ \A p : Mentions(a, p) <=> Mentions(q, p) \/ p = m.request
             /\ \A p : HasClosing(a, p) <=> HasClosing(q, p) \/ p = m.request
             /\ \A p : ProgressFirst(q, p) => ProgressFirst(a, p)
             /\ \A p : ProgressIn(a, p) = ProgressIn(q, p)
             /\ \A p, how : FirstTells(q, p, how) /\ (HasClosing(q, p) \/ p # m.request) =>
                  FirstTells(a, p, how)
             /\ \A how : ~HasClosing(q, m.request) /\ Told(m.type, how) =>
                  FirstTells(a, m.request, how)
<1> DEFINE a == Append(q, m)
<1>1. \A p : IsClosing(m, p) <=> p = m.request
  BY DEF IsClosing
<1>2. \A p : m # Msg("progress", p)
  BY MessagesDiffer
<1>3. /\ a \in Seq(Events)
      /\ \A p : Mentions(a, p) <=> Mentions(q, p) \/ p = m.request
      /\ \A p : HasClosing(a, p) <=> HasClosing(q, p) \/ p = m.request
      /\ \A p : ProgressFirst(q, p) => ProgressFirst(a, p)
  BY <1>1, <1>2, AfterTelling
<1>4. ASSUME NEW p PROVE ProgressIn(a, p) = ProgressIn(q, p)
  <2>1. ProgressIn(q, p) \in Nat
    BY ProgressCounts
  <2> QED
    BY <1>2, <2>1, ProgressSent
<1>5. ASSUME NEW p, NEW how, FirstTells(q, p, how), HasClosing(q, p) \/ p # m.request
      PROVE  FirstTells(a, p, how)
  BY <1>1, <1>5, AfterTelling
<1>6. ASSUME NEW how, ~HasClosing(q, m.request), Told(m.type, how)
      PROVE  FirstTells(a, m.request, how)
  BY <1>6, AfterTelling
<1> QED
  BY <1>3, <1>4, <1>5, <1>6

\* A request that ends some other way does not disturb what holds of the refused ones.
LEMMA RefusalsStand ==
  ASSUME IInv, NEW s \in RequestsOfUser, ended[s] \in {"not", "failed"},
         NEW how \in {"failed", "completed", "cancelled"}, ended[s] = "failed" => how = "failed"
  PROVE  LET e == [ended EXCEPT ![s] = how]
         IN  \A r \in RequestsOfUser : e[r] = "refused" =>
               \E q \in 1..(r - 1) : e[q] = "failed" /\ \A p \in (q + 1)..r : e[p] = "refused"
<1> DEFINE e == [ended EXCEPT ![s] = how]
<1> SUFFICES ASSUME NEW r \in RequestsOfUser, e[r] = "refused"
             PROVE  \E q \in 1..(r - 1) : e[q] = "failed" /\ \A p \in (q + 1)..r : e[p] = "refused"
  OBVIOUS
<1>1. /\ \A p \in RequestsOfUser : e[p] = (IF p = s THEN how ELSE ended[p])
      /\ r \in Nat /\ 1..r \subseteq RequestsOfUser
  <2>1. \A p \in RequestsOfUser : e[p] = (IF p = s THEN how ELSE ended[p])
    BY DEF IInv, TypeOK
  <2>2. RequestsOfUser = 1..MaxRequests /\ MaxRequests \in Nat
    BY Numbers
  <2> QED
    BY <2>1, <2>2
<1>2. ended[r] = "refused"
  BY <1>1
<1>3. PICK q \in 1..(r - 1) : ended[q] = "failed" /\ \A p \in (q + 1)..r : ended[p] = "refused"
  BY <1>2 DEF IInv, ShownMatchesServer
<1>4. q \in RequestsOfUser /\ q \in Nat /\ q >= 1 /\ (q + 1)..r \subseteq RequestsOfUser
  BY <1>1, <1>3
<1>5. e[q] = "failed" /\ \A p \in (q + 1)..r : e[p] = "refused"
  BY <1>1, <1>3, <1>4
<1> QED
  BY <1>3, <1>5

\* A message the server reads: no request waits, and what is left was there before.
LEMMA Reading ==
  ASSUME IInv, NEW k \in {"request", "cancel"}, NEW r, Reads(k), r = Head(toServer).request
  PROVE  /\ Head(toServer) = Msg(k, r) /\ r \in RequestsOfUser /\ r <= requestCounter
         /\ Has(toServer, Msg(k, r)) /\ pendingRequest = None
         /\ toServer' \in Seq(Messages)
         /\ \A l, p : Has(toServer', Msg(l, p)) => Has(toServer, Msg(l, p))
         /\ \A l, p : Has(toServer, Msg(l, p)) =>
              (l = k /\ p = r) \/ Has(toServer', Msg(l, p))
         /\ \A p : Mentions(toServer', p) => Mentions(toServer, p)
         /\ Orderly(toServer')
         /\ \A p : CancelFollows(toServer, p) => CancelFollows(toServer', p)
<1>1. /\ socket = "open" /\ toServer # <<>> /\ toServer' = Tail(toServer)
      /\ Head(toServer).type = k
  BY DEF Reads
<1>2. toServer \in Seq(Messages) /\ pendingRequest = None /\ Orderly(toServer)
  BY <1>1, Together DEF Waiting, IInv, AskInv
<1>3. Head(toServer) \in Messages
  BY <1>1, <1>2, AfterReading
<1>4. Head(toServer) = Msg(k, r) /\ r \in RequestsOfUser
  BY <1>1, <1>3, MessagesDiffer
<1>5. Has(toServer, Msg(k, r)) /\ Mentions(toServer, r)
  BY <1>1, <1>2, <1>4, AfterReading, HasMentions
<1>6. /\ \A l, p : Has(toServer', Msg(l, p)) => Has(toServer, Msg(l, p))
      /\ \A p : Mentions(toServer', p) => Mentions(toServer, p)
      /\ Orderly(toServer') /\ toServer' \in Seq(Messages)
      /\ \A p : CancelFollows(toServer, p) => CancelFollows(toServer', p)
  BY <1>1, <1>2, AfterReading
<1>7. ASSUME NEW l, NEW p, Has(toServer, Msg(l, p))
      PROVE  (l = k /\ p = r) \/ Has(toServer', Msg(l, p))
  <2>1. Msg(l, p) = Msg(k, r) \/ Has(toServer', Msg(l, p))
    BY <1>1, <1>2, <1>4, <1>7, AfterReading
  <2> QED
    BY <2>1, MessagesDiffer
<1> QED
  BY <1>2, <1>4, <1>5, <1>6, <1>7, Together

\* A request at the head: those behind it were made after it, and it is cancelled before
\* the first of them.
LEMMA RequestRead ==
  ASSUME IInv, NEW r, Reads("request"), r = Head(toServer).request
  PROVE  /\ CancelledFirst(toServer', r)
         /\ \A p : Has(toServer', Msg("request", p)) => r < p
         /\ activeRequest # r => Has(toServer', Msg("cancel", r))
         /\ \A p : p # r /\ RequestPrecedes(toServer, p) => RequestPrecedes(toServer', p)
         /\ \A p : ~CancelledFirst(toServer, p)
<1>1. /\ toServer # <<>> /\ toServer' = Tail(toServer) /\ Head(toServer).type = "request"
      /\ toServer \in Seq(Messages) /\ Orderly(toServer)
  BY Together DEF Reads, IInv, AskInv
<1>2. Head(toServer) = Msg("request", r) /\ Has(toServer, Msg("request", r))
  BY Reading
<1>3. activeRequest # r => CancelFollows(toServer, r)
  BY <1>2, OnTheWay
<1>4. \A p : p # r => Head(toServer) # Msg("request", p)
  BY <1>2, MessagesDiffer
<1> QED
  BY <1>1, <1>2, <1>3, <1>4, AfterReading

\* A cancellation at the head is of a request that was served or has ended.
LEMMA CancelRead ==
  ASSUME IInv, NEW r, Reads("cancel"), r = Head(toServer).request
  PROVE  /\ serving = r \/ ended[r] # "not"
         /\ \A p : RequestPrecedes(toServer, p) => RequestPrecedes(toServer', p)
         /\ \A p : p # r /\ CancelledFirst(toServer, p) => CancelledFirst(toServer', p)
<1>1. /\ toServer # <<>> /\ toServer' = Tail(toServer) /\ toServer \in Seq(Messages)
  BY Together DEF Reads
<1>2. /\ Head(toServer) = Msg("cancel", r) /\ Has(toServer, Msg("cancel", r))
      /\ r \in RequestsOfUser
  BY Reading
<1>3. ~RequestPrecedes(toServer, r)
  BY <1>1, <1>2, AfterReading
<1>4. /\ \A p : Head(toServer) # Msg("request", p)
      /\ \A p : p # r => Head(toServer) # Msg("cancel", p)
  BY <1>2, MessagesDiffer
<1> QED
  BY <1>1, <1>2, <1>3, <1>4, AfterReading DEF IInv, CancelInv

\* The task at work has not ended, and nobody has been told that it has.
LEMMA AtWork ==
  ASSUME IInv, serving # None, ~failing
  PROVE  /\ socket = "open" /\ pendingRequest = None
         /\ serving \in RequestsOfUser /\ serving \in Nat /\ serving <= requestCounter
         /\ ended[serving] = "not" /\ ~HasClosing(toClient, serving)
         /\ shown[serving] \in {"running", "dismissed"}
         /\ \A p : Has(toServer, Msg("request", p)) => p # serving
<1>1. serving \in RequestsOfUser
  BY Numbers
<1>2. ended[serving] = "not" /\ shown[serving] \in {"running", "dismissed"}
  BY DEF IInv, ServeInv
<1>3. ~HasClosing(toClient, serving)
  BY <1>1, <1>2 DEF IInv, AnswerInv
<1>4. \A p : Has(toServer, Msg("request", p)) => p # serving
  BY Numbers, OnTheWay
<1> QED
  BY <1>1, <1>2, <1>3, <1>4, Numbers, Together DEF Waiting

\* The server starts the task of the request it reads.
LEMMA Starting ==
  ASSUME IInv, NEW r \in RequestsOfUser, StartTask(r)
  PROVE  IInv'
<1>0. IInv
  OBVIOUS
<1>1. /\ socket = "open" /\ Reads("request") /\ r = Head(toServer).request
      /\ serving = None /\ serving' = r
      /\ UNCHANGED <<page, link, failing, produced, ended, toClient>>
  BY DEF StartTask, Reads
<1>2. /\ UNCHANGED <<requestCounter, mode, pendingRequest, activeRequest, shown, parts>>
      /\ UNCHANGED <<socket, reconnectTimer, reconnectAttempts, connectionState>>
  BY <1>1 DEF page, link
<1>3. /\ Has(toServer, Msg("request", r)) /\ Orderly(toServer') /\ pendingRequest = None
      /\ r \in Nat /\ r <= requestCounter /\ toServer' \in Seq(Messages)
      /\ \A l, p : Has(toServer', Msg(l, p)) => Has(toServer, Msg(l, p))
      /\ \A l, p : Has(toServer, Msg(l, p)) =>
           (l = "request" /\ p = r) \/ Has(toServer', Msg(l, p))
      /\ \A p : Mentions(toServer', p) => Mentions(toServer, p)
      /\ \A p : CancelFollows(toServer, p) => CancelFollows(toServer', p)
  BY <1>1, Reading, MessagesDiffer, Numbers
<1>4. /\ CancelledFirst(toServer', r)
      /\ \A p : Has(toServer', Msg("request", p)) => r < p
      /\ activeRequest # r => Has(toServer', Msg("cancel", r))
      /\ \A p : p # r /\ RequestPrecedes(toServer, p) => RequestPrecedes(toServer', p)
      /\ \A p : ~CancelledFirst(toServer, p)
  BY <1>1, RequestRead
<1>5. /\ ended[r] = "not" /\ produced[r] = 0 /\ r > serving
      /\ shown[r] \in {"running", "dismissed"}
      /\ \A p \in r..requestCounter : Has(toServer, Msg("request", p))
  BY <1>0, <1>3, OnTheWay
<1>6. failing = FALSE
  BY <1>0, <1>1 DEF IInv, ServeInv, TypeOK
<1>7. TypeOK'
  <2>1. {pendingRequest', activeRequest', serving'} \subseteq 0..requestCounter'
    BY <1>0, <1>1, <1>2, <1>3, Numbers
  <2> QED
    BY <1>0, <1>1, <1>2, <1>3, <2>1 DEF IInv, TypeOK
<1>8. LinkInv'
  BY <1>0, <1>1, <1>2 DEF IInv, LinkInv, RunningIsWorkedOn, StateTellsSocket, Waiting
<1>9. PageInv'
  <2> SUFFICES ASSUME NEW p \in RequestsOfUser
               PROVE  /\ shown'[p] = "running" <=> activeRequest' = p
                      /\ p > requestCounter' => shown'[p] = "nothing"
                      /\ p > requestCounter' \/ pendingRequest' = p => Unheard(p)'
    BY DEF PageInv
  <2>1. p > requestCounter' \/ pendingRequest' = p => p > requestCounter /\ p # r
    BY <1>2, <1>3, Numbers
  <2> QED
    BY <1>0, <1>1, <1>2, <1>3, <2>1 DEF IInv, PageInv, Unheard
<1>10. AskInv'
  <2> SUFFICES ASSUME NEW p \in RequestsOfUser, Has(toServer', Msg("request", p))
               PROVE  /\ ended'[p] = "not" /\ produced'[p] = 0 /\ p > serving'
                      /\ shown'[p] \in {"running", "dismissed"}
                      /\ activeRequest' # p => CancelFollows(toServer', p)
                      /\ \A x \in p..requestCounter' : Has(toServer', Msg("request", x))
    BY <1>3 DEF AskInv
  <2>1. Has(toServer, Msg("request", p)) /\ p # r /\ p \in Nat /\ p > r
    BY <1>3, <1>4, Numbers
  <2>2. \A x \in p..requestCounter : Has(toServer', Msg("request", x))
    <3> SUFFICES ASSUME NEW x \in p..requestCounter PROVE Has(toServer', Msg("request", x))
      OBVIOUS
    <3>1. x # r
      BY <1>3, <2>1, Numbers
    <3> QED
      BY <1>0, <1>3, <2>1, <3>1, OnTheWay
  <2> QED
    BY <1>0, <1>1, <1>2, <1>3, <2>1, <2>2, OnTheWay
<1>11. CancelInv'
  <2>1. ASSUME NEW p \in RequestsOfUser, Has(toServer', Msg("cancel", p))
        PROVE  serving' = p \/ ended'[p] # "not" \/ RequestPrecedes(toServer', p)
    <3>1. CASE p = r
      BY <1>1, <3>1
    <3>2. CASE p # r
      BY <1>0, <1>1, <1>3, <1>4, <2>1, <3>2, Numbers DEF IInv, CancelInv
    <3> QED
      BY <3>1, <3>2
  <2>2. activeRequest' # None /\ socket' = "open" /\ ended'[activeRequest'] = "not" =>
          serving' = activeRequest' \/ Has(toServer', Msg("request", activeRequest'))
    BY <1>0, <1>1, <1>2, <1>3 DEF IInv, CancelInv
  <2> QED
    BY <2>1, <2>2 DEF CancelInv
<1>12. ServeInv'
  <2>1. \A p \in (r + 1)..requestCounter : p # r /\ p \in r..requestCounter
    BY <1>3, Numbers
  <2> QED
    BY <1>1, <1>2, <1>3, <1>4, <1>5, <1>6, <2>1 DEF ServeInv
<1>13. AnswerInv'
  BY <1>0, <1>1, <1>2 DEF IInv, AnswerInv
<1>14. ShownMatchesServer'
  BY <1>0, <1>1, <1>2, <1>5 DEF IInv, ShownMatchesServer
<1> QED
  BY <1>7, <1>8, <1>9, <1>10, <1>11, <1>12, <1>13, <1>14 DEF IInv

\* A request read while a task is there is refused; that task can only be one that has
\* failed.
LEMMA RefusingSecond ==
  ASSUME IInv, NEW r \in RequestsOfUser, RefuseSecond(r)
  PROVE  IInv'
<1>0. IInv
  OBVIOUS
<1>1. /\ socket = "open" /\ Reads("request") /\ r = Head(toServer).request
      /\ serving # None /\ toClient' = Append(toClient, Msg("error", r))
      /\ ended' = [ended EXCEPT ![r] = "refused"]
      /\ UNCHANGED <<page, link, serving, failing, produced>>
  BY DEF RefuseSecond, Reads, Send
<1>2. /\ UNCHANGED <<requestCounter, mode, pendingRequest, activeRequest, shown, parts>>
      /\ UNCHANGED <<socket, reconnectTimer, reconnectAttempts, connectionState>>
  BY <1>1 DEF page, link
<1>3. /\ Has(toServer, Msg("request", r)) /\ Orderly(toServer') /\ pendingRequest = None
      /\ r \in Nat /\ r <= requestCounter /\ toServer' \in Seq(Messages)
      /\ \A l, p : Has(toServer', Msg(l, p)) => Has(toServer, Msg(l, p))
      /\ \A l, p : Has(toServer, Msg(l, p)) =>
           (l = "request" /\ p = r) \/ Has(toServer', Msg(l, p))
      /\ \A p : Mentions(toServer', p) => Mentions(toServer, p)
      /\ \A p : CancelFollows(toServer, p) => CancelFollows(toServer', p)
  BY <1>1, Reading, MessagesDiffer, Numbers
<1>4. /\ CancelledFirst(toServer', r)
      /\ \A p : Has(toServer', Msg("request", p)) => r < p
      /\ activeRequest # r => Has(toServer', Msg("cancel", r))
      /\ \A p : p # r /\ RequestPrecedes(toServer, p) => RequestPrecedes(toServer', p)
      /\ \A p : ~CancelledFirst(toServer, p)
  BY <1>1, RequestRead
<1>5. /\ ended[r] = "not" /\ produced[r] = 0 /\ r > serving
      /\ shown[r] \in {"running", "dismissed"}
      /\ \A p \in r..requestCounter : Has(toServer, Msg("request", p))
  BY <1>0, <1>3, OnTheWay
<1>6. /\ toClient' \in Seq(Events)
      /\ \A p : Mentions(toClient', p) <=> Mentions(toClient, p) \/ p = r
      /\ \A p : HasClosing(toClient', p) <=> HasClosing(toClient, p) \/ p = r
      /\ \A p : ProgressFirst(toClient, p) => ProgressFirst(toClient', p)
      /\ \A p : ProgressIn(toClient', p) = ProgressIn(toClient, p)
      /\ \A p, how : FirstTells(toClient, p, how) /\ (HasClosing(toClient, p) \/ p # r) =>
           FirstTells(toClient', p, how)
      /\ \A how : ~HasClosing(toClient, r) /\ Told("error", how) =>
           FirstTells(toClient', r, how)
  <2> DEFINE m == Msg("error", r)
  <2>1. /\ m \in Events /\ m.type = "error" /\ m.request = r /\ m.type # "progress"
        /\ toClient \in Seq(Events) /\ toClient' = Append(toClient, m)
    BY <1>1, Together, MessagesDiffer DEF EventNames
  <2> HIDE DEF m
  <2> QED
    BY <2>1, AfterClosing
<1>7. /\ failing /\ ended[serving] = "failed" /\ serving \in RequestsOfUser /\ serving \in Nat
      /\ \A p \in (serving + 1)..requestCounter :
           ended[p] = "refused" \/ Has(toServer, Msg("request", p))
  BY <1>0, <1>1, <1>4, Numbers DEF IInv, ServeInv
<1>8. \A p \in RequestsOfUser : ended'[p] = (IF p = r THEN "refused" ELSE ended[p])
  BY <1>0, <1>1 DEF IInv, TypeOK
<1>9. TypeOK'
  BY <1>0, <1>1, <1>2, <1>3, <1>6 DEF IInv, TypeOK
<1>10. LinkInv'
  BY <1>0, <1>1, <1>2 DEF IInv, LinkInv, RunningIsWorkedOn, StateTellsSocket, Waiting
<1>11. PageInv'
  <2> SUFFICES ASSUME NEW p \in RequestsOfUser
               PROVE  /\ shown'[p] = "running" <=> activeRequest' = p
                      /\ p > requestCounter' => shown'[p] = "nothing"
                      /\ p > requestCounter' \/ pendingRequest' = p => Unheard(p)'
    BY DEF PageInv
  <2>1. p > requestCounter' \/ pendingRequest' = p => p > requestCounter /\ p # r
    BY <1>2, <1>3, Numbers
  <2> QED
    BY <1>0, <1>1, <1>2, <1>3, <1>6, <1>8, <2>1 DEF IInv, PageInv, Unheard
<1>12. AskInv'
  <2> SUFFICES ASSUME NEW p \in RequestsOfUser, Has(toServer', Msg("request", p))
               PROVE  /\ ended'[p] = "not" /\ produced'[p] = 0 /\ p > serving'
                      /\ shown'[p] \in {"running", "dismissed"}
                      /\ activeRequest' # p => CancelFollows(toServer', p)
                      /\ \A x \in p..requestCounter' : Has(toServer', Msg("request", x))
    BY <1>3 DEF AskInv
  <2>1. Has(toServer, Msg("request", p)) /\ p # r /\ p \in Nat /\ p > r
    BY <1>3, <1>4, Numbers
  <2>2. \A x \in p..requestCounter : Has(toServer', Msg("request", x))
    <3> SUFFICES ASSUME NEW x \in p..requestCounter PROVE Has(toServer', Msg("request", x))
      OBVIOUS
    <3>1. x # r
      BY <1>3, <2>1, Numbers
    <3> QED
      BY <1>0, <1>3, <2>1, <3>1, OnTheWay
  <2> QED
    BY <1>0, <1>1, <1>2, <1>3, <1>8, <2>1, <2>2, OnTheWay
<1>13. CancelInv'
  <2>1. ASSUME NEW p \in RequestsOfUser, Has(toServer', Msg("cancel", p))
        PROVE  serving' = p \/ ended'[p] # "not" \/ RequestPrecedes(toServer', p)
    <3>1. CASE p = r
      BY <1>8, <3>1
    <3>2. CASE p # r
      BY <1>0, <1>1, <1>3, <1>4, <1>8, <2>1, <3>2 DEF IInv, CancelInv
    <3> QED
      BY <3>1, <3>2
  <2>2. activeRequest' # None /\ socket' = "open" /\ ended'[activeRequest'] = "not" =>
          serving' = activeRequest' \/ Has(toServer', Msg("request", activeRequest'))
    BY <1>0, <1>1, <1>2, <1>3, <1>8, Numbers DEF IInv, CancelInv
  <2> QED
    BY <2>1, <2>2 DEF CancelInv
<1>14. ServeInv'
  <2>1. \A p \in (serving + 1)..requestCounter : p \in RequestsOfUser
    BY <1>7, Numbers
  <2>2. \A p \in (serving + 1)..requestCounter :
          ended'[p] = "refused" \/ Has(toServer', Msg("request", p))
    BY <1>3, <1>7, <1>8, <2>1
  <2> QED
    BY <1>1, <1>2, <1>5, <1>7, <1>8, <2>2 DEF ServeInv
<1>15. AnswerInv'
  <2>1. ~HasClosing(toClient, r) /\ Told("error", "refused")
    BY <1>0, <1>5 DEF IInv, AnswerInv, Told
  <2> QED
    BY <1>0, <1>1, <1>2, <1>6, <1>8, <2>1, Numbers DEF IInv, AnswerInv
<1>16. ShownMatchesServer'
  <2>1. ASSUME NEW p \in RequestsOfUser, ended'[p] = "refused"
        PROVE  \E q \in 1..(p - 1) : ended'[q] = "failed" /\ \A x \in (q + 1)..p : ended'[x] = "refused"
    <3>1. CASE p = r
      <4>1. \A x \in (serving + 1)..r : x \in RequestsOfUser /\ x <= r /\ x \in (serving + 1)..requestCounter
        BY <1>3, <1>7, Numbers
      <4>2. \A x \in (serving + 1)..r : Has(toServer, Msg("request", x)) => x = r
        BY <1>3, <1>4, <4>1, Numbers
      <4>3. \A x \in (serving + 1)..r : ended'[x] = "refused"
        BY <1>7, <1>8, <4>1, <4>2
      <4>4. serving \in 1..(r - 1) /\ ended'[serving] = "failed"
        BY <1>1, <1>3, <1>5, <1>7, <1>8, Numbers
      <4> QED
        BY <3>1, <4>3, <4>4
    <3>2. CASE p # r
      <4>1. PICK q \in 1..(p - 1) : ended[q] = "failed" /\ \A x \in (q + 1)..p : ended[x] = "refused"
        BY <1>0, <1>8, <2>1, <3>2 DEF IInv, ShownMatchesServer
      <4>2. q \in RequestsOfUser /\ \A x \in (q + 1)..p : x \in RequestsOfUser
        BY <4>1, Numbers
      <4> QED
        BY <1>5, <1>8, <4>1, <4>2
    <3> QED
      BY <3>1, <3>2
  <2>2. ASSUME NEW p \in RequestsOfUser
        PROVE  /\ shown'[p] = "completed" => ended'[p] = "completed" /\ parts'[p] = produced'[p]
               /\ shown'[p] = "cancelled" => ended'[p] \in {"not", "cancelled"} /\ serving' # p
               /\ shown'[p] = "failed" => ended'[p] # "completed"
    BY <1>0, <1>1, <1>2, <1>5, <1>8 DEF IInv, ShownMatchesServer
  <2> QED
    BY <2>1, <2>2 DEF ShownMatchesServer
<1> QED
  BY <1>9, <1>10, <1>11, <1>12, <1>13, <1>14, <1>15, <1>16 DEF IInv

\* The server may refuse a request although no task is there.
LEMMA RefusingRequest ==
  ASSUME IInv, NEW r \in RequestsOfUser, RefuseRequest(r)
  PROVE  IInv'
<1>0. IInv
  OBVIOUS
<1>1. /\ socket = "open" /\ Reads("request") /\ r = Head(toServer).request
      /\ serving = None /\ toClient' = Append(toClient, Msg("error", r))
      /\ ended' = [ended EXCEPT ![r] = "failed"]
      /\ UNCHANGED <<page, link, serving, failing, produced>>
  BY DEF RefuseRequest, Reads, Send
<1>2. /\ UNCHANGED <<requestCounter, mode, pendingRequest, activeRequest, shown, parts>>
      /\ UNCHANGED <<socket, reconnectTimer, reconnectAttempts, connectionState>>
  BY <1>1 DEF page, link
<1>3. /\ Has(toServer, Msg("request", r)) /\ Orderly(toServer') /\ pendingRequest = None
      /\ r \in Nat /\ r <= requestCounter /\ toServer' \in Seq(Messages)
      /\ \A l, p : Has(toServer', Msg(l, p)) => Has(toServer, Msg(l, p))
      /\ \A l, p : Has(toServer, Msg(l, p)) =>
           (l = "request" /\ p = r) \/ Has(toServer', Msg(l, p))
      /\ \A p : Mentions(toServer', p) => Mentions(toServer, p)
      /\ \A p : CancelFollows(toServer, p) => CancelFollows(toServer', p)
  BY <1>1, Reading, MessagesDiffer, Numbers
<1>4. /\ CancelledFirst(toServer', r)
      /\ \A p : Has(toServer', Msg("request", p)) => r < p
      /\ activeRequest # r => Has(toServer', Msg("cancel", r))
      /\ \A p : p # r /\ RequestPrecedes(toServer, p) => RequestPrecedes(toServer', p)
      /\ \A p : ~CancelledFirst(toServer, p)
  BY <1>1, RequestRead
<1>5. /\ ended[r] = "not" /\ produced[r] = 0 /\ r > serving
      /\ shown[r] \in {"running", "dismissed"}
      /\ \A p \in r..requestCounter : Has(toServer, Msg("request", p))
  BY <1>0, <1>3, OnTheWay
<1>6. /\ toClient' \in Seq(Events)
      /\ \A p : Mentions(toClient', p) <=> Mentions(toClient, p) \/ p = r
      /\ \A p : HasClosing(toClient', p) <=> HasClosing(toClient, p) \/ p = r
      /\ \A p : ProgressFirst(toClient, p) => ProgressFirst(toClient', p)
      /\ \A p : ProgressIn(toClient', p) = ProgressIn(toClient, p)
      /\ \A p, how : FirstTells(toClient, p, how) /\ (HasClosing(toClient, p) \/ p # r) =>
           FirstTells(toClient', p, how)
      /\ \A how : ~HasClosing(toClient, r) /\ Told("error", how) =>
           FirstTells(toClient', r, how)
  <2> DEFINE m == Msg("error", r)
  <2>1. /\ m \in Events /\ m.type = "error" /\ m.request = r /\ m.type # "progress"
        /\ toClient \in Seq(Events) /\ toClient' = Append(toClient, m)
    BY <1>1, Together, MessagesDiffer DEF EventNames
  <2> HIDE DEF m
  <2> QED
    BY <2>1, AfterClosing
<1>7. ~failing
  BY <1>0, <1>1 DEF IInv, ServeInv
<1>8. \A p \in RequestsOfUser : ended'[p] = (IF p = r THEN "failed" ELSE ended[p])
  BY <1>0, <1>1 DEF IInv, TypeOK
<1>9. TypeOK'
  BY <1>0, <1>1, <1>2, <1>3, <1>6 DEF IInv, TypeOK
<1>10. LinkInv'
  BY <1>0, <1>1, <1>2 DEF IInv, LinkInv, RunningIsWorkedOn, StateTellsSocket, Waiting
<1>11. PageInv'
  <2> SUFFICES ASSUME NEW p \in RequestsOfUser
               PROVE  /\ shown'[p] = "running" <=> activeRequest' = p
                      /\ p > requestCounter' => shown'[p] = "nothing"
                      /\ p > requestCounter' \/ pendingRequest' = p => Unheard(p)'
    BY DEF PageInv
  <2>1. p > requestCounter' \/ pendingRequest' = p => p > requestCounter /\ p # r
    BY <1>2, <1>3, Numbers
  <2> QED
    BY <1>0, <1>1, <1>2, <1>3, <1>6, <1>8, <2>1 DEF IInv, PageInv, Unheard
<1>12. AskInv'
  <2> SUFFICES ASSUME NEW p \in RequestsOfUser, Has(toServer', Msg("request", p))
               PROVE  /\ ended'[p] = "not" /\ produced'[p] = 0 /\ p > serving'
                      /\ shown'[p] \in {"running", "dismissed"}
                      /\ activeRequest' # p => CancelFollows(toServer', p)
                      /\ \A x \in p..requestCounter' : Has(toServer', Msg("request", x))
    BY <1>3 DEF AskInv
  <2>1. Has(toServer, Msg("request", p)) /\ p # r /\ p \in Nat /\ p > r
    BY <1>3, <1>4, Numbers
  <2>2. \A x \in p..requestCounter : Has(toServer', Msg("request", x))
    <3> SUFFICES ASSUME NEW x \in p..requestCounter PROVE Has(toServer', Msg("request", x))
      OBVIOUS
    <3>1. x # r
      BY <1>3, <2>1, Numbers
    <3> QED
      BY <1>0, <1>3, <2>1, <3>1, OnTheWay
  <2> QED
    BY <1>0, <1>1, <1>2, <1>3, <1>8, <2>1, <2>2, OnTheWay
<1>13. CancelInv'
  <2>1. ASSUME NEW p \in RequestsOfUser, Has(toServer', Msg("cancel", p))
        PROVE  serving' = p \/ ended'[p] # "not" \/ RequestPrecedes(toServer', p)
    <3>1. CASE p = r
      BY <1>8, <3>1
    <3>2. CASE p # r
      BY <1>0, <1>1, <1>3, <1>4, <1>8, <2>1, <3>2 DEF IInv, CancelInv
    <3> QED
      BY <3>1, <3>2
  <2>2. activeRequest' # None /\ socket' = "open" /\ ended'[activeRequest'] = "not" =>
          serving' = activeRequest' \/ Has(toServer', Msg("request", activeRequest'))
    BY <1>0, <1>1, <1>2, <1>3, <1>8, Numbers DEF IInv, CancelInv
  <2> QED
    BY <2>1, <2>2 DEF CancelInv
<1>14. ServeInv'
  BY <1>1, <1>7 DEF ServeInv
<1>15. AnswerInv'
  <2>1. ~HasClosing(toClient, r) /\ Told("error", "failed")
    BY <1>0, <1>5 DEF IInv, AnswerInv, Told
  <2> QED
    BY <1>0, <1>1, <1>2, <1>6, <1>8, <2>1, Numbers DEF IInv, AnswerInv
<1>16. ShownMatchesServer'
  <2>1. \A p \in RequestsOfUser : ended'[p] = "refused" =>
          \E q \in 1..(p - 1) : ended'[q] = "failed" /\ \A x \in (q + 1)..p : ended'[x] = "refused"
    <3>1. ended[r] \in {"not", "failed"} /\ "failed" \in {"failed", "completed", "cancelled"}
      BY <1>5
    <3>2. ended' = [ended EXCEPT ![r] = "failed"]
      BY <1>1
    <3> QED
      BY <1>0, <3>1, <3>2, RefusalsStand
  <2>2. ASSUME NEW p \in RequestsOfUser
        PROVE  /\ shown'[p] = "completed" => ended'[p] = "completed" /\ parts'[p] = produced'[p]
               /\ shown'[p] = "cancelled" => ended'[p] \in {"not", "cancelled"} /\ serving' # p
               /\ shown'[p] = "failed" => ended'[p] # "completed"
    BY <1>0, <1>1, <1>2, <1>5, <1>8 DEF IInv, ShownMatchesServer
  <2> QED
    BY <2>1, <2>2 DEF ShownMatchesServer
<1> QED
  BY <1>9, <1>10, <1>11, <1>12, <1>13, <1>14, <1>15, <1>16 DEF IInv

\* A cancellation that finds no task of its request is answered by an error.
LEMMA RefusingCancel ==
  ASSUME IInv, NEW r \in RequestsOfUser, RefuseCancel(r)
  PROVE  IInv'
<1>0. IInv
  OBVIOUS
<1>1. /\ socket = "open" /\ Reads("cancel") /\ r = Head(toServer).request
      /\ serving # r /\ toClient' = Append(toClient, Msg("error", r))
      /\ UNCHANGED <<page, link, server>>
  BY DEF RefuseCancel, Reads, Send
<1>2. /\ UNCHANGED <<requestCounter, mode, pendingRequest, activeRequest, shown, parts>>
      /\ UNCHANGED <<socket, reconnectTimer, reconnectAttempts, connectionState>>
      /\ UNCHANGED <<serving, failing, produced, ended>>
  BY <1>1 DEF page, link, server
<1>3. /\ Has(toServer, Msg("cancel", r)) /\ Orderly(toServer') /\ pendingRequest = None
      /\ r \in Nat /\ r <= requestCounter /\ toServer' \in Seq(Messages)
      /\ \A l, p : Has(toServer', Msg(l, p)) => Has(toServer, Msg(l, p))
      /\ \A l, p : Has(toServer, Msg(l, p)) =>
           (l = "cancel" /\ p = r) \/ Has(toServer', Msg(l, p))
      /\ \A p : Mentions(toServer', p) => Mentions(toServer, p)
      /\ \A p : CancelFollows(toServer, p) => CancelFollows(toServer', p)
  BY <1>1, Reading, MessagesDiffer, Numbers
<1>4. /\ \A p : RequestPrecedes(toServer, p) => RequestPrecedes(toServer', p)
      /\ \A p : p # r /\ CancelledFirst(toServer, p) => CancelledFirst(toServer', p)
      /\ serving = r \/ ended[r] # "not" 
  BY <1>1, CancelRead
<1>5. /\ toClient' \in Seq(Events)
      /\ \A p : Mentions(toClient', p) <=> Mentions(toClient, p) \/ p = r
      /\ \A p : HasClosing(toClient', p) <=> HasClosing(toClient, p) \/ p = r
      /\ \A p : ProgressFirst(toClient, p) => ProgressFirst(toClient', p)
      /\ \A p : ProgressIn(toClient', p) = ProgressIn(toClient, p)
      /\ \A p, how : FirstTells(toClient, p, how) /\ (HasClosing(toClient, p) \/ p # r) =>
           FirstTells(toClient', p, how)
      /\ \A how : ~HasClosing(toClient, r) /\ Told("error", how) =>
           FirstTells(toClient', r, how)
  <2> DEFINE m == Msg("error", r)
  <2>1. /\ m \in Events /\ m.type = "error" /\ m.request = r /\ m.type # "progress"
        /\ toClient \in Seq(Events) /\ toClient' = Append(toClient, m)
    BY <1>1, Together, MessagesDiffer DEF EventNames
  <2> HIDE DEF m
  <2> QED
    BY <2>1, AfterClosing
<1>6. TypeOK'
  BY <1>0, <1>1, <1>2, <1>3, <1>5 DEF IInv, TypeOK
<1>7. LinkInv'
  BY <1>0, <1>1, <1>2 DEF IInv, LinkInv, RunningIsWorkedOn, StateTellsSocket, Waiting
<1>8. PageInv'
  <2> SUFFICES ASSUME NEW p \in RequestsOfUser
               PROVE  /\ shown'[p] = "running" <=> activeRequest' = p
                      /\ p > requestCounter' => shown'[p] = "nothing"
                      /\ p > requestCounter' \/ pendingRequest' = p => Unheard(p)'
    BY DEF PageInv
  <2>1. p > requestCounter' \/ pendingRequest' = p => p > requestCounter /\ p # r
    BY <1>2, <1>3, Numbers
  <2> QED
    BY <1>0, <1>1, <1>2, <1>3, <1>5, <2>1 DEF IInv, PageInv, Unheard
<1>9. AskInv'
  <2> SUFFICES ASSUME NEW p \in RequestsOfUser, Has(toServer', Msg("request", p))
               PROVE  /\ ended'[p] = "not" /\ produced'[p] = 0 /\ p > serving'
                      /\ shown'[p] \in {"running", "dismissed"}
                      /\ activeRequest' # p => CancelFollows(toServer', p)
                      /\ \A x \in p..requestCounter' : Has(toServer', Msg("request", x))
    BY <1>3 DEF AskInv
  <2> QED
    BY <1>0, <1>2, <1>3, OnTheWay
<1>10. CancelInv'
  BY <1>0, <1>1, <1>2, <1>3, <1>4 DEF IInv, CancelInv
<1>11. ServeInv'
  BY <1>0, <1>1, <1>2, <1>3, <1>4 DEF IInv, ServeInv
<1>12. AnswerInv'
  BY <1>0, <1>1, <1>2, <1>4, <1>5, Numbers DEF IInv, AnswerInv
<1>13. ShownMatchesServer'
  BY <1>0, <1>2 DEF IInv, ShownMatchesServer
<1> QED
  BY <1>6, <1>7, <1>8, <1>9, <1>10, <1>11, <1>12, <1>13 DEF IInv

\* The last events of a cancelled task and the answer to its cancellation: how the request
\* ended is what the first of them tells.
LEMMA Departing ==
  ASSUME IInv, NEW r \in RequestsOfUser, CancelTask(r)
  PROVE  /\ toClient' \in Seq(Events)
         /\ \A p : Mentions(toClient', p) <=> Mentions(toClient, p) \/ p = r
         /\ \A p : HasClosing(toClient', p) <=> HasClosing(toClient, p) \/ p = r
         /\ \A p : ProgressFirst(toClient, p) => ProgressFirst(toClient', p)
         /\ \A p : ProgressIn(toClient', p) = ProgressIn(toClient, p)
         /\ \A p, how : FirstTells(toClient, p, how) /\ (HasClosing(toClient, p) \/ p # r) =>
              FirstTells(toClient', p, how)
         /\ \E how \in {"failed", "completed", "cancelled"} :
              /\ ended' = [ended EXCEPT ![r] = how]
              /\ failing => how = "failed"
              /\ ~failing /\ ~HasClosing(toClient, r) => FirstTells(toClient', r, how)
<1>1. PICK last \in Parting(r) :
        /\ toClient' = toClient \o last \o <<Msg("cancelled", r)>>
        /\ ended' = [ended EXCEPT ![r] =
             IF failing \/ last = <<Msg("error", r)>> THEN "failed"
             ELSE IF last = <<Msg("completed", r)>> THEN "completed" ELSE "cancelled"]
  BY DEF CancelTask
<1> DEFINE c == Msg("cancelled", r)
           a == toClient \o last \o <<c>>
           outcome == IF last = <<Msg("error", r)>> THEN "failed"
                      ELSE IF last = <<Msg("completed", r)>> THEN "completed" ELSE "cancelled"
<1>2. /\ c \in Events /\ c.type = "cancelled" /\ c.type # "progress" /\ c.request = r
      /\ toClient \in Seq(Events)
  BY Together, MessagesDiffer DEF EventNames
<1>3. /\ outcome \in {"failed", "completed", "cancelled"}
      /\ ~failing => ended' = [ended EXCEPT ![r] = outcome]
      /\ failing => ended' = [ended EXCEPT ![r] = "failed"]
  BY <1>1
<1>4. toClient' = a
  BY <1>1
<1>5. CASE last = <<>>
  <2>1. a = Append(toClient, c)
    BY <1>2, <1>5
  <2>2. outcome = "cancelled" /\ Told("cancelled", outcome)
    BY <1>5 DEF Told
  <2> HIDE DEF a, c, outcome
  <2>3. /\ a \in Seq(Events)
        /\ \A p : Mentions(a, p) <=> Mentions(toClient, p) \/ p = r
        /\ \A p : HasClosing(a, p) <=> HasClosing(toClient, p) \/ p = r
        /\ \A p : ProgressFirst(toClient, p) => ProgressFirst(a, p)
        /\ \A p : ProgressIn(a, p) = ProgressIn(toClient, p)
        /\ \A p, how : FirstTells(toClient, p, how) /\ (HasClosing(toClient, p) \/ p # r) =>
             FirstTells(a, p, how)
        /\ ~HasClosing(toClient, r) => FirstTells(a, r, outcome)
    BY <1>2, <2>1, <2>2, AfterClosing
  <2> QED
    BY <1>3, <1>4, <2>3
<1>6. ASSUME NEW k \in {"completed", "error", "execution_failed"}, last = <<Msg(k, r)>>
      PROVE  /\ a \in Seq(Events)
             /\ \A p : Mentions(a, p) <=> Mentions(toClient, p) \/ p = r
             /\ \A p : HasClosing(a, p) <=> HasClosing(toClient, p) \/ p = r
             /\ \A p : ProgressFirst(toClient, p) => ProgressFirst(a, p)
             /\ \A p : ProgressIn(a, p) = ProgressIn(toClient, p)
             /\ \A p, how : FirstTells(toClient, p, how) /\ (HasClosing(toClient, p) \/ p # r) =>
                  FirstTells(a, p, how)
             /\ ~HasClosing(toClient, r) => FirstTells(a, r, outcome)
  <2> DEFINE m == Msg(k, r)
             b == Append(toClient, m)
  <2>1. m \in Events /\ m.type = k /\ m.request = r /\ m.type # "progress"
    BY MessagesDiffer DEF EventNames
  <2>2. a = Append(b, c)
    BY <1>2, <1>6, <2>1
  <2>3. \A l : last = <<Msg(l, r)>> <=> l = k
    <3>1. \A x, y : <<x>> = <<y>> <=> x = y
      OBVIOUS
    <3> QED
      BY <1>6, <3>1, MessagesDiffer
  <2>4. Told(k, outcome)
    BY <2>3 DEF Told
  <2> HIDE DEF a, b, c, m, outcome
  <2>5. /\ b \in Seq(Events)
        /\ \A p : Mentions(b, p) <=> Mentions(toClient, p) \/ p = r
        /\ \A p : HasClosing(b, p) <=> HasClosing(toClient, p) \/ p = r
        /\ \A p : ProgressFirst(toClient, p) => ProgressFirst(b, p)
        /\ \A p : ProgressIn(b, p) = ProgressIn(toClient, p)
        /\ \A p, how : FirstTells(toClient, p, how) /\ (HasClosing(toClient, p) \/ p # r) =>
             FirstTells(b, p, how)
        /\ ~HasClosing(toClient, r) => FirstTells(b, r, outcome)
    BY <1>2, <2>1, <2>4, AfterClosing DEF b
  <2>6. /\ a \in Seq(Events)
        /\ \A p : Mentions(a, p) <=> Mentions(b, p) \/ p = r
        /\ \A p : HasClosing(a, p) <=> HasClosing(b, p) \/ p = r
        /\ \A p : ProgressFirst(b, p) => ProgressFirst(a, p)
        /\ \A p : ProgressIn(a, p) = ProgressIn(b, p)
        /\ \A p, how : FirstTells(b, p, how) /\ (HasClosing(b, p) \/ p # r) =>
             FirstTells(a, p, how)
    BY <1>2, <2>2, <2>5, AfterClosing
  <2> QED
    BY <2>5, <2>6
<1> HIDE DEF a, c, outcome
<1>7. \/ last = <<>>
      \/ \E k \in {"completed", "error", "execution_failed"} : last = <<Msg(k, r)>>
  BY <1>1 DEF Parting
<1> QED
  BY <1>3, <1>4, <1>5, <1>6, <1>7

\* A cancellation that finds the task of its request ends it.
LEMMA CancellingTask ==
  ASSUME IInv, NEW r \in RequestsOfUser, CancelTask(r)
  PROVE  IInv'
<1>0. IInv
  OBVIOUS
<1>1. /\ socket = "open" /\ Reads("cancel") /\ r = Head(toServer).request
      /\ serving = r /\ serving' = None /\ failing' = FALSE
      /\ UNCHANGED <<page, link, produced>>
  BY DEF CancelTask, Reads
<1>2. /\ UNCHANGED <<requestCounter, mode, pendingRequest, activeRequest, shown, parts>>
      /\ UNCHANGED <<socket, reconnectTimer, reconnectAttempts, connectionState>>
  BY <1>1 DEF page, link
<1>3. /\ Has(toServer, Msg("cancel", r)) /\ Orderly(toServer') /\ pendingRequest = None
      /\ r \in Nat /\ r <= requestCounter /\ toServer' \in Seq(Messages)
      /\ \A l, p : Has(toServer', Msg(l, p)) => Has(toServer, Msg(l, p))
      /\ \A l, p : Has(toServer, Msg(l, p)) =>
           (l = "cancel" /\ p = r) \/ Has(toServer', Msg(l, p))
      /\ \A p : Mentions(toServer', p) => Mentions(toServer, p)
      /\ \A p : CancelFollows(toServer, p) => CancelFollows(toServer', p)
  BY <1>1, Reading, MessagesDiffer, Numbers
<1>4. /\ \A p : RequestPrecedes(toServer, p) => RequestPrecedes(toServer', p)
      /\ \A p : p # r /\ CancelledFirst(toServer, p) => CancelledFirst(toServer', p)
      /\ serving = r \/ ended[r] # "not" 
  BY <1>1, CancelRead
<1>5. /\ toClient' \in Seq(Events)
      /\ \A p : Mentions(toClient', p) <=> Mentions(toClient, p) \/ p = r
      /\ \A p : HasClosing(toClient', p) <=> HasClosing(toClient, p) \/ p = r
      /\ \A p : ProgressFirst(toClient, p) => ProgressFirst(toClient', p)
      /\ \A p : ProgressIn(toClient', p) = ProgressIn(toClient, p)
      /\ \A p, how : FirstTells(toClient, p, how) /\ (HasClosing(toClient, p) \/ p # r) =>
           FirstTells(toClient', p, how)
  BY Departing
<1>6. PICK how \in {"failed", "completed", "cancelled"} :
        /\ ended' = [ended EXCEPT ![r] = how]
        /\ failing => how = "failed"
        /\ ~failing /\ ~HasClosing(toClient, r) => FirstTells(toClient', r, how)
  BY Departing
<1>7. \A p \in RequestsOfUser : ended'[p] = (IF p = r THEN how ELSE ended[p])
  BY <1>0, <1>6 DEF IInv, TypeOK
<1>8. /\ failing => ended[r] = "failed"
      /\ ~failing => /\ ended[r] = "not" /\ ~HasClosing(toClient, r)
                     /\ shown[r] \in {"running", "dismissed"}
  <2>1. r # None
    BY Numbers
  <2> QED
    BY <1>0, <1>1, <2>1, AtWork DEF IInv, ServeInv
<1>9. TypeOK'
  <2>1. {pendingRequest', activeRequest', serving'} \subseteq 0..requestCounter'
    BY <1>0, <1>1, <1>2, Numbers
  <2>2. ended' \in [RequestsOfUser -> {"not", "refused", "completed", "failed", "cancelled"}]
    BY <1>0, <1>6 DEF IInv, TypeOK
  <2> QED
    BY <1>0, <1>1, <1>2, <1>3, <1>5, <2>1, <2>2 DEF IInv, TypeOK
<1>10. LinkInv'
  BY <1>0, <1>1, <1>2 DEF IInv, LinkInv, RunningIsWorkedOn, StateTellsSocket, Waiting
<1>11. PageInv'
  <2> SUFFICES ASSUME NEW p \in RequestsOfUser
               PROVE  /\ shown'[p] = "running" <=> activeRequest' = p
                      /\ p > requestCounter' => shown'[p] = "nothing"
                      /\ p > requestCounter' \/ pendingRequest' = p => Unheard(p)'
    BY DEF PageInv
  <2>1. p > requestCounter' \/ pendingRequest' = p => p > requestCounter /\ p # r /\ p # None
    BY <1>2, <1>3, Numbers
  <2> QED
    BY <1>0, <1>1, <1>2, <1>3, <1>5, <1>7, <2>1 DEF IInv, PageInv, Unheard
<1>12. AskInv'
  <2> SUFFICES ASSUME NEW p \in RequestsOfUser, Has(toServer', Msg("request", p))
               PROVE  /\ ended'[p] = "not" /\ produced'[p] = 0 /\ p > serving'
                      /\ shown'[p] \in {"running", "dismissed"}
                      /\ activeRequest' # p => CancelFollows(toServer', p)
                      /\ \A x \in p..requestCounter' : Has(toServer', Msg("request", x))
    BY <1>3 DEF AskInv
  <2>1. Has(toServer, Msg("request", p)) /\ p # r /\ p > None
    BY <1>0, <1>1, <1>3, OnTheWay, Numbers
  <2> QED
    BY <1>0, <1>1, <1>2, <1>3, <1>7, <2>1, OnTheWay
<1>13. CancelInv'
  <2>1. ASSUME NEW p \in RequestsOfUser, Has(toServer', Msg("cancel", p))
        PROVE  serving' = p \/ ended'[p] # "not" \/ RequestPrecedes(toServer', p)
    <3>1. CASE p = r
      BY <1>6, <1>7, <3>1
    <3>2. CASE p # r
      BY <1>0, <1>1, <1>3, <1>4, <1>7, <2>1, <3>2 DEF IInv, CancelInv
    <3> QED
      BY <3>1, <3>2
  <2>2. activeRequest' # None /\ socket' = "open" /\ ended'[activeRequest'] = "not" =>
          serving' = activeRequest' \/ Has(toServer', Msg("request", activeRequest'))
    BY <1>0, <1>1, <1>2, <1>3, <1>6, <1>7, Numbers DEF IInv, CancelInv
  <2> QED
    BY <2>1, <2>2 DEF CancelInv
<1>14. ServeInv'
  BY <1>1 DEF ServeInv
<1>15. AnswerInv'
  <2>1. FirstTells(toClient', activeRequest, ended'[activeRequest])
          \/ activeRequest = None
    <3>1. CASE activeRequest = r /\ ~failing
      BY <1>3, <1>6, <1>7, <1>8, <3>1, Numbers
    <3>2. CASE activeRequest = r /\ failing
      BY <1>0, <1>1, <1>5, <1>6, <1>7, <1>8, <3>2, Numbers DEF IInv, AnswerInv
    <3>3. CASE activeRequest # r
      BY <1>0, <1>1, <1>5, <1>7, <3>3, Numbers DEF IInv, AnswerInv
    <3> QED
      BY <3>1, <3>2, <3>3
  <2>2. \A p \in RequestsOfUser : HasClosing(toClient', p) => ended'[p] # "not"
    BY <1>0, <1>5, <1>6, <1>7 DEF IInv, AnswerInv
  <2> QED
    BY <1>0, <1>1, <1>2, <1>5, <1>7, <2>1, <2>2, Numbers DEF IInv, AnswerInv
<1>16. ShownMatchesServer'
  <2>1. \A p \in RequestsOfUser : ended'[p] = "refused" =>
          \E q \in 1..(p - 1) : ended'[q] = "failed" /\ \A x \in (q + 1)..p : ended'[x] = "refused"
    <3>1. ended[r] \in {"not", "failed"} /\ (ended[r] = "failed" => how = "failed")
      BY <1>6, <1>8
    <3> QED
      BY <1>0, <1>6, <3>1, RefusalsStand
  <2>2. ASSUME NEW p \in RequestsOfUser
        PROVE  /\ shown'[p] = "completed" => ended'[p] = "completed" /\ parts'[p] = produced'[p]
               /\ shown'[p] = "cancelled" => ended'[p] \in {"not", "cancelled"} /\ serving' # p
               /\ shown'[p] = "failed" => ended'[p] # "completed"
    <3>1. p # r \/ failing => ended'[p] = ended[p]
      BY <1>6, <1>7, <1>8
    <3>2. p # None
      BY Numbers
    <3> QED
      BY <1>0, <1>1, <1>2, <1>8, <3>1, <3>2 DEF IInv, ShownMatchesServer
  <2> QED
    BY <2>1, <2>2 DEF ShownMatchesServer
<1> QED
  BY <1>9, <1>10, <1>11, <1>12, <1>13, <1>14, <1>15, <1>16 DEF IInv

\* The task sends an event of the answer.
LEMMA Producing ==
  ASSUME IInv, Produce
  PROVE  IInv'
<1>0. IInv
  OBVIOUS
<1>1. /\ serving # None /\ ~failing /\ produced[serving] < MaxProgress
      /\ produced' = [produced EXCEPT ![serving] = produced[serving] + 1]
      /\ toClient' = Append(toClient, Msg("progress", serving))
      /\ UNCHANGED <<page, link, toServer, serving, failing, ended>>
  BY DEF Produce, Works, Send
<1>2. /\ UNCHANGED <<requestCounter, mode, pendingRequest, activeRequest, shown, parts>>
      /\ UNCHANGED <<socket, reconnectTimer, reconnectAttempts, connectionState>>
  BY <1>1 DEF page, link
<1>3. /\ socket = "open" /\ pendingRequest = None
      /\ serving \in RequestsOfUser /\ serving \in Nat /\ serving <= requestCounter
      /\ ended[serving] = "not" /\ ~HasClosing(toClient, serving)
      /\ shown[serving] \in {"running", "dismissed"}
      /\ \A p : Has(toServer, Msg("request", p)) => p # serving
  BY <1>0, <1>1, AtWork
<1>4. /\ toClient' \in Seq(Events)
      /\ \A p : Mentions(toClient', p) <=> Mentions(toClient, p) \/ p = serving
      /\ \A p : HasClosing(toClient', p) <=> HasClosing(toClient, p)
      /\ \A p : ProgressFirst(toClient, p) => ProgressFirst(toClient', p)
      /\ \A p, how : FirstTells(toClient, p, how) => FirstTells(toClient', p, how)
      /\ \A p : ProgressIn(toClient', p) =
                  ProgressIn(toClient, p) + (IF p = serving THEN 1 ELSE 0)
      /\ \A p : ProgressIn(toClient, p) \in Nat
  <2> DEFINE m == Msg("progress", serving)
  <2>1. /\ m \in Events /\ m.request = serving /\ toClient \in Seq(Events)
        /\ \A p : ~IsClosing(m, p)
        /\ \A p : m = Msg("progress", p) <=> p = serving
        /\ toClient' = Append(toClient, m)
    BY <1>1, <1>3, Together, MessagesDiffer DEF EventNames, IsClosing
  <2> HIDE DEF m
  <2>2. /\ toClient' \in Seq(Events)
        /\ \A p : Mentions(toClient', p) <=> Mentions(toClient, p) \/ p = serving
        /\ \A p : HasClosing(toClient', p) <=> HasClosing(toClient, p)
        /\ \A p : ProgressFirst(toClient, p) => ProgressFirst(toClient', p)
        /\ \A p, how : FirstTells(toClient, p, how) => FirstTells(toClient', p, how)
    BY <1>3, <2>1, AfterTelling
  <2>3. ASSUME NEW p
        PROVE  /\ ProgressIn(toClient', p) =
                    ProgressIn(toClient, p) + (IF p = serving THEN 1 ELSE 0)
               /\ ProgressIn(toClient, p) \in Nat
    <3>1. ProgressIn(toClient, p) \in Nat
      BY <2>1, ProgressCounts
    <3>2. ProgressIn(Append(toClient, m), p) =
            ProgressIn(toClient, p) + (IF m = Msg("progress", p) THEN 1 ELSE 0)
      BY <2>1, ProgressSent
    <3>3. toClient' = Append(toClient, m) /\ (m = Msg("progress", p) <=> p = serving)
      BY <2>1
    <3> QED
      BY <3>1, <3>2, <3>3
  <2> QED
    BY <2>2, <2>3
<1>5. /\ \A p \in RequestsOfUser :
           produced'[p] = (IF p = serving THEN produced[p] + 1 ELSE produced[p])
      /\ produced' \in [RequestsOfUser -> 0..MaxProgress]
  <2>1. produced \in [RequestsOfUser -> 0..MaxProgress]
    BY <1>0 DEF IInv, TypeOK
  <2>2. produced[serving] + 1 \in 0..MaxProgress
    BY <1>1, <1>3, <2>1, Numbers
  <2> QED
    BY <1>1, <1>3, <2>1, <2>2
<1>6. TypeOK'
  BY <1>0, <1>1, <1>2, <1>4, <1>5 DEF IInv, TypeOK
<1>7. LinkInv'
  BY <1>0, <1>1, <1>2, <1>3 DEF IInv, LinkInv, RunningIsWorkedOn, StateTellsSocket, Waiting
<1>8. PageInv'
  <2> SUFFICES ASSUME NEW p \in RequestsOfUser
               PROVE  /\ shown'[p] = "running" <=> activeRequest' = p
                      /\ p > requestCounter' => shown'[p] = "nothing"
                      /\ p > requestCounter' \/ pendingRequest' = p => Unheard(p)'
    BY DEF PageInv
  <2>1. p > requestCounter' \/ pendingRequest' = p => p > requestCounter /\ p # serving /\ p # None
    BY <1>2, <1>3, Numbers
  <2> QED
    BY <1>0, <1>1, <1>2, <1>3, <1>4, <1>5, <2>1 DEF IInv, PageInv, Unheard
<1>9. AskInv'
  <2> SUFFICES ASSUME NEW p \in RequestsOfUser, Has(toServer, Msg("request", p))
               PROVE  /\ ended'[p] = "not" /\ produced'[p] = 0 /\ p > serving'
                      /\ shown'[p] \in {"running", "dismissed"}
                      /\ activeRequest' # p => CancelFollows(toServer', p)
                      /\ \A x \in p..requestCounter' : Has(toServer', Msg("request", x))
    BY <1>0, <1>1 DEF IInv, AskInv
  <2>1. p # serving /\ p > None
    BY <1>3, Numbers
  <2> QED
    BY <1>0, <1>1, <1>2, <1>5, <2>1, OnTheWay
<1>10. CancelInv'
  BY <1>0, <1>1, <1>2 DEF IInv, CancelInv
<1>11. ServeInv'
  BY <1>0, <1>1, <1>2 DEF IInv, ServeInv
<1>12. AnswerInv'
  <2>1. ASSUME activeRequest # None
        PROVE  parts[activeRequest] + ProgressIn(toClient', activeRequest) = produced'[activeRequest]
    <3>1. activeRequest \in RequestsOfUser
      BY <1>0, <2>1, Numbers
    <3>2. /\ parts[activeRequest] \in Nat /\ produced[activeRequest] \in Nat
          /\ ProgressIn(toClient, activeRequest) \in Nat
          /\ parts[activeRequest] + ProgressIn(toClient, activeRequest) = produced[activeRequest]
      BY <1>0, <1>3, <1>4, <2>1, <3>1, Numbers DEF IInv, TypeOK, AnswerInv
    <3>3. CASE activeRequest = serving
      BY <1>4, <1>5, <3>1, <3>2, <3>3
    <3>4. CASE activeRequest # serving
      BY <1>4, <1>5, <3>1, <3>2, <3>4
    <3> QED
      BY <3>3, <3>4
  <2> QED
    BY <1>0, <1>1, <1>2, <1>4, <2>1 DEF IInv, AnswerInv
<1>13. ShownMatchesServer'
  BY <1>0, <1>1, <1>2, <1>3, <1>5 DEF IInv, ShownMatchesServer
<1> QED
  BY <1>6, <1>7, <1>8, <1>9, <1>10, <1>11, <1>12, <1>13 DEF IInv

\* The task completes.
LEMMA Completing ==
  ASSUME IInv, Complete
  PROVE  IInv'
<1>0. IInv
  OBVIOUS
<1>1. /\ serving # None /\ ~failing
      /\ ended' = [ended EXCEPT ![serving] = "completed"]
      /\ toClient' = Append(toClient, Msg("completed", serving))
      /\ serving' = None
      /\ UNCHANGED <<page, link, toServer, failing, produced>>
  BY DEF Complete, Works, Ends, Send
<1>2. /\ UNCHANGED <<requestCounter, mode, pendingRequest, activeRequest, shown, parts>>
      /\ UNCHANGED <<socket, reconnectTimer, reconnectAttempts, connectionState>>
  BY <1>1 DEF page, link
<1>3. /\ socket = "open" /\ pendingRequest = None
      /\ serving \in RequestsOfUser /\ serving \in Nat /\ serving <= requestCounter
      /\ ended[serving] = "not" /\ ~HasClosing(toClient, serving)
      /\ shown[serving] \in {"running", "dismissed"}
      /\ \A p : Has(toServer, Msg("request", p)) => p # serving
  BY <1>0, <1>1, AtWork
<1>4. /\ toClient' \in Seq(Events)
      /\ \A p : Mentions(toClient', p) <=> Mentions(toClient, p) \/ p = serving
      /\ \A p : HasClosing(toClient', p) <=> HasClosing(toClient, p) \/ p = serving
      /\ \A p : ProgressFirst(toClient, p) => ProgressFirst(toClient', p)
      /\ \A p : ProgressIn(toClient', p) = ProgressIn(toClient, p)
      /\ \A p, how : FirstTells(toClient, p, how) /\ (HasClosing(toClient, p) \/ p # serving) =>
           FirstTells(toClient', p, how)
      /\ \A how : ~HasClosing(toClient, serving) /\ Told("completed", how) =>
           FirstTells(toClient', serving, how)
  <2> DEFINE m == Msg("completed", serving)
  <2>1. /\ m \in Events /\ m.type = "completed" /\ m.request = serving /\ m.type # "progress"
        /\ toClient \in Seq(Events) /\ toClient' = Append(toClient, m)
    BY <1>1, <1>3, Together, MessagesDiffer DEF EventNames
  <2> HIDE DEF m
  <2> QED
    BY <2>1, AfterClosing
<1>5. \A p \in RequestsOfUser : ended'[p] = (IF p = serving THEN "completed" ELSE ended[p])
  BY <1>0, <1>1 DEF IInv, TypeOK
<1>6. TypeOK'
  <2>1. {pendingRequest', activeRequest', serving'} \subseteq 0..requestCounter'
    BY <1>0, <1>1, <1>2, Numbers
  <2> QED
    BY <1>0, <1>1, <1>2, <1>4, <2>1 DEF IInv, TypeOK
<1>7. LinkInv'
  BY <1>0, <1>1, <1>2, <1>3 DEF IInv, LinkInv, RunningIsWorkedOn, StateTellsSocket, Waiting
<1>8. PageInv'
  <2> SUFFICES ASSUME NEW p \in RequestsOfUser
               PROVE  /\ shown'[p] = "running" <=> activeRequest' = p
                      /\ p > requestCounter' => shown'[p] = "nothing"
                      /\ p > requestCounter' \/ pendingRequest' = p => Unheard(p)'
    BY DEF PageInv
  <2>1. p > requestCounter' \/ pendingRequest' = p => p > requestCounter /\ p # serving /\ p # None
    BY <1>2, <1>3, Numbers
  <2> QED
    BY <1>0, <1>1, <1>2, <1>3, <1>4, <1>5, <2>1 DEF IInv, PageInv, Unheard
<1>9. AskInv'
  <2> SUFFICES ASSUME NEW p \in RequestsOfUser, Has(toServer, Msg("request", p))
               PROVE  /\ ended'[p] = "not" /\ produced'[p] = 0 /\ p > serving'
                      /\ shown'[p] \in {"running", "dismissed"}
                      /\ activeRequest' # p => CancelFollows(toServer', p)
                      /\ \A x \in p..requestCounter' : Has(toServer', Msg("request", x))
    BY <1>0, <1>1 DEF IInv, AskInv
  <2>1. p # serving /\ p > None
    BY <1>3, Numbers
  <2> QED
    BY <1>0, <1>1, <1>2, <1>5, <2>1, OnTheWay
<1>10. CancelInv'
  BY <1>0, <1>1, <1>2, <1>5, Numbers DEF IInv, CancelInv
<1>11. ServeInv'
  BY <1>1 DEF ServeInv
<1>12. AnswerInv'
  <2>1. Told("completed", "completed")
    BY DEF Told
  <2> QED
    BY <1>0, <1>1, <1>2, <1>3, <1>4, <1>5, <2>1, Numbers DEF IInv, AnswerInv
<1>13. ShownMatchesServer'
  <2>1. \A p \in RequestsOfUser : ended'[p] = "refused" =>
          \E q \in 1..(p - 1) : ended'[q] = "failed" /\ \A x \in (q + 1)..p : ended'[x] = "refused"
    <3>1. ended[serving] \in {"not", "failed"} /\ (ended[serving] = "failed" => "completed" = "failed")
      BY <1>3
    <3> QED
      BY <1>0, <1>1, <1>3, <3>1, RefusalsStand
  <2>2. ASSUME NEW p \in RequestsOfUser
        PROVE  /\ shown'[p] = "completed" => ended'[p] = "completed" /\ parts'[p] = produced'[p]
               /\ shown'[p] = "cancelled" => ended'[p] \in {"not", "cancelled"} /\ serving' # p
               /\ shown'[p] = "failed" => ended'[p] # "completed"
    <3>1. p # None
      BY Numbers
    <3> QED
      BY <1>0, <1>1, <1>2, <1>3, <1>5, <3>1 DEF IInv, ShownMatchesServer
  <2> QED
    BY <2>1, <2>2 DEF ShownMatchesServer
<1> QED
  BY <1>6, <1>7, <1>8, <1>9, <1>10, <1>11, <1>12, <1>13 DEF IInv

\* The task fails outside the failure path of an execution.
LEMMA Breaking ==
  ASSUME IInv, Fail
  PROVE  IInv'
<1>0. IInv
  OBVIOUS
<1>1. /\ serving # None /\ ~failing
      /\ ended' = [ended EXCEPT ![serving] = "failed"]
      /\ toClient' = Append(toClient, Msg("error", serving))
      /\ serving' = None
      /\ UNCHANGED <<page, link, toServer, failing, produced>>
  BY DEF Fail, Works, Ends, Send
<1>2. /\ UNCHANGED <<requestCounter, mode, pendingRequest, activeRequest, shown, parts>>
      /\ UNCHANGED <<socket, reconnectTimer, reconnectAttempts, connectionState>>
  BY <1>1 DEF page, link
<1>3. /\ socket = "open" /\ pendingRequest = None
      /\ serving \in RequestsOfUser /\ serving \in Nat /\ serving <= requestCounter
      /\ ended[serving] = "not" /\ ~HasClosing(toClient, serving)
      /\ shown[serving] \in {"running", "dismissed"}
      /\ \A p : Has(toServer, Msg("request", p)) => p # serving
  BY <1>0, <1>1, AtWork
<1>4. /\ toClient' \in Seq(Events)
      /\ \A p : Mentions(toClient', p) <=> Mentions(toClient, p) \/ p = serving
      /\ \A p : HasClosing(toClient', p) <=> HasClosing(toClient, p) \/ p = serving
      /\ \A p : ProgressFirst(toClient, p) => ProgressFirst(toClient', p)
      /\ \A p : ProgressIn(toClient', p) = ProgressIn(toClient, p)
      /\ \A p, how : FirstTells(toClient, p, how) /\ (HasClosing(toClient, p) \/ p # serving) =>
           FirstTells(toClient', p, how)
      /\ \A how : ~HasClosing(toClient, serving) /\ Told("error", how) =>
           FirstTells(toClient', serving, how)
  <2> DEFINE m == Msg("error", serving)
  <2>1. /\ m \in Events /\ m.type = "error" /\ m.request = serving /\ m.type # "progress"
        /\ toClient \in Seq(Events) /\ toClient' = Append(toClient, m)
    BY <1>1, <1>3, Together, MessagesDiffer DEF EventNames
  <2> HIDE DEF m
  <2> QED
    BY <2>1, AfterClosing
<1>5. \A p \in RequestsOfUser : ended'[p] = (IF p = serving THEN "failed" ELSE ended[p])
  BY <1>0, <1>1 DEF IInv, TypeOK
<1>6. TypeOK'
  <2>1. {pendingRequest', activeRequest', serving'} \subseteq 0..requestCounter'
    BY <1>0, <1>1, <1>2, Numbers
  <2> QED
    BY <1>0, <1>1, <1>2, <1>4, <2>1 DEF IInv, TypeOK
<1>7. LinkInv'
  BY <1>0, <1>1, <1>2, <1>3 DEF IInv, LinkInv, RunningIsWorkedOn, StateTellsSocket, Waiting
<1>8. PageInv'
  <2> SUFFICES ASSUME NEW p \in RequestsOfUser
               PROVE  /\ shown'[p] = "running" <=> activeRequest' = p
                      /\ p > requestCounter' => shown'[p] = "nothing"
                      /\ p > requestCounter' \/ pendingRequest' = p => Unheard(p)'
    BY DEF PageInv
  <2>1. p > requestCounter' \/ pendingRequest' = p => p > requestCounter /\ p # serving /\ p # None
    BY <1>2, <1>3, Numbers
  <2> QED
    BY <1>0, <1>1, <1>2, <1>3, <1>4, <1>5, <2>1 DEF IInv, PageInv, Unheard
<1>9. AskInv'
  <2> SUFFICES ASSUME NEW p \in RequestsOfUser, Has(toServer, Msg("request", p))
               PROVE  /\ ended'[p] = "not" /\ produced'[p] = 0 /\ p > serving'
                      /\ shown'[p] \in {"running", "dismissed"}
                      /\ activeRequest' # p => CancelFollows(toServer', p)
                      /\ \A x \in p..requestCounter' : Has(toServer', Msg("request", x))
    BY <1>0, <1>1 DEF IInv, AskInv
  <2>1. p # serving /\ p > None
    BY <1>3, Numbers
  <2> QED
    BY <1>0, <1>1, <1>2, <1>5, <2>1, OnTheWay
<1>10. CancelInv'
  BY <1>0, <1>1, <1>2, <1>5, Numbers DEF IInv, CancelInv
<1>11. ServeInv'
  BY <1>1 DEF ServeInv
<1>12. AnswerInv'
  <2>1. Told("error", "failed")
    BY DEF Told
  <2> QED
    BY <1>0, <1>1, <1>2, <1>3, <1>4, <1>5, <2>1, Numbers DEF IInv, AnswerInv
<1>13. ShownMatchesServer'
  <2>1. \A p \in RequestsOfUser : ended'[p] = "refused" =>
          \E q \in 1..(p - 1) : ended'[q] = "failed" /\ \A x \in (q + 1)..p : ended'[x] = "refused"
    <3>1. ended[serving] \in {"not", "failed"} /\ (ended[serving] = "failed" => "failed" = "failed")
      BY <1>3
    <3> QED
      BY <1>0, <1>1, <1>3, <3>1, RefusalsStand
  <2>2. ASSUME NEW p \in RequestsOfUser
        PROVE  /\ shown'[p] = "completed" => ended'[p] = "completed" /\ parts'[p] = produced'[p]
               /\ shown'[p] = "cancelled" => ended'[p] \in {"not", "cancelled"} /\ serving' # p
               /\ shown'[p] = "failed" => ended'[p] # "completed"
    <3>1. p # None
      BY Numbers
    <3> QED
      BY <1>0, <1>1, <1>2, <1>3, <1>5, <3>1 DEF IInv, ShownMatchesServer
  <2> QED
    BY <2>1, <2>2 DEF ShownMatchesServer
<1> QED
  BY <1>6, <1>7, <1>8, <1>9, <1>10, <1>11, <1>12, <1>13 DEF IInv

\* An execution fails: its task stays until the error has been sent too.
LEMMA FailingExecution ==
  ASSUME IInv, FailExecution
  PROVE  IInv'
<1>0. IInv
  OBVIOUS
<1>1. /\ serving # None /\ ~failing
      /\ ended' = [ended EXCEPT ![serving] = "failed"]
      /\ toClient' = Append(toClient, Msg("execution_failed", serving))
      /\ serving' = serving /\ failing' = TRUE
      /\ UNCHANGED <<page, link, toServer, produced>>
  BY DEF FailExecution, Works, Ends, Send
<1>2. /\ UNCHANGED <<requestCounter, mode, pendingRequest, activeRequest, shown, parts>>
      /\ UNCHANGED <<socket, reconnectTimer, reconnectAttempts, connectionState>>
  BY <1>1 DEF page, link
<1>3. /\ socket = "open" /\ pendingRequest = None
      /\ serving \in RequestsOfUser /\ serving \in Nat /\ serving <= requestCounter
      /\ ended[serving] = "not" /\ ~HasClosing(toClient, serving)
      /\ shown[serving] \in {"running", "dismissed"}
      /\ \A p : Has(toServer, Msg("request", p)) => p # serving
  BY <1>0, <1>1, AtWork
<1>4. /\ toClient' \in Seq(Events)
      /\ \A p : Mentions(toClient', p) <=> Mentions(toClient, p) \/ p = serving
      /\ \A p : HasClosing(toClient', p) <=> HasClosing(toClient, p) \/ p = serving
      /\ \A p : ProgressFirst(toClient, p) => ProgressFirst(toClient', p)
      /\ \A p : ProgressIn(toClient', p) = ProgressIn(toClient, p)
      /\ \A p, how : FirstTells(toClient, p, how) /\ (HasClosing(toClient, p) \/ p # serving) =>
           FirstTells(toClient', p, how)
      /\ \A how : ~HasClosing(toClient, serving) /\ Told("execution_failed", how) =>
           FirstTells(toClient', serving, how)
  <2> DEFINE m == Msg("execution_failed", serving)
  <2>1. /\ m \in Events /\ m.type = "execution_failed" /\ m.request = serving /\ m.type # "progress"
        /\ toClient \in Seq(Events) /\ toClient' = Append(toClient, m)
    BY <1>1, <1>3, Together, MessagesDiffer DEF EventNames
  <2> HIDE DEF m
  <2> QED
    BY <2>1, AfterClosing
<1>5. \A p \in RequestsOfUser : ended'[p] = (IF p = serving THEN "failed" ELSE ended[p])
  BY <1>0, <1>1 DEF IInv, TypeOK
<1>6. TypeOK'
  <2>1. {pendingRequest', activeRequest', serving'} \subseteq 0..requestCounter'
    BY <1>0, <1>1, <1>2, Numbers
  <2> QED
    BY <1>0, <1>1, <1>2, <1>4, <2>1 DEF IInv, TypeOK
<1>7. LinkInv'
  BY <1>0, <1>1, <1>2, <1>3 DEF IInv, LinkInv, RunningIsWorkedOn, StateTellsSocket, Waiting
<1>8. PageInv'
  <2> SUFFICES ASSUME NEW p \in RequestsOfUser
               PROVE  /\ shown'[p] = "running" <=> activeRequest' = p
                      /\ p > requestCounter' => shown'[p] = "nothing"
                      /\ p > requestCounter' \/ pendingRequest' = p => Unheard(p)'
    BY DEF PageInv
  <2>1. p > requestCounter' \/ pendingRequest' = p => p > requestCounter /\ p # serving /\ p # None
    BY <1>2, <1>3, Numbers
  <2> QED
    BY <1>0, <1>1, <1>2, <1>3, <1>4, <1>5, <2>1 DEF IInv, PageInv, Unheard
<1>9. AskInv'
  <2> SUFFICES ASSUME NEW p \in RequestsOfUser, Has(toServer, Msg("request", p))
               PROVE  /\ ended'[p] = "not" /\ produced'[p] = 0 /\ p > serving'
                      /\ shown'[p] \in {"running", "dismissed"}
                      /\ activeRequest' # p => CancelFollows(toServer', p)
                      /\ \A x \in p..requestCounter' : Has(toServer', Msg("request", x))
    BY <1>0, <1>1 DEF IInv, AskInv
  <2>1. p # serving /\ p > None
    BY <1>3, Numbers
  <2> QED
    BY <1>0, <1>1, <1>2, <1>5, <2>1, OnTheWay
<1>10. CancelInv'
  BY <1>0, <1>1, <1>2, <1>5, Numbers DEF IInv, CancelInv
<1>11. ServeInv'
  <2>1. \A p \in (serving + 1)..requestCounter : p \in RequestsOfUser /\ p # serving
    BY <1>3, Numbers
  <2> QED
    BY <1>0, <1>1, <1>2, <1>3, <1>5, <2>1 DEF IInv, ServeInv
<1>12. AnswerInv'
  <2>1. Told("execution_failed", "failed")
    BY DEF Told
  <2> QED
    BY <1>0, <1>1, <1>2, <1>3, <1>4, <1>5, <2>1, Numbers DEF IInv, AnswerInv
<1>13. ShownMatchesServer'
  <2>1. \A p \in RequestsOfUser : ended'[p] = "refused" =>
          \E q \in 1..(p - 1) : ended'[q] = "failed" /\ \A x \in (q + 1)..p : ended'[x] = "refused"
    <3>1. ended[serving] \in {"not", "failed"} /\ (ended[serving] = "failed" => "failed" = "failed")
      BY <1>3
    <3> QED
      BY <1>0, <1>1, <1>3, <3>1, RefusalsStand
  <2>2. ASSUME NEW p \in RequestsOfUser
        PROVE  /\ shown'[p] = "completed" => ended'[p] = "completed" /\ parts'[p] = produced'[p]
               /\ shown'[p] = "cancelled" => ended'[p] \in {"not", "cancelled"} /\ serving' # p
               /\ shown'[p] = "failed" => ended'[p] # "completed"
    <3>1. p # None
      BY Numbers
    <3> QED
      BY <1>0, <1>1, <1>2, <1>3, <1>5, <3>1 DEF IInv, ShownMatchesServer
  <2> QED
    BY <2>1, <2>2 DEF ShownMatchesServer
<1> QED
  BY <1>6, <1>7, <1>8, <1>9, <1>10, <1>11, <1>12, <1>13 DEF IInv

\* The error behind a failed execution goes out and the task is gone.
LEMMA Reporting ==
  ASSUME IInv, ReportError
  PROVE  IInv'
<1>0. IInv
  OBVIOUS
<1>1. /\ failing /\ toClient' = Append(toClient, Msg("error", serving))
      /\ failing' = FALSE /\ serving' = None
      /\ UNCHANGED <<page, link, produced, ended, toServer>>
  BY DEF ReportError, Send
<1>2. /\ UNCHANGED <<requestCounter, mode, pendingRequest, activeRequest, shown, parts>>
      /\ UNCHANGED <<socket, reconnectTimer, reconnectAttempts, connectionState>>
  BY <1>1 DEF page, link
<1>3. /\ serving \in RequestsOfUser /\ serving \in Nat /\ serving <= requestCounter
      /\ ended[serving] = "failed" /\ pendingRequest = None /\ socket = "open" 
  <2>1. serving # None /\ ended[serving] = "failed"
    BY <1>0, <1>1 DEF IInv, ServeInv
  <2> QED
    BY <2>1, Numbers, Together DEF Waiting
<1>4. /\ toClient' \in Seq(Events)
      /\ \A p : Mentions(toClient', p) <=> Mentions(toClient, p) \/ p = serving
      /\ \A p : HasClosing(toClient', p) <=> HasClosing(toClient, p) \/ p = serving
      /\ \A p : ProgressFirst(toClient, p) => ProgressFirst(toClient', p)
      /\ \A p : ProgressIn(toClient', p) = ProgressIn(toClient, p)
      /\ \A p, how : FirstTells(toClient, p, how) /\ (HasClosing(toClient, p) \/ p # serving) =>
           FirstTells(toClient', p, how)
      /\ \A how : ~HasClosing(toClient, serving) /\ Told("error", how) =>
           FirstTells(toClient', serving, how)
  <2> DEFINE m == Msg("error", serving)
  <2>1. /\ m \in Events /\ m.type = "error" /\ m.request = serving /\ m.type # "progress"
        /\ toClient \in Seq(Events) /\ toClient' = Append(toClient, m)
    BY <1>1, <1>3, Together, MessagesDiffer DEF EventNames
  <2> HIDE DEF m
  <2> QED
    BY <2>1, AfterClosing
<1>5. TypeOK'
  <2>1. {pendingRequest', activeRequest', serving'} \subseteq 0..requestCounter'
    BY <1>0, <1>1, <1>2, Numbers
  <2> QED
    BY <1>0, <1>1, <1>2, <1>4, <2>1 DEF IInv, TypeOK
<1>6. LinkInv'
  BY <1>0, <1>1, <1>2, <1>3 DEF IInv, LinkInv, RunningIsWorkedOn, StateTellsSocket, Waiting
<1>7. PageInv'
  <2> SUFFICES ASSUME NEW p \in RequestsOfUser
               PROVE  /\ shown'[p] = "running" <=> activeRequest' = p
                      /\ p > requestCounter' => shown'[p] = "nothing"
                      /\ p > requestCounter' \/ pendingRequest' = p => Unheard(p)'
    BY DEF PageInv
  <2>1. p > requestCounter' \/ pendingRequest' = p => p > requestCounter /\ p # serving /\ p # None
    BY <1>2, <1>3, Numbers
  <2> QED
    BY <1>0, <1>1, <1>2, <1>3, <1>4, <2>1 DEF IInv, PageInv, Unheard
<1>8. AskInv'
  <2> SUFFICES ASSUME NEW p \in RequestsOfUser, Has(toServer, Msg("request", p))
               PROVE  /\ ended'[p] = "not" /\ produced'[p] = 0 /\ p > serving'
                      /\ shown'[p] \in {"running", "dismissed"}
                      /\ activeRequest' # p => CancelFollows(toServer', p)
                      /\ \A x \in p..requestCounter' : Has(toServer', Msg("request", x))
    BY <1>0, <1>1 DEF IInv, AskInv
  <2>1. p > None
    BY Numbers
  <2> QED
    BY <1>0, <1>1, <1>2, <2>1, OnTheWay
<1>9. CancelInv'
  BY <1>0, <1>1, <1>2, <1>3, Numbers DEF IInv, CancelInv
<1>10. ServeInv'
  BY <1>1 DEF ServeInv
<1>11. AnswerInv'
  BY <1>0, <1>1, <1>2, <1>3, <1>4, Numbers DEF IInv, AnswerInv
<1>12. ShownMatchesServer'
  <2>1. \A p \in RequestsOfUser : p # None
    BY Numbers
  <2> QED
    BY <1>0, <1>1, <1>2, <2>1 DEF IInv, ShownMatchesServer
<1> QED
  BY <1>5, <1>6, <1>7, <1>8, <1>9, <1>10, <1>11, <1>12 DEF IInv

-----------------------------------------------------------------------------
(* The invariant of the specification *)

\* A page that has just been opened has nothing on the way.
LEMMA ClientStarts ==
  Init => IInv
<1> SUFFICES ASSUME Init PROVE IInv
  OBVIOUS
<1>1. /\ RequestsOfUser \subseteq Nat \ {0} /\ None = 0 /\ 0 \in 0..MaxAttempts
      /\ 0 \in 0..MaxRequests /\ 0 \in 0..MaxProgress /\ 0 \in 0..0
      /\ \A p \in RequestsOfUser : p > 0
  BY ClientConstants DEF RequestsOfUser, None
<1>2. TypeOK
  <2>1. <<>> \in Seq(Messages) /\ <<>> \in Seq(Events)
    OBVIOUS
  <2>2. {pendingRequest, activeRequest, serving} \subseteq 0..requestCounter
    BY <1>1 DEF Init
  <2> QED
    BY <1>1, <2>1, <2>2 DEF Init, TypeOK, Final
<1>3. LinkInv
  BY DEF Init, LinkInv, RunningIsWorkedOn, StateTellsSocket, Waiting
<1>4. PageInv
  BY <1>1, NothingOnTheWay DEF Init, PageInv, Unheard
<1>5. AskInv
  BY NothingOnTheWay DEF Init, AskInv
<1>6. CancelInv
  BY NothingOnTheWay DEF Init, CancelInv
<1>7. ServeInv
  BY DEF Init, ServeInv
<1>8. AnswerInv
  BY NothingOnTheWay DEF Init, AnswerInv
<1>9. ShownMatchesServer
  BY DEF Init, ShownMatchesServer
<1> QED
  BY <1>2, <1>3, <1>4, <1>5, <1>6, <1>7, <1>8, <1>9 DEF IInv

\* No step of the user, the browser, the server or the network leaves the invariant.
LEMMA ClientSteps ==
  IInv /\ [Next]_vars => IInv'
<1> SUFFICES ASSUME IInv, [Next]_vars PROVE IInv'
  OBVIOUS
<1>1. CASE User
  <2>1. ASSUME NEW r \in RequestsOfUser, NEW m \in {"agent", "direct"}, SubmitConnected(r, m)
        PROVE  IInv'
    BY <2>1, AskingSends, AskingThrows
  <2>2. ASSUME NEW r \in RequestsOfUser, NEW m \in {"agent", "direct"}, SubmitAndConnect(r, m)
        PROVE  IInv'
    BY <2>2, AskingConnects
  <2>3. CASE CancelPending
    BY <2>3, CancellingWaiting
  <2>4. CASE CancelSent
    BY <2>4, CancellingSent
  <2>5. CASE ResetConversation
    BY <2>5, ResettingCancels, ResettingQuietly
  <2> QED
    BY <1>1, <2>1, <2>2, <2>3, <2>4, <2>5 DEF User
<1>2. CASE Network
  BY <1>2, OpeningAsks, OpeningIdles, Losing DEF Network
<1>3. CASE Browser
  <2>1. CASE SocketCloses
    BY <2>1, ClosingInterrupts, ClosingKeeps
  <2> QED
    BY <1>3, <2>1, Reconnecting, Ignoring, TakingProgress, TakingClosing DEF Browser
<1>4. CASE Server
  <2>1. ASSUME NEW r \in RequestsOfUser,
               StartTask(r) \/ RefuseSecond(r) \/ RefuseRequest(r) \/ RefuseCancel(r)
                 \/ CancelTask(r)
        PROVE  IInv'
    BY <2>1, Starting, RefusingSecond, RefusingRequest, RefusingCancel, CancellingTask
  <2>2. CASE Produce \/ Complete \/ Fail \/ FailExecution \/ ReportError
    BY <2>2, Producing, Completing, Breaking, FailingExecution, Reporting
  <2> QED
    BY <1>4, <2>1, <2>2 DEF Server
<1>5. CASE UNCHANGED vars
  <2>1. /\ UNCHANGED <<socket, reconnectTimer, reconnectAttempts, connectionState>>
        /\ UNCHANGED <<requestCounter, mode, pendingRequest, activeRequest, shown, parts>>
        /\ UNCHANGED <<serving, failing, produced, ended>>
        /\ UNCHANGED <<toServer, toClient>>
    BY <1>5 DEF vars, link, page, server, net
  <2>2. TypeOK' /\ LinkInv'
    BY <2>1 DEF IInv, TypeOK, LinkInv, RunningIsWorkedOn, StateTellsSocket, Waiting
  <2>3. PageInv' /\ AskInv' /\ CancelInv'
    BY <2>1 DEF IInv, PageInv, Unheard, AskInv, CancelInv
  <2>4. ServeInv' /\ AnswerInv' /\ ShownMatchesServer'
    BY <2>1 DEF IInv, ServeInv, AnswerInv, ShownMatchesServer
  <2> QED
    BY <2>2, <2>3, <2>4 DEF IInv
<1> QED
  BY <1>1, <1>2, <1>3, <1>4, <1>5 DEF Next

\* The inductive invariant, for any number of requests, reconnections and events.
THEOREM ClientInvariant ==
  Spec => []IInv
<1>1. Init => IInv
  BY ClientStarts
<1>2. IInv /\ [Next]_vars => IInv'
  BY ClientSteps
<1> QED
  BY <1>1, <1>2, PTL DEF Spec

\* A request the page has sent has a connection that will answer or break, and one that
\* waits has an attempt to connect ahead of it: websocket.service.ts:38-237 and
\* workspace-state.service.ts.
THEOREM ClientIsNeverStuck ==
  Spec => []RunningIsWorkedOn
<1>1. IInv => RunningIsWorkedOn
  BY DEF IInv, LinkInv
<1> QED
  BY <1>1, ClientInvariant, PTL

\* A query is put to the server once, whatever reconnections it takes.
THEOREM ClientAsksOnce ==
  Spec => []AskedOnce
<1>1. IInv => AskedOnce
  <2> SUFFICES ASSUME IInv PROVE AskedOnce
    OBVIOUS
  <2>1. Waiting => Unheard(pendingRequest)
    BY Numbers DEF Waiting, IInv, PageInv
  <2> QED
    BY <2>1 DEF AskedOnce, IInv, Unheard, Mentions
<1> QED
  BY <1>1, ClientInvariant, PTL

\* What the page reports of a request is what the server did with it.
THEOREM ClientTellsTheTruth ==
  Spec => []ShownMatchesServer
<1>1. IInv => ShownMatchesServer
  BY DEF IInv
<1> QED
  BY <1>1, ClientInvariant, PTL

\* A step changes what is shown of the active request, of a new one, or, a reset, of all.
LEMMA OutcomesStand ==
  ASSUME IInv, [Next]_vars, NEW r \in RequestsOfUser, shown[r] \in Final
  PROVE  shown'[r] \in {shown[r], "dismissed"}
<1>1. /\ activeRequest # r /\ r <= requestCounter
      /\ r \in Nat /\ requestCounter \in Nat
  BY Numbers DEF IInv, PageInv, Final
<1>2. \A p, how : p # r /\ shown' = [shown EXCEPT ![p] = how] => shown'[r] = shown[r]
  BY DEF IInv, TypeOK
<1>3. CASE User
  <2>1. ASSUME NEW p \in RequestsOfUser, NEW m \in {"agent", "direct"},
               SubmitConnected(p, m) \/ SubmitAndConnect(p, m)
        PROVE  shown'[r] = shown[r]
    <3>1. p # r
      BY <1>1, <2>1 DEF SubmitConnected, SubmitAndConnect, Create
    <3>2. \E how : shown' = [shown EXCEPT ![p] = how]
      BY <2>1 DEF SubmitConnected, SubmitAndConnect, Show
    <3> QED
      BY <1>2, <3>1, <3>2
  <2>2. CASE CancelPending
    BY <1>1, <1>2, <2>2 DEF CancelPending, Show
  <2>3. CASE CancelSent
    BY <2>3 DEF CancelSent, page
  <2>4. CASE ResetConversation
    BY <2>4 DEF ResetConversation
  <2> QED
    BY <1>3, <2>1, <2>2, <2>3, <2>4 DEF User
<1>4. CASE Network
  BY <1>4 DEF Network, SocketOpens, ConnectionLost, page
<1>5. CASE Browser
  <2>1. CASE SocketCloses
    BY <1>1, <1>2, <2>1 DEF SocketCloses, Show
  <2>2. CASE ReconnectTimerFires \/ IgnoreEvent \/ TakeProgress
    BY <2>2 DEF ReconnectTimerFires, IgnoreEvent, TakeProgress, page
  <2>3. CASE TakeClosingEvent
    BY <1>1, <1>2, <2>3 DEF TakeClosingEvent, Show
  <2> QED
    BY <1>5, <2>1, <2>2, <2>3 DEF Browser
<1>6. CASE Server
  <2>1. UNCHANGED page
    BY <1>6 DEF Server, StartTask, RefuseSecond, RefuseRequest, RefuseCancel, CancelTask, Reads,
                Produce, Complete, Fail, FailExecution, ReportError, Works
  <2> QED
    BY <2>1 DEF page
<1>7. CASE UNCHANGED vars
  BY <1>7 DEF vars, page
<1> QED
  BY <1>3, <1>4, <1>5, <1>6, <1>7 DEF Next

\* A reported outcome stays until the conversation is reset, whatever arrives late.
THEOREM ClientKeepsOutcomes ==
  Spec => OutcomeStays
<1>1. IInv /\ [Next]_vars =>
        [\A r \in RequestsOfUser :
           shown[r] \in Final => shown'[r] \in {shown[r], "dismissed"}]_vars
  BY OutcomesStand
<1> QED
  BY <1>1, ClientInvariant, PTL DEF Spec, OutcomeStays

=============================================================================
