-------------------------- MODULE LLMProviderProofs --------------------------
(***************************************************************************)
(* What holds of LLMProvider for any number of calls, slots, retries and   *)
(* chunks.  IInv has one part for each thing the properties relate: who    *)
(* waits, who holds a slot, what a consumer has of which attempt, and what *)
(* the metrics know of a call.  The last section is about Lifespan, the    *)
(* process that builds the LLM services, shares one and closes it.         *)
(***************************************************************************)
EXTENDS LLMProvider, Lifespan, SequenceTheorems, FunctionTheorems, FiniteSetTheorems, TLAPS

Holders  == {c \in Calls : HoldsSlot(c)}
InFlight == {c \in Calls : at[c] # "idle" /\ counted[c] = "none"}

\* Those that wait are in the queue, once each.
QueueInv ==
  /\ \A i, j \in DOMAIN queue : queue[i] = queue[j] => i = j
  /\ \A i \in DOMAIN queue : at[queue[i]] = "queued"
  /\ \A c \in Calls : at[c] = "queued" => \E i \in DOMAIN queue : queue[i] = c

\* Every slot is free or held, and one that is free is on its way to somebody.
SlotInv ==
  /\ IsFiniteSet(Holders)
  /\ free + Cardinality(Holders) = MaxConcurrency
  /\ queue # <<>> => free = 0 \/ \E c \in Calls : at[c] = "granted"

\* A call that is tried again has given nothing to its consumer.
TextInv ==
  \A c \in Calls :
    /\ \A i \in DOMAIN text[c] : text[c][i] = attempt[c]
    /\ ~ emitted[c] => text[c] = <<>>
    /\ at[c] = "backoff" => ~ emitted[c] /\ attempt[c] < MaxRetries

\* A call is counted when its outermost generator ends, under the status of its result.
CountInv ==
  /\ \A c \in Calls :
       /\ counted[c] # "none" <=> at[c] \in {"done", "service_closed", "provider_closed"}
       /\ counted[c] # "none" => counted[c] = StatusOf(result[c])
       /\ at[c] = "abandoned" => result[c] = "cancelled"
  /\ IsFiniteSet(InFlight)
  /\ inProgress = Cardinality(InFlight)

IInv == TypeOK /\ QueueInv /\ SlotInv /\ TextInv /\ CountInv

-----------------------------------------------------------------------------
(* The semaphore *)

\* The first n of a queue without repetition are n calls.
LEMMA FirstOfQueue ==
  ASSUME NEW q \in Seq(Calls), \A i, j \in DOMAIN q : q[i] = q[j] => i = j,
         NEW n \in 0 .. Len(q)
  PROVE  /\ IsFiniteSet({q[i] : i \in 1 .. n})
         /\ Cardinality({q[i] : i \in 1 .. n}) = n
<1> DEFINE T == {q[i] : i \in 1 .. n}
           f == [i \in 1 .. n |-> q[i]]
<1>1. f \in [1 .. n -> T] /\ \A t \in T : \E i \in 1 .. n : f[i] = t
  OBVIOUS
<1>2. \A i, j \in 1 .. n : f[i] = f[j] => i = j
  OBVIOUS
<1>3. f \in Bijection(1 .. n, T)
  <2> HIDE DEF f, T
  <2> QED
    BY <1>1, <1>2 DEF Bijection, Injection, Surjection, IsInjective
<1>4. IsFiniteSet(1 .. n) /\ Cardinality(1 .. n) = n
  BY FS_Interval
<1> QED
  <2> HIDE DEF f, T
  <2>1. ExistsBijection(1 .. n, T)
    BY <1>3 DEF ExistsBijection
  <2>2. IsFiniteSet(T) /\ Cardinality(T) = n
    BY <1>4, <2>1, FS_Bijection
  <2> QED
    BY <2>2 DEF T

\* Queue q holds each call that waits for a slot once, and not c.
InLine(c, q) ==
  /\ \A i, j \in DOMAIN q : q[i] = q[j] => i = j
  /\ \A i \in DOMAIN q : at[q[i]] = "queued" /\ q[i] # c
  /\ \A d \in Calls \ {c} : at[d] = "queued" => \E i \in DOMAIN q : q[i] = d

\* A step of call c does no more to the others than to hand them a slot.
Others(c) ==
  \A d \in Calls \ {c} : at'[d] = at[d] \/ (at[d] = "queued" /\ at'[d] = "granted")

\* What passing on f slots leaves: f + (those the others held) are free or held.
Passed(c, point, f) ==
  /\ at' \in [Calls -> Points] /\ at'[c] = point /\ Others(c)
  /\ queue' \in Seq(Calls) /\ QueueInv' /\ (queue' # <<>> => free' = 0)
  /\ free' \in Nat /\ IsFiniteSet(Holders')
  /\ free' + Cardinality(Holders') =
        f + Cardinality(Holders \ {c}) + (IF point = "requesting" THEN 1 ELSE 0)

\* Passing slots on keeps the queue, and loses none of them.
LEMMA PassEffect ==
  ASSUME TypeOK, IsFiniteSet(Holders),
         NEW c \in Calls, NEW point \in {"requesting", "done", "provider_closed"},
         NEW f \in Nat, NEW q \in Seq(Calls), InLine(c, q), Pass(c, point, f, q)
  PROVE  Passed(c, point, f)
<1> USE DEF InLine
<1> DEFINE n == IF f < Len(q) THEN f ELSE Len(q)
           Woken == {q[i] : i \in 1 .. n}
           Kept == Holders \ {c}
<1>1. n \in 0 .. Len(q) /\ n <= f /\ DOMAIN q = 1 .. Len(q) /\ Len(q) \in Nat
  OBVIOUS
<1>2. /\ free' = f - n
      /\ queue' = SubSeq(q, n + 1, Len(q))
      /\ at' = [d \in Calls |-> IF d = c THEN point
                                 ELSE IF d \in Woken THEN "granted" ELSE at[d]]
  BY DEF Pass
<1>3. Woken \subseteq Calls /\ \A d \in Woken : at[d] = "queued" /\ d # c
  BY <1>1
<1>4. at \in [Calls -> Points]
  BY DEF TypeOK
<1>5. /\ at' \in [Calls -> Points] /\ at'[c] = point
      /\ \A d \in Calls \ {c} : at'[d] = IF d \in Woken THEN "granted" ELSE at[d]
  <2> HIDE DEF Woken, n
  <2>1. point \in Points /\ "granted" \in Points
    BY DEF Points, LeftBehind
  <2>2. \A d \in Calls : at[d] \in Points
    BY <1>4
  <2> QED
    BY <1>2, <2>1, <2>2
<1>6. /\ queue' \in Seq(Calls) /\ Len(queue') = Len(q) - n
      /\ \A i \in 1 .. Len(q) - n : queue'[i] = q[i + n]
      /\ DOMAIN queue' = 1 .. Len(q) - n
  <2> DEFINE l == Len(q)
  <2>1. n \in Nat /\ l \in Nat /\ n <= l /\ \A i \in 1 .. l : q[i] \in Calls
    BY <1>1
  <2> HIDE DEF n, l
  <2>2. n + 1 \in Int /\ l \in Int /\ \A i \in n + 1 .. l : q[i] \in Calls
    BY <2>1
  <2>3. queue' = SubSeq(q, n + 1, l)
    BY <1>2 DEF l
  <2>4. /\ queue' \in Seq(Calls)
        /\ Len(queue') = IF n + 1 <= l THEN l - (n + 1) + 1 ELSE 0
        /\ \A i \in 1 .. l - (n + 1) + 1 : queue'[i] = q[n + 1 + i - 1]
    BY <2>2, <2>3, SubSeqProperties
  <2>5. Len(queue') = l - n /\ DOMAIN queue' = 1 .. l - n
    BY <2>1, <2>4
  <2>6. ASSUME NEW i \in 1 .. l - n PROVE queue'[i] = q[i + n]
    <3>1. i \in 1 .. l - (n + 1) + 1 /\ n + 1 + i - 1 = i + n
      BY <2>1
    <3> QED
      BY <3>1, <2>4
  <2> QED
    BY <2>4, <2>5, <2>6 DEF l
<1>7. QueueInv'
  <2>1. ASSUME NEW i \in DOMAIN queue', NEW j \in DOMAIN queue', queue'[i] = queue'[j]
        PROVE  i = j
    <3> HIDE DEF n
    <3>1. i + n \in DOMAIN q /\ j + n \in DOMAIN q /\ q[i + n] = q[j + n]
      BY <1>1, <1>6, <2>1
    <3> QED
      BY <3>1, <1>1, <1>6
  <2>2. ASSUME NEW i \in DOMAIN queue' PROVE at'[queue'[i]] = "queued"
    <3>1. i + n \in DOMAIN q /\ queue'[i] = q[i + n] /\ i + n \notin 1 .. n
      <4> HIDE DEF n
      <4> QED
        BY <1>1, <1>6
    <3>2. q[i + n] \notin Woken
      <4> SUFFICES ASSUME NEW k \in 1 .. n, q[k] = q[i + n] PROVE FALSE
        OBVIOUS
      <4> HIDE DEF n
      <4> QED
        BY <3>1, <1>1
    <3>3. q[i + n] \in Calls \ {c} /\ at[q[i + n]] = "queued"
      BY <3>1
    <3> HIDE DEF n, Woken
    <3> QED
      BY <3>1, <3>2, <3>3, <1>5
  <2>3. ASSUME NEW d \in Calls, at'[d] = "queued"
        PROVE  \E i \in DOMAIN queue' : queue'[i] = d
    <3>1. d # c /\ at[d] = "queued" /\ d \notin Woken
      <4> HIDE DEF Woken
      <4> QED
        BY <2>3, <1>5
    <3>2. PICK i \in DOMAIN q : q[i] = d
      BY <3>1
    <3>3. i \notin 1 .. n
      BY <3>1, <3>2
    <3> HIDE DEF n, Woken
    <3>4. i - n \in DOMAIN queue' /\ queue'[i - n] = d
      BY <3>2, <3>3, <1>1, <1>6
    <3> QED
      BY <3>4
  <2> HIDE DEF n, Woken
  <2> QED
    BY <2>1, <2>2, <2>3 DEF QueueInv
<1>8. queue' # <<>> => free' = 0
  BY <1>1, <1>2, <1>6
<1>9. /\ IsFiniteSet(Woken) /\ Cardinality(Woken) = n
  <2> HIDE DEF n
  <2> QED
    BY <1>1, FirstOfQueue
<1>10. /\ IsFiniteSet(Kept \cup Woken)
       /\ Cardinality(Kept \cup Woken) = Cardinality(Kept) + n
       /\ Cardinality(Kept) \in Nat
  <2>1. IsFiniteSet(Kept) /\ Cardinality(Kept) \in Nat
    BY FS_RemoveElement, FS_CardinalityType
  <2>2. Kept \cap Woken = {}
    BY <1>3 DEF Holders, HoldsSlot
  <2> HIDE DEF Kept, Woken, n
  <2>3. Cardinality(Kept \cap Woken) = 0
    BY <2>2, FS_EmptySet
  <2> QED
    <3>1. /\ IsFiniteSet(Kept \cup Woken)
          /\ Cardinality(Kept \cup Woken) =
                Cardinality(Kept) + Cardinality(Woken) - Cardinality(Kept \cap Woken)
      BY <2>1, <1>9, FS_Union
    <3> QED
      BY <3>1, <2>1, <2>3, <1>9, <1>1
<1>11. c \notin Kept \cup Woken
  BY <1>3
<1>12. Holders' = IF point = "requesting" THEN (Kept \cup Woken) \cup {c} ELSE Kept \cup Woken
  <2> HIDE DEF Woken, n
  <2>1. \A d \in Calls \ {c} : HoldsSlot(d)' <=> d \in Woken \/ HoldsSlot(d)
    BY <1>3, <1>5 DEF HoldsSlot
  <2>2. HoldsSlot(c)' <=> point = "requesting"
    BY <1>5 DEF HoldsSlot
  <2> QED
    BY <2>1, <2>2, <1>3 DEF Holders
<1> HIDE DEF Kept, Woken
<1>13. /\ IsFiniteSet(Holders')
       /\ Cardinality(Holders') =
             Cardinality(Kept) + n + (IF point = "requesting" THEN 1 ELSE 0)
  <2> HIDE DEF n
  <2>1. CASE point = "requesting"
    BY <2>1, <1>10, <1>11, <1>12, FS_AddElement
  <2>2. CASE point # "requesting"
    BY <2>2, <1>1, <1>10, <1>12
  <2> QED
    BY <2>1, <2>2
<1>14. /\ free' \in Nat
       /\ free' + Cardinality(Holders') =
             f + Cardinality(Kept) + (IF point = "requesting" THEN 1 ELSE 0)
  <2> DEFINE k == Cardinality(Kept)
             h == Cardinality(Holders')
             e == IF point = "requesting" THEN 1 ELSE 0
  <2>1. n \in Nat /\ n <= f /\ k \in Nat /\ e \in Nat
    BY <1>1, <1>10
  <2>2. free' = f - n /\ h = k + n + e
    BY <1>2, <1>13
  <2> HIDE DEF n, k, h, e
  <2>3. free' \in Nat /\ free' + h = f + k + e
    BY <2>1, <2>2
  <2> QED
    BY <2>3 DEF k, h, e
<1> QED
  <2>1. /\ at' \in [Calls -> Points] /\ at'[c] = point
        /\ \A d \in Calls \ {c} :
              at'[d] = at[d] \/ (at[d] = "queued" /\ at'[d] = "granted")
    BY <1>3, <1>5
  <2> HIDE DEF n
  <2>2. queue' \in Seq(Calls) /\ QueueInv' /\ (queue' # <<>> => free' = 0)
    BY <1>6, <1>7, <1>8
  <2>3. free' \in Nat /\ IsFiniteSet(Holders')
    BY <1>13, <1>14
  <2> QED
    BY <2>1, <2>2, <2>3, <1>14 DEF Kept, Passed, Others

\* Slots that are passed on still add up, and leave the counter within its range.
LEMMA SlotSum ==
  ASSUME NEW max \in Nat, NEW old \in Nat, NEW new \in Nat, NEW h \in Nat, NEW w \in Nat,
         old + h = max, new + w = old + h
  PROVE  new + w = max /\ new \in 0 .. max
  OBVIOUS

\* RemoveAt closes the gap.
LEMMA RemoveAtEffect ==
  ASSUME NEW S, NEW s \in Seq(S), NEW k \in 1 .. Len(s)
  PROVE  /\ RemoveAt(s, k) \in Seq(S)
         /\ DOMAIN RemoveAt(s, k) = 1 .. Len(s) - 1
         /\ \A i \in 1 .. Len(s) - 1 :
               RemoveAt(s, k)[i] = IF i < k THEN s[i] ELSE s[i + 1]
<1> DEFINE front == SubSeq(s, 1, k - 1)
           back == SubSeq(s, k + 1, Len(s))
           n == Len(s)
<1>0. n \in Nat /\ k \in 1 .. n
  OBVIOUS
<1>1. /\ front \in Seq(S) /\ Len(front) = k - 1
      /\ \A i \in 1 .. k - 1 : front[i] = s[i]
  OBVIOUS
<1>2. /\ back \in Seq(S) /\ Len(back) = n - k
      /\ \A i \in 1 .. n - k : back[i] = s[i + k]
  <2>1. k + 1 \in Int /\ Len(s) \in Int /\ \A i \in k + 1 .. Len(s) : s[i] \in S
    OBVIOUS
  <2>2. /\ back \in Seq(S)
        /\ Len(back) = IF k + 1 <= n THEN n - (k + 1) + 1 ELSE 0
        /\ \A i \in 1 .. n - (k + 1) + 1 : back[i] = s[k + 1 + i - 1]
    BY <2>1, SubSeqProperties
  <2> HIDE DEF back, n
  <2>3. Len(back) = n - k
    BY <2>2, <1>0
  <2>4. ASSUME NEW i \in 1 .. n - k PROVE back[i] = s[i + k]
    <3>1. i \in 1 .. n - (k + 1) + 1 /\ k + 1 + i - 1 = i + k
      BY <1>0
    <3> QED
      BY <3>1, <2>2
  <2> QED
    BY <2>2, <2>3, <2>4
<1>3. RemoveAt(s, k) = front \o back
  BY DEF RemoveAt
<1> DEFINE q == RemoveAt(s, k)
<1>4. /\ front \o back \in Seq(S)
      /\ Len(front \o back) = Len(front) + Len(back)
      /\ \A i \in 1 .. Len(front) + Len(back) :
            (front \o back)[i] = IF i <= Len(front) THEN front[i] ELSE back[i - Len(front)]
  <2> HIDE DEF front, back
  <2> QED
    BY <1>1, <1>2, ConcatProperties
<1> HIDE DEF front, back, q, n
<1>5. Len(front) + Len(back) = n - 1
  BY <1>0, <1>1, <1>2
<1>6. q \in Seq(S) /\ DOMAIN q = 1 .. n - 1
  BY <1>3, <1>4, <1>5 DEF q
<1>7. ASSUME NEW i \in 1 .. n - 1 PROVE q[i] = IF i < k THEN s[i] ELSE s[i + 1]
  <2>1. q[i] = IF i <= k - 1 THEN front[i] ELSE back[i - (k - 1)]
    BY <1>1, <1>3, <1>4, <1>5 DEF q
  <2>2. CASE i < k
    <3>1. i \in 1 .. k - 1 /\ i <= k - 1
      BY <2>2, <1>0
    <3> QED
      BY <2>1, <2>2, <3>1, <1>1
  <2>3. CASE ~ (i < k)
    <3>1. ~ (i <= k - 1) /\ i - (k - 1) \in 1 .. n - k /\ (i - (k - 1)) + k = i + 1
      BY <2>3, <1>0
    <3> QED
      BY <2>1, <2>3, <3>1, <1>2
  <2> QED
    BY <2>2, <2>3
<1> QED
  BY <1>6, <1>7 DEF q, n

\* The variables of the semaphore.
SemTypeOK == at \in [Calls -> Points] /\ free \in 0 .. MaxConcurrency /\ queue \in Seq(Calls)

Inside == {"requesting", "reading", "yielded", "backoff", "abandoned", "service_closed"}

\* A call that goes on without touching the semaphore keeps every slot where it was.
LEMMA GotoKeepsSlots ==
  ASSUME TypeOK, QueueInv, SlotInv, NEW c \in Calls, NEW p \in Points,
         \/ at[c] \in Inside /\ p \in Inside
         \/ at[c] = "provider_closed" /\ p = "done",
         Goto(c, p), UNCHANGED semaphore
  PROVE  SemTypeOK' /\ QueueInv' /\ SlotInv' /\ Others(c) /\ at'[c] = p
<1>1. at \in [Calls -> Points] /\ free' = free /\ queue' = queue
  BY DEF TypeOK, semaphore
<1>2. /\ at' \in [Calls -> Points] /\ at'[c] = p
      /\ \A d \in Calls \ {c} : at'[d] = at[d]
  BY <1>1 DEF Goto
<1>3. Holders' = Holders
  BY <1>2 DEF Holders, HoldsSlot, Inside
<1>4. \A d \in Calls : /\ at'[d] = "queued" <=> at[d] = "queued"
                       /\ at'[d] = "granted" <=> at[d] = "granted"
  BY <1>2 DEF Inside
<1>5. queue \in Seq(Calls) /\ \A i \in DOMAIN queue : queue[i] \in Calls
  BY DEF TypeOK
<1>6. QueueInv'
  BY <1>1, <1>4, <1>5 DEF QueueInv
<1>7. SlotInv'
  BY <1>1, <1>3, <1>4 DEF SlotInv
<1> QED
  BY <1>1, <1>2, <1>6, <1>7 DEF SemTypeOK, TypeOK, Others

\* The slots when call c moves on: f + (those the others hold) is what it leaves.
LEMMA PassKeepsSlots ==
  ASSUME TypeOK, QueueInv, SlotInv,
         NEW c \in Calls, NEW point \in {"requesting", "done", "provider_closed"},
         \/ /\ at[c] = "granted" /\ point = "requesting"
            /\ Pass(c, point, free, queue)
         \/ /\ HoldsSlot(c) /\ point # "requesting"
            /\ Pass(c, point, free + 1, queue)
  PROVE  SemTypeOK' /\ QueueInv' /\ SlotInv' /\ Others(c) /\ at'[c] = point
<1> DEFINE f == IF point = "requesting" THEN free ELSE free + 1
           h == Cardinality(Holders)
           w == Cardinality(Holders')
           e == IF point = "requesting" THEN 1 ELSE 0
<1>1. Pass(c, point, f, queue) /\ c \in Holders
  BY DEF Holders, HoldsSlot
<1>2. f \in Nat /\ free \in Nat /\ queue \in Seq(Calls) /\ MaxConcurrency \in Nat
  BY ProviderConstantsOK DEF TypeOK
<1>3. InLine(c, queue)
  BY DEF InLine, QueueInv, HoldsSlot
<1>4. IsFiniteSet(Holders) /\ h \in Nat /\ Cardinality(Holders \ {c}) = h - 1
  BY <1>1, FS_RemoveElement, FS_CardinalityType DEF SlotInv
<1>5. /\ at' \in [Calls -> Points] /\ at'[c] = point /\ Others(c)
      /\ queue' \in Seq(Calls) /\ QueueInv' /\ (queue' # <<>> => free' = 0)
      /\ free' \in Nat /\ IsFiniteSet(Holders')
      /\ free' + Cardinality(Holders') = f + Cardinality(Holders \ {c}) + e
  <2> HIDE DEF f
  <2>1. IsFiniteSet(Holders)
    BY <1>4
  <2>2. Passed(c, point, f)
    BY <1>1, <1>2, <1>3, <2>1, PassEffect
  <2> QED
    BY <2>2 DEF Passed
<1>6. w \in Nat /\ free' \in Nat /\ free' + w = f + (h - 1) + e
  BY <1>4, <1>5, FS_CardinalityType
<1>7. free' + w = MaxConcurrency /\ free' \in 0 .. MaxConcurrency
  <2>1. free + h = MaxConcurrency /\ h \in Nat
    BY <1>4 DEF SlotInv
  <2>2. f + (h - 1) + e = free + h
    BY <1>2, <1>4
  <2> HIDE DEF f, h, w, e
  <2> QED
    BY <2>1, <2>2, <1>2, <1>6, SlotSum
<1> QED
  BY <1>5, <1>7 DEF SemTypeOK, SlotInv

\* A call that is cancelled in the queue leaves it.
LEMMA LeavingKeepsSlots ==
  ASSUME TypeOK, QueueInv, SlotInv, NEW c \in Calls, NEW k \in DOMAIN queue, queue[k] = c,
         Pass(c, "done", free, RemoveAt(queue, k))
  PROVE  SemTypeOK' /\ QueueInv' /\ SlotInv' /\ Others(c) /\ at'[c] = "done"
<1> DEFINE q == RemoveAt(queue, k)
           n == Len(queue)
           h == Cardinality(Holders)
           w == Cardinality(Holders')
<1>1. free \in Nat /\ queue \in Seq(Calls) /\ MaxConcurrency \in Nat
  BY ProviderConstantsOK DEF TypeOK
<1>2. at[c] = "queued" /\ c \notin Holders
  BY DEF QueueInv, Holders, HoldsSlot
<1>3. n \in Nat /\ k \in 1 .. n /\ DOMAIN queue = 1 .. n
  BY <1>1
<1>4. /\ q \in Seq(Calls) /\ DOMAIN q = 1 .. n - 1
      /\ \A i \in 1 .. n - 1 : q[i] = IF i < k THEN queue[i] ELSE queue[i + 1]
  BY <1>1, <1>3, RemoveAtEffect
<1>5. \A i, j \in DOMAIN q : q[i] = q[j] => i = j
  <2> HIDE DEF q, n
  <2> SUFFICES ASSUME NEW i \in 1 .. n - 1, NEW j \in 1 .. n - 1, q[i] = q[j] PROVE i = j
    BY <1>4
  <2> DEFINE a == IF i < k THEN i ELSE i + 1
             b == IF j < k THEN j ELSE j + 1
  <2>1. a \in 1 .. n /\ b \in 1 .. n /\ queue[a] = queue[b]
    BY <1>3, <1>4
  <2>2. a = b
    <3> HIDE DEF a, b
    <3> QED
      BY <2>1, <1>3 DEF QueueInv
  <2> QED
    BY <2>2, <1>3
<1>6. \A i \in DOMAIN q : at[q[i]] = "queued" /\ q[i] # c
  <2> HIDE DEF q, n
  <2> SUFFICES ASSUME NEW i \in 1 .. n - 1 PROVE at[q[i]] = "queued" /\ q[i] # c
    BY <1>4
  <2> DEFINE a == IF i < k THEN i ELSE i + 1
  <2>1. a \in 1 .. n /\ a # k /\ q[i] = queue[a]
    BY <1>3, <1>4
  <2> HIDE DEF a
  <2> QED
    BY <2>1, <1>3 DEF QueueInv
<1>7. \A d \in Calls \ {c} : at[d] = "queued" => \E i \in DOMAIN q : q[i] = d
  <2> HIDE DEF q, n
  <2> SUFFICES ASSUME NEW d \in Calls \ {c}, at[d] = "queued"
               PROVE  \E i \in 1 .. n - 1 : q[i] = d
    BY <1>4
  <2>1. PICK a \in 1 .. n : queue[a] = d
    BY <1>3 DEF QueueInv
  <2>2. a # k
    BY <2>1
  <2> DEFINE i == IF a < k THEN a ELSE a - 1
  <2>3. i \in 1 .. n - 1 /\ q[i] = d
    BY <2>1, <2>2, <1>3, <1>4
  <2> QED
    BY <2>3
<1>8. IsFiniteSet(Holders) /\ h \in Nat /\ Holders \ {c} = Holders
  BY <1>2, FS_CardinalityType DEF SlotInv
<1>9. /\ at' \in [Calls -> Points] /\ at'[c] = "done" /\ Others(c)
      /\ queue' \in Seq(Calls) /\ QueueInv' /\ (queue' # <<>> => free' = 0)
      /\ free' \in Nat /\ IsFiniteSet(Holders')
      /\ free' + w = free + h + 0
  <2> DEFINE point == "done"
  <2>1. q \in Seq(Calls) /\ IsFiniteSet(Holders) /\ Cardinality(Holders \ {c}) = h
    BY <1>4, <1>8 DEF SlotInv
  <2>2. Pass(c, point, free, q)
    OBVIOUS
  <2>3. point \in {"requesting", "done", "provider_closed"} /\ point # "requesting"
    OBVIOUS
  <2> HIDE DEF point, q
  <2>4. InLine(c, q)
    BY <1>5, <1>6, <1>7 DEF InLine
  <2>5. Passed(c, point, free)
    BY <2>1, <2>2, <2>3, <2>4, <1>1, PassEffect
  <2> QED
    BY <2>1, <2>3, <2>5 DEF Passed, point
<1>10. w \in Nat /\ free' \in Nat /\ free' + w = free + h
  BY <1>1, <1>8, <1>9, FS_CardinalityType
<1>11. free' + w = MaxConcurrency /\ free' \in 0 .. MaxConcurrency
  <2>1. free + h = MaxConcurrency
    BY DEF SlotInv
  <2> HIDE DEF h, w
  <2> QED
    BY <2>1, <1>1, <1>8, <1>10, SlotSum
<1> QED
  BY <1>9, <1>11 DEF SemTypeOK, SlotInv

\* Whichever way a call moves, it is where it went.
LEMMA Moves ==
  ASSUME TypeOK, NEW c \in Calls, NEW p,
         \/ Goto(c, p)
         \/ \E f, q : Pass(c, p, f, q)
  PROVE  at'[c] = p
<1>1. CASE Goto(c, p)
  BY <1>1 DEF Goto, TypeOK
<1>2. CASE \E f, q : Pass(c, p, f, q)
  BY <1>2 DEF Pass
<1> QED
  BY <1>1, <1>2

\* A call that ends passes its slot on.
LEMMA EndKeepsSlots ==
  ASSUME TypeOK, QueueInv, SlotInv, NEW c \in Calls, HoldsSlot(c), NEW r, End(c, r)
  PROVE  SemTypeOK' /\ QueueInv' /\ SlotInv' /\ Others(c)
BY PassKeepsSlots DEF End

\* No action of a call loses a slot, gives one twice or disturbs the queue.
LEMMA SlotStep ==
  ASSUME TypeOK, QueueInv, SlotInv, NEW c \in Calls, Start(c) \/ Progress(c) \/ Cancel(c)
  PROVE  SemTypeOK' /\ QueueInv' /\ SlotInv' /\ Others(c)
<1>1. CASE Start(c)
  <2>0. /\ at \in [Calls -> Points] /\ free \in Nat /\ queue \in Seq(Calls)
        /\ MaxConcurrency \in Nat /\ at[c] = "idle"
    BY <1>1, ProviderConstantsOK DEF TypeOK, Start
  <2>1. CASE Unlocked
    <3>1. Goto(c, "requesting") /\ free' = free - 1 /\ queue' = queue
      BY <1>1, <2>1 DEF Start
    <3>2. /\ at' \in [Calls -> Points] /\ at'[c] = "requesting"
          /\ \A d \in Calls \ {c} : at'[d] = at[d]
      BY <2>0, <3>1 DEF Goto, Points
    <3>3. queue = <<>> /\ free > 0
      BY <2>1 DEF Unlocked
    <3>4. QueueInv'
      BY <2>0, <3>1, <3>2, <3>3 DEF QueueInv
    <3>5. Holders' = Holders \cup {c} /\ c \notin Holders
      BY <2>0, <3>2 DEF Holders, HoldsSlot
    <3> DEFINE h == Cardinality(Holders)
               w == Cardinality(Holders')
    <3>6. IsFiniteSet(Holders') /\ h \in Nat /\ w = h + 1
      BY <3>5, FS_AddElement, FS_CardinalityType DEF SlotInv
    <3>7. free' + w = MaxConcurrency /\ free' \in 0 .. MaxConcurrency
      <4>1. free + h = MaxConcurrency
        BY DEF SlotInv
      <4>2. free' \in Nat /\ w \in Nat /\ free' + w = free + h
        <5> HIDE DEF h, w
        <5> QED
          BY <2>0, <3>1, <3>3, <3>6
      <4> HIDE DEF h, w
      <4> QED
        BY <4>1, <4>2, <2>0, <3>6, SlotSum
    <3> QED
      BY <2>0, <3>1, <3>2, <3>3, <3>4, <3>6, <3>7 DEF SemTypeOK, SlotInv, Others
  <2>2. CASE ~ Unlocked
    <3>1. Goto(c, "queued") /\ free' = free /\ queue' = Append(queue, c)
      BY <1>1, <2>2 DEF Start
    <3>2. /\ at' \in [Calls -> Points] /\ at'[c] = "queued"
          /\ \A d \in Calls \ {c} : at'[d] = at[d]
      BY <2>0, <3>1 DEF Goto, Points
    <3>3. Holders' = Holders
      BY <2>0, <3>2 DEF Holders, HoldsSlot
    <3>4. /\ queue' \in Seq(Calls) /\ Len(queue') = Len(queue) + 1
          /\ \A i \in 1 .. Len(queue) : queue'[i] = queue[i]
          /\ queue'[Len(queue) + 1] = c
          /\ Len(queue) \in Nat
          /\ DOMAIN queue = 1 .. Len(queue) /\ DOMAIN queue' = 1 .. Len(queue) + 1
      BY <2>0, <3>1
    <3>5. \A i \in DOMAIN queue : queue[i] \in Calls /\ queue[i] # c
      BY <2>0 DEF QueueInv
    <3>6. QueueInv'
      <4>1. ASSUME NEW i \in DOMAIN queue', NEW j \in DOMAIN queue', queue'[i] = queue'[j]
            PROVE  i = j
        BY <4>1, <3>4, <3>5 DEF QueueInv
      <4>2. ASSUME NEW i \in DOMAIN queue' PROVE at'[queue'[i]] = "queued"
        BY <3>2, <3>4, <3>5 DEF QueueInv
      <4>3. ASSUME NEW d \in Calls, at'[d] = "queued"
            PROVE  \E i \in DOMAIN queue' : queue'[i] = d
        <5>1. CASE d = c
          BY <5>1, <3>4
        <5>2. CASE d # c
          <6>1. PICK i \in DOMAIN queue : queue[i] = d
            BY <5>2, <4>3, <3>2 DEF QueueInv
          <6>2. i \in DOMAIN queue' /\ queue'[i] = d
            BY <6>1, <3>4
          <6> QED
            BY <6>2
        <5> QED
          BY <5>1, <5>2
      <4> QED
        BY <4>1, <4>2, <4>3 DEF QueueInv
    <3>7. free = 0 \/ \E d \in Calls \ {c} : at[d] = "granted"
      BY <2>0, <2>2 DEF Unlocked, SlotInv
    <3>8. SlotInv'
      BY <3>1, <3>2, <3>3, <3>7 DEF SlotInv
    <3>9. free' \in 0 .. MaxConcurrency
      BY <3>1 DEF TypeOK
    <3> QED
      BY <3>2, <3>4, <3>6, <3>8, <3>9 DEF SemTypeOK, Others
  <2> QED
    BY <2>1, <2>2
<1>2. CASE Enter(c)
  BY <1>2, PassKeepsSlots DEF Enter
<1>3. CASE Respond(c) \/ Yield(c) \/ Resume(c) \/ Retry(c) \/ Abandon(c) \/ CloseService(c)
           \/ CloseResponse(c)
  <2>1. \E p \in Points :
          /\ \/ at[c] \in Inside /\ p \in Inside
             \/ at[c] = "provider_closed" /\ p = "done"
          /\ Goto(c, p) /\ UNCHANGED semaphore
    BY <1>3 DEF Respond, Yield, Resume, Retry, Abandon, CloseService, CloseResponse, Inside,
                Points, LeftBehind
  <2> QED
    BY <2>1, GotoKeepsSlots
<1>4. CASE \E why \in Transient : Fail(c, why)
  <2>1. PICK why \in Transient : Fail(c, why)
    BY <1>4
  <2>2. CASE emitted[c] \/ attempt[c] >= MaxRetries
    BY <2>1, <2>2, EndKeepsSlots DEF Fail, HoldsSlot
  <2>3. CASE ~ (emitted[c] \/ attempt[c] >= MaxRetries)
    <3>1. Goto(c, "backoff") /\ UNCHANGED semaphore /\ at[c] \in {"requesting", "reading"}
      BY <2>1, <2>3 DEF Fail
    <3> QED
      BY <3>1, GotoKeepsSlots DEF Inside, Points
  <2> QED
    BY <2>2, <2>3
<1>5. CASE Complete(c) \/ Reject(c) \/ Garble(c) \/ CancelInside(c)
  BY <1>5, EndKeepsSlots DEF Complete, Reject, Garble, CancelInside, HoldsSlot
<1>6. CASE CancelWaiting(c)
  <2>1. CASE at[c] = "granted" /\ Pass(c, "done", free + 1, queue)
    BY <2>1, PassKeepsSlots DEF HoldsSlot
  <2>2. CASE \E i \in DOMAIN queue : queue[i] = c /\ Pass(c, "done", free, RemoveAt(queue, i))
    BY <2>2, LeavingKeepsSlots
  <2> QED
    BY <1>6, <2>1, <2>2 DEF CancelWaiting
<1>7. CASE CloseProvider(c)
  BY <1>7, PassKeepsSlots DEF CloseProvider, HoldsSlot
<1> QED
  BY <1>1, <1>2, <1>3, <1>4, <1>5, <1>6, <1>7 DEF Progress, Cancel

-----------------------------------------------------------------------------
(* The consumer's text *)

\* The types of what a call keeps for itself.
CallTypeOK ==
  /\ kind \in [Calls -> {"none", "generate", "stream"}]
  /\ attempt \in [Calls -> 0 .. MaxRetries]
  /\ emitted \in [Calls -> BOOLEAN]
  /\ text \in [Calls -> Seq(0 .. MaxRetries)]
  /\ result \in [Calls -> Results \cup {"none"}]
  /\ counted \in [Calls -> {"none", "success", "error", "cancelled"}]
  /\ open \subseteq Calls

\* The outcomes the metrics know (llm_service.py:227-271).
LEMMA StatusType ==
  \A r \in Results : /\ StatusOf(r) \in {"success", "error", "cancelled"}
                     /\ StatusOf("cancelled") = "cancelled"
BY DEF Results, Transient, StatusOf

\* No action of a call leaves the types of its own variables.
LEMMA CallTypeStep ==
  ASSUME TypeOK, TextInv, NEW c \in Calls, Start(c) \/ Progress(c) \/ Cancel(c)
  PROVE  CallTypeOK'
<1> USE DEF TypeOK, CallTypeOK, Send
<1>1. ASSUME NEW r \in Results, End(c, r) PROVE CallTypeOK'
  BY <1>1, StatusType DEF End, Count
<1>2. CASE Start(c)
  BY <1>2 DEF Start
<1>3. CASE Enter(c) \/ Respond(c) \/ Resume(c) \/ CloseProvider(c) \/ CloseResponse(c)
  BY <1>3 DEF Enter, Respond, Resume, CloseProvider, CloseResponse, metrics
<1>4. CASE Yield(c)
  <2>1. Append(text[c], attempt[c]) \in Seq(0 .. MaxRetries)
    OBVIOUS
  <2> QED
    BY <1>4, <2>1 DEF Yield, metrics
<1>5. CASE Complete(c) \/ Reject(c) \/ Garble(c) \/ CancelInside(c)
  BY <1>1, <1>5 DEF Complete, Reject, Garble, CancelInside, Results
<1>6. CASE \E why \in Transient : Fail(c, why)
  BY <1>1, <1>6 DEF Fail, Results, metrics
<1>7. CASE Retry(c)
  <2>1. attempt[c] + 1 \in 0 .. MaxRetries
    BY <1>7, ProviderConstantsOK DEF Retry, TextInv
  <2> QED
    BY <1>7, <2>1 DEF Retry, metrics
<1>8. CASE CancelWaiting(c)
  BY <1>8 DEF CancelWaiting, Count, Results
<1>9. CASE Abandon(c)
  BY <1>9 DEF Abandon, metrics, Results
<1>10. CASE CloseService(c)
  BY <1>10 DEF CloseService, Count
<1> QED
  BY <1>2, <1>3, <1>4, <1>5, <1>6, <1>7, <1>8, <1>9, <1>10 DEF Progress, Cancel

\* What TextInv says of one call.
TextOf(c) ==
  /\ \A i \in DOMAIN text[c] : text[c][i] = attempt[c]
  /\ ~ emitted[c] => text[c] = <<>>
  /\ at[c] = "backoff" => ~ emitted[c] /\ attempt[c] < MaxRetries

\* No action lets a call be tried again after it gave text to its consumer.
LEMMA TextStep ==
  ASSUME TypeOK, TextInv, NEW c \in Calls, Others(c), Start(c) \/ Progress(c) \/ Cancel(c)
  PROVE  TextInv'
<1>1. TextOf(c)
  BY DEF TextInv, TextOf
<1>2. ASSUME NEW r, End(c, r) PROVE at'[c] = "done" /\ UNCHANGED <<attempt, emitted, text>>
  BY <1>2, Moves DEF End
<1>3. /\ \A d \in Calls \ {c} : /\ text'[d] = text[d]
                                /\ attempt'[d] = attempt[d]
                                /\ emitted'[d] = emitted[d]
      /\ TextOf(c)'
  <2>1. CASE UNCHANGED <<attempt, emitted, text>> /\ at'[c] # "backoff"
    BY <1>1, <2>1 DEF TextOf
  <2>2. CASE Start(c)
    <3>1. at'[c] # "backoff"
      BY <2>2, Moves DEF Start
    <3> QED
      BY <2>1, <2>2, <3>1 DEF Start
  <2>3. CASE Enter(c)
    BY <2>1, <2>3, Moves DEF Enter
  <2>4. CASE Respond(c) \/ Resume(c)
    BY <2>1, <2>4, Moves DEF Respond, Resume
  <2>5. CASE Yield(c)
    <3>1. /\ text' = [text EXCEPT ![c] = Append(@, attempt[c])]
          /\ emitted' = [emitted EXCEPT ![c] = TRUE]
          /\ attempt' = attempt /\ at'[c] = "yielded"
      BY <2>5, Moves DEF Yield
    <3>2. text[c] \in Seq(0 .. MaxRetries) /\ attempt[c] \in 0 .. MaxRetries
      BY DEF TypeOK
    <3>3. /\ text'[c] = Append(text[c], attempt[c]) /\ emitted'[c] = TRUE
          /\ \A d \in Calls \ {c} : text'[d] = text[d] /\ emitted'[d] = emitted[d]
      BY <3>1 DEF TypeOK
    <3>4. \A i \in DOMAIN Append(text[c], attempt[c]) :
             Append(text[c], attempt[c])[i] = attempt[c]
      BY <3>2, <1>1 DEF TextOf
    <3> QED
      BY <3>1, <3>3, <3>4 DEF TextOf
  <2>6. CASE Complete(c) \/ Reject(c) \/ Garble(c) \/ CancelInside(c)
    BY <1>2, <2>1, <2>6 DEF Complete, Reject, Garble, CancelInside
  <2>7. CASE \E why \in Transient : Fail(c, why)
    <3>1. PICK why \in Transient : Fail(c, why)
      BY <2>7
    <3>2. CASE emitted[c] \/ attempt[c] >= MaxRetries
      BY <1>2, <2>1, <3>1, <3>2 DEF Fail
    <3>3. CASE ~ (emitted[c] \/ attempt[c] >= MaxRetries)
      <4>1. UNCHANGED <<attempt, emitted, text>>
        BY <3>1, <3>3 DEF Fail
      <4>2. attempt[c] < MaxRetries
        BY <3>3, ProviderConstantsOK DEF TypeOK
      <4> QED
        BY <1>1, <3>3, <4>1, <4>2 DEF TextOf
    <3> QED
      BY <3>2, <3>3
  <2>8. CASE Retry(c)
    <3>1. /\ attempt' = [attempt EXCEPT ![c] = @ + 1]
          /\ emitted' = [emitted EXCEPT ![c] = FALSE]
          /\ text' = text /\ at'[c] = "requesting" /\ at[c] = "backoff"
      BY <2>8, Moves DEF Retry
    <3>2. /\ emitted'[c] = FALSE
          /\ \A d \in Calls \ {c} : attempt'[d] = attempt[d] /\ emitted'[d] = emitted[d]
      BY <3>1 DEF TypeOK
    <3>3. text'[c] = <<>>
      BY <1>1, <3>1 DEF TextOf
    <3> QED
      BY <3>1, <3>2, <3>3 DEF TextOf
  <2>9. CASE CancelWaiting(c)
    BY <2>1, <2>9, Moves DEF CancelWaiting
  <2>10. CASE Abandon(c)
    BY <2>1, <2>10, Moves DEF Abandon
  <2>11. CASE CloseService(c) \/ CloseResponse(c)
    BY <2>1, <2>11, Moves DEF CloseService, CloseResponse
  <2>12. CASE CloseProvider(c)
    BY <2>1, <2>12, Moves DEF CloseProvider
  <2> QED
    BY <2>2, <2>3, <2>4, <2>5, <2>6, <2>7, <2>8, <2>9, <2>10, <2>11, <2>12 DEF Progress, Cancel
<1>4. ASSUME NEW d \in Calls \ {c} PROVE TextOf(d)'
  <2>1. TextOf(d) /\ (at'[d] = "backoff" => at[d] = "backoff")
    BY DEF TextInv, TextOf, Others
  <2> QED
    BY <1>3, <2>1 DEF TextOf
<1> QED
  BY <1>3, <1>4 DEF TextInv, TextOf

-----------------------------------------------------------------------------
(* The metrics *)

OutOfService == {"done", "service_closed", "provider_closed"}

\* What CountInv says of one call.
CountOf(c) ==
  /\ counted[c] # "none" <=> at[c] \in OutOfService
  /\ counted[c] # "none" => counted[c] = StatusOf(result[c])
  /\ at[c] = "abandoned" => result[c] = "cancelled"

\* The other calls are counted as before.
LEMMA OthersCounted ==
  ASSUME CountInv, NEW c \in Calls, Others(c), NEW d \in Calls \ {c},
         counted'[d] = counted[d], result'[d] = result[d]
  PROVE  CountOf(d)' /\ (d \in InFlight' <=> d \in InFlight)
<1>1. CountOf(d)
  BY DEF CountInv, CountOf, OutOfService
<1>2. at'[d] = at[d] \/ (at[d] = "queued" /\ at'[d] = "granted")
  BY DEF Others
<1> QED
  BY <1>1, <1>2 DEF CountOf, InFlight, OutOfService

\* A step that leaves the metrics alone, and the call on its side of the finally clause.
LEMMA UncountedStep ==
  ASSUME TypeOK, CountInv, NEW c \in Calls, Others(c), UNCHANGED metrics,
         at[c] # "idle", at'[c] # "idle",
         at[c] \in OutOfService <=> at'[c] \in OutOfService,
         \/ result' = result /\ at'[c] # "abandoned"
         \/ result' = [result EXCEPT ![c] = "cancelled"] /\ at[c] = "yielded"
  PROVE  CountInv'
<1>1. CountOf(c) /\ counted' = counted /\ inProgress' = inProgress
  BY DEF CountInv, CountOf, metrics, OutOfService
<1>2. \A d \in Calls \ {c} : result'[d] = result[d]
  BY DEF TypeOK
<1>3. \A d \in Calls \ {c} : CountOf(d)' /\ (d \in InFlight' <=> d \in InFlight)
  BY <1>1, <1>2, OthersCounted
<1>4. CountOf(c)'
  <2>1. CASE result' = result /\ at'[c] # "abandoned"
    BY <1>1, <2>1 DEF CountOf
  <2>2. CASE result' = [result EXCEPT ![c] = "cancelled"] /\ at[c] = "yielded"
    <3>1. result'[c] = "cancelled"
      BY <2>2 DEF TypeOK
    <3>2. counted[c] = "none" /\ counted'[c] = "none" /\ at'[c] \notin OutOfService
      BY <1>1, <2>2 DEF CountOf, OutOfService
    <3> QED
      BY <3>1, <3>2 DEF CountOf
  <2> QED
    BY <2>1, <2>2
<1>5. InFlight' = InFlight
  <2>1. c \in InFlight' <=> c \in InFlight
    BY <1>1 DEF InFlight
  <2>2. \A d : d \in InFlight' => d \in Calls
    BY DEF InFlight
  <2>3. \A d : d \in InFlight => d \in Calls
    BY DEF InFlight
  <2> QED
    BY <1>3, <2>1, <2>2, <2>3
<1>6. IsFiniteSet(InFlight') /\ inProgress' = Cardinality(InFlight')
  BY <1>1, <1>5 DEF CountInv
<1> QED
  BY <1>3, <1>4, <1>6 DEF CountInv, CountOf, OutOfService

\* The finally clause: the call counts itself, once.
LEMMA CountedStep ==
  ASSUME TypeOK, CountInv, NEW c \in Calls, Others(c),
         at[c] # "idle", at[c] \notin OutOfService, at'[c] \in OutOfService,
         NEW r \in Results, Count(c, StatusOf(r)),
         \/ result' = [result EXCEPT ![c] = r]
         \/ result' = result /\ result[c] = r
  PROVE  CountInv' /\ inProgress' \in Nat
<1>1. CountOf(c) /\ counted' = [counted EXCEPT ![c] = StatusOf(r)]
                 /\ inProgress' = inProgress - 1
  BY DEF CountInv, CountOf, Count, OutOfService
<1>2. /\ counted'[c] = StatusOf(r) /\ result'[c] = r
      /\ \A d \in Calls \ {c} : counted'[d] = counted[d] /\ result'[d] = result[d]
  BY <1>1 DEF TypeOK
<1>3. \A d \in Calls \ {c} : CountOf(d)' /\ (d \in InFlight' <=> d \in InFlight)
  BY <1>2, OthersCounted
<1>4. StatusOf(r) # "none"
  BY StatusType
<1>5. CountOf(c)'
  BY <1>2, <1>4 DEF CountOf, OutOfService
<1>6. c \in InFlight /\ c \notin InFlight'
  BY <1>1, <1>2, <1>4 DEF InFlight, CountOf
<1>7. InFlight' = InFlight \ {c}
  <2>1. \A d : d \in InFlight' => d \in Calls
    BY DEF InFlight
  <2>2. \A d : d \in InFlight => d \in Calls
    BY DEF InFlight
  <2> QED
    BY <1>3, <1>6, <2>1, <2>2
<1>8. IsFiniteSet(InFlight) /\ inProgress = Cardinality(InFlight)
  BY DEF CountInv
<1>9. /\ IsFiniteSet(InFlight \ {c})
      /\ Cardinality(InFlight \ {c}) = Cardinality(InFlight) - 1
      /\ Cardinality(InFlight \ {c}) \in Nat
  BY <1>6, <1>8, FS_RemoveElement, FS_CardinalityType
<1>10. IsFiniteSet(InFlight') /\ inProgress' = Cardinality(InFlight') /\ inProgress' \in Nat
  BY <1>1, <1>7, <1>8, <1>9
<1> QED
  BY <1>3, <1>5, <1>10 DEF CountInv, CountOf, OutOfService

\* A call that begins is one more in flight.
LEMMA BegunStep ==
  ASSUME TypeOK, CountInv, NEW c \in Calls, Others(c), Start(c)
  PROVE  CountInv' /\ inProgress' \in Nat
<1>1. /\ CountOf(c) /\ at[c] = "idle" /\ at'[c] \in {"requesting", "queued"}
      /\ counted' = counted /\ result' = result /\ inProgress' = inProgress + 1
  <2>1. at'[c] \in {"requesting", "queued"}
    BY Moves DEF Start
  <2> QED
    BY <2>1 DEF CountInv, CountOf, OutOfService, Start
<1>2. \A d \in Calls \ {c} : CountOf(d)' /\ (d \in InFlight' <=> d \in InFlight)
  BY <1>1, OthersCounted
<1>3. CountOf(c)'
  BY <1>1 DEF CountOf, OutOfService
<1>4. c \notin InFlight /\ c \in InFlight'
  BY <1>1 DEF InFlight, CountOf, OutOfService
<1>5. InFlight' = InFlight \cup {c}
  <2>1. \A d : d \in InFlight' => d \in Calls
    BY DEF InFlight
  <2>2. \A d : d \in InFlight => d \in Calls
    BY DEF InFlight
  <2> QED
    BY <1>2, <1>4, <2>1, <2>2
<1>6. IsFiniteSet(InFlight) /\ inProgress = Cardinality(InFlight)
  BY DEF CountInv
<1>7. /\ IsFiniteSet(InFlight \cup {c})
      /\ Cardinality(InFlight \cup {c}) = Cardinality(InFlight) + 1
      /\ Cardinality(InFlight \cup {c}) \in Nat
  BY <1>4, <1>6, FS_AddElement, FS_CardinalityType
<1>8. IsFiniteSet(InFlight') /\ inProgress' = Cardinality(InFlight') /\ inProgress' \in Nat
  BY <1>1, <1>5, <1>6, <1>7
<1> QED
  BY <1>2, <1>3, <1>8 DEF CountInv, CountOf, OutOfService

\* No action counts a call twice, or leaves one uncounted that has left the service.
LEMMA CountStep ==
  ASSUME TypeOK, CountInv, NEW c \in Calls, Others(c), Start(c) \/ Progress(c) \/ Cancel(c),
         QueueInv
  PROVE  CountInv' /\ inProgress' \in Nat
<1>0. inProgress \in Nat
  BY DEF TypeOK
<1>1. ASSUME NEW r \in Results, End(c, r), at[c] # "idle", at[c] \notin OutOfService
      PROVE  CountInv' /\ inProgress' \in Nat
  <2>1. at'[c] \in OutOfService
    BY <1>1, Moves DEF End, OutOfService
  <2> QED
    BY <1>1, <2>1, CountedStep DEF End
<1>2. CASE Start(c)
  BY <1>2, BegunStep
<1>3. CASE Enter(c)
  <2>1. at'[c] = "requesting" /\ at[c] = "granted" /\ UNCHANGED metrics /\ result' = result
    BY <1>3, Moves DEF Enter
  <2> QED
    BY <2>1, <1>0, UncountedStep DEF OutOfService, metrics
<1>4. CASE Respond(c) \/ Yield(c) \/ Resume(c) \/ Retry(c)
  <2>1. /\ at'[c] \in {"reading", "yielded", "requesting"}
        /\ at[c] \in {"requesting", "reading", "yielded", "backoff"}
        /\ UNCHANGED metrics /\ result' = result
    BY <1>4, Moves DEF Respond, Yield, Resume, Retry
  <2> QED
    BY <2>1, <1>0, UncountedStep DEF OutOfService, metrics
<1>5. CASE Complete(c) \/ Reject(c) \/ Garble(c) \/ CancelInside(c)
  BY <1>1, <1>5 DEF Complete, Reject, Garble, CancelInside, Results, OutOfService
<1>6. CASE \E why \in Transient : Fail(c, why)
  <2>1. PICK why \in Transient : Fail(c, why)
    BY <1>6
  <2>2. CASE emitted[c] \/ attempt[c] >= MaxRetries
    BY <1>1, <2>1, <2>2 DEF Fail, Results, OutOfService
  <2>3. CASE ~ (emitted[c] \/ attempt[c] >= MaxRetries)
    <3>1. at'[c] = "backoff" /\ at[c] \in {"requesting", "reading"} /\ UNCHANGED metrics
                             /\ result' = result
      BY <2>1, <2>3, Moves DEF Fail
    <3> QED
      BY <3>1, <1>0, UncountedStep DEF OutOfService, metrics
  <2> QED
    BY <2>2, <2>3
<1>7. CASE CancelWaiting(c)
  <2>1. at[c] \in {"queued", "granted"}
    BY <1>7 DEF CancelWaiting, QueueInv
  <2>2. at'[c] = "done"
    BY <1>7, Moves DEF CancelWaiting
  <2>3. Count(c, StatusOf("cancelled")) /\ result' = [result EXCEPT ![c] = "cancelled"]
    BY <1>7 DEF CancelWaiting, StatusOf
  <2> QED
    BY <2>1, <2>2, <2>3, CountedStep DEF OutOfService, Results
<1>8. CASE Abandon(c)
  <2>1. /\ at'[c] = "abandoned" /\ at[c] = "yielded" /\ UNCHANGED metrics
        /\ result' = [result EXCEPT ![c] = "cancelled"]
    BY <1>8, Moves DEF Abandon
  <2> QED
    BY <2>1, <1>0, UncountedStep DEF OutOfService, metrics
<1>9. CASE CloseService(c)
  <2>1. at'[c] = "service_closed" /\ at[c] = "abandoned" /\ result' = result
    BY <1>9, Moves DEF CloseService
  <2>2. Count(c, StatusOf("cancelled")) /\ result[c] = "cancelled"
    BY <1>9 DEF CloseService, StatusOf, CountInv
  <2> QED
    BY <2>1, <2>2, CountedStep DEF OutOfService, Results
<1>10. CASE CloseProvider(c) \/ CloseResponse(c)
  <2>1. /\ at'[c] \in {"provider_closed", "done"} /\ at[c] \in {"service_closed", "provider_closed"}
        /\ UNCHANGED metrics /\ result' = result
    BY <1>10, Moves DEF CloseProvider, CloseResponse
  <2> QED
    BY <2>1, <1>0, UncountedStep DEF OutOfService, metrics
<1> QED
  BY <1>2, <1>3, <1>4, <1>5, <1>6, <1>7, <1>8, <1>9, <1>10 DEF Progress, Cancel

-----------------------------------------------------------------------------

\* No call has begun and every slot is free.
LEMMA InvInit == Init => IInv
<1> SUFFICES ASSUME Init PROVE IInv
  OBVIOUS
<1> USE ProviderConstantsOK
<1>1. TypeOK
  BY DEF Init, TypeOK, Points
<1>2. QueueInv
  BY DEF Init, QueueInv
<1>3. SlotInv
  <2>1. Holders = {}
    BY DEF Init, Holders, HoldsSlot
  <2> QED
    BY <2>1, FS_EmptySet DEF Init, SlotInv
<1>4. TextInv
  BY DEF Init, TextInv
<1>5. CountInv
  <2>1. InFlight = {}
    BY DEF Init, InFlight
  <2> QED
    BY <2>1, FS_EmptySet DEF Init, CountInv
<1> QED
  BY <1>1, <1>2, <1>3, <1>4, <1>5 DEF IInv

\* No step of any call leaves the invariant.
LEMMA InvStep == IInv /\ [Next]_vars => IInv'
<1> SUFFICES ASSUME IInv, [Next]_vars PROVE IInv'
  OBVIOUS
<1>1. ASSUME NEW c \in Calls, Start(c) \/ Progress(c) \/ Cancel(c) PROVE IInv'
  <2>1. SemTypeOK' /\ QueueInv' /\ SlotInv' /\ Others(c)
    BY <1>1, SlotStep DEF IInv
  <2>2. CallTypeOK'
    BY <1>1, CallTypeStep DEF IInv
  <2>3. TextInv'
    BY <1>1, <2>1, TextStep DEF IInv
  <2>4. CountInv' /\ inProgress' \in Nat
    BY <1>1, <2>1, CountStep DEF IInv
  <2>5. TypeOK'
    BY <2>1, <2>2, <2>4 DEF SemTypeOK, CallTypeOK, TypeOK
  <2> QED
    BY <2>1, <2>3, <2>4, <2>5 DEF IInv
<1>2. CASE UNCHANGED vars
  <2>1. /\ UNCHANGED <<kind, at, attempt, emitted, text, result>>
        /\ UNCHANGED <<free, queue, open, counted, inProgress>>
    BY <1>2 DEF vars, semaphore, metrics
  <2>2. TypeOK'
    BY <2>1 DEF IInv, TypeOK
  <2>3. QueueInv' /\ TextInv'
    BY <2>1 DEF IInv, QueueInv, TextInv
  <2>4. SlotInv' /\ CountInv'
    <3>1. Holders' = Holders /\ InFlight' = InFlight
      BY <2>1 DEF Holders, HoldsSlot, InFlight
    <3> QED
      BY <2>1, <3>1 DEF IInv, SlotInv, CountInv
  <2> QED
    BY <2>2, <2>3, <2>4 DEF IInv
<1> QED
  BY <1>1, <1>2 DEF Next, Ended

\* The inductive invariant, for any number of calls, slots, retries and chunks.
THEOREM ProviderInvariant == Spec => []IInv
BY InvInit, InvStep, PTL DEF Spec

\* llm/ollama.py:103-105, 210-215: every path through a call, cancelled streams with their
\* late cleanup included, gives its slot back once, and no slot is idle while somebody waits.
THEOREM ProviderKeepsSlots == Spec => []SlotsConserved
<1>1. IInv => SlotsConserved
  BY DEF IInv, SlotInv, SlotsConserved, Holders
<1> QED
  BY <1>1, ProviderInvariant, PTL

\* llm/ollama.py:107-201: a consumer's chunks are all of one attempt.
THEOREM ProviderRepeatsNoText == Spec => []NoTextTwice
<1>1. IInv => NoTextTwice
  BY DEF IInv, TextInv, NoTextTwice
<1> QED
  BY <1>1, ProviderInvariant, PTL

\* A call is counted once, as its caller saw it end, and the gauge is the number of calls
\* that are not counted yet (services/llm_service.py:92-173, 184-271).
THEOREM ProviderCountsTruly == Spec => []CountedAsEnded
<1>1. IInv => CountedAsEnded
  BY DEF IInv, CountInv, CountedAsEnded, InFlight
<1> QED
  BY <1>1, ProviderInvariant, PTL

-----------------------------------------------------------------------------
(* What is open and what is over *)

\* The points of a call at which its HTTP response is open, or left open.
Connected == {"requesting", "reading", "yielded"} \cup LeftBehind

\* The points of a call whose caller has its outcome.
Over == {"done"} \cup LeftBehind

\* What a call has open and what its caller knows, by where it is.
LifeInv ==
  /\ open = {c \in Calls : at[c] \in Connected}
  /\ \A c \in Calls : result[c] # "none" <=> at[c] \in Over

\* What is true of the claim that at most MaxConcurrency requests are at the model: all
\* but those of abandoned streams whose last generator is still to be closed.
ModelIsNotOverrun ==
  Cardinality({c \in open : at[c] # "provider_closed"}) <= MaxConcurrency

\* What a caller has been told stays: how its call ended, the text it got, and how the
\* metrics counted it, whatever is still cleaned up behind it.
OutcomesStay ==
  [][\A c \in Calls :
       /\ result[c] # "none" => result'[c] = result[c] /\ text'[c] = text[c]
       /\ counted[c] # "none" => counted'[c] = counted[c]]_vars

\* The same of one call.
LifeOf(c) ==
  /\ c \in open <=> at[c] \in Connected
  /\ result[c] # "none" <=> at[c] \in Over

\* The others are where they were for all that LifeInv tells apart.
LEMMA LifeOfOthers ==
  ASSUME TypeOK, LifeInv, NEW c \in Calls, Others(c), LifeOf(c)', open' \subseteq Calls,
         \A d \in Calls \ {c} : (d \in open' <=> d \in open) /\ result'[d] = result[d]
  PROVE  LifeInv'
<1>1. ASSUME NEW d \in Calls PROVE LifeOf(d)'
  <2>1. CASE d = c
    BY <2>1
  <2>2. CASE d # c
    <3>1. /\ at'[d] \in Connected <=> at[d] \in Connected
          /\ at'[d] \in Over <=> at[d] \in Over
      BY <2>2 DEF Others, Connected, Over, LeftBehind
    <3>2. LifeOf(d)
      BY DEF LifeInv, LifeOf
    <3> QED
      BY <2>2, <3>1, <3>2 DEF LifeOf
  <2> QED
    BY <2>1, <2>2
<1> QED
  BY <1>1 DEF LifeInv, LifeOf

\* What a call that has a result knows stays; one that has none may get any.
Keeps(c) ==
  /\ result[c] # "none" => result'[c] = result[c] /\ text'[c] = text[c]
  /\ counted[c] # "none" => counted'[c] = counted[c]

\* A step of a call opens, closes and ends only what is its own, and does not end a call
\* again.
LEMMA LifeStep ==
  ASSUME TypeOK, QueueInv, CountInv, LifeInv, NEW c \in Calls, Others(c),
         Start(c) \/ Progress(c) \/ Cancel(c)
  PROVE  LifeInv' /\ \A d \in Calls : Keeps(d)
<1> DEFINE Own == /\ \A d \in Calls \ {c} :
                        /\ (d \in open' <=> d \in open) /\ result'[d] = result[d]
                        /\ text'[d] = text[d] /\ counted'[d] = counted[d]
                  /\ open' \subseteq Calls
                  /\ LifeOf(c)' /\ Keeps(c)
<1> SUFFICES Own
  <2> SUFFICES ASSUME Own PROVE LifeInv' /\ \A d \in Calls : Keeps(d)
    OBVIOUS
  <2>1. LifeInv'
    BY LifeOfOthers
  <2> QED
    BY <2>1 DEF Keeps
<1>1. LifeOf(c) /\ (counted[c] # "none" <=> at[c] \in {"done", "service_closed", "provider_closed"})
  BY DEF LifeInv, LifeOf, CountInv
<1> USE DEF TypeOK
<1>2. ASSUME NEW r \in Results, End(c, r), at[c] \notin Over PROVE Own
  <2>1. at'[c] = "done"
    BY <1>2, Moves DEF End
  <2>2. r # "none"
    BY DEF Results, Transient
  <2> QED
    BY <1>1, <1>2, <2>1, <2>2 DEF End, Count, LifeOf, Keeps, Connected, Over, LeftBehind
<1>3. CASE Start(c)
  <2>1. /\ at[c] = "idle" /\ UNCHANGED <<text, result, counted>>
        /\ \/ at'[c] = "requesting" /\ open' = open \cup {c}
           \/ at'[c] = "queued" /\ open' = open
    BY <1>3, Moves DEF Start, Send
  <2> QED
    BY <1>1, <2>1 DEF LifeOf, Keeps, Connected, Over, LeftBehind
<1>4. CASE Enter(c) \/ Retry(c)
  <2>1. /\ at[c] \in {"granted", "backoff"} /\ at'[c] = "requesting"
        /\ UNCHANGED <<text, result, counted>> /\ open' = open \cup {c}
    BY <1>4, Moves DEF Enter, Retry, Send, metrics
  <2> QED
    BY <1>1, <2>1 DEF LifeOf, Keeps, Connected, Over, LeftBehind
<1>5. CASE Respond(c) \/ Resume(c) \/ Yield(c)
  <2>1. /\ at[c] \in {"requesting", "reading", "yielded"} /\ at'[c] \in {"reading", "yielded"}
        /\ UNCHANGED <<result, counted, open>>
        /\ \/ text' = text
           \/ text' = [text EXCEPT ![c] = Append(@, attempt[c])]
    BY <1>5, Moves DEF Respond, Resume, Yield, metrics
  <2> QED
    BY <1>1, <2>1 DEF LifeOf, Keeps, Connected, Over, LeftBehind
<1>6. CASE \E why \in Transient : Fail(c, why)
  <2>1. PICK why \in Transient : Fail(c, why)
    BY <1>6
  <2>2. CASE emitted[c] \/ attempt[c] >= MaxRetries
    BY <2>1, <2>2, <1>2 DEF Fail, Results, Over, LeftBehind
  <2>3. CASE ~ (emitted[c] \/ attempt[c] >= MaxRetries)
    <3>1. /\ at[c] \in {"requesting", "reading"} /\ at'[c] = "backoff"
          /\ UNCHANGED <<text, result, counted>> /\ open' = open \ {c}
      BY <2>1, <2>3, Moves DEF Fail, metrics
    <3> QED
      BY <1>1, <3>1 DEF LifeOf, Keeps, Connected, Over, LeftBehind
  <2> QED
    BY <2>2, <2>3
<1>7. CASE Complete(c) \/ Reject(c) \/ Garble(c) \/ CancelInside(c)
  <2>1. at[c] \notin Over /\ \E r \in Results : End(c, r)
    BY <1>7 DEF Complete, Reject, Garble, CancelInside, Results, Over, LeftBehind
  <2> QED
    BY <2>1, <1>2
<1>8. CASE CancelWaiting(c)
  <2>1. /\ at[c] \in {"granted", "queued"} /\ at'[c] = "done" /\ UNCHANGED <<text, open>>
        /\ result' = [result EXCEPT ![c] = "cancelled"]
        /\ counted' = [counted EXCEPT ![c] = "cancelled"]
    <3>1. at'[c] = "done"
      BY <1>8, Moves DEF CancelWaiting
    <3>2. at[c] \in {"granted", "queued"}
      BY <1>8 DEF CancelWaiting, QueueInv
    <3> QED
      BY <1>8, <3>1, <3>2 DEF CancelWaiting, Count
  <2> QED
    BY <1>1, <2>1 DEF LifeOf, Keeps, Connected, Over, LeftBehind
<1>9. CASE Abandon(c)
  <2>1. /\ at[c] = "yielded" /\ at'[c] = "abandoned" /\ UNCHANGED <<text, open, counted>>
        /\ result' = [result EXCEPT ![c] = "cancelled"]
    BY <1>9, Moves DEF Abandon, metrics
  <2> QED
    BY <1>1, <2>1 DEF LifeOf, Keeps, Connected, Over, LeftBehind
<1>10. CASE CloseService(c)
  <2>1. /\ at[c] = "abandoned" /\ at'[c] = "service_closed" /\ UNCHANGED <<text, result, open>>
        /\ counted' = [counted EXCEPT ![c] = "cancelled"]
    BY <1>10, Moves DEF CloseService, Count
  <2> QED
    BY <1>1, <2>1 DEF LifeOf, Keeps, Connected, Over, LeftBehind
<1>11. CASE CloseProvider(c)
  <2>1. /\ at[c] = "service_closed" /\ at'[c] = "provider_closed"
        /\ UNCHANGED <<text, result, open, counted>>
    BY <1>11, Moves DEF CloseProvider, metrics
  <2> QED
    BY <1>1, <2>1 DEF LifeOf, Keeps, Connected, Over, LeftBehind
<1>12. CASE CloseResponse(c)
  <2>1. /\ at[c] = "provider_closed" /\ at'[c] = "done"
        /\ UNCHANGED <<text, result, counted>> /\ open' = open \ {c}
    BY <1>12, Moves DEF CloseResponse, metrics
  <2> QED
    BY <1>1, <2>1 DEF LifeOf, Keeps, Connected, Over, LeftBehind
<1> QED
  BY <1>3, <1>4, <1>5, <1>6, <1>7, <1>8, <1>9, <1>10, <1>11, <1>12 DEF Progress, Cancel

\* No step at all disturbs it.
LEMMA LifeKept ==
  IInv /\ LifeInv /\ [Next]_vars => LifeInv' /\ (UNCHANGED vars \/ \A d \in Calls : Keeps(d))
<1> SUFFICES ASSUME IInv, LifeInv, [Next]_vars
             PROVE  LifeInv' /\ (UNCHANGED vars \/ \A d \in Calls : Keeps(d))
  OBVIOUS
<1>1. ASSUME NEW c \in Calls, Start(c) \/ Progress(c) \/ Cancel(c)
      PROVE  LifeInv' /\ \A d \in Calls : Keeps(d)
  <2>1. TypeOK /\ QueueInv /\ SlotInv /\ CountInv
    BY DEF IInv
  <2>2. Others(c)
    BY <1>1, <2>1, SlotStep
  <2> QED
    BY <1>1, <2>1, <2>2, LifeStep
<1>2. CASE UNCHANGED vars
  BY <1>2 DEF vars, LifeInv
<1> QED
  BY <1>1, <1>2 DEF Next, Ended

\* Everywhere a call may be, its HTTP response is open when it should be, and its caller has
\* its result when it should.
THEOREM ProviderLife == Spec => []LifeInv
<1>1. Init => LifeInv
  BY DEF Init, LifeInv, Connected, Over, LeftBehind
<1> QED
  BY <1>1, LifeKept, ProviderInvariant, PTL DEF Spec

\* llm/ollama.py:103-105, 210-215: what the semaphore bounds is the requests whose
\* generators are still inside it; an abandoned stream's response is closed after it left.
THEOREM ProviderBoundsRequests == Spec => []ModelIsNotOverrun
<1>1. IInv /\ LifeInv => ModelIsNotOverrun
  <2> SUFFICES ASSUME IInv, LifeInv PROVE ModelIsNotOverrun
    OBVIOUS
  <2> DEFINE busy == {c \in open : at[c] # "provider_closed"}
             b == Cardinality(busy)
             h == Cardinality(Holders)
  <2>1. busy \subseteq Holders
    BY DEF LifeInv, Connected, LeftBehind, Holders, HoldsSlot
  <2>2. IsFiniteSet(Holders) /\ free + h = MaxConcurrency /\ free \in Nat
    BY ProviderConstantsOK DEF IInv, SlotInv, TypeOK
  <2> HIDE DEF busy
  <2>3. b \in Nat /\ h \in Nat /\ b <= h
    BY <2>1, <2>2, FS_Subset, FS_CardinalityType
  <2>4. b <= MaxConcurrency
    <3> HIDE DEF b, h
    <3> QED
      BY <2>2, <2>3
  <2> QED
    BY <2>4 DEF ModelIsNotOverrun, busy
<1> QED
  BY <1>1, ProviderInvariant, ProviderLife, PTL

\* What the caller of the LLM service has been told stays, whatever is cleaned up behind it.
THEOREM ProviderOutcomesStay == Spec => OutcomesStay
<1>1. IInv /\ LifeInv /\ [Next]_vars =>
        [\A c \in Calls :
           /\ result[c] # "none" => result'[c] = result[c] /\ text'[c] = text[c]
           /\ counted[c] # "none" => counted'[c] = counted[c]]_vars
  BY LifeKept DEF Keeps
<1> QED
  BY <1>1, ProviderInvariant, ProviderLife, PTL DEF Spec, OutcomesStay

-----------------------------------------------------------------------------
(* Whose turn it is *)

\* c waits for a slot before d.
Ahead(c, d, q) == \E i, j \in DOMAIN q : i < j /\ q[i] = c /\ q[j] = d

\* Slots go to those that wait in the order they came, also when one of them is cancelled
\* or several slots become free at once; and who comes last never goes first.
SlotsGoInTurn ==
  [][/\ \A c, d \in Calls :
          Ahead(c, d, queue) /\ at'[c] = "queued" => at'[d] = "done" \/ Ahead(c, d, queue')
     /\ \A d \in Calls : at[d] = "idle" /\ at'[d] = "requesting" => queue = <<>>]_vars

\* A slot that is passed on goes to those in front: who waited ahead of another and still
\* waits is still ahead of it.
LEMMA PassInTurn ==
  ASSUME NEW c \in Calls, NEW point \in {"requesting", "done", "provider_closed"},
         NEW f \in Nat, NEW q \in Seq(Calls), Pass(c, point, f, q),
         NEW x \in Calls, NEW y \in Calls, Ahead(x, y, q), at'[x] = "queued"
  PROVE  Ahead(x, y, queue')
<1> DEFINE n == IF f < Len(q) THEN f ELSE Len(q)
           l == Len(q)
<1>1. n \in Nat /\ l \in Nat /\ n <= l /\ DOMAIN q = 1 .. l /\ \A i \in 1 .. l : q[i] \in Calls
  OBVIOUS
<1>2. /\ queue' = SubSeq(q, n + 1, l)
      /\ at' = [d \in Calls |-> IF d = c THEN point
                                 ELSE IF \E i \in 1 .. n : q[i] = d THEN "granted" ELSE at[d]]
  BY DEF Pass
<1> HIDE DEF n, l
<1>3. ~ \E i \in 1 .. n : q[i] = x
  BY <1>2
<1>4. PICK i \in 1 .. l, j \in 1 .. l : i < j /\ q[i] = x /\ q[j] = y
  BY <1>1 DEF Ahead
<1>5. ~ (i <= n)
  BY <1>1, <1>3, <1>4
<1>6. /\ Len(queue') = IF n + 1 <= l THEN l - (n + 1) + 1 ELSE 0
      /\ \A k \in 1 .. l - (n + 1) + 1 : queue'[k] = q[n + 1 + k - 1]
      /\ queue' \in Seq(Calls)
  <2>1. n + 1 \in Int /\ l \in Int /\ \A k \in n + 1 .. l : q[k] \in Calls
    BY <1>1
  <2> QED
    BY <1>2, <2>1, SubSeqProperties
<1>7. Len(queue') = l - n /\ DOMAIN queue' = 1 .. l - n
  BY <1>1, <1>6
<1>8. /\ i - n \in 1 .. l - n /\ j - n \in 1 .. l - n /\ i - n < j - n
      /\ i - n \in 1 .. l - (n + 1) + 1 /\ j - n \in 1 .. l - (n + 1) + 1
      /\ n + 1 + (i - n) - 1 = i /\ n + 1 + (j - n) - 1 = j
  BY <1>1, <1>4, <1>5
<1>9. queue'[i - n] = x /\ queue'[j - n] = y
  BY <1>4, <1>6, <1>8
<1> QED
  BY <1>7, <1>8, <1>9 DEF Ahead

\* One that leaves the queue changes nothing of the order of the others.
LEMMA RemoveInTurn ==
  ASSUME NEW q \in Seq(Calls), NEW k \in 1 .. Len(q), NEW x, NEW y,
         Ahead(x, y, q), x # q[k], y # q[k]
  PROVE  Ahead(x, y, RemoveAt(q, k))
<1> DEFINE l == Len(q)
           r == RemoveAt(q, k)
<1>1. /\ DOMAIN r = 1 .. l - 1 /\ l \in Nat /\ DOMAIN q = 1 .. l /\ k \in 1 .. l
      /\ \A i \in 1 .. l - 1 : r[i] = IF i < k THEN q[i] ELSE q[i + 1]
  BY RemoveAtEffect
<1>2. PICK i \in 1 .. l, j \in 1 .. l : i < j /\ q[i] = x /\ q[j] = y
  BY <1>1 DEF Ahead
<1> HIDE DEF l, r
<1>3. i # k /\ j # k
  BY <1>2
<1> DEFINE a == IF i < k THEN i ELSE i - 1
           b == IF j < k THEN j ELSE j - 1
<1>4. a \in 1 .. l - 1 /\ b \in 1 .. l - 1 /\ a < b
  BY <1>1, <1>2, <1>3
<1>5. r[a] = x /\ r[b] = y
  BY <1>1, <1>2, <1>3
<1>6. Ahead(x, y, r)
  <2> HIDE DEF a, b
  <2> QED
    BY <1>1, <1>4, <1>5 DEF Ahead
<1> QED
  BY <1>6 DEF r

\* Nobody overtakes.
InTurn ==
  /\ \A c, d \in Calls :
        Ahead(c, d, queue) /\ at'[c] = "queued" => at'[d] = "done" \/ Ahead(c, d, queue')
  /\ \A d \in Calls : at[d] = "idle" /\ at'[d] = "requesting" => queue = <<>>

\* No step of a call lets anybody overtake.
LEMMA TurnStep ==
  ASSUME TypeOK, QueueInv, SlotInv, NEW e \in Calls, Start(e) \/ Progress(e) \/ Cancel(e)
  PROVE  InTurn
<1>1. Others(e) /\ queue \in Seq(Calls) /\ free \in Nat
  BY SlotStep, ProviderConstantsOK DEF TypeOK
<1>2. ASSUME NEW d \in Calls, at[d] = "idle", at'[d] = "requesting" PROVE queue = <<>>
  <2>1. d = e
    BY <1>1, <1>2 DEF Others
  <2>2. Start(e)
    BY <1>2, <2>1 DEF Start, Progress, Cancel, Enter, Respond, Yield, Resume, Complete, Fail, Retry,
       Reject, Garble, CloseService, CloseProvider, CloseResponse, CancelWaiting, CancelInside,
       Abandon, QueueInv
  <2>3. CASE ~ Unlocked
    BY <1>2, <2>1, <2>2, <2>3, Moves DEF Start
  <2> QED
    BY <2>3 DEF Unlocked
<1>3. ASSUME NEW c \in Calls, NEW d \in Calls, Ahead(c, d, queue), at'[c] = "queued"
      PROVE  at'[d] = "done" \/ Ahead(c, d, queue')
  <2>1. CASE queue' = queue
    BY <1>3, <2>1
  <2>2. CASE queue' = Append(queue, e)
    <3>1. /\ DOMAIN queue \subseteq DOMAIN queue'
          /\ \A i \in DOMAIN queue : queue'[i] = queue[i]
      BY <1>1, <2>2
    <3>2. PICK i \in DOMAIN queue, j \in DOMAIN queue :
             i < j /\ queue[i] = c /\ queue[j] = d
      BY <1>3 DEF Ahead
    <3> HIDE <2>2
    <3> QED
      BY <3>1, <3>2 DEF Ahead
  <2>3. CASE \E p \in {"requesting", "done", "provider_closed"}, f \in Nat : Pass(e, p, f, queue)
    BY <1>1, <1>3, <2>3, PassInTurn
  <2>4. ASSUME NEW k \in DOMAIN queue, queue[k] = e, Pass(e, "done", free, RemoveAt(queue, k))
        PROVE  at'[d] = "done" \/ Ahead(c, d, queue')
    <3>1. at'[e] = "done"
      BY <2>4 DEF Pass
    <3>2. CASE d = e
      BY <3>1, <3>2
    <3>3. CASE d # e
      <4>1. c # e
        BY <1>3, <3>1
      <4>2. k \in 1 .. Len(queue)
        BY <1>1
      <4>3. RemoveAt(queue, k) \in Seq(Calls) /\ Ahead(c, d, RemoveAt(queue, k))
        BY <1>1, <1>3, <2>4, <3>3, <4>1, <4>2, RemoveInTurn, RemoveAtEffect
      <4> QED
        BY <1>1, <1>3, <2>4, <4>3, PassInTurn
    <3> QED
      BY <3>2, <3>3
  <2>5. CASE Start(e)
    BY <2>1, <2>2, <2>5 DEF Start
  <2>6. CASE Enter(e) \/ CloseProvider(e)
    <3>1. free \in Nat /\ free + 1 \in Nat
      BY <1>1
    <3> QED
      BY <2>3, <2>6, <3>1 DEF Enter, CloseProvider
  <2>7. ASSUME NEW r, End(e, r) PROVE at'[d] = "done" \/ Ahead(c, d, queue')
    <3>1. free + 1 \in Nat
      BY <1>1
    <3> QED
      BY <2>3, <2>7, <3>1 DEF End
  <2>8. CASE Respond(e) \/ Yield(e) \/ Resume(e) \/ Retry(e) \/ Abandon(e) \/ CloseService(e)
             \/ CloseResponse(e)
    BY <2>1, <2>8 DEF Respond, Yield, Resume, Retry, Abandon, CloseService, CloseResponse, semaphore
  <2>9. CASE Complete(e) \/ Reject(e) \/ Garble(e) \/ CancelInside(e)
    BY <2>7, <2>9 DEF Complete, Reject, Garble, CancelInside
  <2>10. CASE \E why \in Transient : Fail(e, why)
    BY <2>1, <2>7, <2>10 DEF Fail, semaphore
  <2>11. CASE CancelWaiting(e)
    <3>1. free + 1 \in Nat
      BY <1>1
    <3> QED
      BY <2>3, <2>4, <2>11, <3>1 DEF CancelWaiting
  <2> QED
    BY <2>5, <2>6, <2>8, <2>9, <2>10, <2>11 DEF Progress, Cancel
<1> QED
  BY <1>2, <1>3 DEF InTurn

\* llm/ollama.py:103-105, 210-215: the semaphore serves its waiters in the order they came.
THEOREM ProviderServesInTurn == Spec => SlotsGoInTurn
<1>1. IInv /\ [Next]_vars => [InTurn]_vars
  BY TurnStep DEF IInv, Next, Ended
<1> QED
  BY <1>1, ProviderInvariant, PTL DEF Spec, SlotsGoInTurn, InTurn

-----------------------------------------------------------------------------
(***************************************************************************)
(* The process that the LLM service lives in (module Lifespan), for any    *)
(* number of requests and whichever of its dependencies fail, at whichever *)
(* step of the startup or of the shutdown.  ProcessInv says what each      *)
(* stage of the lifespan has behind it: the startup which dependencies, a  *)
(* serving process what it offers and who uses which LLM service, the      *)
(* shutdown which closes.                                                  *)
(***************************************************************************)
\* The dependencies that come before d in the startup.
Before(d) ==
  CASE d = "redis" -> {}
    [] d = "mongodb" -> {"redis"}
    [] d = "qdrant" -> {"redis", "mongodb"}

Starting == stage[1] \in {"verify", "schema", "drop"}

\* The startup has dealt with the dependencies before the one it stands at, and has
\* touched nothing else.
StartupInv ==
  Starting =>
    /\ published \subseteq Before(stage[2])
    /\ \A d \in Dependencies :
          client[d] = IF d \in Before(stage[2]) \ published THEN "closed" ELSE "open"
    /\ client["embeddings"] = "none"
    /\ tools = FALSE /\ agents = FALSE /\ persistent = FALSE
    /\ cached = None /\ \A m \in Makers : service[m] = "none"
    /\ \A r \in Requests : request[r] = "new" /\ holds[r] = None

\* What a serving process offers is decided by which clients it has kept.
OfferInv ==
  stage[1] = "serve" =>
    /\ \A d \in Dependencies : client[d] = IF d \in published THEN "open" ELSE "closed"
    /\ client["embeddings"] = IF "qdrant" \in published THEN "open" ELSE "none"
    /\ "qdrant" \in published => tools = TRUE /\ agents = TRUE
    /\ "qdrant" \notin published => tools = FALSE /\ agents = FALSE
    /\ {"qdrant", "mongodb"} \subseteq published => persistent = TRUE
    /\ ~ {"qdrant", "mongodb"} \subseteq published => persistent = FALSE

\* Who uses which LLM service, and that there is none before somebody remembers one.
SharedInv ==
  /\ stage[1] = "serve" =>
       /\ "qdrant" \in published =>
            cached = "startup" /\ \A r \in Requests : request[r] # "missed"
       /\ cached = None => \A m \in Makers : service[m] = "none"
       /\ \A m \in Makers : service[m] # "closed"
       /\ \A r \in Requests :
            /\ request[r] \in {"ready", "calling"} => holds[r] # None
            /\ request[r] \in {"new", "missed"} => holds[r] = None
            /\ holds[r] = None \/ (holds[r] \in {r, cached} /\ cached # None)
            /\ "qdrant" \in published => holds[r] \in {None, cached}
  /\ stage[1] # "serve" => \A r \in Requests : request[r] \in {"new", "done"}

\* The clients before place k in the order of closing are closed.
ClosedUpTo(k) ==
  /\ \A c \in published \cup {"embeddings"} : Position(c) < k => client[c] # "open"
  /\ 1 < k => /\ cached = None
              /\ \A m \in Makers : service[m] = "open" =>
                    \E n \in Makers \ {m} : service[n] = "closed"

ClosingInv ==
  /\ stage[1] = "close" => ClosedUpTo(Position(stage[2])) /\ NeedsClose(stage[2])
  /\ stage[1] = "clear" => ClosedUpTo(Len(Closing) + 1)
  /\ abandoned # None => stage[1] = "stopped" /\ ClosedUpTo(Position(abandoned))

ProcessInv ==
  LifespanTypeOK /\ StartupInv /\ OfferInv /\ SharedInv /\ ClosingInv

\* What has been closed is not opened again: not a client that the startup gave up, and
\* not an LLM service that the shutdown closed and a request may still hold.
NothingReopens ==
  [][/\ \A c \in Clients : client[c] = "closed" => client'[c] = "closed"
     /\ \A m \in Makers : service[m] = "closed" => service'[m] = "closed"]_processVars

\* The order of closing.
LEMMA Places ==
  /\ Len(Closing) = 5
  /\ Closing[1] = "llm" /\ Closing[2] = "embeddings" /\ Closing[3] = "qdrant"
  /\ Closing[4] = "mongodb" /\ Closing[5] = "redis"
  /\ Position("llm") = 1 /\ Position("embeddings") = 2 /\ Position("qdrant") = 3
  /\ Position("mongodb") = 4 /\ Position("redis") = 5
<1>1. /\ Len(Closing) = 5
      /\ Closing[1] = "llm" /\ Closing[2] = "embeddings" /\ Closing[3] = "qdrant"
      /\ Closing[4] = "mongodb" /\ Closing[5] = "redis"
  BY DEF Closing
<1> HIDE DEF Closing
<1>2. ASSUME NEW k \in 1 .. 5 PROVE Position(Closing[k]) = k
  <2> DEFINE P(i) == Closing[i] = Closing[k]
  <2>1. ASSUME NEW i \in 1 .. 5, Closing[i] = Closing[k] PROVE i = k
    <3>1. i \in {1, 2, 3, 4, 5} /\ k \in {1, 2, 3, 4, 5}
      OBVIOUS
    <3> QED
      BY <1>1, <2>1, <3>1
  <2> QED
    BY <1>1, <2>1 DEF Position
<1> QED
  BY <1>1, <1>2

\* The place where the shutdown goes on is the first from i that has to be closed.
LEMMA ClosesNext ==
  ASSUME NEW i \in 1 .. 6
  PROVE  \/ /\ CloseFrom(i) = <<"clear", None>>
            /\ \A j \in i .. 5 : ~ NeedsClose(Closing[j])
         \/ \E k \in i .. 5 : /\ CloseFrom(i) = <<"close", Closing[k]>>
                              /\ NeedsClose(Closing[k])
                              /\ \A j \in i .. k - 1 : ~ NeedsClose(Closing[j])
<1> DEFINE left == {j \in i .. 5 : NeedsClose(Closing[j])}
<1>1. CloseFrom(i) = IF left = {} THEN <<"clear", None>> ELSE <<"close", Closing[Min(left)]>>
  BY Places DEF CloseFrom
<1>2. CASE left = {}
  BY <1>1, <1>2
<1>3. CASE left # {}
  <2>1. left \subseteq {1, 2, 3, 4, 5}
    OBVIOUS
  <2> HIDE DEF left
  <2>2. \E x \in left : \A y \in left : x <= y
    <3>1. CASE 1 \in left
      BY <2>1, <3>1
    <3>2. CASE 1 \notin left /\ 2 \in left
      BY <2>1, <3>2
    <3>3. CASE 1 \notin left /\ 2 \notin left /\ 3 \in left
      BY <2>1, <3>3
    <3>4. CASE 1 \notin left /\ 2 \notin left /\ 3 \notin left /\ 4 \in left
      BY <2>1, <3>4
    <3>5. CASE left = {5}
      BY <3>5
    <3> QED
      BY <1>3, <2>1, <3>1, <3>2, <3>3, <3>4, <3>5
  <2> DEFINE k == Min(left)
  <2>3. k \in left /\ \A y \in left : k <= y
    BY <2>2 DEF Min
  <2> HIDE DEF k
  <2>4. CloseFrom(i) = <<"close", Closing[k]>>
    BY <1>1, <1>3 DEF k
  <2>5. k \in i .. 5 /\ NeedsClose(Closing[k])
    BY <2>3 DEF left
  <2>6. ASSUME NEW j \in i .. k - 1 PROVE ~ NeedsClose(Closing[j])
    <3>1. j \in i .. 5 /\ ~ (k <= j)
      BY <2>5
    <3> QED
      BY <2>3, <3>1 DEF left
  <2> QED
    BY <2>4, <2>5, <2>6
<1> QED
  BY <1>2, <1>3

\* Where the shutdown may go on to.
LEMMA ClosingStages ==
  ASSUME NEW i \in 1 .. 6
  PROVE  CloseFrom(i) \in Stages /\ CloseFrom(i)[1] \in {"close", "clear"}
<1>1. CASE CloseFrom(i) = <<"clear", None>>
  BY <1>1 DEF Stages
<1>2. ASSUME NEW k \in i .. 5, CloseFrom(i) = <<"close", Closing[k]>>
      PROVE  CloseFrom(i) \in Stages /\ CloseFrom(i)[1] \in {"close", "clear"}
  <2>1. Closing[k] \in {Closing[j] : j \in 1 .. Len(Closing)}
    BY Places
  <2> QED
    BY <1>2, <2>1 DEF Stages
<1> QED
  BY <1>1, <1>2, ClosesNext

\* A shutdown that has closed what comes before place i, and goes on from there.
LEMMA ClosingGoesOn ==
  ASSUME NEW i \in 1 .. 6, stage' = CloseFrom(i), abandoned' = None,
         ClosedUpTo(i)',
         \A j \in i .. 5 : NeedsClose(Closing[j])' <=> NeedsClose(Closing[j]),
         cached' = None => \A m \in Makers : service'[m] = "open" =>
                              \E n \in Makers \ {m} : service'[n] = "closed",
         published' \subseteq Dependencies
  PROVE  ClosingInv'
<1>1. ASSUME NEW k \in i .. 6, \A j \in i .. k - 1 : ~ NeedsClose(Closing[j])
      PROVE  ClosedUpTo(k)'
  <2>1. ASSUME NEW c \in published' \cup {"embeddings"}, Position(c) < k
        PROVE  client'[c] # "open"
    <3>1. CASE Position(c) < i
      BY <2>1, <3>1 DEF ClosedUpTo
    <3>2. CASE ~ (Position(c) < i)
      <4>1. /\ c \in {"embeddings", "qdrant", "mongodb", "redis"}
            /\ Position(c) \in 1 .. 5 /\ Closing[Position(c)] = c
        BY <2>1, Places DEF Dependencies
      <4>2. Position(c) \in i .. k - 1 /\ Position(c) \in i .. 5
        BY <2>1, <3>2, <4>1
      <4>3. ~ NeedsClose(c)'
        BY <1>1, <4>1, <4>2
      <4> QED
        BY <2>1, <4>1, <4>3 DEF NeedsClose
    <3> QED
      BY <3>1, <3>2
  <2>2. ASSUME 1 < k PROVE cached' = None
    <3>1. CASE i = 1
      <4>1. 1 \in i .. k - 1 /\ 1 \in i .. 5
        BY <2>2, <3>1
      <4>2. ~ NeedsClose("llm")'
        BY <1>1, <4>1, Places
      <4> QED
        BY <4>2 DEF NeedsClose
    <3>2. CASE 1 < i
      BY <3>2 DEF ClosedUpTo
    <3> QED
      BY <3>1, <3>2
  <2> QED
    BY <2>1, <2>2 DEF ClosedUpTo
<1>2. CASE /\ CloseFrom(i) = <<"clear", None>>
           /\ \A j \in i .. 5 : ~ NeedsClose(Closing[j])
  <2>1. stage'[1] = "clear"
    BY <1>2
  <2>2. ClosedUpTo(6)'
    BY <1>1, <1>2
  <2> QED
    BY <2>1, <2>2, Places DEF ClosingInv
<1>3. ASSUME NEW k \in i .. 5, CloseFrom(i) = <<"close", Closing[k]>>,
             NeedsClose(Closing[k]), \A j \in i .. k - 1 : ~ NeedsClose(Closing[j])
      PROVE  ClosingInv'
  <2>1. stage'[1] = "close" /\ stage'[2] = Closing[k]
    BY <1>3
  <2>2. Position(Closing[k]) = k
    <3>1. k \in {1, 2, 3, 4, 5}
      OBVIOUS
    <3> QED
      BY <3>1, Places
  <2>3. ClosedUpTo(k)'
    BY <1>1, <1>3
  <2>4. NeedsClose(stage[2])'
    BY <1>3, <2>1
  <2> QED
    BY <2>1, <2>2, <2>3, <2>4 DEF ClosingInv
<1> QED
  BY <1>2, <1>3, ClosesNext

\* What a stage is made of.
LEMMA StageParts ==
  ASSUME LifespanTypeOK
  PROVE  /\ stage[1] \in {"verify", "drop", "schema", "close", "serve", "clear", "stopped"}
         /\ Starting => stage[2] \in Dependencies
         /\ stage[1] = "close" => stage[2] \in {"llm", "embeddings", "qdrant", "mongodb", "redis"}
BY Places DEF LifespanTypeOK, Stages, Starting

\* The process starts within the invariant.
LEMMA ProcessInit == LifespanInit => ProcessInv
<1> SUFFICES ASSUME LifespanInit PROVE ProcessInv
  OBVIOUS
<1>1. stage[1] = "verify" /\ stage[2] = "redis"
  BY DEF LifespanInit
<1>2. LifespanTypeOK
  BY DEF LifespanInit, LifespanTypeOK, Stages, Clients, Dependencies
<1>3. StartupInv
  BY <1>1 DEF LifespanInit, StartupInv, Starting, Before, Clients, Dependencies
<1>4. OfferInv /\ SharedInv /\ ClosingInv
  BY <1>1 DEF LifespanInit, OfferInv, SharedInv, ClosingInv
<1> QED
  BY <1>2, <1>3, <1>4 DEF ProcessInv

-----------------------------------------------------------------------------
(* Startup *)

\* Where the startup goes on to, and what is then behind it.
LEMMA AfterOne ==
  ASSUME NEW d \in Dependencies
  PROVE  /\ AfterDependency(d) \in Stages /\ Before(d) \subseteq Dependencies /\ d \notin Before(d)
         /\ d = "qdrant" => AfterDependency(d)[1] = "serve"
                            /\ Dependencies = Before(d) \cup {d}
         /\ d # "qdrant" => /\ AfterDependency(d)[1] = "verify"
                            /\ AfterDependency(d)[2] \in Dependencies
                            /\ Before(AfterDependency(d)[2]) = Before(d) \cup {d}
BY DEF AfterDependency, Before, Dependencies, Stages

\* The startup deals with one dependency more: it is published with its client open, or
\* its client is closed.
LEMMA OneMore ==
  ASSUME ProcessInv, Starting,
         stage' = AfterDependency(stage[2]),
         \/ published' = published \cup {stage[2]} /\ client' = client /\ stage[2] # "qdrant"
         \/ published' = published /\ client' = [client EXCEPT ![stage[2]] = "closed"],
         UNCHANGED <<tools, agents, persistent, served, abandoned>>
  PROVE  ProcessInv'
<1> DEFINE d == stage[2]
<1>1. d \in Dependencies
  BY StageParts DEF ProcessInv
<1>2. /\ service' = service /\ cached' = cached /\ request' = request /\ holds' = holds
      /\ tools' = tools /\ agents' = agents /\ persistent' = persistent
      /\ abandoned' = abandoned
  BY DEF served
<1>3. LifespanTypeOK /\ StartupInv /\ abandoned = None
  BY DEF ProcessInv, ClosingInv, Starting
<1>4. /\ client \in [Clients -> {"none", "open", "closed"}] /\ published \subseteq Dependencies
      /\ Dependencies \subseteq Clients /\ "embeddings" \notin Dependencies
  BY <1>3 DEF LifespanTypeOK, Clients, Dependencies
<1>5. /\ published \subseteq Before(d)
      /\ \A x \in Dependencies :
            client[x] = IF x \in Before(d) \ published THEN "closed" ELSE "open"
      /\ client["embeddings"] = "none"
      /\ tools = FALSE /\ agents = FALSE /\ persistent = FALSE
      /\ cached = None /\ \A m \in Makers : service[m] = "none"
      /\ \A r \in Requests : request[r] = "new" /\ holds[r] = None
  BY <1>3 DEF StartupInv
<1> HIDE DEF d
<1>6. /\ stage' = AfterDependency(d)
      /\ \/ published' = published \cup {d} /\ client' = client /\ d # "qdrant"
         \/ published' = published /\ client' = [client EXCEPT ![d] = "closed"]
  BY DEF d
<1>7. /\ client' \in [Clients -> {"none", "open", "closed"}]
      /\ client'["embeddings"] = "none"
      /\ published' \subseteq Before(d) \cup {d}
      /\ \A x \in Dependencies :
            client'[x] = IF x \in (Before(d) \cup {d}) \ published' THEN "closed" ELSE "open"
  <2>1. CASE published' = published \cup {d} /\ client' = client
    BY <1>1, <1>4, <1>5, <2>1, AfterOne
  <2>2. CASE published' = published /\ client' = [client EXCEPT ![d] = "closed"]
    BY <1>1, <1>4, <1>5, <2>2, AfterOne
  <2> QED
    BY <1>6, <2>1, <2>2
<1>8. LifespanTypeOK'
  BY <1>1, <1>2, <1>3, <1>6, <1>7, AfterOne DEF LifespanTypeOK
<1>9. CASE d = "qdrant"
  <2>1. stage'[1] = "serve" /\ Dependencies = Before(d) \cup {d} /\ d \notin published'
    BY <1>1, <1>5, <1>6, <1>9, AfterOne
  <2>2. StartupInv' /\ ClosingInv'
    BY <1>2, <1>3, <2>1 DEF StartupInv, ClosingInv, Starting
  <2>3. OfferInv'
    BY <1>2, <1>5, <1>7, <1>9, <2>1 DEF OfferInv
  <2>4. SharedInv'
    BY <1>2, <1>5, <1>9, <2>1 DEF SharedInv
  <2> QED
    BY <1>8, <2>2, <2>3, <2>4 DEF ProcessInv
<1>10. CASE d # "qdrant"
  <2>1. /\ stage'[1] = "verify" /\ stage'[2] \in Dependencies
        /\ Before(stage'[2]) = Before(d) \cup {d}
    BY <1>1, <1>6, <1>10, AfterOne
  <2>2. StartupInv'
    BY <1>2, <1>5, <1>7, <2>1 DEF StartupInv
  <2>3. OfferInv' /\ SharedInv' /\ ClosingInv'
    BY <1>2, <1>3, <1>5, <2>1 DEF OfferInv, SharedInv, ClosingInv
  <2> QED
    BY <1>8, <2>2, <2>3 DEF ProcessInv
<1> QED
  BY <1>9, <1>10

\* The startup goes on with the same dependency.
LEMMA SameOne ==
  ASSUME ProcessInv, Starting, NEW what \in {"drop", "schema"},
         stage' = <<what, stage[2]>>, UNCHANGED <<built, served, abandoned>>
  PROVE  ProcessInv'
<1>1. stage[2] \in Dependencies /\ stage'[1] = what /\ stage'[2] = stage[2]
  BY StageParts DEF ProcessInv
<1>2. /\ client' = client /\ published' = published
      /\ service' = service /\ cached' = cached /\ request' = request /\ holds' = holds
      /\ tools' = tools /\ agents' = agents /\ persistent' = persistent
      /\ abandoned' = abandoned
  BY DEF served, built
<1>3. LifespanTypeOK'
  BY <1>1, <1>2 DEF ProcessInv, LifespanTypeOK, Stages
<1>4. StartupInv'
  BY <1>1, <1>2 DEF ProcessInv, StartupInv, Starting
<1>5. OfferInv' /\ SharedInv' /\ ClosingInv'
  BY <1>1, <1>2 DEF ProcessInv, OfferInv, SharedInv, ClosingInv, Starting
<1> QED
  BY <1>3, <1>4, <1>5 DEF ProcessInv

\* Qdrant answers: retrieval, the tools and the agents appear.
LEMMA QdrantStep == ASSUME ProcessInv, PublishQdrant PROVE ProcessInv'
<1>1. /\ stage[1] = "verify" /\ stage[2] = "qdrant" /\ stage'[1] = "serve"
      /\ stage' \in Stages
      /\ published' = published \cup {"qdrant"}
      /\ client' = [client EXCEPT !["embeddings"] = "open"]
      /\ service' = [service EXCEPT !["startup"] = "idle"]
      /\ cached' = "startup" /\ request' = request /\ holds' = holds
      /\ tools' = TRUE /\ agents' = TRUE /\ persistent' = ("mongodb" \in published)
      /\ abandoned' = abandoned
  BY AfterOne DEF PublishQdrant, Publish, AfterDependency, Dependencies
<1>2. LifespanTypeOK /\ StartupInv /\ Starting /\ abandoned = None
  BY <1>1 DEF ProcessInv, ClosingInv, Starting
<1>3. /\ published \subseteq {"redis", "mongodb"}
      /\ client["redis"] = IF "redis" \in published THEN "open" ELSE "closed"
      /\ client["mongodb"] = IF "mongodb" \in published THEN "open" ELSE "closed"
      /\ client["qdrant"] = "open"
      /\ cached = None /\ \A m \in Makers : service[m] = "none"
      /\ \A r \in Requests : request[r] = "new" /\ holds[r] = None
  BY <1>1, <1>2 DEF StartupInv, Before, Dependencies
<1>4. "startup" \in Makers /\ "startup" # None
  BY NotAMaker DEF Makers
<1>5. LifespanTypeOK'
  BY <1>1, <1>2, <1>4 DEF LifespanTypeOK, Dependencies, Clients
<1>6. OfferInv'
  <2>1. \A d \in Dependencies : client'[d] = IF d \in published' THEN "open" ELSE "closed"
    BY <1>1, <1>2, <1>3 DEF LifespanTypeOK, Dependencies, Clients
  <2>2. client'["embeddings"] = "open"
    BY <1>1, <1>2 DEF LifespanTypeOK, Dependencies, Clients
  <2>3. /\ {"qdrant", "mongodb"} \subseteq published' => persistent' = TRUE
        /\ ~ {"qdrant", "mongodb"} \subseteq published' => persistent' = FALSE
    <3>1. {"qdrant", "mongodb"} \subseteq published' <=> "mongodb" \in published
      BY <1>1
    <3>2. persistent' = ("mongodb" \in published)
      BY <1>1, Zenon
    <3>3. CASE "mongodb" \in published
      <4>1. persistent' = TRUE
        BY <3>2, <3>3, Zenon
      <4> QED
        BY <3>1, <3>3, <4>1, Zenon
    <3>4. CASE "mongodb" \notin published
      <4>1. ("mongodb" \in published) = FALSE
        BY <3>4
      <4>2. persistent' = FALSE
        BY <3>2, <4>1, Zenon
      <4> QED
        BY <3>1, <3>4, <4>2, Zenon
    <3> QED
      BY <3>3, <3>4, Zenon
  <2> QED
    BY <1>1, <2>1, <2>2, <2>3 DEF OfferInv
<1>7. SharedInv'
  <2>1. \A m \in Makers : service'[m] # "closed"
    BY <1>1, <1>2, <1>3 DEF LifespanTypeOK
  <2> QED
    BY <1>1, <1>3, <1>4, <2>1 DEF SharedInv
<1>8. StartupInv' /\ ClosingInv'
  BY <1>1, <1>2 DEF StartupInv, Starting, ClosingInv
<1> QED
  BY <1>5, <1>6, <1>7, <1>8 DEF ProcessInv

\* Every step of the startup keeps the invariant.
LEMMA StartupStep ==
  ASSUME ProcessInv,
         PublishRedis \/ MongodbAnswers \/ PublishMongodb \/ PublishQdrant \/ Unavailable \/ Dropped
  PROVE  ProcessInv'
<1>1. CASE PublishRedis
  <2>1. /\ Starting /\ stage[2] = "redis"
    BY <1>1 DEF PublishRedis, Starting
  <2> QED
    BY <1>1, <2>1, OneMore DEF PublishRedis, Publish
<1>2. CASE MongodbAnswers
  <2>1. Starting /\ stage' = <<"schema", stage[2]>>
    BY <1>2 DEF MongodbAnswers, Starting
  <2> QED
    BY <1>2, <2>1, SameOne DEF MongodbAnswers
<1>3. CASE PublishMongodb
  <2>1. Starting /\ stage[2] = "mongodb"
    BY <1>3 DEF PublishMongodb, Starting
  <2> QED
    BY <1>3, <2>1, OneMore DEF PublishMongodb, Publish
<1>4. CASE PublishQdrant
  BY <1>4, QdrantStep
<1>5. CASE Unavailable
  <2>1. Starting /\ stage' = <<"drop", stage[2]>>
    BY <1>5 DEF Unavailable, Starting
  <2> QED
    BY <1>5, <2>1, SameOne DEF Unavailable
<1>6. CASE Dropped
  <2>1. Starting
    BY <1>6 DEF Dropped, Starting
  <2> QED
    BY <1>6, <2>1, OneMore DEF Dropped
<1> QED
  BY <1>1, <1>2, <1>3, <1>4, <1>5, <1>6

-----------------------------------------------------------------------------
(* Shutdown *)

\* The parts of a step that leaves the offer alone.
LEMMA FinallyStep ==
  ASSUME ProcessInv, Finally, stage[1] \in {"verify", "schema", "drop", "serve"},
         \A r \in Requests : request[r] \in {"new", "done"}
  PROVE  ProcessInv'
<1>1. /\ stage' = CloseFrom(1) /\ tools' = FALSE /\ agents' = FALSE /\ persistent' = FALSE
      /\ client' = client /\ published' = published
      /\ service' = service /\ cached' = cached /\ request' = request /\ holds' = holds
      /\ abandoned' = abandoned
  BY DEF Finally, served
<1>2. LifespanTypeOK /\ abandoned = None
  BY DEF ProcessInv, ClosingInv
<1>3. stage' \in Stages /\ stage'[1] \in {"close", "clear"}
  BY <1>1, ClosingStages
<1>4. LifespanTypeOK'
  BY <1>1, <1>2, <1>3 DEF LifespanTypeOK
<1>5. StartupInv' /\ OfferInv' /\ SharedInv'
  BY <1>1, <1>3 DEF StartupInv, Starting, OfferInv, SharedInv
<1>6. cached = None => \A m \in Makers : service[m] = "none"
  BY DEF ProcessInv, StartupInv, Starting, SharedInv
<1>7. ClosingInv'
  <2>1. ClosedUpTo(1)'
    <3>1. ASSUME NEW c \in published' \cup {"embeddings"}, Position(c) < 1 PROVE FALSE
      <4>1. c \in {"redis", "mongodb", "qdrant", "embeddings"}
        BY <1>4 DEF LifespanTypeOK, Dependencies
      <4> QED
        BY <3>1, <4>1, Places
    <3> QED
      BY <3>1 DEF ClosedUpTo
  <2>2. \A j \in 1 .. 5 : NeedsClose(Closing[j])' <=> NeedsClose(Closing[j])
    BY <1>1 DEF NeedsClose
  <2>3. published' \subseteq Dependencies
    BY <1>4 DEF LifespanTypeOK
  <2>4. cached' = None => \A m \in Makers : service'[m] = "open" =>
                             \E n \in Makers \ {m} : service'[n] = "closed"
    BY <1>1, <1>6
  <2>5. abandoned' = None
    BY <1>1, <1>2
  <2> QED
    BY <1>1, <2>1, <2>2, <2>3, <2>4, <2>5, ClosingGoesOn
<1> QED
  BY <1>4, <1>5, <1>7 DEF ProcessInv

\* The LLM service that is remembered is closed and forgotten.
LEMMA CloseLLMStep == ASSUME ProcessInv, CloseLLM PROVE ProcessInv'
<1>1. /\ stage[1] = "close" /\ stage[2] = "llm" /\ stage' = CloseFrom(2)
      /\ service' = [service EXCEPT ![cached] = "closed"] /\ cached' = None
      /\ tools' = tools /\ agents' = agents /\ persistent' = persistent
      /\ client' = client /\ published' = published
      /\ request' = request /\ holds' = holds /\ abandoned' = abandoned
  BY DEF CloseLLM, built
<1>2. /\ LifespanTypeOK /\ abandoned = None /\ cached # None
      /\ \A r \in Requests : request[r] \in {"new", "done"}
  BY <1>1 DEF ProcessInv, ClosingInv, NeedsClose, SharedInv
<1>3. cached \in Makers /\ service \in [Makers -> {"none", "idle", "open", "closed"}]
  BY <1>2 DEF LifespanTypeOK
<1>4. stage' \in Stages /\ stage'[1] \in {"close", "clear"}
  BY <1>1, ClosingStages
<1>5. LifespanTypeOK'
  BY <1>1, <1>2, <1>3, <1>4 DEF LifespanTypeOK
<1>6. StartupInv' /\ OfferInv' /\ SharedInv'
  BY <1>1, <1>2, <1>4 DEF StartupInv, Starting, OfferInv, SharedInv
<1>7. \A m \in Makers : service'[m] = "open" => \E n \in Makers \ {m} : service'[n] = "closed"
  BY <1>1, <1>3
<1>8. ClosingInv'
  <2>1. ClosedUpTo(2)'
    <3>1. ASSUME NEW c \in published' \cup {"embeddings"}, Position(c) < 2 PROVE FALSE
      <4>1. c \in {"redis", "mongodb", "qdrant", "embeddings"}
        BY <1>5 DEF LifespanTypeOK, Dependencies
      <4> QED
        BY <3>1, <4>1, Places
    <3> QED
      BY <1>1, <1>7, <3>1 DEF ClosedUpTo
  <2>2. \A j \in 2 .. 5 : NeedsClose(Closing[j])' <=> NeedsClose(Closing[j])
    <3>1. ASSUME NEW j \in 2 .. 5 PROVE NeedsClose(Closing[j])' <=> NeedsClose(Closing[j])
      <4>1. j \in {2, 3, 4, 5}
        OBVIOUS
      <4>2. Closing[j] # "llm"
        BY <4>1, Places
      <4> QED
        BY <1>1, <4>2 DEF NeedsClose
    <3> QED
      BY <3>1
  <2>3. published' \subseteq Dependencies
    BY <1>5 DEF LifespanTypeOK
  <2>4. abandoned' = None
    BY <1>1, <1>2
  <2> QED
    BY <1>1, <1>7, <2>1, <2>2, <2>3, <2>4, ClosingGoesOn
<1> QED
  BY <1>5, <1>6, <1>8 DEF ProcessInv

\* A client is closed.
LEMMA CloseClientStep == ASSUME ProcessInv, CloseClient PROVE ProcessInv'
<1> DEFINE c == stage[2]
<1> PICK p : p = Position(stage[2])
  OBVIOUS
<1>1. /\ stage[1] = "close" /\ c # "llm" /\ p = Position(c) /\ stage' = CloseFrom(p + 1)
      /\ client' = [client EXCEPT ![c] = "closed"]
      /\ tools' = tools /\ agents' = agents /\ persistent' = persistent
      /\ published' = published /\ service' = service /\ cached' = cached
      /\ request' = request /\ holds' = holds /\ abandoned' = abandoned
  BY DEF CloseClient, served
<1>2. /\ LifespanTypeOK /\ abandoned = None /\ ClosedUpTo(p)
      /\ \A r \in Requests : request[r] \in {"new", "done"}
  BY <1>1 DEF ProcessInv, ClosingInv, SharedInv
<1>3. c \in {"embeddings", "qdrant", "mongodb", "redis"}
  BY <1>1, StageParts DEF ProcessInv
<1> HIDE DEF c
<1>4. p \in 2 .. 5 /\ Closing[p] = c
  BY <1>1, <1>3, Places
<1>5. /\ client \in [Clients -> {"none", "open", "closed"}] /\ c \in Clients
      /\ published \subseteq Dependencies
  BY <1>2, <1>3 DEF LifespanTypeOK, Clients, Dependencies
<1>6. p + 1 \in 1 .. 6
  BY <1>4
<1>7. stage' \in Stages /\ stage'[1] \in {"close", "clear"}
  BY <1>1, <1>6, ClosingStages
<1>8. LifespanTypeOK'
  BY <1>1, <1>2, <1>5, <1>7 DEF LifespanTypeOK
<1>9. StartupInv' /\ OfferInv' /\ SharedInv'
  BY <1>1, <1>2, <1>7 DEF StartupInv, Starting, OfferInv, SharedInv
<1>10. ASSUME NEW x \in published' \cup {"embeddings"}, Position(x) < p + 1
       PROVE  client'[x] # "open"
  <2>1. x \in {"embeddings", "qdrant", "mongodb", "redis"} /\ x \in Clients
    BY <1>1, <1>5 DEF Dependencies, Clients
  <2>2. Position(x) \in 1 .. 5 /\ Closing[Position(x)] = x
    BY <2>1, Places
  <2>3. CASE x = c
    BY <1>1, <1>5, <2>3
  <2>4. CASE x # c
    <3>1. Position(x) # p
      BY <1>4, <2>2, <2>4
    <3>2. Position(x) < p
      BY <1>4, <1>10, <2>2, <3>1
    <3>3. client[x] # "open"
      BY <1>1, <1>2, <1>10, <3>2 DEF ClosedUpTo
    <3> QED
      BY <1>1, <1>5, <2>1, <2>4, <3>3
  <2> QED
    BY <2>3, <2>4
<1>11. cached = None /\ \A m \in Makers : service[m] = "open" =>
                           \E n \in Makers \ {m} : service[n] = "closed"
  BY <1>2, <1>4 DEF ClosedUpTo
<1>12. ClosedUpTo(p + 1)'
  BY <1>1, <1>10, <1>11 DEF ClosedUpTo
<1>13. ASSUME NEW j \in p + 1 .. 5 PROVE NeedsClose(Closing[j])' <=> NeedsClose(Closing[j])
  <2>1. Closing[j] # c
    <3>1. j \in {3, 4, 5} /\ p \in {2, 3, 4, 5} /\ j # p
      BY <1>4
    <3> QED
      BY <1>4, <3>1, Places
  <2>2. client'[Closing[j]] = client[Closing[j]]
    BY <1>1, <1>5, <2>1
  <2> QED
    BY <1>1, <2>2 DEF NeedsClose
<1>14. published' \subseteq Dependencies /\ abandoned' = None
  BY <1>1, <1>2, <1>5
<1>15. cached' = None => \A m \in Makers : service'[m] = "open" =>
                            \E n \in Makers \ {m} : service'[n] = "closed"
  BY <1>1, <1>11
<1>16. ClosingInv'
  BY <1>1, <1>6, <1>12, <1>13, <1>14, <1>15, ClosingGoesOn
<1> QED
  BY <1>8, <1>9, <1>16 DEF ProcessInv

\* A close raises, and what comes later stays as it is.
LEMMA CloseRaisesStep == ASSUME ProcessInv, CloseRaises PROVE ProcessInv'
<1>1. /\ stage[1] = "close" /\ stage' = <<"stopped", None>> /\ stage'[1] = "stopped"
      /\ client' = client /\ published' = published
      /\ tools' = tools /\ agents' = agents /\ persistent' = persistent
      /\ service' = service /\ cached' = cached /\ request' = request /\ holds' = holds
      /\ abandoned' = stage[2]
  BY DEF CloseRaises, served, built
<1>2. /\ LifespanTypeOK /\ ClosedUpTo(Position(stage[2]))
      /\ \A r \in Requests : request[r] \in {"new", "done"}
  BY <1>1 DEF ProcessInv, ClosingInv, SharedInv
<1>3. stage[2] \in {Closing[i] : i \in 1 .. Len(Closing)}
  BY <1>1, <1>2 DEF LifespanTypeOK, Stages
<1>4. LifespanTypeOK'
  BY <1>1, <1>2, <1>3 DEF LifespanTypeOK, Stages
<1>5. StartupInv' /\ OfferInv' /\ SharedInv'
  BY <1>1, <1>2 DEF StartupInv, Starting, OfferInv, SharedInv
<1>6. ClosedUpTo(Position(abandoned))'
  BY <1>1, <1>2 DEF ClosedUpTo
<1>7. ClosingInv'
  BY <1>1, <1>6 DEF ClosingInv
<1> QED
  BY <1>4, <1>5, <1>7 DEF ProcessInv

\* Everything is closed: app.state forgets what it offered.
LEMMA ClearStep == ASSUME ProcessInv, Clear PROVE ProcessInv'
<1>1. /\ stage[1] = "clear" /\ stage' = <<"stopped", None>> /\ stage'[1] = "stopped"
      /\ client' = client /\ published' = {}
      /\ tools' = tools /\ agents' = agents /\ persistent' = persistent
      /\ service' = service /\ cached' = cached /\ request' = request /\ holds' = holds
      /\ abandoned' = abandoned
  BY DEF Clear, served
<1>2. /\ LifespanTypeOK /\ abandoned = None
      /\ \A r \in Requests : request[r] \in {"new", "done"}
  BY <1>1 DEF ProcessInv, ClosingInv, SharedInv
<1>3. LifespanTypeOK'
  BY <1>1, <1>2 DEF LifespanTypeOK, Stages
<1>4. StartupInv' /\ OfferInv' /\ SharedInv' /\ ClosingInv'
  BY <1>1, <1>2 DEF StartupInv, Starting, OfferInv, SharedInv, ClosingInv
<1> QED
  BY <1>3, <1>4 DEF ProcessInv

-----------------------------------------------------------------------------
(* Serving *)

\* A request that is under way finds the process serving.
LEMMA UnderWay ==
  ASSUME ProcessInv, NEW r \in Requests, request[r] \notin {"new", "done"}
  PROVE  stage[1] = "serve"
BY DEF ProcessInv, SharedInv

\* While the process serves, a step of a request leaves the offer alone: what is left to
\* see is the type and who holds which LLM service.
LEMMA ServedStep ==
  ASSUME ProcessInv, stage[1] = "serve", LifespanTypeOK', SharedInv',
         UNCHANGED <<stage, built, abandoned>>
  PROVE  ProcessInv'
<1>1. /\ stage' = stage /\ client' = client /\ published' = published
      /\ tools' = tools /\ agents' = agents /\ persistent' = persistent
      /\ abandoned' = abandoned
  BY DEF built
<1>2. StartupInv' /\ OfferInv' /\ ClosingInv'
  BY <1>1 DEF ProcessInv, StartupInv, Starting, OfferInv, ClosingInv
<1> QED
  BY <1>2 DEF ProcessInv

\* The cache is full, or it is empty.
LEMMA LookUpStep ==
  ASSUME ProcessInv, NEW r \in Requests, Hit(r) \/ Miss(r)
  PROVE  ProcessInv'
<1>1. /\ stage[1] = "serve" /\ request[r] = "new" /\ stage' = stage
      /\ published' = published /\ service' = service /\ cached' = cached
      /\ UNCHANGED <<stage, built, abandoned>>
      /\ abandoned' = abandoned /\ tools' = tools /\ agents' = agents
      /\ persistent' = persistent /\ client' = client
  BY DEF Hit, Miss, built
<1>2. LifespanTypeOK /\ SharedInv
  BY DEF ProcessInv
<1>3. CASE Hit(r)
  <2>1. /\ cached # None /\ request' = [request EXCEPT ![r] = "ready"]
        /\ holds' = [holds EXCEPT ![r] = cached]
    BY <1>3 DEF Hit
  <2>2. LifespanTypeOK'
    BY <1>1, <1>2, <2>1 DEF LifespanTypeOK
  <2>3. SharedInv'
    BY <1>1, <1>2, <2>1 DEF SharedInv, LifespanTypeOK
  <2> QED
    BY <1>1, <2>2, <2>3, ServedStep
<1>4. CASE Miss(r)
  <2>1. /\ cached = None /\ request' = [request EXCEPT ![r] = "missed"] /\ holds' = holds
    BY <1>4 DEF Miss
  <2>2. LifespanTypeOK'
    BY <1>1, <1>2, <2>1 DEF LifespanTypeOK
  <2>3. "qdrant" \notin published
    BY <1>1, <1>2, <2>1, NotAMaker DEF SharedInv, Makers
  <2>4. SharedInv'
    BY <1>1, <1>2, <2>1, <2>3 DEF SharedInv, LifespanTypeOK
  <2> QED
    BY <1>1, <2>2, <2>4, ServedStep
<1> QED
  BY <1>3, <1>4

\* A request that missed builds a service of its own; there is no Qdrant then.
LEMMA BuildStep == ASSUME ProcessInv, NEW r \in Requests, Build(r) PROVE ProcessInv'
<1>1. /\ request[r] = "missed" /\ stage' = stage /\ published' = published
      /\ UNCHANGED <<stage, built, abandoned>>
      /\ abandoned' = abandoned /\ tools' = tools /\ agents' = agents
      /\ persistent' = persistent /\ client' = client
      /\ request' = [request EXCEPT ![r] = "ready"]
      /\ service' = [service EXCEPT ![r] = "idle"]
      /\ holds' = [holds EXCEPT ![r] = r]
      /\ cached' = IF cached = None THEN r ELSE cached
  BY DEF Build, built
<1>2. /\ LifespanTypeOK /\ SharedInv /\ stage[1] = "serve"
      /\ r \in Makers /\ r # None /\ "qdrant" \notin published
  BY <1>1, UnderWay, NotAMaker DEF ProcessInv, SharedInv, Makers
<1>3. LifespanTypeOK'
  BY <1>1, <1>2 DEF LifespanTypeOK
<1>4. SharedInv'
  BY <1>1, <1>2 DEF SharedInv, LifespanTypeOK
<1> QED
  BY <1>1, <1>2, <1>3, <1>4, ServedStep

\* A first call opens the HTTP client of the service that the request holds.
LEMMA CallModelStep == ASSUME ProcessInv, NEW r \in Requests, CallModel(r) PROVE ProcessInv'
<1>1. /\ request[r] = "ready" /\ stage' = stage /\ published' = published
      /\ UNCHANGED <<stage, built, abandoned>>
      /\ abandoned' = abandoned /\ tools' = tools /\ agents' = agents
      /\ persistent' = persistent /\ client' = client
      /\ request' = [request EXCEPT ![r] = "calling"]
      /\ service' = [service EXCEPT ![holds[r]] = "open"]
      /\ holds' = holds /\ cached' = cached
  BY DEF CallModel, built
<1>2. LifespanTypeOK /\ SharedInv /\ stage[1] = "serve" /\ holds[r] # None /\ cached # None
  BY <1>1, UnderWay DEF ProcessInv, SharedInv
<1>3. LifespanTypeOK'
  BY <1>1, <1>2 DEF LifespanTypeOK
<1>4. SharedInv'
  BY <1>1, <1>2 DEF SharedInv, LifespanTypeOK
<1> QED
  BY <1>1, <1>2, <1>3, <1>4, ServedStep

\* A run of the agents opens the HTTP client of the service of the startup.
LEMMA RunAgentsStep == ASSUME ProcessInv, RunAgents PROVE ProcessInv'
<1>1. /\ stage[1] = "serve" /\ agents /\ stage' = stage /\ published' = published
      /\ UNCHANGED <<stage, built, abandoned>>
      /\ abandoned' = abandoned /\ tools' = tools /\ agents' = agents
      /\ persistent' = persistent /\ client' = client /\ request' = request
      /\ service["startup"] = "idle"
      /\ service' = [service EXCEPT !["startup"] = "open"]
      /\ holds' = holds /\ cached' = cached
  BY DEF RunAgents, built
<1>2. LifespanTypeOK /\ SharedInv /\ "startup" \in Makers
  BY DEF ProcessInv, Makers
<1>3. cached # None
  BY <1>1, <1>2 DEF SharedInv
<1>4. LifespanTypeOK'
  BY <1>1, <1>2 DEF LifespanTypeOK
<1>5. SharedInv'
  BY <1>1, <1>2, <1>3 DEF SharedInv, LifespanTypeOK
<1> QED
  BY <1>1, <1>4, <1>5, ServedStep

\* A request is answered.
LEMMA AnswerStep == ASSUME ProcessInv, NEW r \in Requests, Answer(r) PROVE ProcessInv'
<1>1. /\ request[r] \in {"ready", "calling"} /\ stage' = stage /\ published' = published
      /\ UNCHANGED <<stage, built, abandoned>>
      /\ abandoned' = abandoned /\ tools' = tools /\ agents' = agents
      /\ persistent' = persistent /\ client' = client
      /\ request' = [request EXCEPT ![r] = "done"]
      /\ service' = service /\ holds' = holds /\ cached' = cached
  BY DEF Answer, built
<1>2. LifespanTypeOK /\ SharedInv /\ stage[1] = "serve"
  BY <1>1, UnderWay DEF ProcessInv
<1>3. LifespanTypeOK'
  BY <1>1, <1>2 DEF LifespanTypeOK
<1>4. SharedInv'
  BY <1>1, <1>2 DEF SharedInv, LifespanTypeOK
<1> QED
  BY <1>1, <1>2, <1>3, <1>4, ServedStep

\* Every step of the process keeps the invariant.
LEMMA ProcessStep == ProcessInv /\ [LifespanNext]_processVars => ProcessInv'
<1> SUFFICES ASSUME ProcessInv, [LifespanNext]_processVars PROVE ProcessInv'
  OBVIOUS
<1>1. CASE PublishRedis \/ MongodbAnswers \/ PublishMongodb \/ PublishQdrant
           \/ Unavailable \/ Dropped
  BY <1>1, StartupStep
<1>2. CASE StartupRaises
  <2>1. /\ stage[1] \in {"verify", "schema", "drop", "serve"}
        /\ \A r \in Requests : request[r] \in {"new", "done"}
    BY <1>2 DEF StartupRaises, ProcessInv, StartupInv, Starting
  <2> QED
    BY <1>2, <2>1, FinallyStep DEF StartupRaises
<1>3. CASE Stop
  BY <1>3, FinallyStep DEF Stop
<1>4. CASE CloseLLM
  BY <1>4, CloseLLMStep
<1>5. CASE CloseClient
  BY <1>5, CloseClientStep
<1>6. CASE CloseRaises
  BY <1>6, CloseRaisesStep
<1>7. CASE Clear
  BY <1>7, ClearStep
<1>8. CASE RunAgents
  BY <1>8, RunAgentsStep
<1>9. ASSUME NEW r \in Requests, Hit(r) \/ Miss(r) \/ Build(r) \/ CallModel(r) \/ Answer(r)
      PROVE  ProcessInv'
  BY <1>9, LookUpStep, BuildStep, CallModelStep, AnswerStep
<1>10. CASE UNCHANGED processVars
  BY <1>10 DEF processVars, ProcessInv, LifespanTypeOK, StartupInv, Starting, OfferInv,
               SharedInv, ClosingInv, ClosedUpTo, NeedsClose
<1> QED
  BY <1>1, <1>2, <1>3, <1>4, <1>5, <1>6, <1>7, <1>8, <1>9, <1>10 DEF LifespanNext

\* The inductive invariant of the process, for any number of requests.
THEOREM ProcessInvariant == LifespanSpec => []ProcessInv
<1>1. LifespanInit => ProcessInv
  BY ProcessInit
<1>2. ProcessInv /\ [LifespanNext]_processVars => ProcessInv'
  BY ProcessStep
<1> QED
  BY <1>1, <1>2, PTL DEF LifespanSpec

\* app.py:110-226: whichever dependency fails, at whichever step of the startup, what the
\* routes see while the process serves fits together.
THEOREM ServingConsistent == LifespanSpec => []ServingIsConsistent
<1>1. ProcessInv => ServingIsConsistent
  <2> SUFFICES ASSUME ProcessInv PROVE ServingIsConsistent
    OBVIOUS
  <2>1. LifespanTypeOK
    BY DEF ProcessInv
  <2>2. ASSUME stage[1] = "serve"
        PROVE  /\ published = {d \in Dependencies : client[d] = "open"}
               /\ \A c \in Dependencies : client[c] # "none"
               /\ agents = ("qdrant" \in published)
               /\ tools = agents
               /\ agents = (client["embeddings"] = "open")
               /\ persistent = (agents /\ "mongodb" \in published)
               /\ PlatformStatus = "healthy" <=> \A c \in Clients : client[c] = "open"
    <3>1. /\ \A d \in Dependencies : client[d] = IF d \in published THEN "open" ELSE "closed"
          /\ client["embeddings"] = IF "qdrant" \in published THEN "open" ELSE "none"
          /\ "qdrant" \in published => tools = TRUE /\ agents = TRUE
          /\ "qdrant" \notin published => tools = FALSE /\ agents = FALSE
          /\ {"qdrant", "mongodb"} \subseteq published => persistent = TRUE
          /\ ~ {"qdrant", "mongodb"} \subseteq published => persistent = FALSE
      BY <2>2 DEF ProcessInv, OfferInv
    <3>2. published \subseteq Dependencies
      BY <2>1 DEF LifespanTypeOK
    <3>3. published = {d \in Dependencies : client[d] = "open"}
      BY <3>1, <3>2
    <3>4. \A c \in Dependencies : client[c] # "none"
      BY <3>1
    <3>5. (client["embeddings"] = "open") = ("qdrant" \in published)
      BY <3>1
    <3>6. (\A c \in Clients : client[c] = "open") <=> published = Dependencies
      BY <3>1, <3>2 DEF Clients, Dependencies
    <3>7. CASE "qdrant" \in published
      <4>1. ("qdrant" \in published) = TRUE
        BY <3>7
      <4>2. tools = TRUE /\ agents = TRUE
        BY <3>1, <3>7, Zenon
      <4>3. {"qdrant", "mongodb"} \subseteq published <=> "mongodb" \in published
        BY <3>7
      <4>4. persistent = ("mongodb" \in published)
        <5>1. CASE "mongodb" \in published
          <6>1. ("mongodb" \in published) = TRUE
            BY <5>1
          <6>2. persistent = TRUE
            BY <3>1, <4>3, <5>1, Zenon
          <6> QED
            BY <6>1, <6>2, Zenon
        <5>2. CASE "mongodb" \notin published
          <6>1. ("mongodb" \in published) = FALSE
            BY <5>2
          <6>2. persistent = FALSE
            BY <3>1, <4>3, <5>2, Zenon
          <6> QED
            BY <6>1, <6>2, Zenon
        <5> QED
          BY <5>1, <5>2, Zenon
      <4>5. (agents /\ "mongodb" \in published) = ("mongodb" \in published)
        BY <4>2
      <4>6. PlatformStatus = "healthy" <=> published = Dependencies
        BY <4>2 DEF PlatformStatus
      <4> QED
        BY <3>3, <3>4, <3>5, <3>6, <4>1, <4>2, <4>4, <4>5, <4>6, Zenon
    <3>8. CASE "qdrant" \notin published
      <4>1. ("qdrant" \in published) = FALSE
        BY <3>8
      <4>2. tools = FALSE /\ agents = FALSE /\ persistent = FALSE
        <5>1. ~ {"qdrant", "mongodb"} \subseteq published
          BY <3>8
        <5> QED
          BY <3>1, <3>8, <5>1, Zenon
      <4>3. (agents /\ "mongodb" \in published) = FALSE
        BY <4>2
      <4>4. PlatformStatus # "healthy" /\ published # Dependencies
        BY <3>8, <4>2 DEF PlatformStatus, Dependencies
      <4> QED
        BY <3>3, <3>4, <3>5, <3>6, <4>1, <4>2, <4>3, <4>4, Zenon
    <3> QED
      BY <3>7, <3>8, Zenon
  <2> QED
    BY <2>1, <2>2 DEF ServingIsConsistent
<1> QED
  BY <1>1, ProcessInvariant, PTL

\* app.py:230-250: the shutdown closes what the startup opened, as far as it gets.
THEOREM ShutdownClosesAll == LifespanSpec => []ShutdownCloses
<1>1. ProcessInv => ShutdownCloses
  <2> SUFFICES ASSUME ProcessInv PROVE ShutdownCloses
    OBVIOUS
  <2>1. CASE abandoned # None
    <3>1. ClosedUpTo(Position(abandoned))
      BY <2>1 DEF ProcessInv, ClosingInv
    <3> QED
      BY <2>1, <3>1 DEF ShutdownCloses, ClosedUpTo
  <2>2. CASE abandoned = None /\ stage[1] = "clear"
    <3>1. ClosedUpTo(Len(Closing) + 1)
      BY <2>2 DEF ProcessInv, ClosingInv
    <3> QED
      BY <2>2, <3>1 DEF ShutdownCloses, ClosedUpTo
  <2>3. CASE abandoned = None /\ stage[1] # "clear"
    BY <2>3 DEF ShutdownCloses
  <2> QED
    BY <2>1, <2>2, <2>3
<1> QED
  BY <1>1, ProcessInvariant, PTL

\* dependencies.py:16: with the agents there everybody uses one LLM service; without them a
\* request may use one of its own, and nobody uses a third.
THEOREM ModelServiceShared == LifespanSpec => []ModelServiceIsShared
<1>1. ProcessInv => ModelServiceIsShared
  <2> SUFFICES ASSUME ProcessInv, stage[1] = "serve"
               PROVE  /\ agents => cached = "startup"
                      /\ \A r \in Requests :
                            /\ holds[r] \in {None, r, cached}
                            /\ agents => holds[r] \in {None, cached}
    BY DEF ModelServiceIsShared
  <2>1. agents => "qdrant" \in published
    <3>1. "qdrant" \notin published => agents = FALSE
      BY DEF ProcessInv, OfferInv
    <3> QED
      BY <3>1
  <2> QED
    BY <2>1 DEF ProcessInv, SharedInv
<1> QED
  BY <1>1, ProcessInvariant, PTL

\* A client that the startup gave up or the shutdown closed is not opened again, and no
\* request and no run of the agents opens an LLM service that has been closed
\* (app.py:110-250, dependencies.py:16).
THEOREM ClosedStaysClosed == LifespanSpec => NothingReopens
<1> DEFINE A == /\ \A c \in Clients : client[c] = "closed" => client'[c] = "closed"
                /\ \A m \in Makers : service[m] = "closed" => service'[m] = "closed"
<1>1. ASSUME ProcessInv, [LifespanNext]_processVars PROVE [A]_processVars
  <2>1. LifespanTypeOK
    BY <1>1 DEF ProcessInv
  <2>2. CASE PublishRedis \/ MongodbAnswers \/ PublishMongodb \/ Unavailable \/ StartupRaises
             \/ Stop \/ CloseRaises \/ Clear
    BY <2>2 DEF PublishRedis, MongodbAnswers, PublishMongodb, Unavailable, StartupRaises, Stop,
                Finally, CloseRaises, Clear, served, built
  <2>3. CASE PublishQdrant
    <3>1. client["embeddings"] = "none" /\ service["startup"] = "none"
      BY <1>1, <2>3 DEF ProcessInv, StartupInv, Starting, PublishQdrant, Makers
    <3> QED
      BY <2>1, <2>3, <3>1 DEF PublishQdrant, LifespanTypeOK
  <2>4. CASE Dropped \/ CloseClient
    BY <2>1, <2>4 DEF Dropped, CloseClient, served, LifespanTypeOK
  <2>5. CASE CloseLLM
    BY <2>1, <2>5 DEF CloseLLM, built, LifespanTypeOK
  <2>6. CASE RunAgents
    BY <2>1, <2>6 DEF RunAgents, built, LifespanTypeOK
  <2>7. ASSUME NEW r \in Requests, Hit(r) \/ Miss(r) \/ Build(r) \/ CallModel(r) \/ Answer(r)
        PROVE  A
    <3>1. stage[1] = "serve"
      BY <1>1, <2>7, UnderWay DEF Hit, Miss, Build, CallModel, Answer
    <3>2. \A m \in Makers : service[m] # "closed"
      BY <1>1, <3>1 DEF ProcessInv, SharedInv
    <3>3. client' = client
      BY <2>7 DEF Hit, Miss, Build, CallModel, Answer, built
    <3> QED
      BY <3>2, <3>3
  <2>8. CASE UNCHANGED processVars
    BY <2>8
  <2> QED
    BY <1>1, <2>2, <2>3, <2>4, <2>5, <2>6, <2>7, <2>8 DEF LifespanNext
<1> QED
  BY <1>1, ProcessInvariant, PTL DEF LifespanSpec, NothingReopens

=============================================================================
