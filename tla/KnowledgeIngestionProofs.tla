---------------------- MODULE KnowledgeIngestionProofs ----------------------
(***************************************************************************)
(* What holds of KnowledgeIngestion for any number of uploads, files,      *)
(* chunks, faults and crashes.  IInv has one part for each thing that a    *)
(* property relates: how far an upload has come, who owns a point, what a  *)
(* replacement leaves behind, who wrote the stored file, and what a reader *)
(* has seen of the documents nobody touched.                               *)
(***************************************************************************)
EXTENDS KnowledgeIngestion, FunctionTheorems, FiniteSetTheorems, TLAPS

\* Awaits that come after the collection is there.
Prepared == Awaits \ {"embed", "list_collections", "create_collection"}

\* An upload that may have written points.
Claims(u) == step[u] \in {"upserted", "201", "halfway"}

\* Between its delete and its upsert.
Replacing(u) == step[u] \in {"deleted", "upsert"}

ProgressInv ==
    \A u \in Uploads :
        /\ step[u] = "idle" => source[u] = NoSource
        /\ step[u] # "idle" => source[u] \in Sources /\ version[u] \in Contents[source[u]]
        /\ InFlight(u) => version[u] > 0
        /\ step[u] \in Prepared => collection

PointInv ==
    /\ IsFiniteSet(points)
    /\ points # {} => collection
    /\ \A p \in points :
          /\ p.chunk <= p.version
          /\ \E u \in Uploads : source[u] = p.source /\ version[u] = p.version /\ Claims(u)

\* As long as two uploads of a file have not met between delete and upsert, one that is
\* there is alone and has left nothing.
ReplaceInvAt(s) ==
    /\ \A p, q \in Indexed(s) : p.version = q.version
    /\ \A p \in Indexed(s) : IsWhole(s, p.version)
    /\ \A u, w \in Uploads :
          source[u] = s /\ Replacing(u) =>
              /\ Indexed(s) = {}
              /\ source[w] = s /\ Replacing(w) => u = w

ReplaceInv == \A s \in Sources \ contested : ReplaceInvAt(s)

\* An upload of a file that never had two at a time is the one that wrote the file.
CrowdInv ==
    /\ contested \subseteq crowded
    /\ \A u, w \in Uploads :
          InFlight(u) /\ source[u] \notin crowded =>
              /\ latest[source[u]] = u
              /\ InFlight(w) /\ source[w] = source[u] => u = w

LatestInv ==
    \A s \in Sources : \A u \in Uploads : latest[s] = u =>
        /\ step[u] # "idle" /\ source[u] = s
        /\ disk[s] = version[u] \/ step[u] = "500"
        /\ s \notin crowded /\ ~ TakenOver(s) /\ step[u] \in {"upserted", "201"} =>
               Indexed(s) = ChunksOf(u)

VanishInv ==
    \A s \in Sources : \A w \in Uploads :
        /\ ~ TakenOver(s)
        /\ source[w] = s /\ step[w] \in {"upserted", "201"} /\ version[w] > 0
        /\ Indexed(s) = {}
        => \E u \in Uploads : source[u] = s /\ step[u] \in {"deleted", "upsert", "halfway"}

\* Where the payloads of a document are, and the points a reader has had the chance to read.
At(d) == {i \in DOMAIN payloads : DocumentOf[payloads[i].source] = d}

Seen(d) == IF reading = "200" THEN PointsOf(d) ELSE {p \in PointsOf(d) : Id(p) \notin unread}

\* Of a document nobody touched the reader has read each of those once.
ReadInv ==
    /\ reading \in {"idle", "info"} => payloads = <<>> /\ unread = Ids
    /\ reading \in {"idle", "info", "scroll", "200"} =>
         \A d \in Documents \ touched :
           /\ \A i, j \in At(d) : payloads[i] = payloads[j] => i = j
           /\ \A i \in At(d) : payloads[i] \in Seen(d)
           /\ \A p \in Seen(d) : \E i \in At(d) : payloads[i] = p

IInv ==
    /\ TypeOK /\ ProgressInv /\ PointInv /\ ReplaceInv /\ CrowdInv /\ LatestInv /\ VanishInv
    /\ ReadInv

-----------------------------------------------------------------------------
\* Facts about sets and sequences.

\* A nonempty set of positions has a first one.
LEMMA LeastElement ==
  ASSUME NEW T \in SUBSET Nat, T # {}
  PROVE  \E m \in T : \A n \in T : m <= n
<1> DEFINE Below == OpToRel(<, Nat)
<1>1. IsWellFoundedOn(Below, Nat)
  BY NatLessThanWellFounded
<1>2. PICK m \in T : \A n \in T : <<n, m>> \notin Below
  <2> HIDE DEF Below
  <2> QED
    BY <1>1, WFMin
<1>3. \A n \in T : m <= n
  <2> TAKE n \in T
  <2>1. n \in Nat /\ m \in Nat
    OBVIOUS
  <2>2. ~ (n < m)
    BY <1>2, <2>1 DEF OpToRel
  <2> QED
    BY <2>1, <2>2
<1> QED
  BY <1>3

\* An upload's chunks are finitely many.
LEMMA ChunksFinite ==
  ASSUME TypeOK, NEW u \in Uploads
  PROVE  IsFiniteSet(ChunksOf(u))
<1> DEFINE n == version[u]
           f == [c \in 1 .. n |-> [source |-> source[u], version |-> n, chunk |-> c]]
<1>1. n \in Nat
  BY IngestionConstantsOK DEF TypeOK, Versions
<1>2. f \in [1 .. n -> ChunksOf(u)] /\ \A p \in ChunksOf(u) : \E c \in 1 .. n : f[c] = p
  BY DEF ChunksOf
<1>3. ExistsSurjection(1 .. n, ChunksOf(u))
  <2> HIDE DEF n, f
  <2>1. f \in Surjection(1 .. n, ChunksOf(u))
    BY <1>2, Fun_IsSurj
  <2> QED
    BY <2>1 DEF ExistsSurjection
<1> QED
  BY <1>1, <1>3, FS_NatSurjection

\* A page is returned whole, whatever the order.
LEMMA ArrangementCovers ==
  ASSUME NEW page, IsFiniteSet(page), NEW q \in Arrangements(page)
  PROVE  /\ q \in Seq(page)
         /\ \A i, j \in DOMAIN q : q[i] = q[j] => i = j
         /\ \A p \in page : \E i \in DOMAIN q : q[i] = p
<1> DEFINE n == Cardinality(page)
<1>1. n \in Nat
  BY FS_CardinalityType
<1>2. q \in [1 .. n -> page] /\ DOMAIN q = 1 .. n
  BY DEF Arrangements
<1>3. \A i, j \in DOMAIN q : q[i] = q[j] => i = j
  BY DEF Arrangements
<1>4. q \in Injection(1 .. n, page)
  BY <1>2, <1>3, Fun_IsInj
<1>5. Cardinality(1 .. n) = n
  BY <1>1, FS_Interval
<1>6. q \in Surjection(1 .. n, page)
  BY <1>4, <1>5, FS_Injection
<1>7. \A p \in page : \E i \in 1 .. n : q[i] = p
  BY <1>6 DEF Surjection
<1> QED
  BY <1>1, <1>2, <1>3, <1>7

\* The points of an upload are identified by its document and its version.
LEMMA IdOfChunk ==
  ASSUME NEW u \in Uploads, NEW p
  PROVE  Id(p) \in {Id(r) : r \in ChunksOf(u)} =>
            DocumentOf[p.source] = DocumentOf[source[u]] /\ p.version = version[u]
BY DEF Id, ChunksOf

\* A point of an upload's version and document shares its id with a chunk of the upload.
LEMMA ChunkIsIn ==
  ASSUME NEW u \in Uploads, NEW p \in Points, p.chunk \in 1 .. version[u],
         DocumentOf[p.source] = DocumentOf[source[u]], p.version = version[u]
  PROVE  Id(p) \in {Id(r) : r \in ChunksOf(u)}
<1> DEFINE r == [source |-> source[u], version |-> version[u], chunk |-> p.chunk]
<1>1. r \in ChunksOf(u)
  BY DEF ChunksOf
<1>2. Id(r) = Id(p)
  BY DEF Id
<1> QED
  BY <1>1, <1>2

-----------------------------------------------------------------------------
\* Facts about the steps.

\* A step of an upload that leaves the points alone: where it starts and ends.
Move(u, from, to) ==
    /\ step[u] = from /\ step' = [step EXCEPT ![u] = to]
    /\ from \in Awaits /\ to \in Awaits \cup Ends
    /\ to \in Prepared => collection'
    /\ collection' \in {collection, TRUE}
    /\ from = "upserted" => to \in {"201", "halfway"}
    /\ to \in {"upserted", "201"} => from = "upserted"
    /\ from \in {"deleted", "upsert"} => to \in {"deleted", "upsert", "halfway"}
    /\ to \in {"deleted", "upsert"} => from \in {"deleted", "upsert"}
    /\ UNCHANGED <<source, version, disk, points, crashes, watch, reader>>

Moves(u) ==
    \/ Embed(u) \/ ListCollections(u)
    \/ CollectionIsCreated(u) \/ CreationIsRefused(u) \/ CollectionIsReady(u)
    \/ DeleteReplies(u) \/ UpsertReplies(u) \/ CallFails(u)

\* Every call of an upload moves it from one await to another await or to its response.
LEMMA MoveShape ==
  ASSUME IInv, NEW u \in Uploads, Moves(u)
  PROVE  \E from, to \in Awaits \cup Ends : Move(u, from, to)
<1>0. collection \in BOOLEAN /\ (step[u] \in Prepared => collection)
  BY DEF IInv, TypeOK, ProgressInv
<1> USE DEF Calls, Goto, Leaves, index, watch, reader, scroll, Awaits, Responses, Ends, Prepared
<1>1. CASE Embed(u)
  <2>1. Move(u, "embed", "list_collections")
    BY <1>1 DEF Embed, Move
  <2> QED
    BY <2>1
<1>2. CASE ListCollections(u)
  <2>1. Move(u, "list_collections",
             IF collection THEN "get_collection" ELSE "create_collection")
    BY <1>2 DEF ListCollections, Move
  <2> QED
    BY <2>1
<1>3. CASE CollectionIsCreated(u)
  <2>1. Move(u, "create_collection", "created")
    BY <1>3 DEF CollectionIsCreated, Move
  <2> QED
    BY <2>1
<1>4. CASE CreationIsRefused(u)
  <2>1. Move(u, "create_collection", "500")
    BY <1>4 DEF CreationIsRefused, Move
  <2> QED
    BY <2>1
<1>5. CASE CollectionIsReady(u)
  <2>1. Move(u, step[u], "delete") /\ step[u] \in {"created", "get_collection"}
    BY <1>0, <1>5 DEF CollectionIsReady, Move
  <2> QED
    BY <2>1
<1>6. CASE DeleteReplies(u)
  <2>1. Move(u, "deleted", "upsert")
    BY <1>0, <1>6 DEF DeleteReplies, Move
  <2> QED
    BY <2>1
<1>7. CASE UpsertReplies(u)
  <2>1. Move(u, "upserted", "201")
    BY <1>7 DEF UpsertReplies, Move
  <2> QED
    BY <2>1
<1>8. CASE CallFails(u)
  <2>1. /\ step[u] \in Awaits
        /\ Move(u, step[u], IF step[u] = "embed" THEN "422" ELSE Abandoned(u, "500"))
    BY <1>8 DEF CallFails, Move, Abandoned
  <2>2. Abandoned(u, "500") \in Ends
    BY DEF Abandoned
  <2> QED
    BY <2>1, <2>2
<1> QED
  BY <1>1, <1>2, <1>3, <1>4, <1>5, <1>6, <1>7, <1>8 DEF Moves

\* Once a file has been taken over, it stays taken over: an upload that claims never
\* stops, and what it uploads does not change.
LEMMA TakenOverStays ==
  ASSUME ProgressInv, NEW s \in Sources, TakenOver(s),
         \A u \in Uploads : step[u] # "idle" => UNCHANGED <<source[u], version[u]>>,
         \A u \in Uploads : Claims(u) => Claims(u)'
  PROVE  TakenOver(s)'
<1>1. PICK u \in Uploads, w \in Uploads :
        /\ source[u] = s /\ source[w] \in Sources \ {s}
        /\ DocumentOf[source[w]] = DocumentOf[s]
        /\ version[w] = version[u] /\ Claims(w)
  BY DEF TakenOver, Claims
<1>2. step[u] # "idle" /\ step[w] # "idle"
  BY <1>1, NoNamesOK DEF ProgressInv, Claims
<1>3. /\ source'[u] = s /\ source'[w] = source[w] /\ version'[w] = version'[u]
  BY <1>1, <1>2
<1>4. Claims(w)'
  BY <1>1
<1> QED
  BY <1>1, <1>3, <1>4 DEF TakenOver, Claims

-----------------------------------------------------------------------------
\* IInv holds initially.
LEMMA InitIInv == Init => IInv
<1> SUFFICES ASSUME Init PROVE IInv
  OBVIOUS
<1>1. TypeOK
  <2>1. 0 \in Versions /\ payloads \in Seq(Points)
    BY IngestionConstantsOK DEF Init, Versions
  <2>2. /\ step \in [Uploads -> {"idle"} \cup Awaits \cup Ends]
        /\ source \in [Uploads -> Sources \cup {NoSource}]
        /\ version \in [Uploads -> Versions]
    BY <2>1 DEF Init
  <2>3. /\ disk \in [Sources -> Versions \cup {NoFile, TornFile}]
        /\ latest \in [Sources -> Uploads \cup {NoUpload}]
    BY DEF Init
  <2> QED
    BY <2>1, <2>2, <2>3 DEF Init, TypeOK
<1>2. ProgressInv
  BY DEF Init, ProgressInv, InFlight, Awaits, Prepared
<1>3. PointInv
  BY FS_EmptySet DEF Init, PointInv
<1>4. ReplaceInv
  BY DEF Init, ReplaceInv, ReplaceInvAt, Indexed, Replacing
<1>5. CrowdInv
  BY DEF Init, CrowdInv, InFlight, Awaits
<1>6. LatestInv
  BY NoNamesOK DEF Init, LatestInv
<1>7. VanishInv
  BY DEF Init, VanishInv
<1>8. ReadInv
  BY DEF Init, ReadInv, Seen, At, PointsOf
<1> QED
  BY <1>1, <1>2, <1>3, <1>4, <1>5, <1>6, <1>7, <1>8 DEF IInv

\* A reader is not concerned by what changes no point.
LEMMA ReadKept ==
  ASSUME IInv, UNCHANGED <<points, reader>>
  PROVE  ReadInv'
BY DEF IInv, ReadInv, reader, At, Seen, PointsOf

\* A new upload writes the file, if it can, and nothing else.
LEMMA StoreStep ==
  ASSUME IInv, NEW u \in Uploads, NEW s \in Sources, NEW v \in Contents[s],
         Upload(u, s, v) \/ WriteFails(u, s, v)
  PROVE  IInv'
<1>0. TypeOK /\ ProgressInv /\ PointInv /\ ReplaceInv /\ CrowdInv /\ LatestInv /\ VanishInv
  BY DEF IInv
<1>v. v \in Versions
  BY ContentsOK
<1> DEFINE to == step'[u]
<1>1. /\ step[u] = "idle" /\ to \in {"embed", "422", "500"} /\ step' = [step EXCEPT ![u] = to]
      /\ source' = [source EXCEPT ![u] = s] /\ version' = [version EXCEPT ![u] = v]
      /\ crowded' = IF \E w \in Uploads : InFlight(w) /\ source[w] = s
                    THEN crowded \cup {s} ELSE crowded
      /\ UNCHANGED <<collection, points, crashes, contested, reader>>
  BY <1>0 DEF Upload, WriteFails, Store, Goto, TypeOK, index
<1>2. \/ /\ disk' = [disk EXCEPT ![s] = v] /\ latest' = [latest EXCEPT ![s] = u]
         /\ to \in {"embed", "422"} /\ (to = "embed" => v > 0)
      \/ /\ UNCHANGED <<disk, latest>> /\ to = "500"
      \/ /\ disk' = [disk EXCEPT ![s] = TornFile] /\ latest' = [latest EXCEPT ![s] = u]
         /\ to = "500"
  BY <1>0, <1>v, IngestionConstantsOK DEF Upload, WriteFails, Store, Goto, TypeOK, Versions
<1> HIDE DEF to
<1>3. \A w \in Uploads \ {u} : UNCHANGED <<step[w], source[w], version[w]>>
  BY <1>0, <1>1 DEF TypeOK
<1>4. step'[u] = to /\ source'[u] = s /\ version'[u] = v
  BY <1>0, <1>1 DEF TypeOK
<1>5. TypeOK'
  BY <1>0, <1>1, <1>2, <1>v DEF TypeOK, Awaits, Responses, Ends, reader, index
<1>6. ProgressInv'
  BY <1>0, <1>1, <1>2, <1>3, <1>4 DEF ProgressInv, InFlight, Awaits, Prepared
<1>7. PointInv'
  <2>1. \A w \in Uploads : Claims(w) => w # u
    BY <1>1 DEF Claims
  <2> QED
    BY <1>0, <1>1, <1>3, <2>1 DEF PointInv, Claims
<1>8. ReplaceInv'
  <2>1. \A w \in Uploads : Replacing(w)' => w # u /\ Replacing(w)
    BY <1>1, <1>3, <1>4 DEF Replacing
  <2>2. \A r \in Sources : Indexed(r)' = Indexed(r) /\ \A n : IsWhole(r, n)' = IsWhole(r, n)
    BY <1>1 DEF Indexed, IsWhole
  <2> QED
    BY <1>0, <1>1, <1>3, <2>1, <2>2 DEF ReplaceInv, ReplaceInvAt
<1>9. \A r \in Sources : TakenOver(r) => TakenOver(r)'
  <2>1. \A w \in Uploads : step[w] # "idle" => UNCHANGED <<source[w], version[w]>>
    BY <1>1, <1>3
  <2>2. \A w \in Uploads : Claims(w) => Claims(w)'
    BY <1>1, <1>3 DEF Claims
  <2> QED
    BY <1>0, <2>1, <2>2, TakenOverStays
<1>10. CrowdInv'
  <2>1. contested' \subseteq crowded' /\ crowded \subseteq crowded'
    BY <1>0, <1>1 DEF CrowdInv
  <2>2. \A w \in Uploads \ {u} : InFlight(w)' => InFlight(w)
    BY <1>3 DEF InFlight
  <2>3. \A w \in Uploads \ {u} : InFlight(w) => source[w] \in Sources
    BY <1>0 DEF ProgressInv, InFlight, Awaits
  <2>4. \A w \in Uploads \ {u} : InFlight(w) /\ source[w] = s => s \in crowded'
    BY <1>1
  <2>5. InFlight(u)' => to = "embed" /\ latest' = [latest EXCEPT ![s] = u]
    BY <1>1, <1>2, <1>4 DEF InFlight, Awaits
  <2>6. \A w \in Uploads \ {u} : InFlight(w) /\ source[w] # s => latest'[source[w]] = latest[source[w]]
    BY <1>0, <1>2, <2>3 DEF TypeOK
  <2>7. InFlight(u)' => latest'[s] = u
    BY <1>0, <2>5 DEF TypeOK
  <2>8. ASSUME NEW w \in Uploads, InFlight(w)', source'[w] \notin crowded'
        PROVE  latest'[source'[w]] = w
    <3>1. CASE w = u
      BY <1>4, <2>7, <2>8, <3>1
    <3>2. CASE w # u
      BY <1>0, <1>3, <2>1, <2>2, <2>4, <2>6, <2>8, <3>2 DEF CrowdInv
    <3> QED
      BY <3>1, <3>2
  <2>9. ASSUME NEW w \in Uploads, NEW x \in Uploads, InFlight(w)', source'[w] \notin crowded',
               InFlight(x)', source'[x] = source'[w]
        PROVE  w = x
    BY <2>8, <2>9
  <2> QED
    BY <2>1, <2>8, <2>9 DEF CrowdInv
<1>11. LatestInv'
  <2> SUFFICES ASSUME NEW r \in Sources, NEW w \in Uploads, latest'[r] = w
               PROVE  /\ step'[w] # "idle" /\ source'[w] = r
                      /\ disk'[r] = version'[w] \/ step'[w] = "500"
                      /\ r \notin crowded' /\ ~ TakenOver(r)' /\ step'[w] \in {"upserted", "201"} =>
                             Indexed(r)' = ChunksOf(w)'
    BY DEF LatestInv
  <2>1. CASE r = s /\ latest' = [latest EXCEPT ![s] = u]
    <3>1. w = u
      BY <1>0, <2>1 DEF TypeOK
    <3> QED
      BY <1>0, <1>1, <1>2, <1>4, <2>1, <3>1 DEF TypeOK
  <2>2. CASE latest'[r] = latest[r] /\ disk'[r] = disk[r]
    <3>1. w # u
      BY <1>0, <1>1, <2>2 DEF LatestInv
    <3>2. Indexed(r)' = Indexed(r) /\ ChunksOf(w)' = ChunksOf(w)
      BY <1>1, <1>3, <3>1 DEF Indexed, ChunksOf
    <3>3. crowded \subseteq crowded'
      BY <1>1
    <3> QED
      BY <1>0, <1>3, <1>9, <2>2, <3>1, <3>2, <3>3 DEF LatestInv
  <2> QED
    BY <1>0, <1>2, <2>1, <2>2 DEF TypeOK
<1>12. VanishInv'
  <2> SUFFICES ASSUME NEW r \in Sources, NEW w \in Uploads, ~ TakenOver(r)', source'[w] = r,
                      step'[w] \in {"upserted", "201"}, version'[w] > 0, Indexed(r)' = {}
               PROVE  \E x \in Uploads :
                         source'[x] = r /\ step'[x] \in {"deleted", "upsert", "halfway"}
    BY DEF VanishInv
  <2>1. w # u
    BY <1>1, <1>4
  <2>2. ~ TakenOver(r) /\ Indexed(r) = {}
    BY <1>1, <1>9 DEF Indexed
  <2>3. PICK x \in Uploads : source[x] = r /\ step[x] \in {"deleted", "upsert", "halfway"}
    BY <1>0, <1>3, <2>1, <2>2 DEF VanishInv
  <2>4. x # u
    BY <1>1, <2>3
  <2> QED
    BY <1>3, <2>3, <2>4
<1>13. ReadInv'
  BY <1>1, ReadKept
<1> QED
  BY <1>5, <1>6, <1>7, <1>8, <1>10, <1>11, <1>12, <1>13 DEF IInv

\* An upload moves on without touching the points.
LEMMA MoveStep ==
  ASSUME IInv, NEW u \in Uploads, NEW from, NEW to, Move(u, from, to)
  PROVE  IInv'
<1>0. TypeOK /\ ProgressInv /\ PointInv /\ ReplaceInv /\ CrowdInv /\ LatestInv /\ VanishInv
  BY DEF IInv
<1>1. /\ step[u] = from /\ step' = [step EXCEPT ![u] = to]
      /\ from \in Awaits /\ to \in Awaits \cup Ends
      /\ to \in Prepared => collection'
      /\ collection' \in {collection, TRUE}
      /\ from = "upserted" => to \in {"201", "halfway"}
      /\ to \in {"upserted", "201"} => from = "upserted"
      /\ from \in {"deleted", "upsert"} => to \in {"deleted", "upsert", "halfway"}
      /\ to \in {"deleted", "upsert"} => from \in {"deleted", "upsert"}
      /\ UNCHANGED <<source, version, disk, points, crashes, latest, crowded, contested>>
      /\ UNCHANGED <<points, reader>>
  BY DEF Move, watch
<1>2. step'[u] = to /\ \A w \in Uploads \ {u} : step'[w] = step[w]
  BY <1>0, <1>1 DEF TypeOK
<1>3. InFlight(u) /\ from # "idle" /\ to # "idle"
  BY <1>1 DEF InFlight, Awaits, Responses, Ends
<1>4. \A w \in Uploads : InFlight(w)' => InFlight(w)
  BY <1>1, <1>2 DEF InFlight
<1>5. TypeOK'
  BY <1>0, <1>1 DEF TypeOK, reader
<1>6. ProgressInv'
  <2>1. collection => collection'
    BY <1>1
  <2>2. \A w \in Uploads : step'[w] \in Prepared => collection'
    BY <1>0, <1>1, <1>2, <2>1 DEF ProgressInv
  <2>3. \A w \in Uploads : /\ step'[w] = "idle" => step[w] = "idle"
                           /\ step[w] = "idle" => step'[w] = "idle"
    BY <1>1, <1>2, <1>3
  <2> QED
    BY <1>0, <1>1, <1>4, <2>2, <2>3 DEF ProgressInv
<1>7. \A w \in Uploads : Claims(w) => Claims(w)'
  BY <1>1, <1>2 DEF Claims, Awaits
<1>8. PointInv'
  <2>1. collection => collection'
    BY <1>1
  <2> QED
    BY <1>0, <1>1, <1>7, <2>1 DEF PointInv
<1>9. \A w \in Uploads : Replacing(w)' => Replacing(w)
  BY <1>1, <1>2 DEF Replacing
<1>10. \A r \in Sources : Indexed(r)' = Indexed(r) /\ \A n : IsWhole(r, n)' = IsWhole(r, n)
  BY <1>1 DEF Indexed, IsWhole
<1>11. ReplaceInv'
  BY <1>0, <1>1, <1>9, <1>10 DEF ReplaceInv, ReplaceInvAt
<1>12. \A r \in Sources : TakenOver(r) => TakenOver(r)'
  BY <1>0, <1>1, <1>7, TakenOverStays
<1>13. CrowdInv'
  BY <1>0, <1>1, <1>4 DEF CrowdInv
<1>14. LatestInv'
  <2> SUFFICES ASSUME NEW r \in Sources, NEW w \in Uploads, latest'[r] = w
               PROVE  /\ step'[w] # "idle" /\ source'[w] = r
                      /\ disk'[r] = version'[w] \/ step'[w] = "500"
                      /\ r \notin crowded' /\ ~ TakenOver(r)' /\ step'[w] \in {"upserted", "201"} =>
                             Indexed(r)' = ChunksOf(w)'
    BY DEF LatestInv
  <2>1. step'[w] # "idle" /\ source'[w] = r
    BY <1>0, <1>1, <1>2, <1>3 DEF LatestInv
  <2>2. disk'[r] = version'[w] \/ step'[w] = "500"
    <3>1. from # "500"
      BY <1>1 DEF Awaits
    <3> QED
      BY <1>0, <1>1, <1>2, <3>1 DEF LatestInv
  <2>3. step'[w] \in {"upserted", "201"} => step[w] \in {"upserted", "201"}
    BY <1>1, <1>2
  <2>4. ChunksOf(w)' = ChunksOf(w)
    BY <1>1 DEF ChunksOf
  <2> QED
    BY <1>0, <1>1, <1>10, <1>12, <2>1, <2>2, <2>3, <2>4 DEF LatestInv
<1>15. VanishInv'
  <2> SUFFICES ASSUME NEW r \in Sources, NEW w \in Uploads, ~ TakenOver(r)', source'[w] = r,
                      step'[w] \in {"upserted", "201"}, version'[w] > 0, Indexed(r)' = {}
               PROVE  \E x \in Uploads :
                         source'[x] = r /\ step'[x] \in {"deleted", "upsert", "halfway"}
    BY DEF VanishInv
  <2>1. step[w] \in {"upserted", "201"} /\ source[w] = r /\ version[w] > 0
    BY <1>1, <1>2
  <2>2. PICK x \in Uploads : source[x] = r /\ step[x] \in {"deleted", "upsert", "halfway"}
    BY <1>0, <1>10, <1>12, <2>1 DEF VanishInv
  <2>3. step'[x] \in {"deleted", "upsert", "halfway"}
    BY <1>1, <1>2, <2>2 DEF Awaits
  <2> QED
    BY <1>1, <2>2, <2>3
<1>16. ReadInv'
  BY <1>1, ReadKept
<1> QED
  BY <1>5, <1>6, <1>8, <1>11, <1>13, <1>14, <1>15, <1>16 DEF IInv

\* The process dies: whoever was in flight is lost, and so is a reader.
LEMMA CrashStep ==
  ASSUME IInv, Crash
  PROVE  IInv'
<1>0. TypeOK /\ ProgressInv /\ PointInv /\ ReplaceInv /\ CrowdInv /\ LatestInv /\ VanishInv
      /\ ReadInv
  BY DEF IInv
<1>1. /\ step' = [u \in Uploads |-> IF InFlight(u) THEN Abandoned(u, "lost") ELSE step[u]]
      /\ UNCHANGED <<source, version, disk, collection, points, latest, crowded, contested>>
      /\ crashes' = crashes + 1
      /\ \/ reading' = "lost" /\ Forgets
         \/ UNCHANGED reader
  BY DEF Crash, index, watch
<1>2. \A w \in Uploads : ~ InFlight(w)'
  BY <1>1 DEF InFlight, Awaits, Abandoned
<1>3. \A w \in Uploads :
        \/ step'[w] = step[w]
        \/ InFlight(w) /\ step'[w] = Abandoned(w, "lost")
  BY <1>1
<1>4. TypeOK'
  <2>1. step' \in [Uploads -> {"idle"} \cup Awaits \cup Ends]
    BY <1>0, <1>1 DEF TypeOK, Abandoned, Ends
  <2>2. /\ reading' \in {"idle", "info", "scroll", "200", "503", "lost"}
        /\ payloads' \in Seq(Points) /\ unread' \subseteq Ids /\ touched' \subseteq Documents
    <3>1. <<>> \in Seq(Points) /\ {} \subseteq Ids
      OBVIOUS
    <3> QED
      BY <1>0, <1>1, <3>1 DEF TypeOK, Forgets, reader
  <2> QED
    BY <1>0, <1>1, <2>1, <2>2 DEF TypeOK
<1>5. ProgressInv'
  <2>1. \A w \in Uploads : step[w] = "idle" <=> step'[w] = "idle"
    BY <1>3 DEF InFlight, Awaits, Abandoned
  <2>2. \A w \in Uploads : step'[w] \notin Awaits
    BY <1>2 DEF InFlight
  <2> QED
    BY <1>0, <1>1, <2>1, <2>2 DEF ProgressInv, InFlight, Prepared
<1>6. \A w \in Uploads : Claims(w) => Claims(w)'
  BY <1>3 DEF Claims, InFlight, Awaits, Abandoned
<1>7. PointInv'
  BY <1>0, <1>1, <1>6 DEF PointInv
<1>8. \A r \in Sources : Indexed(r)' = Indexed(r) /\ \A n : IsWhole(r, n)' = IsWhole(r, n)
  BY <1>1 DEF Indexed, IsWhole
<1>9. ReplaceInv'
  <2>1. \A w \in Uploads : ~ Replacing(w)'
    BY <1>2 DEF Replacing, InFlight, Awaits
  <2> QED
    BY <1>0, <1>1, <1>8, <2>1 DEF ReplaceInv, ReplaceInvAt
<1>10. \A r \in Sources : TakenOver(r) => TakenOver(r)'
  BY <1>0, <1>1, <1>6, TakenOverStays
<1>11. CrowdInv'
  BY <1>0, <1>1, <1>2 DEF CrowdInv
<1>12. LatestInv'
  <2>1. \A w \in Uploads : step'[w] \in {"upserted", "201"} => step[w] = step'[w]
    BY <1>3 DEF Abandoned
  <2>2. \A w \in Uploads : /\ step[w] # "idle" => step'[w] # "idle"
                           /\ step[w] = "500" => step'[w] = "500"
    BY <1>3 DEF InFlight, Awaits, Abandoned
  <2>3. \A w \in Uploads : ChunksOf(w)' = ChunksOf(w)
    BY <1>1 DEF ChunksOf
  <2> QED
    BY <1>0, <1>1, <1>8, <1>10, <2>1, <2>2, <2>3 DEF LatestInv
<1>13. VanishInv'
  <2>1. \A w \in Uploads : step'[w] \in {"upserted", "201"} => step[w] = step'[w]
    BY <1>3 DEF Abandoned
  <2>2. \A w \in Uploads : step[w] \in {"deleted", "upsert", "halfway"} =>
                              step'[w] \in {"deleted", "upsert", "halfway"}
    BY <1>3 DEF InFlight, Awaits, Abandoned
  <2> QED
    BY <1>0, <1>1, <1>8, <1>10, <2>1, <2>2 DEF VanishInv
<1>14. ReadInv'
  <2>1. CASE reading' = "lost"
    BY <2>1 DEF ReadInv
  <2>2. CASE UNCHANGED reader
    BY <1>1, <2>2, ReadKept
  <2> QED
    BY <1>1, <2>1, <2>2
<1> QED
  BY <1>4, <1>5, <1>7, <1>9, <1>11, <1>12, <1>13, <1>14 DEF IInv

\* Points are of versions that were uploaded.
LEMMA PointsAreContents ==
  ASSUME ProgressInv, PointInv
  PROVE  \A p \in points : p.version \in Contents[p.source]
<1>1. \A u \in Uploads : Claims(u) => version[u] \in Contents[source[u]]
  BY DEF ProgressInv, Claims
<1> QED
  BY <1>1 DEF PointInv

\* What a change of the points leaves to a reader: the documents it had to do with count as
\* touched, and of the others nothing has changed.
LEMMA ReadBecomes ==
  ASSUME IInv, NEW new \in SUBSET Points, PointsBecome(new), UNCHANGED scroll,
         \A p \in new : p.version \in Contents[p.source] /\ p.chunk <= p.version
  PROVE  ReadInv' /\ touched' \subseteq Documents
<1>0. TypeOK /\ ReadInv /\ points' = new
  BY DEF IInv, PointsBecome
<1>1. touched' \subseteq Documents
  BY <1>0 DEF PointsBecome, TypeOK, Documents, Points
<1>2. UNCHANGED <<reading, payloads, unread>>
  BY DEF scroll
<1>3. CASE reading \in {"idle", "info"}
  <2>1. payloads = <<>> /\ unread = Ids
    BY <1>0, <1>3 DEF ReadInv
  <2>2. \A p \in new : Id(p) \in Ids
    BY DEF Ids
  <2>3. \A d : At(d)' = {} /\ Seen(d)' = {}
    BY <1>0, <1>2, <1>3, <2>1, <2>2 DEF At, Seen, PointsOf
  <2> QED
    BY <1>1, <1>2, <1>3, <2>1, <2>3 DEF ReadInv
<1>4. CASE reading \in {"scroll", "200"}
  <2>1. touched' = touched \cup {DocumentOf[p.source] : p \in (points \ new) \cup (new \ points)}
    BY <1>4 DEF PointsBecome
  <2>2. \A d : d \notin touched' => PointsOf(d)' = PointsOf(d)
    <3> SUFFICES ASSUME NEW d, d \notin touched', NEW p, DocumentOf[p.source] = d
                 PROVE  p \in new <=> p \in points
      BY <1>0 DEF PointsOf
    <3> QED
      BY <2>1
  <2>3. \A d : d \notin touched' => At(d)' = At(d) /\ Seen(d)' = Seen(d)
    <3>1. \A d : At(d)' = At(d)
      BY <1>2 DEF At
    <3>2. ASSUME NEW d, PointsOf(d)' = PointsOf(d) PROVE Seen(d)' = Seen(d)
      BY <1>2, <3>2 DEF Seen
    <3> QED
      BY <2>2, <3>1, <3>2
  <2>4. touched \subseteq touched'
    BY <2>1
  <2> QED
    BY <1>0, <1>1, <1>2, <2>3, <2>4 DEF ReadInv
<1>5. CASE reading \in {"503", "lost"}
  BY <1>1, <1>2, <1>5 DEF ReadInv
<1> QED
  BY <1>0, <1>3, <1>4, <1>5 DEF TypeOK

\* The delete takes every point of the file and no other.
LEMMA DeleteStep ==
  ASSUME IInv, NEW u \in Uploads, OldIsDeleted(u)
  PROVE  IInv'
<1>0. TypeOK /\ ProgressInv /\ PointInv /\ ReplaceInv /\ CrowdInv /\ LatestInv /\ VanishInv
  BY DEF IInv
<1> DEFINE s == source[u]
<1>1. /\ step[u] = "delete" /\ step' = [step EXCEPT ![u] = "deleted"]
      /\ points' = points \ Indexed(s)
      /\ contested' = IF \E w \in Uploads : Replacing(w) /\ source[w] = s
                      THEN contested \cup {s} ELSE contested
      /\ UNCHANGED <<source, version, disk, collection, crashes, latest, crowded, scroll>>
  BY DEF OldIsDeleted, Calls, Goto, PointsBecome, Replacing
<1>2. step'[u] = "deleted" /\ \A w \in Uploads \ {u} : step'[w] = step[w]
  BY <1>0, <1>1 DEF TypeOK
<1>3. InFlight(u) /\ s \in Sources /\ collection
  BY <1>0, <1>1 DEF InFlight, Awaits, Prepared, ProgressInv
<1>4. \A w \in Uploads : InFlight(w)' => InFlight(w)
  BY <1>2, <1>3 DEF InFlight
<1>5. \A r \in Sources : /\ Indexed(r)' = IF r = s THEN {} ELSE Indexed(r)
                         /\ r # s => \A n : IsWhole(r, n)' = IsWhole(r, n)
  BY <1>1 DEF Indexed, IsWhole
<1>6. ReadInv' /\ touched' \subseteq Documents
  <2>1. /\ points \ Indexed(s) \in SUBSET Points
        /\ \A p \in points : p.version \in Contents[p.source] /\ p.chunk <= p.version
    BY <1>0, PointsAreContents DEF TypeOK, PointInv
  <2> QED
    BY <1>1, <2>1, ReadBecomes DEF OldIsDeleted
<1>7. TypeOK'
  <2>1. contested' \subseteq Sources
    BY <1>0, <1>1, <1>3 DEF TypeOK
  <2> QED
    BY <1>0, <1>1, <1>6, <2>1 DEF TypeOK, scroll, Awaits
<1>8. ProgressInv'
  BY <1>0, <1>1, <1>2, <1>3, <1>4 DEF ProgressInv
<1>9. \A w \in Uploads : Claims(w) <=> Claims(w)'
  BY <1>1, <1>2 DEF Claims
<1>10. PointInv'
  <2>1. IsFiniteSet(points')
    BY <1>0, <1>1, FS_Subset DEF PointInv
  <2> QED
    BY <1>0, <1>1, <1>9, <2>1 DEF PointInv
<1>11. ReplaceInv'
  <2> SUFFICES ASSUME NEW r \in Sources, r \notin contested' PROVE ReplaceInvAt(r)'
    BY DEF ReplaceInv
  <2>1. ReplaceInvAt(r)
    BY <1>0, <1>1 DEF ReplaceInv
  <2>2. CASE r = s
    <3>1. \A w \in Uploads : source[w] = s => ~ Replacing(w)
      BY <1>1, <2>2
    <3>2. \A w \in Uploads : source'[w] = s /\ Replacing(w)' => w = u
      BY <1>1, <1>2, <3>1 DEF Replacing
    <3> QED
      BY <1>5, <2>2, <3>2 DEF ReplaceInvAt
  <2>3. CASE r # s
    <3>1. \A w \in Uploads : source'[w] = r => source[w] = r /\ (Replacing(w)' => Replacing(w))
      BY <1>1, <1>2, <2>3 DEF Replacing
    <3> QED
      BY <1>1, <1>5, <2>1, <2>3, <3>1 DEF ReplaceInvAt
  <2> QED
    BY <2>2, <2>3
<1>12. \A r \in Sources : TakenOver(r) => TakenOver(r)'
  BY <1>0, <1>1, <1>9, TakenOverStays
<1>13. CrowdInv'
  <2>1. contested' \subseteq crowded
    <3>1. ASSUME NEW w \in Uploads, Replacing(w), source[w] = s PROVE s \in crowded
      <4>1. InFlight(w) /\ w # u
        BY <1>1, <3>1 DEF Replacing, InFlight, Awaits
      <4> QED
        BY <1>0, <1>3, <3>1, <4>1 DEF CrowdInv
    <3> QED
      BY <1>0, <1>1, <3>1 DEF CrowdInv
  <2> QED
    BY <1>0, <1>1, <1>4, <2>1 DEF CrowdInv
<1>14. LatestInv'
  <2> SUFFICES ASSUME NEW r \in Sources, NEW w \in Uploads, latest'[r] = w
               PROVE  /\ step'[w] # "idle" /\ source'[w] = r
                      /\ disk'[r] = version'[w] \/ step'[w] = "500"
                      /\ r \notin crowded' /\ ~ TakenOver(r)' /\ step'[w] \in {"upserted", "201"} =>
                             Indexed(r)' = ChunksOf(w)'
    BY DEF LatestInv
  <2>1. step'[w] # "idle" /\ source'[w] = r /\ (disk'[r] = version'[w] \/ step'[w] = "500")
    BY <1>0, <1>1, <1>2 DEF LatestInv
  <2>2. ASSUME r \notin crowded', ~ TakenOver(r)', step'[w] \in {"upserted", "201"}
        PROVE  Indexed(r)' = ChunksOf(w)'
    <3>1. w # u /\ step[w] = step'[w] /\ source[w] = r
      BY <1>1, <1>2, <2>1, <2>2
    <3>2. r # s
      BY <1>0, <1>1, <1>3, <2>2, <3>1 DEF CrowdInv
    <3>3. ChunksOf(w)' = ChunksOf(w)
      BY <1>1 DEF ChunksOf
    <3> QED
      BY <1>0, <1>1, <1>5, <1>12, <2>2, <3>1, <3>2, <3>3 DEF LatestInv
  <2> QED
    BY <2>1, <2>2
<1>15. VanishInv'
  <2> SUFFICES ASSUME NEW r \in Sources, NEW w \in Uploads, ~ TakenOver(r)', source'[w] = r,
                      step'[w] \in {"upserted", "201"}, version'[w] > 0, Indexed(r)' = {}
               PROVE  \E x \in Uploads :
                         source'[x] = r /\ step'[x] \in {"deleted", "upsert", "halfway"}
    BY DEF VanishInv
  <2>1. CASE r = s
    BY <1>1, <1>2, <2>1
  <2>2. CASE r # s
    <3>1. w # u
      BY <1>1, <2>2
    <3>2. PICK x \in Uploads : source[x] = r /\ step[x] \in {"deleted", "upsert", "halfway"}
      BY <1>0, <1>1, <1>2, <1>5, <1>12, <2>2, <3>1 DEF VanishInv
    <3> QED
      BY <1>1, <1>2, <2>2, <3>2
  <2> QED
    BY <2>1, <2>2
<1> QED
  BY <1>6, <1>7, <1>8, <1>10, <1>11, <1>13, <1>14, <1>15 DEF IInv

\* The upsert replaces what has its ids: points of the file itself, of which there are none
\* if no two uploads met, or of a file it takes over, and then all of them.
LEMMA UpsertStep ==
  ASSUME IInv, NEW u \in Uploads, NewIsUpserted(u)
  PROVE  IInv'
<1>0. TypeOK /\ ProgressInv /\ PointInv /\ ReplaceInv /\ CrowdInv /\ LatestInv /\ VanishInv
  BY DEF IInv
<1> DEFINE s == source[u]
           ids == {Id(p) : p \in ChunksOf(u)}
           kept == {p \in points : Id(p) \notin ids}
<1>1. /\ step[u] = "upsert" /\ step' = [step EXCEPT ![u] = "upserted"]
      /\ points' = kept \cup ChunksOf(u)
      /\ UNCHANGED <<source, version, disk, collection, crashes, latest, crowded, contested,
                     scroll>>
  BY DEF NewIsUpserted, Calls, Goto, PointsBecome
<1>2. step'[u] = "upserted" /\ \A w \in Uploads \ {u} : step'[w] = step[w]
  BY <1>0, <1>1 DEF TypeOK
<1>3. InFlight(u) /\ s \in Sources /\ collection /\ version[u] > 0 /\ version[u] \in Versions
  BY <1>0, <1>1 DEF InFlight, Awaits, Prepared, ProgressInv, TypeOK
<1>4. \A w \in Uploads : InFlight(w)' => InFlight(w)
  BY <1>2, <1>3 DEF InFlight
<1>5. version[u] \in Nat /\ version[u] <= MaxChunks
  BY <1>3, IngestionConstantsOK DEF Versions
<1>6. /\ ChunksOf(u) \in SUBSET Points
      /\ \A p \in ChunksOf(u) : p.source = s /\ p.version = version[u] /\ p.chunk <= p.version
  BY <1>3, <1>5, IngestionConstantsOK DEF ChunksOf, Points
<1>7. kept \in SUBSET Points /\ \A p \in kept : p \in points /\ p.chunk <= p.version
  BY <1>0 DEF TypeOK, PointInv
<1>8. ReadInv' /\ touched' \subseteq Documents
  <2>1. \A p \in kept : p.version \in Contents[p.source]
    BY <1>0, <1>7, PointsAreContents
  <2>2. version[u] \in Contents[s]
    BY <1>0, <1>1 DEF ProgressInv
  <2> QED
    BY <1>1, <1>6, <1>7, <2>1, <2>2, ReadBecomes DEF NewIsUpserted
<1>9. TypeOK'
  BY <1>0, <1>1, <1>6, <1>7, <1>8 DEF TypeOK, scroll, Awaits
<1>10. ProgressInv'
  BY <1>0, <1>1, <1>2, <1>3, <1>4 DEF ProgressInv
<1>11. Claims(u)' /\ \A w \in Uploads : Claims(w) => Claims(w)'
  BY <1>1, <1>2 DEF Claims
<1>12. PointInv'
  <2>1. IsFiniteSet(points')
    <3>1. IsFiniteSet(kept)
      BY <1>0, FS_Subset DEF PointInv
    <3>2. IsFiniteSet(ChunksOf(u))
      BY <1>0, ChunksFinite
    <3> HIDE DEF kept
    <3> QED
      BY <1>1, <3>1, <3>2, FS_Union
  <2>2. ASSUME NEW p \in points'
        PROVE  /\ p.chunk <= p.version
               /\ \E w \in Uploads :
                     source'[w] = p.source /\ version'[w] = p.version /\ Claims(w)'
    <3>1. CASE p \in ChunksOf(u)
      BY <1>1, <1>6, <1>11, <3>1
    <3>2. CASE p \in kept
      BY <1>0, <1>1, <1>7, <1>11, <3>2 DEF PointInv
    <3> QED
      BY <1>1, <2>2, <3>1, <3>2
  <2> QED
    BY <1>1, <1>3, <2>1, <2>2 DEF PointInv
\* What becomes of the points of another file.
<1>13. ASSUME NEW r \in Sources, r # s
       PROVE  /\ Indexed(r)' \subseteq Indexed(r)
              /\ \A p \in Indexed(r) \ Indexed(r)' :
                    DocumentOf[r] = DocumentOf[s] /\ p.version = version[u]
              /\ \A p \in Indexed(r)' : ~ (DocumentOf[r] = DocumentOf[s] /\ p.version = version[u])
  <2>1. \A p \in Indexed(r)' : p \in kept
    BY <1>1, <1>6, <1>13 DEF Indexed
  <2>2. \A p \in Indexed(r) \ Indexed(r)' : Id(p) \in ids
    BY <1>1 DEF Indexed
  <2>3. \A p \in Indexed(r) : p \in Points /\ p.source = r /\ p.chunk <= p.version
    BY <1>0 DEF Indexed, TypeOK, PointInv
  <2>4. ASSUME NEW p \in Indexed(r)', DocumentOf[r] = DocumentOf[s], p.version = version[u]
        PROVE  FALSE
    <3>1. p \in kept /\ p \in Points /\ p.source = r /\ p.chunk \in 1 .. version[u]
      BY <1>5, <1>7, <2>1, <2>4, IngestionConstantsOK DEF Indexed, Points
    <3> QED
      BY <2>4, <3>1, ChunkIsIn
  <2> QED
    BY <2>1, <2>2, <2>3, <2>4, IdOfChunk DEF Indexed
<1>14. \A r \in Sources : TakenOver(r) => TakenOver(r)'
  BY <1>0, <1>1, <1>11, TakenOverStays
<1>15. ASSUME NEW r \in Sources, r # s, Indexed(r)' # Indexed(r)
       PROVE  TakenOver(r)'
  <2>1. PICK p \in Indexed(r) : DocumentOf[r] = DocumentOf[s] /\ p.version = version[u]
    BY <1>13, <1>15
  <2>2. PICK w \in Uploads : source[w] = r /\ version[w] = p.version
    BY <1>0, <2>1 DEF PointInv, Indexed
  <2> QED
    BY <1>1, <1>2, <1>3, <1>15, <2>1, <2>2 DEF TakenOver
\* If no two uploads of the file met, it had no points left.
<1>16. s \notin contested => Indexed(s)' = ChunksOf(u)
  <2> SUFFICES ASSUME s \notin contested PROVE Indexed(s)' = ChunksOf(u)
    OBVIOUS
  <2>1. Indexed(s) = {}
    BY <1>0, <1>1, <1>3 DEF ReplaceInv, ReplaceInvAt, Replacing
  <2>2. \A p \in kept : p.source # s
    BY <1>7, <2>1 DEF Indexed
  <2> HIDE DEF kept
  <2> QED
    BY <1>1, <1>6, <2>2 DEF Indexed
<1>17. ReplaceInv'
  <2> SUFFICES ASSUME NEW r \in Sources, r \notin contested' PROVE ReplaceInvAt(r)'
    BY DEF ReplaceInv
  <2>1. ReplaceInvAt(r)
    BY <1>0, <1>1 DEF ReplaceInv
  <2>2. CASE r = s
    <3>1. \A w \in Uploads : source[w] = s => ~ Replacing(w)'
      BY <1>1, <1>2, <2>1, <2>2 DEF ReplaceInvAt, Replacing
    <3>2. Indexed(s)' = ChunksOf(u)
      BY <1>1, <1>16, <2>2
    <3>3. IsWhole(s, version[u])'
      BY <1>1 DEF IsWhole, ChunksOf
    <3> QED
      BY <1>1, <1>6, <2>2, <3>1, <3>2, <3>3 DEF ReplaceInvAt
  <2>3. CASE r # s
    <3>1. \A w \in Uploads : source'[w] = r => source[w] = r /\ (Replacing(w)' => Replacing(w))
      BY <1>1, <1>2, <2>3 DEF Replacing
    <3>2. ASSUME NEW p \in Indexed(r)' PROVE IsWhole(r, p.version)'
      <4>1. p \in Indexed(r) /\ ~ (DocumentOf[r] = DocumentOf[s] /\ p.version = version[u])
        BY <1>13, <2>3, <3>2
      <4>2. IsWhole(r, p.version)
        BY <2>1, <4>1 DEF ReplaceInvAt
      <4>3. ASSUME NEW c \in 1 .. p.version
            PROVE  [source |-> r, version |-> p.version, chunk |-> c] \in points'
        <5> DEFINE q == [source |-> r, version |-> p.version, chunk |-> c]
        <5>1. q \in Indexed(r) /\ q.version = p.version
          BY <4>2, <4>3 DEF IsWhole, Indexed
        <5> HIDE DEF q
        <5>2. q \in Indexed(r)'
          BY <1>13, <2>3, <4>1, <5>1
        <5> QED
          BY <5>2 DEF Indexed, q
      <4> QED
        BY <4>3 DEF IsWhole
    <3>3. Indexed(r)' \subseteq Indexed(r)
      BY <1>13, <2>3
    <3> QED
      BY <1>1, <2>1, <3>1, <3>2, <3>3 DEF ReplaceInvAt
  <2> QED
    BY <2>2, <2>3
<1>18. CrowdInv'
  BY <1>0, <1>1, <1>4 DEF CrowdInv
<1>19. LatestInv'
  <2> SUFFICES ASSUME NEW r \in Sources, NEW w \in Uploads, latest'[r] = w
               PROVE  /\ step'[w] # "idle" /\ source'[w] = r
                      /\ disk'[r] = version'[w] \/ step'[w] = "500"
                      /\ r \notin crowded' /\ ~ TakenOver(r)' /\ step'[w] \in {"upserted", "201"} =>
                             Indexed(r)' = ChunksOf(w)'
    BY DEF LatestInv
  <2>1. step'[w] # "idle" /\ source'[w] = r /\ (disk'[r] = version'[w] \/ step'[w] = "500")
    BY <1>0, <1>1, <1>2 DEF LatestInv
  <2>2. ASSUME r \notin crowded', ~ TakenOver(r)', step'[w] \in {"upserted", "201"}
        PROVE  Indexed(r)' = ChunksOf(w)'
    <3>1. ChunksOf(w)' = ChunksOf(w)
      BY <1>1 DEF ChunksOf
    <3>2. CASE r = s
      <4>1. w = u /\ s \notin contested
        BY <1>0, <1>1, <1>3, <2>2, <3>2 DEF CrowdInv
      <4>2. Indexed(r)' = Indexed(s)'
        BY <1>1, <3>2 DEF Indexed
      <4> QED
        BY <1>16, <3>1, <4>1, <4>2
    <3>3. CASE r # s
      <4>1. w # u
        BY <1>1, <2>1, <3>3
      <4>2. Indexed(r)' = Indexed(r)
        BY <1>15, <2>2, <3>3
      <4> QED
        BY <1>0, <1>1, <1>2, <1>14, <2>2, <3>1, <4>1, <4>2 DEF LatestInv
    <3> QED
      BY <3>2, <3>3
  <2> QED
    BY <2>1, <2>2
<1>20. VanishInv'
  <2> SUFFICES ASSUME NEW r \in Sources, NEW w \in Uploads, ~ TakenOver(r)', source'[w] = r,
                      step'[w] \in {"upserted", "201"}, version'[w] > 0, Indexed(r)' = {}
               PROVE  \E x \in Uploads :
                         source'[x] = r /\ step'[x] \in {"deleted", "upsert", "halfway"}
    BY DEF VanishInv
  <2>1. r # s
    <3> DEFINE first == [source |-> s, version |-> version[u], chunk |-> 1]
    <3>1. first \in ChunksOf(u) /\ first.source = s
      BY <1>3, <1>5 DEF ChunksOf
    <3> HIDE DEF first
    <3>2. r = s => first \in Indexed(r)'
      BY <1>1, <3>1 DEF Indexed
    <3> QED
      BY <3>2
  <2>2. w # u /\ Indexed(r) = {}
    BY <1>1, <1>15, <2>1
  <2>3. PICK x \in Uploads : source[x] = r /\ step[x] \in {"deleted", "upsert", "halfway"}
    BY <1>0, <1>1, <1>2, <1>14, <2>2 DEF VanishInv
  <2> QED
    BY <1>1, <1>2, <2>1, <2>3
<1> QED
  BY <1>8, <1>9, <1>10, <1>12, <1>17, <1>18, <1>19, <1>20 DEF IInv

-----------------------------------------------------------------------------
\* What does not concern the readers does not change when they move.
LEMMA IndexKept ==
  ASSUME IInv, UNCHANGED <<upload, disk, index, crashes, watch>>
  PROVE  /\ ProgressInv' /\ PointInv' /\ ReplaceInv' /\ CrowdInv' /\ LatestInv' /\ VanishInv'
         /\ points \subseteq Points /\ IsFiniteSet(points)
<1>0. TypeOK /\ ProgressInv /\ PointInv /\ ReplaceInv /\ CrowdInv /\ LatestInv /\ VanishInv
  BY DEF IInv
<1>1. UNCHANGED <<step, source, version, disk, collection, points, crashes, latest, crowded,
                  contested>>
  BY DEF upload, index, watch
<1>2. ProgressInv' /\ PointInv'
  BY <1>0, <1>1 DEF ProgressInv, InFlight, PointInv, Claims
<1>3. ReplaceInv'
  BY <1>0, <1>1 DEF ReplaceInv, ReplaceInvAt, Indexed, IsWhole, Replacing
<1>4. CrowdInv'
  BY <1>0, <1>1 DEF CrowdInv, InFlight
<1>5. \A s \in Sources : (TakenOver(s)' <=> TakenOver(s)) /\ Indexed(s)' = Indexed(s)
  BY <1>1 DEF TakenOver, Indexed
<1>6. \A u \in Uploads : ChunksOf(u)' = ChunksOf(u)
  BY <1>1 DEF ChunksOf
<1>7. LatestInv' /\ VanishInv'
  BY <1>0, <1>1, <1>5, <1>6 DEF LatestInv, VanishInv
<1> QED
  BY <1>0, <1>2, <1>3, <1>4, <1>7 DEF TypeOK, PointInv

\* A reader that begins has read nothing yet, one that is refused or fails is not told of.
LEMMA ReaderMoves ==
  ASSUME IInv, ListingBegins \/ StatusBegins \/ CollectionIsRead \/ ReadFails
  PROVE  IInv'
<1>1. /\ UNCHANGED <<upload, disk, index, crashes, watch>>
      /\ \/ /\ reading \in {"idle", "info"} /\ reading' \in {"info", "scroll"}
            /\ UNCHANGED <<payloads, unread, touched>>
         \/ reading' = "503" /\ Forgets
  BY DEF ListingBegins, StatusBegins, CollectionIsRead, ReadFails, Reads
<1>2. TypeOK'
  <2>1. <<>> \in Seq(Points) /\ {} \subseteq Ids
    OBVIOUS
  <2>2. payloads' \in Seq(Points) /\ unread' \subseteq Ids /\ touched' \subseteq Documents
    BY <1>1, <2>1 DEF IInv, TypeOK, Forgets
  <2> QED
    BY <1>1, <2>2 DEF IInv, TypeOK, upload, index, watch
<1>3. ReadInv'
  <2>1. CASE reading' = "503"
    BY <2>1 DEF ReadInv
  <2>2. CASE reading' # "503"
    <3>1. \A d : At(d)' = At(d) /\ PointsOf(d)' = PointsOf(d) /\ Seen(d)' = Seen(d)
      BY <1>1, <2>2 DEF At, PointsOf, Seen, index
    <3> QED
      BY <1>1, <2>2, <3>1 DEF IInv, ReadInv
  <2> QED
    BY <2>1, <2>2
<1> QED
  BY <1>1, <1>2, <1>3, IndexKept DEF IInv

\* What a page adds: behind the payloads read so far, each of its points once.
LEMMA ReadAdds ==
  ASSUME IInv, NEW page \in SUBSET Remaining, NEW next, Read(page, next)
  PROVE  /\ payloads' \in Seq(Points)
         /\ \A d \in Documents \ touched :
               /\ \A i, j \in At(d)' : payloads'[i] = payloads'[j] => i = j
               /\ \A i \in At(d)' :
                     payloads'[i] \in Seen(d) \cup {p \in page : DocumentOf[p.source] = d}
               /\ \A p \in Seen(d) \cup {r \in page : DocumentOf[r.source] = d} :
                     \E i \in At(d)' : payloads'[i] = p
<1>1. /\ reading = "scroll" /\ UNCHANGED <<upload, disk, index, crashes, watch>>
      /\ payloads \in Seq(Points)
  BY DEF Read, Reads, IInv, TypeOK
<1>2. IsFiniteSet(page) /\ page \subseteq Points
  BY <1>1, IndexKept, FS_Subset DEF Remaining
<1>3. PICK q \in Arrangements(page) : payloads' = payloads \o q
  BY DEF Read
<1>4. /\ q \in Seq(page)
      /\ \A i, j \in DOMAIN q : q[i] = q[j] => i = j
      /\ \A p \in page : \E i \in DOMAIN q : q[i] = p
  BY <1>2, ArrangementCovers
<1> DEFINE n == Len(payloads)
           m == Len(q)
<1>5. /\ n \in Nat /\ m \in Nat /\ DOMAIN payloads = 1 .. n /\ DOMAIN q = 1 .. m
      /\ payloads' \in Seq(Points) /\ DOMAIN payloads' = 1 .. n + m
      /\ \A i \in 1 .. n : payloads'[i] = payloads[i]
      /\ \A i \in 1 .. m : payloads'[n + i] = q[i]
  BY <1>1, <1>2, <1>3, <1>4
<1>6. \A i \in 1 .. n + m : i \in 1 .. n \/ \E j \in 1 .. m : i = n + j
  <2> TAKE i \in 1 .. n + m
  <2>1. i \notin 1 .. n => i - n \in 1 .. m /\ i = n + (i - n)
    BY <1>5
  <2> QED
    BY <2>1
<1> HIDE DEF n, m
<1>7. ASSUME NEW d \in Documents \ touched
      PROVE  /\ \A i, j \in At(d)' : payloads'[i] = payloads'[j] => i = j
             /\ \A i \in At(d)' :
                   payloads'[i] \in Seen(d) \cup {p \in page : DocumentOf[p.source] = d}
             /\ \A p \in Seen(d) \cup {r \in page : DocumentOf[r.source] = d} :
                   \E i \in At(d)' : payloads'[i] = p
  <2>1. /\ \A i, j \in At(d) : payloads[i] = payloads[j] => i = j
        /\ \A i \in At(d) : payloads[i] \in Seen(d)
        /\ \A p \in Seen(d) : \E i \in At(d) : payloads[i] = p
    BY <1>1, <1>7 DEF IInv, ReadInv
  <2>2. \A p \in page : p \notin Seen(d)
    BY <1>1 DEF Seen, Remaining
  <2>3. At(d)' = {i \in 1 .. n + m : DocumentOf[payloads'[i].source] = d}
    BY <1>5 DEF At
  <2>4. At(d) = {i \in 1 .. n : DocumentOf[payloads[i].source] = d}
    BY <1>5 DEF At
  <2>5. \A i \in 1 .. n : i \in At(d)' <=> i \in At(d)
    BY <1>5, <2>3, <2>4
  <2>6. \A j \in 1 .. m : /\ n + j \in At(d)' <=> DocumentOf[q[j].source] = d
                          /\ payloads'[n + j] \in page
    BY <1>4, <1>5, <2>3
  <2>7. ASSUME NEW i \in At(d)', NEW j \in At(d)', payloads'[i] = payloads'[j]
        PROVE  i = j
    <3>1. i \in 1 .. n + m /\ j \in 1 .. n + m
      BY <2>3
    <3>2. CASE i \in 1 .. n /\ j \in 1 .. n
      BY <1>5, <2>1, <2>5, <2>7, <3>2
    <3>3. \A k \in At(d)' : IF k \in 1 .. n THEN payloads'[k] \in Seen(d)
                                            ELSE payloads'[k] \in page
      <4> TAKE k \in At(d)'
      <4>1. k \in 1 .. n => payloads'[k] \in Seen(d)
        BY <1>5, <2>1, <2>5
      <4>2. k \notin 1 .. n => payloads'[k] \in page
        BY <1>6, <2>3, <2>6
      <4> QED
        BY <4>1, <4>2
    <3>4. CASE (i \in 1 .. n) # (j \in 1 .. n)
      BY <2>2, <2>7, <3>3, <3>4
    <3>5. CASE i \notin 1 .. n /\ j \notin 1 .. n
      <4>1. PICK a \in 1 .. m, b \in 1 .. m : i = n + a /\ j = n + b
        BY <1>6, <3>1, <3>5
      <4>2. q[a] = q[b]
        BY <1>5, <2>7, <4>1
      <4> QED
        BY <1>4, <1>5, <4>1, <4>2
    <3> QED
      BY <3>2, <3>3, <3>4, <3>5
  <2>8. ASSUME NEW i \in At(d)'
        PROVE  payloads'[i] \in Seen(d) \cup {p \in page : DocumentOf[p.source] = d}
    <3>1. i \in 1 .. n + m /\ DocumentOf[payloads'[i].source] = d
      BY <2>3
    <3>2. CASE i \in 1 .. n
      BY <1>5, <2>1, <2>5, <3>2
    <3>3. CASE i \notin 1 .. n
      BY <1>6, <2>6, <3>1, <3>3
    <3> QED
      BY <3>2, <3>3
  <2>9. ASSUME NEW p \in Seen(d) \cup {r \in page : DocumentOf[r.source] = d}
        PROVE  \E i \in At(d)' : payloads'[i] = p
    <3>1. CASE p \in Seen(d)
      <4>1. PICK i \in At(d) : payloads[i] = p
        BY <2>1, <3>1
      <4>2. i \in 1 .. n
        BY <2>4
      <4> QED
        BY <1>5, <2>5, <4>1, <4>2
    <3>2. CASE p \in page /\ DocumentOf[p.source] = d
      <4>1. PICK j \in 1 .. m : q[j] = p
        BY <1>4, <1>5, <3>2
      <4> QED
        BY <1>5, <2>6, <3>2, <4>1
    <3> QED
      BY <2>9, <3>1, <3>2
  <2> QED
    BY <2>7, <2>8, <2>9
<1> QED
  BY <1>5, <1>7

\* A page, the last one or not, leaves the reader with all it has passed.
LEMMA PageStep ==
  ASSUME IInv, PageIsRead \/ LastPageIsRead
  PROVE  IInv'
<1>1. PICK page \in SUBSET Remaining, passed \in SUBSET unread, next \in {"scroll", "200"} :
        /\ Read(page, next)
        /\ unread' = unread \ passed
        /\ next = "scroll" => page = {p \in Remaining : Id(p) \in passed}
        /\ next = "200" => page = Remaining
  <2>1. CASE PageIsRead
    <3>1. PICK passed \in SUBSET unread :
            LET page == {p \in Remaining : Id(p) \in passed}
            IN  Read(page, "scroll") /\ unread' = unread \ passed
      BY <2>1 DEF PageIsRead
    <3> DEFINE page == {p \in Remaining : Id(p) \in passed}
    <3>2. page \in SUBSET Remaining /\ Read(page, "scroll") /\ unread' = unread \ passed
      BY <3>1
    <3> QED
      BY <3>2
  <2>2. CASE LastPageIsRead
    <3>1. Read(Remaining, "200") /\ unread' = unread \ unread
      BY <2>2 DEF LastPageIsRead
    <3> QED
      BY <3>1
  <2> QED
    BY <2>1, <2>2
<1>2. /\ UNCHANGED <<upload, disk, index, crashes, watch>> /\ UNCHANGED touched
      /\ reading = "scroll" /\ reading' = next
  BY <1>1 DEF Read, Reads
<1>3. /\ payloads' \in Seq(Points)
      /\ \A d \in Documents \ touched :
            /\ \A i, j \in At(d)' : payloads'[i] = payloads'[j] => i = j
            /\ \A i \in At(d)' :
                  payloads'[i] \in Seen(d) \cup {p \in page : DocumentOf[p.source] = d}
            /\ \A p \in Seen(d) \cup {r \in page : DocumentOf[r.source] = d} :
                  \E i \in At(d)' : payloads'[i] = p
  BY <1>1, ReadAdds
<1>4. TypeOK'
  BY <1>1, <1>2, <1>3 DEF IInv, TypeOK, upload, index, watch
<1>5. \A d : Seen(d)' = Seen(d) \cup {p \in page : DocumentOf[p.source] = d}
  <2>1. \A d : PointsOf(d)' = PointsOf(d)
    BY <1>2 DEF PointsOf, index
  <2>2. CASE next = "scroll"
    BY <1>1, <1>2, <2>1, <2>2 DEF Seen, Remaining, PointsOf
  <2>3. CASE next = "200"
    BY <1>1, <1>2, <2>1, <2>3 DEF Seen, Remaining, PointsOf
  <2> QED
    BY <2>2, <2>3
<1>6. ReadInv'
  BY <1>2, <1>3, <1>5 DEF ReadInv
<1> QED
  BY <1>2, <1>4, <1>6, IndexKept DEF IInv

\* IInv is inductive.
LEMMA IInvStep == IInv /\ [Next]_vars => IInv'
<1> SUFFICES ASSUME IInv, [Next]_vars PROVE IInv'
  OBVIOUS
<1>1. ASSUME NEW u \in Uploads, NEW s \in Sources, NEW v \in Contents[s],
             Upload(u, s, v) \/ WriteFails(u, s, v)
      PROVE  IInv'
  BY <1>1, StoreStep
<1>2. ASSUME NEW u \in Uploads, Moves(u) PROVE IInv'
  BY <1>2, MoveShape, MoveStep
<1>3. ASSUME NEW u \in Uploads, OldIsDeleted(u) PROVE IInv'
  BY <1>3, DeleteStep
<1>4. ASSUME NEW u \in Uploads, NewIsUpserted(u) PROVE IInv'
  BY <1>4, UpsertStep
<1>5. CASE ListingBegins \/ StatusBegins \/ CollectionIsRead \/ ReadFails
  BY <1>5, ReaderMoves
<1>6. CASE PageIsRead \/ LastPageIsRead
  BY <1>6, PageStep
<1>7. CASE Crash
  BY <1>7, CrashStep
<1>8. CASE UNCHANGED vars
  <2>1. UNCHANGED <<upload, disk, index, crashes, watch, points, reader>>
    BY <1>8 DEF vars, index
  <2>2. TypeOK'
    BY <2>1 DEF IInv, TypeOK, upload, index, watch, reader
  <2> QED
    BY <2>1, <2>2, IndexKept, ReadKept DEF IInv
<1>9. CASE Quiet
  BY <1>8, <1>9 DEF Quiet
<1> QED
  BY <1>1, <1>2, <1>3, <1>4, <1>5, <1>6, <1>7, <1>8, <1>9 DEF Next, Ingest, Moves

\* The inductive invariant of ingestion and of its readers.
THEOREM IngestionInvariant == Spec => []IInv
<1> QED
  BY InitIInv, IInvStep, PTL DEF Spec

-----------------------------------------------------------------------------
\* Search never mixes two versions of a file (ingestion.py:84-111): unless two uploads met
\* between delete and upsert, what is indexed of it is one whole version or nothing.
THEOREM IngestionKeepsVersionsWhole == Spec => []OneWholeVersion
<1>1. IInv => OneWholeVersion
  <2> SUFFICES ASSUME IInv, NEW s \in Sources \ contested, NEW v \in VersionsOf(s)
               PROVE  VersionsOf(s) = {v} /\ IsWhole(s, v)
    BY DEF OneWholeVersion
  <2>1. ReplaceInvAt(s)
    BY DEF IInv, ReplaceInv
  <2>2. PICK p \in Indexed(s) : p.version = v
    BY DEF VersionsOf
  <2> QED
    BY <2>1, <2>2 DEF ReplaceInvAt, VersionsOf
<1> QED
  BY <1>1, IngestionInvariant, PTL

\* As soon as an upload is answered 201 the index holds what is on disk (knowledge.py:382-474),
\* for a file that never had two uploads at a time and was not taken over.
THEOREM IngestionFollowsDisk == Spec => []IndexFollowsDisk
<1>1. IInv => IndexFollowsDisk
  <2> SUFFICES ASSUME IInv, NEW s \in Sources \ crowded, ~ TakenOver(s), NEW u \in Uploads,
                      latest[s] = u, step[u] = "201"
               PROVE  Indexed(s) = [source : {s}, version : {disk[s]}, chunk : 1 .. disk[s]]
    BY DEF IndexFollowsDisk
  <2>1. Indexed(s) = ChunksOf(u) /\ source[u] = s /\ disk[s] = version[u]
    BY DEF IInv, LatestInv
  <2> QED
    BY <2>1 DEF ChunksOf
<1> QED
  BY <1>1, IngestionInvariant, PTL

\* A file that was searchable is missing only in the middle of a replacement or after one
\* that failed or died there (ingestion.py:84-111), however its uploads overlap.
THEOREM IngestionLosesOnlyMidReplacement == Spec => []VanishesOnlyMidReplacement
<1>1. IInv => VanishesOnlyMidReplacement
  BY DEF IInv, VanishInv, VanishesOnlyMidReplacement
<1> QED
  BY <1>1, IngestionInvariant, PTL

\* No point without a collection, and none of a version that was not upserted.
THEOREM IngestionIsGrounded == Spec => []IndexIsGrounded
<1>1. IInv => IndexIsGrounded
  BY DEF IInv, PointInv, Claims, IndexIsGrounded
<1> QED
  BY <1>1, IngestionInvariant, PTL

\* A reader tells of every document that nobody touched while it read (knowledge.py:104-211)
\* whether it is indexed, with all its chunks and a name and a version of its own, however
\* many pages it takes.
THEOREM ReadersAgreeWithIndex == Spec => []ReadersTellTheIndex
<1>1. IInv => ReadersTellTheIndex
  <2> SUFFICES ASSUME IInv, reading = "200", NEW d \in Documents \ touched
               PROVE  LET entries == {e \in Inventory : e.document = d}
                      IN  /\ entries = {} <=> PointsOf(d) = {}
                          /\ \A e \in entries :
                               /\ e.chunk_count = Cardinality(PointsOf(d))
                               /\ \E p \in PointsOf(d) :
                                     e.source = p.source /\ e.version = p.version
    BY DEF ReadersTellTheIndex
  <2>1. /\ \A i, j \in At(d) : payloads[i] = payloads[j] => i = j
        /\ \A i \in At(d) : payloads[i] \in PointsOf(d)
        /\ \A p \in PointsOf(d) : \E i \in At(d) : payloads[i] = p
    BY DEF IInv, ReadInv, Seen
  <2>2. /\ At(d) \in SUBSET Nat /\ IsFiniteSet(At(d))
        /\ payloads \in Seq(Points)
    <3>1. payloads \in Seq(Points) /\ Len(payloads) \in Nat /\ DOMAIN payloads = 1 .. Len(payloads)
      BY DEF IInv, TypeOK
    <3>2. At(d) \in SUBSET (1 .. Len(payloads))
      BY <3>1 DEF At
    <3>3. IsFiniteSet(1 .. Len(payloads))
      BY <3>1, FS_Interval
    <3> QED
      BY <3>1, <3>2, <3>3, FS_Subset
  <2>3. Cardinality(At(d)) = Cardinality(PointsOf(d))
    <3> DEFINE f == [i \in At(d) |-> payloads[i]]
    <3>1. f \in [At(d) -> PointsOf(d)]
      BY <2>1
    <3>2. /\ \A i, j \in At(d) : f[i] = f[j] => i = j
          /\ \A p \in PointsOf(d) : \E i \in At(d) : f[i] = p
      BY <2>1
    <3> HIDE DEF f
    <3>3. f \in Bijection(At(d), PointsOf(d))
      BY <3>1, <3>2, Fun_IsBij
    <3> QED
      BY <2>2, <3>3, FS_Bijection DEF ExistsBijection
  <2> DEFINE Of(c) == {i \in DOMAIN payloads : DocumentOf[payloads[i].source] = c}
             First(c) == CHOOSE i \in Of(c) : \A j \in Of(c) : i <= j
             Entry(c) == [document |-> c, source |-> payloads[First(c)].source,
                          version |-> payloads[First(c)].version,
                          chunk_count |-> Cardinality(Of(c))]
  <2>4. Inventory = {Entry(c) : c \in {e \in Documents : Of(e) # {}}}
    BY DEF Inventory
  <2>5. Of(d) = At(d)
    BY DEF At
  <2>6. At(d) = {} <=> PointsOf(d) = {}
    BY <2>1
  <2>7. {e \in Inventory : e.document = d} = IF At(d) = {} THEN {} ELSE {Entry(d)}
    <3> HIDE DEF Of, First
    <3> QED
      BY <2>4, <2>5
  <2>8. At(d) # {} => First(d) \in At(d)
    <3>1. At(d) # {} => \E i \in At(d) : \A j \in At(d) : i <= j
      BY <2>2, LeastElement
    <3> QED
      BY <2>5, <3>1
  <2>9. At(d) # {} => /\ Entry(d).chunk_count = Cardinality(PointsOf(d))
                      /\ \E p \in PointsOf(d) :
                            Entry(d).source = p.source /\ Entry(d).version = p.version
    <3> HIDE DEF Of, First
    <3> QED
      BY <2>1, <2>3, <2>5, <2>8
  <2> HIDE DEF Entry
  <2> QED
    BY <2>6, <2>7, <2>9
<1> QED
  BY <1>1, IngestionInvariant, PTL

=============================================================================
