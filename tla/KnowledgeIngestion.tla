------------------------- MODULE KnowledgeIngestion -------------------------
(***************************************************************************)
(* POST /knowledge/ingest (api/routes/knowledge.py) and DocumentIngestor   *)
(* (rag/ingestion.py): an upload stores its file, embeds the chunks,       *)
(* creates the Qdrant collection when there is none, deletes the points of *)
(* the file's old version and upserts the new ones.  Every call of the     *)
(* embedding server or of Qdrant is an await at which other uploads run,   *)
(* and nothing serialises uploads of one file.  GET /knowledge/documents   *)
(* and /knowledge/status read the points page by page meanwhile.           *)
(*                                                                         *)
(* Qdrant is external.  A call that changes it is applied as a whole and   *)
(* then answered; a fault or the death of the process may come before or   *)
(* after it is applied.                                                    *)
(***************************************************************************)
EXTENDS Naturals, FiniteSets, Sequences

CONSTANTS
  Uploads,         \* requests in the life of the deployment
  Sources,         \* stored files: the source_path values
  DocumentOf,      \* DocumentOf[s]: the document_id, which ignores the case of the path
  PageSize,        \* points a page of the scroll holds (256 in the code)
  MaxChunks,       \* bound: chunks of the longest document
  Contents,        \* bound: Contents[s], the versions of file s that are uploaded
  Faults,          \* TRUE: writing the file, embedding or Qdrant may fail
  MaxCrashes       \* bound: how often the backend process may die

ASSUME IngestionConstantsOK ==
  /\ MaxChunks \in Nat
  /\ Faults \in BOOLEAN
  /\ MaxCrashes \in Nat
  /\ PageSize \in Nat \ {0}

VARIABLES
  step,            \* step[u]: the await upload u stands at, or its response
  source,          \* source[u]: the file u replaces
  version,         \* version[u]: what u uploads; version v has v chunks
  disk,            \* disk[s]: the version in the storage directory
  collection,      \* the Qdrant collection exists
  points,          \* the points of the collection
  crashes,         \* deaths of the process
  latest,          \* latest[s]: the upload that wrote the stored file
  crowded,         \* files two uploads of which were ever in flight at a time
  contested,       \* files one upload deleted while another had deleted and not upserted
  reading,         \* the await a reader stands at, or its response
  payloads,        \* the payloads its scroll has read
  unread,          \* the ids its scroll has not passed
  touched          \* documents whose points changed since its scroll began

upload == <<step, source, version>>
index  == <<collection, points>>
watch  == <<latest, crowded, contested>>
reader == <<reading, payloads, unread, touched>>
scroll == <<reading, payloads, unread>>
vars   == <<upload, disk, index, crashes, watch, reader>>

-----------------------------------------------------------------------------
(* Data *)

\* Version 0 stands for a file no chunk can be read from.
Versions == 0..MaxChunks

ASSUME ContentsOK == Contents \in [Sources -> SUBSET Versions]

NoFile   == MaxChunks + 1
TornFile == MaxChunks + 2
NoSource == "no_source"
NoUpload == "no_upload"

ASSUME NoNamesOK == NoSource \notin Sources /\ NoUpload \notin Uploads

\* "created", "deleted" and "upserted": applied, the reply is on its way.
Awaits == {"embed", "list_collections", "create_collection", "created",
           "get_collection", "delete", "deleted", "upsert", "upserted"}

Responses == {"201", "422", "500"}

\* How an upload ends: it is answered, "lost" in a crash, or "halfway": its delete was
\* applied, then it failed (500 as well) or was lost.
Ends == Responses \cup {"lost", "halfway"}

InFlight(u) == step[u] \in Awaits

Points == [source : Sources, version : Versions, chunk : 1..MaxChunks]

\* A point is identified by its document, the checksum and the index of the chunk.
Id(p) == <<DocumentOf[p.source], p.version, p.chunk>>

Ids == {Id(p) : p \in {q \in Points : q.version \in Contents[q.source] /\ q.chunk <= q.version}}

Documents == {DocumentOf[s] : s \in Sources}

PointsOf(d) == {p \in points : DocumentOf[p.source] = d}

ChunksOf(u) == [source : {source[u]}, version : {version[u]}, chunk : 1..version[u]]

Indexed(s) == {p \in points : p.source = s}

Init ==
  /\ step = [u \in Uploads |-> "idle"]
  /\ source = [u \in Uploads |-> NoSource]
  /\ version = [u \in Uploads |-> 0]
  /\ disk = [s \in Sources |-> NoFile]
  /\ collection = FALSE
  /\ points = {}
  /\ crashes = 0
  /\ latest = [s \in Sources |-> NoUpload]
  /\ crowded = {}
  /\ contested = {}
  /\ reading = "idle"
  /\ payloads = <<>>
  /\ unread = Ids
  /\ touched = {}

Goto(u, next) == step' = [step EXCEPT ![u] = next]

-----------------------------------------------------------------------------
(* The route, up to its first await: it writes the file, and ingest reads it   *)
(* back and splits it, without giving anyone else a chance to run.             *)

Store(u, s, v) ==
  /\ step[u] = "idle"
  /\ source' = [source EXCEPT ![u] = s]
  /\ version' = [version EXCEPT ![u] = v]
  /\ crowded' = IF \E w \in Uploads : InFlight(w) /\ source[w] = s
                THEN crowded \cup {s} ELSE crowded
  /\ UNCHANGED <<index, crashes, contested, reader>>

Upload(u, s, v) ==
  /\ Store(u, s, v)
  /\ disk' = [disk EXCEPT ![s] = v]
  /\ latest' = [latest EXCEPT ![s] = u]
  /\ Goto(u, IF v = 0 THEN "422" ELSE "embed")

\* The file cannot be opened, or the write stops half-way in the truncated file.
WriteFails(u, s, v) ==
  /\ Faults
  /\ Store(u, s, v)
  /\ Goto(u, "500")
  /\ \/ UNCHANGED <<disk, latest>>
     \/ /\ disk' = [disk EXCEPT ![s] = TornFile]
        /\ latest' = [latest EXCEPT ![s] = u]

-----------------------------------------------------------------------------
(* DocumentIngestor.ingest, from its first await *)

Calls(u, call, next) ==
  /\ step[u] = call
  /\ Goto(u, next)
  /\ UNCHANGED <<source, version, disk, crashes, latest, crowded, scroll>>

Leaves == UNCHANGED <<index, contested, touched>>

\* Qdrant replaces the points whose ids it is given.
PointsBecome(new) ==
  /\ points' = new
  /\ touched' = IF reading \in {"scroll", "200"}
                THEN touched \cup {DocumentOf[p.source] : p \in (points \ new) \cup (new \ points)}
                ELSE touched
  /\ UNCHANGED collection

\* Mutant: the old points go before it is known that the new ones can be embedded.
EmbedAfterDelete(u) ==
  /\ Calls(u, "embed", "list_collections")
  /\ PointsBecome(points \ Indexed(source[u]))
  /\ UNCHANGED contested

Embed(u) ==
  /\ Calls(u, "embed", "list_collections")
  /\ Leaves

\* Mutant: the collection is taken for granted.
ListCollectionsBlindly(u) ==
  /\ Calls(u, "list_collections", "get_collection")
  /\ Leaves

\* ensure_qdrant_collection: look, then create or inspect.
ListCollections(u) ==
  /\ Calls(u, "list_collections", IF collection THEN "get_collection" ELSE "create_collection")
  /\ Leaves

CollectionIsCreated(u) ==
  /\ ~collection
  /\ Calls(u, "create_collection", "created")
  /\ collection' = TRUE
  /\ UNCHANGED <<points, contested, touched>>

\* Qdrant refuses to create what exists: QdrantSchemaError, which no clause of the
\* route catches.
CreationIsRefused(u) ==
  /\ collection
  /\ Calls(u, "create_collection", "500")
  /\ Leaves

\* A created collection is not inspected, an existing one is.
CollectionIsReady(u) ==
  /\ Calls(u, "created", "delete") \/ Calls(u, "get_collection", "delete")
  /\ Leaves

\* Mutant: only the points of the uploaded version itself are deleted.
DeleteSameVersion(u) ==
  /\ Calls(u, "delete", "deleted")
  /\ PointsBecome(points \ ChunksOf(u))
  /\ UNCHANGED contested

\* Every point of the file, whatever version it belongs to.
OldIsDeleted(u) ==
  /\ Calls(u, "delete", "deleted")
  /\ PointsBecome(points \ Indexed(source[u]))
  /\ contested' = IF \E w \in Uploads : step[w] \in {"deleted", "upsert"} /\ source[w] = source[u]
                  THEN contested \cup {source[u]} ELSE contested

DeleteReplies(u) ==
  /\ Calls(u, "deleted", "upsert")
  /\ Leaves

\* Mutant: the last chunk is left out.
NewIsUpsertedShort(u) ==
  /\ Calls(u, "upsert", "upserted")
  /\ PointsBecome(points \cup {p \in ChunksOf(u) : p.chunk < version[u] \/ p.chunk = 1})
  /\ UNCHANGED contested

NewIsUpserted(u) ==
  /\ Calls(u, "upsert", "upserted")
  /\ LET ids == {Id(p) : p \in ChunksOf(u)}
     IN  PointsBecome({p \in points : Id(p) \notin ids} \cup ChunksOf(u))
  /\ UNCHANGED contested

UpsertReplies(u) ==
  /\ Calls(u, "upserted", "201")
  /\ Leaves

\* What has become of upload u when it goes no further.
Abandoned(u, end) == IF step[u] \in {"deleted", "upsert", "upserted"} THEN "halfway" ELSE end

\* EmbeddingError, also for a wrong number of vectors, is answered with 422.  What
\* Qdrant raises, and a collection of another dimension, is not translated.
CallFails(u) ==
  /\ Faults
  /\ \E call \in Awaits :
       Calls(u, call, IF call = "embed" THEN "422" ELSE Abandoned(u, "500"))
  /\ Leaves

-----------------------------------------------------------------------------
(* The readers.  One is enough: it changes nothing.  Qdrant scrolls in the order *)
(* of the ids, which are hashes: the order is chosen as the scroll goes on.      *)

Reads(at, next) == reading = at /\ reading' = next /\ UNCHANGED <<upload, disk, index, crashes, watch>>

ListingBegins == Reads("idle", "scroll") /\ UNCHANGED <<payloads, unread, touched>>

StatusBegins == Reads("idle", "info") /\ UNCHANGED <<payloads, unread, touched>>

CollectionIsRead ==
  /\ collection
  /\ Reads("info", "scroll")
  /\ UNCHANGED <<payloads, unread, touched>>

Remaining == {p \in points : Id(p) \in unread}

\* The orders in which Qdrant may return the points of a page.
Arrangements(page) ==
  {q \in [1..Cardinality(page) -> page] : \A i, j \in DOMAIN q : q[i] = q[j] => i = j}

Read(page, next) ==
  /\ collection
  /\ Reads("scroll", next)
  /\ \E q \in Arrangements(page) : payloads' = payloads \o q
  /\ UNCHANGED touched

\* The locals of a reader that has failed are gone.
Forgets == payloads' = <<>> /\ unread' = {} /\ touched' = {}

\* A page is full, and there are points behind it: the next offset is the first of
\* them.  A point that appears later with an id before it is not read.
PageIsRead ==
  /\ Cardinality(Remaining) > PageSize
  /\ \E passed \in SUBSET unread :
       LET page == {p \in Remaining : Id(p) \in passed}
       IN  /\ Cardinality(page) = PageSize
           /\ Read(page, "scroll")
           /\ unread' = unread \ passed

\* Mutant: the next offset is a number of points; what is deleted before it moves the
\* others up.
LastPageByNumber ==
  /\ Cardinality(Remaining) <= PageSize
  /\ Read(IF Cardinality(points) < Len(payloads) + Cardinality(Remaining) THEN {} ELSE Remaining,
          "200")
  /\ unread' = {}

LastPageIsRead ==
  /\ Cardinality(Remaining) <= PageSize
  /\ Read(Remaining, "200")
  /\ unread' = {}

\* Qdrant fails, or there is no collection yet.
ReadFails ==
  /\ Faults \/ ~ collection
  /\ Reads("info", "503") \/ Reads("scroll", "503")
  /\ Forgets

\* Payloads are grouped by document_id; the first of a document names it.
Inventory ==
  LET Of(d) == {i \in DOMAIN payloads : DocumentOf[payloads[i].source] = d}
      Front(d) == payloads[CHOOSE i \in Of(d) : \A j \in Of(d) : i <= j]
  IN  {[document |-> d, source |-> Front(d).source, version |-> Front(d).version,
        chunk_count |-> Cardinality(Of(d))] : d \in {e \in Documents : Of(e) # {}}}

-----------------------------------------------------------------------------

\* The process dies; the file stays on disk and the index as it is.
Crash ==
  /\ crashes < MaxCrashes
  /\ \E u \in Uploads : InFlight(u)
  /\ crashes' = crashes + 1
  /\ step' = [u \in Uploads |-> IF InFlight(u) THEN Abandoned(u, "lost") ELSE step[u]]
  /\ IF reading \in {"info", "scroll"} THEN reading' = "lost" /\ Forgets ELSE UNCHANGED reader
  /\ UNCHANGED <<source, version, disk, index, watch>>

-----------------------------------------------------------------------------

Ingest(u) ==
  \/ Embed(u) \/ ListCollections(u)
  \/ CollectionIsCreated(u) \/ CreationIsRefused(u) \/ CollectionIsReady(u)
  \/ OldIsDeleted(u) \/ DeleteReplies(u) \/ NewIsUpserted(u) \/ UpsertReplies(u)
  \/ CallFails(u)

Quiet ==
  /\ \A u \in Uploads : step[u] \in Ends
  /\ reading \notin {"idle", "info", "scroll"}
  /\ UNCHANGED vars

Next ==
  \/ \E u \in Uploads :
       \/ \E s \in Sources : \E v \in Contents[s] : Upload(u, s, v) \/ WriteFails(u, s, v)
       \/ Ingest(u)
  \/ ListingBegins \/ StatusBegins \/ CollectionIsRead
  \/ PageIsRead \/ LastPageIsRead \/ ReadFails
  \/ Crash
  \/ Quiet

Spec == Init /\ [][Next]_vars

-----------------------------------------------------------------------------
(* Properties *)

TypeOK ==
  /\ step \in [Uploads -> {"idle"} \cup Awaits \cup Ends]
  /\ source \in [Uploads -> Sources \cup {NoSource}]
  /\ version \in [Uploads -> Versions]
  /\ disk \in [Sources -> Versions \cup {NoFile, TornFile}]
  /\ collection \in BOOLEAN
  /\ points \subseteq Points
  /\ crashes \in Nat
  /\ latest \in [Sources -> Uploads \cup {NoUpload}]
  /\ crowded \subseteq Sources
  /\ contested \subseteq Sources
  /\ reading \in {"idle", "info", "scroll", "200", "503", "lost"}
  /\ payloads \in Seq(Points)
  /\ unread \subseteq Ids
  /\ touched \subseteq Documents

\* Two spellings of one name are two files and one document: equal contents give them
\* the same points, which then belong to the file that was uploaded last.
TakenOver(s) ==
  \E u, w \in Uploads :
    /\ source[u] = s /\ source[w] \in Sources \ {s} /\ DocumentOf[source[w]] = DocumentOf[s]
    /\ version[w] = version[u]
    /\ step[w] \in {"upserted", "201", "halfway"}

VersionsOf(s) == {p.version : p \in Indexed(s)}

IsWhole(s, v) == \A c \in 1..v : [source |-> s, version |-> v, chunk |-> c] \in points

\* Search never mixes an old and a new version of one file, and never meets a torn
\* version: unless two uploads met between delete and upsert, what is indexed of a
\* file is one whole version or nothing, after any fault or crash.
OneWholeVersion ==
  \A s \in Sources \ contested :
    \A v \in VersionsOf(s) : VersionsOf(s) = {v} /\ IsWhole(s, v)

\* When uploads of a file do not overlap, the index holds exactly what is stored on
\* disk as soon as the upload that stored it was answered 201.
IndexFollowsDisk ==
  \A s \in Sources \ crowded : ~ TakenOver(s) =>
    \A u \in Uploads :
    latest[s] = u /\ step[u] = "201" =>
      Indexed(s) = [source : {s}, version : {disk[s]}, chunk : 1..disk[s]]

\* A file that was searchable once is missing from the index only while an upload of
\* it is past its delete, or because one failed or died there: an unreadable file, an
\* embedding error, a lost race for the collection or a crash before the delete never
\* costs the old version.
VanishesOnlyMidReplacement ==
  \A s \in Sources : ~ TakenOver(s) =>
    \A w \in Uploads :
    source[w] = s /\ step[w] = "201" /\ version[w] > 0 /\ Indexed(s) = {} =>
      \E u \in Uploads : source[u] = s /\ step[u] \in {"deleted", "upsert", "halfway"}

\* There are no points before there is a collection, and none of a version whose every
\* upload ended before its delete: one that was refused the collection another had just
\* created, or failed or died until then, has left nothing in the index.
IndexIsGrounded ==
  /\ TypeOK
  /\ points # {} => collection
  /\ \A p \in points : \E u \in Uploads :
       /\ source[u] = p.source
       /\ version[u] = p.version
       /\ step[u] \in {"upserted", "201", "halfway"}

\* What the readers answer (knowledge.py:104-206, 213-317), although they read page by
\* page while uploads go on: a document no point of which changed since they began is
\* listed once if it is indexed and else not at all, with all its chunks and with the
\* name and checksum of a file of its own.
ReadersTellTheIndex ==
  reading = "200" =>
    \A d \in Documents \ touched :
      LET entries == {e \in Inventory : e.document = d}
      IN  /\ entries = {} <=> PointsOf(d) = {}
          /\ \A e \in entries :
               /\ e.chunk_count = Cardinality(PointsOf(d))
               /\ \E p \in PointsOf(d) : e.source = p.source /\ e.version = p.version

\* The claim of the ingestion test: an upload replaces what was indexed of its file.
IngestionReplacesSource ==
  \A u \in Uploads : step[u] = "201" => Cardinality(VersionsOf(source[u])) <= 1

=============================================================================
