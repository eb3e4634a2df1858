# Verification of Orbyntiq

TLA+ modules of the Orbyntiq backend, the TLC runs that check them and the TLAPS
proofs about them. Paths are relative to the repository; `B` is
`src/orbyntiq/` and `F` is `frontend/src/app/`.

## The system

Orbyntiq is a FastAPI process on one asyncio event loop, with MongoDB (execution
records), Qdrant (knowledge index), Redis (short-lived state) and Ollama (LLM and
embeddings) behind it and an Angular client in front. All concurrency is
cooperative: a task keeps running until an `await`, and every call of a service,
every live event and every read of the socket is one.

| Component | State | Operations | Talks to |
|---|---|---|---|
| Multi-agent execution, `B services/multi_agent_service.py` | sequence counters of the call; status document and workflow events in MongoDB | `execute`, `_persist_failure`, `_emit_event` | graph, repositories, event callback |
| Agent graph, `B agents/` | the graph state of one run | supervisor, one specialist, synthesizer | LLM, RAG, MCP |
| Repositories, `B persistence/`, `B core/mongodb_schema.py` | `agent_executions`, `workflow_history` with a unique `(execution_id, sequence)` | create, replace, get, list | MongoDB |
| Inspection routes, `B api/routes/executions.py` | none | list, get with events | repositories |
| Chat WebSocket, `B api/routes/websocket.py`, `api/websocket_manager.py` | active task and its request id, the set of connections | ping, cancel, chat, agent_execute, idle timeout, cleanup | LLM service, multi-agent service, client |
| Knowledge, `B rag/`, `B api/routes/knowledge.py`, `B core/qdrant_schema.py` | stored files, Qdrant collection and points | ingest, list, search | embeddings, Qdrant |
| LLM service and provider, `B services/llm_service.py`, `B llm/ollama.py` | semaphore, shared HTTP client | generate, structured, stream with retries, close | Ollama |
| Redis stores, `B services/{cache,session_store,state_store}.py` | hashes with expiry | save, get, touch, delete | Redis |
| Lifespan, `B api/app.py`, `B api/dependencies.py`, `B api/routes/platform.py` | clients, flags of `app.state`, the cached LLM service | start in degraded modes, serve, shut down | all of the above |
| MCP, `B mcp/` | configured services | tools | retriever, RAG |
| Observability, `B observability/`, `B api/middleware/`, `B api/error_handlers.py` | gauges, counters, spans, logs | middleware around every request, exception handlers, `InstrumentedMultiAgentService` | Prometheus and the operator |
| Web client, `F core/services/`, `F features/` | socket, pending and active request, message list, page caches | send, cancel, reconnect, load, select, upload | routes above |

What is hard in it:

* **Non-atomic persistence.** A run writes one document and up to five events in
  separate calls; each may fail before or after the write has landed, the task may
  be cancelled at each await, and the process may die. Correct means: the status
  never says more than the events, no sequence number is used twice, a final run
  never changes, and callers and clients hear what is stored.
* **Two actors on one socket.** The handler reads the client while a task answers;
  cancellation, disconnect and idle timeout race the task's own end. Correct means:
  one task at a time and always reachable, nothing after a closing event, no request
  without one, nothing left behind.
* **Delete, then upsert.** Uploads of one file are not serialised. Correct means:
  search sees one whole version, and it is the one on disk.
* **Readers beside writers.** The inspection route and the knowledge inventory read
  in several calls. Correct means: what they say of a run or a document was so, as far
  as it stood still.
* **Failures on the way to an answer.** A specialist makes up to three calls, some of
  them through the MCP server, and each layer catches what it thinks is its own.
  Correct means: an answer cites what the model was given, and a failure is told.
* **Text arithmetic.** The chunker looks for a space, cuts, and goes back by the
  overlap. Correct means: nothing is lost, and the loop ends.
* **Partial service.** Each dependency may be down, each at its own step of the startup,
  and closing may fail. Correct means: what is offered fits together, what was opened is
  closed, and there is one LLM service.
* **Accounts kept by several layers.** Correct means: gauges return, and log, span,
  counters and client agree on every request.
* **Cancelled generators, retries, slots** in the provider. Correct means: no slot is
  lost, no text comes twice, metrics and results agree.
* **Reconnection and late events** in the web client. Correct means: a query is put
  once, what the page shows is what the server did, and the page never waits for
  something nobody works on.

`PROJECT.json` lists each hazard at its line with the properties that cover it, or
the reason none does yet.

## Modules

| Module | Models | State and actions |
|---|---|---|
| `RunHistory` | what a reader of MongoDB may rely on | a status and a log per run; `Open`, `AppendEvent`, `Close` |
| `MultiAgentExecution` | `MultiAgentService.execute` and what it calls | `pc[e]` is the await the task of `e` stands at; one action per await |
| `RunInspection` | `get_execution` beside the executions (EXTENDS `MultiAgentExecution`) | `ReadDocument`, then `ReadEvents` |
| `WebSocketSession` | one `/api/v1/ws/chat` connection | `handler` and `stage[t]` are the awaits of the handler and of task `t`; `sent` is the wire |
| `KnowledgeIngestion` | the ingest route, `DocumentIngestor`, `ensure_qdrant_collection`, and the listing and status routes | `step[u]` is the await of upload `u`, `reading` that of a reader; `points` is the index |
| `TextChunker` | `rag/chunking.py` | one action, a round of the loop of `_split_text` |
| `AgentGraph` | one run of the compiled graph with retrieval, RAG and the MCP tools | `node` and `call` are the await; `state` is `AgentState` |
| `GraphRun` | what `MultiAgentExecution` takes a graph to be | `Route`, `Specialize`, `Synthesize`, `Raise` |
| `Lifespan` | `lifespan`, `get_llm_service`, the requests that use it, the platform status | `stage` is the await of the lifespan; one action per step of startup, service and shutdown |
| `RequestObservation` | the middleware, the exception handlers, `InstrumentedMultiAgentService` | `at[c]` is how far a request or connection is, `run[c]` its execution; one variable per gauge and counter |
| `LLMProvider` | `LLMService` over `OllamaProvider` | `at[c]` is the await (or the generator left behind) of call `c`; `free` and `queue` are the semaphore |
| `WorkspaceClient` | `WebSocketService` and `WorkspaceStateService` against the server end of a connection | one action per browser event or user command; `toServer` and `toClient` are the wire |
| `...Proofs` | theorems about the module of that name; those of `MultiAgentExecutionProofs` are about `RunInspection` and `RunHistory` too, those of `LLMProviderProofs` about `Lifespan`, the process the LLM service lives in | |
| `MC...` | instances for TLC, with symmetry sets | |

Definitions marked *Mutant* are faulty variants of the definition that follows them;
nothing refers to them. Substituting one shows that a property notices that bug
(`PROJECT.json`, "mutants").

### MultiAgentExecution

A database call has two halves. `Land` is the server applying the write, with the
unique index as its guard; `Reply` resumes the task. `WriteFails` (a
`RepositoryError`), `Cancel` and `Crash` may come before or after `Land`, so a write
may have happened although its caller was told otherwise. `Cancel` at an await inside
the graph's `try` enters the failure path, and anywhere else it leaves `execute`, also
from inside a failure path that is already running. `_emit_event` swallows what the
callback raises: an event is delivered or lost. `Start` chooses whether the call is
persisted (a conversation id and repositories) and how the call listens to its events.

The graph is a node per step. Whatever a specialist returns, success or failure, is
one agent result, and the synthesizer adds the second: `ResultCount` is 2 because the
compiled graph has exactly these edges (`GraphRun`, which `AgentGraph` implements). `listening` is "live" for a callback beside the
compiled graph: `execute` streams it with `astream`, and it always ends with a route and a
response. It is "after" for a callback beside a plain graph (the tests have such graphs),
run by `ainvoke`, whose events are published afterwards, and "no" without a callback, which
uses `ainvoke` with either graph. A plain graph may leave the route or the response out,
which is where the two rejections after the graph come in, so they are possible unless the
call is "live". `Modes` are the ways of listening that a run considers.

### WebSocketSession

`BackToReceive` is the top of the loop, which has no await: reap a finished task,
decide whether the receive is under the idle timeout, wait. `cancelling[t]` is the
interval between `task.cancel()` and the `CancelledError` in the task; `Interrupt` ends
it, before the first line of a task that never ran if need be. An agent task is
`execute` reduced to its events, including the failure it publishes while it is being
cancelled. Sends fail only when the transport is down: then they vanish or raise.

### KnowledgeIngestion

Up to its first await the route is one action: it writes the file, and `ingest` reads
it back before anybody else runs. A call that changes Qdrant is applied
(`CollectionIsCreated`, `OldIsDeleted`, `NewIsUpserted`) and then answered. `latest`,
`crowded` and `contested` only remember which uploads met, for the properties. An upload
that is past its delete when it fails or dies ends "halfway", any other with its
response or "lost": only the former may leave the index without the file, or with points
nobody was told of.

A file is its `source_path`; a document is its `document_id`, which ignores the case of
the path. Point ids are made of the document, so two spellings of one name share them
when their contents are equal: `NewIsUpserted` replaces the points with the same ids,
whichever file they were of, and `TakenOver` says that this has happened.

A reader begins either at `get_collection` or at the first page, reads page by page and
groups what it has read. Qdrant scrolls in the order of the ids; as they are hashes, the
order is chosen while the scroll goes on: `unread` are the ids it has not passed.
`touched` remembers the documents that changed meanwhile; a document outside of it must
be listed as it is, whatever uploads do to the others on the same pages. `Contents[s]`
bounds the versions of a file that are uploaded.

### TextChunker

A chunk is recorded by the positions it was cut from, so that what is lost or repeated
can be said. The texts are those `load_document` lets through: not empty, with a letter
at both ends (`_normalize_text` strips), and spaces told from other blanks because only
spaces are cut at.

### AgentGraph

A step ends where a node awaits a call. `Reduce` is LangGraph's merge of an update into
`AgentState`. An exception leaves the graph unless `Caught`: research catches what
retrieval and generation raise, but not the embedding server's or the model's own
errors; a tool's exceptions all become an error result of the MCP server. A chunk stands
for a payload, and a broken one is a payload the retriever refuses. The synthesizer's
branch that asks the model to merge several answers cannot be reached: one specialist
runs.

### Lifespan

The startup is one task; `Unavailable` is an exception it expects, `StartupRaises` any
other, which goes through the `finally` too. Requests run only between startup and
shutdown because the server waits for them. `get_llm_service` is a plain function under
`lru_cache`, which FastAPI runs in the thread pool: `Miss` and `Build` are separate
steps, and the first result is the one remembered. `PlatformStatus` is what the flags
say; that a dependency may go down later does not change them. What other modules
call `Init`, `Next`, `Spec` and `vars` is `LifespanInit`, `LifespanNext`, `LifespanSpec` and
`processVars` here, so that one module can hold the proofs about the service and its process.

### RequestObservation

An exception with a handler becomes a response inside the middleware
(`RaiseHandled`); any other passes all layers and is answered by the framework outside
of them (`Raise`), or breaks off a response already started (`BreakOff`; only the mounted
MCP application streams). The server does not cancel HTTP requests, so only a socket
cancels an execution. A run of the instrumented service moves through the events it
publishes, one step per event because each is awaited: the start, the route, the
specialist's start (`agent_started`, which the metrics count as "unknown"), its result
and then the synthesizer's (`ResultCount` is 2), which fails if and only if the
specialist's did. The supervisor and the specialist may raise, and a cancellation may hit
any await; while the graph runs, the failure is first stored ("broken", "stopped") and
then announced ("failing", "cancelling"), and a cancellation may hit these awaits as well.
That these are the events of `execute` is what `MultiAgentExecution` shows.

### LLMProvider

A stream is a chain of generators: `chat_stream`, `generate_stream`, `stream`,
`_stream`. A cancellation at an await inside the chain unwinds it at once (`End`). A
cancellation while the consumer holds a chunk (`Abandon`) closes `chat_stream` only;
the other three are finalised by the event loop one after the other (`CloseService`,
`CloseProvider`, `CloseResponse`). `Pass` is `asyncio.Semaphore.release` with
`_wake_next`: a waiter is given its slot before it resumes, and may be cancelled in
between. Retries keep the slot and give up the request.

### WorkspaceClient

Each browser handler runs to its end with the subscribers it calls, so it is one
action: `SocketOpens` also sends the pending request, `SocketCloses` also fails the
request that had been sent and schedules the next attempt. A socket may be `closing`
while the page still believes it is connected. The server end is
`api/routes/websocket.py` reduced to what it reads and sends; that an answer never
interleaves with another (`NoOrphanTask`), and that nothing follows `cancelled`, is what
`WebSocketSession` shows. `Parting` is what a task that is being cancelled may still
send. `ended[r]` is what the server did with a request, `shown[r]` what the page says.

## Runs

| Run | Question | Bounds |
|---|---|---|
| `Execution_faults` | do store, caller and client agree under faults? does the store refine `RunHistory`? is `IInv` invariant? does every run end, and every undisturbed run settle? | 1 execution, every mode, 2 cancellations, 1 crash |
| `Execution_concurrent` | do concurrent executions stay apart? does a route that reads twice tell the truth about them? | 2 executions, modes "no" and "after", 1 reader, 1 cancellation each, no crash |
| `Session_safety` | does the socket protocol hold? is every disconnect cleaned up, does nobody hang? | 3 messages, 2 request ids, 1 chunk per answer |
| `Ingestion_safety` | is one whole version indexed, the stored one? do the readers tell what is indexed? | 3 uploads, 2 documents, the first under 2 spellings and in 3 versions, the second in 1; 2 chunks, pages of 2 points, 1 crash |
| `Chunker_splits` | does splitting lose nothing, advance and end? | texts of 8 characters, pairs of 3, sizes up to 5, every overlap |
| `Graph_answers` | are answers grounded and failures told? is a run one of `GraphRun`? | 4 chunks, 1 of them broken, 3 per retrieval |
| `Provider_faults` | are slots, texts and metrics right under retries and cancellations? does every call end? | 3 calls, 1 slot, 1 retry, 2 chunks |
| `Workspace_client` | does the page show what the server did? does every request that was sent end? | 2 requests, 2 attempts to reconnect, 1 event per answer, a cancellation only with fewer than 3 messages on the way |
| `Lifespan_degraded` | does what is offered fit together, is what was opened closed, is the LLM service shared? | 3 requests; everything else is as in the code |
| `Observation_accounts` | do gauges return and accounts agree? | 2 requests of any kind, 1 socket, 2 executions, 1 message |
| `Execution_inspectable`, `Workspace_cancel` | claims of the repository the code does not keep | see below |

Why the bounds are enough. Executions share nothing but the two collections, which are
keyed by the execution, so two of them show any interference and one shows the rest;
the proofs cover any number. A second cancellation is the one that can hit a failure
path, a third meets a task that has left it. One crash ends every task. In the session,
three messages are a request, its cancellation and the next request, with reuse of the
identifier; one chunk gives a task a send between its first and its last. Three uploads
are two that overlap and one before or after them; two chunks make a torn version
visible, and with the second document two pages; two spellings share every point they
can. The second document, of one version, stands still on a page while the first is
replaced around it, or is replaced around the first. Eight characters are
three windows of the smallest size with a tail to search, and the proofs cover the rest.
Three chunks are a prompt with an order, of a set with one left over. Three requests are
two that race for the cache and one that finds it filled. Two requests and a socket are
two callers whose accounts could be mixed up. Three calls on one slot are a holder, the next in the queue and one behind it
that must not overtake; one retry separates the first attempt from the last. Two queries
show late events of the first meeting the second; losses of the connection are not
bounded, only the attempts in a row are, as in the code.

Fairness. `Advance(e)`, the tasks and the handler are weakly fair: the event loop
resumes whatever can run, and the database, the HTTP clients and the server's
keep-alive time out on a peer that does not answer. The idle timer of an armed receive
fires. `Progress(c)` of a call is weakly fair because every read of the HTTP client has a
timeout and the event loop runs the finalisers; `Browser` and `Server` are, because
handlers are called for what has arrived. Whether a connection can be made is left to
the network, so a request that waits need never be sent. Nobody has to start, cancel, crash, send or leave.
`EveryRunSettles` therefore exempts runs that met a database error, a cancellation or the
death of the process. A round of the chunker's loop is weakly fair: it awaits nothing.

Where the code and the repository's own words part, with a run that shows it:

* `Execution_inspectable`: README.md:306 promises inspectable runs; a cancellation
  outside the graph's `try` leaves the document `running`.
* `Workspace_cancel`: the workspace tests have a cancelled run shown as cancelled; the
  `execution_failed` that `execute` publishes on cancellation arrives first and the page
  shows it as failed.

Further known deviations. The first four are stated as formulas in their modules, and TLC
refutes them, but no run checks them; the properties leave the others room:

* the event tests take sequence numbers for unique; a cancellation during a live event
  makes `execution_failed` repeat one (`LiveSequenceUnique`);
* the heartbeat test has idle connections closed; the receive in progress when an answer
  ends has no timeout (`IdleConnectionsClose`);
* an ingestion is said to replace its source; overlapping uploads leave two versions
  (`IngestionReplacesSource`);
* the load-test results (docs/load-testing/phase-11-results.md:142) limit the model to two
  concurrent requests; a stream abandoned by its consumer frees its slot before its
  request is closed (`RequestsBounded`), and two first requests that miss the cache at a
  time have an LLM service, hence a limit, each. The one that is not remembered is never
  closed. With Qdrant up the startup fills the cache and this cannot happen;
* two files whose names differ in case take each other's points over when their contents
  are equal, and the inventory lists them as one;
* request_id.py:31 attaches an id to every response; the framework's own 500 for an
  exception without a handler is sent outside of that middleware and has none;
* with an overlap of at least half the chunk size a chunk may repeat the end of the one
  before. The default settings are far from it.

## Proofs

Every safety invariant of the runs is proved, and so are both refinements and the action
properties (outcomes stay: `FinalRunsStay` of what is stored, `ProviderOutcomesStay` of what
a call was told, `ClientKeepsOutcomes` of what is shown). Some theorems state what
no run checks: the steps a component takes (`RunsAdvance`, `RoundsAdvance`, `NothingReopens`,
`SlotsGoInTurn`, `AnswersInOrder`) and the true part of a claim that is violated
(`ModelIsNotOverrun`). Those properties stand in the proof modules. The shape is the same
everywhere: `IInv` is a
conjunction of named parts, TLC has checked it on the module's run, one lemma per action
(or per kind of step) shows that it is preserved, and the properties follow from it.
Nothing is assumed of the constants but the named `ASSUME`s, which TLC evaluates on the
runs: bounds are natural numbers, the values that stand for "nobody" are none of the names,
requests are not sockets, and `MaxEvents` (100 in executions.py:194-197) is at least what
one run can store. No set of executions, uploads, calls or requests has to be finite.

`MultiAgentExecutionProofs`, for every set of executions:

* `InductiveInvariant` (`Spec => []IInv`) and from it `TypeCorrect`,
  `StatusIsBacked`, `OutcomeIsStored`, `SequenceNumbersAreFresh` and `FinalRunsStay`;
* `AnnouncementsAreTrue`, which needs the further invariant `AnnounceInv`: a closing
  event is delivered in the last step of a task; and `ClientsSeeTheOrder`, which needs
  `OrderInv`: the number of the next event is ahead of all that were delivered, unless the
  failure of a cancelled run repeats one;
* `ResponsesAreTrue`, about `InspectionSpec`: between its two reads a reader knows a status
  that the history it will read still backs, because histories only grow and a final status
  has all of its events (`InspectionInv`);
* `EveryStepAdvances` (`Spec => RunsAdvance`): `Place` numbers the points of a task in the order
  in which it can get to them, repeated points apart, and `Work` adds the write under way.
  Every step but stuttering raises the number of one execution and lowers none, and none
  exceeds 54: this is what `EveryRunSettles` needs besides a fair event loop;
* `ExecutionRefinesHistory`: a landing write is `Open`, `AppendEvent` or `Close` of
  `RunHistory`, every other step a stutter. The log is counted off the stored positions,
  so one lemma says that an insert at the next free position appends.

`StatusBackedByHistory` alone is not inductive: it does not say what a pending write is
about to store. `IInv` adds `StoreAtPoint`, what is stored at each point of the task
with the write landed or not, and `ControlInv`, which results and causes go with which
point. The induction has three cases. A task step leaves the store alone
(`TasksDoNotTouchTheStore`) and only has to reach a point whose condition holds
(`ActorPreserves`, one step per action). A landing write changes one document or one
position of one history (`LandPreserves`). A crash moves tasks to `lost`, where nothing
but `Backed` is asked (`CrashPreserves`). The other executions do not change at all
(`OthersAreLeftAlone`, `FramePreserves`).

`AgentGraphProofs`, for every index and every retrieval limit: `GraphGrounds`,
`GraphTellsFailures` and `GraphRefinesRun`. `IInv` fixes what a run has done when it gets to
each node: a specialist starts from the state the supervisor leaves (`AtSpecialist`), and
leaves one result whose sources are those of the prompt (`AtSynthesizer`). The refinement
uses it to say which two results a run has when it ends. `GraphAdvances`: a run makes no call
twice and comes back to no node, so that nine steps end it, although nothing reads `max_hops`.

`KnowledgeIngestionProofs`, for any number of uploads, files, chunks, faults, crashes and
pages: `IngestionKeepsVersionsWhole`, `IngestionFollowsDisk`,
`IngestionLosesOnlyMidReplacement`, `IngestionIsGrounded` and `ReadersAgreeWithIndex`.
`ReplaceInv` adds that an upload of a file nobody contested is alone between its delete and
its upsert and has left nothing; `CrowdInv` that an upload that was never in company is the
one that wrote the file; `PointInv` that every point has an uploader that may have written
it; `ReadInv` that a reader has each point whose id it has passed once, of the documents
nobody touched. `VanishesOnlyMidReplacement` is stated of all files, crowded or not.
`PointsAreContents` keeps the points among the contents that are uploaded, whose ids are
the ones a scroll passes.

`LLMProviderProofs`, for any number of calls, slots, retries and chunks:
`ProviderKeepsSlots`, `ProviderRepeatsNoText`, `ProviderCountsTruly`. `QueueInv` says that
the queue holds those that wait, once each; without it `Pass` could hand two slots to one
call. `TextInv` adds that a call in its backoff has given nothing to its consumer, and
`CountInv` that a call is counted exactly when its outermost generator has ended. `LifeInv`
(`ProviderLife`) says by where a call is what it has open and what its caller knows. From it
follow `ProviderOutcomesStay` and `ProviderBoundsRequests`: at most `MaxConcurrency` requests
are at the model besides those of abandoned streams whose slot is already back
(`ModelIsNotOverrun`), which is how far `RequestsBounded` is from true. `ProviderServesInTurn`
says that the semaphore serves in the order of arrival: `Pass` removes from the queue those
that get a slot and those that leave, and who waited ahead of another is still ahead of it
(`PassInTurn`).

Of the process around the service (module `Lifespan`), for any number of requests and
whatever fails at whichever step: `ServingConsistent`, `ShutdownClosesAll`,
`ModelServiceShared` and `ClosedStaysClosed`. None of them is inductive alone, because each
speaks of one stage of the process and is decided in an earlier one. `StartupInv` says what
the startup has done when it gets to a dependency, `OfferInv` what a serving process then
offers, `SharedInv` who holds which LLM service and that a process with agents has filled the
cache before the first request, and `ClosingInv` that the clients before the place the
shutdown stands at are closed. `ClosesNext` finds that place: the first client from there on
that has to be closed.

`WebSocketSessionProofs`, for any number of messages and chunks: `SessionOrphansNoTask`,
`SessionLeavesNothing`, `SessionClosesOnce`, `SessionEndsAloud`. `TaskInv` says that the
handler holds the last task and no other runs; `NothingAfterClosing` needs to know besides
that nobody has been told "cancelled" of the task the handler is about to say it of
(`SentInv`). `SessionAnswersInOrder` needs `WireInv`: a task that has not come past "started"
has sent nothing, and one that has come past it on an open connection has said so; by
`TaskInv` only events of the last task are added to the wire.

`WorkspaceClientProofs`, for any number of requests, reconnections and events:
`ClientIsNeverStuck`, `ClientAsksOnce`, `ClientTellsTheTruth`, `ClientKeepsOutcomes`. The
properties speak of the two ends of a connection, `IInv` of what is on the way and in which
order: requests go out in the order of their numbers, each cancelled before the next
(`AskInv`), so the server ends or refuses every request before it takes a later one up
(`ServeInv`); and with the events on the way the page will have the whole answer and be told
first how it ended (`AnswerInv`). The proof needs both channels at once: a second request is
refused only while the first one's task still has its error to send. It also showed that
`ShownMatchesServer` was too strong from three requests on, more than the run makes: of
two requests sent while the first one's error is pending, both are refused. The property
now says what the code does, a refused request follows a failed one with nothing but
refused ones in between.

`RequestObservationProofs`, for any number of requests, connections and executions:
`ObservationGaugesReturn`, `ObservationAccountsAgree`, `ObservationRunsAddUp`. `GaugeInv`
gives every gauge the set it counts, `RequestInv` says what the layers have written of a
request at each point, and that an execution no longer runs once its request has an answer;
`StepsInv` sharpens the inequalities between the counters by the executions that stand
between two of them: `EndingsInv` those of starts and endings, where every start is still
undecided (`Pending`) or ends at most once, and `ResultsInv` those of routes, specialists
and results, where an execution owes two results, one or none by where it stands.

`TextChunkerProofs` proves, for texts and documents of any length and every chunk size
and overlap the constructor accepts, `SplittingIsSound` (`Spec => []IInv`) and from it
`EveryLetterIsIndexed`, `EveryChunkFits` and `EveryChunkIsNew`. What the three properties
lack to be inductive is `LoopPosition`: every chunk of the current section starts before
the next start, and the last one ends before the text does and at most `overlap` after
the next start. The argument is in `RoundOfLoop`: a cut ends after the start and within
the window (`CutRange`), the next start is later and no later than the cut
(`NextStartRange`), so every letter that has been passed was in the chunk just cut, which
is dropped only if it has no letter. A cut lies at least half a chunk after its start or
ends the text; with a smaller overlap that is past the end of the chunk before.
`EveryRoundAdvances` is the same lemma read as progress: no round leaves the start where it was.

Only model-checked:

* liveness (`EveryRunSettles`, `NobodyHangs`, `EveryCallEnds`, `EverySentRequestEnds`,
  `SplittingEnds`): it rests on fairness, hence on `ENABLED`, which is out of the proof
  system's reach. `RunsAdvance` and `RoundsAdvance` are the part of it that is safety;
* the two violated claims, which are false.

## Not modelled, and what comes next

Left out throughout: payloads, error texts, timestamps, durations. A write the server
applies only after the driver has given up on it is left out as well. Within the modelled
parts:

* `AgentGraph`: the synthesizer's merging branch (unreachable), MCP results without
  structured content, `max_hops` (nothing compares `hop_count` with it), scores and
  filters;
* `Lifespan`: the MCP transport's session manager, and repositories that cannot be
  constructed (a missing method of the driver);
* `KnowledgeIngestion`: the search route, which is the retrieval of `AgentGraph`, file
  types and page numbers;
* `RequestObservation`: labels other than the status, durations, inner spans, and the
  token counters of the LLM service, whose outcomes are `CountedAsEnded` of `LLMProvider`;
* of the web client's socket, `disconnect()` (called only when the page is torn down) and
  the heartbeat;
* of the inspection routes, the paginated list: one `find` and one `count`, which promise
  each other nothing.

Components left out: the Redis stores, each operation of which is one command or one
transaction, and nothing in `B` calls two in a row; `ChatStateService`, which belongs to a
page no route leads to; users, conversations and messages of the repositories, which no
route uses; the execution and knowledge pages, which show copies of the last answer they
received; load tests, scripts, infrastructure and page templates.

What comes next: model the two read-only pages, whose hazards no property covers; bound the
steps of a call and of a connection as `RunsAdvance` does those of an execution; and compose
`WebSocketSession` with `MultiAgentExecution`, so that the order on the wire and the order of
the events are one theorem.
