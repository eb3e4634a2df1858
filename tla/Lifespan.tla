------------------------------ MODULE Lifespan ------------------------------
(***************************************************************************)
(* The life of one backend process: api/app.py's lifespan, the services it *)
(* builds and closes, and the requests that are served in between with the *)
(* cached LLM service of api/dependencies.py.                              *)
(*                                                                         *)
(* A stage of the lifespan is the await it stands at.  Requests run only   *)
(* while the process is serving: the server starts after the startup and   *)
(* stops after the last request.                                           *)
(*                                                                         *)
(* Init, Next and Spec carry the component's name: LLMProviderProofs puts  *)
(* this module beside LLMProvider, the service that the process shares.    *)
(***************************************************************************)
EXTENDS Naturals, Sequences, FiniteSets, FiniteSetsExt

CONSTANTS
    Requests,   \* calls of /llm/chat and connections to /ws/chat
    None

Dependencies == {"redis", "mongodb", "qdrant"}

Clients == Dependencies \cup {"embeddings"}

Makers == Requests \cup {"startup"}     \* who has built an LLM service

ASSUME NotAMaker == None \notin Makers /\ "startup" \notin Requests

VARIABLES
    stage,      \* the await of the lifespan: <<what, of which service>>
    client,     \* the connections to the outside
    published,  \* the dependencies app.state offers to the routes
    tools,      \* configure_mcp_services has been given its services
    agents,     \* app.state.multi_agent_service is set
    persistent, \* ... and has been given the repositories
    service,    \* LLM services by their maker, with their HTTP client
    cached,     \* the one get_llm_service remembers
    request,    \* where each request is
    holds,      \* the LLM service each request has been given
    abandoned   \* what failed to close and ended the shutdown early

processVars == <<stage, client, published, tools, agents, persistent, service, cached,
                 request, holds, abandoned>>

built == <<client, published, tools, agents, persistent>>
served == <<service, cached, request, holds>>

(***************************************************************************)
(* Closing happens in this order; what is not there is passed over.        *)
(***************************************************************************)
Closing == <<"llm", "embeddings", "qdrant", "mongodb", "redis">>

NeedsClose(c) ==
    CASE c = "llm" -> cached # None
      [] c = "embeddings" -> client[c] = "open"
      [] OTHER -> c \in published

CloseFrom(i) ==
    LET left == {j \in i .. Len(Closing) : NeedsClose(Closing[j])}
    IN  IF left = {} THEN <<"clear", None>> ELSE <<"close", Closing[Min(left)]>>

Position(c) == CHOOSE i \in 1 .. Len(Closing) : Closing[i] = c

AfterDependency(d) ==
    CASE d = "redis" -> <<"verify", "mongodb">>
      [] d = "mongodb" -> <<"verify", "qdrant">>
      [] d = "qdrant" -> <<"serve", None>>

Stages == ({"verify", "drop", "schema"} \X Dependencies)
    \cup ({"close"} \X {Closing[i] : i \in 1 .. Len(Closing)})
    \cup ({"serve", "clear", "stopped"} \X {None})

LifespanTypeOK ==
    /\ stage \in Stages
    /\ client \in [Clients -> {"none", "open", "closed"}]
    /\ published \subseteq Dependencies
    /\ {tools, agents, persistent} \subseteq BOOLEAN
    /\ service \in [Makers -> {"none", "idle", "open", "closed"}]
    /\ cached \in Makers \cup {None}
    /\ request \in [Requests -> {"new", "missed", "ready", "calling", "done"}]
    /\ holds \in [Requests -> Makers \cup {None}]
    /\ abandoned \in {Closing[i] : i \in 1 .. Len(Closing)} \cup {None}

LifespanInit ==
    /\ stage = <<"verify", "redis">>
    /\ client = [c \in Clients |-> IF c = "embeddings" THEN "none" ELSE "open"]
    /\ published = {}
    /\ tools = FALSE /\ agents = FALSE /\ persistent = FALSE
    /\ service = [m \in Makers |-> "none"]
    /\ cached = None
    /\ request = [r \in Requests |-> "new"]
    /\ holds = [r \in Requests |-> None]
    /\ abandoned = None

-----------------------------------------------------------------------------
(***************************************************************************)
(* Startup.  A dependency that answers is published; one that does not is  *)
(* closed, and the application goes on without it.                         *)
(***************************************************************************)
Publish(d) ==
    /\ published' = published \cup {d}
    /\ stage' = AfterDependency(d)

PublishRedis ==
    /\ stage = <<"verify", "redis">>
    /\ Publish("redis")
    /\ UNCHANGED <<client, tools, agents, persistent, served, abandoned>>

MongodbAnswers ==
    /\ stage = <<"verify", "mongodb">>
    /\ stage' = <<"schema", "mongodb">>
    /\ UNCHANGED <<built, served, abandoned>>

PublishMongodb ==
    /\ stage = <<"schema", "mongodb">>
    /\ Publish("mongodb")
    /\ UNCHANGED <<client, tools, agents, persistent, served, abandoned>>

\* From here to the yield there is no await: retrieval, the MCP services and
\* the agents appear together, over the LLM service get_llm_service now remembers.
PublishQdrant ==
    /\ stage = <<"verify", "qdrant">>
    /\ Publish("qdrant")
    /\ client' = [client EXCEPT !["embeddings"] = "open"]
    /\ service' = [service EXCEPT !["startup"] = "idle"]
    /\ cached' = "startup"
    /\ tools' = TRUE /\ agents' = TRUE /\ persistent' = ("mongodb" \in published)
    /\ UNCHANGED <<request, holds, abandoned>>

Unavailable ==
    /\ stage[1] \in {"verify", "schema"}
    /\ stage' = <<"drop", stage[2]>>
    /\ UNCHANGED <<built, served, abandoned>>

\* Mutant: a dependency that did not answer is published all the same.
DroppedButPublished ==
    /\ stage[1] = "drop"
    /\ client' = [client EXCEPT ![stage[2]] = "closed"]
    /\ Publish(stage[2])
    /\ UNCHANGED <<tools, agents, persistent, served, abandoned>>

Dropped ==
    /\ stage[1] = "drop"
    /\ client' = [client EXCEPT ![stage[2]] = "closed"]
    /\ stage' = AfterDependency(stage[2])
    /\ UNCHANGED <<published, tools, agents, persistent, served, abandoned>>

-----------------------------------------------------------------------------
(***************************************************************************)
(* The `finally` of the lifespan, entered from the yield or from an        *)
(* exception the startup does not expect.                                  *)
(***************************************************************************)
Finally ==
    /\ tools' = FALSE
    /\ agents' = FALSE
    /\ persistent' = FALSE
    /\ stage' = CloseFrom(1)
    /\ UNCHANGED <<client, published, served, abandoned>>

StartupRaises ==
    /\ stage[1] \in {"verify", "schema", "drop"}
    /\ Finally

Stop ==
    /\ stage[1] = "serve"
    /\ \A r \in Requests : request[r] \in {"new", "done"}
    /\ Finally

CloseLLM ==
    /\ stage = <<"close", "llm">>
    /\ service' = [service EXCEPT ![cached] = "closed"]
    /\ cached' = None
    /\ stage' = CloseFrom(2)
    /\ UNCHANGED <<built, request, holds, abandoned>>

\* Mutant: closing one client leaves the next one out.
CloseClientSkippingNext ==
    /\ stage[1] = "close" /\ stage[2] # "llm"
    /\ client' = [client EXCEPT ![stage[2]] = "closed"]
    /\ stage' = CloseFrom(Position(stage[2]) + 2)
    /\ UNCHANGED <<published, tools, agents, persistent, served, abandoned>>

CloseClient ==
    /\ stage[1] = "close" /\ stage[2] # "llm"
    /\ client' = [client EXCEPT ![stage[2]] = "closed"]
    /\ stage' = CloseFrom(Position(stage[2]) + 1)
    /\ UNCHANGED <<published, tools, agents, persistent, served, abandoned>>

\* Nothing catches it: the clients that come later are not closed.
CloseRaises ==
    /\ stage[1] = "close"
    /\ abandoned' = stage[2]
    /\ stage' = <<"stopped", None>>
    /\ UNCHANGED <<built, served>>

Clear ==
    /\ stage[1] = "clear"
    /\ published' = {}
    /\ stage' = <<"stopped", None>>
    /\ UNCHANGED <<client, tools, agents, persistent, served, abandoned>>

-----------------------------------------------------------------------------
(***************************************************************************)
(* A request asks for the LLM service on a thread of its own: FastAPI runs *)
(* the dependency, a plain function, in the thread pool.  lru_cache looks  *)
(* up, calls the function on a miss and remembers the first result.        *)
(***************************************************************************)
Hit(r) ==
    /\ stage[1] = "serve" /\ request[r] = "new" /\ cached # None
    /\ request' = [request EXCEPT ![r] = "ready"]
    /\ holds' = [holds EXCEPT ![r] = cached]
    /\ UNCHANGED <<stage, built, service, cached, abandoned>>

Miss(r) ==
    /\ stage[1] = "serve" /\ request[r] = "new" /\ cached = None
    /\ request' = [request EXCEPT ![r] = "missed"]
    /\ UNCHANGED <<stage, built, service, cached, holds, abandoned>>

\* Mutant: the last service built is the one remembered.
BuildAndReplace(r) ==
    /\ request[r] = "missed"
    /\ request' = [request EXCEPT ![r] = "ready"]
    /\ service' = [service EXCEPT ![r] = "idle"]
    /\ holds' = [holds EXCEPT ![r] = r]
    /\ cached' = r
    /\ UNCHANGED <<stage, built, abandoned>>

Build(r) ==
    /\ request[r] = "missed"
    /\ request' = [request EXCEPT ![r] = "ready"]
    /\ service' = [service EXCEPT ![r] = "idle"]
    /\ holds' = [holds EXCEPT ![r] = r]
    /\ cached' = IF cached = None THEN r ELSE cached
    /\ UNCHANGED <<stage, built, abandoned>>

\* _get_client opens the HTTP client of the provider at its first call.
CallModel(r) ==
    /\ request[r] = "ready"
    /\ request' = [request EXCEPT ![r] = "calling"]
    /\ service' = [service EXCEPT ![holds[r]] = "open"]
    /\ UNCHANGED <<stage, built, cached, holds, abandoned>>

\* A run of the agents uses the service it was built with.
RunAgents ==
    /\ stage[1] = "serve" /\ agents
    /\ service["startup"] = "idle"
    /\ service' = [service EXCEPT !["startup"] = "open"]
    /\ UNCHANGED <<stage, built, cached, request, holds, abandoned>>

Answer(r) ==
    /\ request[r] \in {"ready", "calling"}
    /\ request' = [request EXCEPT ![r] = "done"]
    /\ UNCHANGED <<stage, built, service, cached, holds, abandoned>>

\* GET /platform/status: what the flags of app.state say, without asking anybody.
PlatformStatus ==
    IF published = Dependencies /\ agents /\ tools THEN "healthy" ELSE "degraded"

-----------------------------------------------------------------------------
LifespanNext ==
    \/ PublishRedis \/ MongodbAnswers \/ PublishMongodb \/ PublishQdrant
    \/ Unavailable \/ Dropped \/ StartupRaises
    \/ Stop \/ CloseLLM \/ CloseClient \/ CloseRaises \/ Clear
    \/ RunAgents
    \/ \E r \in Requests :
        Hit(r) \/ Miss(r) \/ Build(r) \/ CallModel(r) \/ Answer(r)

LifespanSpec == LifespanInit /\ [][LifespanNext]_processVars

-----------------------------------------------------------------------------
\* What the routes see while the process serves fits together, whichever of the
\* dependencies failed at whichever step of the startup (app.py:110-226): a
\* dependency is offered or its client has been closed, the agents are there exactly
\* when MCP and Qdrant are, their runs are recorded exactly when MongoDB is there, and
\* the platform calls itself healthy exactly when every client is open.
ServingIsConsistent ==
    /\ LifespanTypeOK
    /\ stage[1] = "serve" =>
           /\ published = {d \in Dependencies : client[d] = "open"}
           /\ \A c \in Dependencies : client[c] # "none"
           /\ agents = ("qdrant" \in published)
           /\ tools = agents
           /\ agents = (client["embeddings"] = "open")
           /\ persistent = (agents /\ "mongodb" \in published)
           /\ PlatformStatus = "healthy" <=> \A c \in Clients : client[c] = "open"

\* The shutdown closes what the startup opened (app.py:230-250).  When a close raises,
\* everything before it in the order of closing is closed; when none does, everything
\* that was offered is, the cache is empty, and the only LLM services with an open
\* HTTP client are those that lost the race of two first requests.
ShutdownCloses ==
    LET reached == IF abandoned = None THEN Len(Closing) + 1 ELSE Position(abandoned)
    IN  stage[1] = "clear" \/ abandoned # None =>
            /\ \A c \in published \cup {"embeddings"} :
                   Position(c) < reached => client[c] # "open"
            /\ 1 < reached =>
                   /\ cached = None
                   /\ \A m \in Makers : service[m] = "open" =>
                          \E n \in Makers \ {m} : service[n] = "closed"

\* The limit on concurrent model calls belongs to an LLM service, so it holds for the
\* process only if everybody uses the same one (dependencies.py:16).  With the agents
\* there everybody does.  Without them a request may use one of its own, if it missed
\* the cache while another was filling it, and nobody uses a third.
ModelServiceIsShared ==
    stage[1] = "serve" =>
        /\ agents => cached = "startup"
        /\ \A r \in Requests :
               /\ holds[r] \in {None, r, cached}
               /\ agents => holds[r] \in {None, cached}

=============================================================================
