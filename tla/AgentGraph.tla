------------------------------ MODULE AgentGraph ------------------------------
(***************************************************************************)
(* One run of the compiled agent graph: the supervisor, a specialist with  *)
(* the retrieval, generation and MCP calls it makes, and the synthesizer.  *)
(* A step ends where the code awaits a call.                               *)
(*                                                                         *)
(* Texts are abstracted to what they are.  A chunk stands for its payload; *)
(* the chunks in Broken have a payload the retriever refuses.              *)
(***************************************************************************)
EXTENDS Naturals, Sequences, FiniteSets, SequencesExt

CONSTANTS
    Chunks,         \* what the index can return
    Broken,         \* points without a field, or with a blank text
    RetrievalLimit  \* how many chunks a retrieval returns at most

ASSUME IndexAssumption == Broken \subseteq Chunks /\ RetrievalLimit \in Nat \ {0}

VARIABLES
    node,       \* the node at work, or how the run ended
    call,       \* the call it awaits
    state,      \* AgentState
    tool,       \* the MCP tool that has been chosen
    context,    \* the chunks in the prompt of the grounded answer
    cause       \* what the run depends on and has failed

vars == <<node, call, state, tool, context, cause>>

Routes == {"research", "mcp", "general"}

RetrievalTools == {"search_knowledge", "answer_with_rag"}

Contents == {"text", "grounded", "no_context", "hits", "status"}

Errors == {"LLMProviderError", "EmbeddingError", "RetrievalError", "RAGGenerationError",
           "MCPError", "ValueError", "InvalidTool", "BlankAnswer"}

Nothing == "nothing"

(***************************************************************************)
(* What a node returns is merged into the state: lists are appended.       *)
(***************************************************************************)
Reduce(update) ==
    [state EXCEPT !.results = Append(@, update.result),
                  !.sources = @ \o update.sources,
                  !.errors = @ + update.errors,
                  !.hops = @ + 1]

Succeeded(agent, content, sources) ==
    [result |-> [agent |-> agent, status |-> "success", content |-> content],
     sources |-> sources, errors |-> 0]

Failed(agent) ==
    [result |-> [agent |-> agent, status |-> "failed", content |-> Nothing],
     sources |-> <<>>, errors |-> 1]

\* The sources of a grounded answer: the i-th chunk of the prompt is cited as S<i>.
Cited(chunks) == [i \in DOMAIN chunks |-> [citation |-> i, chunk |-> chunks[i]]]

Sources == [citation : 1 .. RetrievalLimit, chunk : Chunks]

TypeOK ==
    /\ node \in {"supervisor", "synthesizer", "end", "raised"} \cup Routes
    /\ call \in {Nothing, "route", "list", "decide", "reply", "embed", "search", "generate"}
    /\ state.route \in Routes \cup {Nothing}
    /\ state.response \in Contents \cup {Nothing, "apology"}
    /\ state.sources \in Seq(Sources)
    /\ state.hops = Len(state.results) + (IF state.route = Nothing THEN 0 ELSE 1)
    /\ tool \in RetrievalTools \cup {Nothing, "platform_status"}
    /\ context \in Seq(Chunks)
    /\ cause \in Errors \cup {Nothing}

Init ==
    /\ node = "supervisor" /\ call = Nothing
    /\ state = [route |-> Nothing, results |-> <<>>, sources |-> <<>>, errors |-> 0,
                hops |-> 0, response |-> Nothing]
    /\ tool = Nothing /\ context = <<>> /\ cause = Nothing

Await(c) ==
    /\ call' = c
    /\ UNCHANGED <<node, state>>

Return(update) ==
    /\ state' = Reduce(update)
    /\ node' = "synthesizer" /\ call' = Nothing

-----------------------------------------------------------------------------
\* SupervisorAgent: a phrase of the query decides, or the model does.
RouteTo(r) ==
    /\ state' = [state EXCEPT !.route = r, !.hops = @ + 1]
    /\ node' = r /\ call' = Nothing
    /\ UNCHANGED <<tool, context, cause>>

RouteByPhrase ==
    /\ node = "supervisor" /\ call = Nothing
    /\ \E r \in {"research", "mcp"} : RouteTo(r)

RouteByModel ==
    /\ node = "supervisor" /\ call = "route"
    /\ \E r \in Routes : RouteTo(r)

\* The first call of a node.
Begin ==
    /\ call = Nothing
    /\ \/ node = "supervisor" /\ Await("route")
       \/ node = "research" /\ Await("embed")
       \/ node = "mcp" /\ Await("list")
       \/ node = "general" /\ Await("generate")
    /\ UNCHANGED <<tool, context, cause>>

-----------------------------------------------------------------------------
(***************************************************************************)
(* Exceptions.  Research catches what retrieval and grounded generation    *)
(* raise; the MCP server turns whatever its tool raises into an error      *)
(* result, and the MCP agent catches the protocol's own.  Everything else  *)
(* leaves the graph.                                                       *)
(***************************************************************************)
Caught(error) ==
    \/ node = "research" /\ error \in {"RetrievalError", "RAGGenerationError"}
    \/ node = "mcp" /\ call # "decide"

Throw(error) ==
    /\ cause' = error
    /\ IF Caught(error)
       THEN Return(Failed(node))
       ELSE node' = "raised" /\ call' = Nothing /\ UNCHANGED state
    /\ UNCHANGED <<tool, context>>

Raised ==
    CASE call \in {"route", "decide", "generate"} -> "LLMProviderError"
      [] call = "embed" -> "EmbeddingError"
      [] call = "search" -> "RetrievalError"
      [] call \in {"list", "reply"} -> "MCPError"

CallFails == call # Nothing /\ Throw(Raised)

-----------------------------------------------------------------------------
\* MCPAgent: list the tools, let the model choose one, call it.
ToolsAreListed ==
    /\ call = "list"
    /\ Await("decide")
    /\ UNCHANGED <<tool, context, cause>>

ToolIsChosen ==
    /\ call = "decide"
    /\ \E t \in RetrievalTools \cup {"platform_status"} :
        /\ tool' = t
        /\ Await(IF t \in RetrievalTools THEN "embed" ELSE "reply")
    /\ UNCHANGED <<context, cause>>

\* The model named a tool that is not in the catalog.
ToolIsUnknown ==
    /\ call = "decide"
    /\ cause' = "InvalidTool"
    /\ Return(Failed("mcp"))
    /\ UNCHANGED <<tool, context>>

\* The model chose arguments the retriever refuses: a blank question, a limit or
\* a threshold out of range, a blank filter.
ArgumentsAreRefused == node = "mcp" /\ call = "embed" /\ Throw("ValueError")

StatusIsReported ==
    /\ call = "reply"
    /\ Return(Succeeded("mcp", "status", <<>>))
    /\ UNCHANGED <<tool, context, cause>>

-----------------------------------------------------------------------------
\* SemanticRetriever and RAGService, called by the research node or by a tool.
QueryIsEmbedded ==
    /\ call = "embed"
    /\ Await("search")
    /\ UNCHANGED <<tool, context, cause>>

ChunksAreFound ==
    /\ call = "search"
    /\ \E n \in 0 .. RetrievalLimit : \E found \in [1 .. n -> Chunks] :
        /\ IsInjective(found)
        /\ IF ToSet(found) \cap Broken # {} THEN Throw("RetrievalError")
           ELSE /\ UNCHANGED <<tool, cause>>
                /\ CASE tool = "search_knowledge" ->
                            Return(Succeeded(node, "hits", <<>>)) /\ UNCHANGED context
                     [] tool # "search_knowledge" /\ n = 0 ->
                            Return(Succeeded(node, "no_context", <<>>)) /\ UNCHANGED context
                     [] OTHER -> Await("generate") /\ context' = found

\* A grounded answer, or the direct one of GeneralAgent.
ModelAnswers ==
    /\ call = "generate"
    /\ IF node = "general" THEN Return(Succeeded(node, "text", <<>>))
                           ELSE Return(Succeeded(node, "grounded", Cited(context)))
    /\ UNCHANGED <<tool, context, cause>>

\* Mutant: a blank answer is passed on.
BlankIsPassedOn ==
    /\ call = "generate"
    /\ cause' = "BlankAnswer"
    /\ Return(Succeeded(node, "text", <<>>))
    /\ UNCHANGED <<tool, context>>

ModelAnswersBlank ==
    /\ call = "generate"
    /\ IF node = "general"
       THEN cause' = "BlankAnswer" /\ Return(Failed("general")) /\ UNCHANGED <<tool, context>>
       ELSE Throw("RAGGenerationError")

-----------------------------------------------------------------------------
\* SynthesizerAgent.  One specialist has run, so there is one successful result or
\* none, and the branch that asks the model to merge several is never taken.
Successes == {i \in DOMAIN state.results : state.results[i].status = "success"}

FirstSuccess == state.results[CHOOSE i \in Successes : \A j \in Successes : i <= j]

\* Mutant: the update repeats the sources it puts into its result.
SynthesizeWithSources ==
    /\ node = "synthesizer"
    /\ IF Successes = {}
       THEN state' = [Reduce(Failed("synthesizer")) EXCEPT !.response = "apology"]
       ELSE state' = [Reduce(Succeeded("synthesizer", FirstSuccess.content, state.sources))
                        EXCEPT !.response = FirstSuccess.content]
    /\ node' = "end"
    /\ UNCHANGED <<call, tool, context, cause>>

\* Mutant: without a successful result the synthesizer raises.
SynthesizeOrRaise ==
    /\ node = "synthesizer"
    /\ IF Successes = {}
       THEN node' = "raised" /\ UNCHANGED state
       ELSE /\ node' = "end"
            /\ state' = [Reduce(Succeeded("synthesizer", FirstSuccess.content, <<>>))
                            EXCEPT !.response = FirstSuccess.content]
    /\ UNCHANGED <<call, tool, context, cause>>

Synthesize ==
    /\ node = "synthesizer"
    /\ IF Successes = {}
       THEN state' = [Reduce(Failed("synthesizer")) EXCEPT !.response = "apology"]
       ELSE state' = [Reduce(Succeeded("synthesizer", FirstSuccess.content, <<>>))
                        EXCEPT !.response = FirstSuccess.content]
    /\ node' = "end"
    /\ UNCHANGED <<call, tool, context, cause>>

-----------------------------------------------------------------------------
Next ==
    \/ Begin \/ RouteByPhrase \/ RouteByModel
    \/ ToolsAreListed \/ ToolIsChosen \/ ToolIsUnknown \/ ArgumentsAreRefused
    \/ StatusIsReported
    \/ QueryIsEmbedded \/ ChunksAreFound \/ ModelAnswers \/ ModelAnswersBlank
    \/ CallFails \/ Synthesize

Spec == Init /\ [][Next]_vars

-----------------------------------------------------------------------------
\* What a run cites is what the model was given (rag/service.py:157-201, through
\* either specialist and the synthesizer): the sources of a grounded answer are the
\* chunks of its prompt, in their order, each once, under the citation it has there,
\* and no broken point is among them.  No other answer has a source, however many
\* calls were made on the way to it.
AnswersAreGrounded ==
    /\ TypeOK
    /\ node = "end" =>
           /\ state.sources = IF state.response = "grounded"
                              THEN [i \in DOMAIN context |->
                                       [citation |-> i, chunk |-> context[i]]]
                              ELSE <<>>
           /\ state.response = "grounded" => context # <<>>
           /\ ToSet(context) \cap Broken = {}

\* No failure is lost between the call it happens in and the answer
\* (research.py:26, mcp_agent.py:201-226, synthesizer.py:142): a run that ends
\* apologises if and only if something it depends on has failed, with one error for
\* each failed result; and a run raises only when the model or the embeddings failed,
\* outside the tools: neither a search nor a tool that failed is ever the reason.
FailuresAreTold ==
    /\ node = "end" =>
        /\ cause # Nothing <=> state.response = "apology"
        /\ state.errors = Cardinality({i \in DOMAIN state.results : state.results[i].status = "failed"})
        /\ state.errors = (IF cause # Nothing THEN 2 ELSE 0)
    /\ node = "raised" =>
        /\ cause \in {"LLMProviderError", "EmbeddingError"}
        /\ state.route = "mcp" => tool = Nothing

\* A run is a run of the abstract graph, which is what MultiAgentExecution takes a
\* graph to be (multi_agent_service.py:252-362).
Run == INSTANCE GraphRun WITH
    step <- IF node \in Routes THEN "specialist" ELSE node,
    count <- Len(state.results),
    answered <- state.response # Nothing

ImplementsGraphRun == Run!Spec

=============================================================================
