-------------------------- MODULE AgentGraphProofs --------------------------
(***************************************************************************)
(* What holds of AgentGraph for every index and every retrieval limit.     *)
(* IInv says for each node what the run has done when it gets there: the   *)
(* state a node starts from is fixed by the route, and the state a         *)
(* specialist leaves behind is fixed by its one result.  From it follow    *)
(* the two safety properties, that a run goes in no circles and, step by   *)
(* step, the refinement of GraphRun.                                       *)
(***************************************************************************)
EXTENDS AgentGraph, FiniteSetTheorems, TLAPS

\* AgentState before the supervisor has decided, and after it has.
Initial == [route |-> Nothing, results |-> <<>>, sources |-> <<>>, errors |-> 0,
            hops |-> 0, response |-> Nothing]

Routed(r) == [route |-> r, results |-> <<>>, sources |-> <<>>, errors |-> 0,
              hops |-> 1, response |-> Nothing]

\* ... after a specialist has returned, and after the synthesizer has.
Worked(r, first, sources, errors) ==
    [route |-> r, results |-> <<first>>, sources |-> sources, errors |-> errors,
     hops |-> 2, response |-> Nothing]

Ended(r, first, last, sources, errors, response) ==
    [route |-> r, results |-> <<first, last>>, sources |-> sources, errors |-> errors,
     hops |-> 3, response |-> response]

Result(agent, status, content) == [agent |-> agent, status |-> status, content |-> content]

\* The sources that go with a content: those of the prompt, or none.
Backing(content) == IF content = "grounded" THEN Cited(context) ELSE <<>>

Backed(content) == content \in Contents /\ (content = "grounded" => context # <<>>)

AtSupervisor ==
    node = "supervisor" =>
        /\ call \in {Nothing, "route"}
        /\ state = Initial
        /\ tool = Nothing /\ context = <<>> /\ cause = Nothing

\* Which calls a specialist awaits, and with which tool.
Awaits(r) ==
    CASE r = "general" -> call \in {Nothing, "generate"} /\ tool = Nothing
      [] r = "research" -> call \in {Nothing, "embed", "search", "generate"} /\ tool = Nothing
      [] r = "mcp" -> \/ call \in {Nothing, "list", "decide"} /\ tool = Nothing
                      \/ call = "reply" /\ tool = "platform_status"
                      \/ call \in {"embed", "search"} /\ tool \in RetrievalTools
                      \/ call = "generate" /\ tool = "answer_with_rag"

AtSpecialist ==
    node \in Routes =>
        /\ Awaits(node)
        /\ state = Routed(node)
        /\ context # <<>> <=> call = "generate" /\ node # "general"
        /\ cause = Nothing

AtSynthesizer ==
    node = "synthesizer" =>
        /\ call = Nothing
        /\ \E r \in Routes :
              \/ \E content \in Contents :
                    /\ state = Worked(r, Result(r, "success", content), Backing(content), 0)
                    /\ Backed(content)
                    /\ cause = Nothing
              \/ /\ state = Worked(r, Result(r, "failed", Nothing), <<>>, 1)
                 /\ cause \in Errors

AtEnd ==
    node = "end" =>
        /\ call = Nothing
        /\ \E r \in Routes :
              \/ \E content \in Contents :
                    /\ state = Ended(r, Result(r, "success", content),
                                     Result("synthesizer", "success", content),
                                     Backing(content), 0, content)
                    /\ Backed(content)
                    /\ cause = Nothing
              \/ /\ state = Ended(r, Result(r, "failed", Nothing),
                                  Result("synthesizer", "failed", Nothing),
                                  <<>>, 2, "apology")
                 /\ cause \in Errors

AtRaised ==
    node = "raised" =>
        /\ call = Nothing
        /\ state = Initial \/ \E r \in Routes : state = Routed(r)
        /\ cause \in {"LLMProviderError", "EmbeddingError"}
        /\ state.route = "mcp" => tool = Nothing

\* The prompt of a grounded answer, and the tool.
ContextInv ==
    /\ context \in Seq(Chunks) /\ Len(context) <= RetrievalLimit
    /\ \A i \in DOMAIN context : context[i] \notin Broken
    /\ tool \in RetrievalTools \cup {Nothing, "platform_status"}

IInv ==
    /\ node \in {"supervisor", "synthesizer", "end", "raised"} \cup Routes
    /\ AtSupervisor /\ AtSpecialist /\ AtSynthesizer /\ AtEnd /\ AtRaised
    /\ ContextInv

-----------------------------------------------------------------------------
\* The second of two results goes behind the first.
LEMMA AppendToOne ==
  ASSUME NEW first, NEW last
  PROVE  Append(<<first>>, last) = <<first, last>>
<1> DEFINE S == {first, last}
           both == Append(<<first>>, last)
           pair == <<first, last>>
<1>1. both \in Seq(S) /\ Len(both) = 2 /\ both[1] = first /\ both[2] = last
  <2>1. <<first>> \in Seq(S) /\ last \in S /\ Len(<<first>>) = 1 /\ <<first>>[1] = first
    OBVIOUS
  <2> HIDE DEF S
  <2> QED
    BY <2>1
<1>2. pair \in Seq(S) /\ Len(pair) = 2 /\ pair[1] = first /\ pair[2] = last
  OBVIOUS
<1>3. both = pair
  <2> HIDE DEF both, pair, S
  <2>1. Len(both) = Len(pair) /\ \A i \in 1 .. Len(both) : both[i] = pair[i]
    BY <1>1, <1>2
  <2> QED
    BY <1>1, <1>2, <2>1
<1> QED
  BY <1>3

\* What the reducers make of an update, field by field.
LEMMA ReduceFields ==
  ASSUME state = [route |-> state.route, results |-> state.results, sources |-> state.sources,
                  errors |-> state.errors, hops |-> state.hops, response |-> state.response],
         NEW result, NEW added, NEW failed
  PROVE  Reduce([result |-> result, sources |-> added, errors |-> failed])
            = [route |-> state.route, results |-> Append(state.results, result),
               sources |-> state.sources \o added, errors |-> state.errors + failed,
               hops |-> state.hops + 1, response |-> state.response]
<1> DEFINE results == Append(state.results, result)
           sources == state.sources \o added
           errors == state.errors + failed
           hops == state.hops + 1
           one == [state EXCEPT !.results = results]
           two == [one EXCEPT !.sources = sources]
           three == [two EXCEPT !.errors = errors]
           four == [three EXCEPT !.hops = hops]
<1>1. Reduce([result |-> result, sources |-> added, errors |-> failed]) = four
  BY DEF Reduce
<1> HIDE DEF results, sources, errors, hops
<1>2. one = [route |-> state.route, results |-> results, sources |-> state.sources,
             errors |-> state.errors, hops |-> state.hops, response |-> state.response]
  OBVIOUS
<1> HIDE DEF one
<1>3. two = [route |-> state.route, results |-> results, sources |-> sources,
             errors |-> state.errors, hops |-> state.hops, response |-> state.response]
  BY <1>2
<1> HIDE DEF two
<1>4. three = [route |-> state.route, results |-> results, sources |-> sources,
               errors |-> errors, hops |-> state.hops, response |-> state.response]
  BY <1>3
<1> HIDE DEF three
<1>5. four = [route |-> state.route, results |-> results, sources |-> sources,
              errors |-> errors, hops |-> hops, response |-> state.response]
  BY <1>4
<1> QED
  BY <1>1, <1>5 DEF results, sources, errors, hops

\* The first update of a run: its result, its sources, its errors, one more hop.
LEMMA FirstReduction ==
  ASSUME NEW r \in Routes, state = Routed(r),
         NEW result, NEW sources \in Seq(Sources), NEW errors \in Nat
  PROVE  Reduce([result |-> result, sources |-> sources, errors |-> errors])
            = Worked(r, result, sources, errors)
<1>1. /\ state.route = r /\ state.results = <<>> /\ state.sources = <<>>
      /\ state.errors = 0 /\ state.hops = 1 /\ state.response = Nothing
      /\ state = [route |-> state.route, results |-> state.results,
                  sources |-> state.sources, errors |-> state.errors,
                  hops |-> state.hops, response |-> state.response]
  BY DEF Routed
<1>2. Append(<<>>, result) = <<result>>
  OBVIOUS
<1>3. <<>> \o sources = sources
  OBVIOUS
<1>4. 0 + errors = errors /\ 1 + 1 = 2
  OBVIOUS
<1>5. Reduce([result |-> result, sources |-> sources, errors |-> errors])
        = [route |-> state.route, results |-> Append(state.results, result),
           sources |-> state.sources \o sources, errors |-> state.errors + errors,
           hops |-> state.hops + 1, response |-> state.response]
  BY <1>1, ReduceFields
<1> QED
  BY <1>1, <1>2, <1>3, <1>4, <1>5 DEF Worked

\* The last one brings no sources; the answer is put in beside it.
LEMMA LastReduction ==
  ASSUME NEW r \in Routes, NEW first, NEW sources \in Seq(Sources), NEW n \in Nat,
         state = Worked(r, first, sources, n),
         NEW last, NEW m \in Nat
  PROVE  Reduce([result |-> last, sources |-> <<>>, errors |-> m])
            = Ended(r, first, last, sources, n + m, Nothing)
<1>1. /\ state.route = r /\ state.results = <<first>> /\ state.sources = sources
      /\ state.errors = n /\ state.hops = 2 /\ state.response = Nothing
      /\ state = [route |-> state.route, results |-> state.results,
                  sources |-> state.sources, errors |-> state.errors,
                  hops |-> state.hops, response |-> state.response]
  BY DEF Worked
<1>2. Append(<<first>>, last) = <<first, last>>
  BY AppendToOne
<1>3. sources \o <<>> = sources
  OBVIOUS
<1>4. 2 + 1 = 3
  OBVIOUS
<1>5. Reduce([result |-> last, sources |-> <<>>, errors |-> m])
        = [route |-> state.route, results |-> Append(state.results, last),
           sources |-> state.sources \o <<>>, errors |-> state.errors + m,
           hops |-> state.hops + 1, response |-> state.response]
  BY <1>1, ReduceFields
<1>6. Reduce([result |-> last, sources |-> <<>>, errors |-> m])
        = [route |-> r, results |-> <<first, last>>, sources |-> sources, errors |-> n + m,
           hops |-> 3, response |-> Nothing]
  BY <1>1, <1>2, <1>3, <1>4, <1>5
<1> QED
  BY <1>6 DEF Ended

\* The sources of an answer cite the prompt: one entry for each chunk, within the limit.
LEMMA CitedTyped ==
  ASSUME ContextInv
  PROVE  /\ Cited(context) \in Seq(Sources)
         /\ \A content : Backing(content) \in Seq(Sources)
<1>1. context \in Seq(Chunks) /\ Len(context) <= RetrievalLimit
  BY DEF ContextInv
<1>2. \A i \in 1 .. Len(context) :
        [citation |-> i, chunk |-> context[i]] \in Sources
  <2> TAKE i \in 1 .. Len(context)
  <2>1. i \in 1 .. RetrievalLimit /\ context[i] \in Chunks
    BY <1>1, IndexAssumption
  <2> QED
    BY <2>1 DEF Sources
<1>3. Cited(context) = [i \in 1 .. Len(context) |-> [citation |-> i, chunk |-> context[i]]]
  BY <1>1 DEF Cited
<1>4. Cited(context) \in Seq(Sources)
  BY <1>1, <1>2, <1>3
<1> QED
  BY <1>4 DEF Backing

\* A run starts at the supervisor with an empty AgentState.
LEMMA InitIInv == Init => IInv
BY IndexAssumption DEF Init, IInv, AtSupervisor, AtSpecialist, AtSynthesizer, AtEnd, AtRaised,
    ContextInv, Initial, Routes, Nothing

-----------------------------------------------------------------------------
\* A specialist that returns a success leaves one result behind, with the sources of
\* its content.
LEMMA SuccessStep ==
  ASSUME IInv, node \in Routes, NEW content \in Contents, Backed(content),
         Return(Succeeded(node, content, Backing(content))),
         UNCHANGED <<tool, context, cause>>
  PROVE  IInv'
<1>1. state = Routed(node) /\ cause = Nothing /\ ContextInv
  BY DEF IInv, AtSpecialist
<1>2. Backing(content) \in Seq(Sources)
  BY <1>1, CitedTyped
<1>3. state' = Worked(node, Result(node, "success", content), Backing(content), 0)
  BY <1>1, <1>2, FirstReduction DEF Return, Succeeded, Result
<1>4. Backing(content)' = Backing(content) /\ Backed(content)'
  BY DEF Backing, Backed, Cited
<1>5. node' = "synthesizer" /\ call' = Nothing
  BY DEF Return
<1>6. AtSynthesizer'
  BY <1>1, <1>3, <1>4, <1>5 DEF AtSynthesizer
<1>7. ContextInv'
  BY <1>1 DEF ContextInv
<1> QED
  BY <1>5, <1>6, <1>7 DEF IInv, AtSupervisor, AtSpecialist, AtEnd, AtRaised, Routes

\* One that returns a failure leaves one failed result and one error, and no sources.
LEMMA FailureStep ==
  ASSUME IInv, node \in Routes, Return(Failed(node)), cause' \in Errors,
         UNCHANGED <<tool, context>>
  PROVE  IInv'
<1>1. state = Routed(node) /\ ContextInv
  BY DEF IInv, AtSpecialist
<1>2. state' = Worked(node, Result(node, "failed", Nothing), <<>>, 1)
  <2>1. <<>> \in Seq(Sources)
    OBVIOUS
  <2> QED
    BY <1>1, <2>1, FirstReduction DEF Return, Failed, Result
<1>3. node' = "synthesizer" /\ call' = Nothing
  BY DEF Return
<1>4. AtSynthesizer'
  BY <1>2, <1>3 DEF AtSynthesizer
<1>5. ContextInv'
  BY <1>1 DEF ContextInv
<1> QED
  BY <1>3, <1>4, <1>5 DEF IInv, AtSupervisor, AtSpecialist, AtEnd, AtRaised, Routes

\* An exception ends the run unless the node catches it; only the model and the
\* embeddings get past the nodes, and never from inside a tool.
LEMMA ThrowStep ==
  ASSUME IInv, node \in Routes \cup {"supervisor"}, NEW error \in Errors, Throw(error),
         node = "supervisor" => error = "LLMProviderError",
         ~Caught(error) => /\ error \in {"LLMProviderError", "EmbeddingError"}
                           /\ node = "mcp" => tool = Nothing
  PROVE  IInv'
<1>1. CASE Caught(error)
  BY <1>1, FailureStep DEF Throw, Caught, Routes
<1>2. CASE ~Caught(error)
  <2>1. /\ node' = "raised" /\ call' = Nothing /\ cause' = error
        /\ UNCHANGED <<state, tool, context>>
    BY <1>2 DEF Throw
  <2>2. \/ node = "supervisor" /\ state = Initial
        \/ node \in Routes /\ state = Routed(node)
    BY DEF IInv, AtSupervisor, AtSpecialist
  <2>3. state.route = "mcp" => tool = Nothing
    BY <1>2, <2>2 DEF Initial, Routed, Nothing
  <2>4. AtRaised'
    BY <1>2, <2>1, <2>2, <2>3 DEF AtRaised
  <2>5. ContextInv'
    BY <2>1 DEF IInv, ContextInv
  <2> QED
    BY <2>1, <2>4, <2>5 DEF IInv, AtSupervisor, AtSpecialist, AtSynthesizer, AtEnd, Routes
<1> QED
  BY <1>1, <1>2

\* A specialist that makes its next call keeps the state it began with.
LEMMA AwaitStep ==
  ASSUME IInv, node \in Routes, NEW c, Await(c), Awaits(node)', UNCHANGED cause,
         ContextInv', context' # <<>> <=> c = "generate" /\ node # "general"
  PROVE  IInv'
<1>1. call' = c /\ UNCHANGED <<node, state>>
  BY DEF Await
<1>2. state = Routed(node) /\ cause = Nothing
  BY DEF IInv, AtSpecialist
<1>3. AtSpecialist'
  BY <1>1, <1>2 DEF AtSpecialist
<1> QED
  BY <1>1, <1>3 DEF IInv, AtSupervisor, AtSynthesizer, AtEnd, AtRaised, Routes

-----------------------------------------------------------------------------
\* The supervisor decides once: a routed run has the state its specialist starts from.
LEMMA RouteStep ==
  ASSUME IInv, node = "supervisor", NEW r \in Routes, RouteTo(r)
  PROVE  IInv'
<1>1. state = Initial /\ tool = Nothing /\ context = <<>> /\ cause = Nothing /\ ContextInv
  BY DEF IInv, AtSupervisor
<1>2. state' = Routed(r)
  <2>1. [state EXCEPT !.route = r, !.hops = @ + 1]
           = [[state EXCEPT !.route = r] EXCEPT !.hops = state.hops + 1]
    OBVIOUS
  <2>2. [state EXCEPT !.route = r] = [Initial EXCEPT !.route = r]
    BY <1>1
  <2>3. state.hops + 1 = 1
    BY <1>1 DEF Initial
  <2>4. [Initial EXCEPT !.route = r]
          = [route |-> r, results |-> <<>>, sources |-> <<>>, errors |-> 0,
             hops |-> 0, response |-> Nothing]
    BY DEF Initial
  <2>5. [[route |-> r, results |-> <<>>, sources |-> <<>>, errors |-> 0,
           hops |-> 0, response |-> Nothing] EXCEPT !.hops = 1] = Routed(r)
    BY DEF Routed
  <2> QED
    BY <2>1, <2>2, <2>3, <2>4, <2>5 DEF RouteTo
<1>3. node' = r /\ call' = Nothing /\ UNCHANGED <<tool, context, cause>>
  BY DEF RouteTo
<1>4. AtSpecialist'
  BY <1>1, <1>2, <1>3 DEF AtSpecialist, Awaits, Routes, Nothing
<1>5. ContextInv'
  BY <1>1, <1>3 DEF ContextInv
<1> QED
  BY <1>3, <1>4, <1>5 DEF IInv, AtSupervisor, AtSynthesizer, AtEnd, AtRaised, Routes

\* Every node makes its first call from rest.
LEMMA BeginStep ==
  ASSUME IInv, Begin
  PROVE  IInv'
<1>0. ContextInv'
  BY DEF Begin, IInv, ContextInv
<1>1. CASE node = "supervisor" /\ Await("route")
  <2>1. AtSupervisor'
    BY <1>1 DEF Begin, Await, IInv, AtSupervisor
  <2> QED
    BY <1>0, <1>1, <2>1
    DEF Begin, Await, IInv, AtSpecialist, AtSynthesizer, AtEnd, AtRaised, Routes
<1>2. ASSUME NEW c \in {"embed", "list", "generate"}, node \in Routes, Await(c),
             \/ node = "research" /\ c = "embed"
             \/ node = "mcp" /\ c = "list"
             \/ node = "general" /\ c = "generate"
      PROVE  IInv'
  <2>1. Awaits(node) /\ call = Nothing /\ (context # <<>> <=> FALSE)
    BY <1>2 DEF Begin, IInv, AtSpecialist, Nothing
  <2>2. tool = Nothing
    BY <1>2, <2>1 DEF Awaits, Nothing
  <2>3. call' = c /\ UNCHANGED <<node, tool, context, cause>>
    BY <1>2 DEF Await, Begin
  <2>4. Awaits(node)'
    BY <1>2, <2>2, <2>3 DEF Awaits, Nothing
  <2> QED
    BY <1>0, <1>2, <2>1, <2>3, <2>4, AwaitStep
<1>3. node = "research" /\ Await("embed") => IInv'
  BY <1>2 DEF Routes
<1>4. node = "mcp" /\ Await("list") => IInv'
  BY <1>2 DEF Routes
<1>5. node = "general" /\ Await("generate") => IInv'
  BY <1>2 DEF Routes
<1> QED
  BY <1>1, <1>3, <1>4, <1>5 DEF Begin

\* A call that fails is caught by a research node, if it is retrieval's or grounded
\* generation's own error, and by an MCP node, unless the model was choosing a tool.
LEMMA CallFailsStep ==
  ASSUME IInv, CallFails
  PROVE  IInv'
<1>1. /\ call # Nothing /\ Throw(Raised)
      /\ \/ node = "supervisor" /\ call = "route"
         \/ node \in Routes /\ Awaits(node)
  BY DEF CallFails, IInv, AtSupervisor, AtSpecialist, AtSynthesizer, AtEnd, AtRaised
<1>2. CASE node = "supervisor"
  <2>1. Raised = "LLMProviderError"
    BY <1>1, <1>2 DEF Raised, Routes
  <2> QED
    BY <1>1, <1>2, <2>1, ThrowStep DEF Errors
<1>3. CASE node = "general"
  <2>1. Raised = "LLMProviderError"
    BY <1>1, <1>3 DEF Raised, Awaits, Nothing
  <2> QED
    BY <1>1, <1>3, <2>1, ThrowStep DEF Errors, Routes
<1>4. CASE node = "research"
  <2>1. Raised \in {"LLMProviderError", "EmbeddingError", "RetrievalError"}
    BY <1>1, <1>4 DEF Raised, Awaits, Nothing
  <2> QED
    BY <1>1, <1>4, <2>1, ThrowStep DEF Errors, Routes, Caught
<1>5. CASE node = "mcp"
  <2>1. Raised \in {"LLMProviderError", "EmbeddingError", "RetrievalError", "MCPError"}
    BY <1>1, <1>5 DEF Raised, Awaits, Nothing
  <2>2. call = "decide" => Raised = "LLMProviderError" /\ tool = Nothing
    BY <1>1, <1>5 DEF Raised, Awaits, Nothing, RetrievalTools
  <2> QED
    BY <1>1, <1>5, <2>1, <2>2, ThrowStep DEF Errors, Routes, Caught
<1> QED
  BY <1>1, <1>2, <1>3, <1>4, <1>5 DEF Routes

\* What the retriever refuses, whatever the reason, ends in a failed result.
LEMMA RefusalStep ==
  ASSUME IInv, node \in {"research", "mcp"}, call # "decide", node \in Routes,
         NEW error \in {"RetrievalError", "RAGGenerationError", "ValueError"},
         error = "ValueError" => node = "mcp", Throw(error)
  PROVE  IInv'
<1>1. Caught(error)
  BY DEF Caught
<1> QED
  BY <1>1, ThrowStep DEF Errors

\* A search either awaits the generation of an answer from what it has found, all of it
\* sound and within the limit, or ends the node.
LEMMA FoundStep ==
  ASSUME IInv, ChunksAreFound
  PROVE  IInv'
<1>1. node \in {"research", "mcp"} /\ node \in Routes /\ call = "search" /\ Awaits(node)
  <2>1. node \in Routes
    BY DEF ChunksAreFound, IInv, AtSupervisor, AtSynthesizer, AtEnd, AtRaised, Nothing
  <2> QED
    BY <2>1 DEF ChunksAreFound, IInv, AtSpecialist, Awaits, Routes, Nothing
<1>2. context = <<>> /\ cause = Nothing /\ ContextInv
  BY <1>1 DEF IInv, AtSpecialist
<1> DEFINE Outcome(n, found) ==
        IF ToSet(found) \cap Broken # {} THEN Throw("RetrievalError")
        ELSE /\ UNCHANGED <<tool, cause>>
             /\ CASE tool = "search_knowledge" ->
                         Return(Succeeded(node, "hits", <<>>)) /\ UNCHANGED context
                  [] tool # "search_knowledge" /\ n = 0 ->
                         Return(Succeeded(node, "no_context", <<>>)) /\ UNCHANGED context
                  [] OTHER -> Await("generate") /\ context' = found
<1>3. PICK n \in 0 .. RetrievalLimit : \E found \in [1 .. n -> Chunks] : Outcome(n, found)
  BY DEF ChunksAreFound
<1>6. PICK found \in [1 .. n -> Chunks] : Outcome(n, found)
  BY <1>3
<1>4. CASE ToSet(found) \cap Broken # {}
  BY <1>1, <1>6, <1>4, RefusalStep
<1>5. CASE ToSet(found) \cap Broken = {}
  <2>0. UNCHANGED <<tool, cause>>
    BY <1>6, <1>5
  <2>1. CASE tool = "search_knowledge"
    <3>1. Return(Succeeded(node, "hits", Backing("hits"))) /\ UNCHANGED context
      BY <1>6, <1>5, <2>1 DEF Backing
    <3>2. "hits" \in Contents /\ Backed("hits")
      BY DEF Contents, Backed
    <3> QED
      BY <1>1, <2>0, <3>1, <3>2, SuccessStep
  <2>2. CASE tool # "search_knowledge" /\ n = 0
    <3>1. Return(Succeeded(node, "no_context", Backing("no_context"))) /\ UNCHANGED context
      BY <1>6, <1>5, <2>2 DEF Backing
    <3>2. "no_context" \in Contents /\ Backed("no_context")
      BY DEF Contents, Backed
    <3> QED
      BY <1>1, <2>0, <3>1, <3>2, SuccessStep
  <2>3. CASE tool # "search_knowledge" /\ n # 0
    <3>1. Await("generate") /\ context' = found
      BY <1>6, <1>5, <2>3
    <3>2. /\ n \in Nat \ {0} /\ n <= RetrievalLimit
          /\ found \in Seq(Chunks) /\ Len(found) = n /\ DOMAIN found = 1 .. n
      BY <2>3, IndexAssumption
    <3>3. \A i \in DOMAIN found : found[i] \notin Broken
      BY <1>5, <3>2 DEF ToSet
    <3>4. ContextInv' /\ context' # <<>>
      BY <1>2, <2>0, <3>1, <3>2, <3>3 DEF ContextInv
    <3>5. Awaits(node)'
      BY <1>1, <2>0, <2>3, <3>1 DEF Await, Awaits, RetrievalTools, Nothing
    <3> QED
      BY <1>1, <2>0, <3>1, <3>4, <3>5, AwaitStep
  <2> QED
    BY <2>1, <2>2, <2>3
<1> QED
  BY <1>4, <1>5

\* The model's answer is the direct one, or the one grounded in the prompt.
LEMMA AnswerStep ==
  ASSUME IInv, ModelAnswers
  PROVE  IInv'
<1>1. node \in Routes /\ call = "generate" /\ UNCHANGED <<tool, context, cause>>
  BY DEF ModelAnswers, IInv, AtSupervisor, AtSynthesizer, AtEnd, AtRaised, Nothing
<1>2. CASE node = "general"
  <2>1. Return(Succeeded(node, "text", Backing("text")))
    BY <1>2 DEF ModelAnswers, Backing
  <2>2. "text" \in Contents /\ Backed("text")
    BY DEF Contents, Backed
  <2> QED
    BY <1>1, <2>1, <2>2, SuccessStep
<1>3. CASE node # "general"
  <2>1. Return(Succeeded(node, "grounded", Backing("grounded")))
    BY <1>3 DEF ModelAnswers, Backing
  <2>2. "grounded" \in Contents /\ Backed("grounded")
    BY <1>1, <1>3 DEF Contents, Backed, IInv, AtSpecialist
  <2> QED
    BY <1>1, <2>1, <2>2, SuccessStep
<1> QED
  BY <1>2, <1>3

\* A blank answer is refused by the general agent and by grounded generation.
LEMMA BlankStep ==
  ASSUME IInv, ModelAnswersBlank
  PROVE  IInv'
<1>1. node \in Routes /\ call = "generate"
  BY DEF ModelAnswersBlank, IInv, AtSupervisor, AtSynthesizer, AtEnd, AtRaised, Nothing
<1>2. CASE node = "general"
  BY <1>1, <1>2, FailureStep DEF ModelAnswersBlank, Errors
<1>3. CASE node # "general"
  BY <1>1, <1>3, RefusalStep DEF ModelAnswersBlank, Routes
<1> QED
  BY <1>2, <1>3

\* The MCP agent's own steps.
LEMMA McpStep ==
  ASSUME IInv,
         ToolsAreListed \/ ToolIsChosen \/ ToolIsUnknown \/ ArgumentsAreRefused
            \/ StatusIsReported \/ QueryIsEmbedded
  PROVE  IInv'
<1>1. node \in Routes /\ Awaits(node) /\ ContextInv /\ cause = Nothing
  BY DEF ToolsAreListed, ToolIsChosen, ToolIsUnknown, ArgumentsAreRefused, StatusIsReported,
     QueryIsEmbedded, IInv, AtSupervisor, AtSpecialist, AtSynthesizer, AtEnd, AtRaised,
     Nothing
<1>2. context # <<>> <=> call = "generate" /\ node # "general"
  BY <1>1 DEF IInv, AtSpecialist
<1>3. ASSUME ToolsAreListed PROVE IInv'
  <2>1. Await("decide") /\ UNCHANGED <<tool, context, cause>> /\ call = "list"
    BY <1>3 DEF ToolsAreListed
  <2>2. Awaits(node)' /\ ContextInv'
    BY <1>1, <2>1 DEF Await, Awaits, ContextInv, Routes, Nothing
  <2> QED
    BY <1>1, <1>2, <2>1, <2>2, AwaitStep
<1>4. ASSUME ToolIsChosen PROVE IInv'
  <2>1. PICK t \in RetrievalTools \cup {"platform_status"} :
           /\ tool' = t
           /\ Await(IF t \in RetrievalTools THEN "embed" ELSE "reply")
    BY <1>4 DEF ToolIsChosen
  <2>2. call = "decide" /\ UNCHANGED <<context, cause>>
    BY <1>4 DEF ToolIsChosen
  <2>3. node = "mcp" /\ UNCHANGED node
    BY <1>1, <2>1, <2>2 DEF Awaits, Await, Routes, Nothing
  <2>4. Awaits(node)' /\ ContextInv'
    BY <1>1, <2>1, <2>2, <2>3 DEF Await, Awaits, ContextInv, RetrievalTools, Nothing
  <2> QED
    BY <1>1, <1>2, <2>1, <2>2, <2>4, AwaitStep
<1>5. ASSUME ToolIsUnknown PROVE IInv'
  <2>1. node = "mcp"
    BY <1>1, <1>5 DEF ToolIsUnknown, Awaits, Routes, Nothing
  <2> QED
    BY <1>1, <1>5, <2>1, FailureStep DEF ToolIsUnknown, Errors
<1>6. ASSUME ArgumentsAreRefused PROVE IInv'
  BY <1>1, <1>6, RefusalStep DEF ArgumentsAreRefused
<1>7. ASSUME StatusIsReported PROVE IInv'
  <2>1. node = "mcp"
    BY <1>1, <1>7 DEF StatusIsReported, Awaits, Routes, Nothing
  <2>2. Return(Succeeded(node, "status", Backing("status"))) /\ UNCHANGED <<tool, context, cause>>
    BY <1>7, <2>1 DEF StatusIsReported, Backing
  <2>3. "status" \in Contents /\ Backed("status")
    BY DEF Contents, Backed
  <2> QED
    BY <1>1, <2>2, <2>3, SuccessStep
<1>8. ASSUME QueryIsEmbedded PROVE IInv'
  <2>1. Await("search") /\ UNCHANGED <<tool, context, cause>> /\ call = "embed"
    BY <1>8 DEF QueryIsEmbedded
  <2>2. Awaits(node)' /\ ContextInv'
    BY <1>1, <2>1 DEF Await, Awaits, ContextInv, Routes, Nothing
  <2> QED
    BY <1>1, <1>2, <2>1, <2>2, AwaitStep
<1> QED
  BY <1>3, <1>4, <1>5, <1>6, <1>7, <1>8

\* The synthesizer passes the one success on, or apologises for the one failure.
LEMMA SynthesizeStep ==
  ASSUME IInv, Synthesize
  PROVE  IInv'
<1>1. /\ node = "synthesizer" /\ node' = "end" /\ call = Nothing /\ call' = Nothing
      /\ UNCHANGED <<tool, context, cause>>
      /\ ContextInv /\ ContextInv'
  BY DEF Synthesize, IInv, AtSynthesizer, ContextInv
<1>2. PICK r \in Routes :
        \/ \E content \in Contents :
              /\ state = Worked(r, Result(r, "success", content), Backing(content), 0)
              /\ Backed(content)
              /\ cause = Nothing
        \/ /\ state = Worked(r, Result(r, "failed", Nothing), <<>>, 1)
           /\ cause \in Errors
  BY <1>1 DEF IInv, AtSynthesizer
<1>3. ASSUME NEW content \in Contents,
             state = Worked(r, Result(r, "success", content), Backing(content), 0),
             Backed(content), cause = Nothing
      PROVE  AtEnd'
  <2>1. state.results = <<Result(r, "success", content)>>
    BY <1>3 DEF Worked
  <2>2. Successes = {1}
    BY <2>1 DEF Successes, Result
  <2>3. (CHOOSE i \in Successes : \A j \in Successes : i <= j) = 1
    BY <2>2
  <2>4. FirstSuccess.content = content
    <3>1. FirstSuccess = state.results[1]
      BY <2>3 DEF FirstSuccess
    <3> QED
      BY <2>1, <3>1 DEF Result
  <2>5. Backing(content) \in Seq(Sources)
    BY <1>1, CitedTyped
  <2>6. state' = Ended(r, Result(r, "success", content),
                       Result("synthesizer", "success", content), Backing(content), 0, content)
    <3>1. state' = [Reduce([result |-> Result("synthesizer", "success", content),
                            sources |-> <<>>, errors |-> 0]) EXCEPT !.response = content]
      BY <2>2, <2>4 DEF Synthesize, Succeeded, Result
    <3> DEFINE first == Result(r, "success", content)
               last == Result("synthesizer", "success", content)
    <3> HIDE DEF first, last
    <3>2. Reduce([result |-> last, sources |-> <<>>, errors |-> 0])
             = Ended(r, first, last, Backing(content), 0 + 0, Nothing)
      <4>1. state = Worked(r, first, Backing(content), 0)
        BY <1>3 DEF first
      <4> HIDE DEF Backing
      <4> QED
        BY <2>5, <4>1, 0 \in Nat, LastReduction, ZenonT(40)
    <3>3. [Ended(r, first, last, Backing(content), 0, Nothing) EXCEPT !.response = content]
             = Ended(r, first, last, Backing(content), 0, content)
      BY DEF Ended
    <3> QED
      BY <3>1, <3>2, <3>3, 0 + 0 = 0 DEF first, last
  <2>7. Backing(content)' = Backing(content) /\ Backed(content)'
    BY <1>1, <1>3 DEF Backing, Backed, Cited
  <2> QED
    BY <1>1, <1>3, <2>6, <2>7 DEF AtEnd
<1>4. ASSUME state = Worked(r, Result(r, "failed", Nothing), <<>>, 1), cause \in Errors
      PROVE  AtEnd'
  <2>1. state.results = <<Result(r, "failed", Nothing)>>
    BY <1>4 DEF Worked
  <2>2. Successes = {}
    BY <2>1 DEF Successes, Result
  <2>3. state' = [Reduce([result |-> Result("synthesizer", "failed", Nothing),
                          sources |-> <<>>, errors |-> 1]) EXCEPT !.response = "apology"]
    BY <2>2 DEF Synthesize, Failed, Result
  <2> DEFINE first == Result(r, "failed", Nothing)
             last == Result("synthesizer", "failed", Nothing)
  <2>4. Reduce([result |-> last, sources |-> <<>>, errors |-> 1])
           = Ended(r, first, last, <<>>, 1 + 1, Nothing)
    <3>1. <<>> \in Seq(Sources)
      OBVIOUS
    <3>2. state = Worked(r, first, <<>>, 1)
      BY <1>4
    <3> HIDE DEF first, last
    <3> QED
      BY <3>1, <3>2, 1 \in Nat, LastReduction, ZenonT(40)
  <2>5. [Ended(r, first, last, <<>>, 2, Nothing) EXCEPT !.response = "apology"]
           = Ended(r, first, last, <<>>, 2, "apology")
    BY DEF Ended
  <2>6. state' = Ended(r, first, last, <<>>, 2, "apology")
    BY <2>3, <2>4, <2>5, 1 + 1 = 2
  <2> QED
    BY <1>1, <1>4, <2>6 DEF AtEnd
<1>5. AtEnd'
  BY <1>2, <1>3, <1>4
<1> QED
  BY <1>1, <1>5 DEF IInv, AtSupervisor, AtSpecialist, AtSynthesizer, AtRaised, Routes

\* IInv is inductive.
LEMMA IInvStep == IInv /\ [Next]_vars => IInv'
<1> SUFFICES ASSUME IInv, [Next]_vars PROVE IInv'
  OBVIOUS
<1>1. CASE Begin
  BY <1>1, BeginStep
<1>2. CASE RouteByPhrase
  BY <1>2, RouteStep DEF RouteByPhrase, Routes
<1>3. CASE RouteByModel
  BY <1>3, RouteStep DEF RouteByModel
<1>4. CASE ToolsAreListed \/ ToolIsChosen \/ ToolIsUnknown \/ ArgumentsAreRefused
              \/ StatusIsReported \/ QueryIsEmbedded
  BY <1>4, McpStep
<1>5. CASE ChunksAreFound
  BY <1>5, FoundStep
<1>6. CASE ModelAnswers
  BY <1>6, AnswerStep
<1>7. CASE ModelAnswersBlank
  BY <1>7, BlankStep
<1>8. CASE CallFails
  BY <1>8, CallFailsStep
<1>9. CASE Synthesize
  BY <1>9, SynthesizeStep
<1>10. CASE UNCHANGED vars
  <2>1. /\ node' = node /\ call' = call /\ state' = state
        /\ tool' = tool /\ context' = context /\ cause' = cause
    BY <1>10 DEF vars
  <2>2. \A content : Backing(content)' = Backing(content) /\ (Backed(content)' <=> Backed(content))
    BY <2>1 DEF Backing, Backed, Cited
  <2>3. AtSupervisor' /\ AtSpecialist'
    BY <2>1 DEF IInv, AtSupervisor, AtSpecialist, Awaits
  <2>4. AtSynthesizer'
    BY <2>1, <2>2 DEF IInv, AtSynthesizer
  <2>5. AtEnd'
    BY <2>1, <2>2 DEF IInv, AtEnd
  <2>6. AtRaised' /\ ContextInv'
    BY <2>1 DEF IInv, AtRaised, ContextInv
  <2> QED
    BY <2>1, <2>3, <2>4, <2>5, <2>6 DEF IInv
<1> QED
  BY <1>1, <1>2, <1>3, <1>4, <1>5, <1>6, <1>7, <1>8, <1>9, <1>10 DEF Next

\* The inductive invariant of the graph (agents/graph.py:19-67).
THEOREM GraphInvariant == Spec => []IInv
<1> QED
  BY InitIInv, IInvStep, PTL DEF Spec

-----------------------------------------------------------------------------
(* Why every run ends *)

\* How far a run has come: the calls in the order in which the nodes make them.
Place ==
    CASE node = "supervisor" -> IF call = Nothing THEN 0 ELSE 1
      [] node \in Routes -> CASE call = Nothing -> 2
                              [] call = "list" -> 3
                              [] call = "decide" -> 4
                              [] call = "embed" -> 5
                              [] call = "search" -> 6
                              [] call \in {"generate", "reply"} -> 7
                              [] OTHER -> 0
      [] node = "synthesizer" -> 8
      [] OTHER -> 9

\* A run makes no call twice and comes back to no node (agents/graph.py:19-67 and the
\* agents it wires): every step leads to a later call, or to a later node, or out of the
\* graph.  So a run has at most nine steps and asks the model three times at most, which
\* is what bounds it: nothing reads max_hops.
RunsAdvance == [][Place < Place' /\ Place' <= 9]_vars

\* The places of the nodes, and those between which a specialist stands.
LEMMA PlaceRange ==
    ASSUME IInv
    PROVE  /\ Place \in 0 .. 9
           /\ node \in {"synthesizer", "end", "raised"} <=> Place \in {8, 9}
           /\ node = "supervisor" <=> Place \in {0, 1}
<1>1. CASE node = "supervisor"
  <2>1. Place \in {0, 1}
    BY <1>1 DEF Place, Routes
  <2> QED
    BY <1>1, <2>1
<1>2. CASE node \in Routes
  <2>1. /\ Awaits(node) /\ node # "supervisor"
        /\ node \notin {"synthesizer", "end", "raised"}
    BY <1>2 DEF IInv, AtSpecialist, Routes
  <2>2. call \in {Nothing, "list", "decide", "embed", "search", "generate", "reply"}
    BY <1>2, <2>1 DEF Awaits, Routes
  <2>3. Place \in 2 .. 7
    BY <1>2, <2>1, <2>2 DEF Place
  <2> QED
    BY <2>1, <2>3
<1>3. CASE node \in {"synthesizer", "end", "raised"}
  <2>1. Place \in {8, 9} /\ node # "supervisor"
    BY <1>3 DEF Place, Routes
  <2> QED
    BY <1>3, <2>1
<1> QED
  BY <1>1, <1>2, <1>3 DEF IInv

\* A node that returns or throws is left for the synthesizer or for good.
LEMMA LeavingAdvances ==
    ASSUME node \in {"supervisor"} \cup Routes, node' \in {"synthesizer", "raised"},
           Place \in 0 .. 9, node \in {"synthesizer", "end", "raised"} <=> Place \in {8, 9}
    PROVE  Place < Place' /\ Place' <= 9
<1>1. Place' \in {8, 9}
  BY DEF Place, Routes
<1>2. Place \in 0 .. 7
  BY DEF Routes
<1> QED
  BY <1>1, <1>2

\* Only the supervisor and a specialist await a call.
LEMMA Awaiting ==
    ASSUME IInv, call # Nothing
    PROVE  node \in {"supervisor"} \cup Routes
  BY DEF IInv, AtSynthesizer, AtEnd, AtRaised

\* One step per action.
LEMMA EveryStepLeads == IInv /\ Next => Place < Place' /\ Place' <= 9
<1> SUFFICES ASSUME IInv, Next PROVE Place < Place' /\ Place' <= 9
  OBVIOUS
<1>0. /\ Place \in 0 .. 9
      /\ node \in {"synthesizer", "end", "raised"} <=> Place \in {8, 9}
  BY PlaceRange
<1>a. ASSUME NEW error, Throw(error), call # Nothing
      PROVE  Place < Place' /\ Place' <= 9
  <2>1. node' \in {"synthesizer", "raised"}
    BY <1>a DEF Throw, Return
  <2> QED
    BY <1>0, <1>a, <2>1, Awaiting, LeavingAdvances
<1>b. ASSUME NEW update, Return(update), call # Nothing
      PROVE  Place < Place' /\ Place' <= 9
  <2>1. node' \in {"synthesizer", "raised"}
    BY <1>b DEF Return
  <2> QED
    BY <1>0, <1>b, <2>1, Awaiting, LeavingAdvances
<1>c. ASSUME NEW r \in Routes, RouteTo(r), node = "supervisor"
      PROVE  Place < Place' /\ Place' <= 9
  <2>1. Place' = 2
    BY <1>c DEF RouteTo, Place, Routes, Nothing
  <2>2. Place \in {0, 1}
    BY <1>c, PlaceRange
  <2> QED
    BY <2>1, <2>2
<1>1. CASE Begin
  <2>1. call = Nothing /\ node' = node
    BY <1>1 DEF Begin, Await
  <2>2. CASE node = "supervisor" /\ call' = "route"
    BY <2>1, <2>2 DEF Place, Nothing, Routes
  <2>3. CASE node = "research" /\ call' = "embed"
    BY <2>1, <2>3 DEF Place, Nothing, Routes
  <2>4. CASE node = "mcp" /\ call' = "list"
    BY <2>1, <2>4 DEF Place, Nothing, Routes
  <2>5. CASE node = "general" /\ call' = "generate"
    BY <2>1, <2>5 DEF Place, Nothing, Routes
  <2> QED
    BY <1>1, <2>2, <2>3, <2>4, <2>5 DEF Begin, Await
<1>2. CASE RouteByPhrase
  BY <1>2, <1>c DEF RouteByPhrase, Routes
<1>3. CASE RouteByModel
  BY <1>3, <1>c DEF RouteByModel
<1>4. CASE ToolsAreListed
  <2>1. node \in Routes /\ node' = node /\ call = "list" /\ call' = "decide"
    BY <1>4, Awaiting DEF ToolsAreListed, Await, IInv, AtSupervisor, Nothing
  <2> QED
    BY <2>1 DEF Place, Nothing, Routes
<1>5. CASE ToolIsChosen
  <2>1. node \in Routes /\ node' = node /\ call = "decide" /\ call' \in {"embed", "reply"}
    BY <1>5, Awaiting DEF ToolIsChosen, Await, IInv, AtSupervisor, Nothing
  <2> QED
    BY <2>1 DEF Place, Nothing, Routes
<1>6. CASE ToolIsUnknown
  BY <1>6, <1>b DEF ToolIsUnknown, Nothing
<1>7. CASE ArgumentsAreRefused
  BY <1>7, <1>a DEF ArgumentsAreRefused, Nothing
<1>8. CASE StatusIsReported
  BY <1>8, <1>b DEF StatusIsReported, Nothing
<1>9. CASE QueryIsEmbedded
  <2>1. node \in Routes /\ node' = node /\ call = "embed" /\ call' = "search"
    BY <1>9, Awaiting DEF QueryIsEmbedded, Await, IInv, AtSupervisor, Nothing
  <2> QED
    BY <2>1 DEF Place, Nothing, Routes
<1>10. CASE ChunksAreFound
  <2>1. call = "search"
    BY <1>10 DEF ChunksAreFound
  <2>2. \/ \E error : Throw(error)
        \/ \E update : Return(update)
        \/ Await("generate")
    BY <1>10 DEF ChunksAreFound
  <2>3. CASE Await("generate")
    <3>1. node \in Routes /\ node' = node /\ call' = "generate"
      BY <2>1, <2>3, Awaiting DEF Await, IInv, AtSupervisor, Nothing
    <3> QED
      BY <2>1, <3>1 DEF Place, Nothing, Routes
  <2> QED
    BY <1>a, <1>b, <2>1, <2>2, <2>3 DEF Nothing
<1>11. CASE ModelAnswers
  BY <1>11, <1>b DEF ModelAnswers, Nothing
<1>12. CASE ModelAnswersBlank
  BY <1>12, <1>a, <1>b DEF ModelAnswersBlank, Nothing
<1>13. CASE CallFails
  BY <1>13, <1>a DEF CallFails
<1>14. CASE Synthesize
  <2>1. node = "synthesizer" /\ node' = "end"
    BY <1>14 DEF Synthesize
  <2> QED
    BY <2>1 DEF Place, Routes
<1> QED
  BY <1>1, <1>2, <1>3, <1>4, <1>5, <1>6, <1>7, <1>8, <1>9, <1>10, <1>11, <1>12, <1>13,
     <1>14 DEF Next

\* No run of the graph goes in circles (agents/graph.py:19-67).
THEOREM GraphAdvances == Spec => RunsAdvance
<1>1. IInv /\ [Next]_vars => [Place < Place' /\ Place' <= 9]_vars
  BY EveryStepLeads
<1> QED
  BY <1>1, GraphInvariant, PTL DEF Spec, RunsAdvance

-----------------------------------------------------------------------------
\* The inductive invariant gives the types.
LEMMA IInvTyped == IInv => TypeOK
<1> SUFFICES ASSUME IInv PROVE TypeOK
  OBVIOUS
<1>1. /\ node \in {"supervisor", "synthesizer", "end", "raised"} \cup Routes
      /\ tool \in RetrievalTools \cup {Nothing, "platform_status"}
      /\ context \in Seq(Chunks)
  BY DEF IInv, ContextInv
<1>2. \A content : Backing(content) \in Seq(Sources)
  BY CitedTyped DEF IInv
<1>3. call \in {Nothing, "route", "list", "decide", "reply", "embed", "search", "generate"}
  BY <1>1 DEF IInv, AtSupervisor, AtSpecialist, AtSynthesizer, AtEnd, AtRaised, Awaits, Routes,
     Nothing
<1>4. cause \in Errors \cup {Nothing}
  BY <1>1 DEF IInv, AtSupervisor, AtSpecialist, AtSynthesizer, AtEnd, AtRaised, Errors
<1> DEFINE Typed == /\ state.route \in Routes \cup {Nothing}
                    /\ state.response \in Contents \cup {Nothing, "apology"}
                    /\ state.sources \in Seq(Sources)
                    /\ state.hops = Len(state.results)
                                        + (IF state.route = Nothing THEN 0 ELSE 1)
<1>5. ASSUME state = Initial PROVE Typed
  BY <1>5 DEF Initial
<1>6. ASSUME NEW r \in Routes, state = Routed(r) PROVE Typed
  BY <1>6 DEF Routed, Routes, Nothing
<1>7. ASSUME NEW r \in Routes, NEW first, NEW sources \in Seq(Sources), NEW errors,
             state = Worked(r, first, sources, errors)
      PROVE  Typed
  <2>1. Len(<<first>>) = 1 /\ r # Nothing /\ 1 + 1 = 2
    BY DEF Routes, Nothing
  <2> QED
    BY <1>7, <2>1 DEF Worked
<1>8. ASSUME NEW r \in Routes, NEW first, NEW last, NEW sources \in Seq(Sources), NEW errors,
             NEW response \in Contents \cup {"apology"},
             state = Ended(r, first, last, sources, errors, response)
      PROVE  Typed
  <2>1. Len(<<first, last>>) = 2 /\ r # Nothing /\ 2 + 1 = 3
    BY DEF Routes, Nothing
  <2> QED
    BY <1>8, <2>1 DEF Ended
<1>9. <<>> \in Seq(Sources)
  OBVIOUS
<1> HIDE DEF Typed
<1>10. node \in Routes \cup {"supervisor", "raised"} => Typed
  BY <1>5, <1>6 DEF IInv, AtSupervisor, AtSpecialist, AtRaised
<1>11. node = "synthesizer" => Typed
  BY <1>2, <1>7, <1>9 DEF IInv, AtSynthesizer
<1>12. node = "end" => Typed
  BY <1>2, <1>8, <1>9 DEF IInv, AtEnd
<1>13. Typed
  BY <1>1, <1>10, <1>11, <1>12
<1> QED
  BY <1>1, <1>3, <1>4, <1>13 DEF TypeOK, Typed

\* What a run cites is what the model was given (rag/service.py:157-201), for every
\* index and every retrieval limit.
THEOREM GraphGrounds == Spec => []AnswersAreGrounded
<1>1. IInv => AnswersAreGrounded
  <2> SUFFICES ASSUME IInv PROVE AnswersAreGrounded
    OBVIOUS
  <2>1. TypeOK
    BY IInvTyped
  <2>2. ASSUME node = "end"
        PROVE  /\ state.sources = IF state.response = "grounded"
                                  THEN Cited(context) ELSE <<>>
               /\ state.response = "grounded" => context # <<>>
    <3>1. PICK r \in Routes :
            \/ \E content \in Contents :
                  /\ state = Ended(r, Result(r, "success", content),
                                   Result("synthesizer", "success", content),
                                   Backing(content), 0, content)
                  /\ Backed(content)
            \/ state = Ended(r, Result(r, "failed", Nothing),
                             Result("synthesizer", "failed", Nothing), <<>>, 2, "apology")
      BY <2>2 DEF IInv, AtEnd
    <3> QED
      BY <3>1 DEF Ended, Backing, Backed
  <2>3. ToSet(context) \cap Broken = {}
    BY DEF IInv, ContextInv, ToSet
  <2> QED
    BY <2>1, <2>2, <2>3 DEF AnswersAreGrounded, Cited
<1> QED
  BY <1>1, GraphInvariant, PTL

\* No failure is lost between the call it happens in and the answer
\* (research.py:26, mcp_agent.py:201-226, synthesizer.py:142).
THEOREM GraphTellsFailures == Spec => []FailuresAreTold
<1>1. IInv => FailuresAreTold
  <2> SUFFICES ASSUME IInv PROVE FailuresAreTold
    OBVIOUS
  <2> DEFINE failures == {i \in DOMAIN state.results : state.results[i].status = "failed"}
  <2>1. ASSUME node = "end"
        PROVE  /\ cause # Nothing <=> state.response = "apology"
               /\ state.errors = Cardinality(failures)
               /\ state.errors = (IF cause # Nothing THEN 2 ELSE 0)
    <3>1. PICK r \in Routes :
            \/ \E content \in Contents :
                  /\ state = Ended(r, Result(r, "success", content),
                                   Result("synthesizer", "success", content),
                                   Backing(content), 0, content)
                  /\ cause = Nothing
            \/ /\ state = Ended(r, Result(r, "failed", Nothing),
                                Result("synthesizer", "failed", Nothing), <<>>, 2, "apology")
               /\ cause \in Errors
      BY <2>1 DEF IInv, AtEnd
    <3>2. ASSUME NEW content \in Contents, cause = Nothing,
                 state = Ended(r, Result(r, "success", content),
                               Result("synthesizer", "success", content),
                               Backing(content), 0, content)
          PROVE  failures = {} /\ state.errors = 0 /\ state.response # "apology"
      BY <3>2 DEF Ended, Result, Contents
    <3>3. ASSUME state = Ended(r, Result(r, "failed", Nothing),
                               Result("synthesizer", "failed", Nothing), <<>>, 2, "apology")
          PROVE  failures = {1, 2} /\ state.errors = 2 /\ state.response = "apology"
      BY <3>3 DEF Ended, Result
    <3>4. Cardinality({}) = 0 /\ Cardinality({1, 2}) = 2
      <4>1. IsFiniteSet({1}) /\ Cardinality({1}) = 1
        BY FS_Singleton
      <4>2. Cardinality({1} \cup {2}) = Cardinality({1}) + 1
        BY <4>1, FS_AddElement, 2 \notin {1}
      <4>3. {1} \cup {2} = {1, 2}
        OBVIOUS
      <4> QED
        BY <4>1, <4>2, <4>3, FS_EmptySet
    <3>5. \A error \in Errors : error # Nothing
      BY DEF Errors, Nothing
    <3> QED
      BY <3>1, <3>2, <3>3, <3>4, <3>5
  <2>2. ASSUME node = "raised"
        PROVE  /\ cause \in {"LLMProviderError", "EmbeddingError"}
               /\ state.route = "mcp" => tool = Nothing
    BY <2>2 DEF IInv, AtRaised
  <2> QED
    BY <2>1, <2>2 DEF FailuresAreTold
<1> QED
  BY <1>1, GraphInvariant, PTL

-----------------------------------------------------------------------------
\* The order in which the nodes work: nothing is visited twice.
LEMMA NodeOrder ==
  ASSUME IInv, [Next]_vars
  PROVE  \/ node' = node
         \/ node = "supervisor" /\ node' \in Routes \cup {"raised"}
         \/ node \in Routes /\ node' \in {"synthesizer", "raised"}
         \/ node = "synthesizer" /\ node' = "end"
<1>1. call # Nothing => node \in Routes \cup {"supervisor"}
  BY DEF IInv, AtSynthesizer, AtEnd, AtRaised
<1>2. call \notin {Nothing, "route"} => node \in Routes
  BY <1>1 DEF IInv, AtSupervisor
<1>3. CASE Begin \/ ToolsAreListed \/ ToolIsChosen \/ QueryIsEmbedded
  BY <1>3 DEF Begin, ToolsAreListed, ToolIsChosen, QueryIsEmbedded, Await
<1>4. CASE RouteByPhrase \/ RouteByModel
  BY <1>4 DEF RouteByPhrase, RouteByModel, RouteTo, Routes
<1>5. CASE ToolIsUnknown \/ StatusIsReported \/ ModelAnswers
  BY <1>2, <1>5 DEF ToolIsUnknown, StatusIsReported, ModelAnswers, Return, Nothing
<1>6. CASE ArgumentsAreRefused \/ ModelAnswersBlank
  BY <1>2, <1>6 DEF ArgumentsAreRefused, ModelAnswersBlank, Throw, Return, Nothing
<1>7. CASE ChunksAreFound
  BY <1>2, <1>7 DEF ChunksAreFound, Throw, Return, Await, Nothing
<1>8. CASE CallFails
  BY <1>1, <1>8 DEF CallFails, Throw, Return, Caught, Routes
<1>9. CASE Synthesize
  BY <1>9 DEF Synthesize
<1> QED
  BY <1>3, <1>4, <1>5, <1>6, <1>7, <1>8, <1>9 DEF Next, vars

\* What the mapping makes of the state at each node: no result before the specialist has
\* returned, one after, two at the end, and an answer only there.
Mapped ==
    /\ node \in Routes \cup {"supervisor", "raised"} =>
           Len(state.results) = 0 /\ state.response = Nothing
    /\ node = "synthesizer" => Len(state.results) = 1 /\ state.response = Nothing
    /\ node = "end" => Len(state.results) = 2 /\ state.response # Nothing

\* The inductive invariant gives them.
LEMMA MappedState == IInv => Mapped
<1> SUFFICES ASSUME IInv PROVE Mapped
  OBVIOUS
<1>1. \A x, y : Len(<<x>>) = 1 /\ Len(<<x, y>>) = 2
  OBVIOUS
<1>2. ASSUME node \in Routes \cup {"supervisor", "raised"}
      PROVE  Len(state.results) = 0 /\ state.response = Nothing
  BY <1>2 DEF IInv, AtSupervisor, AtSpecialist, AtRaised, Initial, Routed
<1>3. ASSUME node = "synthesizer"
      PROVE  Len(state.results) = 1 /\ state.response = Nothing
  BY <1>1, <1>3 DEF IInv, AtSynthesizer, Worked
<1>4. ASSUME node = "end"
      PROVE  Len(state.results) = 2 /\ state.response # Nothing
  BY <1>1, <1>4 DEF IInv, AtEnd, Ended, Contents, Nothing
<1> QED
  BY <1>2, <1>3, <1>4 DEF Mapped

\* A run is a run of the abstract graph, the one MultiAgentExecution takes a graph to be
\* (multi_agent_service.py:252-362), whatever the index returns.
THEOREM GraphRefinesRun == Spec => ImplementsGraphRun
<1>1. Init => Run!Init
  BY DEF Init, Run!Init, Routes, Nothing
<1>2. IInv /\ Mapped /\ Mapped' /\ [Next]_vars => [Run!Next]_(Run!vars)
  <2> SUFFICES ASSUME IInv, Mapped, Mapped', [Next]_vars PROVE [Run!Next]_(Run!vars)
    OBVIOUS
  <2>1. CASE node' = node
    <3>1. Len(state'.results) = Len(state.results)
      BY <2>1 DEF Mapped, IInv
    <3>2. state'.response = Nothing <=> state.response = Nothing
      BY <2>1 DEF Mapped, IInv
    <3>3. UNCHANGED (IF node \in Routes THEN "specialist" ELSE node)
      BY <2>1
    <3> QED
      BY <3>1, <3>2, <3>3 DEF Run!vars
  <2>2. CASE node = "supervisor" /\ node' \in Routes
    <3>1. /\ Len(state.results) = 0 /\ state.response = Nothing
          /\ Len(state'.results) = 0 /\ state'.response = Nothing
      BY <2>2 DEF Mapped
    <3>2. node \notin Routes
      BY <2>2 DEF Routes
    <3>3. Run!Route
      BY <2>2, <3>1, <3>2 DEF Run!Route
    <3> QED
      BY <3>3 DEF Run!Next
  <2>3. CASE node \in Routes /\ node' = "synthesizer"
    <3>1. /\ Len(state.results) = 0 /\ state.response = Nothing
          /\ Len(state'.results) = 0 + 1 /\ state'.response = Nothing
      BY <2>3 DEF Mapped
    <3>2. node' \notin Routes
      BY <2>3 DEF Routes
    <3>3. Run!Specialize
      BY <2>3, <3>1, <3>2 DEF Run!Specialize
    <3> QED
      BY <3>3 DEF Run!Next
  <2>4. CASE node = "synthesizer" /\ node' = "end"
    <3>1. /\ Len(state.results) = 1 /\ state.response = Nothing
          /\ Len(state'.results) = 1 + 1 /\ state'.response # Nothing
      BY <2>4 DEF Mapped
    <3>2. node \notin Routes /\ node' \notin Routes
      BY <2>4 DEF Routes
    <3>3. Run!Synthesize
      BY <2>4, <3>1, <3>2 DEF Run!Synthesize
    <3> QED
      BY <3>3 DEF Run!Next
  <2>5. CASE node \in Routes \cup {"supervisor"} /\ node' = "raised"
    BY <2>5 DEF Mapped, Routes, Run!Next, Run!Raise
  <2> QED
    BY <2>1, <2>2, <2>3, <2>4, <2>5, NodeOrder
<1> QED
  BY <1>1, <1>2, GraphInvariant, MappedState, PTL DEF Spec, ImplementsGraphRun, Run!Spec

=============================================================================
