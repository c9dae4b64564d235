--------------------------- MODULE AgentPipeline ---------------------------
(***************************************************************************)
(* app/pipeline.py with everything it drives in one process: the guards,   *)
(* the tier router, the response cache, the conversation memory, the       *)
(* retrieve -> answer graph, the in-memory vector store and its ingestion. *)
(*                                                                         *)
(* Many coroutines run on one event loop.  A coroutine keeps the loop from *)
(* one suspension to the next, so an action is what a handler does between *)
(* two suspensions: run() up to graph.ainvoke, a node of the graph (the    *)
(* graph schedules each node as a task), and run() from the graph's result *)
(* to the reply.  A provider call that does not suspend (no call to boto3, *)
(* that is to BedrockProvider, does) leaves `loop` with the coroutine: a   *)
(* node or an ingestion is then one uninterrupted stretch.                 *)
(*                                                                         *)
(* An answer is known by the request whose generation produced it.         *)
(***************************************************************************)
EXTENDS ResponseCache, ConversationMemory, VectorStore

CONSTANTS
    Requests,           \* the chat requests that may arrive
    Ingests,            \* the ingest requests that may arrive
    Docs,               \* ingest request -> number of documents it carries
    Queries,
    Norm,               \* query -> query.strip().lower()
    Factual,            \* normalised queries of at most 8 words with a factual keyword
    Reasoning,          \* normalised queries with a reasoning keyword
    Flagged,            \* queries the injection or the PII check reports
    CheapModel,         \* bedrock_cheap_model
    StrongModel,        \* bedrock_model_id
    GuardsOn,           \* enable_guardrails
    UseRag,             \* the values of use_rag that clients send
    AnswerTexts,        \* what a model may write: "clean", "pii" or both
    Window,             \* memory_window
    BlockingProvider,   \* provider calls never suspend
    Idle                \* nobody holds the event loop

ASSUME PipelineAssumption ==
    /\ Docs \in [Ingests -> Nat]
    /\ DOMAIN Norm = Queries
    /\ GuardsOn \in BOOLEAN /\ BlockingProvider \in BOOLEAN /\ UseRag \subseteq BOOLEAN
    /\ AnswerTexts \subseteq {"clean", "pii"}
    /\ Window \in Int
    /\ Idle \notin Requests \cup Ingests

VARIABLES
    loop,     \* the coroutine that keeps the event loop between two actions
    ask,      \* request -> its query, session and use_rag
    pc,       \* request -> where its coroutine is
    hist,     \* request -> the history put in its prompt
    ctx,      \* request -> the chunks put in its prompt
    raw,      \* request -> the model's answer before the output guard
    calls,    \* request -> the models its generate() calls went to
    reply,    \* request -> what its client receives
    ing,      \* ingest request -> where its coroutine is
    born,     \* history: ingest requests acknowledged when the request arrived
    seen,     \* history: those whose documents were stored when it searched
    ended,    \* history: those whose documents were stored when it was answered
    past      \* history: requests with an answer of their own when it arrived

chatVars == <<ask, pc, hist, ctx, raw, calls, reply>>
noteVars == <<born, seen, ended, past>>
vars == <<cacheVars, memory, chunks, loop, chatVars, ing, noteVars>>

-----------------------------------------------------------------------------
(* Pure parts: tiering, the cache key, the guards, the slice of the memory. *)

\* ComplexityRouter.decide: short and factual, then reasoning, then the default.
Decide(q) ==
    IF Norm[q] \in Factual THEN CheapModel
    ELSE IF Norm[q] \in Reasoning THEN StrongModel
    ELSE CheapModel

\* Faulty: the question is left out of the key.
KeyOfTier(q) == <<Decide(q)>>

\* ResponseCache._key, of the query and the model the tier selects.
Key(q) == <<Decide(q), Norm[q]>>

\* inspect_input.
Allowed(q) == ~GuardsOn \/ q \notin Flagged

\* Faulty: the guard's verdict is computed and its text forgotten.
SanitisedNever(text) == text

\* inspect_output: an answer in which PII is found leaves as redact_pii of it.
Sanitised(text) == IF GuardsOn /\ text = "pii" THEN "redacted" ELSE text

UserTurn(r) == [role |-> "user", by |-> r, text |-> ask[r].query]
AssistantTurn(r, text) == [role |-> "assistant", by |-> r, text |-> text]

Reply(kind, value, billed) ==
    [kind |-> kind, by |-> value.by, text |-> value.text, model |-> value.model,
     billed |-> billed, at |-> now]

NoAnswer(r) == [by |-> r, text |-> "none", model |-> "none"]

Acknowledged == {i \in Ingests : ing[i] = "done"}

\* The requests that were answered by a generation of their own.
Generated == {r \in Requests : reply[r].kind = "fresh"}

-----------------------------------------------------------------------------
Init ==
    /\ CacheInit /\ MemoryInit /\ StoreInit
    /\ loop = Idle
    /\ ask \in [Requests -> [query : Queries, session : Sessions, rag : UseRag]]
    /\ pc = [r \in Requests |-> "new"]
    /\ hist = [r \in Requests |-> <<>>]
    /\ ctx = [r \in Requests |-> {}]
    /\ raw = [r \in Requests |-> "none"]
    /\ calls = [r \in Requests |-> <<>>]
    /\ reply = [r \in Requests |-> Reply("none", NoAnswer(r), <<>>)]
    /\ ing = [i \in Ingests |-> "new"]
    /\ born = [r \in Requests |-> {}]
    /\ seen = [r \in Requests |-> {}]
    /\ ended = [r \in Requests |-> {}]
    /\ past = [r \in Requests |-> {}]

\* The loop is free, or already with coroutine c.
Runs(c) == loop \in {Idle, c}

\* Coroutine c is between two provider calls of one handler: a call that suspends has
\* given the loop away, one that does not (boto3 never does) has not.
AwaitsProvider(c) == loop' \in IF BlockingProvider THEN {c} ELSE {c, Idle}

Arrives(r) ==
    /\ pc[r] = "new"
    /\ loop = Idle
    /\ born' = [born EXCEPT ![r] = Acknowledged]
    /\ past' = [past EXCEPT ![r] = Generated]

-----------------------------------------------------------------------------
(* AgentPipeline.run *)

\* The input guard objects: a fixed reply, and nothing else happens.
RejectInput(r) ==
    /\ Arrives(r)
    /\ ~Allowed(ask[r].query)
    /\ pc' = [pc EXCEPT ![r] = "done"]
    /\ reply' = [reply EXCEPT ![r] = Reply("blocked", NoAnswer(r), <<>>)]
    /\ UNCHANGED <<cacheVars, memory, chunks, loop, ask, hist, ctx, raw, calls, ing, seen, ended>>

\* The cache answers: no generation, no charge, and no turn is remembered.
ServeCached(r) ==
    LET k == Key(ask[r].query) IN
    /\ Arrives(r)
    /\ Allowed(ask[r].query)
    /\ CacheGetHit(k)
    /\ pc' = [pc EXCEPT ![r] = "done"]
    /\ reply' = [reply EXCEPT ![r] = Reply("hit", cache[k].value, <<>>)]
    /\ UNCHANGED <<memory, chunks, loop, ask, hist, ctx, raw, calls, ing, seen, ended>>

\* A miss: the history is read here, before the graph runs.  use_rag goes into the
\* graph's state, where no node reads it.
EnterGraph(r) ==
    /\ Arrives(r)
    /\ Allowed(ask[r].query)
    /\ CacheGetMiss(Key(ask[r].query))
    /\ pc' = [pc EXCEPT ![r] = "rewrite"]
    /\ hist' = [hist EXCEPT ![r] = LastTurns(memory[ask[r].session], Window)]
    /\ UNCHANGED <<memory, chunks, loop, ask, ctx, raw, calls, reply, ing, seen, ended>>

\* RetrieverNode: the rewriting call names no model, so it goes to the provider's
\* own.  search() then returns at once if the store is empty and otherwise embeds
\* the rewritten query.
Rewrite(r) ==
    /\ pc[r] = "rewrite"
    /\ Runs(r)
    /\ calls' = [calls EXCEPT ![r] = Append(@, StrongModel)]
    /\ \/ /\ chunks = <<>>
          /\ pc' = [pc EXCEPT ![r] = "answer"]
          /\ loop' = Idle
       \/ /\ chunks # <<>>
          /\ pc' = [pc EXCEPT ![r] = "embed"]
          /\ AwaitsProvider(r)
    /\ UNCHANGED <<cacheVars, memory, chunks, ask, hist, ctx, raw, reply, ing, noteVars>>

\* The query is embedded: search() ranks the chunks that are in the store now.
Retrieve(r) ==
    /\ pc[r] = "embed"
    /\ Runs(r)
    /\ pc' = [pc EXCEPT ![r] = "answer"]
    /\ loop' = Idle
    /\ \E found \in SearchResults : ctx' = [ctx EXCEPT ![r] = found]
    /\ seen' = [seen EXCEPT ![r] = StoredJobs]
    /\ UNCHANGED <<cacheVars, memory, chunks, ask, hist, raw, calls, reply, ing, born, ended, past>>

\* AnswerNode: the tier's model answers, with or without PII in the text.
Answer(r) ==
    /\ pc[r] = "answer"
    /\ loop = Idle
    /\ pc' = [pc EXCEPT ![r] = "finish"]
    /\ calls' = [calls EXCEPT ![r] = Append(@, Decide(ask[r].query))]
    /\ \E text \in AnswerTexts : raw' = [raw EXCEPT ![r] = text]
    /\ UNCHANGED <<cacheVars, memory, chunks, loop, ask, hist, ctx, reply, ing, noteVars>>

\* Faulty: the answering call is priced as one of the provider's own model.
FinishBillingDefault(r) ==
    LET q     == ask[r].query
        value == [by |-> r, text |-> Sanitised(raw[r]), model |-> Decide(q)] IN
    /\ pc[r] = "finish"
    /\ loop = Idle
    /\ pc' = [pc EXCEPT ![r] = "done"]
    /\ RememberPair(ask[r].session, UserTurn(r), AssistantTurn(r, value.text))
    /\ CacheSet(Key(q), value)
    /\ reply' = [reply EXCEPT ![r] = Reply("fresh", value, <<StrongModel>>)]
    /\ ended' = [ended EXCEPT ![r] = StoredJobs]
    /\ UNCHANGED <<chunks, loop, ask, hist, ctx, raw, calls, ing, born, seen, past>>

\* From the graph's result to the reply: the output guard, the bill (for the
\* answering call), the two turns, the cache entry.
Finish(r) ==
    LET q     == ask[r].query
        value == [by |-> r, text |-> Sanitised(raw[r]), model |-> Decide(q)] IN
    /\ pc[r] = "finish"
    /\ loop = Idle
    /\ pc' = [pc EXCEPT ![r] = "done"]
    /\ RememberPair(ask[r].session, UserTurn(r), AssistantTurn(r, value.text))
    /\ CacheSet(Key(q), value)
    /\ reply' = [reply EXCEPT ![r] = Reply("fresh", value, <<value.model>>)]
    /\ ended' = [ended EXCEPT ![r] = StoredJobs]
    /\ UNCHANGED <<chunks, loop, ask, hist, ctx, raw, calls, ing, born, seen, past>>

\* Faulty: the question of a failed turn is remembered.
ProviderFailsRemembering(r) ==
    /\ pc[r] \in {"rewrite", "embed", "answer"}
    /\ Runs(r)
    /\ pc' = [pc EXCEPT ![r] = "done"]
    /\ loop' = Idle
    /\ reply' = [reply EXCEPT ![r] = Reply("error", NoAnswer(r), <<>>)]
    /\ memory' = [memory EXCEPT ![ask[r].session] = Pushed(@, UserTurn(r))]
    /\ UNCHANGED <<cacheVars, chunks, ask, hist, ctx, raw, calls, ing, noteVars>>

\* Faulty: a failed turn starts over, however often it has failed.
ProviderFailsRetrying(r) ==
    /\ pc[r] \in {"rewrite", "embed", "answer"}
    /\ Runs(r)
    /\ pc' = [pc EXCEPT ![r] = "rewrite"]
    /\ loop' = Idle
    /\ calls' = [calls EXCEPT ![r] = <<>>]
    /\ UNCHANGED <<cacheVars, memory, chunks, ask, hist, ctx, raw, reply, ing, noteVars>>

\* A provider call raises LLMProviderError: the handler unwinds, the client gets 502.
ProviderFails(r) ==
    /\ pc[r] \in {"rewrite", "embed", "answer"}
    /\ Runs(r)
    /\ pc' = [pc EXCEPT ![r] = "done"]
    /\ loop' = Idle
    /\ reply' = [reply EXCEPT ![r] = Reply("error", NoAnswer(r), <<>>)]
    /\ UNCHANGED <<cacheVars, memory, chunks, ask, hist, ctx, raw, calls, ing, noteVars>>

-----------------------------------------------------------------------------
(* AgentPipeline.ingest *)

\* No documents: the store's size is all the caller gets.
IngestNothing(i) ==
    /\ ing[i] = "new" /\ Docs[i] = 0
    /\ loop = Idle
    /\ ing' = [ing EXCEPT ![i] = "nothing"]
    /\ UNCHANGED <<cacheVars, memory, chunks, loop, chatVars, noteVars>>

\* Up to the embedding call.  The in-memory store has no index to make ready.
StartIngest(i) ==
    /\ ing[i] = "new" /\ Docs[i] > 0
    /\ loop = Idle
    /\ ing' = [ing EXCEPT ![i] = "embed"]
    /\ AwaitsProvider(i)
    /\ UNCHANGED <<cacheVars, memory, chunks, chatVars, noteVars>>

\* The vectors are there: store every chunk, drop every cached reply, answer.
StoreAndClear(i) ==
    /\ ing[i] = "embed"
    /\ Runs(i)
    /\ ing' = [ing EXCEPT ![i] = "done"]
    /\ loop' = Idle
    /\ AddDocuments(i, Docs[i])
    /\ CacheClear
    /\ UNCHANGED <<memory, chatVars, noteVars>>

\* The embedding call raises: 502, and the store and the cache are as before.
IngestFails(i) ==
    /\ ing[i] = "embed"
    /\ Runs(i)
    /\ ing' = [ing EXCEPT ![i] = "failed"]
    /\ loop' = Idle
    /\ UNCHANGED <<cacheVars, memory, chunks, chatVars, noteVars>>

-----------------------------------------------------------------------------
\* Time passes at any moment, during a blocking call too.
Tick ==
    /\ ClockTick
    /\ UNCHANGED <<memory, chunks, loop, chatVars, ing, noteVars>>

Begin(r) == RejectInput(r) \/ ServeCached(r) \/ EnterGraph(r)

Proceed(r) == Rewrite(r) \/ Retrieve(r) \/ Answer(r) \/ Finish(r) \/ ProviderFails(r)

ProceedIngest(i) == StoreAndClear(i) \/ IngestFails(i)

Next ==
    \/ \E r \in Requests : Begin(r) \/ Proceed(r)
    \/ \E i \in Ingests : IngestNothing(i) \/ StartIngest(i) \/ ProceedIngest(i)
    \/ Tick

Spec == Init /\ [][Next]_vars

\* The event loop resumes a coroutine whose provider call returned or raised, and a
\* call does one of the two (botocore times out).  Clients and the clock owe nothing.
Fairness ==
    /\ \A r \in Requests : WF_vars(Proceed(r))
    /\ \A i \in Ingests : WF_vars(ProceedIngest(i))

FairSpec == Spec /\ Fairness

-----------------------------------------------------------------------------
(* What the pipeline promises. *)

PCs == {"new", "rewrite", "embed", "answer", "finish", "done"}
InGraph == {r \in Requests : pc[r] \in {"rewrite", "embed", "answer", "finish"}}

Models == {CheapModel, StrongModel}
Keys == {Key(q) : q \in Queries}
Texts == {"none", "clean", "pii", "redacted"}
Values == [by : Requests, text : Texts, model : Models]
Turns == [role : {"user"}, by : Requests, text : Queries]
            \cup [role : {"assistant"}, by : Requests, text : Texts]
Replies == [kind : {"none", "blocked", "hit", "fresh", "error"}, by : Requests, text : Texts,
            model : Models \cup {"none"}, billed : Seq(Models), at : Nat]

\* Every variable has its type; in particular no session remembers more than MaxTurns
\* turns (deque maxlen, memory.py:61) and nobody but a coroutine inside a handler keeps
\* the event loop.
TypeOK ==
    /\ CacheTypeOK(Keys, Values)
    /\ MemoryTypeOK(Turns)
    /\ \A s \in Sessions : Len(memory[s]) <= MaxTurns
    /\ StoreTypeOK(Ingests)
    /\ loop \in {Idle} \cup InGraph \cup {i \in Ingests : ing[i] = "embed"}
    /\ ask \in [Requests -> [query : Queries, session : Sessions, rag : UseRag]]
    /\ pc \in [Requests -> PCs]
    /\ hist \in [Requests -> Seq(Turns)]
    /\ ctx \in [Requests -> SUBSET Nat]
    /\ raw \in [Requests -> Texts]
    /\ calls \in [Requests -> Seq(Models)]
    /\ reply \in [Requests -> Replies]
    /\ ing \in [Ingests -> {"new", "nothing", "embed", "done", "failed"}]
    /\ born \in [Requests -> SUBSET Ingests]
    /\ seen \in [Requests -> SUBSET Ingests]
    /\ ended \in [Requests -> SUBSET Ingests]
    /\ past \in [Requests -> SUBSET Requests]

\* The model that wrote e's answer: its last generate() call went there.
Wrote(e) == calls[e][Len(calls[e])]

\* A client is given an answer that some request generated for the same question, by the
\* model its own tier selects, in the text that request's own client was given.  The
\* model it is told is the one the answering call went to, and so is the model it is
\* charged for, once, if the answer was generated for it; a reused answer is free
\* (pipeline.py:97-126: the cache key against the reply; nodes.py:58-64 against 160-204).
AnswerProvenance ==
    \A r \in Requests : reply[r].kind \in {"hit", "fresh"} =>
        LET source == reply[r].by IN
        /\ source \in Generated
        /\ Norm[ask[source].query] = Norm[ask[r].query]
        /\ reply[r].model = Decide(ask[r].query)
        /\ reply[r].model = Wrote(source)
        /\ reply[r].text = reply[source].text
        /\ reply[r].billed = IF reply[r].kind = "fresh" THEN <<Wrote(source)>> ELSE <<>>
        /\ reply[r].kind = "fresh" => source = r

\* A turn that may be kept or put in a prompt when the guards are on.
CleanTurn(turn) ==
    IF turn.role = "user" THEN Allowed(turn.text) ELSE turn.text # "pii"

\* With the guards on, no answer in which PII was found is kept or sent as the model
\* wrote it - not in a reply, not in the cache, not in a session's memory, not in a
\* history put in a prompt - and no flagged question is remembered or prompted with
\* (pipeline.py:139-142 comes before 172-202).
NoRawPII ==
    GuardsOn =>
        /\ \A r \in Requests : reply[r].text # "pii"
        /\ \A k \in DOMAIN cache : cache[k].value.text # "pii"
        /\ \A s \in Sessions : \A n \in 1..Len(memory[s]) : CleanTurn(memory[s][n])
        /\ \A r \in Requests : \A n \in 1..Len(hist[r]) : CleanTurn(hist[r][n])

\* The memory of a session is whole turns: a question, then the answer its own client
\* was given, of requests of that session answered by a generation, none twice.  A
\* blocked, failed or cached request, or one still running, has left nothing, and
\* nothing of a session is missing before its deque is full (pipeline.py:172-174).
RememberedTurns ==
    \A s \in Sessions :
        LET turns == memory[s]
            odds  == {n \in 1..Len(turns) : n % 2 = 1} IN
        /\ Len(turns) % 2 = 0
        /\ \A n \in odds :
              /\ turns[n] = UserTurn(turns[n].by)
              /\ turns[n + 1] = AssistantTurn(turns[n].by, reply[turns[n].by].text)
              /\ turns[n].by \in Generated
              /\ ask[turns[n].by].session = s
        /\ \A m, n \in odds : turns[m].by = turns[n].by => m = n
        /\ Len(turns) < MaxTurns =>
              \A r \in Generated : ask[r].session = s => \E n \in odds : turns[n].by = r

\* A request is asked with the history of its own session: only turns of earlier
\* requests of that session, all of them unless the window (memory_window, or the deque
\* if it is the shorter) is full, and the newest of them then: never a turn without one
\* that was asked after it had been answered (pipeline.py:128, 244-249).
HistoryIsTheSessions ==
    \A r \in Requests : pc[r] # "new" /\ reply[r].kind \in {"none", "fresh"} =>
        LET mine == {e \in past[r] : ask[e].session = ask[r].session}
            told == {hist[r][n].by : n \in 1..Len(hist[r])} IN
        /\ told \subseteq mine
        /\ Window > 0 => Len(hist[r]) <= Window
        /\ Len(hist[r]) < Window /\ Len(hist[r]) < MaxTurns => told = mine
        /\ \A e \in mine, t \in told : t \in past[e] => e \in told

\* A generated answer could draw on every document whose ingestion had been
\* acknowledged when its request arrived (retriever.py:41-57 against 32-38).
FreshReflectsAcknowledged ==
    \A r \in Requests : pc[r] \in {"answer", "finish"} \/ reply[r].kind = "fresh" =>
        born[r] \subseteq seen[r]

\* An answer from the cache was completed after every ingestion that had been
\* acknowledged when its request arrived (pipeline.py:238-240).
HitsPostdateIngests ==
    \A r \in Requests : reply[r].kind = "hit" => born[r] \subseteq ended[reply[r].by]

\* An answer from the cache is never older than the TTL, however often it has been
\* served in between (cache.py:13-15, 40-45).
HitWithinTTL ==
    \A r \in Requests : reply[r].kind = "hit" =>
        LET age == reply[r].at - reply[reply[r].by].at IN 0 <= age /\ age <= TTL

\* No request pays for a generation when an answer to the same question, no older
\* than the TTL, has been completed since the last ingestion (pipeline.py:100).
NoNeedlessGeneration ==
    [][\A r \in Requests : pc[r] = "new" /\ pc'[r] = "rewrite" =>
          ~ \E f \in Generated :
                /\ Norm[ask[f].query] = Norm[ask[r].query]
                /\ ended[f] = StoredJobs
                /\ now - reply[f].at <= TTL]_vars

\* The counters behind GET /v1/cache/stats count the requests that were served from
\* the cache and those that went to the model, whatever happened to them later
\* (cache.py:34-63).
CountersAgree ==
    /\ hits = Cardinality({r \in Requests : reply[r].kind = "hit"})
    /\ misses = Cardinality(InGraph \cup {r \in Requests : reply[r].kind \in {"fresh", "error"}})

\* Whatever the provider does, a request that has entered the graph is answered, and
\* an ingestion that has started is acknowledged or refused (main.py:25-32, 74-86).
AllAnswered ==
    /\ \A r \in Requests : r \in InGraph ~> reply[r].kind \in {"fresh", "error"}
    /\ \A i \in Ingests : ing[i] = "embed" ~> ing[i] \in {"done", "failed"}

-----------------------------------------------------------------------------
(* The pipeline behind the contract a client sees: replies without their bill, the
   deques, the answers the cache holds, the acknowledged ingestions. *)

Contract == INSTANCE ChatContract WITH
    Jobs      <- Ingests,
    Questions <- [query : Queries, session : Sessions, rag : UseRag],
    Topic     <- [q \in Queries |-> Key(q)],
    Texts     <- {Sanitised(text) : text \in Texts},
    Keep      <- MaxTurns,
    outcome   <- [r \in Requests |->
                    [kind |-> reply[r].kind, by |-> reply[r].by, text |-> reply[r].text]],
    log       <- memory,
    pool      <- {cache[k].value.by : k \in DOMAIN cache},
    known     <- Acknowledged

\* Whatever the interleaving of the coroutines, the failures and the clock, the clients
\* of one process see a service that handles every request and every ingestion at one
\* moment: answers and whole turns appear together, a failed, blocked or cached request
\* leaves nothing, an ingestion ends the reuse of what was said before it
\* (pipeline.py:79-240).
ImplementsContract == Contract!Spec

-----------------------------------------------------------------------------
(* What the repository says of the pipeline and the pipeline does not do.  Each of
   these is refuted by a run of its own. *)

\* "cached answers are now stale - drop the response cache to avoid serving pre-ingest
\* answers" (pipeline.py:238-239): an answer from the cache could draw on every
\* document acknowledged when its request arrived.
NoPreIngestAnswers ==
    \A r \in Requests : reply[r].kind = "hit" => born[r] \subseteq seen[reply[r].by]

\* "Persist the turn so follow-up questions in the same session stay coherent"
\* (pipeline.py:172): an answer a session was given is in the session's memory, while
\* that memory has room.
AnswersAreRemembered ==
    \A r \in Requests :
        LET turns == memory[ask[r].session] IN
        reply[r].kind \in {"hit", "fresh"} /\ Len(turns) < MaxTurns =>
            \E n \in 1..Len(turns) : turns[n].role = "assistant" /\ turns[n].by = reply[r].by

\* "CostTracker prices each request against the model that actually ran" (README.md:179):
\* a request that was answered is charged for each of its generate() calls, at the model
\* the call went to.
EveryCallIsBilled == \A r \in Generated : reply[r].billed = calls[r]
=============================================================================
