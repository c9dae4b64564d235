# genai-agents: verification project

TLA+ specifications of the agent service in `src/`, the TLC configurations that model-check
them on small instances, and theorems about them that TLAPS proves for every value of the
constants. `PROJECT.json` holds the same information as tables: components, runs, mutants,
the map from definitions to source lines, findings, hazards, theorems.

## 1. The system

One FastAPI process (`app/main.py`) or one AgentCore Runtime container
(`app/runtime/agentcore_app.py`) builds one `AgentPipeline` (`app/pipeline.py`), and every
request runs as a coroutine of one asyncio event loop.

| Component | State | Operations | Talks to | What makes it correct |
| --- | --- | --- | --- | --- |
| `AgentPipeline` | `_index_ready`; everything else is in its parts | `run`, `ingest` | all below | replies belong to their questions; ingestion invalidates; failed turns leave nothing; prompts hold the session's own history |
| `ResponseCache` | `_store`, `hits`, `misses` | `get`, `set`, `clear`, `stats` | the wall clock | nothing older than the TTL or than the last ingestion is served; an answer that is still good is not paid for twice; the counters count requests |
| `ComplexityRouter` | none | `decide` | settings | the model it names is the one that runs and is billed |
| `ConversationMemory` (in memory / AgentCore) | a deque per session / a hosted store | `append`, `history` | Bedrock AgentCore | whole turns, in order, of one session, also when one of two appends fails |
| Entrypoints (`main.py`, `agentcore_app.py`) | none | `/v1/chat`, `/v1/ingest`, `/health`; `handle` | the pipeline | the session whose history a prompt gets |
| Agent graph (`graph.py`, `nodes.py`) | the `AgentState` of each run | `retrieve`, `answer` | provider, store | one retrieval, then one answer |
| Vector store (in memory / S3 Vectors) | `chunks` / a shared index and `_count` | `add_documents`, `search`, `ensure_index`, `size` | provider, S3 | what was acknowledged is found |
| `BedrockProvider` | none | `generate`, `embed` | Bedrock | returns or raises `LLMProviderError`; synchronous inside `async def` |
| Guards | none | `inspect_input`, `inspect_output` | settings | nothing flagged is kept or sent |
| `CostTracker` | a list of usages | `add`, `estimate` | price table | a request is billed for what it used |
| Metrics, `EvalRunner`, `ReleaseGate` | none | scoring, averaging | a data set | the gate decides by its thresholds |
| Web client (`frontend/src`) | the messages, `busy`, the badge | `send`, `submit`, `check` | the API | one turn at a time; the badge shows the latest answer |
| Settings, logging, Terraform, Docker | none | | | |

What is hard here:

- **Interleaving.** `run` is suspended while the graph's nodes wait for the provider. Its
  cache lookup, its history snapshot, its retrieval and its cache write are separate steps
  with other turns and whole ingestions between them.
- **Two suspension regimes.** boto3 calls do not suspend, so with `BedrockProvider` a
  coroutine keeps the loop through a node or an ingestion; a provider that really awaits
  (the tests' doubles, or an async client) lets others in between. Both are modelled.
- **Failure.** Any provider call may raise; the handler unwinds and the client gets a 502.
- **Limits.** A bounded deque written in pairs, a TTL, a slice with a negative index.
- **Several stores that must agree.** Memory, cache, vector store and bill are updated one
  after the other by the same handler.
- **Several processes.** With S3 Vectors the documents are shared and outlive a process; the
  cache, the counter and the ready flag do not, and Terraform runs the tasks on Fargate Spot.
  With the hosted memory the turns are shared too, and each append is a call that can fail
  after it took effect.
- **Lost replies.** The browser shows an error when a connection breaks, while the service
  may have stored the turn or the documents; the user repeats what was already done. Health
  checks overlap, and a late failure can overtake a newer success.
- **Rounding.** Bills are rounded side by side, scores are rounded for the report and compared
  unrounded, and an empty text or data set is a divisor of zero.

The hazards are listed one by one, at their lines, in `PROJECT.json`, with the properties
that watch them or the reason none does yet.

## 2. The modules

| Module | Models | State | Actions |
| --- | --- | --- | --- |
| `ResponseCache` | `app/costs/cache.py` | `cache`, `hits`, `misses`, `now` | `CacheGetHit`, `CacheGetMiss`, `CacheSet`, `CacheClear`, `ClockTick` |
| `TurnLists` | the slice that makes the history of a prompt | | operator `LastTurns` |
| `ConversationMemory` | `InMemoryConversationMemory` | `memory` | `RememberPair`; operator `Pushed` |
| `VectorStore` | `app/rag/retriever.py` | `chunks` | `AddDocuments`; operator `SearchResults` |
| `AgentPipeline` | `app/pipeline.py` with the graph, guards, router and provider | the three above, `loop`, and per request / ingestion a record of where its coroutine is and what it holds | see below |
| `MCAgentPipeline` | definitions for the constants of the TLC runs | | |
| `ChatContract` | the service as its clients may think of it, the abstraction of `AgentPipeline` | `ask`, `outcome`, `log`, `pool`, `known` | `Generate`, `Reuse`, `Refuse`, `Forget`, `Learn` |
| `TurnListProofs` | lemmas: `LastTurns` is an end of the list, and how long | | |
| `AnswerProofs` | type correctness, what answers are made of, what the cache keeps and counts | | |
| `MemoryProofs` | the guards' effect on what is kept and sent, what a session remembers, what prompts are told | | |
| `ContractProofs` | `AgentPipeline` implements `ChatContract` | | |
| `S3Deployment` | `app/rag/s3_vectors.py` and `app/pipeline.py` around it, in several processes | the shared index; per process `ready`, `count`, `kept`, `loop`; per job and chat where its coroutine is | see below |
| `MCS3Deployment` | definitions for the constants of its TLC runs | | |
| `S3Proofs` | what acknowledgements, searches, totals and the bootstrap guarantee | | |
| `HostedMemory` | `AgentCoreMemory` and both entrypoints around the pipeline, in several processes | the shared `events`; per process `cached`, `loop`; per request where its coroutine is | see below |
| `MCHostedMemory` | definitions for the constants of its TLC run | | |
| `HostedProofs` | what the shared store holds and follow-ups know | | |
| `WebClient` | `frontend/src` (chat, ingest panel, badge) in front of `ChatContract`'s service | per page `thread`, `busy`, `box`, `panel`, `note`, `error`, `badge` and its checks; `wire`, `up` | see below |
| `MCWebClient` | definitions for the constants of its TLC run | | |
| `WebProofs` | what a page shows, against what the service has | | |
| `Metrics` | `app/eval/metrics.py` | | operators `Faithfulness`, `AnswerRelevance`, `Average`, `Thousandths` |
| `Pricing` | `app/eval/cost.py` | | operators `PricingFor`, `Estimates` |
| `Evaluation` | `eval/harness.py`, with the agent's own scores and bill | `dataset`, `results`, `agent`, `report` | `Answer`, `AnswererRaises`, `RunEnds`, `Evaluate`, `EvaluateNothing` |
| `MCEvaluation` | definitions for the constants of its TLC run | | |
| `EvaluationProofs` | sums and averages over sequences of any length, and what the scores, bills and reports guarantee | | |

`ResponseCache`, `ConversationMemory` and `VectorStore` offer one operation per method and have no next-state relation of
their own; `AgentPipeline` extends them and conjoins their operations to its handlers, the
way the methods are called.

### The handlers

An action is what a coroutine does between two suspensions.

| Action | Code |
| --- | --- |
| `RejectInput(r)` | `run` returns the fixed reply of the input guard (pipeline.py:84-95) |
| `ServeCached(r)` | tier, lookup, hit (97-126); the memory is not touched |
| `EnterGraph(r)` | tier, lookup, miss, history snapshot (97-137) |
| `Rewrite(r)` | the rewriting call, then the empty-store check of `search` (nodes.py:31-42, retriever.py:42-43) |
| `Retrieve(r)` | the question is embedded: rank the chunks there are now (retriever.py:44-57) |
| `Answer(r)` | the answering call, on the tier's model (nodes.py:49-73) |
| `Finish(r)` | output guard, bill, two turns, cache entry, reply (pipeline.py:137-217) |
| `ProviderFails(r)` | any of the calls raises: 502 (bedrock.py:56-58, 82-84; main.py:25-32) |
| `IngestNothing(i)` | no documents (pipeline.py:234-235) |
| `StartIngest(i)` | up to the embedding (219-237) |
| `StoreAndClear(i)` | chunks stored, cache cleared, reply (retriever.py:34-39, pipeline.py:237-242) |
| `IngestFails(i)` | the embedding raises |
| `Tick` | the wall clock advances, at any moment |

`loop` is the coroutine that keeps the event loop between two actions: with
`BlockingProvider` it stays with the coroutine from a provider call to the next, without it
any such call may suspend or not. Between two nodes of the graph other coroutines run in
either case. Where a request could wait for the event loop it waits (guards
`loop = Idle`, `Runs`).

### The shared index

`S3Deployment` is a second composition of the pipeline, over the other vector store. In a
process an ingestion never suspends between two S3 calls (boto3), but other processes run
between them and a process may be taken away there; so each S3 call is an action.

| Action | Code |
| --- | --- |
| `IngestNothing(j, p)` | no documents: the size is returned (pipeline.py:234-235) |
| `StartReady(j, p)` | `_index_ready` is set: on to the embedding (219-237) |
| `CreateBucket(j, p)`, `CreateIndex(j)` | the two calls of `ensure_index`, each may fail unnoticed (s3_vectors.py:81-97); then `_index_ready` |
| `PutMore(j)` | a batch that is not the last (s3_vectors.py:111-115) |
| `PutLast(j)` | the last batch, `_count`, `cache.clear()` (111-116, pipeline.py:240) |
| `Report(j)` | `size`, from the listing or from `_count` (155-193, pipeline.py:242) |
| `IngestFails(j)` | the embedding or a put raises, before or after the service stored the batch |
| `ChatHit(r, p)`, `ChatMiss(r, p)` | the lookup in this process's cache |
| `Search(r)`, `SearchRaises(r)` | `query_vectors`, with and without an index (119-128) |
| `ChatAnswers(r)`, `ChatFails(r)` | answer, cache entry, reply; or an error |
| `Restart(p)` | the task is replaced: `ready`, `count`, the cache and its coroutines are gone, the index stays |

Documents are pairs (job, number), a search is known by the jobs it could draw on entirely,
and a cached answer by the search behind it. All chats ask one question; guards, tiers,
memory and the clock are in `AgentPipeline`, and a lookup may find its entry expired at any
time. A listing is one step, although `list_vectors` is paginated: vectors are only ever
added, so a listing that others overtake returns a number between two that single steps
return. Creating the index needs the bucket; a service call that raises may or may not have
taken effect.

### The contract

`ChatContract` is the specification a client could work with. A request ends at one moment in
one of three ways: with an answer of its own, which the session then remembers as a whole turn
(`Generate`); with an answer given before to a question on the same topic (`Reuse`); or without
an answer and without a trace (`Refuse`). Answers become unusable at any time (`Forget`) and
all of them when documents are learned (`Learn`). `AgentPipeline` implements it under this
mapping (`Contract == INSTANCE ChatContract WITH ...`):

| Contract | Pipeline |
| --- | --- |
| `outcome[r]` | `reply[r]` without the model, the time and the bill |
| `log` | the sessions' deques, `memory` |
| `pool` | the requests whose answers the cache holds |
| `known` | the acknowledged ingestions |
| `Topic` | the cache key: tier and normalised question |

`Finish` and `ServeCached` are the steps at which a request happens, `StoreAndClear` the step
at which an ingestion does; retrievals and model calls are stutters. What the contract does
not promise is just as much a result: nothing relates a reused answer to the session's
history, and a `Generate` after a `Learn` may rest on documents read before it.

### The hosted memory

`HostedMemory` is a third composition of the pipeline, with `MEMORY_BACKEND=agentcore`. The
graph is one step here (`AgentPipeline` has its detail), the calls to the store are steps.

| Action | Code |
| --- | --- |
| `RefuseBlank(r, p)` | `handle` refuses a prompt of white space (agentcore_app.py:72-74); `/v1/chat` does not |
| `RejectInput(r, p)`, `ServeCached(r, p)` | guard and cache, as in `AgentPipeline`; `SessionOf` is `_resolve_session_id` or the request's default |
| `ReadHistory(r, p)`, `HistoryFails(r, p)` | a miss, then `list_events` (pipeline.py:128, memory.py:98-114) |
| `GraphFails(r)` | a node raises |
| `StoreQuestion(r)`, `QuestionFails(r)` | the first `create_event` (pipeline.py:173); a failure may have stored it |
| `StoreAnswer(r)`, `AnswerFails(r)` | the second one, then cache entry and reply (174-217); a failure may have stored it, and leaves a question without an answer if it has not |
| `Stop(p)` | the process is replaced: its cache and coroutines are gone, the store stays |

Between `StoreQuestion` and `StoreAnswer` the coroutine keeps its own process's event loop
(boto3), and other processes append to the same session. That `list_events` returns all
events of a session, oldest first, is how `history` uses it and is assumed; the store itself
is external. An entry may have expired whenever it is looked up.

### The web client

`WebClient` puts pages in front of the contract: a page load makes a session id, so a page is
a session.

| Action | Code |
| --- | --- |
| `Send(p, r)`, `Show(p, r)`, `Fail(p, r)` | `send` of Chat.tsx: two messages and `busy`; a reply; a connection that was refused or broke, or an error status |
| `Type(p, d)`, `Submit(p, i)`, `SubmitNothing(p)`, `Ingested(p, i)`, `IngestFails(p, i)` | IngestPanel.tsx: the box and `submit` with its endings; `SubmitNothing` sets the error and leaves the note, which the panel goes on showing beside it (19-22, 69-72) |
| `Check(p)`, `CheckAnswered(p)`, `CheckFails(p)` | HealthBadge.tsx: the interval fires whether or not earlier checks have ended, and these end in any order |
| `Serve(r)`, `Store(i)`, `Expire` | the contract's steps, for calls that have reached the service |
| `Stop`, `Start` | the process goes with its sessions and cache, connections break; it comes back |

A call that breaks may have been served already, or be served later. The user who asks again
sends a new request. Whether documents survive a restart depends on the store and is not followed:
`known` and `learned` say what was carried out. A health check fails only if the service was
or went down.

### The evaluation

`Metrics` and `Pricing` are the pure functions, `Evaluation` the process that uses them: the
runner puts one question after the other to an agent whose answers are a choice, and the gate
averages. A text is its set of content words, what `_tokens` returns. Python's floats are
exact fractions here, so a verdict could differ only where an average lies within a rounding
error of its threshold; the instance keeps away from that: queries have 0, 1 or 2 words, the
thresholds are 667/1000 and 1/2, and every sum that equals 1/2 is a sum of halves and
wholes, which floats hold exactly. The report has the count and the rounded average of each
category. Where `round` meets a tie the model allows both neighbours. Dollars are
whole nanodollars, which the price table's entries are. `Total` and `SumOf` are recursive
functions and a category is the set of the results in it, so that the module can be proved
about. `EvaluationAssumption` says of the agent what `run` does: an answer is split into at
least one claim.

### Abstractions of AgentPipeline

What is abstracted: an answer is known by the request that generated it (`by`) and by what
the PII scan says of its text (`clean`, `pii`, `redacted`); a question by its normalised form
(`Norm`), its tier (`Factual`, `Reasoning`) and the input guard's verdict (`Flagged`); a chunk
by the ingestion that stored it. The ranking of a search is any choice of `TopK` chunks. The
SHA-256 of the cache key is taken to be injective. `born`, `seen`, `ended` and `past` are
history variables: they record facts about the moment a request arrived, searched or was
answered, and no guard reads them.

Definitions whose comment starts with "Faulty" are not part of the specification: each is a
wrong version of the definition after it, used to show that a property notices the mistake.

## 3. What is checked

| Run | Instance | Properties |
| --- | --- | --- |
| `pipeline_cache` | 3 requests of 4 texts (two spellings of one question, another of its tier, one of the other), 1 ingestion, TTL 1, clock to 2, a provider that keeps the loop | `AnswerProvenance`, `HitsPostdateIngests`, `HitWithinTTL`, `CountersAgree`, `NoNeedlessGeneration`, `ImplementsContract` |
| `pipeline_memory` | 4 requests, 2 sessions, deque of 4 turns, window of 3 | `TypeOK`, `RememberedTurns`, `HistoryIsTheSessions` |
| `pipeline_answers` | 2 requests, a flagged question, answers with and without PII, 3 ingestions (one empty), top 2, TTL 0, clock to 1, a provider that may suspend, fairness | `FreshReflectsAcknowledged`, `NoRawPII`, `AllAnswered` |
| `s3_index` | 2 processes, jobs of 3, 1 and 0 documents, batches of 2, 2 chats, 1 restart, provider that suspends | `S3TypeOK`, `AcknowledgedIsStored`, `TotalsAreHonest`, `EnsuredOncePerLife`, `FreshSeesAllProcesses` |
| `hosted` | 2 processes, 3 requests of 7 kinds over both entrypoints, 2 sessions, window of 2, 1 stop | `HostedTypeOK`, `AnswersAreDurable`, `TurnsInOrder`, `NoStrayTurns`, `FollowUpsKnow`, `PlatformSessionsApart` |
| `web` | 1 page, 3 questions on one topic, 2 submissions, a memory of 4 turns (2 exchanges), no checks, 1 stop | `WebTypeOK`, `PageFollowsMemory`, `IngestedIsSeen`, `NothingTypedIsLost` |
| `web_liveness` | 1 page, 2 questions, no documents, a memory of 2 turns, 2 checks under way, 2 stops, fairness | `BusyEnds`, `BadgeSettles` |
| `evaluation` | 5 data sets of 0 to 4 questions, 7 answers, 2 words | `EvaluationTypeOK`, `VerdictOnTheWhole`, `LongerAnswersStillPass`, `ReportShowsTheVerdict`, `CategoriesMakeUpTheAverage`, `BillsAddUp` |
| `finding_*` | 1 or 2 requests, at most 1 ingestion; for S3, 2 processes, no restart; a blocking provider | one claim each, refuted (section 4) |

In words:

- `AnswerProvenance`: a reply is an answer generated for the same normalised question by the
  model of the asker's tier, in the words the generating request's client was given; it
  names the model of the answering call, and bills that call once, a hit nothing.
- `HitsPostdateIngests`, `HitWithinTTL`: a hit was completed after every ingestion that had
  been acknowledged when it was asked for, and is no older than the TTL.
- `NoNeedlessGeneration`: nobody pays for a generation while a usable answer exists.
- `CountersAgree`: the cache statistics are numbers of requests.
- `RememberedTurns`: a session's memory is pairs (question, its own answer) of finished,
  generated requests, none twice, none missing before the deque is full.
- `HistoryIsTheSessions`: a prompt holds the newest turns of earlier requests of its session.
- `FreshReflectsAcknowledged`: a generated answer could draw on all acknowledged documents.
- `NoRawPII`: text with PII and flagged questions are never sent, kept or prompted with.
- `AllAnswered`: what enters the graph, or starts to ingest, ends.
- `AcknowledgedIsStored`: an acknowledged ingestion is in the index completely.
- `TotalsAreHonest`: the total it reports is at least its own documents and at most what is
  stored, from whichever source `size` took it.
- `EnsuredOncePerLife`: a process runs `ensure_index` at most once between two restarts.
- `FreshSeesAllProcesses`: a generated answer searched an index with everything that any
  process had acknowledged before the question arrived.
- `ImplementsContract`: the pipeline is a `ChatContract`.
- `AnswersAreDurable`: an answer a client has, or a cache may give, is a whole turn of the
  shared store, whatever stopped or failed since.
- `TurnsInOrder`, `NoStrayTurns`: in the store an answer stands after its question, nothing
  twice, nothing in a session it does not belong to, nothing of a refused or cached question.
- `FollowUpsKnow`: a prompt has the answers its session had got before, on whatever process,
  or so many newer turns that they do not fit.
- `PlatformSessionsApart`: on AgentCore Runtime no prompt has a turn of another platform
  session, whatever ids the payloads carry.
- `PageFollowsMemory`: the answers a page shows are remembered in the order it shows them, and
  what is forgotten is the older part.
- `IngestedIsSeen`: while the panel says "Ingested", also beside a later error, its page gets
  no reused answer that was given before the submission.
- `NothingTypedIsLost`: a document is in its box until the service has stored it.
- `BusyEnds`, `BadgeSettles`: the chat does not stay disabled; the badge ends up right.
- `VerdictOnTheWhole`: the gate decides on every question of a data set that is not empty, or
  not at all.
- `LongerAnswersStillPass`: saying more in one answer cannot turn a pass into a failure.
- `ReportShowsTheVerdict`: rounding to three decimals never makes a report contradict itself,
  if the thresholds have no more decimals.
- `CategoriesMakeUpTheAverage`: the categories' averages, weighed by their counts, give the
  reported average again, but for both roundings.
- `BillsAddUp`: n bills are off by at most n microdollars from the price of the tokens that are
  billed, those of the answering calls, region prefixes included.

**Bounds.** Three requests are the fewest for one to generate, one to hit and one to miss
after the entry expired or was cleared; the clock reaches one past the TTL, so an entry is
seen fresh, exactly at the TTL, and older. A deque of four turns overflows with three
requests of one session, and four requests also overlap there with a second session; a
window of three is odd, so it cuts a pair, and is shorter than the deque. Two ingestions can
overlap each other and a request; the third has no documents. `MaxNow` bounds only the
clock; the sets `Requests` and `Ingests` bound everything else (each of their members
arrives once; a client that asks twice is two of them). Requests are interchangeable, and so
are sessions, and so are submissions of one document: they are symmetry sets where no liveness
is checked. `pipeline_cache` has the provider the program uses, which keeps the loop within a
node, and other turns between the nodes; the other two runs and the theorems cover a provider
that suspends. Liveness is checked with calls that may suspend or not, so both are in the run.
For the shared index, batches of two
and three documents give a full batch and a short last one, with another process, a failure
or the restart (`MaxCrashes`) between them; the second job overlaps the first on the same
process or the other, the third asks for a size only. Processes and chats are symmetric,
jobs are not. With the hosted memory, three requests of one session on two processes let two of
them interleave between their appends and a third read what came of it, and one stop
(`MaxStops`) can fall between the two appends; the window of two is filled by one turn, so
follow-ups see both an answer in it and one pushed out; the run has 1.2 million states. On a page
three questions over a memory of two exchanges (`Keep` = 4 turns) are the fewest of which two
seen answers are remembered side by side, and the third pushes the oldest out; a lost reply or a
stop (`MaxStops`) can fall between any of them. With two submissions a failed one is
repeated. The badge has a run with the chat alone: two checks (`MaxChecks`) can overtake each
other, and two stops make it wrong again after it was right. More pages than one are
left to the theorems. Four answers and one empty data set make every branch of the gate happen,
an average that rounds up to its threshold among them. Deadlock is not checked:
when all requests are answered and the clock is at its bound, nothing is left to do, and a run
of the evaluation ends.

**Fairness.** `FairSpec` assumes weak fairness of `Proceed(r)` and `ProceedIngest(i)`: the
event loop resumes a coroutine whose call returned or raised, and botocore's default read
timeout makes every call do one of the two. Nothing is assumed of clients (a request need
not arrive) or of which of the outcomes a call has. Under these weak assumptions
`AllAnswered` would fail if a handler could go round in a circle (see the retrying mutant) or
if a coroutine could keep the loop while waiting for another. `WebFairness` assumes that a
`fetch` resolves or rejects (`Ends`), that the badge's interval goes on firing and that checks
end; that is what the browser does for every connection. Nothing is assumed of the service, which may stop for
good, nor of the user.

Every property has a mutant in `PROJECT.json`: a plausible mistake in the code it is about,
under which TLC finds it violated.

## 4. Where the code and its documentation disagree

Each is a run of its own whose property states the quoted claim.

| Run | Claim | What happens |
| --- | --- | --- |
| `finding_in_flight` | pipeline.py:238-239, CHANGELOG.md:33: clearing the cache avoids serving pre-ingest answers | an answer in flight during the ingestion is cached after the clear |
| `finding_hit_forgotten` | pipeline.py:172: the turn is persisted so that follow-ups stay coherent | not when it is answered from the cache |
| `finding_ready` | pipeline.py:220, docs/rag-s3-vectors.md:62: the index is created on first ingest | a create that fails is taken for "exists" and never repeated |
| `finding_unbilled` | README.md:179, pipeline.py:164-165: a request is priced against the model that actually ran | it ran two, and the rewriting call, on the strong model, is never billed |

More were seen while modelling; each can be read off one definition and has no run:

- identical questions that overlap are both generated, against cache.py:21 (`EnterGraph` has no
  guard for a question in flight);
- the rewriting call of a cheap-tier question goes to the strong model, against README.md:178
  (`Rewrite`);
- on the shared index an ingestion clears the cache of its own process only, and the others keep
  their pre-ingest answers, against pipeline.py:238-239 (`PutLast` of `S3Deployment`);
- `memory_window = 0` puts all turns into the prompt, against config.py:48 (`LastTurns`);
- `use_rag` is read by no node, against README.md:108 and Chat.tsx:95 (`EnterGraph`);
- `size` falls back to 0 in a process that has added nothing, against s3_vectors.py:162-164
  (`Sizes`);
- a question before the first ingestion gets a 500 over S3 Vectors, where the in-memory store
  finds nothing, against docs/rag-s3-vectors.md:31-32 (`SearchRaises`);
- over the hosted memory a question stays without its answer when the second append fails,
  against pipeline.py:172 (`AnswerFails`); what holds instead is `TurnsInOrder`;
- one word in common makes a claim faithful, while metrics.py:35 speaks of its content words
  (`Grounded`).

`HitsPostdateIngests` is what does hold of invalidation: it speaks of when an answer was
completed, `NoPreIngestAnswers` of when it searched.

## 5. What is proved

All theorems are about the specifications of `AgentPipeline`, `S3Deployment`, `HostedMemory`,
`WebClient` and `Evaluation`; none uses fairness. They hold for arbitrary (also infinite) sets of processes, requests, ingestions, sessions,
pages and questions, any batch size, any number of stops, and arbitrary `TTL`, `Window` and even `MaxTurns`. They rest
on the assumptions named in the modules (`CacheAssumption`, `MemoryAssumption`,
`StoreAssumption`, `PipelineAssumption`, `S3Assumption`, `HostedAssumption`, `WebAssumption`,
`EvaluationAssumption`), which TLC evaluates on every run:
they say only what type the constants have, that `MaxTurns` and the batch size are positive,
that `MaxTurns` is even (20 in the code), that an answer makes a claim and the vocabulary of an
evaluation is finite, and that names for different things differ (`Idle` is no
coroutine, no ingestion is a chat, and the like). One theorem has a hypothesis besides:
`ReportShowsTheVerdictHolds` supposes thresholds of whole thousandths, as 0.6 and 0.5
(harness.py:53) are.

| Theorem | Module | Argument |
| --- | --- | --- |
| `TypeCorrect` | `AnswerProofs` | `TypeOK` is inductive as it stands: one lemma for arrivals, one for turns, one for ingestions |
| `ProvenanceHolds`, `HitsPostdateIngestsHolds`, `HitWithinTTLHolds` | `AnswerProofs` | `AnswerInv`, below |
| `NoNeedlessGenerationHolds` | `AnswerProofs` | `StoredOnce`, `CacheComplete`, below |
| `CountersAgreeHolds` | `AnswerProofs` | `CountInv`: the requests counted are finite sets, and each step that counts adds one member |
| `FreshReflectsHolds` | `AnswerProofs` | the store only grows, so what was acknowledged on arrival is there at the search (`FreshInv`) |
| `NoRawPIIHolds` | `MemoryProofs` | `GuardInv`: requests in the graph were allowed, and the memory and the prompts are sequences of clean turns |
| `RememberedTurnsHolds` | `MemoryProofs` | `MemoryInv`: a pair of pushes on an even deque adds a pair or shifts all pairs down by one |
| `HistoryIsTheSessionsHolds` | `MemoryProofs` | `PastInv`, `OrderInv`, below |
| `AcknowledgedIsStoredHolds` | `S3Proofs` | `PutInv`: the documents up to `sent` are in the index, and an acknowledged job has sent all |
| `FreshSeesAllProcessesHolds` | `S3Proofs` | `FreshInv`, on top of it: acknowledgements are never withdrawn, so what a chat knew on arrival it finds |
| `EnsuredOnceHolds` | `S3Proofs` | `EnsureInv`: a process that has tried is ready, or its loop is kept by the job that is trying |
| `S3TypesHold`, `TotalsAreHonestHolds` | `S3Proofs` | `IIndex`, below |
| `ContractImplemented` | `ContractProofs` | every step is a contract step or a stutter, below |
| `HostedTypes`, `AnswersAreDurableHolds`, `TurnsInOrderHolds`, `NoStrayTurnsHolds` | `HostedProofs` | `HostedInv`, below |
| `FollowUpsKnowHolds` | `HostedProofs` | `FollowInv`, below |
| `PlatformSessionsApartHolds` | `HostedProofs` | `HistoryInv`: the turns of a prompt are of the request's session, which is the platform's |
| `WebTypeOKHolds`, `PageFollowsMemoryHolds` | `WebProofs` | `ThreadInv`, `SentInv`, `LogInv`, `OrderInv`, below |
| `NothingTypedIsLostHolds`, `IngestedIsSeenHolds` | `WebProofs` | `PanelInv`, below |
| `EvaluationTypes`, `BillsAddUpHolds`, `VerdictOnTheWholeHolds`, `LongerAnswersStillPassHolds`, `ReportShowsTheVerdictHolds` | `EvaluationProofs` | `EvalInv` and the laws of sums and fractions, below |

`AnswerInv` is needed because the three properties of replies say nothing about the cache
from which the next reply comes. It adds

- `CacheSound`: each entry names a request that was answered by a generation, is stored under
  that request's key, with its text, model and time, and was completed since the last
  ingestion (`ended = StoredJobs`);
- `ReplySound`: a request has a reply exactly when it is done, no reply is from the future;
- `StoreSound`: an ingestion that is acknowledged had documents and they are stored.

`CacheSound` survives an ingestion only because `StoreAndClear` empties the cache in the
step that grows the store; the mutant that clears only expired entries breaks exactly there.

`WroteInv` ties the model a reply names to the calls that were made, so that `ProvenanceHolds`
speaks of who wrote an answer and not of what the router decided; `BilledInv` does the same for
the bill: one call, the last, for an answer of one's own, and nothing for a hit.

`ContractImplemented` needs `AnswerInv` for one step: a hit must be a `Reuse`, so the entry must
belong to a request with an outcome, of the same topic and with the same text, which is
`CacheSound`. Under the mapping the two pushes of `Finish` must be the one
`Newest(@ \o WholeTurn)`; that is a lemma on sequences.

`NoNeedlessGeneration` is about a step, and about what the cache must hold: `CacheSound` says that
what it holds is good, `CacheComplete` that it holds what it could. Of the answers completed
since the last ingestion, a key has the newest or one as new, until it expires. A `Finish` may
overwrite an entry only because it is newer, and `StoreAndClear` may drop all entries only because
it adds documents that were not stored before (`StoredOnce`), so none of them counts any longer.

`HistoryIsTheSessions` speaks of what was answered before what was asked, so it needs the memory to
be in that order. `PastInv` says that what had been answered when a request arrived still is, and
`OrderInv` that this stands before the request's own turn, or has been pushed out. The history is
an end of the deque (`LastTurnsIsAnEnd`, for windows of any sign), so what it leaves out is older.

`HostedInv` adds `HalfTurns` to the three properties: a request that is between its two appends
has its question in the store and not its answer. Only with it does the second append keep `TurnsInOrder`;
that the first one does follows from `NoStrayTurns`, by which a request still in the graph has nothing there.

`FollowInv` says of each prompt that an answer its session had got is in it or before all of
it. The store only grows at its end, so this needs to be shown where the history is read; what
is read there has the answer because of `AnswersAreDurable`. In its first form the property
said that the answer is in the prompt or the prompt is full. The proof failed for a
negative `memory_window`, which nothing in config.py:49 forbids and for which `turns[-w:]`
drops the oldest turns instead of keeping the newest (pipeline.py:248): a prompt can then lack an
answer without being full. The property now says so.

`IIndex` gives the counter a meaning: `CountInv` says that a process has counted the documents of
some set of ingestions, all of which are in the index and past their last batch. So `count`
never exceeds the index, and an ingestion that is about to report is among those counted, so the total is
at least its own. Two ingestions of a process do not count one another's documents twice,
because document names of different ingestions differ; `Owned` keeps a coroutine with the
process that runs it, whose counter a restart resets.

`Evaluation` is about data sets of any length, so its proofs are inductions over a run. The
library's induction theorems take an operator as a parameter and cannot be used; `Inductive`
states induction for sets of natural numbers instead and follows from the well-foundedness of
`<`. With it `Recursion` shows that a function defined by steps exists, so `SumOf` and `Total` solve their
equations, and `Determined` that the solution is unique, so `SumOf(Append(f, x))` is `SumOf(f) + x`.
The laws of fractions (adding and dividing keep their order) then make averages
monotone. `EvalInv` says that the results are the scores of a prefix of the data set, that what the agent
reported was computed from its own answer, that the bills add up so far, and that a report
is the one of the results. Without the hypothesis on the thresholds `ReportShowsTheVerdict` is
false: an average of 0.66741 passes a threshold of 0.6674 and is reported as 0.667.

The page's order is the service's order because it waits: `ThreadInv` and `SentInv` say that a
page's only pending message is its last one, so a request of the page that is not the last has been
sent before, and ends before the next is sent or loses its connection. `LogInv` says that a session's log
holds turns of its own requests that got an answer of their own, and `OrderInv` that of two seen answers the earlier is also earlier
in the log. A turn pushed out shifts all the others; a lemma shows that the order survives the shift (`MovedBy`). `PanelInv` adds to the two properties of the panel that a waiting
panel's text is still in its box (`BoxInv`), and that an ingestion the service has carried out has left no
earlier answer in the pool (`KnownInv`).

**Model-checked only.** `AllAnswered`, `BusyEnds` and `BadgeSettles` are liveness under fairness,
which is out of the prover's reach. `CategoriesMakeUpTheAverage` adds up a report by category where
the run adds by question, and has no proof yet. That the four claims of section 4 are false is what TLC's
counterexamples show. Every other property of the runs is a theorem.

## 6. Not modelled, and what is left

- Logging is pure output; Terraform, Docker and CI are declarations; rendering and wording
  change no state.
- The regular expressions of the guards, embeddings and similarity stay abstract: no property
  of the service tells their values apart beyond a verdict or an order.
- The length limits of the request models refuse a request before a handler runs.
- `latency_ms` and `context_sources` are reported and read by nothing; `CostTracker.reset`,
  `request_count` and `nodes.Router` are called by no other part of the program.
- That `/health` waits while boto3 keeps the event loop is a matter of time, of which the models
  have none but the cache's clock.
- A health check that fails while the service is up (a transient network error), after which the
  badge is wrong until the next one.

Next: a proof of `CategoriesMakeUpTheAverage`, refinements between the compositions, first
`HostedMemory` with one process as a `ChatContract`, and lemmas on `Estimates` over histories of
several requests.
