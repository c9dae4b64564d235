---------------------------- MODULE S3Deployment ----------------------------
(***************************************************************************)
(* app/rag/s3_vectors.py as app/pipeline.py uses it: several processes     *)
(* (ECS tasks), each with its own pipeline, share one S3 Vectors index.    *)
(*                                                                         *)
(* Within a process an ingestion holds the event loop through every S3     *)
(* call, which never suspend; only the provider's calls may.  Between two  *)
(* S3 calls the other processes run, and a process may be taken away at    *)
(* any moment (Fargate Spot) and started again with nothing but the index. *)
(*                                                                         *)
(* All chats ask one question: another one has its own cache entry and     *)
(* meets these only in the index.  Guards, tiers, memory and the clock are *)
(* in AgentPipeline; here a lookup may at any time find its entry expired. *)
(***************************************************************************)
EXTENDS Integers, FiniteSets

CONSTANTS
    Procs,
    Jobs,               \* the ingest calls that may arrive
    Docs,               \* ingest call -> number of documents it carries
    PutBatch,           \* _PUT_BATCH, 500 in the code
    Chats,              \* the chat requests that may arrive
    BlockingProvider,   \* provider calls do not suspend
    MaxCrashes,         \* bound on the restarts, for TLC only
    Idle,               \* nobody holds the event loop
    Nowhere             \* the process of a request that has not arrived

ASSUME S3Assumption ==
    /\ Docs \in [Jobs -> Nat]
    /\ PutBatch \in Nat \ {0}
    /\ BlockingProvider \in BOOLEAN
    /\ MaxCrashes \in Nat
    /\ Jobs \cap Chats = {} /\ Idle \notin Jobs \cup Chats
    /\ Nowhere \notin Procs

VARIABLES
    bucket,     \* the vector bucket exists
    hasIndex,   \* the index exists
    index,      \* the vectors in it: <<job, n>> for the n-th document of a job
    ready,      \* process -> _index_ready
    count,      \* process -> _count
    kept,       \* process -> what its response cache holds: at most one answer
    loop,       \* process -> the coroutine that keeps its event loop
    on,         \* job or chat -> the process that serves it
    ing,        \* job -> where its coroutine is
    sent,       \* job -> documents put so far
    total,      \* job -> the total its client is told
    pc,         \* chat -> where its coroutine is
    saw,        \* chat -> the jobs whose documents were all there when it searched
    reply,      \* chat -> what its client receives
    born,       \* history: chat -> the jobs acknowledged when it arrived
    tries,      \* history: process -> calls of ensure_index since it started
    crashes     \* history: restarts so far

service == <<bucket, hasIndex, index>>
chatVars == <<pc, saw, reply, born>>
vars == <<service, ready, count, kept, loop, on, ing, sent, total, chatVars, tries, crashes>>

-----------------------------------------------------------------------------
Vectors == {v \in Jobs \X Nat : v[2] \in 1..Docs[v[1]]}

VectorsOf(j) == {<<j, n>> : n \in 1..Docs[j]}

\* The batch that add_documents puts next.
Batch(j) == {v \in VectorsOf(j) : sent[j] < v[2] /\ v[2] <= sent[j] + PutBatch}

LastBatch(j) == sent[j] + PutBatch >= Docs[j]

Acknowledged == {j \in Jobs : ing[j] = "done"}

Searchable == {j \in Jobs : VectorsOf(j) \subseteq index}

\* Faulty: when the listing fails, nothing has been counted.
SizesOrZero(p) == {Cardinality(index), 0}

\* `size`: what list_vectors counts, or the local counter when the listing fails (as
\* it does, too, while there is no index).
Sizes(p) == {count[p]} \cup (IF hasIndex THEN {Cardinality(index)} ELSE {})

-----------------------------------------------------------------------------
Init ==
    /\ bucket = FALSE
    /\ hasIndex = FALSE
    /\ index = {}
    /\ ready = [p \in Procs |-> FALSE]
    /\ count = [p \in Procs |-> 0]
    /\ kept = [p \in Procs |-> {}]
    /\ loop = [p \in Procs |-> Idle]
    /\ on = [c \in Jobs \cup Chats |-> Nowhere]
    /\ ing = [j \in Jobs |-> "new"]
    /\ sent = [j \in Jobs |-> 0]
    /\ total = [j \in Jobs |-> 0]
    /\ pc = [r \in Chats |-> "new"]
    /\ saw = [r \in Chats |-> {}]
    /\ reply = [r \in Chats |-> [kind |-> "none", saw |-> {}]]
    /\ born = [r \in Chats |-> {}]
    /\ tries = [p \in Procs |-> 0]
    /\ crashes = 0

\* Process p turns to coroutine c, which keeps the loop or gives it up again.
Turns(p, c, keeps) ==
    /\ loop[p] \in {Idle, c}
    /\ loop' = [loop EXCEPT ![p] = IF keeps THEN c ELSE Idle]

-----------------------------------------------------------------------------
(* AgentPipeline.ingest *)

\* No documents: the caller gets the size.
IngestNothing(j, p) ==
    /\ ing[j] = "new" /\ Docs[j] = 0
    /\ Turns(p, j, FALSE)
    /\ on' = [on EXCEPT ![j] = p]
    /\ ing' = [ing EXCEPT ![j] = "nothing"]
    /\ \E n \in Sizes(p) : total' = [total EXCEPT ![j] = n]
    /\ UNCHANGED <<service, ready, count, kept, sent, chatVars, tries, crashes>>

\* _ensure_store_ready when the index is taken to be there: on to the embedding.
StartReady(j, p) ==
    /\ ing[j] = "new" /\ Docs[j] > 0
    /\ ready[p]
    /\ Turns(p, j, BlockingProvider)
    /\ on' = [on EXCEPT ![j] = p]
    /\ ing' = [ing EXCEPT ![j] = "embed"]
    /\ UNCHANGED <<service, ready, count, kept, sent, total, chatVars, tries, crashes>>

\* ensure_index: create_vector_bucket succeeds, finds the bucket there, or fails;
\* whatever it raises is logged and forgotten.
CreateBucket(j, p) ==
    /\ ing[j] = "new" /\ Docs[j] > 0
    /\ ~ready[p]
    /\ Turns(p, j, TRUE)
    /\ on' = [on EXCEPT ![j] = p]
    /\ ing' = [ing EXCEPT ![j] = "create"]
    /\ bucket' \in {bucket, TRUE}
    /\ tries' = [tries EXCEPT ![p] = @ + 1]
    /\ UNCHANGED <<hasIndex, index, ready, count, kept, sent, total, chatVars, crashes>>

\* Faulty: only a successful ingestion marks the index as ready.
CreateIndexUnmarked(j) ==
    LET p == on[j] IN
    /\ ing[j] = "create"
    /\ Turns(p, j, BlockingProvider)
    /\ ing' = [ing EXCEPT ![j] = "embed"]
    /\ hasIndex' \in {hasIndex, bucket}
    /\ UNCHANGED <<bucket, index, ready, count, kept, on, sent, total, chatVars, tries, crashes>>

\* create_index, which needs the bucket, likewise; then _index_ready is set.
CreateIndex(j) ==
    LET p == on[j] IN
    /\ ing[j] = "create"
    /\ Turns(p, j, BlockingProvider)
    /\ ing' = [ing EXCEPT ![j] = "embed"]
    /\ hasIndex' \in {hasIndex, bucket}
    /\ ready' = [ready EXCEPT ![p] = TRUE]
    /\ UNCHANGED <<bucket, index, count, kept, on, sent, total, chatVars, tries, crashes>>

\* Faulty: the process counts what it sends when it starts to send it.
PutMoreCounting(j) ==
    LET p == on[j] IN
    /\ ing[j] \in {"embed", "put"}
    /\ hasIndex
    /\ ~LastBatch(j)
    /\ Turns(p, j, TRUE)
    /\ ing' = [ing EXCEPT ![j] = "put"]
    /\ index' = index \cup Batch(j)
    /\ sent' = [sent EXCEPT ![j] = @ + PutBatch]
    /\ count' = [count EXCEPT ![p] = @ + Docs[j]]
    /\ UNCHANGED <<bucket, hasIndex, ready, kept, on, total, chatVars, tries, crashes>>

\* Faulty: a put that raises is logged and forgotten.
PutMoreSwallowing(j) ==
    /\ ing[j] \in {"embed", "put"}
    /\ hasIndex
    /\ ~LastBatch(j)
    /\ Turns(on[j], j, TRUE)
    /\ ing' = [ing EXCEPT ![j] = "put"]
    /\ index' \in {index, index \cup Batch(j)}
    /\ sent' = [sent EXCEPT ![j] = @ + PutBatch]
    /\ UNCHANGED <<bucket, hasIndex, ready, count, kept, on, total, chatVars, tries, crashes>>

\* put_vectors for a batch that is not the last.
PutMore(j) ==
    /\ ing[j] \in {"embed", "put"}
    /\ hasIndex
    /\ ~LastBatch(j)
    /\ Turns(on[j], j, TRUE)
    /\ ing' = [ing EXCEPT ![j] = "put"]
    /\ index' = index \cup Batch(j)
    /\ sent' = [sent EXCEPT ![j] = @ + PutBatch]
    /\ UNCHANGED <<bucket, hasIndex, ready, count, kept, on, total, chatVars, tries, crashes>>

\* put_vectors for the last batch: add_documents counts the documents and returns, and
\* this process's cache is cleared.
PutLast(j) ==
    LET p == on[j] IN
    /\ ing[j] \in {"embed", "put"}
    /\ hasIndex
    /\ LastBatch(j)
    /\ Turns(p, j, TRUE)
    /\ ing' = [ing EXCEPT ![j] = "report"]
    /\ index' = index \cup Batch(j)
    /\ sent' = [sent EXCEPT ![j] = Docs[j]]
    /\ count' = [count EXCEPT ![p] = @ + Docs[j]]
    /\ kept' = [kept EXCEPT ![p] = {}]
    /\ UNCHANGED <<bucket, hasIndex, ready, on, total, chatVars, tries, crashes>>

\* The size that is returned to the client is asked for after all that.
Report(j) ==
    /\ ing[j] = "report"
    /\ Turns(on[j], j, FALSE)
    /\ ing' = [ing EXCEPT ![j] = "done"]
    /\ \E n \in Sizes(on[j]) : total' = [total EXCEPT ![j] = n]
    /\ UNCHANGED <<service, ready, count, kept, on, sent, chatVars, tries, crashes>>

\* The embedding raises, or a put does: for want of an index, or after the batch was
\* stored, or before.  What was put stays, the cache too.
IngestFails(j) ==
    /\ ing[j] \in {"embed", "put"}
    /\ Turns(on[j], j, FALSE)
    /\ ing' = [ing EXCEPT ![j] = "failed"]
    /\ index' \in {index} \cup (IF hasIndex THEN {index \cup Batch(j)} ELSE {})
    /\ UNCHANGED <<bucket, hasIndex, ready, count, kept, on, sent, total, chatVars, tries, crashes>>

-----------------------------------------------------------------------------
(* AgentPipeline.run *)

ChatArrives(r, p) ==
    /\ pc[r] = "new"
    /\ on' = [on EXCEPT ![r] = p]
    /\ born' = [born EXCEPT ![r] = Acknowledged]

ChatHit(r, p) ==
    /\ ChatArrives(r, p)
    /\ Turns(p, r, FALSE)
    /\ \E known \in kept[p] : reply' = [reply EXCEPT ![r] = [kind |-> "hit", saw |-> known]]
    /\ pc' = [pc EXCEPT ![r] = "done"]
    /\ UNCHANGED <<service, ready, count, kept, ing, sent, total, saw, tries, crashes>>

\* Nothing is kept, or it is too old and goes: the graph is entered.
ChatMiss(r, p) ==
    /\ ChatArrives(r, p)
    /\ Turns(p, r, FALSE)
    /\ kept' = [kept EXCEPT ![p] = {}]
    /\ pc' = [pc EXCEPT ![r] = "search"]
    /\ UNCHANGED <<service, ready, count, ing, sent, total, saw, reply, tries, crashes>>

\* Faulty: a process that has added nothing takes the store for empty (as the in-memory
\* store does).
SearchIfCounted(r) ==
    /\ pc[r] = "search"
    /\ hasIndex
    /\ Turns(on[r], r, FALSE)
    /\ pc' = [pc EXCEPT ![r] = "answer"]
    /\ saw' = [saw EXCEPT ![r] = IF count[on[r]] = 0 THEN {} ELSE Searchable]
    /\ UNCHANGED <<service, ready, count, kept, on, ing, sent, total, reply, born, tries, crashes>>

\* RetrieverNode: the question is rewritten and embedded, then query_vectors.
Search(r) ==
    /\ pc[r] = "search"
    /\ hasIndex
    /\ Turns(on[r], r, FALSE)
    /\ pc' = [pc EXCEPT ![r] = "answer"]
    /\ saw' = [saw EXCEPT ![r] = Searchable]
    /\ UNCHANGED <<service, ready, count, kept, on, ing, sent, total, reply, born, tries, crashes>>

\* query_vectors without an index raises, and the client gets a 500.
SearchRaises(r) ==
    /\ pc[r] = "search"
    /\ ~hasIndex
    /\ Turns(on[r], r, FALSE)
    /\ pc' = [pc EXCEPT ![r] = "done"]
    /\ reply' = [reply EXCEPT ![r] = [kind |-> "unsearchable", saw |-> {}]]
    /\ UNCHANGED <<service, ready, count, kept, on, ing, sent, total, saw, born, tries, crashes>>

\* The answer is generated, cached and returned.
ChatAnswers(r) ==
    /\ pc[r] = "answer"
    /\ Turns(on[r], r, FALSE)
    /\ pc' = [pc EXCEPT ![r] = "done"]
    /\ kept' = [kept EXCEPT ![on[r]] = {saw[r]}]
    /\ reply' = [reply EXCEPT ![r] = [kind |-> "fresh", saw |-> saw[r]]]
    /\ UNCHANGED <<service, ready, count, on, ing, sent, total, saw, born, tries, crashes>>

\* A provider or an S3 call of the chat raises.
ChatFails(r) ==
    /\ pc[r] \in {"search", "answer"}
    /\ Turns(on[r], r, FALSE)
    /\ pc' = [pc EXCEPT ![r] = "done"]
    /\ reply' = [reply EXCEPT ![r] = [kind |-> "error", saw |-> {}]]
    /\ UNCHANGED <<service, ready, count, kept, on, ing, sent, total, saw, born, tries, crashes>>

-----------------------------------------------------------------------------
\* A process is stopped and started again: its clients lose their connections.
Restart(p) ==
    /\ crashes < MaxCrashes
    /\ crashes' = crashes + 1
    /\ ready' = [ready EXCEPT ![p] = FALSE]
    /\ count' = [count EXCEPT ![p] = 0]
    /\ kept' = [kept EXCEPT ![p] = {}]
    /\ loop' = [loop EXCEPT ![p] = Idle]
    /\ tries' = [tries EXCEPT ![p] = 0]
    /\ ing' = [j \in Jobs |->
                  IF on[j] = p /\ ing[j] \in {"create", "embed", "put", "report"}
                    THEN "lost" ELSE ing[j]]
    /\ pc' = [r \in Chats |->
                 IF on[r] = p /\ pc[r] \in {"search", "answer"} THEN "lost" ELSE pc[r]]
    /\ UNCHANGED <<service, on, sent, total, saw, reply, born>>

BeginIngest(j) ==
    \E p \in Procs : IngestNothing(j, p) \/ StartReady(j, p) \/ CreateBucket(j, p)

ProceedIngest(j) == CreateIndex(j) \/ PutMore(j) \/ PutLast(j) \/ Report(j) \/ IngestFails(j)

BeginChat(r) == \E p \in Procs : ChatHit(r, p) \/ ChatMiss(r, p)

ProceedChat(r) == Search(r) \/ SearchRaises(r) \/ ChatAnswers(r) \/ ChatFails(r)

Next ==
    \/ \E j \in Jobs : BeginIngest(j) \/ ProceedIngest(j)
    \/ \E r \in Chats : BeginChat(r) \/ ProceedChat(r)
    \/ \E p \in Procs : Restart(p)

Spec == Init /\ [][Next]_vars

-----------------------------------------------------------------------------
(* What holds of the shared index. *)

InIngest == {j \in Jobs : ing[j] \in {"create", "embed", "put", "report"}}
InChat == {r \in Chats : pc[r] \in {"search", "answer"}}

\* Every variable has its type; an event loop is kept only by an ingestion in progress on
\* its own process, and a process never counts a vector that is not in the index
\* (s3_vectors.py:111-116: the counter moves after the last put).
S3TypeOK ==
    /\ bucket \in BOOLEAN /\ hasIndex \in BOOLEAN /\ (hasIndex => bucket)
    /\ index \subseteq Vectors
    /\ ready \in [Procs -> BOOLEAN]
    /\ count \in [Procs -> 0..Cardinality(index)]
    /\ kept \in [Procs -> SUBSET SUBSET Jobs]
    /\ loop \in [Procs -> Jobs \cup {Idle}]
    /\ \A p \in Procs : loop[p] # Idle => loop[p] \in InIngest /\ on[loop[p]] = p
    /\ on \in [Jobs \cup Chats -> Procs \cup {Nowhere}]
    /\ sent \in [Jobs -> Nat]
    /\ \A j \in Jobs : sent[j] <= Docs[j]
    /\ total \in [Jobs -> 0..Cardinality(index)]
    /\ \A r \in InChat : on[r] \in Procs

\* An acknowledged ingestion is completely in the index, whatever failed or restarted
\* since (add_documents raises on the first batch that fails, s3_vectors.py:111-115, and
\* ingest answers only after it, pipeline.py:237-242).
AcknowledgedIsStored == Acknowledged \subseteq Searchable

\* The total an acknowledged ingestion reports counts at least its own documents and
\* nothing that is not stored, whichever of the two sources of `size` it came from
\* (s3_vectors.py:155-166).
TotalsAreHonest == \A j \in Acknowledged : Docs[j] <= total[j] /\ total[j] <= Cardinality(index)

\* A process bootstraps the index at most once, also when ingestions overlap or fail
\* (tests/test_ingest.py:71 "ensure_index runs only on the first ingest (index bootstrap),
\* not every call"; pipeline.py:219-226).
EnsuredOncePerLife == \A p \in Procs : tries[p] <= 1

\* A generated answer searched an index with every ingestion that any process had
\* acknowledged before the question arrived, restarts notwithstanding
\* (s3_vectors.py:119-128 asks the service and no local state).
FreshSeesAllProcesses == \A r \in Chats : reply[r].kind = "fresh" => born[r] \subseteq reply[r].saw

-----------------------------------------------------------------------------
(* What the code or its documents claim and the deployment does not keep. *)

\* pipeline.py:220 "Create the vector index if the backend needs it" and
\* docs/rag-s3-vectors.md:62 "the index is created on first ingest": when _index_ready is
\* set, there is an index.
ReadyMeansIndexed == \A p \in Procs : ready[p] => hasIndex
=============================================================================
