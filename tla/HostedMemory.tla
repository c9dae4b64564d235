---------------------------- MODULE HostedMemory ----------------------------
(***************************************************************************)
(* The chat service with MEMORY_BACKEND=agentcore (app/agents/memory.py:   *)
(* AgentCoreMemory): the turns of a session are events of a managed store  *)
(* that all processes share and that outlives them.  The processes are     *)
(* FastAPI tasks (app/main.py) or microVMs of AgentCore Runtime            *)
(* (app/runtime/agentcore_app.py); each has its own pipeline and cache.    *)
(*                                                                         *)
(* Every append is a network call of its own.  boto3 keeps the caller's    *)
(* event loop meanwhile, so nothing else of that process runs, but other   *)
(* processes do.  A call that raises may have been carried out.            *)
(*                                                                         *)
(* AgentPipeline has the detail of a turn; here the graph is one step, the *)
(* age of a cache entry is a choice (an entry may have expired whenever it *)
(* is looked up), and an answer is known by the request it was made for.   *)
(***************************************************************************)
EXTENDS TurnLists, FiniteSets

CONSTANTS
    Procs,
    Requests,
    Invocations,  \* what may arrive: records [via, query, payload, context]
    Sessions,
    Default,      \* the session of a request that names none
    NoSession,    \* an invocation without a session id
    Topic,        \* query -> its cache key
    Blank,        \* queries of white space only
    Flagged,      \* queries the guards report
    Window,       \* memory_window
    MaxStops,     \* bound on the stops of a process, for TLC only
    Nobody        \* the event loop is free; a request no process has taken

ASSUME HostedAssumption ==
    /\ Window \in Int /\ MaxStops \in Nat
    /\ Default \in Sessions
    /\ Invocations \subseteq [via : {"http", "runtime"}, query : DOMAIN Topic,
                              payload : Sessions \cup {NoSession},
                              context : Sessions \cup {NoSession}]
    /\ Nobody \notin Requests \cup Procs

VARIABLES
    ask,      \* request -> the invocation
    at,       \* request -> the process that handles it
    pc,       \* request -> where its coroutine is
    hist,     \* request -> the history put in its prompt
    reply,    \* request -> what its handler returned
    events,   \* session -> its turns in the managed store, oldest first
    cached,   \* process -> the requests whose answers its cache holds
    loop,     \* process -> the request that keeps its event loop between two actions
    stops,
    past      \* history: the requests with an answer of their own when it arrived

vars == <<ask, at, pc, hist, reply, events, cached, loop, stops, past>>

-----------------------------------------------------------------------------
\* Faulty: the id in the payload wins over the platform's.
SessionOfPayloadFirst(a) ==
    IF a.payload # NoSession THEN a.payload
    ELSE IF a.via = "runtime" /\ a.context # NoSession THEN a.context
    ELSE Default

\* _resolve_session_id on AgentCore Runtime, the request model's default over HTTP.
SessionOf(a) ==
    IF a.via = "runtime" /\ a.context # NoSession THEN a.context
    ELSE IF a.payload # NoSession THEN a.payload
    ELSE Default

Session(r) == SessionOf(ask[r])
Asked(r) == Topic[ask[r].query]

Turn(role, r) == [role |-> role, by |-> r]

Reply(kind, by) == [kind |-> kind, by |-> by]

Generated == {r \in Requests : reply[r].kind = "fresh"}

\* The entry of a topic, of which a cache has one at most.
Entries(p, topic) == {e \in cached[p] : Asked(e) = topic}

InProgress(p) == {r \in Requests : at[r] = p /\ pc[r] \in {"graph", "answer"}}

Init ==
    /\ ask \in [Requests -> Invocations]
    /\ at = [r \in Requests |-> Nobody]
    /\ pc = [r \in Requests |-> "new"]
    /\ hist = [r \in Requests |-> <<>>]
    /\ reply = [r \in Requests |-> Reply("none", r)]
    /\ events = [s \in Sessions |-> <<>>]
    /\ cached = [p \in Procs |-> {}]
    /\ loop = [p \in Procs |-> Nobody]
    /\ stops = 0
    /\ past = [r \in Requests |-> {}]

-----------------------------------------------------------------------------
\* Process p takes request r: by the load balancer, or the platform's affinity.
Arrives(r, p) ==
    /\ pc[r] = "new"
    /\ loop[p] = Nobody
    /\ at' = [at EXCEPT ![r] = p]
    /\ past' = [past EXCEPT ![r] = Generated]

Answers(r, kind, by) ==
    /\ pc' = [pc EXCEPT ![r] = "done"]
    /\ reply' = [reply EXCEPT ![r] = Reply(kind, by)]

\* handle: a prompt of white space is refused before there is a pipeline.  The HTTP
\* endpoint lets it through.
RefuseBlank(r, p) ==
    /\ Arrives(r, p)
    /\ ask[r].via = "runtime" /\ ask[r].query \in Blank
    /\ Answers(r, "error", r)
    /\ UNCHANGED <<ask, hist, events, cached, loop, stops>>

\* Arrived and allowed to reach the pipeline.
Enters(r, p) ==
    /\ Arrives(r, p)
    /\ ~(ask[r].via = "runtime" /\ ask[r].query \in Blank)

RejectInput(r, p) ==
    /\ Enters(r, p)
    /\ ask[r].query \in Flagged
    /\ Answers(r, "blocked", r)
    /\ UNCHANGED <<ask, hist, events, cached, loop, stops>>

\* Faulty: a question answered from the cache is remembered.
ServeCachedRemembering(r, p) ==
    /\ Enters(r, p)
    /\ ask[r].query \notin Flagged
    /\ \E e \in Entries(p, Asked(r)) : Answers(r, "hit", e)
    /\ events' = [events EXCEPT ![Session(r)] = Append(@, Turn("user", r))]
    /\ UNCHANGED <<ask, hist, cached, loop, stops>>

ServeCached(r, p) ==
    /\ Enters(r, p)
    /\ ask[r].query \notin Flagged
    /\ \E e \in Entries(p, Asked(r)) : Answers(r, "hit", e)
    /\ UNCHANGED <<ask, hist, events, cached, loop, stops>>

\* The cache has no entry of the topic, or an expired one, which goes.
Misses(r, p) ==
    /\ Enters(r, p)
    /\ ask[r].query \notin Flagged
    /\ cached' = [cached EXCEPT ![p] = @ \ Entries(p, Asked(r))]

\* list_events returns: the newest turns go into the prompt.
ReadHistory(r, p) ==
    /\ Misses(r, p)
    /\ hist' = [hist EXCEPT ![r] = LastTurns(events[Session(r)], Window)]
    /\ pc' = [pc EXCEPT ![r] = "graph"]
    /\ UNCHANGED <<ask, reply, events, loop, stops>>

\* list_events raises: no model has been asked anything.
HistoryFails(r, p) ==
    /\ Misses(r, p)
    /\ Answers(r, "error", r)
    /\ UNCHANGED <<ask, hist, events, loop, stops>>

\* A node of the graph raises.
GraphFails(r) ==
    /\ pc[r] = "graph"
    /\ loop[at[r]] = Nobody
    /\ Answers(r, "error", r)
    /\ UNCHANGED <<ask, at, hist, events, cached, loop, stops, past>>

-----------------------------------------------------------------------------
\* Faulty: the call is awaited, and other coroutines run meanwhile.
StoreQuestionAwaiting(r) ==
    /\ pc[r] = "graph"
    /\ loop[at[r]] = Nobody
    /\ events' = [events EXCEPT ![Session(r)] = Append(@, Turn("user", r))]
    /\ pc' = [pc EXCEPT ![r] = "answer"]
    /\ UNCHANGED <<ask, at, hist, reply, cached, loop, stops, past>>

\* The graph is through; the first create_event stores the question.
StoreQuestion(r) ==
    /\ pc[r] = "graph"
    /\ loop[at[r]] = Nobody
    /\ events' = [events EXCEPT ![Session(r)] = Append(@, Turn("user", r))]
    /\ pc' = [pc EXCEPT ![r] = "answer"]
    /\ loop' = [loop EXCEPT ![at[r]] = r]
    /\ UNCHANGED <<ask, at, hist, reply, cached, stops, past>>

\* The first create_event raises, having stored the question or not.
QuestionFails(r) ==
    /\ pc[r] = "graph"
    /\ loop[at[r]] = Nobody
    /\ \/ events' = [events EXCEPT ![Session(r)] = Append(@, Turn("user", r))]
       \/ UNCHANGED events
    /\ Answers(r, "error", r)
    /\ UNCHANGED <<ask, at, hist, cached, loop, stops, past>>

\* The second create_event stores the answer, the cache takes it, the client gets it.
StoreAnswer(r) ==
    LET p == at[r] IN
    /\ pc[r] = "answer"
    /\ events' = [events EXCEPT ![Session(r)] = Append(@, Turn("assistant", r))]
    /\ cached' = [cached EXCEPT ![p] = (@ \ Entries(p, Asked(r))) \cup {r}]
    /\ Answers(r, "fresh", r)
    /\ loop' = [loop EXCEPT ![p] = Nobody]
    /\ UNCHANGED <<ask, at, hist, stops, past>>

\* Faulty: the exception is swallowed, and the answer returned all the same.
AnswerFailsSilently(r) ==
    LET p == at[r] IN
    /\ pc[r] = "answer"
    /\ \/ events' = [events EXCEPT ![Session(r)] = Append(@, Turn("assistant", r))]
       \/ UNCHANGED events
    /\ cached' = [cached EXCEPT ![p] = (@ \ Entries(p, Asked(r))) \cup {r}]
    /\ Answers(r, "fresh", r)
    /\ loop' = [loop EXCEPT ![p] = Nobody]
    /\ UNCHANGED <<ask, at, hist, stops, past>>

\* Faulty: the call is repeated after an error.
AnswerFailsAgain(r) ==
    /\ pc[r] = "answer"
    /\ events' = [events EXCEPT ![Session(r)] = Append(@, Turn("assistant", r))]
    /\ UNCHANGED <<ask, at, pc, hist, reply, cached, loop, stops, past>>
    /\ Len(events[Session(r)]) < 2 * Cardinality(Requests)

\* The second create_event raises, having stored the answer or not: the client gets an
\* error and the cache nothing.
AnswerFails(r) ==
    /\ pc[r] = "answer"
    /\ \/ events' = [events EXCEPT ![Session(r)] = Append(@, Turn("assistant", r))]
       \/ UNCHANGED events
    /\ Answers(r, "error", r)
    /\ loop' = [loop EXCEPT ![at[r]] = Nobody]
    /\ UNCHANGED <<ask, at, hist, cached, stops, past>>

\* Faulty: the turns are the process's, and go with it.
StopForgetting(p) ==
    /\ stops < MaxStops
    /\ stops' = stops + 1
    /\ pc' = [r \in Requests |-> IF r \in InProgress(p) THEN "done" ELSE pc[r]]
    /\ reply' = [r \in Requests |-> IF r \in InProgress(p) THEN Reply("lost", r) ELSE reply[r]]
    /\ cached' = [cached EXCEPT ![p] = {}]
    /\ loop' = [loop EXCEPT ![p] = Nobody]
    /\ events' = [s \in Sessions |-> <<>>]
    /\ UNCHANGED <<ask, at, hist, past>>

\* A process stops, wherever its coroutines are, and starts again: its cache is empty and
\* its clients lose their connections.
Stop(p) ==
    /\ stops < MaxStops
    /\ stops' = stops + 1
    /\ pc' = [r \in Requests |-> IF r \in InProgress(p) THEN "done" ELSE pc[r]]
    /\ reply' = [r \in Requests |-> IF r \in InProgress(p) THEN Reply("lost", r) ELSE reply[r]]
    /\ cached' = [cached EXCEPT ![p] = {}]
    /\ loop' = [loop EXCEPT ![p] = Nobody]
    /\ UNCHANGED <<ask, at, hist, events, past>>

-----------------------------------------------------------------------------
Begin(r, p) ==
    \/ RefuseBlank(r, p) \/ RejectInput(r, p) \/ ServeCached(r, p)
    \/ ReadHistory(r, p) \/ HistoryFails(r, p)

Proceed(r) ==
    \/ GraphFails(r) \/ StoreQuestion(r) \/ QuestionFails(r)
    \/ StoreAnswer(r) \/ AnswerFails(r)

Next ==
    \/ \E r \in Requests, p \in Procs : Begin(r, p)
    \/ \E r \in Requests : Proceed(r)
    \/ \E p \in Procs : Stop(p)

Spec == Init /\ [][Next]_vars

-----------------------------------------------------------------------------
Turns == [role : {"user", "assistant"}, by : Requests]

Replies == [kind : {"none", "fresh", "hit", "blocked", "error", "lost"}, by : Requests]

\* Types, and who keeps an event loop: the request between its two calls, no other.
HostedTypeOK ==
    /\ ask \in [Requests -> Invocations]
    /\ at \in [Requests -> Procs \cup {Nobody}]
    /\ pc \in [Requests -> {"new", "graph", "answer", "done"}]
    /\ hist \in [Requests -> Seq(Turns)]
    /\ reply \in [Requests -> Replies]
    /\ events \in [Sessions -> Seq(Turns)]
    /\ cached \in [Procs -> SUBSET Requests]
    /\ loop \in [Procs -> Requests \cup {Nobody}]
    /\ stops \in 0..MaxStops
    /\ past \in [Requests -> SUBSET Requests]
    /\ \A r \in Requests :
          /\ pc[r] # "new" => at[r] \in Procs
          /\ pc[r] = "answer" => loop[at[r]] = r
          /\ reply[r].kind = "none" <=> pc[r] # "done"

Stored(r, role, i) == events[Session(r)][i] = Turn(role, r)

Places(s) == DOMAIN events[s]

\* The question and, later, its answer are in the store.
Recorded(r) ==
    \E i, j \in Places(Session(r)) : i < j /\ Stored(r, "user", i) /\ Stored(r, "assistant", j)

\* An answer that a client has, as its own or from a cache, or that a cache may still
\* give, is a whole turn of the session it was made in, whatever process has stopped
\* since and whatever call has failed.
AnswersAreDurable ==
    /\ \A r \in Requests : reply[r].kind \in {"fresh", "hit"} => Recorded(reply[r].by)
    /\ \A p \in Procs : \A e \in cached[p] : Recorded(e)

\* In the store an answer stands after its question, and neither stands there twice,
\* also when the processes of a session interleave and calls fail half-way.
TurnsInOrder ==
    \A s \in Sessions : \A i, j \in Places(s) :
        /\ events[s][i] = events[s][j] => i = j
        /\ events[s][i].role = "assistant" =>
               \E k \in 1..(i - 1) : events[s][k] = Turn("user", events[s][i].by)

\* A turn in the store is that of a request which got its own answer, got an error, lost
\* its connection or is between the two calls.  A question that was refused or served
\* from a cache, or of which no model has been asked, is not there.
NoStrayTurns ==
    \A s \in Sessions : \A i \in Places(s) :
        LET r == events[s][i].by IN
        /\ Session(r) = s
        /\ pc[r] = "answer" \/ reply[r].kind \in {"fresh", "error", "lost"}

\* r has read the history of its session.
HasRead(r) == pc[r] \in {"graph", "answer"} \/ reply[r].kind = "fresh"

\* A follow-up question knows the answers its session had got before it was asked, on
\* whatever process and before whatever stop: each is in its prompt, or Window turns
\* stored since have pushed it out (of a negative memory_window, which drops the oldest
\* turns: only turns stored since are told).
FollowUpsKnow ==
    \A r \in Requests : HasRead(r) =>
        \A e \in past[r] : Session(e) = Session(r) =>
            \/ \E k \in DOMAIN hist[r] : hist[r][k] = Turn("assistant", e)
            \/ /\ Window < 0 \/ Len(hist[r]) = Window
               /\ \A k \in DOMAIN hist[r] : \E i, j \in Places(Session(r)) :
                     i < j /\ Stored(e, "assistant", i) /\ events[Session(r)][j] = hist[r][k]

\* On AgentCore Runtime the prompt of one platform session never has a turn of another,
\* whatever session the payloads name ("prefer it so memory keys line up with the
\* platform's per-session microVM").
PlatformSessionsApart ==
    \A r \in Requests : \A k \in DOMAIN hist[r] :
        LET here == ask[r]
            there == ask[hist[r][k].by]
        IN  (/\ here.via = "runtime" /\ here.context # NoSession
             /\ there.via = "runtime" /\ there.context # NoSession) =>
                here.context = there.context
=============================================================================
