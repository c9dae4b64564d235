---------------------------- MODULE AnswerProofs ----------------------------
(* AgentPipeline for every value of its constants: its types, where its answers come from,
   how old they may be, and what its cache and its counters say. *)
EXTENDS AgentPipeline, TurnListProofs, FiniteSetTheorems

-----------------------------------------------------------------------------
(* The operators on the memory of a session. *)

\* Appending to a deque of at most MaxTurns turns yields such a deque.
LEMMA PushedType ==
    ASSUME NEW T, NEW turns \in Seq(T), NEW t \in T, Len(turns) <= MaxTurns
    PROVE  Pushed(turns, t) \in Seq(T) /\ Len(Pushed(turns, t)) <= MaxTurns
<1>1. CASE Len(turns) < MaxTurns
  BY <1>1, AppendProperties, MemoryAssumption DEF Pushed
<1>2. CASE Len(turns) >= MaxTurns
  <2>1. turns # <<>> /\ Len(turns) = MaxTurns
    BY <1>2, MemoryAssumption, EmptySeq
  <2>2. Tail(turns) \in Seq(T) /\ Len(Tail(turns)) = Len(turns) - 1
    BY <2>1, HeadTailProperties
  <2>3. Append(Tail(turns), t) \in Seq(T) /\ Len(Append(Tail(turns), t)) = Len(turns)
    BY <2>2, AppendProperties, LenProperties
  <2> QED BY <2>1, <2>3 DEF Pushed
<1> QED BY <1>1, <1>2, MemoryAssumption, LenProperties

\* The two appends of a finished turn.
LEMMA PairType ==
    ASSUME NEW T, NEW turns \in Seq(T), NEW t \in T, NEW u \in T, Len(turns) <= MaxTurns
    PROVE  /\ Pushed(Pushed(turns, t), u) \in Seq(T)
           /\ Len(Pushed(Pushed(turns, t), u)) <= MaxTurns
  BY PushedType

\* The documents of one ingestion, as a sequence of chunks.
LEMMA BatchType ==
    ASSUME NEW I, NEW i \in I, NEW n \in Nat
    PROVE  [d \in 1..n |-> i] \in Seq(I)
  OBVIOUS

-----------------------------------------------------------------------------
(* Type correctness. *)

\* The values a request can put in the cache, and the keys it puts them under.
LEMMA RequestTypes ==
    ASSUME TypeOK, NEW r \in Requests
    PROVE  /\ ask[r].query \in Queries
           /\ ask[r].session \in Sessions
           /\ Decide(ask[r].query) \in Models
           /\ Key(ask[r].query) \in Keys
           /\ Sanitised(raw[r]) \in Texts
           /\ UserTurn(r) \in Turns
           /\ \A text \in Texts : AssistantTurn(r, text) \in Turns
           /\ NoAnswer(r) \in [by : Requests, text : Texts, model : Models \cup {"none"}]
           /\ Idle # r
<1>1. ask[r] \in [query : Queries, session : Sessions, rag : UseRag] /\ raw[r] \in Texts
  BY DEF TypeOK
<1>2. ask[r].query \in Queries /\ ask[r].session \in Sessions
  BY <1>1
<1>3. Decide(ask[r].query) \in Models
  BY DEF Decide, Models
<1>4. Key(ask[r].query) \in Keys
  BY <1>2 DEF Keys
<1>5. Sanitised(raw[r]) \in Texts
  BY <1>1 DEF Sanitised, Texts
<1>6. UserTurn(r) \in Turns /\ \A text \in Texts : AssistantTurn(r, text) \in Turns
  BY <1>2 DEF UserTurn, AssistantTurn, Turns
<1>7. NoAnswer(r) \in [by : Requests, text : Texts, model : Models \cup {"none"}]
  BY DEF NoAnswer, Texts
<1>8. Idle # r
  BY PipelineAssumption
<1> QED BY <1>2, <1>3, <1>4, <1>5, <1>6, <1>7, <1>8

LEMMA ReplyType ==
    ASSUME TypeOK,
           NEW kind \in {"none", "blocked", "hit", "fresh", "error"},
           NEW value \in [by : Requests, text : Texts, model : Models \cup {"none"}],
           NEW billed \in Seq(Models)
    PROVE  Reply(kind, value, billed) \in Replies
  BY DEF TypeOK, CacheTypeOK, Reply, Replies

\* The replies nobody is charged for.
LEMMA UnbilledReplyType ==
    ASSUME TypeOK,
           NEW kind \in {"blocked", "hit", "error"},
           NEW value \in [by : Requests, text : Texts, model : Models \cup {"none"}]
    PROVE  Reply(kind, value, <<>>) \in Replies
<1>1. <<>> \in Seq(Models)
  OBVIOUS
<1> QED BY <1>1, ReplyType

LEMMA InitType == Init => TypeOK
<1> SUFFICES ASSUME Init PROVE TypeOK
  OBVIOUS
<1>1. CacheTypeOK(Keys, Values)
  BY DEF Init, CacheInit, CacheTypeOK
<1>2. MemoryTypeOK(Turns) /\ \A s \in Sessions : Len(memory[s]) <= MaxTurns
  BY MemoryAssumption DEF Init, MemoryInit, MemoryTypeOK
<1>3. StoreTypeOK(Ingests)
  BY DEF Init, StoreInit, StoreTypeOK
<1>4. reply \in [Requests -> Replies]
  BY DEF Init, CacheInit, Reply, NoAnswer, Replies, Texts
<1> QED
  BY <1>1, <1>2, <1>3, <1>4 DEF Init, TypeOK, PCs, Texts

LEMMA BeginType == ASSUME TypeOK, NEW r \in Requests, Begin(r) PROVE TypeOK'
<1>1. born' \in [Requests -> SUBSET Ingests] /\ past' \in [Requests -> SUBSET Requests]
  <2>1. Acknowledged \in SUBSET Ingests /\ Generated \in SUBSET Requests
    BY DEF Acknowledged, Generated
  <2>2. Arrives(r)
    BY DEF Begin, RejectInput, ServeCached, EnterGraph
  <2>3. born \in [Requests -> SUBSET Ingests] /\ past \in [Requests -> SUBSET Requests]
    BY DEF TypeOK
  <2> QED BY <2>1, <2>2, <2>3 DEF Arrives
<1>2. loop = Idle /\ loop' = Idle
  BY DEF Begin, RejectInput, ServeCached, EnterGraph, Arrives
<1>3. CASE RejectInput(r)
  <2>1. Reply("blocked", NoAnswer(r), <<>>) \in Replies
    <3>1. NoAnswer(r) \in [by : Requests, text : Texts, model : Models \cup {"none"}]
      BY RequestTypes
    <3> QED BY <3>1, UnbilledReplyType
  <2>2. CacheTypeOK(Keys, Values)'
    BY <1>3 DEF RejectInput, TypeOK, CacheTypeOK, cacheVars
  <2> QED BY <1>1, <1>2, <1>3, <2>1, <2>2
    DEF RejectInput, Arrives, TypeOK, PCs, MemoryTypeOK, StoreTypeOK
<1>4. CASE ServeCached(r)
  <2>1. cache[Key(ask[r].query)].value \in Values
    BY <1>4 DEF ServeCached, CacheGetHit, Holds, TypeOK, CacheTypeOK, CacheEntry
  <2>2. Reply("hit", cache[Key(ask[r].query)].value, <<>>) \in Replies
    <3>1. Values \subseteq [by : Requests, text : Texts, model : Models \cup {"none"}]
      BY DEF Values
    <3> HIDE DEF Values
    <3> QED BY <2>1, <3>1, UnbilledReplyType
  <2>3. CacheTypeOK(Keys, Values)'
    BY <1>4 DEF ServeCached, CacheGetHit, TypeOK, CacheTypeOK
  <2> QED BY <1>1, <1>2, <1>4, <2>2, <2>3
    DEF ServeCached, Arrives, TypeOK, PCs, MemoryTypeOK, StoreTypeOK
<1>5. CASE EnterGraph(r)
  <2>1. CacheTypeOK(Keys, Values)'
    BY <1>5 DEF EnterGraph, CacheGetMiss, TypeOK, CacheTypeOK
  <2>2. LastTurns(memory[ask[r].session], Window) \in Seq(Turns)
    BY LastTurnsIsAnEnd, RequestTypes, PipelineAssumption DEF TypeOK, MemoryTypeOK
  <2> QED BY <1>1, <1>2, <1>5, <2>1, <2>2
    DEF EnterGraph, Arrives, TypeOK, PCs, MemoryTypeOK, StoreTypeOK
<1> QED BY <1>3, <1>4, <1>5 DEF Begin

LEMMA ProceedType == ASSUME TypeOK, NEW r \in Requests, Proceed(r) PROVE TypeOK'
<1> DEFINE q == ask[r].query
<1>1. CASE Rewrite(r)
  <2>1. CacheTypeOK(Keys, Values)'
    BY <1>1 DEF Rewrite, TypeOK, CacheTypeOK, cacheVars
  <2>2. calls' \in [Requests -> Seq(Models)]
    BY <1>1, AppendProperties DEF Rewrite, TypeOK, Models
  <2>3. loop' \in {Idle, r} /\ (loop' = r => pc'[r] = "embed")
    BY <1>1, RequestTypes DEF Rewrite, AwaitsProvider, TypeOK
  <2>4. loop' \in ({Idle} \cup InGraph \cup {i \in Ingests : ing[i] = "embed"})'
    BY <1>1, <2>3 DEF Rewrite, InGraph
  <2> QED BY <1>1, <2>1, <2>2, <2>4 DEF Rewrite, TypeOK, PCs, MemoryTypeOK, StoreTypeOK, noteVars
<1>2. CASE Retrieve(r)
  <2>1. CacheTypeOK(Keys, Values)'
    BY <1>2 DEF Retrieve, TypeOK, CacheTypeOK, cacheVars
  <2>2. DOMAIN chunks \subseteq Nat /\ StoredJobs \subseteq Ingests
    BY LenProperties, ElementOfSeq DEF TypeOK, StoreTypeOK, StoredJobs
  <2>3. ctx' \in [Requests -> SUBSET Nat] /\ seen' \in [Requests -> SUBSET Ingests]
    BY <1>2, <2>2 DEF Retrieve, SearchResults, TypeOK
  <2> QED BY <1>2, <2>1, <2>3 DEF Retrieve, TypeOK, PCs, MemoryTypeOK, StoreTypeOK, InGraph
<1>3. CASE Answer(r)
  <2>1. CacheTypeOK(Keys, Values)'
    BY <1>3 DEF Answer, TypeOK, CacheTypeOK, cacheVars
  <2>2. calls' \in [Requests -> Seq(Models)]
    BY <1>3, AppendProperties, RequestTypes DEF Answer, TypeOK
  <2>3. raw' \in [Requests -> Texts]
    BY <1>3, PipelineAssumption DEF Answer, TypeOK, Texts
  <2> QED BY <1>3, <2>1, <2>2, <2>3
    DEF Answer, TypeOK, PCs, MemoryTypeOK, StoreTypeOK, InGraph, noteVars
<1>4. CASE Finish(r)
  <2> DEFINE value == [by |-> r, text |-> Sanitised(raw[r]), model |-> Decide(q)]
  <2>1. value \in Values
    BY RequestTypes DEF Values
  <2>2. CacheTypeOK(Keys, Values)'
    <3>1. Key(q) \in Keys
      BY RequestTypes
    <3>2. [value |-> value, created |-> now] \in CacheEntry(Values)
      BY <2>1 DEF CacheEntry, TypeOK, CacheTypeOK
    <3> HIDE DEF value
    <3> QED BY <1>4, <3>1, <3>2 DEF Finish, CacheSet, TypeOK, CacheTypeOK, value
  <2>3. MemoryTypeOK(Turns)' /\ (\A s \in Sessions : Len(memory[s]) <= MaxTurns)'
    <3>1. UserTurn(r) \in Turns /\ AssistantTurn(r, value.text) \in Turns
      BY RequestTypes
    <3>2. \A s \in Sessions : memory[s] \in Seq(Turns) /\ Len(memory[s]) <= MaxTurns
      BY DEF TypeOK, MemoryTypeOK
    <3>3. \A s \in Sessions :
            LET new == Pushed(Pushed(memory[s], UserTurn(r)), AssistantTurn(r, value.text))
            IN  new \in Seq(Turns) /\ Len(new) <= MaxTurns
      BY <3>1, <3>2, PairType
    <3> QED BY <1>4, <3>2, <3>3 DEF Finish, RememberPair, TypeOK, MemoryTypeOK
  <2>4. reply' \in [Requests -> Replies]
    <3>1. <<value.model>> \in Seq(Models)
      BY RequestTypes
    <3>2. Reply("fresh", value, <<value.model>>) \in Replies
      BY <2>1, <3>1, ReplyType DEF Values
    <3> QED BY <1>4, <3>2 DEF Finish, TypeOK
  <2>5. ended' \in [Requests -> SUBSET Ingests]
    BY <1>4, LenProperties, ElementOfSeq DEF Finish, TypeOK, StoreTypeOK, StoredJobs
  <2> QED BY <1>4, <2>2, <2>3, <2>4, <2>5 DEF Finish, TypeOK, PCs, StoreTypeOK
<1>5. CASE ProviderFails(r)
  <2>1. CacheTypeOK(Keys, Values)'
    BY <1>5 DEF ProviderFails, TypeOK, CacheTypeOK, cacheVars
  <2>2. Reply("error", NoAnswer(r), <<>>) \in Replies
    <3>1. NoAnswer(r) \in [by : Requests, text : Texts, model : Models \cup {"none"}]
      BY RequestTypes
    <3> QED BY <3>1, UnbilledReplyType
  <2> QED BY <1>5, <2>1, <2>2 DEF ProviderFails, TypeOK, PCs, MemoryTypeOK, StoreTypeOK, noteVars
<1> QED BY <1>1, <1>2, <1>3, <1>4, <1>5 DEF Proceed

LEMMA IngestType ==
    ASSUME TypeOK, NEW i \in Ingests, IngestNothing(i) \/ StartIngest(i) \/ ProceedIngest(i)
    PROVE  TypeOK'
<1>1. CASE IngestNothing(i)
  <2>1. CacheTypeOK(Keys, Values)'
    BY <1>1 DEF IngestNothing, TypeOK, CacheTypeOK, cacheVars
  <2> QED BY <1>1, <2>1
    DEF IngestNothing, TypeOK, InGraph, MemoryTypeOK, StoreTypeOK, chatVars, noteVars
<1>2. CASE StartIngest(i)
  <2>1. CacheTypeOK(Keys, Values)'
    BY <1>2 DEF StartIngest, TypeOK, CacheTypeOK, cacheVars
  <2> QED BY <1>2, <2>1
    DEF StartIngest, AwaitsProvider, TypeOK, InGraph, MemoryTypeOK, StoreTypeOK, chatVars, noteVars
<1>3. CASE StoreAndClear(i)
  <2>1. CacheTypeOK(Keys, Values)'
    BY <1>3 DEF StoreAndClear, CacheClear, TypeOK, CacheTypeOK
  <2>2. StoreTypeOK(Ingests)'
    <3>1. chunks \in Seq(Ingests) /\ Docs[i] \in Nat
      BY PipelineAssumption DEF TypeOK, StoreTypeOK
    <3>2. [d \in 1..Docs[i] |-> i] \in Seq(Ingests)
      BY <3>1, BatchType
    <3>3. chunks \o [d \in 1..Docs[i] |-> i] \in Seq(Ingests)
      BY <3>1, <3>2, ConcatProperties
    <3> QED BY <1>3, <3>3 DEF StoreAndClear, AddDocuments, StoreTypeOK
  <2> QED BY <1>3, <2>1, <2>2
    DEF StoreAndClear, TypeOK, InGraph, MemoryTypeOK, chatVars, noteVars
<1>4. CASE IngestFails(i)
  <2>1. CacheTypeOK(Keys, Values)'
    BY <1>4 DEF IngestFails, TypeOK, CacheTypeOK, cacheVars
  <2> QED BY <1>4, <2>1
    DEF IngestFails, TypeOK, InGraph, MemoryTypeOK, StoreTypeOK, chatVars, noteVars
<1> QED BY <1>1, <1>2, <1>3, <1>4 DEF ProceedIngest

LEMMA StepType == TypeOK /\ [Next]_vars => TypeOK'
<1> SUFFICES ASSUME TypeOK, [Next]_vars PROVE TypeOK'
  OBVIOUS
<1>1. CASE \E r \in Requests : Begin(r) \/ Proceed(r)
  BY <1>1, BeginType, ProceedType
<1>2. CASE \E i \in Ingests : IngestNothing(i) \/ StartIngest(i) \/ ProceedIngest(i)
  BY <1>2, IngestType
<1>3. CASE Tick
  <2>1. CacheTypeOK(Keys, Values)'
    BY <1>3 DEF Tick, ClockTick, TypeOK, CacheTypeOK
  <2> QED BY <1>3, <2>1 DEF Tick, TypeOK, InGraph, MemoryTypeOK, StoreTypeOK, chatVars, noteVars
<1>4. CASE UNCHANGED vars
  <2>1. CacheTypeOK(Keys, Values)'
    BY <1>4 DEF vars, cacheVars, TypeOK, CacheTypeOK
  <2> QED BY <1>4, <2>1
    DEF vars, TypeOK, InGraph, MemoryTypeOK, StoreTypeOK, chatVars, noteVars
<1> QED BY <1>1, <1>2, <1>3, <1>4 DEF Next

\* Every behaviour of the pipeline keeps its types: the deque bound of every session and
\* the discipline of the event loop included.
THEOREM TypeCorrect == Spec => []TypeOK
  BY InitType, StepType, PTL DEF Spec

-----------------------------------------------------------------------------
(* Where answers come from, and how old they are.

   AnswerProvenance, HitsPostdateIngests and HitWithinTTL speak of replies; a reply from
   the cache is only as good as the entry it is made of, so the inductive invariant adds
   what the cache holds (CacheSound), what a finished request looks like (ReplySound) and
   that an acknowledged ingestion is in the store (StoreSound). *)

CacheSound ==
    \A k \in DOMAIN cache :
        LET v == cache[k].value IN
        /\ v.by \in Generated
        /\ Key(ask[v.by].query) = k
        /\ v.text = reply[v.by].text
        /\ v.model = reply[v.by].model
        /\ cache[k].created = reply[v.by].at
        /\ ended[v.by] = StoredJobs

ReplySound ==
    \A r \in Requests :
        /\ reply[r].kind = "none" <=> pc[r] # "done"
        /\ reply[r].at <= now
        /\ r \in Generated => reply[r].by = r /\ reply[r].model = Decide(ask[r].query)

StoreSound ==
    \A i \in Ingests :
        /\ ing[i] \in {"embed", "done"} => Docs[i] > 0
        /\ ing[i] = "done" => i \in StoredJobs

\* What AnswerProvenance says of replies alone.
Sourced ==
    \A r \in Requests : reply[r].kind \in {"hit", "fresh"} =>
        LET source == reply[r].by IN
        /\ source \in Generated
        /\ Norm[ask[source].query] = Norm[ask[r].query]
        /\ reply[r].model = Decide(ask[r].query)
        /\ reply[r].text = reply[source].text
        /\ reply[r].kind = "fresh" => source = r

Answers == Sourced /\ HitsPostdateIngests /\ HitWithinTTL

AnswerInv == TypeOK /\ CacheSound /\ ReplySound /\ StoreSound /\ Answers

\* A step never touches a request that has been answered, nor what any request asks;
\* and the clock does not run backwards.
LEMMA AnsweredStay ==
    ASSUME TypeOK, [Next]_vars
    PROVE  /\ ask' = ask
           /\ now \in Nat /\ now' \in Nat /\ now <= now'
           /\ \A r \in Requests : pc[r] = "done" =>
                 /\ pc'[r] = "done"
                 /\ reply'[r] = reply[r]
                 /\ ended'[r] = ended[r]
                 /\ born'[r] = born[r]
                 /\ seen'[r] = seen[r]
<1> DEFINE Kept == /\ ask' = ask
                   /\ now <= now'
                   /\ \A r \in Requests : pc[r] = "done" =>
                         /\ pc'[r] = "done"
                         /\ reply'[r] = reply[r]
                         /\ ended'[r] = ended[r]
                         /\ born'[r] = born[r]
                         /\ seen'[r] = seen[r]
<1>1. /\ now \in Nat
      /\ pc \in [Requests -> PCs] /\ reply \in [Requests -> Replies]
      /\ ended \in [Requests -> SUBSET Ingests] /\ born \in [Requests -> SUBSET Ingests]
      /\ seen \in [Requests -> SUBSET Ingests]
  BY DEF TypeOK, CacheTypeOK
<1>2. ASSUME NEW r \in Requests, Begin(r) PROVE Kept
  BY <1>1, <1>2 DEF Begin, RejectInput, ServeCached, EnterGraph, Arrives, CacheGetHit,
                    CacheGetMiss, cacheVars
<1>3. ASSUME NEW r \in Requests, Proceed(r) PROVE Kept
  BY <1>1, <1>3 DEF Proceed, Rewrite, Retrieve, Answer, Finish, ProviderFails, CacheSet,
                    cacheVars, noteVars
<1>4. ASSUME NEW i \in Ingests, IngestNothing(i) \/ StartIngest(i) \/ ProceedIngest(i)
      PROVE  Kept
  BY <1>1, <1>4 DEF IngestNothing, StartIngest, ProceedIngest, StoreAndClear, IngestFails,
                    CacheClear, cacheVars, chatVars, noteVars
<1>5. ASSUME Tick PROVE Kept
  BY <1>1, <1>5 DEF Tick, ClockTick, chatVars, noteVars
<1>6. ASSUME UNCHANGED vars PROVE Kept
  BY <1>1, <1>6 DEF vars, cacheVars, chatVars, noteVars
<1>7. Kept
  BY <1>2, <1>3, <1>4, <1>5, <1>6 DEF Next
<1>8. now' \in Nat
  BY StepType DEF TypeOK, CacheTypeOK
<1> QED BY <1>1, <1>7, <1>8

\* Hence an answer, once generated, stays what it was.
LEMMA GeneratedStay ==
    ASSUME TypeOK, ReplySound, [Next]_vars, NEW g \in Generated
    PROVE  /\ g \in Requests /\ pc[g] = "done" /\ g \in Generated'
           /\ reply'[g] = reply[g] /\ ended'[g] = ended[g] /\ ask'[g] = ask[g]
  BY AnsweredStay DEF Generated, ReplySound

\* What a step does to the store: nothing, or it adds the documents of one ingestion.
LEMMA StoreGrows ==
    ASSUME TypeOK, StoreSound, [Next]_vars
    PROVE  /\ StoredJobs \subseteq StoredJobs'
           /\ StoredJobs' = StoredJobs \/ DOMAIN cache' = {}
           /\ StoreSound'
<1>1. CASE \E i \in Ingests : StoreAndClear(i)
  <2>1. PICK i \in Ingests : StoreAndClear(i)
    BY <1>1
  <2>2. /\ chunks \in Seq(Ingests) /\ Docs[i] \in Nat /\ Docs[i] > 0
        /\ [d \in 1..Docs[i] |-> i] \in Seq(Ingests)
    BY <2>1, PipelineAssumption, BatchType DEF StoreAndClear, TypeOK, StoreTypeOK, StoreSound
  <2>3. /\ chunks' \in Seq(Ingests)
        /\ Len(chunks') = Len(chunks) + Docs[i]
        /\ \A c \in 1..Len(chunks') :
              chunks'[c] = IF c <= Len(chunks) THEN chunks[c] ELSE i
    BY <2>1, <2>2, ConcatProperties, LenProperties DEF StoreAndClear, AddDocuments
  <2>4. DOMAIN chunks = 1..Len(chunks) /\ DOMAIN chunks' = 1..Len(chunks')
    BY <2>2, <2>3, LenProperties
  <2>5. StoredJobs \subseteq StoredJobs'
    BY <2>2, <2>3, <2>4, LenProperties DEF StoredJobs
  <2>6. i \in StoredJobs'
    <3>1. Len(chunks) + 1 \in DOMAIN chunks' /\ chunks'[Len(chunks) + 1] = i
      BY <2>2, <2>3, <2>4, LenProperties
    <3> QED BY <3>1 DEF StoredJobs
  <2>7. DOMAIN cache' = {}
    BY <2>1 DEF StoreAndClear, CacheClear
  <2>8. StoreSound'
    BY <2>1, <2>5, <2>6 DEF StoreAndClear, StoreSound, TypeOK
  <2> QED BY <2>5, <2>7, <2>8
<1>2. CASE ~ \E i \in Ingests : StoreAndClear(i)
  <2>1. chunks' = chunks
    BY <1>2 DEF Next, Begin, RejectInput, ServeCached, EnterGraph, Proceed, Rewrite, Retrieve,
                Answer, Finish, ProviderFails, IngestNothing, StartIngest, ProceedIngest,
                IngestFails, Tick, vars
  <2>2. ing' = ing \/ \E i \in Ingests : IngestNothing(i) \/ StartIngest(i) \/ IngestFails(i)
    BY <1>2 DEF Next, Begin, RejectInput, ServeCached, EnterGraph, Proceed, Rewrite, Retrieve,
                Answer, Finish, ProviderFails, ProceedIngest, Tick, vars
  <2>3. StoredJobs' = StoredJobs
    BY <2>1 DEF StoredJobs
  <2>4. StoreSound'
    BY <2>2, <2>3 DEF StoreSound, TypeOK, IngestNothing, StartIngest, IngestFails
  <2> QED BY <2>3, <2>4
<1> QED BY <1>1, <1>2

\* A request moves by its own steps only.
LEMMA OtherRequestsStay ==
    ASSUME [Next]_vars, TypeOK, NEW r \in Requests
    PROVE  \/ UNCHANGED <<pc[r], reply[r], born[r], seen[r], ended[r], raw[r], hist[r], past[r]>>
           \/ Begin(r) \/ Proceed(r)
<1> DEFINE Same == UNCHANGED <<pc[r], reply[r], born[r], seen[r], ended[r], raw[r], hist[r], past[r]>>
<1>1. /\ pc \in [Requests -> PCs] /\ reply \in [Requests -> Replies]
      /\ ended \in [Requests -> SUBSET Ingests] /\ born \in [Requests -> SUBSET Ingests]
      /\ seen \in [Requests -> SUBSET Ingests] /\ past \in [Requests -> SUBSET Requests]
      /\ raw \in [Requests -> Texts] /\ hist \in [Requests -> Seq(Turns)]
  BY DEF TypeOK
<1>2. ASSUME NEW o \in Requests, o # r, Begin(o) PROVE Same
  BY <1>1, <1>2 DEF Begin, RejectInput, ServeCached, EnterGraph, Arrives
<1>3. ASSUME NEW o \in Requests, o # r, Proceed(o) PROVE Same
  BY <1>1, <1>3 DEF Proceed, Rewrite, Retrieve, Answer, Finish, ProviderFails, noteVars
<1>4. ASSUME NEW i \in Ingests, IngestNothing(i) \/ StartIngest(i) \/ ProceedIngest(i) PROVE Same
  BY <1>4 DEF IngestNothing, StartIngest, ProceedIngest, StoreAndClear, IngestFails, chatVars,
              noteVars
<1>5. CASE Tick \/ UNCHANGED vars
  BY <1>5 DEF Tick, vars, chatVars, noteVars
<1> QED BY <1>2, <1>3, <1>4, <1>5 DEF Next

\* The reply a step gives, if it gives one.
LEMMA ReplySteps ==
    ASSUME [Next]_vars, TypeOK, NEW r \in Requests
    PROVE  \/ /\ reply'[r] = reply[r] /\ born'[r] = born[r] /\ ended'[r] = ended[r]
              /\ (pc[r] = "done" <=> pc'[r] = "done")
           \/ pc[r] = "new" /\ EnterGraph(r)
           \/ RejectInput(r) \/ ServeCached(r) \/ Finish(r) \/ ProviderFails(r)
<1>1. pc \in [Requests -> PCs]
  BY DEF TypeOK
<1>2. ASSUME Rewrite(r) \/ Retrieve(r) \/ Answer(r)
      PROVE  /\ reply'[r] = reply[r] /\ born'[r] = born[r] /\ ended'[r] = ended[r]
             /\ pc[r] # "done" /\ pc'[r] # "done"
  BY <1>1, <1>2 DEF Rewrite, Retrieve, Answer, noteVars
<1>3. EnterGraph(r) => pc[r] = "new"
  BY DEF EnterGraph, Arrives
<1> QED BY <1>2, <1>3, OtherRequestsStay DEF Begin, Proceed

LEMMA ReplyFields ==
    ASSUME NEW kind, NEW value, NEW billed
    PROVE  /\ Reply(kind, value, billed).kind = kind
           /\ Reply(kind, value, billed).by = value.by
           /\ Reply(kind, value, billed).text = value.text
           /\ Reply(kind, value, billed).model = value.model
           /\ Reply(kind, value, billed).billed = billed
           /\ Reply(kind, value, billed).at = now
  BY DEF Reply

\* What the cache holds after a step: what it held, or the answer just generated.
LEMMA CacheSteps ==
    ASSUME [Next]_vars, TypeOK, NEW k \in DOMAIN cache'
    PROVE  \/ k \in DOMAIN cache /\ cache'[k] = cache[k]
           \/ \E r \in Requests :
                 /\ Finish(r)
                 /\ k = Key(ask[r].query)
                 /\ cache'[k] = [value |-> [by |-> r, text |-> Sanitised(raw[r]),
                                           model |-> Decide(ask[r].query)],
                                 created |-> now]
<1>1. CASE \E r \in Requests : Begin(r)
  BY <1>1 DEF Begin, RejectInput, ServeCached, EnterGraph, CacheGetHit, CacheGetMiss, cacheVars
<1>2. CASE \E r \in Requests : Proceed(r)
  <2>1. PICK r \in Requests : Proceed(r)
    BY <1>2
  <2>2. CASE Finish(r)
    <3> DEFINE value == [by |-> r, text |-> Sanitised(raw[r]), model |-> Decide(ask[r].query)]
    <3>1. CacheSet(Key(ask[r].query), value)
      BY <2>2 DEF Finish
    <3> HIDE DEF value
    <3>2. k = Key(ask[r].query) => cache'[k] = [value |-> value, created |-> now]
      BY <3>1 DEF CacheSet
    <3>3. k # Key(ask[r].query) => k \in DOMAIN cache /\ cache'[k] = cache[k]
      BY <3>1 DEF CacheSet
    <3> QED BY <2>2, <3>2, <3>3 DEF value
  <2>3. CASE ~Finish(r)
    BY <2>1, <2>3 DEF Proceed, Rewrite, Retrieve, Answer, ProviderFails, cacheVars
  <2> QED BY <2>2, <2>3
<1>3. CASE \E i \in Ingests : IngestNothing(i) \/ StartIngest(i) \/ ProceedIngest(i)
  BY <1>3 DEF IngestNothing, StartIngest, ProceedIngest, StoreAndClear, IngestFails, CacheClear,
              cacheVars
<1>4. CASE Tick \/ UNCHANGED vars
  BY <1>4 DEF Tick, ClockTick, vars, cacheVars
<1> QED BY <1>1, <1>2, <1>3, <1>4 DEF Next

LEMMA CacheSoundStep ==
    ASSUME TypeOK, CacheSound, ReplySound, StoreSound, [Next]_vars
    PROVE  CacheSound'
<1> SUFFICES ASSUME NEW k \in DOMAIN cache'
             PROVE  LET v == cache'[k].value IN
                    /\ v.by \in Generated'
                    /\ Key(ask'[v.by].query) = k
                    /\ v.text = reply'[v.by].text
                    /\ v.model = reply'[v.by].model
                    /\ cache'[k].created = reply'[v.by].at
                    /\ ended'[v.by] = StoredJobs'
  BY DEF CacheSound
<1>1. CASE k \in DOMAIN cache /\ cache'[k] = cache[k]
  <2>1. StoredJobs' = StoredJobs
    BY StoreGrows
  <2> QED BY <1>1, <2>1, GeneratedStay DEF CacheSound
<1>2. ASSUME NEW r \in Requests, Finish(r), k = Key(ask[r].query),
             cache'[k] = [value |-> [by |-> r, text |-> Sanitised(raw[r]),
                                     model |-> Decide(ask[r].query)],
                          created |-> now]
      PROVE  LET v == cache'[k].value IN
             /\ v.by \in Generated'
             /\ Key(ask'[v.by].query) = k
             /\ v.text = reply'[v.by].text
             /\ v.model = reply'[v.by].model
             /\ cache'[k].created = reply'[v.by].at
             /\ ended'[v.by] = StoredJobs'
  <2> DEFINE value == [by |-> r, text |-> Sanitised(raw[r]), model |-> Decide(ask[r].query)]
  <2>1. /\ ask' = ask /\ chunks' = chunks
        /\ ended'[r] = StoredJobs
        /\ reply'[r] = Reply("fresh", value, <<value.model>>)
    <3>1. /\ ask' = ask /\ chunks' = chunks
          /\ ended' = [ended EXCEPT ![r] = StoredJobs]
          /\ reply' = [reply EXCEPT ![r] = Reply("fresh", value, <<value.model>>)]
      BY <1>2 DEF Finish
    <3>2. ended \in [Requests -> SUBSET Ingests] /\ reply \in [Requests -> Replies]
      BY DEF TypeOK
    <3> HIDE DEF value
    <3> QED BY <3>1, <3>2
  <2>2. StoredJobs' = StoredJobs
    BY <2>1 DEF StoredJobs
  <2>3. r \in Generated'
    BY <2>1, ReplyFields DEF Generated
  <2> QED BY <1>2, <2>1, <2>2, <2>3, ReplyFields
<1> QED BY <1>1, <1>2, CacheSteps

\* The replies the handlers give, as seen after the step.
LEMMA UnservedReply ==
    ASSUME TypeOK, NEW r \in Requests, RejectInput(r) \/ ProviderFails(r)
    PROVE  /\ reply'[r].kind \in {"blocked", "error"}
           /\ reply'[r].text = "none"
           /\ reply'[r].at = now
           /\ pc'[r] = "done"
<1>1. pc \in [Requests -> PCs] /\ reply \in [Requests -> Replies]
  BY DEF TypeOK
<1>2. pc'[r] = "done" /\ \E kind \in {"blocked", "error"} : reply'[r] = Reply(kind, NoAnswer(r), <<>>)
  BY <1>1 DEF RejectInput, ProviderFails
<1>3. NoAnswer(r).text = "none"
  BY DEF NoAnswer
<1> QED BY <1>2, <1>3, ReplyFields

LEMMA CachedReply ==
    ASSUME TypeOK, NEW r \in Requests, ServeCached(r)
    PROVE  LET k == Key(ask[r].query) IN
           /\ k \in DOMAIN cache /\ ~Expired(k)
           /\ reply'[r].kind = "hit"
           /\ reply'[r].by = cache[k].value.by
           /\ reply'[r].text = cache[k].value.text
           /\ reply'[r].model = cache[k].value.model
           /\ reply'[r].at = now
           /\ born'[r] = Acknowledged
           /\ pc'[r] = "done"
<1> DEFINE k == Key(ask[r].query)
<1>1. /\ pc \in [Requests -> PCs] /\ reply \in [Requests -> Replies]
      /\ born \in [Requests -> SUBSET Ingests]
  BY DEF TypeOK
<1>2. /\ k \in DOMAIN cache /\ ~Expired(k) /\ pc'[r] = "done"
      /\ born'[r] = Acknowledged
      /\ reply'[r] = Reply("hit", cache[k].value, <<>>)
  BY <1>1 DEF ServeCached, CacheGetHit, Holds, Arrives
<1> HIDE DEF k
<1>3. /\ reply'[r].kind = "hit"
      /\ reply'[r].by = cache[k].value.by
      /\ reply'[r].text = cache[k].value.text
      /\ reply'[r].model = cache[k].value.model
      /\ reply'[r].at = now
  BY <1>2, ReplyFields
<1> QED BY <1>2, <1>3 DEF k

LEMMA FreshReply ==
    ASSUME TypeOK, NEW r \in Requests, Finish(r)
    PROVE  /\ reply'[r].kind = "fresh"
           /\ reply'[r].by = r
           /\ reply'[r].text = Sanitised(raw[r])
           /\ reply'[r].model = Decide(ask[r].query)
           /\ reply'[r].at = now
           /\ pc'[r] = "done"
<1> DEFINE value == [by |-> r, text |-> Sanitised(raw[r]), model |-> Decide(ask[r].query)]
<1>1. pc \in [Requests -> PCs] /\ reply \in [Requests -> Replies]
  BY DEF TypeOK
<1>2. pc'[r] = "done" /\ reply' = [reply EXCEPT ![r] = Reply("fresh", value, <<value.model>>)]
  BY <1>1 DEF Finish
<1> HIDE DEF value
<1>3. reply'[r] = Reply("fresh", value, <<value.model>>)
  BY <1>1, <1>2
<1> QED BY <1>2, <1>3, ReplyFields DEF value

LEMMA ReplySoundStep ==
    ASSUME TypeOK, ReplySound, [Next]_vars
    PROVE  ReplySound'
<1> SUFFICES ASSUME NEW r \in Requests
             PROVE  /\ reply'[r].kind = "none" <=> pc'[r] # "done"
                    /\ reply'[r].at <= now'
                    /\ r \in Generated' =>
                          reply'[r].by = r /\ reply'[r].model = Decide(ask'[r].query)
  BY DEF ReplySound
<1>1. /\ now \in Nat /\ now' \in Nat /\ now <= now' /\ ask' = ask
      /\ reply[r].at \in Nat
  BY AnsweredStay DEF TypeOK, Replies
<1>2. CASE reply'[r] = reply[r] /\ (pc[r] = "done" <=> pc'[r] = "done")
  BY <1>1, <1>2 DEF ReplySound, Generated
<1>3. CASE pc[r] = "new" /\ EnterGraph(r)
  <2>1. reply'[r] = reply[r] /\ pc'[r] # "done"
    BY <1>3 DEF EnterGraph, TypeOK
  <2> QED BY <1>1, <1>3, <2>1 DEF ReplySound, Generated
<1>4. CASE RejectInput(r) \/ ProviderFails(r)
  BY <1>1, <1>4, UnservedReply DEF Generated
<1>5. CASE ServeCached(r)
  BY <1>1, <1>5, CachedReply DEF Generated
<1>6. CASE Finish(r)
  BY <1>1, <1>6, FreshReply DEF Generated
<1> QED BY <1>2, <1>3, <1>4, <1>5, <1>6, ReplySteps

LEMMA AnswersStep ==
    ASSUME AnswerInv, [Next]_vars
    PROVE  Answers'
<1> DEFINE Fine(r) ==
             LET source == reply[r].by IN
             /\ reply[r].kind \in {"hit", "fresh"} =>
                   /\ source \in Generated
                   /\ Norm[ask[source].query] = Norm[ask[r].query]
                   /\ reply[r].model = Decide(ask[r].query)
                   /\ reply[r].text = reply[source].text
                   /\ reply[r].kind = "fresh" => source = r
             /\ reply[r].kind = "hit" =>
                   /\ born[r] \subseteq ended[source]
                   /\ 0 <= reply[r].at - reply[source].at
                   /\ reply[r].at - reply[source].at <= TTL
<1>1. (\A r \in Requests : Fine(r)) <=> Answers
  BY DEF Answers, Sourced, HitsPostdateIngests, HitWithinTTL
<1>2. SUFFICES ASSUME NEW r \in Requests PROVE Fine(r)'
  <2>1. (\A r \in Requests : Fine(r))' <=> Answers'
    BY DEF Answers, Sourced, HitsPostdateIngests, HitWithinTTL
  <2> QED BY <2>1
<1> USE DEF AnswerInv
<1>3. ask' = ask /\ Fine(r)
  BY <1>1, AnsweredStay
<1>4. CASE reply'[r] = reply[r] /\ born'[r] = born[r]
  BY <1>3, <1>4, GeneratedStay
<1>5. CASE pc[r] = "new" /\ EnterGraph(r)
  <2>1. reply'[r] = reply[r] /\ reply[r].kind = "none"
    BY <1>5 DEF EnterGraph, ReplySound
  <2> QED BY <2>1
<1>6. CASE RejectInput(r) \/ ProviderFails(r)
  BY <1>6, UnservedReply
<1>7. CASE ServeCached(r)
  <2> DEFINE k == Key(ask[r].query)
             g == cache[k].value.by
  <2>1. /\ k \in DOMAIN cache /\ ~Expired(k)
        /\ reply'[r].kind = "hit"
        /\ reply'[r].by = g
        /\ reply'[r].text = cache[k].value.text
        /\ reply'[r].model = cache[k].value.model
        /\ reply'[r].at = now
        /\ born'[r] = Acknowledged
    BY <1>7, CachedReply
  <2>2. /\ g \in Generated
        /\ Key(ask[g].query) = k
        /\ cache[k].value.text = reply[g].text
        /\ cache[k].value.model = reply[g].model
        /\ cache[k].created = reply[g].at
        /\ ended[g] = StoredJobs
    BY <2>1 DEF CacheSound
  <2>3. g \in Generated' /\ reply'[g] = reply[g] /\ ended'[g] = ended[g]
    BY <2>2, GeneratedStay
  <2>4. Norm[ask[g].query] = Norm[ask[r].query] /\ Decide(ask[g].query) = Decide(ask[r].query)
    BY <2>2 DEF Key
  <2>5. reply[g].model = Decide(ask[g].query) /\ g \in Requests
    BY <2>2 DEF ReplySound, Generated
  <2>6. Acknowledged \subseteq StoredJobs
    BY DEF Acknowledged, StoreSound
  <2>7. 0 <= now - cache[k].created /\ now - cache[k].created <= TTL
    <3>1. now \in Nat /\ reply \in [Requests -> Replies]
      BY DEF TypeOK, CacheTypeOK
    <3>2. reply[g].at \in Nat
      BY <2>5, <3>1 DEF Replies
    <3>3. reply[g].at <= now
      BY <2>5 DEF ReplySound
    <3>4. cache[k].created = reply[g].at
      BY <2>2
    <3>5. ~ (now - reply[g].at > TTL)
      BY <2>1, <3>4 DEF Expired
    <3>6. TTL \in Nat /\ now \in Nat
      BY <3>1, CacheAssumption
    <3> HIDE DEF k, g
    <3>7. 0 <= now - reply[g].at /\ now - reply[g].at <= TTL
      BY <3>2, <3>3, <3>5, <3>6
    <3> QED BY <3>4, <3>7
  <2> HIDE DEF k, g
  <2> QED BY <1>3, <2>1, <2>2, <2>3, <2>4, <2>5, <2>6, <2>7
<1>8. CASE Finish(r)
  <2>1. /\ reply'[r].kind = "fresh" /\ reply'[r].by = r
        /\ reply'[r].model = Decide(ask[r].query)
    BY <1>8, FreshReply
  <2>2. r \in Generated'
    BY <2>1 DEF Generated
  <2> QED BY <1>3, <2>1, <2>2
<1> QED BY <1>4, <1>5, <1>6, <1>7, <1>8, ReplySteps

LEMMA AnswerInvInit == Init => AnswerInv
<1> SUFFICES ASSUME Init PROVE AnswerInv
  OBVIOUS
<1>1. TypeOK
  BY InitType
<1>2. \A r \in Requests : reply[r].kind = "none" /\ pc[r] = "new" /\ reply[r].at = 0
  BY ReplyFields DEF Init, CacheInit
<1>3. CacheSound
  BY DEF Init, CacheInit, CacheSound
<1>4. ReplySound
  BY <1>2 DEF ReplySound, Generated, Init, CacheInit
<1>5. StoreSound
  BY DEF Init, StoreSound
<1>6. Answers
  BY <1>2 DEF Answers, Sourced, HitsPostdateIngests, HitWithinTTL
<1> QED BY <1>1, <1>3, <1>4, <1>5, <1>6 DEF AnswerInv

LEMMA AnswerInvStep == AnswerInv /\ [Next]_vars => AnswerInv'
  BY StepType, CacheSoundStep, ReplySoundStep, StoreGrows, AnswersStep DEF AnswerInv

LEMMA AnswerInvariant == Spec => []AnswerInv
  BY AnswerInvInit, AnswerInvStep, PTL DEF Spec

\* Only the request that finishes becomes a generated one.
LEMMA GeneratedSteps ==
    ASSUME AnswerInv, [Next]_vars, NEW g \in Generated', g \notin Generated
    PROVE  Finish(g)
<1>1. g \in Requests /\ reply'[g].kind = "fresh" /\ reply[g].kind # "fresh"
  BY DEF Generated
<1>2. TypeOK /\ pc \in [Requests -> PCs] /\ reply \in [Requests -> Replies]
  BY DEF AnswerInv, TypeOK
<1>3. ~ (RejectInput(g) \/ ProviderFails(g))
  BY <1>1, <1>2, UnservedReply
<1>4. ~ ServeCached(g)
  BY <1>1, <1>2, CachedReply
<1>5. ~ EnterGraph(g)
  BY <1>1 DEF EnterGraph
<1> QED BY <1>1, <1>2, <1>3, <1>4, <1>5, ReplySteps

\* The answering call is the last one, and goes to the model the tier selects.
WroteInv ==
    \A r \in Requests : pc[r] = "finish" \/ reply[r].kind = "fresh" =>
        Wrote(r) = Decide(ask[r].query)

LEMMA WroteStep ==
    ASSUME TypeOK, ReplySound, WroteInv, [Next]_vars
    PROVE  WroteInv'
<1>1. ask' = ask
  BY AnsweredStay
<1>2. /\ pc \in [Requests -> PCs] /\ reply \in [Requests -> Replies]
      /\ calls \in [Requests -> Seq(Models)]
  BY DEF TypeOK
<1> SUFFICES ASSUME NEW r \in Requests, pc'[r] = "finish" \/ reply'[r].kind = "fresh"
             PROVE  calls'[r][Len(calls'[r])] = Decide(ask[r].query)
  BY <1>1 DEF WroteInv, Wrote, Decide
<1>3. CASE Answer(r)
  <2>1. calls'[r] = Append(calls[r], Decide(ask[r].query)) /\ calls[r] \in Seq(Models)
    BY <1>2, <1>3 DEF Answer
  <2>2. Decide(ask[r].query) \in Models
    BY DEF Decide, Models
  <2> QED BY <2>1, <2>2, AppendProperties
<1>4. CASE Rewrite(r) \/ Retrieve(r)
  <2>1. pc'[r] # "finish" /\ pc[r] # "done" /\ reply' = reply
    BY <1>2, <1>4 DEF Rewrite, Retrieve
  <2> QED BY <2>1 DEF ReplySound
<1>5. CASE Finish(r)
  BY <1>5 DEF Finish, WroteInv, Wrote
<1>6. CASE RejectInput(r) \/ ServeCached(r) \/ ProviderFails(r)
  <2>1. pc'[r] = "done" /\ reply'[r].kind # "fresh"
    BY <1>2, <1>6, ReplyFields DEF RejectInput, ServeCached, ProviderFails, Arrives
  <2> QED BY <2>1
<1>7. CASE EnterGraph(r)
  <2>1. pc'[r] = "rewrite" /\ reply' = reply /\ pc[r] = "new"
    BY <1>2, <1>7 DEF EnterGraph, Arrives
  <2> QED BY <2>1 DEF ReplySound
<1>8. CASE UNCHANGED <<pc[r], reply[r], calls[r]>>
  BY <1>8 DEF WroteInv, Wrote
<1>9. \/ UNCHANGED <<pc[r], reply[r], calls[r]>>
      \/ Begin(r) \/ Proceed(r)
  <2>1. ASSUME NEW o \in Requests, o # r, Begin(o) \/ Proceed(o)
        PROVE  UNCHANGED <<pc[r], reply[r], calls[r]>>
    BY <1>2, <2>1 DEF Begin, RejectInput, ServeCached, EnterGraph, Arrives, Proceed, Rewrite,
                      Retrieve, Answer, Finish, ProviderFails
  <2>2. ASSUME NEW i \in Ingests, IngestNothing(i) \/ StartIngest(i) \/ ProceedIngest(i)
        PROVE  UNCHANGED <<pc[r], reply[r], calls[r]>>
    BY <2>2 DEF IngestNothing, StartIngest, ProceedIngest, StoreAndClear, IngestFails, chatVars
  <2>3. Tick \/ UNCHANGED vars => UNCHANGED <<pc[r], reply[r], calls[r]>>
    BY DEF Tick, vars, chatVars
  <2> QED BY <2>1, <2>2, <2>3 DEF Next
<1> QED BY <1>3, <1>4, <1>5, <1>6, <1>7, <1>8, <1>9 DEF Begin, Proceed

\* What a reply is charged: the answering call's model, or nothing from the cache.
BilledInv ==
    \A r \in Requests : reply[r].kind \in {"hit", "fresh"} =>
        reply[r].billed = IF reply[r].kind = "fresh" THEN <<reply[r].model>> ELSE <<>>

LEMMA BilledStep == ASSUME TypeOK, BilledInv, [Next]_vars PROVE BilledInv'
<1> SUFFICES ASSUME NEW r \in Requests, reply'[r].kind \in {"hit", "fresh"}
             PROVE  reply'[r].billed =
                      IF reply'[r].kind = "fresh" THEN <<reply'[r].model>> ELSE <<>>
  BY DEF BilledInv
<1>1. reply \in [Requests -> Replies]
  BY DEF TypeOK
<1>2. CASE reply'[r] = reply[r]
  BY <1>2 DEF BilledInv
<1>3. CASE Finish(r)
  <2> DEFINE value == [by |-> r, text |-> Sanitised(raw[r]), model |-> Decide(ask[r].query)]
  <2>1. reply'[r] = Reply("fresh", value, <<value.model>>)
    BY <1>1, <1>3 DEF Finish
  <2> HIDE DEF value
  <2> QED BY <2>1, ReplyFields
<1>4. CASE ServeCached(r)
  <2>1. \E value : reply'[r] = Reply("hit", value, <<>>)
    BY <1>1, <1>4 DEF ServeCached
  <2> QED BY <2>1, ReplyFields
<1>5. ~(RejectInput(r) \/ ProviderFails(r))
  BY UnservedReply
<1>6. EnterGraph(r) => reply'[r] = reply[r]
  BY DEF EnterGraph
<1> QED BY <1>2, <1>3, <1>4, <1>5, <1>6, ReplySteps

\* Whatever is asked, ingested and failed in whatever order, a client is given an answer
\* generated for its own question by the model its tier selects, is told that model, and
\* is charged for the answering call alone, at that model, or not at all when the answer
\* is reused (pipeline.py:97-126, 160-170).
THEOREM ProvenanceHolds == Spec => []AnswerProvenance
<1>1. Init => WroteInv
  <2> SUFFICES ASSUME Init PROVE WroteInv
    OBVIOUS
  <2>1. \A r \in Requests : reply[r].kind = "none" /\ pc[r] = "new"
    BY ReplyFields DEF Init
  <2> QED BY <2>1 DEF WroteInv
<1>2. AnswerInv /\ WroteInv /\ [Next]_vars => WroteInv'
  BY WroteStep DEF AnswerInv
<1>3. Init => BilledInv
  BY ReplyFields DEF Init, BilledInv
<1>4. AnswerInv /\ BilledInv /\ [Next]_vars => BilledInv'
  BY BilledStep DEF AnswerInv
<1>5. AnswerInv /\ WroteInv /\ BilledInv => AnswerProvenance
  <2> SUFFICES ASSUME AnswerInv, WroteInv, BilledInv, NEW r \in Requests,
                      reply[r].kind \in {"hit", "fresh"}
               PROVE  /\ reply[r].by \in Generated
                      /\ Norm[ask[reply[r].by].query] = Norm[ask[r].query]
                      /\ reply[r].model = Decide(ask[r].query)
                      /\ reply[r].model = Wrote(reply[r].by)
                      /\ reply[r].text = reply[reply[r].by].text
                      /\ reply[r].billed = IF reply[r].kind = "fresh"
                                              THEN <<Wrote(reply[r].by)>> ELSE <<>>
                      /\ reply[r].kind = "fresh" => reply[r].by = r
    BY DEF AnswerProvenance
  <2>1. /\ reply[r].by \in Generated
        /\ Norm[ask[reply[r].by].query] = Norm[ask[r].query]
        /\ reply[r].model = Decide(ask[r].query)
        /\ reply[r].text = reply[reply[r].by].text
        /\ reply[r].kind = "fresh" => reply[r].by = r
    BY DEF AnswerInv, Answers, Sourced
  <2>2. Decide(ask[reply[r].by].query) = Decide(ask[r].query)
    BY <2>1 DEF Decide
  <2>3. Wrote(reply[r].by) = Decide(ask[reply[r].by].query)
    BY <2>1 DEF WroteInv, Generated
  <2>4. Wrote(reply[r].by) = reply[r].model
    BY <2>1, <2>2, <2>3
  <2>5. reply[r].billed = IF reply[r].kind = "fresh" THEN <<reply[r].model>> ELSE <<>>
    BY DEF BilledInv
  <2> QED BY <2>1, <2>4, <2>5
<1> QED BY <1>1, <1>2, <1>3, <1>4, <1>5, AnswerInvariant, PTL DEF Spec

\* No answer completed before an ingestion is served from the cache to a request that
\* arrived after that ingestion was acknowledged (pipeline.py:238-240).
THEOREM HitsPostdateIngestsHolds == Spec => []HitsPostdateIngests
  BY AnswerInvariant, PTL DEF AnswerInv, Answers

\* No answer older than the TTL is served from the cache (cache.py:13-15).
THEOREM HitWithinTTLHolds == Spec => []HitWithinTTL
  BY AnswerInvariant, PTL DEF AnswerInv, Answers

-----------------------------------------------------------------------------
(* What an answer could draw on.  The store only grows, so what was acknowledged when
   a request arrived is still there when it searches. *)

FreshInv ==
    /\ \A r \in Requests : born[r] \subseteq StoredJobs
    /\ FreshReflectsAcknowledged

LEMMA FreshInvStep ==
    ASSUME TypeOK, ReplySound, StoreSound, FreshInv, [Next]_vars
    PROVE  FreshInv'
<1> SUFFICES ASSUME NEW r \in Requests
             PROVE  /\ born'[r] \subseteq StoredJobs'
                    /\ pc'[r] \in {"answer", "finish"} \/ reply'[r].kind = "fresh" =>
                          born'[r] \subseteq seen'[r]
  BY DEF FreshInv, FreshReflectsAcknowledged
<1>1. StoredJobs \subseteq StoredJobs' /\ Acknowledged \subseteq StoredJobs
  BY StoreGrows DEF Acknowledged, StoreSound
<1>2. /\ born[r] \subseteq StoredJobs
      /\ pc[r] \in {"answer", "finish"} \/ reply[r].kind = "fresh" => born[r] \subseteq seen[r]
      /\ reply[r].kind = "none" <=> pc[r] # "done"
  BY DEF FreshInv, FreshReflectsAcknowledged, ReplySound
<1>3. /\ pc \in [Requests -> PCs] /\ reply \in [Requests -> Replies]
      /\ born \in [Requests -> SUBSET Ingests] /\ seen \in [Requests -> SUBSET Ingests]
  BY DEF TypeOK
<1>4. CASE UNCHANGED <<pc[r], reply[r], born[r], seen[r]>>
  BY <1>1, <1>2, <1>4
<1>5. CASE RejectInput(r)
  BY <1>1, <1>3, <1>5, UnservedReply DEF RejectInput, Arrives
<1>6. CASE ServeCached(r)
  BY <1>1, <1>3, <1>6, CachedReply
<1>7. CASE EnterGraph(r)
  BY <1>1, <1>2, <1>3, <1>7 DEF EnterGraph, Arrives
<1>8. CASE Rewrite(r)
  <2>1. chunks = <<>> => StoredJobs = {}
    BY DEF StoredJobs
  <2>2. UNCHANGED <<reply, born, seen>> /\ (pc'[r] = "answer" => chunks = <<>>)
        /\ pc'[r] \in {"embed", "answer"} /\ pc[r] # "done"
    BY <1>3, <1>8 DEF Rewrite, noteVars
  <2> QED BY <1>1, <1>2, <2>1, <2>2
<1>9. CASE Retrieve(r)
  <2>1. UNCHANGED <<reply, born>> /\ seen'[r] = StoredJobs
    BY <1>3, <1>9 DEF Retrieve
  <2> QED BY <1>1, <1>2, <2>1
<1>10. CASE Answer(r)
  <2>1. UNCHANGED <<reply, born, seen>> /\ pc[r] = "answer"
    BY <1>10 DEF Answer, noteVars
  <2> QED BY <1>1, <1>2, <2>1
<1>11. CASE Finish(r)
  <2>1. UNCHANGED <<born, seen>> /\ pc[r] = "finish"
    BY <1>11 DEF Finish
  <2> QED BY <1>1, <1>2, <2>1
<1>12. CASE ProviderFails(r)
  <2>1. UNCHANGED <<born, seen>>
    BY <1>12 DEF ProviderFails, noteVars
  <2> QED BY <1>1, <1>2, <1>12, <2>1, UnservedReply
<1>13. \/ UNCHANGED <<pc[r], reply[r], born[r], seen[r]>>
       \/ Begin(r) \/ Proceed(r)
  BY <1>3, OtherRequestsStay
<1> QED BY <1>4, <1>5, <1>6, <1>7, <1>8, <1>9, <1>10, <1>11, <1>12, <1>13 DEF Begin, Proceed

\* A generated answer could draw on every document whose ingestion had been acknowledged
\* when its request arrived (retriever.py:32-57).
THEOREM FreshReflectsHolds == Spec => []FreshReflectsAcknowledged
<1>1. Init => FreshInv
  <2> SUFFICES ASSUME Init PROVE FreshInv
    OBVIOUS
  <2>1. \A r \in Requests : reply[r].kind = "none"
    BY ReplyFields DEF Init
  <2> QED BY <2>1 DEF Init, FreshInv, FreshReflectsAcknowledged
<1>2. AnswerInv /\ FreshInv /\ [Next]_vars => FreshInv'
  BY FreshInvStep DEF AnswerInv
<1>3. FreshInv => FreshReflectsAcknowledged
  BY DEF FreshInv
<1> QED BY <1>1, <1>2, <1>3, AnswerInvariant, PTL DEF Spec

-----------------------------------------------------------------------------
(* What the cache must hold.  CacheSound says that what it holds is good; that it holds
   what it could is the converse: of the answers completed since the last ingestion, a
   key has the newest or one as new, until it expires. *)

\* Whose documents are in the store is done, and an answer was completed after
\* ingestions that are still stored.
StoredOnce ==
    /\ \A i \in StoredJobs : ing[i] = "done"
    /\ \A f \in Generated : ended[f] \subseteq StoredJobs

CacheComplete ==
    \A f \in Generated :
        ended[f] = StoredJobs /\ now - reply[f].at <= TTL =>
            LET k == Key(ask[f].query) IN
            k \in DOMAIN cache /\ reply[f].at <= cache[k].created

\* An ingestion that stores its documents had none in the store.
LEMMA StoreIsNew ==
    ASSUME TypeOK, StoreSound, StoredOnce, NEW i \in Ingests, StoreAndClear(i)
    PROVE  i \notin StoredJobs /\ StoredJobs' = StoredJobs \cup {i}
<1>1. /\ chunks \in Seq(Ingests) /\ Docs[i] \in Nat /\ Docs[i] > 0
      /\ [d \in 1..Docs[i] |-> i] \in Seq(Ingests)
      /\ chunks' = chunks \o [d \in 1..Docs[i] |-> i]
  BY PipelineAssumption, BatchType
     DEF StoreAndClear, AddDocuments, TypeOK, StoreTypeOK, StoreSound
<1>2. /\ DOMAIN chunks = 1..Len(chunks) /\ DOMAIN chunks' = 1..Len(chunks')
      /\ Len(chunks) \in Nat /\ Len(chunks') = Len(chunks) + Docs[i]
      /\ \A c \in 1..Len(chunks') : chunks'[c] = IF c <= Len(chunks) THEN chunks[c] ELSE i
  BY <1>1, ConcatProperties, LenProperties
<1>3. Len(chunks) + 1 \in 1..Len(chunks') /\ chunks'[Len(chunks) + 1] = i
  BY <1>1, <1>2
<1>4. StoredJobs' \subseteq StoredJobs \cup {i}
  BY <1>2 DEF StoredJobs
<1>5. StoredJobs \subseteq StoredJobs'
  <2>1. \A c \in 1..Len(chunks) : c \in 1..Len(chunks') /\ chunks'[c] = chunks[c]
    BY <1>1, <1>2
  <2> QED BY <1>2, <2>1 DEF StoredJobs
<1>6. i \in StoredJobs'
  BY <1>2, <1>3 DEF StoredJobs
<1>7. i \notin StoredJobs
  BY DEF StoredOnce, StoreAndClear
<1> QED BY <1>4, <1>5, <1>6, <1>7

LEMMA StoredAreIngests == ASSUME TypeOK PROVE StoredJobs \subseteq Ingests
<1>1. chunks \in Seq(Ingests)
  BY DEF TypeOK, StoreTypeOK
<1>2. \A c \in DOMAIN chunks : chunks[c] \in Ingests
  BY <1>1, LenProperties, ElementOfSeq
<1> QED BY <1>2 DEF StoredJobs

\* Only an ingestion changes the store.
LEMMA StoreStays ==
    ASSUME [Next]_vars, ~ \E i \in Ingests : StoreAndClear(i)
    PROVE  StoredJobs' = StoredJobs
<1>1. chunks' = chunks
  BY DEF Next, Begin, RejectInput, ServeCached, EnterGraph, Proceed, Rewrite, Retrieve,
         Answer, Finish, ProviderFails, IngestNothing, StartIngest, ProceedIngest,
         IngestFails, Tick, vars
<1> QED BY <1>1 DEF StoredJobs

\* An entry goes for three reasons only: a newer answer, its age, an ingestion.
LEMMA EntrySteps ==
    ASSUME [Next]_vars, TypeOK, NEW k \in DOMAIN cache,
           ~ \E i \in Ingests : StoreAndClear(i), ~ Expired(k)
    PROVE  k \in DOMAIN cache' /\ (cache'[k] = cache[k] \/ cache'[k].created = now)
<1>1. CASE \E r \in Requests : Begin(r)
  BY <1>1 DEF Begin, RejectInput, ServeCached, EnterGraph, CacheGetHit, CacheGetMiss, Holds,
              cacheVars
<1>2. CASE \E r \in Requests : Proceed(r)
  BY <1>2 DEF Proceed, Rewrite, Retrieve, Answer, ProviderFails, Finish, CacheSet, cacheVars
<1>3. CASE \E i \in Ingests : IngestNothing(i) \/ StartIngest(i) \/ IngestFails(i)
  BY <1>3 DEF IngestNothing, StartIngest, IngestFails, cacheVars
<1>4. CASE Tick \/ UNCHANGED vars
  BY <1>4 DEF Tick, ClockTick, vars, cacheVars
<1> QED BY <1>1, <1>2, <1>3, <1>4 DEF Next, ProceedIngest

LEMMA StoredOnceStep ==
    ASSUME AnswerInv, StoredOnce, [Next]_vars
    PROVE  StoredOnce'
<1>1. TypeOK /\ StoreSound /\ ReplySound
  BY DEF AnswerInv
<1>2. ASSUME NEW i \in StoredJobs' PROVE ing'[i] = "done"
  <2>1. CASE \E j \in Ingests : StoreAndClear(j)
    <3>1. PICK j \in Ingests : StoreAndClear(j)
      BY <2>1
    <3>2. ing' = [ing EXCEPT ![j] = "done"]
      BY <3>1 DEF StoreAndClear
    <3>3. i = j \/ i \in StoredJobs
      BY <1>1, <3>1, StoreIsNew
    <3> QED BY <1>1, <3>2, <3>3 DEF StoredOnce, TypeOK
  <2>2. CASE ~ \E j \in Ingests : StoreAndClear(j)
    <3>1. ing[i] = "done"
      BY <2>2, StoreStays DEF StoredOnce
    <3>2. ing' = ing \/ \E j \in Ingests : IngestNothing(j) \/ StartIngest(j) \/ IngestFails(j)
      BY <2>2 DEF Next, Begin, RejectInput, ServeCached, EnterGraph, Proceed, Rewrite, Retrieve,
                  Answer, Finish, ProviderFails, ProceedIngest, Tick, vars
    <3>3. ASSUME NEW j \in Ingests, IngestNothing(j) \/ StartIngest(j) \/ IngestFails(j)
          PROVE  ing'[i] = ing[i]
      <4>1. ing[j] # "done" /\ \E step : ing' = [ing EXCEPT ![j] = step]
        BY <3>3 DEF IngestNothing, StartIngest, IngestFails
      <4>2. i \in Ingests
        BY <1>1, <2>2, StoreStays, StoredAreIngests
      <4>3. ing \in [Ingests -> {"new", "nothing", "embed", "done", "failed"}]
        BY <1>1 DEF TypeOK
      <4> QED BY <3>1, <4>1, <4>2, <4>3
    <3> QED BY <3>1, <3>2, <3>3
  <2> QED BY <2>1, <2>2
<1>3. ASSUME NEW f \in Generated' PROVE ended'[f] \subseteq StoredJobs'
  <2>1. StoredJobs \subseteq StoredJobs'
    BY <1>1, StoreGrows
  <2>2. CASE f \in Generated
    BY <1>1, <2>1, <2>2, GeneratedStay DEF StoredOnce
  <2>3. CASE f \notin Generated
    <3>1. Finish(f)
      BY <2>3, GeneratedSteps
    <3>2. ended'[f] = StoredJobs
      BY <1>1, <3>1 DEF Finish, TypeOK, Generated
    <3> QED BY <2>1, <3>2
  <2> QED BY <2>2, <2>3
<1> QED BY <1>2, <1>3 DEF StoredOnce

LEMMA CacheCompleteStep ==
    ASSUME AnswerInv, StoredOnce, CacheComplete, [Next]_vars
    PROVE  CacheComplete'
<1>1. /\ TypeOK /\ StoreSound /\ ReplySound /\ ask' = ask
      /\ now \in Nat /\ now' \in Nat /\ now <= now' /\ TTL \in Nat
  BY AnsweredStay, CacheAssumption DEF AnswerInv
<1> SUFFICES ASSUME NEW f \in Generated', ended'[f] = StoredJobs', now' - reply'[f].at <= TTL
             PROVE  LET k == Key(ask[f].query) IN
                    k \in DOMAIN cache' /\ reply'[f].at <= cache'[k].created
  BY <1>1 DEF CacheComplete, Key, Decide
<1> DEFINE k == Key(ask[f].query)
<1>2. CASE f \notin Generated
  <2>1. Finish(f)
    BY <1>2, GeneratedSteps
  <2>2. reply'[f].at = now /\ k \in DOMAIN cache' /\ cache'[k].created = now
    BY <1>1, <2>1, ReplyFields DEF Finish, CacheSet, TypeOK, Generated
  <2> QED BY <1>1, <2>2
<1>3. CASE f \in Generated
  <2>1. reply'[f] = reply[f] /\ ended'[f] = ended[f] /\ reply[f].at \in Nat
    BY <1>1, <1>3, GeneratedStay DEF TypeOK, Replies, Generated
  <2>2. ~ \E i \in Ingests : StoreAndClear(i)
    BY <1>1, <1>3, <2>1, StoreIsNew DEF StoredOnce
  <2>3. ended[f] = StoredJobs /\ now - reply[f].at <= TTL
    BY <1>1, <2>1, <2>2, StoreStays
  <2>4. k \in DOMAIN cache /\ reply[f].at <= cache[k].created
    BY <1>3, <2>3 DEF CacheComplete
  <2>5. cache[k].created \in Nat
    BY <1>1, <2>4 DEF TypeOK, CacheTypeOK, CacheEntry
  <2>6. ~ Expired(k)
    BY <1>1, <2>1, <2>3, <2>4, <2>5 DEF Expired
  <2>7. k \in DOMAIN cache' /\ (cache'[k] = cache[k] \/ cache'[k].created = now)
    BY <1>1, <2>2, <2>4, <2>6, EntrySteps
  <2>8. reply[f].at <= now
    BY <1>3 DEF AnswerInv, ReplySound, Generated
  <2> QED BY <2>1, <2>4, <2>7, <2>8
<1> QED BY <1>2, <1>3

\* A request is sent to the model only if no answer to its question is fresh enough.
LEMMA EntryIsNeeded ==
    ASSUME AnswerInv, CacheComplete, [Next]_vars,
           NEW r \in Requests, pc[r] = "new", pc'[r] = "rewrite", NEW f \in Generated,
           Norm[ask[f].query] = Norm[ask[r].query], ended[f] = StoredJobs,
           now - reply[f].at <= TTL
    PROVE  FALSE
<1> DEFINE k == Key(ask[r].query)
<1>1. /\ TypeOK /\ now \in Nat /\ TTL \in Nat /\ reply[f].at \in Nat
      /\ pc \in [Requests -> PCs]
  BY CacheAssumption DEF AnswerInv, TypeOK, CacheTypeOK, Generated, Replies
<1>2. EnterGraph(r)
  <2>1. ~ (RejectInput(r) \/ ServeCached(r) \/ Proceed(r))
    BY <1>1 DEF RejectInput, ServeCached, Proceed, Rewrite, Retrieve, Answer, Finish,
                ProviderFails
  <2> QED BY <1>1, <2>1, OtherRequestsStay DEF Begin
<1>3. ~ Holds(k)
  BY <1>2 DEF EnterGraph, CacheGetMiss
<1>4. k = Key(ask[f].query)
  BY DEF Key, Decide
<1>5. k \in DOMAIN cache /\ reply[f].at <= cache[k].created
  BY <1>4 DEF CacheComplete
<1>6. cache[k].created \in Nat
  BY <1>1, <1>5 DEF TypeOK, CacheTypeOK, CacheEntry
<1> QED BY <1>1, <1>3, <1>5, <1>6 DEF Holds, Expired

\* No request pays for a generation while an answer to its question, young enough and
\* completed since the last ingestion, exists (pipeline.py:100).
THEOREM NoNeedlessGenerationHolds == Spec => NoNeedlessGeneration
<1>1. Init => StoredOnce /\ CacheComplete
  <2> SUFFICES ASSUME Init PROVE StoredOnce /\ CacheComplete
    OBVIOUS
  <2>1. StoredJobs = {}
    BY DEF Init, StoreInit, StoredJobs
  <2>2. Generated = {}
    BY ReplyFields DEF Init, Generated
  <2> QED BY <2>1, <2>2 DEF StoredOnce, CacheComplete
<1>2. AnswerInv /\ StoredOnce /\ CacheComplete /\ [Next]_vars => (StoredOnce /\ CacheComplete)'
  BY StoredOnceStep, CacheCompleteStep
<1>3. AnswerInv /\ CacheComplete /\ [Next]_vars =>
        [\A r \in Requests : pc[r] = "new" /\ pc'[r] = "rewrite" =>
            ~ \E f \in Generated :
                  /\ Norm[ask[f].query] = Norm[ask[r].query]
                  /\ ended[f] = StoredJobs
                  /\ now - reply[f].at <= TTL]_vars
  BY EntryIsNeeded
<1> QED BY <1>1, <1>2, <1>3, AnswerInvariant, PTL DEF Spec, NoNeedlessGeneration

-----------------------------------------------------------------------------
(* The counters of the cache.  The requests may be infinitely many: those that have been
   counted are finitely many at any moment. *)

Served == {r \in Requests : reply[r].kind = "hit"}

Sent == InGraph \cup {r \in Requests : reply[r].kind \in {"fresh", "error"}}

CountInv ==
    /\ IsFiniteSet(Served) /\ IsFiniteSet(Sent)
    /\ CountersAgree

\* A request is served from the cache, or sent to the model, by one step of its own.
LEMMA CountedSteps ==
    ASSUME TypeOK, ReplySound, [Next]_vars, NEW r \in Requests
    PROVE  /\ r \in Served' <=> r \in Served \/ ServeCached(r)
           /\ r \in Sent' <=> r \in Sent \/ EnterGraph(r)
<1> USE DEF Served, Sent, InGraph
<1>1. pc \in [Requests -> PCs] /\ reply \in [Requests -> Replies]
  BY DEF TypeOK
<1>2. reply[r].kind = "none" <=> pc[r] # "done"
  BY DEF ReplySound
<1>3. CASE RejectInput(r)
  <2>1. reply'[r].kind = "blocked" /\ pc'[r] = "done" /\ pc[r] = "new"
    BY <1>1, <1>3, ReplyFields DEF RejectInput, Arrives
  <2>2. ~ EnterGraph(r) /\ ~ ServeCached(r)
    BY <1>1, <1>3, <2>1, CachedReply DEF EnterGraph
  <2> QED BY <1>2, <2>1, <2>2
<1>4. CASE ServeCached(r)
  <2>1. reply'[r].kind = "hit" /\ pc'[r] = "done" /\ pc[r] = "new"
    BY <1>4, CachedReply DEF ServeCached, Arrives
  <2>2. ~ EnterGraph(r)
    BY <1>1, <2>1 DEF EnterGraph
  <2> QED BY <1>2, <1>4, <2>1, <2>2
<1>5. CASE EnterGraph(r)
  <2>1. reply'[r] = reply[r] /\ pc'[r] = "rewrite" /\ pc[r] = "new"
    BY <1>1, <1>5 DEF EnterGraph, Arrives
  <2>2. ~ ServeCached(r)
    BY <2>1, CachedReply
  <2> QED BY <1>2, <1>5, <2>1, <2>2
<1>6. CASE Rewrite(r) \/ Retrieve(r) \/ Answer(r)
  <2>1. /\ reply'[r] = reply[r]
        /\ pc[r] \in {"rewrite", "embed", "answer"}
        /\ pc'[r] \in {"embed", "answer", "finish"}
    BY <1>1, <1>6 DEF Rewrite, Retrieve, Answer
  <2>2. ~ EnterGraph(r) /\ ~ ServeCached(r)
    BY <2>1 DEF EnterGraph, ServeCached, Arrives
  <2> QED BY <1>2, <2>1, <2>2
<1>7. CASE Finish(r)
  <2>1. reply'[r].kind = "fresh" /\ pc'[r] = "done" /\ pc[r] = "finish"
    BY <1>7, FreshReply DEF Finish
  <2>2. ~ EnterGraph(r) /\ ~ ServeCached(r)
    BY <2>1 DEF EnterGraph, ServeCached, Arrives
  <2> QED BY <1>2, <2>1, <2>2
<1>8. CASE ProviderFails(r)
  <2>1. /\ reply'[r].kind = "error" /\ pc'[r] = "done"
        /\ pc[r] \in {"rewrite", "embed", "answer"}
    BY <1>1, <1>8, ReplyFields DEF ProviderFails
  <2>2. ~ EnterGraph(r) /\ ~ ServeCached(r)
    BY <2>1 DEF EnterGraph, ServeCached, Arrives
  <2> QED BY <1>2, <2>1, <2>2
<1>9. CASE ~ (Begin(r) \/ Proceed(r))
  <2>1. UNCHANGED <<pc[r], reply[r]>>
    BY <1>9, OtherRequestsStay
  <2> QED BY <1>9, <2>1 DEF Begin
<1> QED BY <1>3, <1>4, <1>5, <1>6, <1>7, <1>8, <1>9 DEF Begin, Proceed

\* Each such step moves one counter, and no other step moves any.
LEMMA CounterSteps ==
    ASSUME TypeOK, [Next]_vars
    PROVE  \/ \E r \in Requests :
                /\ \A q \in Requests : ServeCached(q) <=> q = r
                /\ \A q \in Requests : ~ EnterGraph(q)
                /\ hits' = hits + 1 /\ misses' = misses
           \/ \E r \in Requests :
                /\ \A q \in Requests : EnterGraph(q) <=> q = r
                /\ \A q \in Requests : ~ ServeCached(q)
                /\ hits' = hits /\ misses' = misses + 1
           \/ /\ \A q \in Requests : ~ ServeCached(q) /\ ~ EnterGraph(q)
              /\ hits' = hits /\ misses' = misses
<1>1. pc \in [Requests -> PCs] /\ hits \in Nat /\ misses \in Nat
  BY DEF TypeOK, CacheTypeOK
<1>2. ASSUME NEW r \in Requests, ServeCached(r)
      PROVE  /\ pc[r] = "new" /\ pc' = [pc EXCEPT ![r] = "done"]
             /\ hits' = hits + 1 /\ misses' = misses
  BY <1>2 DEF ServeCached, Arrives, CacheGetHit
<1>3. ASSUME NEW r \in Requests, EnterGraph(r)
      PROVE  /\ pc[r] = "new" /\ pc' = [pc EXCEPT ![r] = "rewrite"]
             /\ hits' = hits /\ misses' = misses + 1
  BY <1>3 DEF EnterGraph, Arrives, CacheGetMiss
<1>4. CASE \E r \in Requests : ServeCached(r)
  BY <1>1, <1>2, <1>3, <1>4
<1>5. CASE \E r \in Requests : EnterGraph(r)
  BY <1>1, <1>2, <1>3, <1>5
<1>6. CASE \A q \in Requests : ~ ServeCached(q) /\ ~ EnterGraph(q)
  <2>1. hits' = hits /\ misses' = misses
    BY <1>6 DEF Next, Begin, RejectInput, Proceed, Rewrite, Retrieve, Answer, Finish,
                ProviderFails, CacheSet, IngestNothing, StartIngest, ProceedIngest, StoreAndClear,
                IngestFails, CacheClear, Tick, ClockTick, vars, cacheVars
  <2> QED BY <1>6, <2>1
<1> QED BY <1>4, <1>5, <1>6

LEMMA CountStep ==
    ASSUME TypeOK, ReplySound, CountInv, [Next]_vars
    PROVE  CountInv'
<1>1. \A q \in Requests : /\ q \in Served' <=> q \in Served \/ ServeCached(q)
                          /\ q \in Sent' <=> q \in Sent \/ EnterGraph(q)
  BY CountedSteps
<1>2. \A q \in Requests : pc[q] = "new" => q \notin Served /\ q \notin Sent
  BY DEF Served, Sent, InGraph, ReplySound
<1>3. /\ Served \subseteq Requests /\ Served' \subseteq Requests
      /\ Sent \subseteq Requests /\ Sent' \subseteq Requests
  BY DEF Served, Sent, InGraph
<1>4. /\ IsFiniteSet(Served) /\ hits = Cardinality(Served)
      /\ IsFiniteSet(Sent) /\ misses = Cardinality(Sent)
  BY DEF CountInv, CountersAgree, Served, Sent
<1>5. CASE \E r \in Requests :
              /\ \A q \in Requests : ServeCached(q) <=> q = r
              /\ \A q \in Requests : ~ EnterGraph(q)
              /\ hits' = hits + 1 /\ misses' = misses
  <2>1. PICK r \in Requests : /\ \A q \in Requests : ServeCached(q) <=> q = r
                              /\ \A q \in Requests : ~ EnterGraph(q)
                              /\ hits' = hits + 1 /\ misses' = misses
    BY <1>5
  <2>2. pc[r] = "new"
    BY <2>1 DEF ServeCached, Arrives
  <2>3. Served' = Served \cup {r} /\ r \notin Served /\ Sent' = Sent
    BY <1>1, <1>2, <1>3, <2>1, <2>2
  <2>4. IsFiniteSet(Served') /\ Cardinality(Served') = Cardinality(Served) + 1
    BY <1>4, <2>3, FS_AddElement
  <2> QED BY <1>4, <2>1, <2>3, <2>4 DEF CountInv, CountersAgree, Served, Sent
<1>6. CASE \E r \in Requests :
              /\ \A q \in Requests : EnterGraph(q) <=> q = r
              /\ \A q \in Requests : ~ ServeCached(q)
              /\ hits' = hits /\ misses' = misses + 1
  <2>1. PICK r \in Requests : /\ \A q \in Requests : EnterGraph(q) <=> q = r
                              /\ \A q \in Requests : ~ ServeCached(q)
                              /\ hits' = hits /\ misses' = misses + 1
    BY <1>6
  <2>2. pc[r] = "new"
    BY <2>1 DEF EnterGraph, Arrives
  <2>3. Sent' = Sent \cup {r} /\ r \notin Sent /\ Served' = Served
    BY <1>1, <1>2, <1>3, <2>1, <2>2
  <2>4. IsFiniteSet(Sent') /\ Cardinality(Sent') = Cardinality(Sent) + 1
    BY <1>4, <2>3, FS_AddElement
  <2> QED BY <1>4, <2>1, <2>3, <2>4 DEF CountInv, CountersAgree, Served, Sent
<1>7. CASE /\ \A q \in Requests : ~ ServeCached(q) /\ ~ EnterGraph(q)
           /\ hits' = hits /\ misses' = misses
  <2>1. Served' = Served /\ Sent' = Sent
    BY <1>1, <1>3, <1>7
  <2> QED BY <1>4, <1>7, <2>1 DEF CountInv, CountersAgree, Served, Sent
<1> QED BY <1>5, <1>6, <1>7, CounterSteps

\* The counters behind GET /v1/cache/stats count requests: those served from the cache
\* and those sent to the model (cache.py:34-63).
THEOREM CountersAgreeHolds == Spec => []CountersAgree
<1>1. Init => CountInv
  <2> SUFFICES ASSUME Init PROVE CountInv
    OBVIOUS
  <2>1. \A r \in Requests : reply[r].kind = "none" /\ pc[r] = "new"
    BY ReplyFields DEF Init
  <2>2. Served = {} /\ Sent = {}
    BY <2>1 DEF Served, Sent, InGraph
  <2>3. hits = 0 /\ misses = 0
    BY DEF Init, CacheInit
  <2> QED BY <2>2, <2>3, FS_EmptySet DEF CountInv, CountersAgree, Served, Sent
<1>2. AnswerInv /\ CountInv /\ [Next]_vars => CountInv'
  BY CountStep DEF AnswerInv
<1>3. CountInv => CountersAgree
  BY DEF CountInv
<1> QED BY <1>1, <1>2, <1>3, AnswerInvariant, PTL DEF Spec
=============================================================================
