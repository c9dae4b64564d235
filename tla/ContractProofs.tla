--------------------------- MODULE ContractProofs ---------------------------
EXTENDS MemoryProofs

(* AgentPipeline implements ChatContract.

   An action of the pipeline is one step of the contract or none: a request's outcome
   appears in RejectInput, ServeCached, Finish and ProviderFails, an ingestion is learnt in
   StoreAndClear, and what the cache drops in EnterGraph is forgotten.  ServeCached needs
   what AnswerProofs knows of the cache, that an entry repeats the reply of its own
   request; Finish needs that a deque holds whole turns. *)

\* The deque after the two appends of a turn is the newest MaxTurns turns.
LEMMA PairIsNewest ==
    ASSUME NEW T, NEW turns \in Seq(T), Len(turns) <= MaxTurns, Len(turns) % 2 = 0,
           NEW t \in T, NEW u \in T
    PROVE  Pushed(Pushed(turns, t), u) = Contract!Newest(turns \o <<t, u>>)
<1> DEFINE all == turns \o <<t, u>>
           new == Pushed(Pushed(turns, t), u)
           last == SubSeq(all, Len(all) - MaxTurns + 1, Len(all))
<1>1. MaxTurns \in Nat /\ MaxTurns >= 2 /\ Len(turns) \in Nat
  BY MemoryAssumption, LenProperties
<1>2. /\ all \in Seq(T) /\ Len(all) = Len(turns) + 2
      /\ \A n \in 1..Len(turns) : all[n] = turns[n]
      /\ all[Len(turns) + 1] = t /\ all[Len(turns) + 2] = u
  <2>1. <<t, u>> \in Seq(T) /\ Len(<<t, u>>) = 2 /\ <<t, u>>[1] = t /\ <<t, u>>[2] = u
    OBVIOUS
  <2> QED BY <1>1, <2>1, ConcatProperties
<1>3. new \in Seq(T) /\ Len(new) <= MaxTurns
  BY PairType
<1>4. Contract!Newest(all) = IF Len(all) <= MaxTurns THEN all ELSE last
  BY DEF Contract!Newest
<1>5. CASE Len(turns) < MaxTurns
  <2>1. Shifted(turns, new, 0, t, u)
    BY <1>5, PairRoom
  <2> HIDE DEF new, all, last
  <2>2. Len(new) = Len(turns) + 2
    BY <1>1, <2>1 DEF Shifted
  <2>3. \A n \in 1..Len(new) : new[n] = all[n]
    BY <1>1, <1>2, <2>1, <2>2 DEF Shifted
  <2>4. new = all
    BY <1>2, <1>3, <2>2, <2>3, SeqEqual
  <2>5. Contract!Newest(all) = new
    BY <1>2, <1>3, <1>4, <2>2, <2>4
  <2> QED BY <2>5 DEF new, all
<1>6. CASE Len(turns) = MaxTurns
  <2>1. Shifted(turns, new, 2, t, u)
    BY <1>6, PairFull
  <2>2. /\ last \in Seq(T) /\ Len(last) = MaxTurns
        /\ \A n \in 1..MaxTurns : last[n] = all[n + 2]
    <3>1. 3 \in 1..Len(all) + 1 /\ Len(all) \in 3 - 1..Len(all)
          /\ Len(all) - MaxTurns + 1 = 3
      BY <1>1, <1>2, <1>6
    <3> HIDE DEF all
    <3>2. /\ SubSeq(all, 3, Len(all)) \in Seq(T)
          /\ Len(SubSeq(all, 3, Len(all))) = Len(all) - 3 + 1
          /\ \A n \in 1..(Len(all) - 3 + 1) : SubSeq(all, 3, Len(all))[n] = all[3 + n - 1]
      BY <1>1, <1>2, <1>6, <3>1, SubSeqProperties
    <3>3. last = SubSeq(all, 3, Len(all)) /\ Len(all) - 3 + 1 = MaxTurns
      BY <1>1, <1>2, <1>6, <3>1
    <3> HIDE DEF last
    <3> QED BY <1>1, <3>2, <3>3
  <2> HIDE DEF new, all, last
  <2>3. Len(new) = MaxTurns
    BY <1>1, <1>6, <2>1 DEF Shifted
  <2>4. \A n \in 1..Len(new) : new[n] = last[n]
    BY <1>1, <1>2, <1>6, <2>1, <2>2, <2>3 DEF Shifted
  <2>5. new = last
    BY <1>3, <2>2, <2>3, <2>4, SeqEqual
  <2>6. Contract!Newest(all) = new
    BY <1>1, <1>2, <1>4, <1>6, <2>5
  <2> QED BY <2>6 DEF new, all
<1> QED BY <1>1, <1>5, <1>6

-----------------------------------------------------------------------------
(* Steps. *)

\* The contract's view of the replies and of the cache.
OutcomeOf(replies) ==
    [r \in Requests |-> [kind |-> replies[r].kind, by |-> replies[r].by, text |-> replies[r].text]]

PoolOf(entries) == {entries[k].value.by : k \in DOMAIN entries}

TopicOf == [q \in Queries |-> Key(q)]

\* A new reply is a new outcome, of its request only.
LEMMA OutcomeStep ==
    ASSUME TypeOK, NEW r \in Requests, NEW kind, NEW value, NEW billed,
           reply' = [reply EXCEPT ![r] = Reply(kind, value, billed)]
    PROVE  OutcomeOf(reply') =
              [OutcomeOf(reply) EXCEPT ![r] = Contract!Outcome(kind, value.by, value.text)]
<1>1. reply \in [Requests -> Replies]
  BY DEF TypeOK
<1> DEFINE new == Reply(kind, value, billed)
<1>2. new.kind = kind /\ new.by = value.by /\ new.text = value.text
  BY ReplyFields
<1> HIDE DEF new
<1>3. \A x \in Requests : reply'[x] = IF x = r THEN new ELSE reply[x]
  BY <1>1 DEF new
<1> QED BY <1>2, <1>3 DEF OutcomeOf, Contract!Outcome

\* A request that has a coroutine, or will have one, has no outcome.
LEMMA OpenRequests ==
    ASSUME AnswerInv, NEW r \in Requests, pc[r] # "done"
    PROVE  OutcomeOf(reply)[r].kind = "none"
  BY DEF AnswerInv, ReplySound, OutcomeOf

\* A blocked or failed request is refused.
LEMMA RefusalRefines ==
    ASSUME AnswerInv, NEW r \in Requests, RejectInput(r) \/ ProviderFails(r)
    PROVE  Contract!Refuse(r)
<1>1. TypeOK /\ pc[r] # "done"
  BY DEF AnswerInv, RejectInput, ProviderFails, Arrives
<1>2. PICK kind \in {"blocked", "error"} :
         reply' = [reply EXCEPT ![r] = Reply(kind, NoAnswer(r), <<>>)]
  BY DEF RejectInput, ProviderFails
<1>3. OutcomeOf(reply') = [OutcomeOf(reply) EXCEPT ![r] = Contract!Outcome(kind, r, "none")]
  BY <1>1, <1>2, OutcomeStep DEF NoAnswer
<1>4. UNCHANGED <<ask, memory, cache, ing>>
  BY DEF RejectInput, ProviderFails, cacheVars
<1>5. Acknowledged' = Acknowledged
  BY <1>4 DEF Acknowledged
<1>6. Contract!Open(r)
  BY <1>1, OpenRequests DEF Contract!Open, OutcomeOf
<1> QED BY <1>3, <1>4, <1>5, <1>6 DEF Contract!Refuse, OutcomeOf

\* An answer from the cache is the answer its request was given.
LEMMA HitRefines ==
    ASSUME AnswerInv, NEW r \in Requests, ServeCached(r)
    PROVE  \E e \in Requests : Contract!Reuse(r, e)
<1> DEFINE k == Key(ask[r].query)
           v == cache[k].value
           e == v.by
<1>1. TypeOK /\ pc[r] # "done" /\ k \in DOMAIN cache
  BY DEF AnswerInv, ServeCached, Arrives, CacheGetHit, Holds
<1>2. e \in Requests /\ Key(ask[e].query) = k /\ v.text = reply[e].text /\ e \in PoolOf(cache)
  BY <1>1 DEF AnswerInv, CacheSound, Generated, PoolOf
<1>3. ask[r].query \in Queries /\ ask[e].query \in Queries
  BY <1>1, <1>2, RequestTypes
<1>4. reply' = [reply EXCEPT ![r] = Reply("hit", v, <<>>)]
      /\ UNCHANGED <<ask, memory, cache, ing>>
  BY DEF ServeCached, CacheGetHit
<1> HIDE DEF k, v
<1>5. OutcomeOf(reply') = [OutcomeOf(reply) EXCEPT ![r] = Contract!Outcome("hit", v.by, v.text)]
  BY <1>1, <1>4, OutcomeStep
<1>6. v.text = OutcomeOf(reply)[e].text
  BY <1>2 DEF OutcomeOf
<1>7. TopicOf[ask[e].query] = TopicOf[ask[r].query]
  BY <1>2, <1>3 DEF TopicOf, k
<1>8. Contract!Open(r)
  BY <1>1, OpenRequests DEF Contract!Open, OutcomeOf
<1>9. Acknowledged' = Acknowledged
  BY <1>4 DEF Acknowledged
<1>10. Contract!Reuse(r, e)
  BY <1>2, <1>4, <1>5, <1>6, <1>7, <1>8, <1>9 DEF Contract!Reuse, OutcomeOf, PoolOf, TopicOf
<1> QED BY <1>2, <1>10 DEF Contract!Reuse

\* A generated answer and its whole turn appear together.
LEMMA FinishRefines ==
    ASSUME AnswerInv, MemoryInv, NEW r \in Requests, Finish(r)
    PROVE  \E text \in {Sanitised(t) : t \in Texts} : Contract!Generate(r, text)
<1> DEFINE q == ask[r].query
           s == ask[r].session
           text == Sanitised(raw[r])
           value == [by |-> r, text |-> text, model |-> Decide(q)]
           t == UserTurn(r)
           u == AssistantTurn(r, text)
<1>1. TypeOK /\ pc[r] # "done"
  BY DEF AnswerInv, Finish
<1>2. raw[r] \in Texts /\ s \in Sessions /\ t \in Turns /\ u \in Turns
  <2>1. raw[r] \in Texts
    BY <1>1 DEF TypeOK
  <2> QED BY <1>1, <2>1, RequestTypes
<1>3. /\ reply' = [reply EXCEPT ![r] = Reply("fresh", value, <<value.model>>)]
      /\ memory' = [memory EXCEPT ![s] = Pushed(Pushed(@, t), u)]
      /\ CacheSet(Key(q), value)
      /\ UNCHANGED <<ask, ing>>
  BY DEF Finish, RememberPair
<1>4. OutcomeOf(reply') = [OutcomeOf(reply) EXCEPT ![r] = Contract!Outcome("fresh", r, text)]
  <2>1. value.by = r /\ value.text = text
    OBVIOUS
  <2> HIDE DEF value, text
  <2> QED BY <1>1, <1>3, <2>1, OutcomeStep
<1>5. Pushed(Pushed(memory[s], t), u) = Contract!Newest(memory[s] \o Contract!WholeTurn(r, text))
  <2>1. memory[s] \in Seq(Turns) /\ Len(memory[s]) <= MaxTurns /\ Len(memory[s]) % 2 = 0
    BY <1>1, <1>2 DEF TypeOK, MemoryTypeOK, MemoryInv, Remembers
  <2>2. Contract!WholeTurn(r, text) = <<t, u>>
    BY DEF Contract!WholeTurn, UserTurn, AssistantTurn
  <2> HIDE DEF t, u, text, s
  <2>3. Pushed(Pushed(memory[s], t), u) = Contract!Newest(memory[s] \o <<t, u>>)
    BY <1>2, <2>1, PairIsNewest
  <2> QED BY <2>2, <2>3
<1>6. PoolOf(cache') \in SUBSET (PoolOf(cache) \cup {r})
  <2>1. \A k \in DOMAIN cache' :
           (k \in DOMAIN cache /\ cache'[k] = cache[k]) \/ cache'[k].value.by = r
    BY <1>3 DEF CacheSet
  <2> QED BY <2>1 DEF PoolOf
<1>7. Acknowledged' = Acknowledged
  BY <1>3 DEF Acknowledged
<1>8. Contract!Open(r)
  BY <1>1, OpenRequests DEF Contract!Open, OutcomeOf
<1>9. memory' = [memory EXCEPT ![s] = Contract!Newest(memory[s] \o Contract!WholeTurn(r, text))]
  BY <1>3, <1>5
<1> HIDE DEF text, value, t, u
<1>10. Contract!Generate(r, text)
  BY <1>3, <1>4, <1>6, <1>7, <1>8, <1>9 DEF Contract!Generate, OutcomeOf, PoolOf
<1>11. text \in {Sanitised(x) : x \in Texts}
  BY <1>2 DEF text
<1> QED BY <1>10, <1>11 DEF Contract!Generate

\* What a lookup deletes is forgotten.
LEMMA LookupRefines ==
    ASSUME NEW r \in Requests, EnterGraph(r)
    PROVE  Contract!Forget
<1>1. UNCHANGED <<ask, reply, memory, ing>>
      /\ \A k \in DOMAIN cache' : k \in DOMAIN cache /\ cache'[k] = cache[k]
  BY DEF EnterGraph, CacheGetMiss
<1>2. PoolOf(cache') \in SUBSET PoolOf(cache)
  BY <1>1 DEF PoolOf
<1> QED BY <1>1, <1>2 DEF Contract!Forget, PoolOf, OutcomeOf, Acknowledged

\* An acknowledged ingestion is known, and empties the cache.
LEMMA IngestRefines ==
    ASSUME AnswerInv, NEW i \in Ingests, StoreAndClear(i)
    PROVE  Contract!Learn(i)
<1>1. ing \in [Ingests -> {"new", "nothing", "embed", "done", "failed"}]
  BY DEF AnswerInv, TypeOK
<1>2. ing[i] = "embed" /\ ing' = [ing EXCEPT ![i] = "done"]
      /\ UNCHANGED <<ask, reply, memory>> /\ DOMAIN cache' = {}
  BY DEF StoreAndClear, CacheClear, chatVars
<1>3. i \notin Acknowledged /\ Acknowledged' = Acknowledged \cup {i}
  BY <1>1, <1>2 DEF Acknowledged
<1>4. PoolOf(cache') = {}
  BY <1>2 DEF PoolOf
<1> QED BY <1>2, <1>3, <1>4 DEF Contract!Learn, PoolOf, OutcomeOf

\* Everything else is invisible to a client.
LEMMA OthersStutter ==
    ASSUME AnswerInv, [Next]_vars,
           ~ \E r \in Requests : Begin(r) \/ Finish(r) \/ ProviderFails(r),
           ~ \E i \in Ingests : StoreAndClear(i)
    PROVE  UNCHANGED <<ask, reply, memory, cache>> /\ Acknowledged' = Acknowledged
<1>1. CASE \E r \in Requests : Rewrite(r) \/ Retrieve(r) \/ Answer(r)
  BY <1>1 DEF Rewrite, Retrieve, Answer, cacheVars, Acknowledged
<1>2. CASE \E i \in Ingests : IngestNothing(i) \/ StartIngest(i) \/ IngestFails(i)
  <2>1. PICK i \in Ingests : IngestNothing(i) \/ StartIngest(i) \/ IngestFails(i)
    BY <1>2
  <2>2. ing \in [Ingests -> {"new", "nothing", "embed", "done", "failed"}]
    BY DEF AnswerInv, TypeOK
  <2>3. \A x \in Ingests : ing'[x] = "done" <=> ing[x] = "done"
    BY <2>1, <2>2 DEF IngestNothing, StartIngest, IngestFails
  <2>4. Acknowledged' = Acknowledged
    BY <2>3 DEF Acknowledged
  <2> QED BY <2>1, <2>4 DEF IngestNothing, StartIngest, IngestFails, cacheVars, chatVars
<1>3. CASE Tick \/ UNCHANGED vars
  BY <1>3 DEF Tick, ClockTick, vars, cacheVars, chatVars, Acknowledged
<1> QED BY <1>1, <1>2, <1>3 DEF Next, Begin, Proceed, ProceedIngest

LEMMA StepRefines ==
    ASSUME AnswerInv, MemoryInv, [Next]_vars
    PROVE  [Contract!Next]_(Contract!contractVars)
<1>1. CASE \E r \in Requests : RejectInput(r) \/ ProviderFails(r)
  BY <1>1, RefusalRefines DEF Contract!Next
<1>2. CASE \E r \in Requests : ServeCached(r)
  BY <1>2, HitRefines DEF Contract!Next
<1>3. CASE \E r \in Requests : EnterGraph(r)
  BY <1>3, LookupRefines DEF Contract!Next
<1>4. CASE \E r \in Requests : Finish(r)
  BY <1>4, FinishRefines DEF Contract!Next
<1>5. CASE \E i \in Ingests : StoreAndClear(i)
  BY <1>5, IngestRefines DEF Contract!Next
<1>6. CASE /\ ~ \E r \in Requests : Begin(r) \/ Finish(r) \/ ProviderFails(r)
           /\ ~ \E i \in Ingests : StoreAndClear(i)
  <2>1. UNCHANGED <<ask, reply, memory, cache>> /\ Acknowledged' = Acknowledged
    BY <1>6, OthersStutter
  <2> QED BY <2>1 DEF Contract!contractVars
<1> QED BY <1>1, <1>2, <1>3, <1>4, <1>5, <1>6 DEF Begin

LEMMA InitRefines == Init => Contract!Init
<1> SUFFICES ASSUME Init PROVE Contract!Init
  OBVIOUS
<1>1. \A r \in Requests : reply[r] = Reply("none", NoAnswer(r), <<>>)
  BY DEF Init
<1>2. \A r \in Requests : /\ reply[r].kind = "none" /\ reply[r].by = r
                          /\ reply[r].text = "none"
  <2> TAKE r \in Requests
  <2>1. reply[r] = Reply("none", NoAnswer(r), <<>>)
    BY <1>1
  <2>2. NoAnswer(r).by = r /\ NoAnswer(r).text = "none"
    BY DEF NoAnswer
  <2> QED BY <2>1, <2>2, ReplyFields
<1>3. OutcomeOf(reply) = [r \in Requests |-> Contract!Outcome("none", r, "none")]
  BY <1>2 DEF OutcomeOf, Contract!Outcome
<1>4. PoolOf(cache) = {} /\ Acknowledged = {}
  BY DEF Init, CacheInit, PoolOf, Acknowledged
<1>5. ask \in [Requests -> [query : Queries, session : Sessions, rag : UseRag]]
      /\ memory = [s \in Sessions |-> <<>>]
  BY DEF Init, MemoryInit
<1> QED BY <1>3, <1>4, <1>5 DEF Contract!Init, OutcomeOf, PoolOf

\* The clients of one process see a service that handles every request and every
\* ingestion at one moment, whatever the requests, the failures, the interleaving of the
\* coroutines and the clock (pipeline.py:79-240).
THEOREM ContractImplemented == Spec => ImplementsContract
  BY InitRefines, StepRefines, AnswerInvariant, MemoryInvariant, PTL
  DEF Spec, ImplementsContract, Contract!Spec
=============================================================================
