----------------------------- MODULE S3Proofs -----------------------------
(***************************************************************************)
(* What holds of the shared index for any number of processes, jobs, chats *)
(* and restarts, any batch size, blocking provider or not.                 *)
(***************************************************************************)
EXTENDS S3Deployment, FiniteSetTheorems, FunctionTheorems, TLAPS

IngStates == {"new", "nothing", "create", "embed", "put", "report", "done", "failed", "lost"}
PCStates == {"new", "search", "answer", "done", "lost"}
ReplyRecords == [kind : {"none", "hit", "fresh", "error", "unsearchable"}, saw : SUBSET Jobs]

\* The part of S3TypeOK that the invariants rest on.
Shape ==
    /\ ready \in [Procs -> BOOLEAN]
    /\ kept \in [Procs -> SUBSET SUBSET Jobs]
    /\ loop \in [Procs -> Jobs \cup {Idle}]
    /\ on \in [Jobs \cup Chats -> Procs \cup {Nowhere}]
    /\ ing \in [Jobs -> IngStates]
    /\ sent \in [Jobs -> Nat]
    /\ pc \in [Chats -> PCStates]
    /\ saw \in [Chats -> SUBSET Jobs]
    /\ reply \in [Chats -> ReplyRecords]
    /\ born \in [Chats -> SUBSET Jobs]
    /\ tries \in [Procs -> Nat]

\* Documents up to s[j] of every ingestion are in the index ix, which is all of them once
\* the last batch was put.
Stored(ix, s, state) ==
    \A j \in Jobs :
        /\ \A n \in 1..Docs[j] : n <= s[j] => <<j, n>> \in ix
        /\ state[j] \in {"report", "done"} => Docs[j] <= s[j]

PutInv == Stored(index, sent, ing)

\* What a chat knows on arrival it finds when it searches and has when it answers.
Informed(state, counter, b, s, a) ==
    \A r \in Chats :
        /\ \A j \in b[r] : state[j] = "done"
        /\ counter[r] = "new" => a[r].kind = "none"
        /\ counter[r] = "answer" => b[r] \subseteq s[r]
        /\ a[r].kind = "fresh" => b[r] \subseteq a[r].saw

FreshInv == Informed(ing, pc, born, saw, reply)

\* Process p is between the two calls of ensure_index.
Creating(p, l, o, state) == l[p] \in Jobs /\ o[l[p]] = p /\ state[l[p]] = "create"

\* A process that has tried is ready, or is trying right now.
Ensured(t, rd, l, o, state) ==
    \A p \in Procs : t[p] = 0 \/ (t[p] = 1 /\ (rd[p] \/ Creating(p, l, o, state)))

EnsureInv == Ensured(tries, ready, loop, on, ing)

-----------------------------------------------------------------------------
LEMMA ShapeInit == Init => Shape
  BY DEF Init, Shape, IngStates, PCStates, ReplyRecords

LEMMA ShapeIngest ==
  ASSUME Shape, NEW j \in Jobs, BeginIngest(j) \/ ProceedIngest(j)
  PROVE  Shape'
  <1> USE S3Assumption DEF Shape, IngStates, Turns, service, chatVars
  <1>1. CASE BeginIngest(j)
    <2> PICK p \in Procs : IngestNothing(j, p) \/ StartReady(j, p) \/ CreateBucket(j, p)
      BY <1>1 DEF BeginIngest
    <2>1. CASE IngestNothing(j, p)
      BY <2>1 DEF IngestNothing
    <2>2. CASE StartReady(j, p)
      BY <2>2 DEF StartReady
    <2>3. CASE CreateBucket(j, p)
      BY <2>3 DEF CreateBucket
    <2> QED BY <2>1, <2>2, <2>3
  <1>2. CASE CreateIndex(j)
    BY <1>2 DEF CreateIndex
  <1>3. CASE PutMore(j)
    <2>1. sent' \in [Jobs -> Nat]
      BY <1>3 DEF PutMore
    <2> QED BY <1>3, <2>1 DEF PutMore
  <1>4. CASE PutLast(j)
    BY <1>4 DEF PutLast
  <1>5. CASE Report(j)
    BY <1>5 DEF Report
  <1>6. CASE IngestFails(j)
    BY <1>6 DEF IngestFails
  <1> QED BY <1>1, <1>2, <1>3, <1>4, <1>5, <1>6 DEF ProceedIngest

LEMMA ShapeChat ==
  ASSUME Shape, NEW r \in Chats, BeginChat(r) \/ ProceedChat(r)
  PROVE  Shape'
  <1> USE S3Assumption DEF Shape, PCStates, ReplyRecords, Turns, service, chatVars, ChatArrives
  <1>1. CASE BeginChat(r)
    <2> PICK p \in Procs : ChatHit(r, p) \/ ChatMiss(r, p)
      BY <1>1 DEF BeginChat
    <2>1. Acknowledged \subseteq Jobs
      BY DEF Acknowledged
    <2>2. CASE ChatHit(r, p)
      BY <2>1, <2>2 DEF ChatHit
    <2>3. CASE ChatMiss(r, p)
      BY <2>1, <2>3 DEF ChatMiss
    <2> QED BY <2>2, <2>3
  <1>2. CASE Search(r)
    BY <1>2 DEF Search, Searchable
  <1>3. CASE SearchRaises(r)
    BY <1>3 DEF SearchRaises
  <1>4. CASE ChatAnswers(r)
    <2>1. kept' \in [Procs -> SUBSET SUBSET Jobs]
      <3>1. {saw[r]} \in SUBSET SUBSET Jobs
        OBVIOUS
      <3>2. kept' = [kept EXCEPT ![on[r]] = {saw[r]}]
        BY <1>4 DEF ChatAnswers
      <3> QED BY <3>1, <3>2
    <2>2. [kind |-> "fresh", saw |-> saw[r]] \in ReplyRecords
      OBVIOUS
    <2> HIDE DEF ReplyRecords
    <2> QED BY <1>4, <2>1, <2>2 DEF ChatAnswers
  <1>5. CASE ChatFails(r)
    BY <1>5 DEF ChatFails
  <1> QED BY <1>1, <1>2, <1>3, <1>4, <1>5 DEF ProceedChat

LEMMA ShapeRestart ==
  ASSUME Shape, NEW p \in Procs, Restart(p)
  PROVE  Shape'
  BY DEF Shape, Restart, IngStates, PCStates, service

\* In every reachable state the variables have their types.
LEMMA ShapeHolds == Spec => []Shape
  <1>1. Shape /\ [Next]_vars => Shape'
    <2> SUFFICES ASSUME Shape, [Next]_vars PROVE Shape'
      OBVIOUS
    <2>1. CASE Next
      BY <2>1, ShapeIngest, ShapeChat, ShapeRestart DEF Next
    <2>2. CASE UNCHANGED vars
      BY <2>2 DEF vars, service, chatVars, Shape
    <2> QED BY <2>1, <2>2
  <1> QED BY <1>1, ShapeInit, PTL DEF Spec

-----------------------------------------------------------------------------
LEMMA PutInit == Init => PutInv
  <1> SUFFICES ASSUME Init, NEW j \in Jobs, NEW n \in 1..Docs[j]
              PROVE  ~(n <= sent[j]) /\ ing[j] = "new"
    BY DEF PutInv, Stored, Init
  <1> QED BY S3Assumption DEF Init

\* One put stores the documents it moves `sent` over.
LEMMA PutStores ==
  ASSUME Shape, PutInv, NEW j \in Jobs, PutMore(j) \/ PutLast(j)
  PROVE  PutInv'
  <1> SUFFICES ASSUME NEW k \in Jobs
              PROVE  /\ \A n \in 1..Docs[k] : n <= sent'[k] => <<k, n>> \in index'
                     /\ ing'[k] \in {"report", "done"} => Docs[k] <= sent'[k]
    BY DEF PutInv, Stored
  <1>1. /\ \A n \in 1..Docs[k] : n <= sent[k] => <<k, n>> \in index
        /\ ing[k] \in {"report", "done"} => Docs[k] <= sent[k]
    BY DEF PutInv, Stored
  <1>2. index' = index \cup Batch(j)
    BY DEF PutMore, PutLast
  <1>3. CASE k # j
    <2>1. CASE PutMore(j)
      BY <1>1, <1>2, <1>3, <2>1 DEF PutMore, Shape
    <2>2. CASE PutLast(j)
      BY <1>1, <1>2, <1>3, <2>2 DEF PutLast, Shape
    <2> QED BY <2>1, <2>2
  <1>4. CASE k = j
    <2>1. sent[j] \in Nat /\ PutBatch \in Nat /\ Docs[j] \in Nat
      BY S3Assumption DEF Shape
    <2>2. \/ sent'[j] = sent[j] + PutBatch /\ ing'[j] = "put"
          \/ sent'[j] = Docs[j] /\ Docs[j] <= sent[j] + PutBatch
      <3>1. sent \in [Jobs -> Nat] /\ ing \in [Jobs -> IngStates]
        BY DEF Shape
      <3>2. CASE PutMore(j)
        BY <3>1, <3>2 DEF PutMore
      <3>3. CASE PutLast(j)
        BY <2>1, <3>1, <3>3 DEF PutLast, LastBatch
      <3> QED BY <3>2, <3>3
    <2>3. ASSUME NEW n \in 1..Docs[j], n <= sent'[j]
          PROVE  <<j, n>> \in index'
      <3>1. CASE n <= sent[j]
        BY <1>1, <1>2, <1>4, <3>1
      <3>2. CASE ~(n <= sent[j])
        <4>1. sent[j] < n /\ n <= sent[j] + PutBatch
          BY <2>1, <2>2, <2>3, <3>2
        <4>2. <<j, n>> \in VectorsOf(j)
          BY DEF VectorsOf
        <4> QED BY <1>2, <4>1, <4>2 DEF Batch
      <3> QED BY <3>1, <3>2
    <2>4. ing'[j] \in {"report", "done"} => Docs[j] <= sent'[j]
      BY <2>1, <2>2
    <2> QED BY <1>4, <2>3, <2>4
  <1> QED BY <1>3, <1>4

\* The rest never takes a vector out of the index.
LEMMA PutNext ==
  ASSUME Shape, PutInv, [Next]_vars
  PROVE  PutInv'
  <1> USE DEF PutInv, Stored, Shape, service, chatVars
  <1>1. ASSUME NEW j \in Jobs, BeginIngest(j)
        PROVE  PutInv'
    <2>1. UNCHANGED <<index, sent>>
      BY <1>1 DEF BeginIngest, IngestNothing, StartReady, CreateBucket
    <2>2. \A k \in Jobs : ing'[k] \in {"report", "done"} => ing[k] = ing'[k]
      <3>1. ing \in [Jobs -> IngStates]
        OBVIOUS
      <3>2. \E state \in {"nothing", "embed", "create"} : ing' = [ing EXCEPT ![j] = state]
        BY <1>1 DEF BeginIngest, IngestNothing, StartReady, CreateBucket
      <3> QED BY <3>1, <3>2
    <2> QED BY <2>1, <2>2
  <1>2. ASSUME NEW j \in Jobs, CreateIndex(j)
        PROVE  PutInv'
    BY <1>2 DEF CreateIndex
  <1>3. ASSUME NEW j \in Jobs, Report(j)
        PROVE  PutInv'
    BY <1>3 DEF Report
  <1>4. ASSUME NEW j \in Jobs, IngestFails(j)
        PROVE  PutInv'
    <2>1. index \subseteq index'
      BY <1>4 DEF IngestFails
    <2> QED BY <1>4, <2>1 DEF IngestFails
  <1>5. ASSUME NEW r \in Chats, BeginChat(r) \/ ProceedChat(r)
        PROVE  PutInv'
    <2>1. UNCHANGED <<index, sent, ing>>
      BY <1>5 DEF BeginChat, ProceedChat, ChatHit, ChatMiss, Search, SearchRaises, ChatAnswers,
                  ChatFails
    <2> QED BY <2>1
  <1>6. ASSUME NEW p \in Procs, Restart(p)
        PROVE  PutInv'
    BY <1>6 DEF Restart
  <1>7. CASE UNCHANGED vars
    BY <1>7 DEF vars
  <1> HIDE DEF PutInv, Stored, Shape
  <1> QED BY <1>1, <1>2, <1>3, <1>4, <1>5, <1>6, <1>7, PutStores DEF Next, ProceedIngest

LEMMA StoredIsSearchable == ASSUME Shape, PutInv PROVE AcknowledgedIsStored
  <1> SUFFICES ASSUME NEW j \in Jobs, ing[j] = "done", NEW n \in 1..Docs[j]
              PROVE  <<j, n>> \in index
    BY DEF AcknowledgedIsStored, Acknowledged, Searchable, VectorsOf
  <1>1. sent[j] \in Nat /\ Docs[j] \in Nat /\ Docs[j] <= sent[j]
    BY S3Assumption DEF PutInv, Stored, Shape
  <1> QED BY <1>1 DEF PutInv, Stored

LEMMA PutHolds == Spec => []PutInv
  <1> QED BY PutInit, ShapeHolds, PutNext, PTL DEF Spec

\* An acknowledged ingestion is completely in the index, for any number of processes that
\* put, fail and restart around it, and any batch size (s3_vectors.py:111-116).
THEOREM AcknowledgedIsStoredHolds == Spec => []AcknowledgedIsStored
  <1> QED BY ShapeHolds, PutHolds, StoredIsSearchable, PTL
-----------------------------------------------------------------------------
LEMMA FreshInit == Init => FreshInv
  BY DEF Init, FreshInv, Informed

\* What is acknowledged stays acknowledged.
LEMMA FreshIngest ==
  ASSUME Shape, FreshInv, NEW j \in Jobs, BeginIngest(j) \/ ProceedIngest(j)
  PROVE  FreshInv'
  <1>1. UNCHANGED chatVars
    BY DEF BeginIngest, ProceedIngest, IngestNothing, StartReady, CreateBucket, CreateIndex,
           PutMore, PutLast, Report, IngestFails
  <1>2. \E state \in IngStates : ing' = [ing EXCEPT ![j] = state] /\ ing[j] # "done"
    BY DEF BeginIngest, ProceedIngest, IngestNothing, StartReady, CreateBucket, CreateIndex,
           PutMore, PutLast, Report, IngestFails, IngStates
  <1>3. \A k \in Jobs : ing[k] = "done" => ing'[k] = "done"
    BY <1>2 DEF Shape
  <1>4. \A r \in Chats : born[r] \subseteq Jobs
    BY DEF Shape
  <1> QED BY <1>1, <1>3, <1>4 DEF FreshInv, Informed, chatVars

LEMMA FreshRestart ==
  ASSUME Shape, FreshInv, NEW p \in Procs, Restart(p)
  PROVE  FreshInv'
  <1>1. \A k \in Jobs : ing[k] = "done" => ing'[k] = "done"
    BY DEF Restart, Shape
  <1>2. \A r \in Chats : pc'[r] \in {pc[r], "lost"}
    BY DEF Restart, Shape
  <1>3. \A r \in Chats : born[r] \subseteq Jobs
    BY DEF Shape
  <1>4. UNCHANGED <<born, saw, reply>>
    BY DEF Restart
  <1> QED BY <1>1, <1>2, <1>3, <1>4 DEF FreshInv, Informed

LEMMA FreshChat ==
  ASSUME Shape, FreshInv, AcknowledgedIsStored,
         NEW r \in Chats, BeginChat(r) \/ ProceedChat(r)
  PROVE  FreshInv'
  <1> USE DEF FreshInv, Informed, Shape
  <1>1. CASE BeginChat(r)
    <2> PICK p \in Procs : ChatHit(r, p) \/ ChatMiss(r, p)
      BY <1>1 DEF BeginChat
    <2>1. \A j \in Acknowledged : ing[j] = "done"
      BY DEF Acknowledged
    <2>2. pc[r] = "new" /\ born' = [born EXCEPT ![r] = Acknowledged] /\ UNCHANGED <<ing, saw>>
      BY DEF ChatHit, ChatMiss, ChatArrives
    <2>3. CASE ChatHit(r, p)
      <3> PICK known \in kept[p] : reply' = [reply EXCEPT ![r] = [kind |-> "hit", saw |-> known]]
        BY <2>3 DEF ChatHit
      <3>1. pc' = [pc EXCEPT ![r] = "done"]
        BY <2>3 DEF ChatHit
      <3> QED BY <2>1, <2>2, <3>1
    <2>4. CASE ChatMiss(r, p)
      <3>1. pc' = [pc EXCEPT ![r] = "search"] /\ UNCHANGED reply
        BY <2>4 DEF ChatMiss
      <3> QED BY <2>1, <2>2, <3>1
    <2> QED BY <2>3, <2>4
  <1>2. CASE Search(r)
    <2>1. born[r] \subseteq Searchable
      BY DEF AcknowledgedIsStored, Acknowledged
    <2> QED BY <1>2, <2>1 DEF Search
  <1>3. CASE SearchRaises(r)
    BY <1>3 DEF SearchRaises
  <1>4. CASE ChatAnswers(r)
    BY <1>4 DEF ChatAnswers
  <1>5. CASE ChatFails(r)
    BY <1>5 DEF ChatFails
  <1> QED BY <1>1, <1>2, <1>3, <1>4, <1>5 DEF ProceedChat

LEMMA FreshNext ==
  ASSUME Shape, FreshInv, AcknowledgedIsStored, [Next]_vars
  PROVE  FreshInv'
  <1>1. CASE Next
    BY <1>1, FreshIngest, FreshChat, FreshRestart DEF Next
  <1>2. CASE UNCHANGED vars
    BY <1>2 DEF vars, chatVars, FreshInv, Informed
  <1> QED BY <1>1, <1>2

\* A generated answer searched an index with everything that any process had acknowledged
\* before the question arrived (s3_vectors.py:119-128, pipeline.py:137).
THEOREM FreshSeesAllProcessesHolds == Spec => []FreshSeesAllProcesses
  <1>1. FreshInv => FreshSeesAllProcesses
    BY DEF FreshInv, Informed, FreshSeesAllProcesses
  <1> QED BY <1>1, FreshInit, FreshNext, ShapeHolds, AcknowledgedIsStoredHolds, PTL DEF Spec
-----------------------------------------------------------------------------
LEMMA EnsureInit == Init => EnsureInv
  BY DEF Init, EnsureInv, Ensured

\* A step of a coroutine that is not between the two calls leaves those that are alone.
LEMMA EnsureOther ==
  ASSUME Shape, EnsureInv, NEW c \in Jobs \cup Chats, NEW p, NEW keeps \in BOOLEAN,
         Turns(p, c, keeps),
         c \in Jobs => ing[c] # "create",
         \A k \in Jobs \ {c} : ing'[k] = ing[k] /\ on'[k] = on[k],
         UNCHANGED <<ready, tries>>
  PROVE  EnsureInv'
  <1> SUFFICES ASSUME NEW q \in Procs
              PROVE  tries[q] = 0 \/ (tries[q] = 1 /\ (ready[q] \/ Creating(q, loop', on', ing')))
    BY DEF EnsureInv, Ensured
  <1>1. tries[q] = 0 \/ (tries[q] = 1 /\ (ready[q] \/ Creating(q, loop, on, ing)))
    BY DEF EnsureInv, Ensured
  <1>2. ASSUME Creating(q, loop, on, ing)
        PROVE  Creating(q, loop', on', ing')
    <2>1. loop[q] \in Jobs /\ loop[q] # c
      BY <1>2 DEF Creating
    <2>2. loop[q] # Idle
      BY <2>1, S3Assumption
    <2>3. loop'[q] = loop[q]
      BY <2>1, <2>2 DEF Turns, Shape
    <2> QED BY <1>2, <2>1, <2>3 DEF Creating
  <1> QED BY <1>1, <1>2

LEMMA EnsureIngest ==
  ASSUME Shape, EnsureInv, NEW j \in Jobs, NEW p \in Procs,
         IngestNothing(j, p) \/ StartReady(j, p)
  PROVE  EnsureInv'
  <1>1. \E keeps \in BOOLEAN : Turns(p, j, keeps)
    BY S3Assumption DEF IngestNothing, StartReady
  <1>2. ing[j] = "new" /\ UNCHANGED <<ready, tries>>
    BY DEF IngestNothing, StartReady
  <1>3. \A k \in Jobs \ {j} : ing'[k] = ing[k] /\ on'[k] = on[k]
    BY DEF IngestNothing, StartReady, Shape
  <1> QED BY <1>1, <1>2, <1>3, EnsureOther

\* The attempt begins: the loop was not kept by another one.
LEMMA EnsureBegins ==
  ASSUME Shape, EnsureInv, NEW j \in Jobs, NEW p \in Procs, CreateBucket(j, p)
  PROVE  EnsureInv'
  <1> SUFFICES ASSUME NEW q \in Procs
              PROVE  tries'[q] = 0 \/ (tries'[q] = 1 /\ (ready'[q] \/ Creating(q, loop', on', ing')))
    BY DEF EnsureInv, Ensured
  <1>1. tries[q] = 0 \/ (tries[q] = 1 /\ (ready[q] \/ Creating(q, loop, on, ing)))
    BY DEF EnsureInv, Ensured
  <1>2. /\ ing[j] = "new" /\ ~ready[p] /\ loop[p] \in {Idle, j}
        /\ loop' = [loop EXCEPT ![p] = j]
        /\ on' = [on EXCEPT ![j] = p]
        /\ ing' = [ing EXCEPT ![j] = "create"]
        /\ tries' = [tries EXCEPT ![p] = @ + 1]
        /\ UNCHANGED ready
    BY DEF CreateBucket, Turns
  <1>3. CASE q = p
    <2>1. ~Creating(p, loop, on, ing)
      BY <1>2, S3Assumption DEF Creating
    <2>2. tries[p] = 0 /\ tries'[p] = 1
      BY <1>1, <1>2, <1>3, <2>1 DEF Shape
    <2>3. Creating(p, loop', on', ing')
      BY <1>2 DEF Creating, Shape
    <2> QED BY <1>3, <2>2, <2>3
  <1>4. CASE q # p
    <2>1. tries'[q] = tries[q] /\ loop'[q] = loop[q]
      BY <1>2, <1>4 DEF Shape
    <2>2. Creating(q, loop, on, ing) => loop[q] # j
      BY <1>2 DEF Creating
    <2>3. Creating(q, loop, on, ing) => Creating(q, loop', on', ing')
      BY <1>2, <2>1, <2>2 DEF Creating, Shape
    <2> QED BY <1>1, <1>2, <2>1, <2>3
  <1> QED BY <1>3, <1>4

\* The attempt ends: its process is ready.
LEMMA EnsureEnds ==
  ASSUME Shape, EnsureInv, NEW j \in Jobs, CreateIndex(j)
  PROVE  EnsureInv'
  <1> SUFFICES ASSUME NEW q \in Procs
              PROVE  tries'[q] = 0 \/ (tries'[q] = 1 /\ (ready'[q] \/ Creating(q, loop', on', ing')))
    BY DEF EnsureInv, Ensured
  <1>1. tries[q] = 0 \/ (tries[q] = 1 /\ (ready[q] \/ Creating(q, loop, on, ing)))
    BY DEF EnsureInv, Ensured
  <1>2. /\ ready' = [ready EXCEPT ![on[j]] = TRUE]
        /\ \A k \in Procs \ {on[j]} : loop'[k] = loop[k]
        /\ ing' = [ing EXCEPT ![j] = "embed"]
        /\ UNCHANGED <<on, tries>>
    BY DEF CreateIndex, Turns, Shape
  <1>3. CASE q = on[j]
    BY <1>1, <1>2, <1>3 DEF Shape
  <1>4. CASE q # on[j]
    <2>1. Creating(q, loop, on, ing) => loop[q] # j
      BY <1>4 DEF Creating
    <2>2. Creating(q, loop, on, ing) => Creating(q, loop', on', ing')
      BY <1>2, <1>4, <2>1 DEF Creating, Shape
    <2>3. ready'[q] = ready[q]
      BY <1>2, <1>4 DEF Shape
    <2> QED BY <1>1, <1>2, <2>2, <2>3
  <1> QED BY <1>3, <1>4
LEMMA EnsurePuts ==
  ASSUME Shape, EnsureInv, NEW j \in Jobs, PutMore(j) \/ PutLast(j) \/ Report(j) \/ IngestFails(j)
  PROVE  EnsureInv'
  <1>1. \E keeps \in BOOLEAN : Turns(on[j], j, keeps)
    BY DEF PutMore, PutLast, Report, IngestFails
  <1>2. ing[j] # "create" /\ UNCHANGED <<ready, tries, on>>
    BY DEF PutMore, PutLast, Report, IngestFails
  <1>3. \A k \in Jobs \ {j} : ing'[k] = ing[k]
    BY DEF PutMore, PutLast, Report, IngestFails, Shape
  <1> QED BY <1>1, <1>2, <1>3, EnsureOther

LEMMA EnsureChat ==
  ASSUME Shape, EnsureInv, NEW r \in Chats, BeginChat(r) \/ ProceedChat(r)
  PROVE  EnsureInv'
  <1>1. \E p : Turns(p, r, FALSE)
    <2>1. CASE BeginChat(r)
      BY <2>1 DEF BeginChat, ChatHit, ChatMiss
    <2>2. CASE ProceedChat(r)
      BY <2>2 DEF ProceedChat, Search, SearchRaises, ChatAnswers, ChatFails
    <2> QED BY <2>1, <2>2
  <1>2. UNCHANGED <<ing, ready, tries>>
    BY DEF BeginChat, ProceedChat, ChatHit, ChatMiss, Search, SearchRaises, ChatAnswers, ChatFails
  <1>3. \A k \in Jobs : on'[k] = on[k] /\ k # r
    <2>1. (\E p : on' = [on EXCEPT ![r] = p]) \/ on' = on
      BY DEF BeginChat, ProceedChat, ChatHit, ChatMiss, ChatArrives, Search, SearchRaises,
             ChatAnswers, ChatFails
    <2>2. \A k \in Jobs : k # r
      BY S3Assumption
    <2> QED BY <2>1, <2>2 DEF Shape
  <1> QED BY <1>1, <1>2, <1>3, EnsureOther

\* A restarted process starts from nothing; the others keep their coroutines.
LEMMA EnsureRestart ==
  ASSUME Shape, EnsureInv, NEW p \in Procs, Restart(p)
  PROVE  EnsureInv'
  <1> SUFFICES ASSUME NEW q \in Procs
              PROVE  tries'[q] = 0 \/ (tries'[q] = 1 /\ (ready'[q] \/ Creating(q, loop', on', ing')))
    BY DEF EnsureInv, Ensured
  <1>1. tries[q] = 0 \/ (tries[q] = 1 /\ (ready[q] \/ Creating(q, loop, on, ing)))
    BY DEF EnsureInv, Ensured
  <1>2. tries' = [tries EXCEPT ![p] = 0] /\ ready' = [ready EXCEPT ![p] = FALSE]
        /\ loop' = [loop EXCEPT ![p] = Idle] /\ UNCHANGED on
    BY DEF Restart
  <1>3. CASE q = p
    BY <1>2, <1>3 DEF Shape
  <1>4. CASE q # p
    <2>1. tries'[q] = tries[q] /\ ready'[q] = ready[q] /\ loop'[q] = loop[q]
      BY <1>2, <1>4 DEF Shape
    <2>2. \A k \in Jobs : on[k] # p => ing'[k] = ing[k]
      BY DEF Restart, Shape
    <2>3. Creating(q, loop, on, ing) => Creating(q, loop', on', ing')
      BY <1>2, <1>4, <2>1, <2>2 DEF Creating
    <2> QED BY <1>1, <2>1, <2>3
  <1> QED BY <1>3, <1>4

LEMMA EnsureNext ==
  ASSUME Shape, EnsureInv, [Next]_vars
  PROVE  EnsureInv'
  <1>1. CASE Next
    BY <1>1, EnsureIngest, EnsureBegins, EnsureEnds, EnsurePuts, EnsureChat, EnsureRestart
       DEF Next, BeginIngest, ProceedIngest
  <1>2. CASE UNCHANGED vars
    BY <1>2 DEF vars, EnsureInv, Ensured, Creating
  <1> QED BY <1>1, <1>2

\* A process bootstraps the index at most once in its life, whatever overlaps or fails: its
\* event loop is not given up between the test of _index_ready and its setting
\* (pipeline.py:219-226).
THEOREM EnsuredOnceHolds == Spec => []EnsuredOncePerLife
  <1>1. Shape /\ EnsureInv => EnsuredOncePerLife
    BY DEF Shape, EnsureInv, Ensured, EnsuredOncePerLife
  <1> QED BY <1>1, EnsureInit, EnsureNext, ShapeHolds, PTL DEF Spec

-----------------------------------------------------------------------------
(* The two sizes.  An ingestion is in a process's counter once its last batch is put: what
   the process counts is the size of a set of whole ingestions, and the index has them. *)

\* Who keeps an event loop, and where the coroutines run.
Owned ==
    /\ \A p \in Procs : loop[p] # Idle => loop[p] \in InIngest /\ on[loop[p]] = p
    /\ \A j \in InIngest : on[j] \in Procs
    /\ \A r \in InChat : on[r] \in Procs

IndexInv ==
    /\ bucket \in BOOLEAN /\ hasIndex \in BOOLEAN /\ (hasIndex => bucket)
    /\ index \subseteq Vectors /\ IsFiniteSet(index)
    /\ \A j \in Jobs : sent[j] <= Docs[j]

DocumentsOf(J) == UNION {VectorsOf(j) : j \in J}

\* Process p counts the ingestions of J.
Counts(p, J) ==
    /\ count[p] = Cardinality(DocumentsOf(J))
    /\ DocumentsOf(J) \subseteq index
    /\ \A j \in J : ing[j] \in {"report", "done", "lost"}
    /\ \A j \in Jobs : on[j] = p /\ ing[j] = "report" => j \in J

CountInv ==
    /\ count \in [Procs -> Nat]
    /\ \A p \in Procs : \E J \in SUBSET Jobs : Counts(p, J)

TotalInv ==
    /\ total \in [Jobs -> 0..Cardinality(index)]
    /\ TotalsAreHonest

LEMMA VectorsAreDocs ==
  ASSUME NEW j \in Jobs
  PROVE  /\ IsFiniteSet(VectorsOf(j)) /\ Cardinality(VectorsOf(j)) = Docs[j]
         /\ VectorsOf(j) \subseteq Vectors
  <1> DEFINE f == [n \in 1..Docs[j] |-> <<j, n>>]
  <1>1. Docs[j] \in Nat
    BY S3Assumption
  <1>2. f \in [1..Docs[j] -> VectorsOf(j)]
    BY DEF VectorsOf
  <1>3. \A a, b \in 1..Docs[j] : f[a] = f[b] => a = b
    OBVIOUS
  <1>4. \A v \in VectorsOf(j) : \E n \in 1..Docs[j] : f[n] = v
    BY DEF VectorsOf
  <1>5. ExistsBijection(1..Docs[j], VectorsOf(j))
    BY <1>2, <1>3, <1>4, Fun_IsBij, Fun_ExistsBij
  <1>6. IsFiniteSet(1..Docs[j]) /\ Cardinality(1..Docs[j]) = Docs[j]
    <2>1. 1 \in Int /\ Docs[j] \in Int
      BY <1>1
    <2>2. /\ IsFiniteSet(1..Docs[j])
          /\ Cardinality(1..Docs[j]) = IF 1 > Docs[j] THEN 0 ELSE Docs[j] - 1 + 1
      BY ONLY <2>1, FS_Interval
    <2> QED BY <1>1, <2>2
  <1>7. VectorsOf(j) \subseteq Vectors
    BY <1>1 DEF VectorsOf, Vectors
  <1> QED BY <1>5, <1>6, <1>7, FS_Bijection

LEMMA BatchIsFinite ==
  ASSUME NEW j \in Jobs
  PROVE  IsFiniteSet(Batch(j)) /\ Batch(j) \subseteq Vectors
  <1>1. Batch(j) \in SUBSET VectorsOf(j)
    BY DEF Batch
  <1> QED BY <1>1, VectorsAreDocs, FS_Subset

LEMMA IndexInit == Init => IndexInv /\ Owned /\ CountInv /\ TotalInv
  <1> SUFFICES ASSUME Init PROVE IndexInv /\ Owned /\ CountInv /\ TotalInv
    OBVIOUS
  <1>1. IndexInv
    <2>1. IsFiniteSet(index) /\ index \subseteq Vectors
      BY FS_EmptySet DEF Init
    <2>2. \A j \in Jobs : sent[j] <= Docs[j]
      BY S3Assumption DEF Init
    <2> QED BY <2>1, <2>2 DEF Init, IndexInv
  <1>2. Owned
    BY DEF Init, Owned, InIngest, InChat
  <1>3. Cardinality(index) = 0 /\ Cardinality({}) = 0
    BY FS_EmptySet DEF Init
  <1>4. DocumentsOf({}) = {}
    BY DEF DocumentsOf
  <1>5. CountInv
    <2>1. \A p \in Procs : Counts(p, {})
      BY <1>3, <1>4 DEF Init, Counts
    <2> QED BY <2>1 DEF CountInv, Init
  <1>6. TotalInv
    BY <1>3 DEF Init, TotalInv, TotalsAreHonest, Acknowledged
  <1> QED BY <1>1, <1>2, <1>5, <1>6

\* What a step does to the service and to the progress of an ingestion.
LEMMA ServiceSteps ==
  ASSUME Shape, [Next]_vars
  PROVE  /\ bucket' = bucket \/ bucket' = TRUE
         /\ hasIndex' = hasIndex \/ (hasIndex' = bucket /\ bucket' = bucket)
         /\ index' = index \/ \E j \in Jobs : index' = index \cup Batch(j)
         /\ sent' = sent \/ \E j \in Jobs : \E n \in 0..Docs[j] : sent' = [sent EXCEPT ![j] = n]
  <1> DEFINE Buckets == bucket' = bucket \/ bucket' = TRUE
             Indexed == hasIndex' = hasIndex \/ (hasIndex' = bucket /\ bucket' = bucket)
             Puts    == index' = index \/ \E j \in Jobs : index' = index \cup Batch(j)
             Sends   == sent' = sent \/ \E j \in Jobs : \E n \in 0..Docs[j] :
                                            sent' = [sent EXCEPT ![j] = n]
  <1>1. ASSUME NEW j \in Jobs, BeginIngest(j) \/ CreateIndex(j) \/ Report(j)
        PROVE  Buckets /\ Indexed /\ Puts /\ Sends
    BY <1>1 DEF BeginIngest, IngestNothing, StartReady, CreateBucket, CreateIndex, Report, service
  <1>2. ASSUME NEW j \in Jobs, PutMore(j) \/ PutLast(j)
        PROVE  Buckets /\ Indexed /\ Puts /\ Sends
    <2>1. Buckets /\ Indexed /\ Puts
      BY <1>2 DEF PutMore, PutLast
    <2>2. PutBatch \in Nat /\ Docs[j] \in Nat /\ sent[j] \in Nat
      BY S3Assumption DEF Shape
    <2>3. CASE PutMore(j)
      <3>1. sent' = [sent EXCEPT ![j] = sent[j] + PutBatch]
        BY <2>3 DEF PutMore
      <3>2. sent[j] + PutBatch \in 0..Docs[j]
        BY <2>2, <2>3 DEF PutMore, LastBatch
      <3> QED BY <2>1, <3>1, <3>2
    <2>4. CASE PutLast(j)
      <3>1. sent' = [sent EXCEPT ![j] = Docs[j]]
        BY <2>4 DEF PutLast
      <3>2. Docs[j] \in 0..Docs[j]
        BY <2>2
      <3> QED BY <2>1, <3>1, <3>2
    <2> QED BY <1>2, <2>3, <2>4
  <1>3. ASSUME NEW j \in Jobs, IngestFails(j)
        PROVE  Buckets /\ Indexed /\ Puts /\ Sends
    BY <1>3 DEF IngestFails
  <1>4. ASSUME NEW r \in Chats, BeginChat(r) \/ ProceedChat(r)
        PROVE  Buckets /\ Indexed /\ Puts /\ Sends
    BY <1>4 DEF BeginChat, ProceedChat, ChatHit, ChatMiss, Search, SearchRaises, ChatAnswers,
                ChatFails, service
  <1>5. ASSUME NEW p \in Procs, Restart(p)
        PROVE  Buckets /\ Indexed /\ Puts /\ Sends
    BY <1>5 DEF Restart, service
  <1>6. Buckets /\ Indexed /\ Puts /\ Sends
    <2> HIDE DEF Buckets, Indexed, Puts, Sends
    <2>1. CASE Next
      <3>1. CASE \E j \in Jobs : BeginIngest(j) \/ ProceedIngest(j)
        BY <3>1, <1>1, <1>2, <1>3, Zenon DEF ProceedIngest
      <3>2. CASE \E r \in Chats : BeginChat(r) \/ ProceedChat(r)
        BY <3>2, <1>4, Zenon
      <3> QED BY <2>1, <3>1, <3>2, <1>5, Zenon DEF Next
    <2>2. CASE UNCHANGED vars
      <3>1. UNCHANGED <<bucket, hasIndex, index, sent>>
        BY <2>2 DEF vars, service
      <3> QED BY <3>1 DEF Buckets, Indexed, Puts, Sends
    <2> QED BY <2>1, <2>2, Zenon
  <1> QED BY <1>6

\* The index only grows.
LEMMA IndexNext ==
  ASSUME Shape, IndexInv, [Next]_vars
  PROVE  /\ IndexInv'
         /\ index \subseteq index'
         /\ Cardinality(index) \in Nat /\ Cardinality(index') \in Nat
         /\ Cardinality(index) <= Cardinality(index')
  <1>1. /\ bucket \in BOOLEAN /\ hasIndex \in BOOLEAN /\ (hasIndex => bucket)
        /\ index \subseteq Vectors /\ IsFiniteSet(index)
        /\ \A j \in Jobs : sent[j] <= Docs[j]
    BY DEF IndexInv
  <1>2. bucket' \in BOOLEAN /\ hasIndex' \in BOOLEAN /\ (hasIndex' => bucket')
    <2>1. bucket' = bucket \/ bucket' = TRUE
      BY ServiceSteps
    <2>2. hasIndex' = hasIndex \/ (hasIndex' = bucket /\ bucket' = bucket)
      BY ServiceSteps
    <2>3. CASE hasIndex' = hasIndex
      <3>1. CASE bucket' = bucket
        BY <1>1, <2>3, <3>1
      <3>2. CASE bucket' = TRUE
        BY <1>1, <2>3, <3>2
      <3> QED BY <2>1, <3>1, <3>2, Zenon
    <2>4. CASE hasIndex' = bucket /\ bucket' = bucket
      BY <1>1, <2>4
    <2> QED BY <2>2, <2>3, <2>4, Zenon
  <1>3. index' \subseteq Vectors /\ IsFiniteSet(index') /\ index \in SUBSET index'
    <2>1. CASE index' = index
      BY <1>1, <2>1
    <2>2. ASSUME NEW j \in Jobs, index' = index \cup Batch(j)
          PROVE  index' \subseteq Vectors /\ IsFiniteSet(index') /\ index \in SUBSET index'
      <3>1. IsFiniteSet(Batch(j)) /\ Batch(j) \subseteq Vectors
        BY BatchIsFinite
      <3>2. IsFiniteSet(index \cup Batch(j))
        BY <1>1, <3>1, FS_Union
      <3> QED BY <1>1, <2>2, <3>1, <3>2
    <2> QED BY <2>1, <2>2, ServiceSteps
  <1>4. \A k \in Jobs : sent'[k] <= Docs[k]
    <2>1. ASSUME NEW j \in Jobs, NEW n \in 0..Docs[j], sent' = [sent EXCEPT ![j] = n]
          PROVE  \A k \in Jobs : sent'[k] <= Docs[k]
      <3>1. sent \in [Jobs -> Nat] /\ Docs[j] \in Nat
        BY S3Assumption DEF Shape
      <3> QED BY <1>1, <2>1, <3>1
    <2> QED BY <1>1, <2>1, ServiceSteps
  <1>5. IndexInv'
    BY <1>2, <1>3, <1>4 DEF IndexInv
  <1> QED BY <1>1, <1>3, <1>5, FS_Subset, FS_CardinalityType

-----------------------------------------------------------------------------
\* Coroutine c runs on p and is the only one that begins or ends: the others keep their
\* loops, which are not p's.
LEMMA OwnedTurn ==
  ASSUME Shape, Owned, NEW c \in Jobs \cup Chats, NEW p \in Procs, NEW keeps \in BOOLEAN,
         Turns(p, c, keeps),
         c \in InIngest => on[c] = p,
         on'[c] = p,
         \A d \in (Jobs \cup Chats) \ {c} : on'[d] = on[d],
         InIngest' \subseteq InIngest \cup {c},
         InIngest \ {c} \subseteq InIngest',
         InChat' \subseteq InChat \cup {c},
         keeps => c \in InIngest'
  PROVE  Owned'
  <1>1. InIngest \subseteq Jobs /\ InChat \subseteq Chats
    BY DEF InIngest, InChat
  <1>2. ASSUME NEW q \in Procs, loop'[q] # Idle
        PROVE  loop'[q] \in InIngest' /\ on'[loop'[q]] = q
    <2>1. CASE q = p
      <3>1. loop'[q] = IF keeps THEN c ELSE Idle
        BY <2>1 DEF Turns, Shape
      <3> QED BY <1>2, <2>1, <3>1
    <2>2. CASE q # p
      <3>1. loop'[q] = loop[q]
        BY <2>2 DEF Turns, Shape
      <3>2. loop[q] \in InIngest /\ on[loop[q]] = q
        BY <1>2, <3>1 DEF Owned
      <3>3. loop[q] # c
        BY <2>2, <3>2
      <3> QED BY <1>1, <3>1, <3>2, <3>3
    <2> QED BY <2>1, <2>2
  <1>3. \A j \in InIngest' : on'[j] \in Procs
    BY <1>1 DEF Owned
  <1>4. \A r \in InChat' : on'[r] \in Procs
    BY <1>1 DEF Owned
  <1> QED BY <1>2, <1>3, <1>4 DEF Owned

LEMMA OwnedBegins ==
  ASSUME Shape, Owned, NEW j \in Jobs, NEW p \in Procs,
         IngestNothing(j, p) \/ StartReady(j, p) \/ CreateBucket(j, p)
  PROVE  Owned'
  <1>1. ing \in [Jobs -> IngStates] /\ on \in [Jobs \cup Chats -> Procs \cup {Nowhere}]
    BY DEF Shape
  <1>2. ing[j] = "new" /\ on' = [on EXCEPT ![j] = p] /\ UNCHANGED pc
    BY DEF IngestNothing, StartReady, CreateBucket, chatVars
  <1>3. PICK state \in {"nothing", "embed", "create"} :
           /\ ing' = [ing EXCEPT ![j] = state]
           /\ \E keeps \in BOOLEAN : Turns(p, j, keeps) /\ (keeps => state # "nothing")
    BY S3Assumption DEF IngestNothing, StartReady, CreateBucket
  <1>4. j \notin InIngest
    BY <1>2 DEF InIngest
  <1>5. /\ InIngest' \subseteq InIngest \cup {j} /\ InIngest \ {j} \subseteq InIngest'
        /\ state # "nothing" => j \in InIngest'
    BY <1>1, <1>3 DEF InIngest
  <1>6. InChat' \subseteq InChat \cup {j}
    BY <1>2 DEF InChat
  <1>7. on'[j] = p /\ \A d \in (Jobs \cup Chats) \ {j} : on'[d] = on[d]
    BY <1>1, <1>2
  <1> QED BY <1>3, <1>4, <1>5, <1>6, <1>7, OwnedTurn

LEMMA OwnedProceeds ==
  ASSUME Shape, Owned, NEW j \in Jobs, ProceedIngest(j)
  PROVE  Owned'
  <1> USE DEF ProceedIngest, CreateIndex, PutMore, PutLast, Report, IngestFails
  <1>1. ing \in [Jobs -> IngStates] /\ on \in [Jobs \cup Chats -> Procs \cup {Nowhere}]
    BY DEF Shape
  <1>2. ing[j] \in {"create", "embed", "put", "report"} /\ UNCHANGED <<on, pc>>
    BY DEF chatVars
  <1>3. PICK state \in {"embed", "put", "report", "done", "failed"} :
           /\ ing' = [ing EXCEPT ![j] = state]
           /\ \E keeps \in BOOLEAN :
                 Turns(on[j], j, keeps) /\ (keeps => state \notin {"done", "failed"})
    BY S3Assumption
  <1> HIDE DEF ProceedIngest, CreateIndex, PutMore, PutLast, Report, IngestFails
  <1>4. j \in InIngest /\ on[j] \in Procs
    BY <1>2 DEF InIngest, Owned
  <1>5. /\ InIngest' \subseteq InIngest \cup {j} /\ InIngest \ {j} \subseteq InIngest'
        /\ state \notin {"done", "failed"} => j \in InIngest'
    BY <1>1, <1>3 DEF InIngest
  <1>6. InChat' \subseteq InChat \cup {j}
    BY <1>2 DEF InChat
  <1>7. on'[j] = on[j] /\ \A d \in (Jobs \cup Chats) \ {j} : on'[d] = on[d]
    BY <1>2
  <1> QED BY <1>3, <1>4, <1>5, <1>6, <1>7, OwnedTurn

LEMMA OwnedChats ==
  ASSUME Shape, Owned, NEW r \in Chats, BeginChat(r) \/ ProceedChat(r)
  PROVE  Owned'
  <1>1. pc \in [Chats -> PCStates] /\ on \in [Jobs \cup Chats -> Procs \cup {Nowhere}]
    BY DEF Shape
  <1>2. r \notin InIngest
    BY S3Assumption DEF InIngest
  <1>3. UNCHANGED ing
    BY DEF BeginChat, ProceedChat, ChatHit, ChatMiss, Search, SearchRaises, ChatAnswers, ChatFails
  <1>4. InIngest' \subseteq InIngest \cup {r} /\ InIngest \ {r} \subseteq InIngest'
    BY <1>3 DEF InIngest
  <1>5. PICK state \in PCStates : pc' = [pc EXCEPT ![r] = state]
    BY DEF BeginChat, ProceedChat, ChatHit, ChatMiss, Search, SearchRaises, ChatAnswers,
           ChatFails, PCStates
  <1>6. InChat' \subseteq InChat \cup {r}
    BY <1>1, <1>5 DEF InChat
  <1>7. CASE BeginChat(r)
    <2> PICK p \in Procs : ChatHit(r, p) \/ ChatMiss(r, p)
      BY <1>7 DEF BeginChat
    <2>1. on' = [on EXCEPT ![r] = p] /\ Turns(p, r, FALSE)
      BY DEF ChatHit, ChatMiss, ChatArrives
    <2>2. on'[r] = p /\ \A d \in (Jobs \cup Chats) \ {r} : on'[d] = on[d]
      BY <1>1, <2>1
    <2> QED BY <1>2, <1>4, <1>6, <2>1, <2>2, OwnedTurn
  <1>8. CASE ProceedChat(r)
    <2>1. pc[r] \in {"search", "answer"} /\ UNCHANGED on /\ Turns(on[r], r, FALSE)
      BY <1>8 DEF ProceedChat, Search, SearchRaises, ChatAnswers, ChatFails
    <2>2. on[r] \in Procs
      BY <2>1 DEF Owned, InChat
    <2>3. on'[r] = on[r] /\ \A d \in (Jobs \cup Chats) \ {r} : on'[d] = on[d]
      BY <2>1
    <2> QED BY <1>2, <1>4, <1>6, <2>1, <2>2, <2>3, OwnedTurn
  <1> QED BY <1>7, <1>8

\* A restart takes p's coroutines and gives up its loop, and no other one's.
LEMMA OwnedRestarts ==
  ASSUME Shape, Owned, NEW p \in Procs, Restart(p)
  PROVE  Owned'
  <1>1. UNCHANGED on /\ loop'[p] = Idle /\ \A q \in Procs \ {p} : loop'[q] = loop[q]
    BY DEF Restart, Shape
  <1>2. InIngest' \subseteq InIngest /\ \A j \in InIngest : on[j] # p => j \in InIngest'
    BY DEF Restart, InIngest
  <1>3. InChat' \subseteq InChat
    BY DEF Restart, InChat
  <1>4. ASSUME NEW q \in Procs, loop'[q] # Idle
        PROVE  loop'[q] \in InIngest' /\ on'[loop'[q]] = q
    <2>1. q # p /\ loop'[q] = loop[q]
      BY <1>1, <1>4
    <2>2. loop[q] \in InIngest /\ on[loop[q]] = q
      BY <1>4, <2>1 DEF Owned
    <2> QED BY <1>1, <1>2, <2>1, <2>2
  <1> QED BY <1>1, <1>2, <1>3, <1>4 DEF Owned

LEMMA OwnedNext ==
  ASSUME Shape, Owned, [Next]_vars
  PROVE  Owned'
  <1>1. CASE Next
    BY <1>1, OwnedBegins, OwnedProceeds, OwnedChats, OwnedRestarts DEF Next, BeginIngest
  <1>2. CASE UNCHANGED vars
    BY <1>2 DEF vars, chatVars, Owned, InIngest, InChat
  <1> QED BY <1>1, <1>2

-----------------------------------------------------------------------------
\* A step that moves no counter of p and brings none of its ingestions to its report
\* leaves what p counts.
LEMMA CountKept ==
  ASSUME CountInv, NEW p \in Procs,
         count'[p] = count[p],
         index \subseteq index',
         \A j \in Jobs : ing[j] \in {"report", "done", "lost"} =>
                            ing'[j] \in {"report", "done", "lost"},
         \A j \in Jobs : on'[j] = p /\ ing'[j] = "report" => on[j] = p /\ ing[j] = "report"
  PROVE  \E J \in SUBSET Jobs : Counts(p, J)'
  <1> PICK J \in SUBSET Jobs : Counts(p, J)
    BY DEF CountInv
  <1> QED BY DEF Counts, DocumentsOf, VectorsOf

\* The last put: the whole ingestion is counted where it was not.
LEMMA CountLast ==
  ASSUME Shape, PutInv, IndexInv, IndexInv', index \subseteq index', CountInv,
         NEW j \in Jobs, PutLast(j), on[j] \in Procs
  PROVE  \E J \in SUBSET Jobs : Counts(on[j], J)'
  <1> DEFINE p == on[j]
  <1> PICK J \in SUBSET Jobs : Counts(p, J)
    BY DEF CountInv
  <1> DEFINE K == J \cup {j}
  <1>1. /\ ing[j] \in {"embed", "put"} /\ ing' = [ing EXCEPT ![j] = "report"]
        /\ sent' = [sent EXCEPT ![j] = Docs[j]]
        /\ count' = [count EXCEPT ![p] = @ + Docs[j]] /\ UNCHANGED on
    BY DEF PutLast
  <1>2. j \notin J
    BY <1>1 DEF Counts
  <1>3. DocumentsOf(K) = DocumentsOf(J) \cup VectorsOf(j)
    BY DEF DocumentsOf
  <1>4. DocumentsOf(J) \cap VectorsOf(j) = {}
    BY <1>2 DEF DocumentsOf, VectorsOf
  <1>5. VectorsOf(j) \subseteq index'
    <2>1. PutInv'
      BY PutStores
    <2>2. sent'[j] = Docs[j] /\ Docs[j] \in Nat
      BY <1>1, S3Assumption DEF Shape
    <2> QED BY <2>1, <2>2 DEF PutInv, Stored, VectorsOf
  <1>6. IsFiniteSet(DocumentsOf(J))
    BY FS_Subset DEF Counts, IndexInv
  <1>7. Cardinality(DocumentsOf(K)) = Cardinality(DocumentsOf(J)) + Docs[j]
    <2>1. IsFiniteSet(VectorsOf(j)) /\ Cardinality(VectorsOf(j)) = Docs[j] /\ Docs[j] \in Nat
      BY VectorsAreDocs, S3Assumption
    <2>2. Cardinality(DocumentsOf(J)) \in Nat
      BY <1>6, FS_CardinalityType
    <2>3. Cardinality(DocumentsOf(K)) = Cardinality(DocumentsOf(J)) + Cardinality(VectorsOf(j))
                                        - Cardinality(DocumentsOf(J) \cap VectorsOf(j))
      BY <1>3, <1>6, <2>1, FS_Union
    <2>4. Cardinality(DocumentsOf(J) \cap VectorsOf(j)) = 0
      BY <1>4, FS_EmptySet
    <2> HIDE DEF K
    <2> QED BY <2>1, <2>2, <2>3, <2>4
  <1>8. count'[p] = Cardinality(DocumentsOf(K))
    BY <1>1, <1>7 DEF Counts, CountInv
  <1>9. DocumentsOf(K) \subseteq index'
    BY <1>3, <1>5 DEF Counts
  <1>10. /\ \A k \in K : ing'[k] \in {"report", "done", "lost"}
         /\ \A k \in Jobs : on'[k] = p /\ ing'[k] = "report" => k \in K
    BY <1>1 DEF Counts, Shape
  <1>11. on'[j] = on[j] /\ DocumentsOf(K)' = DocumentsOf(K)
    BY <1>1 DEF DocumentsOf, VectorsOf
  <1>12. Counts(on[j], K)'
    BY <1>1, <1>8, <1>9, <1>10, <1>11 DEF Counts
  <1>13. K \in SUBSET Jobs
    OBVIOUS
  <1> QED BY <1>12, <1>13, Zenon

LEMMA CountIngest ==
  ASSUME Shape, PutInv, IndexInv, IndexInv', index \subseteq index', Owned, CountInv,
         NEW j \in Jobs, BeginIngest(j) \/ ProceedIngest(j)
  PROVE  CountInv'
  <1>1. Docs[j] \in Nat /\ ing \in [Jobs -> IngStates] /\ count \in [Procs -> Nat]
    BY S3Assumption DEF Shape, CountInv
  <1>2. CASE PutLast(j)
    <2>1. /\ count' = [count EXCEPT ![on[j]] = @ + Docs[j]]
          /\ ing' = [ing EXCEPT ![j] = "report"] /\ UNCHANGED on
          /\ ing[j] \in {"embed", "put"}
      BY <1>2 DEF PutLast
    <2>2. on[j] \in Procs
      BY <2>1 DEF Owned, InIngest
    <2>3. ASSUME NEW p \in Procs, p # on[j]
          PROVE  \E J \in SUBSET Jobs : Counts(p, J)'
      BY <1>1, <2>1, <2>3, CountKept
    <2>4. \E J \in SUBSET Jobs : Counts(on[j], J)'
      BY <1>2, <2>2, CountLast
    <2>5. count' \in [Procs -> Nat]
      BY <1>1, <2>1, <2>2
    <2>6. \A p \in Procs : \E J \in SUBSET Jobs : Counts(p, J)'
      BY <2>1, <2>3, <2>4 DEF Counts
    <2> QED BY <2>5, <2>6 DEF CountInv
  <1>3. CASE ~PutLast(j)
    <2>1. UNCHANGED count
      BY <1>3 DEF BeginIngest, ProceedIngest, IngestNothing, StartReady, CreateBucket, CreateIndex,
                  PutMore, Report, IngestFails
    <2>2. \/ ing[j] \in {"new", "create", "embed", "put"} /\
             \E state \in IngStates \ {"report"} : ing' = [ing EXCEPT ![j] = state]
          \/ ing[j] = "report" /\ ing' = [ing EXCEPT ![j] = "done"]
      BY <1>3 DEF BeginIngest, ProceedIngest, IngestNothing, StartReady, CreateBucket, CreateIndex,
                  PutMore, Report, IngestFails, IngStates
    <2>3. \A k \in Jobs \ {j} : on'[k] = on[k]
      BY DEF BeginIngest, ProceedIngest, IngestNothing, StartReady, CreateBucket, CreateIndex,
             PutMore, PutLast, Report, IngestFails, Shape
    <2>4. ing'[j] # "report"
      BY <1>1, <2>2
    <2>5. /\ \A k \in Jobs : ing[k] \in {"report", "done", "lost"} =>
                                ing'[k] \in {"report", "done", "lost"}
          /\ \A k \in Jobs \ {j} : ing'[k] = ing[k]
      BY <1>1, <2>2
    <2>6. ASSUME NEW p \in Procs
          PROVE  \E J \in SUBSET Jobs : Counts(p, J)'
      BY <2>1, <2>3, <2>4, <2>5, CountKept
    <2> QED BY <1>1, <2>1, <2>6 DEF CountInv
  <1> QED BY <1>2, <1>3

LEMMA CountRestart ==
  ASSUME Shape, index \subseteq index', CountInv, NEW q \in Procs, Restart(q)
  PROVE  CountInv'
  <1>1. /\ count' = [count EXCEPT ![q] = 0] /\ UNCHANGED on
        /\ ing' = [j \in Jobs |-> IF on[j] = q /\ ing[j] \in {"create", "embed", "put", "report"}
                                    THEN "lost" ELSE ing[j]]
    BY DEF Restart
  <1>2. count \in [Procs -> Nat]
    BY DEF CountInv
  <1>3. ASSUME NEW p \in Procs, p # q
        PROVE  \E J \in SUBSET Jobs : Counts(p, J)'
    BY <1>1, <1>2, <1>3, CountKept
  <1>4. Counts(q, {})'
    <2>1. count'[q] = Cardinality({})
      BY <1>1, <1>2, FS_EmptySet
    <2> QED BY <1>1, <2>1 DEF Counts, DocumentsOf
  <1>5. \A p \in Procs : \E J \in SUBSET Jobs : Counts(p, J)'
    BY <1>3, <1>4
  <1>6. count' \in [Procs -> Nat]
    BY <1>1, <1>2
  <1> QED BY <1>5, <1>6 DEF CountInv

LEMMA CountNext ==
  ASSUME Shape, PutInv, IndexInv, IndexInv', index \subseteq index', Owned, CountInv, [Next]_vars
  PROVE  CountInv'
  <1>1. ASSUME UNCHANGED <<ing, count>>, \A k \in Jobs : on'[k] = on[k]
        PROVE  CountInv'
    <2>1. ASSUME NEW p \in Procs
          PROVE  \E J \in SUBSET Jobs : Counts(p, J)'
      BY <1>1, CountKept
    <2> QED BY <1>1, <2>1 DEF CountInv
  <1>2. ASSUME NEW r \in Chats, BeginChat(r) \/ ProceedChat(r)
        PROVE  CountInv'
    <2>1. UNCHANGED <<ing, count>>
      BY <1>2 DEF BeginChat, ProceedChat, ChatHit, ChatMiss, Search, SearchRaises, ChatAnswers,
                  ChatFails
    <2>2. (\E p : on' = [on EXCEPT ![r] = p]) \/ on' = on
      BY <1>2 DEF BeginChat, ProceedChat, ChatHit, ChatMiss, ChatArrives, Search, SearchRaises,
                  ChatAnswers, ChatFails
    <2>3. \A k \in Jobs : k # r
      BY S3Assumption
    <2> QED BY <1>1, <2>1, <2>2, <2>3 DEF Shape
  <1>3. CASE UNCHANGED vars
    BY <1>1, <1>3 DEF vars
  <1> QED BY <1>2, <1>3, CountIngest, CountRestart DEF Next

-----------------------------------------------------------------------------
\* Neither source of the size counts a vector that is not stored.
LEMMA SizesAreStored ==
  ASSUME IndexInv, CountInv, NEW p \in Procs, NEW n \in Sizes(p)
  PROVE  n \in 0..Cardinality(index)
  <1> PICK J \in SUBSET Jobs : Counts(p, J)
    BY DEF CountInv
  <1>1. Cardinality(index) \in Nat /\ count[p] \in Nat
    BY FS_CardinalityType DEF IndexInv, CountInv
  <1>2. Cardinality(DocumentsOf(J)) <= Cardinality(index)
    BY FS_Subset DEF Counts, IndexInv
  <1> QED BY <1>1, <1>2 DEF Sizes, Counts

\* Nor does one leave out the ingestion that asks.
LEMMA SizesCountTheirs ==
  ASSUME Shape, PutInv, IndexInv, CountInv, NEW j \in Jobs, ing[j] = "report", on[j] \in Procs,
         NEW n \in Sizes(on[j])
  PROVE  Docs[j] <= n
  <1> PICK J \in SUBSET Jobs : Counts(on[j], J)
    BY DEF CountInv
  <1>1. VectorsOf(j) \subseteq DocumentsOf(J)
    BY DEF Counts, DocumentsOf
  <1>2. VectorsOf(j) \subseteq index
    <2>1. Docs[j] <= sent[j] /\ sent[j] \in Nat /\ Docs[j] \in Nat
      BY S3Assumption DEF PutInv, Stored, Shape
    <2> QED BY <2>1 DEF PutInv, Stored, VectorsOf
  <1>3. IsFiniteSet(index) /\ IsFiniteSet(DocumentsOf(J))
    BY FS_Subset DEF IndexInv, Counts
  <1>4. Docs[j] <= Cardinality(DocumentsOf(J)) /\ Docs[j] <= Cardinality(index)
    BY <1>1, <1>2, <1>3, VectorsAreDocs, FS_Subset
  <1> QED BY <1>4 DEF Sizes, Counts

\* Totals are set by an answer and stay; the index only grows.
LEMMA TotalNext ==
  ASSUME Shape, PutInv, IndexInv, Owned, CountInv, TotalInv, [Next]_vars,
         Cardinality(index) \in Nat, Cardinality(index') \in Nat,
         Cardinality(index) <= Cardinality(index')
  PROVE  TotalInv'
  <1>1. total \in [Jobs -> 0..Cardinality(index)] /\ ing \in [Jobs -> IngStates]
    BY DEF TotalInv, Shape
  <1>2. ASSUME UNCHANGED total, \A k \in Jobs : ing'[k] = "done" => ing[k] = "done"
        PROVE  TotalInv'
    <2>1. total' \in [Jobs -> 0..Cardinality(index')]
      BY <1>1, <1>2
    <2>2. \A k \in Jobs : total[k] <= Cardinality(index')
      BY <1>1
    <2> QED BY <1>2, <2>1, <2>2 DEF TotalInv, TotalsAreHonest, Acknowledged
  <1>3. ASSUME NEW j \in Jobs, NEW state \in {"nothing", "done"}, NEW n \in 0..Cardinality(index),
               total' = [total EXCEPT ![j] = n], ing' = [ing EXCEPT ![j] = state],
               state = "done" => Docs[j] <= n
        PROVE  TotalInv'
    <2>1. total' \in [Jobs -> 0..Cardinality(index')]
      BY <1>1, <1>3
    <2>2. \A k \in Jobs : ing'[k] = "done" => Docs[k] <= total'[k]
      BY <1>1, <1>3 DEF TotalInv, TotalsAreHonest, Acknowledged
    <2> QED BY <2>1, <2>2 DEF TotalInv, TotalsAreHonest, Acknowledged
  <1>4. ASSUME NEW j \in Jobs, NEW p \in Procs, IngestNothing(j, p)
        PROVE  TotalInv'
    <2> PICK n \in Sizes(p) : total' = [total EXCEPT ![j] = n]
      BY <1>4 DEF IngestNothing
    <2>1. ing' = [ing EXCEPT ![j] = "nothing"]
      BY <1>4 DEF IngestNothing
    <2> QED BY <1>3, <2>1, SizesAreStored
  <1>5. ASSUME NEW j \in Jobs, Report(j)
        PROVE  TotalInv'
    <2> PICK n \in Sizes(on[j]) : total' = [total EXCEPT ![j] = n]
      BY <1>5 DEF Report
    <2>1. ing[j] = "report" /\ ing' = [ing EXCEPT ![j] = "done"]
      BY <1>5 DEF Report
    <2>2. on[j] \in Procs
      BY <2>1 DEF Owned, InIngest
    <2> QED BY <1>3, <2>1, <2>2, SizesAreStored, SizesCountTheirs
  <1>6. ASSUME NEW j \in Jobs, NEW p \in Procs, StartReady(j, p) \/ CreateBucket(j, p)
        PROVE  TotalInv'
    BY <1>1, <1>2, <1>6 DEF StartReady, CreateBucket
  <1>7. ASSUME NEW j \in Jobs, CreateIndex(j) \/ PutMore(j) \/ PutLast(j) \/ IngestFails(j)
        PROVE  TotalInv'
    BY <1>1, <1>2, <1>7 DEF CreateIndex, PutMore, PutLast, IngestFails
  <1>8. ASSUME NEW r \in Chats, BeginChat(r) \/ ProceedChat(r)
        PROVE  TotalInv'
    <2>1. UNCHANGED <<total, ing>>
      BY <1>8 DEF BeginChat, ProceedChat, ChatHit, ChatMiss, Search, SearchRaises, ChatAnswers,
                  ChatFails
    <2> QED BY <1>2, <2>1
  <1>9. ASSUME NEW p \in Procs, Restart(p)
        PROVE  TotalInv'
    <2>1. UNCHANGED total /\ \A k \in Jobs : ing'[k] \in {ing[k], "lost"}
      BY <1>9 DEF Restart
    <2> QED BY <1>2, <2>1
  <1>10. CASE UNCHANGED vars
    BY <1>2, <1>10 DEF vars
  <1> QED BY <1>4, <1>5, <1>6, <1>7, <1>8, <1>9, <1>10 DEF Next, BeginIngest, ProceedIngest

-----------------------------------------------------------------------------
IIndex == Shape /\ PutInv /\ IndexInv /\ Owned /\ CountInv /\ TotalInv

LEMMA IIndexHolds == Spec => []IIndex
  <1>1. Init => IIndex
    BY ShapeInit, PutInit, IndexInit DEF IIndex
  <1>2. IIndex /\ [Next]_vars /\ Shape' => IIndex'
    <2> SUFFICES ASSUME IIndex, [Next]_vars, Shape' PROVE IIndex'
      OBVIOUS
    <2>1. Shape /\ PutInv /\ IndexInv /\ Owned /\ CountInv /\ TotalInv
      BY DEF IIndex
    <2>2. PutInv'
      BY <2>1, PutNext
    <2>3. /\ IndexInv' /\ index \subseteq index'
          /\ Cardinality(index) \in Nat /\ Cardinality(index') \in Nat
          /\ Cardinality(index) <= Cardinality(index')
      BY <2>1, IndexNext
    <2>4. Owned'
      BY <2>1, OwnedNext
    <2>5. CountInv'
      BY <2>1, <2>3, CountNext
    <2>6. TotalInv'
      BY <2>1, <2>3, TotalNext
    <2> QED BY <2>2, <2>3, <2>4, <2>5, <2>6 DEF IIndex
  <1> QED BY <1>1, <1>2, ShapeHolds, PTL DEF Spec

LEMMA TypesFollow == ASSUME IIndex PROVE S3TypeOK
  <1>1. count \in [Procs -> 0..Cardinality(index)]
    <2>1. \A p \in Procs : count[p] \in 0..Cardinality(index)
      BY SizesAreStored DEF IIndex, Sizes
    <2> QED BY <2>1 DEF IIndex, CountInv
  <1> QED BY <1>1 DEF IIndex, Shape, IndexInv, Owned, TotalInv, S3TypeOK

\* The variables have their types in every reachable state: an event loop is kept only by an
\* ingestion in progress on its own process, and no process counts, and no client is told,
\* more vectors than the index holds (s3_vectors.py:111-116).
THEOREM S3TypesHold == Spec => []S3TypeOK
  <1> QED BY IIndexHolds, TypesFollow, PTL

\* The total of an acknowledged ingestion counts its own documents and nothing that is not
\* stored, for any number of processes that put, fail and restart, whether the service was
\* asked or the process's own counter (s3_vectors.py:155-166).
THEOREM TotalsAreHonestHolds == Spec => []TotalsAreHonest
  <1>1. IIndex => TotalsAreHonest
    BY DEF IIndex, TotalInv
  <1> QED BY <1>1, IIndexHolds, PTL
=============================================================================
