----------------------------- MODULE WebProofs -----------------------------
(* A page agrees with the service's memory, with its ingestions and with what was typed,
   for every value of the constants. *)
EXTENDS WebClient, SequenceTheorems, FiniteSetTheorems, TLAPS

(* Types. *)

LEMMA WebInitTypes == WebInit => WebTypes
BY WebAssumption, EmptySeq DEF WebInit, Init, WebTypes, Pages

LEMMA CheckCounts ==
    ASSUME asked \in [Pages -> Nat], cut \in [Pages -> Nat], NEW p \in Pages, Check(p)
    PROVE  asked' \in [Pages -> Nat] /\ cut' \in [Pages -> Nat]
<1>1. CASE up
  BY <1>1 DEF Check
<1>2. CASE ~up
  BY <1>2 DEF Check
<1> QED BY <1>1, <1>2

LEMMA WebStepTypes == WebTypes /\ [WebNext]_vars => WebTypes'
<1> SUFFICES ASSUME WebTypes, [WebNext]_vars PROVE WebTypes'
  OBVIOUS
<1> USE DEF WebTypes
<1>1. ASSUME NEW p \in Pages, PageStep(p) PROVE WebTypes'
  <2> USE DEF contractVars, chatVars, panelVars, badgeVars, serviceVars, Call, Becomes
  <2>1. ASSUME NEW r \in Requests, Send(p, r) PROVE WebTypes'
    <3>1. Append(thread[p], r) \in Seq(Requests)
      BY AppendProperties
    <3> QED BY <2>1, <3>1 DEF Send
  <2>2. ASSUME NEW r \in Requests, Ends(p, r) PROVE WebTypes'
    BY <2>2 DEF Ends, Show, Fail
  <2>3. ASSUME NEW d \in Documents, Type(p, d) PROVE WebTypes'
    BY <2>3 DEF Type
  <2>4. ASSUME NEW i \in Jobs, Submit(p, i) PROVE WebTypes'
    BY <2>4 DEF Submit
  <2>5. ASSUME NEW i \in Jobs, PanelEnds(p, i) PROVE WebTypes'
    <3>1. CASE Ingested(p, i)
      BY <3>1 DEF Ingested
    <3>2. CASE IngestFails(p, i)
      BY <3>2 DEF IngestFails
    <3> QED BY <2>5, <3>1, <3>2 DEF PanelEnds
  <2>6. CASE SubmitNothing(p)
    BY <2>6 DEF SubmitNothing
  <2>7. CASE Check(p)
    <3>1. asked' \in [Pages -> Nat] /\ cut' \in [Pages -> Nat]
      BY <2>7, CheckCounts
    <3>2. ASSUME NEW q \in Pages PROVE asked'[q] + cut'[q] <= MaxChecks
      <4>1. CASE q = p
        BY <2>7, <4>1, WebAssumption DEF Check
      <4>2. CASE q # p
        BY <2>7, <4>2 DEF Check
      <4> QED BY <4>1, <4>2
    <3> QED BY <2>7, <3>1, <3>2 DEF Check
  <2>8. CASE CheckAnswered(p)
    BY <2>8, WebAssumption DEF CheckAnswered
  <2>9. CASE CheckFails(p)
    BY <2>9, WebAssumption DEF CheckFails
  <2> QED BY <1>1, <2>1, <2>2, <2>3, <2>4, <2>5, <2>6, <2>7, <2>8, <2>9 DEF PageStep
<1>2. CASE ServiceStep
  <2> USE DEF contractVars, chatVars, panelVars, badgeVars, serviceVars
  <2>1. ASSUME NEW r \in Requests, Serve(r) PROVE WebTypes'
    <3>1. ask' = ask
      BY <2>1 DEF Serve, Generate, Reuse, Refuse
    <3> QED BY <2>1, <3>1 DEF Serve
  <2>2. ASSUME NEW i \in Jobs, Store(i) PROVE WebTypes'
    BY <2>2 DEF Store, Learn
  <2>3. CASE Expire
    BY <2>3 DEF Expire, Forget
  <2>4. CASE Stop
    <3>1. asked' \in [Pages -> Nat] /\ cut' \in [Pages -> Nat]
      BY <2>4 DEF Stop
    <3>2. \A q \in Pages : asked'[q] + cut'[q] <= MaxChecks
      BY <2>4 DEF Stop
    <3>3. stops' \in 0..MaxStops
      BY <2>4, WebAssumption DEF Stop
    <3> QED BY <2>4, <3>1, <3>2, <3>3 DEF Stop
  <2>5. CASE Start
    BY <2>5 DEF Start
  <2> QED BY <1>2, <2>1, <2>2, <2>3, <2>4, <2>5 DEF ServiceStep
<1>3. CASE UNCHANGED vars
  BY <1>3 DEF vars, contractVars, chatVars, panelVars, badgeVars, serviceVars
<1> QED BY <1>1, <1>2, <1>3 DEF WebNext

-----------------------------------------------------------------------------
(* The chat of a page: what is pending is the last message of its list. *)

Last(p) == Len(thread[p])

ThreadInv ==
    \A p \in Pages : \A i \in DOMAIN thread[p] :
        /\ ask[thread[p][i]].session = p
        /\ shown[thread[p][i]] # "unsent"
        /\ \A j \in DOMAIN thread[p] : thread[p][i] = thread[p][j] => i = j
        /\ shown[thread[p][i]] = "pending" => i = Len(thread[p]) /\ busy[p]

SentInv ==
    /\ \A r \in Requests : shown[r] # "unsent" =>
          \E i \in DOMAIN thread[ask[r].session] : thread[ask[r].session][i] = r
    /\ \A p \in Pages : busy[p] => \E r \in Pending(p) : TRUE

LEMMA AskTypes ==
    ASSUME WebTypes, NEW r \in Requests
    PROVE  ask[r].session \in Pages
BY WebAssumption DEF WebTypes, Pages

LEMMA ChatUnchanged ==
    ASSUME WebTypes, [WebNext]_vars,
           \A p \in Pages, r \in Requests : ~Send(p, r) /\ ~Ends(p, r)
    PROVE  UNCHANGED <<ask, thread, shown, busy>>
<1> USE DEF contractVars, chatVars
<1>1. ASSUME NEW p \in Pages, PageStep(p) PROVE UNCHANGED <<ask, thread, shown, busy>>
  BY <1>1 DEF PageStep, Type, Submit, PanelEnds, Ingested, IngestFails, SubmitNothing, Check,
              CheckAnswered, CheckFails
<1>2. CASE ServiceStep
  BY <1>2 DEF ServiceStep, Serve, Generate, Reuse, Refuse, Store, Learn, Expire, Forget,
              Stop, Start
<1>3. CASE UNCHANGED vars
  BY <1>3 DEF vars
<1> QED BY <1>1, <1>2, <1>3 DEF WebNext

\* What a send does to a thread.
LEMMA SendEffect ==
    ASSUME WebTypes, NEW p \in Pages, NEW r \in Requests, Send(p, r)
    PROVE  /\ ask' = ask /\ ask[r].session = p /\ shown[r] = "unsent" /\ ~busy[p]
           /\ Len(thread[p]) \in Nat /\ Len(thread'[p]) = Len(thread[p]) + 1
           /\ DOMAIN thread[p] = 1..Len(thread[p]) /\ DOMAIN thread'[p] = 1..(Len(thread[p]) + 1)
           /\ \A i \in 1..Len(thread[p]) : thread'[p][i] = thread[p][i]
           /\ thread'[p][Len(thread[p]) + 1] = r
           /\ \A q \in Pages : q # p => thread'[q] = thread[q]
           /\ \A q \in Requests : shown'[q] = IF q = r THEN "pending" ELSE shown[q]
           /\ busy'[p] /\ \A q \in Pages : q # p => (busy'[q] <=> busy[q])
<1>1. thread'[p] = Append(thread[p], r) /\ thread[p] \in Seq(Requests)
  BY DEF Send, WebTypes
<1>2. /\ Len(thread[p]) \in Nat /\ Len(thread'[p]) = Len(thread[p]) + 1
      /\ DOMAIN thread[p] = 1..Len(thread[p]) /\ DOMAIN thread'[p] = 1..(Len(thread[p]) + 1)
      /\ \A i \in 1..Len(thread[p]) : thread'[p][i] = thread[p][i]
      /\ thread'[p][Len(thread[p]) + 1] = r
  BY <1>1, AppendProperties, LenProperties
<1>3. /\ ask' = ask /\ ask[r].session = p /\ shown[r] = "unsent" /\ ~busy[p]
      /\ \A q \in Pages : q # p => thread'[q] = thread[q]
      /\ \A q \in Requests : shown'[q] = IF q = r THEN "pending" ELSE shown[q]
      /\ busy'[p] /\ \A q \in Pages : q # p => (busy'[q] <=> busy[q])
  BY DEF Send, WebTypes, contractVars
<1> QED BY <1>2, <1>3

\* What the end of a call does to a page.
LEMMA EndEffect ==
    ASSUME WebTypes, NEW p \in Pages, NEW r \in Requests, Ends(p, r)
    PROVE  /\ ask' = ask /\ thread' = thread /\ shown[r] = "pending" /\ ask[r].session = p
           /\ shown'[r] \in {"answer", "error"}
           /\ \A q \in Requests : q # r => shown'[q] = shown[q]
           /\ ~busy'[p] /\ \A q \in Pages : q # p => (busy'[q] <=> busy[q])
<1>1. CASE Show(p, r)
  BY <1>1 DEF Show, Becomes, WebTypes, contractVars
<1>2. CASE Fail(p, r)
  BY <1>2 DEF Fail, Becomes, WebTypes, contractVars
<1> QED BY <1>1, <1>2 DEF Ends

LEMMA ThreadElements ==
    ASSUME WebTypes, NEW p \in Pages, NEW i \in DOMAIN thread[p]
    PROVE  thread[p][i] \in Requests
BY ElementOfSeq, LenProperties DEF WebTypes

LEMMA ThreadStep ==
    ASSUME WebTypes, WebTypes', ThreadInv, SentInv, [WebNext]_vars
    PROVE  ThreadInv' /\ SentInv'
<1>1. ASSUME NEW p \in Pages, NEW r \in Requests, Send(p, r) PROVE ThreadInv' /\ SentInv'
  <2> DEFINE n == Len(thread[p])
  <2>1. /\ ask' = ask /\ ask[r].session = p /\ shown[r] = "unsent" /\ ~busy[p]
        /\ n \in Nat /\ Len(thread'[p]) = n + 1
        /\ DOMAIN thread[p] = 1..n /\ DOMAIN thread'[p] = 1..(n + 1)
        /\ \A i \in 1..n : thread'[p][i] = thread[p][i]
        /\ thread'[p][n + 1] = r
        /\ \A q \in Pages : q # p => thread'[q] = thread[q]
        /\ \A q \in Requests : shown'[q] = IF q = r THEN "pending" ELSE shown[q]
        /\ busy'[p] /\ \A q \in Pages : q # p => (busy'[q] <=> busy[q])
    BY <1>1, SendEffect
  <2> HIDE DEF n
  <2>2. \A i \in 1..n : /\ thread[p][i] \in Requests /\ thread[p][i] # r
                        /\ shown[thread[p][i]] # "pending"
    BY <2>1, ThreadElements DEF ThreadInv
  <2>3. ASSUME NEW i \in 1..(n + 1)
        PROVE  /\ ask[thread'[p][i]].session = p
               /\ shown'[thread'[p][i]] # "unsent"
               /\ \A j \in 1..(n + 1) : thread'[p][i] = thread'[p][j] => i = j
               /\ shown'[thread'[p][i]] = "pending" => i = n + 1
    <3>1. \A k \in 1..(n + 1) : k \in 1..n \/ k = n + 1
      BY <2>1
    <3>2. CASE i = n + 1
      BY <2>1, <2>2, <3>1, <3>2
    <3>3. CASE i \in 1..n
      BY <2>1, <2>2, <3>1, <3>3 DEF ThreadInv
    <3> QED BY <3>1, <3>2, <3>3
  <2>4. ASSUME NEW q \in Pages, q # p, NEW i \in DOMAIN thread'[q]
        PROVE  /\ ask[thread'[q][i]].session = q
               /\ shown'[thread'[q][i]] # "unsent"
               /\ \A j \in DOMAIN thread'[q] : thread'[q][i] = thread'[q][j] => i = j
               /\ shown'[thread'[q][i]] = "pending" => i = Len(thread'[q]) /\ busy'[q]
    <3>1. thread'[q] = thread[q] /\ thread[q][i] \in Requests
      BY <2>1, <2>4, ThreadElements
    <3>2. thread[q][i] # r
      BY <2>1, <2>4, <3>1 DEF ThreadInv
    <3> QED BY <2>1, <2>4, <3>1, <3>2 DEF ThreadInv
  <2>5. ThreadInv'
    BY <2>1, <2>3, <2>4 DEF ThreadInv
  <2>6. ASSUME NEW q \in Requests, shown'[q] # "unsent"
        PROVE  \E i \in DOMAIN thread'[ask[q].session] : thread'[ask[q].session][i] = q
    <3>1. CASE q = r
      <4>1. n + 1 \in DOMAIN thread'[p]
        BY <2>1
      <4> QED BY <2>1, <3>1, <4>1
    <3>2. CASE q # r
      <4>1. PICK i \in DOMAIN thread[ask[q].session] : thread[ask[q].session][i] = q
        BY <2>1, <2>6, <3>2 DEF SentInv
      <4>2. CASE ask[q].session = p
        <5>1. i \in DOMAIN thread'[p] /\ thread'[p][i] = q
          BY <2>1, <4>1, <4>2
        <5> QED BY <4>2, <5>1
      <4>3. CASE ask[q].session # p
        BY <2>1, <4>1, <4>3, AskTypes
      <4> QED BY <4>2, <4>3
    <3> QED BY <3>1, <3>2
  <2>7. \A q \in Pages : busy'[q] => \E x \in Requests : shown'[x] = "pending" /\ ask[x].session = q
    BY <2>1 DEF SentInv, Pending
  <2> QED BY <2>1, <2>5, <2>6, <2>7 DEF SentInv, Pending
<1>2. ASSUME NEW p \in Pages, NEW r \in Requests, Ends(p, r) PROVE ThreadInv' /\ SentInv'
  <2>1. /\ ask' = ask /\ thread' = thread /\ shown[r] = "pending" /\ ask[r].session = p
        /\ shown'[r] \in {"answer", "error"}
        /\ \A q \in Requests : q # r => shown'[q] = shown[q]
        /\ ~busy'[p] /\ \A q \in Pages : q # p => (busy'[q] <=> busy[q])
    BY <1>2, EndEffect
  <2>2. PICK m \in DOMAIN thread[p] : thread[p][m] = r
    BY <2>1 DEF SentInv
  <2>3. m = Len(thread[p])
    BY <2>1, <2>2 DEF ThreadInv
  <2>4. ASSUME NEW q \in Pages, NEW i \in DOMAIN thread[q]
        PROVE  /\ shown'[thread[q][i]] # "unsent"
               /\ shown'[thread[q][i]] = "pending" => i = Len(thread[q]) /\ busy'[q]
    <3>1. thread[q][i] \in Requests
      BY <2>4, ThreadElements
    <3>2. CASE thread[q][i] = r
      BY <2>1, <3>2
    <3>3. CASE thread[q][i] # r
      <4>1. shown'[thread[q][i]] = shown[thread[q][i]]
        BY <2>1, <3>1, <3>3
      <4>2. ASSUME q = p, shown[thread[q][i]] = "pending" PROVE FALSE
        BY <2>2, <2>3, <3>3, <4>2 DEF ThreadInv
      <4> QED BY <2>1, <4>1, <4>2 DEF ThreadInv
    <3> QED BY <3>2, <3>3
  <2>5. ThreadInv'
    BY <2>1, <2>4 DEF ThreadInv
  <2>6. \A q \in Requests : shown'[q] # "unsent" => shown[q] # "unsent"
    BY <2>1
  <2>7. \A q \in Pages : busy'[q] => \E x \in Requests : shown'[x] = "pending" /\ ask[x].session = q
    <3> SUFFICES ASSUME NEW q \in Pages, busy'[q]
                 PROVE  \E x \in Requests : shown'[x] = "pending" /\ ask[x].session = q
      OBVIOUS
    <3>1. q # p /\ busy[q]
      BY <2>1
    <3>2. PICK x \in Requests : shown[x] = "pending" /\ ask[x].session = q
      BY <3>1 DEF SentInv, Pending
    <3> QED BY <2>1, <3>1, <3>2
  <2> QED BY <2>1, <2>5, <2>6, <2>7 DEF SentInv, Pending
<1>3. CASE \A p \in Pages, r \in Requests : ~Send(p, r) /\ ~Ends(p, r)
  BY <1>3, ChatUnchanged DEF ThreadInv, SentInv, Pending
<1> QED BY <1>1, <1>2, <1>3

\* A page that is busy has one pending message, a page that is not has none.
LEMMA OnePending ==
    ASSUME WebTypes, ThreadInv, SentInv, NEW p \in Pages
    PROVE  Cardinality(Pending(p)) = IF busy[p] THEN 1 ELSE 0
<1>1. \A r \in Pending(p) : busy[p] /\ r = thread[p][Len(thread[p])]
  <2> SUFFICES ASSUME NEW r \in Pending(p) PROVE busy[p] /\ r = thread[p][Len(thread[p])]
    OBVIOUS
  <2>1. PICK i \in DOMAIN thread[p] : thread[p][i] = r
    BY DEF SentInv, Pending
  <2> QED BY <2>1 DEF ThreadInv, Pending
<1>2. CASE busy[p]
  <2>1. PICK r : r \in Pending(p)
    BY <1>2 DEF SentInv
  <2>2. Pending(p) = {r}
    BY <1>1, <2>1
  <2> QED BY <1>2, <2>2, FS_Singleton
<1>3. CASE ~busy[p]
  <2>1. Pending(p) = {}
    BY <1>1, <1>3
  <2> QED BY <1>3, <2>1, FS_EmptySet
<1> QED BY <1>2, <1>3

-----------------------------------------------------------------------------
(* The memory of the session. *)

Fresh(r) == outcome[r].kind = "fresh"

LogTurns == [role : {"user", "assistant"}, by : Requests, text : Texts \cup DOMAIN Topic]

LogTypes ==
    /\ DOMAIN outcome = Requests
    /\ log \in [Sessions -> Seq(LogTurns)]

\* What is not sent has no outcome, what shows an answer has one.
OutcomeInv ==
    \A r \in Requests :
        /\ shown[r] = "unsent" => r \notin wire /\ Open(r)
        /\ shown[r] = "answer" => ~Open(r)

LogInv ==
    \A s \in Sessions : \A n \in DOMAIN log[s] :
        Fresh(log[s][n].by) /\ ask[log[s][n].by].session = s

Places(turns, a) == {n \in DOMAIN turns : turns[n].by = a}

\* If a has a place, b has one, and a's come first.
Ordered(turns, a, b) ==
    Places(turns, a) # {} =>
        /\ Places(turns, b) # {}
        /\ \A m \in Places(turns, a), n \in Places(turns, b) : m < n

\* Once a is seen, what comes after it on the page comes after it in the memory.
OrderInv ==
    \A p \in Pages : \A i, j \in DOMAIN thread[p] :
        i < j /\ Seen(thread[p][i]) /\ Fresh(thread[p][j]) =>
            Ordered(log[p], thread[p][i], thread[p][j])

\* The steps of the service on outcomes and memory.
MemoryEffect ==
    \/ log' = log /\ \A r \in Requests : outcome'[r].kind = "fresh" <=> Fresh(r)
    \/ log' = [s \in Sessions |-> <<>>] /\ outcome' = outcome
    \/ \E r \in Requests, words \in Texts : Generate(r, words)

OutcomeEffect ==
    /\ DOMAIN outcome' = DOMAIN outcome
    /\ \A r \in Requests : \/ outcome'[r] = outcome[r]
                           \/ Open(r) /\ outcome'[r].kind # "none" /\ r \in wire

LEMMA ServiceEffects ==
    ASSUME LogTypes, ServiceStep
    PROVE  /\ MemoryEffect /\ OutcomeEffect
           /\ UNCHANGED <<ask, thread, shown, busy>> /\ wire' \subseteq wire
<1> USE DEF contractVars, chatVars, panelVars, badgeVars, serviceVars, MemoryEffect, OutcomeEffect
<1>1. ASSUME NEW r \in Requests, Serve(r)
      PROVE  /\ MemoryEffect /\ OutcomeEffect
             /\ UNCHANGED <<ask, thread, shown, busy>> /\ wire' \subseteq wire
  <2>1. ASSUME NEW words \in Texts, Generate(r, words)
        PROVE  MemoryEffect /\ OutcomeEffect /\ ask' = ask
    BY <1>1, <2>1 DEF Serve, Generate, Outcome, LogTypes
  <2>2. ASSUME NEW e \in Requests, Reuse(r, e)
        PROVE  MemoryEffect /\ OutcomeEffect /\ ask' = ask
    BY <1>1, <2>2 DEF Serve, Reuse, Outcome, LogTypes, Fresh, Open
  <2>3. CASE Refuse(r)
    BY <1>1, <2>3 DEF Serve, Refuse, Outcome, LogTypes, Fresh, Open
  <2> QED BY <1>1, <2>1, <2>2, <2>3 DEF Serve
<1>2. ASSUME NEW i \in Jobs, Store(i)
      PROVE  /\ MemoryEffect /\ OutcomeEffect
             /\ UNCHANGED <<ask, thread, shown, busy>> /\ wire' \subseteq wire
  BY <1>2 DEF Store, Learn, Fresh
<1>3. CASE Expire
  BY <1>3 DEF Expire, Forget, Fresh
<1>4. CASE Stop
  BY <1>4 DEF Stop
<1>5. CASE Start
  BY <1>5 DEF Start, Fresh
<1> QED BY <1>1, <1>2, <1>3, <1>4, <1>5 DEF ServiceStep

\* A page leaves the memory and the outcomes alone.
LEMMA PageEffects ==
    ASSUME NEW p \in Pages, PageStep(p)
    PROVE  /\ UNCHANGED <<log, outcome>>
           /\ \A r \in Requests : r \in wire' => r \in wire \/ Send(p, r)
<1> USE DEF contractVars, chatVars, panelVars, badgeVars, serviceVars, Call
<1>1. ASSUME NEW r \in Requests, Send(p, r)
      PROVE  UNCHANGED <<log, outcome>> /\ wire' \subseteq wire \cup {r}
  BY <1>1 DEF Send
<1>2. ASSUME NEW r \in Requests, Ends(p, r) PROVE UNCHANGED <<log, outcome, wire>>
  BY <1>2 DEF Ends, Show, Fail
<1>3. ASSUME NEW i \in Jobs, Submit(p, i)
      PROVE  UNCHANGED <<log, outcome>> /\ wire' \subseteq wire \cup {i}
  BY <1>3 DEF Submit
<1>4. ASSUME \/ \E d \in Documents : Type(p, d)
             \/ \E i \in Jobs : PanelEnds(p, i)
             \/ SubmitNothing(p) \/ Check(p) \/ CheckAnswered(p) \/ CheckFails(p)
      PROVE  UNCHANGED <<log, outcome, wire>>
  BY <1>4 DEF Type, PanelEnds, Ingested, IngestFails, SubmitNothing, Check, CheckAnswered,
              CheckFails
<1> QED BY <1>1, <1>2, <1>3, <1>4, WebAssumption DEF PageStep

LEMMA OutcomeStep ==
    ASSUME WebTypes, LogTypes, OutcomeInv, [WebNext]_vars
    PROVE  OutcomeInv'
<1>1. ASSUME NEW p \in Pages, PageStep(p) PROVE OutcomeInv'
  <2>1. /\ UNCHANGED <<log, outcome>>
        /\ \A r \in Requests : r \in wire' => r \in wire \/ Send(p, r)
    BY <1>1, PageEffects
  <2>2. \A r \in Requests : Open(r)' <=> Open(r)
    BY <2>1 DEF Open
  <2>3. ASSUME NEW q \in Requests, Send(p, q) PROVE OutcomeInv'
    <3>1. \A r \in Requests : shown'[r] = IF r = q THEN "pending" ELSE shown[r]
      BY <2>3, SendEffect
    <3>2. wire' \subseteq wire \cup {q}
      BY <2>3 DEF Send, Call
    <3> QED BY <2>2, <3>1, <3>2 DEF OutcomeInv
  <2>4. ASSUME NEW q \in Requests, Ends(p, q) PROVE OutcomeInv'
    <3>1. /\ shown[q] = "pending" /\ shown'[q] \in {"answer", "error"}
          /\ \A r \in Requests : r # q => shown'[r] = shown[r]
      BY <2>4, EndEffect
    <3>2. wire' = wire
      BY <2>4 DEF Ends, Show, Fail, serviceVars
    <3>3. shown'[q] = "answer" => ~Open(q)
      BY <2>4, WebAssumption DEF Ends, Show, Fail, Becomes, Answered, Open, WebTypes
    <3> QED BY <2>2, <3>1, <3>2, <3>3 DEF OutcomeInv
  <2>5. CASE \A r \in Requests : ~Send(p, r) /\ ~Ends(p, r)
    <3>1. shown' = shown
      BY <1>1, <2>5 DEF PageStep, Type, Submit, PanelEnds, Ingested, IngestFails,
                        SubmitNothing, Check, CheckAnswered, CheckFails, chatVars
    <3> QED BY <2>1, <2>2, <2>5, <3>1 DEF OutcomeInv
  <2> QED BY <2>3, <2>4, <2>5
<1>2. CASE ServiceStep
  <2>1. OutcomeEffect /\ shown' = shown /\ wire' \subseteq wire
    BY <1>2, ServiceEffects
  <2> QED BY <2>1 DEF OutcomeEffect, OutcomeInv, Open
<1>3. CASE UNCHANGED vars
  BY <1>3 DEF vars, contractVars, chatVars, serviceVars, OutcomeInv, Open
<1> QED BY <1>1, <1>2, <1>3 DEF WebNext

-----------------------------------------------------------------------------
(* A new turn: the memory moves down by some d, and what is new is the turn's. *)

\* new is turns without its first d, and some of it is left.
CutBy(T, d, turns, new) ==
    /\ d < Len(turns)
    /\ new \in Seq(T) /\ Len(new) = Len(turns) - d
    /\ \A n \in 1..(Len(turns) - d) : new[n] = turns[n + d]

\* Of a list that is not empty, Newest keeps the end.
LEMMA NewestShifts ==
    ASSUME NEW T, NEW turns \in Seq(T), Len(turns) >= 1
    PROVE  \E d \in Nat : CutBy(T, d, turns, Newest(turns))
<1> USE DEF CutBy
<1>0. Len(turns) \in Nat /\ Keep \in Nat \ {0}
  BY LenProperties, WebAssumption
<1>1. CASE Len(turns) <= Keep
  <2>1. Newest(turns) = turns
    BY <1>1 DEF Newest
  <2>2. /\ 0 \in Nat /\ 0 < Len(turns) /\ Len(turns) = Len(turns) - 0
        /\ \A n \in 1..(Len(turns) - 0) : turns[n] = turns[n + 0]
    BY <1>0
  <2> QED BY <2>1, <2>2
<1>2. CASE ~(Len(turns) <= Keep)
  <2> DEFINE d == Len(turns) - Keep
  <2>1. Newest(turns) = SubSeq(turns, d + 1, Len(turns))
    BY <1>2 DEF Newest
  <2>2. d \in Nat /\ d < Len(turns)
    BY <1>0, <1>2
  <2> HIDE DEF d
  <2>3. /\ SubSeq(turns, d + 1, Len(turns)) \in Seq(T)
        /\ Len(SubSeq(turns, d + 1, Len(turns))) = Len(turns) - d
        /\ \A n \in 1..(Len(turns) - d) :
              SubSeq(turns, d + 1, Len(turns))[n] = turns[n + d]
    <3>1. /\ SubSeq(turns, d + 1, Len(turns)) \in Seq(T)
          /\ Len(SubSeq(turns, d + 1, Len(turns))) =
                IF d + 1 <= Len(turns) THEN Len(turns) - (d + 1) + 1 ELSE 0
          /\ \A n \in 1..(Len(turns) - (d + 1) + 1) :
                SubSeq(turns, d + 1, Len(turns))[n] = turns[(d + 1) + n - 1]
      <4>1. d + 1 \in 1..(Len(turns) + 1) /\ Len(turns) \in (d + 1 - 1)..Len(turns)
        BY <1>0, <2>2
      <4> QED BY <1>0, <2>2, <4>1, SubSeqProperties
    <3>2. d + 1 <= Len(turns) /\ Len(turns) - (d + 1) + 1 = Len(turns) - d
      BY <1>0, <2>2
    <3>3. \A n \in 1..(Len(turns) - d) : (d + 1) + n - 1 = n + d
      BY <1>0, <2>2
    <3> QED BY <3>1, <3>2, <3>3
  <2> QED BY <2>1, <2>2, <2>3
<1> QED BY <1>1, <1>2

\* The memory s of session after r's turn, d turns dropped.
MovedBy(r, d, old, new) ==
    /\ \A n \in DOMAIN new : \/ n + d \in DOMAIN old /\ new[n] = old[n + d]
                             \/ n + d > Len(old) /\ new[n].by = r
    /\ \A n \in DOMAIN old : n > d => n - d \in DOMAIN new /\ new[n - d] = old[n]
    /\ \E n \in DOMAIN new : new[n].by = r

\* all is old with a turn of r at its end, new is all without its first d.
LEMMA ShiftMoves ==
    ASSUME NEW r, NEW old, NEW all, NEW new, NEW k \in Nat, NEW d \in Nat,
           d < k + 2, Len(old) = k, DOMAIN old = 1..k, DOMAIN new = 1..(k + 2 - d),
           \A n \in 1..k : all[n] = old[n],
           all[k + 1].by = r, all[k + 2].by = r,
           \A n \in 1..(k + 2 - d) : new[n] = all[n + d]
    PROVE  MovedBy(r, d, old, new)
<1>1. ASSUME NEW n \in 1..(k + 2 - d)
      PROVE  \/ n + d \in 1..k /\ new[n] = old[n + d]
             \/ n + d > k /\ new[n].by = r
  <2>1. n + d \in 1..k \/ n + d = k + 1 \/ n + d = k + 2
    OBVIOUS
  <2>2. new[n] = all[n + d] /\ (n + d = k + 1 => n + d > k) /\ (n + d = k + 2 => n + d > k)
    OBVIOUS
  <2> QED BY <2>1, <2>2
<1>2. ASSUME NEW n \in 1..k, n > d
      PROVE  n - d \in 1..(k + 2 - d) /\ new[n - d] = old[n]
  <2>1. n - d \in 1..(k + 2 - d) /\ (n - d) + d = n
    BY <1>2
  <2>2. new[n - d] = all[(n - d) + d]
    BY <2>1
  <2> QED BY <2>1, <2>2
<1>3. \E n \in 1..(k + 2 - d) : new[n].by = r
  <2>1. k + 2 - d \in 1..(k + 2 - d) /\ (k + 2 - d) + d = k + 2
    OBVIOUS
  <2>2. new[k + 2 - d] = all[(k + 2 - d) + d]
    BY <2>1
  <2>3. new[k + 2 - d].by = r
    BY <2>1, <2>2
  <2> QED BY <2>1, <2>3
<1> QED BY <1>1, <1>2, <1>3 DEF MovedBy

LEMMA TurnMoves ==
    ASSUME NEW T, NEW old \in Seq(T), NEW turn \in Seq(T), NEW r,
           Len(turn) = 2, turn[1].by = r, turn[2].by = r
    PROVE  /\ Newest(old \o turn) \in Seq(T)
           /\ \E d \in Nat : MovedBy(r, d, old, Newest(old \o turn))
<1> DEFINE k == Len(old)
           all == old \o turn
<1>1. /\ k \in Nat /\ DOMAIN old = 1..k /\ all \in Seq(T) /\ Len(all) = k + 2
      /\ \A n \in 1..(k + 2) : all[n] = IF n <= k THEN old[n] ELSE turn[n - k]
  <2>1. k \in Nat /\ DOMAIN old = 1..k
    BY LenProperties
  <2>2. all \in Seq(T) /\ Len(all) = k + Len(turn)
    BY ConcatProperties
  <2>3. \A n \in 1..(k + Len(turn)) : all[n] = IF n <= k THEN old[n] ELSE turn[n - k]
    BY ConcatProperties
  <2> QED BY <2>1, <2>2, <2>3
<1>2. PICK d \in Nat : CutBy(T, d, all, Newest(all))
  <2> HIDE DEF all, k
  <2>1. all \in Seq(T) /\ Len(all) >= 1
    BY <1>1
  <2> QED BY <2>1, NewestShifts
<1> DEFINE new == Newest(all)
<1> HIDE DEF new, all
<1>3. /\ d < k + 2 /\ new \in Seq(T) /\ Len(new) = k + 2 - d
      /\ \A n \in 1..(k + 2 - d) : new[n] = all[n + d]
  BY <1>1, <1>2 DEF new, CutBy
<1>4. DOMAIN new = 1..(k + 2 - d)
  BY <1>3, LenProperties
<1>5. \A n \in 1..k : all[n] = old[n]
  BY <1>1
<1>6. all[k + 1].by = r /\ all[k + 2].by = r
  <2>1. /\ k + 1 \in 1..(k + 2) /\ ~(k + 1 <= k) /\ k + 1 - k = 1
        /\ k + 2 \in 1..(k + 2) /\ ~(k + 2 <= k) /\ k + 2 - k = 2
    BY <1>1
  <2>2. all[k + 1] = turn[1] /\ all[k + 2] = turn[2]
    BY <1>1, <2>1
  <2> QED BY <2>2
<1>7. Len(old) = k /\ k \in Nat /\ DOMAIN old = 1..k
  BY <1>1
<1> HIDE DEF k
<1>8. MovedBy(r, d, old, new)
  BY <1>3, <1>4, <1>5, <1>6, <1>7, ShiftMoves, Zenon
<1> QED BY <1>3, <1>8 DEF new, all

LEMMA GenerateMoves ==
    ASSUME WebTypes, LogTypes, NEW r \in Requests, NEW words \in Texts, Generate(r, words)
    PROVE  /\ LogTypes'
           /\ \A s \in Sessions : s # ask[r].session => log'[s] = log[s]
           /\ \E d \in Nat : MovedBy(r, d, log[ask[r].session], log'[ask[r].session])
<1> DEFINE s == ask[r].session
           old == log[s]
           turn == WholeTurn(r, words)
           new == Newest(old \o turn)
<1>1. s \in Sessions /\ old \in Seq(LogTurns) /\ ask[r].query \in DOMAIN Topic
  BY WebAssumption DEF WebTypes, LogTypes
<1>2. turn \in Seq(LogTurns) /\ Len(turn) = 2 /\ turn[1].by = r /\ turn[2].by = r
  BY <1>1 DEF WholeTurn, LogTurns
<1>3. log' = [log EXCEPT ![s] = new] /\ DOMAIN outcome' = DOMAIN outcome
  BY DEF Generate
<1> HIDE DEF s, turn, old
<1>4. /\ new \in Seq(LogTurns)
      /\ \E d \in Nat : MovedBy(r, d, old, new)
  BY <1>1, <1>2, TurnMoves
<1> HIDE DEF new
<1>5. LogTypes' /\ log'[s] = new /\ \A x \in Sessions : x # s => log'[x] = log[x]
  BY <1>1, <1>3, <1>4 DEF LogTypes
<1> QED BY <1>4, <1>5 DEF s, old

\* The memory holds answers made, under the session of their question.
LEMMA LogStep ==
    ASSUME WebTypes, LogTypes, LogInv, [WebNext]_vars
    PROVE  LogTypes' /\ LogInv'
<1>1. ASSUME NEW p \in Pages, PageStep(p) PROVE LogTypes' /\ LogInv'
  <2>1. UNCHANGED <<log, outcome>>
    BY <1>1, PageEffects
  <2>2. ask' = ask
    BY <1>1 DEF PageStep, Send, Ends, Show, Fail, Type, Submit, PanelEnds, Ingested, IngestFails,
                SubmitNothing, Check, CheckAnswered, CheckFails, contractVars
  <2> QED BY <2>1, <2>2 DEF LogTypes, LogInv, Fresh
<1>2. CASE ServiceStep
  <2>1. MemoryEffect /\ OutcomeEffect /\ ask' = ask
    BY <1>2, ServiceEffects
  <2>2. CASE log' = log /\ \A r \in Requests : outcome'[r].kind = "fresh" <=> Fresh(r)
    <3>1. ASSUME NEW s \in Sessions, NEW n \in DOMAIN log[s] PROVE log[s][n].by \in Requests
      <4>1. log[s] \in Seq(LogTurns)
        BY DEF LogTypes
      <4>2. log[s][n] \in LogTurns
        BY <4>1, ElementOfSeq, LenProperties
      <4> QED BY <4>2 DEF LogTurns
    <3> QED BY <2>1, <2>2, <3>1 DEF OutcomeEffect, LogTypes, LogInv, Fresh
  <2>3. CASE log' = [s \in Sessions |-> <<>>] /\ outcome' = outcome
    <3>1. LogTypes'
      BY <2>3, EmptySeq DEF LogTypes
    <3>2. \A s \in Sessions : DOMAIN log'[s] = {}
      BY <2>3
    <3> QED BY <3>1, <3>2 DEF LogInv
  <2>4. ASSUME NEW r \in Requests, NEW words \in Texts, Generate(r, words)
        PROVE  LogTypes' /\ LogInv'
    <3>1. /\ LogTypes'
          /\ \A s \in Sessions : s # ask[r].session => log'[s] = log[s]
          /\ \E d \in Nat : MovedBy(r, d, log[ask[r].session], log'[ask[r].session])
      BY <2>4, GenerateMoves
    <3>2. outcome'[r].kind = "fresh" /\ \A q : q # r => outcome'[q] = outcome[q]
      BY <2>4 DEF Generate, Outcome, LogTypes
    <3>3. PICK d \in Nat : MovedBy(r, d, log[ask[r].session], log'[ask[r].session])
      BY <3>1
    <3>4. ASSUME NEW s \in Sessions, NEW n \in DOMAIN log'[s]
          PROVE  outcome'[log'[s][n].by].kind = "fresh" /\ ask[log'[s][n].by].session = s
      <4>1. CASE s = ask[r].session
        BY <3>2, <3>3, <4>1 DEF MovedBy, LogInv, Fresh
      <4>2. CASE s # ask[r].session
        BY <3>1, <3>2, <4>2 DEF LogInv, Fresh
      <4> QED BY <4>1, <4>2
    <3> QED BY <2>1, <3>1, <3>4 DEF LogInv, Fresh
  <2> QED BY <2>1, <2>2, <2>3, <2>4 DEF MemoryEffect
<1>3. CASE UNCHANGED vars
  BY <1>3 DEF vars, contractVars, LogTypes, LogInv, Fresh
<1> QED BY <1>1, <1>2, <1>3 DEF WebNext

\* A new turn of r leaves the order of the others, and puts r after them.
LEMMA MovedKeepsOrder ==
    ASSUME NEW T, NEW old \in Seq(T), NEW new \in Seq(T), NEW r, NEW d \in Nat,
           MovedBy(r, d, old, new), Places(old, r) = {},
           NEW a, NEW b, a # r,
           b # r => Ordered(old, a, b)
    PROVE  Ordered(new, a, b)
<1> SUFFICES ASSUME NEW m \in Places(new, a)
             PROVE  Places(new, b) # {} /\ \A n \in Places(new, b) : m < n
  BY DEF Ordered
<1>1. /\ Len(old) \in Nat /\ DOMAIN old = 1..Len(old)
      /\ Len(new) \in Nat /\ DOMAIN new = 1..Len(new)
  BY LenProperties
<1>2. m \in Nat /\ m + d \in DOMAIN old /\ old[m + d].by = a
  BY <1>1 DEF Places, MovedBy
<1>3. CASE b = r
  <2>1. Places(new, r) # {}
    BY DEF Places, MovedBy
  <2>2. ASSUME NEW n \in Places(new, r) PROVE m < n
    <3>1. n \in Nat /\ n + d > Len(old)
      BY <1>1 DEF Places, MovedBy
    <3> QED BY <1>1, <1>2, <3>1
  <2> QED BY <1>3, <2>1, <2>2
<1>4. CASE b # r
  <2>1. Places(old, b) # {} /\ \A n \in Places(old, b) : m + d < n
    BY <1>2, <1>4 DEF Ordered, Places
  <2>2. PICK n \in Places(old, b) : TRUE
    BY <2>1
  <2>3. n \in Nat /\ n > d /\ n \in DOMAIN old /\ old[n].by = b
    BY <1>1, <1>2, <2>1, <2>2 DEF Places
  <2>4. n - d \in Places(new, b)
    BY <2>3 DEF Places, MovedBy
  <2>5. ASSUME NEW k \in Places(new, b) PROVE m < k
    <3>1. k \in Nat /\ k + d \in Places(old, b)
      BY <1>1, <1>4 DEF Places, MovedBy
    <3> QED BY <1>2, <2>1, <3>1
  <2> QED BY <2>4, <2>5
<1> QED BY <1>3, <1>4

LEMMA OrderStep ==
    ASSUME WebTypes, LogTypes, LogTypes', ThreadInv, SentInv, OutcomeInv, LogInv, OrderInv,
           [WebNext]_vars
    PROVE  OrderInv'
<1>1. ASSUME NEW p \in Pages, PageStep(p) PROVE OrderInv'
  <2>1. UNCHANGED <<log, outcome>>
    BY <1>1, PageEffects
  <2>2. ASSUME NEW r \in Requests, Send(p, r) PROVE OrderInv'
    <3>1. /\ shown[r] = "unsent" /\ Len(thread[p]) \in Nat
          /\ DOMAIN thread[p] = 1..Len(thread[p]) /\ DOMAIN thread'[p] = 1..(Len(thread[p]) + 1)
          /\ \A i \in 1..Len(thread[p]) : thread'[p][i] = thread[p][i]
          /\ thread'[p][Len(thread[p]) + 1] = r
          /\ \A q \in Pages : q # p => thread'[q] = thread[q]
          /\ \A q \in Requests : shown'[q] = IF q = r THEN "pending" ELSE shown[q]
      BY <2>2, SendEffect
    <3>2. ~Fresh(r)
      BY <3>1 DEF OutcomeInv, Open, Fresh
    <3>3. ASSUME NEW q \in Pages, NEW i \in DOMAIN thread'[q], NEW j \in DOMAIN thread'[q],
                 i < j, shown'[thread'[q][i]] = "answer", Fresh(thread'[q][i]),
                 Fresh(thread'[q][j])
          PROVE  Ordered(log[q], thread'[q][i], thread'[q][j])
      <4>1. CASE q = p
        <5>1. j # Len(thread[p]) + 1
          BY <3>1, <3>2, <3>3, <4>1
        <5>2. i \in 1..Len(thread[p]) /\ j \in 1..Len(thread[p])
          <6> DEFINE n == Len(thread[p])
          <6>1. n \in Nat /\ i \in 1..(n + 1) /\ j \in 1..(n + 1) /\ i < j /\ j # n + 1
            BY <3>1, <3>3, <4>1, <5>1
          <6> HIDE DEF n
          <6>2. i \in 1..n /\ j \in 1..n
            BY <6>1
          <6> QED BY <6>2 DEF n
        <5>3. thread'[p][i] = thread[p][i] /\ thread'[p][j] = thread[p][j]
          BY <3>1, <5>2
        <5>4. shown[thread[p][i]] = "answer"
          BY <3>1, <3>3, <4>1, <5>2, <5>3, ThreadElements
        <5> QED BY <3>1, <3>3, <4>1, <5>2, <5>3, <5>4 DEF OrderInv, Seen, Fresh
      <4>2. CASE q # p
        <5>1. thread'[q] = thread[q]
          BY <3>1, <4>2
        <5>2. shown[thread[q][i]] = "answer"
          BY <3>1, <3>3, <5>1, ThreadElements
        <5> QED BY <3>3, <5>1, <5>2 DEF OrderInv, Seen, Fresh
      <4> QED BY <4>1, <4>2
    <3> QED BY <2>1, <3>3 DEF OrderInv, Seen, Fresh
  <2>3. ASSUME NEW r \in Requests, Ends(p, r) PROVE OrderInv'
    <3>1. /\ ask' = ask /\ thread' = thread /\ shown[r] = "pending" /\ ask[r].session = p
          /\ \A q \in Requests : q # r => shown'[q] = shown[q]
      BY <2>3, EndEffect
    <3>2. ASSUME NEW q \in Pages, NEW i \in DOMAIN thread[q], NEW j \in DOMAIN thread[q],
                 i < j, shown'[thread[q][i]] = "answer", Fresh(thread[q][i]),
                 Fresh(thread[q][j])
          PROVE  Ordered(log[q], thread[q][i], thread[q][j])
      <4>1. thread[q][i] # r
        <5>1. DOMAIN thread[q] = 1..Len(thread[q]) /\ Len(thread[q]) \in Nat
          BY LenProperties DEF WebTypes
        <5>2. i # Len(thread[q])
          BY <3>2, <5>1
        <5> QED BY <3>1, <5>2 DEF ThreadInv
      <4>2. shown[thread[q][i]] = "answer"
        BY <3>1, <3>2, <4>1, ThreadElements
      <4> QED BY <3>2, <4>2 DEF OrderInv, Seen, Fresh
    <3> QED BY <2>1, <3>1, <3>2 DEF OrderInv, Seen, Fresh
  <2>4. CASE \A r \in Requests : ~Send(p, r) /\ ~Ends(p, r)
    <3>1. UNCHANGED <<thread, shown>>
      BY <1>1, <2>4 DEF PageStep, Type, Submit, PanelEnds, Ingested, IngestFails,
                        SubmitNothing, Check, CheckAnswered, CheckFails, chatVars
    <3> QED BY <2>1, <3>1 DEF OrderInv, Seen, Fresh
  <2> QED BY <2>2, <2>3, <2>4
<1>2. CASE ServiceStep
  <2>1. MemoryEffect /\ UNCHANGED <<ask, thread, shown>>
    BY <1>2, ServiceEffects
  <2>2. CASE log' = log /\ \A r \in Requests : outcome'[r].kind = "fresh" <=> Fresh(r)
    BY <2>1, <2>2, ThreadElements DEF OrderInv, Seen, Fresh
  <2>3. CASE log' = [s \in Sessions |-> <<>>] /\ outcome' = outcome
    <3>1. \A p \in Pages : \A a, b : Ordered(log'[p], a, b)
      BY <2>3 DEF Ordered, Places, Pages
    <3> QED BY <2>1, <3>1 DEF OrderInv
  <2>4. ASSUME NEW r \in Requests, NEW words \in Texts, Generate(r, words) PROVE OrderInv'
    <3> DEFINE s == ask[r].session
    <3>1. /\ \A x \in Sessions : x # s => log'[x] = log[x]
          /\ \E d \in Nat : MovedBy(r, d, log[s], log'[s])
      BY <2>4, GenerateMoves
    <3>2. PICK d \in Nat : MovedBy(r, d, log[s], log'[s])
      BY <3>1
    <3>3. Open(r) /\ outcome'[r].kind = "fresh" /\ \A q : q # r => outcome'[q] = outcome[q]
      BY <2>4 DEF Generate, Outcome, LogTypes
    <3>4. shown[r] # "answer"
      BY <3>3 DEF OutcomeInv
    <3>5. s \in Pages /\ log[s] \in Seq(LogTurns) /\ log'[s] \in Seq(LogTurns)
      BY AskTypes DEF LogTypes, Pages
    <3>6. Places(log[s], r) = {}
      BY <3>3, <3>5 DEF Places, LogInv, Fresh, Open, Pages
    <3>7. ASSUME NEW p \in Pages, NEW i \in DOMAIN thread[p], NEW j \in DOMAIN thread[p],
                 i < j, shown[thread[p][i]] = "answer",
                 outcome'[thread[p][i]].kind = "fresh", outcome'[thread[p][j]].kind = "fresh"
          PROVE  Ordered(log'[p], thread[p][i], thread[p][j])
      <4> DEFINE a == thread[p][i]
                 b == thread[p][j]
      <4>1. a # r /\ Fresh(a)
        BY <3>3, <3>4, <3>7 DEF Fresh
      <4>2. b # r => Fresh(b) /\ Ordered(log[p], a, b)
        BY <3>3, <3>7, <4>1 DEF OrderInv, Seen, Fresh
      <4>3. CASE p = s
        <5>1. b # r => Ordered(log[s], a, b)
          BY <4>2, <4>3
        <5>2. Ordered(log'[s], a, b)
          <6> HIDE DEF a, b, s
          <6> QED BY <3>2, <3>5, <3>6, <4>1, <5>1, MovedKeepsOrder
        <5> QED BY <4>3, <5>2
      <4>4. CASE p # s
        <5>1. b # r
          BY <4>4 DEF ThreadInv
        <5> QED BY <3>1, <4>2, <4>4, <5>1 DEF Pages
      <4> QED BY <4>3, <4>4
    <3> QED BY <2>1, <3>7 DEF OrderInv, Seen, Fresh
  <2> QED BY <2>1, <2>2, <2>3, <2>4 DEF MemoryEffect
<1>3. CASE UNCHANGED vars
  BY <1>3 DEF vars, contractVars, chatVars, OrderInv, Seen, Fresh
<1> QED BY <1>1, <1>2, <1>3 DEF WebNext

-----------------------------------------------------------------------------
(* The ingest panel. *)

PanelTypes ==
    /\ DOMAIN outcome = Requests
    /\ typed \in [Pages -> SUBSET Documents]
    /\ given \in [Jobs -> SUBSET Requests]
    /\ noted \in [Requests -> SUBSET Jobs]
    /\ pool \subseteq Requests /\ known \subseteq learned /\ learned \subseteq Jobs

\* What is under way or stored is what was in the box.
BoxInv ==
    /\ \A p \in Pages : panel[p] # Nothing => box[p] # Nothing /\ text[panel[p]] = box[p]
    /\ \A i \in Jobs : i \in wire \cup learned => text[i] # Nothing

\* An ingestion that is known empties the pool of what was given before it.
KnownInv ==
    /\ \A p \in Pages : note[p] \in Jobs => note[p] \in known
    /\ \A r \in Requests : noted[r] \subseteq known
    /\ \A i \in Jobs : \A r \in given[i] : ~Open(r)
    /\ \A i \in known : pool \cap given[i] = {}

PanelInv == PanelTypes /\ BoxInv /\ KnownInv /\ NothingTypedIsLost /\ IngestedIsSeen

PanelGoal == PanelTypes' /\ BoxInv' /\ KnownInv' /\ NothingTypedIsLost' /\ IngestedIsSeen'

LEMMA PanelStep ==
    ASSUME WebTypes, OutcomeInv, PanelInv, NEW p \in Pages, PageStep(p)
    PROVE  PanelGoal
<1> USE DEF PanelGoal, PanelInv, contractVars, chatVars, panelVars, badgeVars, serviceVars
<1>1. ASSUME NEW r \in Requests, Send(p, r) PROVE PanelGoal
  <2>1. /\ Open(r) /\ Confirmed(p) \subseteq known /\ Confirmed(p) \subseteq Jobs
        /\ noted' = [noted EXCEPT ![r] = Confirmed(p)]
        /\ UNCHANGED <<contractVars, panelVars, learned>>
        /\ \A i \in Jobs : i \in wire' => i \in wire
    BY <1>1, WebAssumption DEF Send, Call, OutcomeInv, KnownInv, Confirmed
  <2>2. PanelTypes'
    BY <2>1 DEF PanelTypes
  <2>3. BoxInv' /\ NothingTypedIsLost'
    BY <2>1 DEF BoxInv, NothingTypedIsLost
  <2>4. KnownInv'
    BY <2>1 DEF PanelTypes, KnownInv, Open
  <2>5. IngestedIsSeen'
    BY <2>1 DEF PanelTypes, IngestedIsSeen, Open
  <2> QED BY <2>2, <2>3, <2>4, <2>5
<1>2. ASSUME NEW r \in Requests, Ends(p, r) PROVE PanelGoal
  <2>1. UNCHANGED <<contractVars, panelVars, learned, wire, noted>>
    BY <1>2 DEF Ends, Show, Fail, Becomes
  <2> QED BY <2>1 DEF PanelTypes, BoxInv, KnownInv, NothingTypedIsLost, IngestedIsSeen, Open
<1>3. ASSUME NEW d \in Documents, Type(p, d) PROVE PanelGoal
  <2>1. PanelTypes' /\ KnownInv' /\ IngestedIsSeen'
    BY <1>3 DEF Type, PanelTypes, KnownInv, IngestedIsSeen, Open
  <2>2. BoxInv'
    BY <1>3 DEF Type, BoxInv, WebTypes
  <2>3. NothingTypedIsLost'
    BY <1>3, WebAssumption DEF Type, NothingTypedIsLost, PanelTypes, WebTypes
  <2> QED BY <2>1, <2>2, <2>3
<1>4. ASSUME NEW i \in Jobs, Submit(p, i) PROVE PanelGoal
  <2>1. i \notin learned /\ text[i] = Nothing /\ box[p] # Nothing
    BY <1>4 DEF Submit, BoxInv
  <2>2. /\ given' = [given EXCEPT ![i] = Answered] /\ note' = [note EXCEPT ![p] = "none"]
        /\ UNCHANGED <<contractVars, noted, typed, learned>>
    BY <1>4 DEF Submit
  <2>3. PanelTypes'
    BY <2>2 DEF PanelTypes, Answered
  <2>4. BoxInv'
    BY <1>4, <2>1, WebAssumption DEF Submit, Call, BoxInv, WebTypes
  <2>5. KnownInv'
    BY <2>1, <2>2, WebAssumption DEF PanelTypes, KnownInv, Answered, Open, WebTypes
  <2>6. NothingTypedIsLost'
    BY <1>4, <2>1, <2>2 DEF Submit, NothingTypedIsLost, PanelTypes, WebTypes
  <2>7. IngestedIsSeen'
    BY <2>1, <2>2 DEF PanelTypes, IngestedIsSeen, KnownInv
  <2> QED BY <2>3, <2>4, <2>5, <2>6, <2>7
<1>5. ASSUME NEW i \in Jobs, Ingested(p, i) PROVE PanelGoal
  <2>1. PanelTypes' /\ IngestedIsSeen'
    BY <1>5 DEF Ingested, PanelTypes, IngestedIsSeen
  <2>2. BoxInv'
    BY <1>5 DEF Ingested, BoxInv, WebTypes
  <2>3. KnownInv'
    BY <1>5 DEF Ingested, KnownInv, WebTypes, Open
  <2>4. text[i] = box[p] /\ i \in learned
    BY <1>5, WebAssumption DEF Ingested, BoxInv, PanelTypes
  <2>5. NothingTypedIsLost'
    BY <1>5, <2>4 DEF Ingested, NothingTypedIsLost, WebTypes
  <2> QED BY <2>1, <2>2, <2>3, <2>5
<1>6. ASSUME NEW i \in Jobs, IngestFails(p, i) PROVE PanelGoal
  <2>1. PanelTypes' /\ IngestedIsSeen' /\ NothingTypedIsLost'
    BY <1>6 DEF IngestFails, PanelTypes, IngestedIsSeen, NothingTypedIsLost
  <2>2. BoxInv'
    BY <1>6 DEF IngestFails, BoxInv, WebTypes
  <2>3. KnownInv'
    BY <1>6, WebAssumption DEF IngestFails, KnownInv, WebTypes, Open
  <2> QED BY <2>1, <2>2, <2>3
<1>7. CASE SubmitNothing(p)
  <2>1. PanelTypes' /\ IngestedIsSeen' /\ NothingTypedIsLost' /\ BoxInv'
    BY <1>7 DEF SubmitNothing, PanelTypes, IngestedIsSeen, NothingTypedIsLost, BoxInv
  <2>2. KnownInv'
    BY <1>7, WebAssumption DEF SubmitNothing, KnownInv, WebTypes, Open
  <2> QED BY <2>1, <2>2
<1>8. CASE Check(p) \/ CheckAnswered(p) \/ CheckFails(p)
  <2>1. UNCHANGED <<contractVars, panelVars, learned, wire, noted>>
    BY <1>8 DEF Check, CheckAnswered, CheckFails
  <2> QED BY <2>1 DEF PanelTypes, BoxInv, KnownInv, NothingTypedIsLost, IngestedIsSeen, Open
<1> QED BY <1>1, <1>2, <1>3, <1>4, <1>5, <1>6, <1>7, <1>8 DEF PageStep, PanelEnds

LEMMA ServiceOnPanel ==
    ASSUME WebTypes, OutcomeInv, PanelInv, ServiceStep
    PROVE  PanelGoal
<1> USE DEF PanelGoal, PanelInv, contractVars, chatVars, panelVars, badgeVars, serviceVars
<1>1. ASSUME NEW r \in Requests, Serve(r) PROVE PanelGoal
  <2>1. UNCHANGED <<panelVars, noted, wire, learned>>
    BY <1>1 DEF Serve
  <2>2. BoxInv' /\ NothingTypedIsLost'
    BY <2>1 DEF BoxInv, NothingTypedIsLost
  <2>3. ASSUME NEW words \in Texts, Generate(r, words) PROVE PanelGoal
    <3>1. /\ Open(r) /\ pool' \subseteq pool \cup {r} /\ known' = known
          /\ outcome' = [outcome EXCEPT ![r] = Outcome("fresh", r, words)]
      BY <2>3 DEF Generate
    <3>2. PanelTypes'
      BY <2>1, <3>1 DEF PanelTypes
    <3>3. KnownInv'
      BY <2>1, <3>1 DEF KnownInv, PanelTypes, Open, Outcome
    <3>4. IngestedIsSeen'
      BY <2>1, <3>1 DEF IngestedIsSeen, PanelTypes, Outcome
    <3> QED BY <2>2, <3>2, <3>3, <3>4
  <2>4. ASSUME NEW e \in Requests, Reuse(r, e) PROVE PanelGoal
    <3>1. /\ Open(r) /\ e \in pool /\ pool' = pool /\ known' = known
          /\ outcome' = [outcome EXCEPT ![r] = Outcome("hit", e, outcome[e].text)]
      BY <2>4 DEF Reuse
    <3>2. PanelTypes'
      BY <2>1, <3>1 DEF PanelTypes
    <3>3. KnownInv'
      BY <2>1, <3>1 DEF KnownInv, PanelTypes, Open, Outcome
    <3>4. IngestedIsSeen'
      BY <2>1, <3>1 DEF IngestedIsSeen, KnownInv, PanelTypes, Outcome
    <3> QED BY <2>2, <3>2, <3>3, <3>4
  <2>5. CASE Refuse(r)
    <3>1. PICK kind \in {"blocked", "error"} :
             outcome' = [outcome EXCEPT ![r] = Outcome(kind, r, "none")]
      BY <2>5 DEF Refuse
    <3>2. pool' = pool /\ known' = known
      BY <2>5 DEF Refuse
    <3>3. PanelTypes'
      BY <2>1, <3>1, <3>2 DEF PanelTypes
    <3>4. KnownInv'
      BY <2>1, <3>1, <3>2 DEF KnownInv, PanelTypes, Open, Outcome
    <3>5. IngestedIsSeen'
      BY <2>1, <3>1 DEF IngestedIsSeen, PanelTypes, Outcome
    <3> QED BY <2>2, <3>3, <3>4, <3>5
  <2> QED BY <1>1, <2>3, <2>4, <2>5 DEF Serve
<1>2. ASSUME NEW i \in Jobs, Store(i) PROVE PanelGoal
  <2>1. /\ pool' = {} /\ outcome' = outcome /\ i \in wire
        /\ known' = known \cup {i} /\ learned' = learned \cup {i}
        /\ UNCHANGED <<panelVars, noted, wire>>
    BY <1>2 DEF Store, Learn
  <2>2. PanelTypes' /\ KnownInv'
    BY <2>1 DEF PanelTypes, KnownInv, Open
  <2>3. BoxInv' /\ NothingTypedIsLost'
    BY <2>1 DEF BoxInv, NothingTypedIsLost
  <2>4. IngestedIsSeen'
    BY <2>1 DEF IngestedIsSeen
  <2> QED BY <2>2, <2>3, <2>4
<1>3. ASSUME pool' \subseteq pool, wire' \subseteq wire,
             UNCHANGED <<outcome, known, learned, noted, panelVars>>
      PROVE  PanelGoal
  <2>1. PanelTypes' /\ KnownInv'
    BY <1>3 DEF PanelTypes, KnownInv, Open
  <2>2. BoxInv' /\ NothingTypedIsLost' /\ IngestedIsSeen'
    BY <1>3 DEF BoxInv, NothingTypedIsLost, IngestedIsSeen
  <2> QED BY <2>1, <2>2
<1>4. Expire \/ Stop \/ Start =>
         /\ pool' \subseteq pool /\ wire' \subseteq wire
         /\ UNCHANGED <<outcome, known, learned, noted, panelVars>>
  BY DEF Expire, Forget, Stop, Start
<1> QED BY <1>1, <1>2, <1>3, <1>4 DEF ServiceStep

-----------------------------------------------------------------------------
WebInv ==
    /\ WebTypes /\ ThreadInv /\ SentInv
    /\ LogTypes /\ OutcomeInv /\ LogInv /\ OrderInv
    /\ PanelInv

LEMMA WebInvInit == WebInit => WebInv
<1> SUFFICES ASSUME WebInit PROVE WebInv
  OBVIOUS
<1>1. WebTypes
  BY WebInitTypes
<1>2. ThreadInv /\ SentInv /\ OrderInv
  BY DEF WebInit, ThreadInv, SentInv, OrderInv, Pending
<1>3. LogTypes /\ OutcomeInv /\ LogInv
  BY EmptySeq DEF WebInit, Init, LogTypes, OutcomeInv, LogInv, Outcome, Open
<1>4. PanelInv
  BY WebAssumption DEF WebInit, Init, PanelInv, PanelTypes, BoxInv, KnownInv, NothingTypedIsLost,
                       IngestedIsSeen, Outcome, Open
<1> QED BY <1>1, <1>2, <1>3, <1>4 DEF WebInv

LEMMA WebInvStep == WebInv /\ [WebNext]_vars => WebInv'
<1> SUFFICES ASSUME WebInv, [WebNext]_vars PROVE WebInv'
  OBVIOUS
<1> USE DEF WebInv
<1>1. WebTypes'
  BY WebStepTypes
<1>2. ThreadInv' /\ SentInv'
  BY <1>1, ThreadStep
<1>3. OutcomeInv'
  BY OutcomeStep
<1>4. LogTypes' /\ LogInv'
  BY LogStep
<1>5. OrderInv'
  BY <1>4, OrderStep
<1>6. PanelInv'
  <2>1. ASSUME NEW p \in Pages, PageStep(p) PROVE PanelInv'
    BY <2>1, PanelStep DEF PanelGoal, PanelInv
  <2>2. CASE ServiceStep
    BY <2>2, ServiceOnPanel DEF PanelGoal, PanelInv
  <2>3. CASE UNCHANGED vars
    BY <2>3 DEF vars, contractVars, chatVars, panelVars, serviceVars, PanelInv, PanelTypes, BoxInv,
                KnownInv, NothingTypedIsLost, IngestedIsSeen, Open
  <2> QED BY <2>1, <2>2, <2>3 DEF WebNext
<1> QED BY <1>1, <1>2, <1>3, <1>4, <1>5, <1>6

LEMMA WebInvariant == WebSpec => []WebInv
BY WebInvInit, WebInvStep, PTL DEF WebSpec

\* A page is busy with one pending message, never with more or with none (Chat.tsx: busy).
THEOREM WebTypeOKHolds == WebSpec => []WebTypeOK
<1>1. WebInv => WebTypeOK
  BY OnePending DEF WebInv, WebTypeOK
<1> QED BY <1>1, WebInvariant, PTL

\* What a page shows is remembered in the order it shows it, whatever replies were lost and
\* however often the service restarted.
THEOREM PageFollowsMemoryHolds == WebSpec => []PageFollowsMemory
<1>1. WebInv => PageFollowsMemory
  <2> SUFFICES ASSUME WebInv, NEW p \in Pages, NEW i \in DOMAIN thread[p],
                      NEW j \in DOMAIN thread[p], i < j, Seen(thread[p][i]),
                      Seen(thread[p][j]), PlacesOf(thread[p][i]) # {}
               PROVE  /\ PlacesOf(thread[p][j]) # {}
                      /\ \A m \in PlacesOf(thread[p][i]), n \in PlacesOf(thread[p][j]) : m < n
    BY DEF PageFollowsMemory
  <2>1. ask[thread[p][i]].session = p /\ ask[thread[p][j]].session = p
    BY DEF WebInv, ThreadInv
  <2>2. Ordered(log[p], thread[p][i], thread[p][j])
    BY DEF WebInv, OrderInv, Seen, Fresh
  <2> QED BY <2>1, <2>2 DEF Ordered, Places, PlacesOf
<1> QED BY <1>1, WebInvariant, PTL

\* A typed document is in its box until it is stored (IngestPanel.tsx: submit clears the box
\* in the success path only).
THEOREM NothingTypedIsLostHolds == WebSpec => []NothingTypedIsLost
<1>1. WebInv => NothingTypedIsLost
  BY DEF WebInv, PanelInv
<1> QED BY <1>1, WebInvariant, PTL

\* After "Ingested", a page gets no answer given before its documents were submitted.
THEOREM IngestedIsSeenHolds == WebSpec => []IngestedIsSeen
<1>1. WebInv => IngestedIsSeen
  BY DEF WebInv, PanelInv
<1> QED BY <1>1, WebInvariant, PTL
=============================================================================
