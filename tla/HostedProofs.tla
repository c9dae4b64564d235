---------------------------- MODULE HostedProofs ----------------------------
(* With the managed store: no answer outlives its turn's record, turns keep their order,
   and platform sessions stay apart, for every value of the constants. *)
EXTENDS HostedMemory, TurnListProofs

-----------------------------------------------------------------------------
(* Types. *)

LEMMA SessionTypes ==
    ASSUME HostedTypeOK, NEW r \in Requests
    PROVE  Session(r) \in Sessions
BY HostedAssumption DEF HostedTypeOK, Session, SessionOf

LEMMA ReplyTypes ==
    ASSUME NEW by \in Requests,
           NEW kind \in {"none", "fresh", "hit", "blocked", "error", "lost"}
    PROVE  Reply(kind, by) \in Replies /\ Reply(kind, by).kind = kind
BY DEF Reply, Replies

LEMMA HostedInit == Init => HostedTypeOK
<1> SUFFICES ASSUME Init PROVE HostedTypeOK
  OBVIOUS
<1>1. hist \in [Requests -> Seq(Turns)] /\ events \in [Sessions -> Seq(Turns)]
  BY EmptySeq DEF Init
<1>2. /\ reply \in [Requests -> Replies]
      /\ \A r \in Requests : reply[r].kind = "none" /\ pc[r] = "new"
  BY ReplyTypes DEF Init
<1> QED BY <1>1, <1>2, HostedAssumption DEF Init, HostedTypeOK

LEMMA HostedType == HostedTypeOK /\ [Next]_vars => HostedTypeOK'
<1> SUFFICES ASSUME HostedTypeOK, [Next]_vars PROVE HostedTypeOK'
  OBVIOUS
<1> USE DEF HostedTypeOK
<1>1. ASSUME NEW r \in Requests, NEW p \in Procs, Begin(r, p) PROVE HostedTypeOK'
  <2> USE DEF Arrives, Enters, Misses, Answers
  <2>0. past' \in [Requests -> SUBSET Requests]
    <3>1. past' = [past EXCEPT ![r] = Generated]
      BY <1>1 DEF Begin, RefuseBlank, RejectInput, ServeCached, ReadHistory, HistoryFails
    <3>2. Generated \in SUBSET Requests
      BY DEF Generated
    <3> QED BY <3>1, <3>2
  <2>1. CASE RefuseBlank(r, p)
    BY <2>0, <2>1, ReplyTypes DEF RefuseBlank
  <2>2. CASE RejectInput(r, p)
    BY <2>0, <2>2, ReplyTypes DEF RejectInput
  <2>3. CASE ServeCached(r, p)
    <3>1. PICK e \in Entries(p, Asked(r)) : Answers(r, "hit", e)
      BY <2>3 DEF ServeCached
    <3>2. e \in Requests
      BY <3>1 DEF Entries
    <3> QED BY <2>0, <2>3, <3>1, <3>2, ReplyTypes DEF ServeCached
  <2>4. CASE ReadHistory(r, p)
    <3>1. hist' \in [Requests -> Seq(Turns)]
      BY <2>4, SessionTypes, LastTurnsWithin, HostedAssumption DEF ReadHistory
    <3>2. cached' \in [Procs -> SUBSET Requests]
      BY <2>4 DEF ReadHistory
    <3> QED BY <2>0, <2>4, <3>1, <3>2 DEF ReadHistory
  <2>5. CASE HistoryFails(r, p)
    <3>1. cached' \in [Procs -> SUBSET Requests]
      BY <2>5 DEF HistoryFails
    <3> QED BY <2>0, <2>5, <3>1, ReplyTypes DEF HistoryFails
  <2> QED BY <1>1, <2>1, <2>2, <2>3, <2>4, <2>5 DEF Begin
<1>2. ASSUME NEW r \in Requests, Proceed(r) PROVE HostedTypeOK'
  <2> USE DEF Answers
  <2>0. at[r] \in Procs
    <3>1. pc[r] \in {"graph", "answer"}
      BY <1>2, Zenon
         DEF Proceed, GraphFails, StoreQuestion, QuestionFails, StoreAnswer, AnswerFails
    <3> QED BY <3>1
  <2>1. ASSUME NEW role \in {"user", "assistant"}
        PROVE  [events EXCEPT ![Session(r)] = Append(@, Turn(role, r))] \in [Sessions -> Seq(Turns)]
    <3>1. Turn(role, r) \in Turns
      BY DEF Turn, Turns
    <3>2. Append(events[Session(r)], Turn(role, r)) \in Seq(Turns)
      BY <3>1, SessionTypes, AppendProperties
    <3> QED BY <3>2
  <2>2. CASE GraphFails(r)
    BY <2>2, ReplyTypes DEF GraphFails
  <2>3. CASE StoreQuestion(r)
    <3>1. loop' \in [Procs -> Requests \cup {Nobody}]
      BY <2>3 DEF StoreQuestion
    <3>2. ASSUME NEW q \in Requests, pc'[q] = "answer" PROVE loop'[at'[q]] = q
      BY <2>0, <2>3, <3>2, HostedAssumption DEF StoreQuestion
    <3>3. events' \in [Sessions -> Seq(Turns)]
      BY <2>1, <2>3 DEF StoreQuestion
    <3> QED BY <2>3, <3>1, <3>2, <3>3 DEF StoreQuestion
  <2>4. CASE QuestionFails(r)
    <3>1. events' \in [Sessions -> Seq(Turns)]
      BY <2>1, <2>4 DEF QuestionFails
    <3>2. reply' \in [Requests -> Replies] /\ \A q \in Requests : q # r => reply'[q] = reply[q]
      BY <2>4, ReplyTypes DEF QuestionFails
    <3>3. reply'[r].kind = "error"
      BY <2>4, ReplyTypes DEF QuestionFails
    <3> QED BY <2>4, <3>1, <3>2, <3>3 DEF QuestionFails
  <2>5. CASE StoreAnswer(r)
    <3>1. cached' \in [Procs -> SUBSET Requests]
      BY <2>5 DEF StoreAnswer
    <3> QED BY <2>0, <2>1, <2>5, <3>1, ReplyTypes DEF StoreAnswer
  <2>6. CASE AnswerFails(r)
    <3>1. loop' \in [Procs -> Requests \cup {Nobody}]
      BY <2>6 DEF AnswerFails
    <3>2. ASSUME NEW q \in Requests, pc'[q] = "answer" PROVE loop'[at'[q]] = q
      BY <2>0, <2>6, <3>2 DEF AnswerFails
    <3>3. events' \in [Sessions -> Seq(Turns)]
      BY <2>1, <2>6 DEF AnswerFails
    <3> QED BY <2>6, <3>1, <3>2, <3>3, ReplyTypes DEF AnswerFails
  <2> QED BY <1>2, <2>2, <2>3, <2>4, <2>5, <2>6 DEF Proceed
<1>3. ASSUME NEW p \in Procs, Stop(p) PROVE HostedTypeOK'
  BY <1>3, ReplyTypes, HostedAssumption DEF Stop, InProgress
<1>4. CASE UNCHANGED vars
  BY <1>4 DEF vars
<1> QED BY <1>1, <1>2, <1>3, <1>4 DEF Next

-----------------------------------------------------------------------------
(* What a step does to the store, the replies and the caches. *)

Appends(r, role) == events' = [events EXCEPT ![Session(r)] = Append(@, Turn(role, r))]

\* r may have turns in the store.
Marked(r) == pc[r] = "answer" \/ reply[r].kind \in {"fresh", "error", "lost"}

StoreEffect ==
    \/ events' = events
    \/ \E r \in Requests : pc[r] = "graph" /\ Appends(r, "user") /\ Marked(r)'
    \/ \E r \in Requests : pc[r] = "answer" /\ Appends(r, "assistant") /\ pc'[r] = "done"

AnswerEffect ==
    \A r \in Requests :
        /\ Marked(r) => Marked(r)'
        /\ pc'[r] = "answer" => \/ pc[r] = "answer"
                                \/ pc[r] = "graph" /\ Appends(r, "user")

ReplyEffect ==
    \A r \in Requests : reply'[r].kind \in {"fresh", "hit"} =>
        \/ reply'[r] = reply[r]
        \/ \E p \in Procs : reply'[r].by \in cached[p]
        \/ pc[r] = "answer" /\ Appends(r, "assistant") /\ reply'[r].by = r

CacheEffect ==
    \A p \in Procs : \A e \in cached'[p] :
        \/ e \in cached[p]
        \/ pc[e] = "answer" /\ Appends(e, "assistant")

Effect == ask' = ask /\ StoreEffect /\ AnswerEffect /\ ReplyEffect /\ CacheEffect

LEMMA StepEffect == HostedTypeOK /\ [Next]_vars => Effect
<1> SUFFICES ASSUME HostedTypeOK, [Next]_vars PROVE Effect
  OBVIOUS
<1> USE DEF StoreEffect, AnswerEffect, ReplyEffect, CacheEffect, Marked
<1>1. ASSUME NEW r \in Requests, NEW p \in Procs, Begin(r, p) PROVE Effect
  <2> USE DEF Arrives, Enters, Misses, Answers, Reply, Effect
  <2>0. pc[r] = "new" /\ reply[r].kind = "none"
    BY <1>1 DEF Begin, RefuseBlank, RejectInput, ServeCached, ReadHistory, HistoryFails,
                HostedTypeOK
  <2>1. CASE RefuseBlank(r, p)
    BY <2>0, <2>1 DEF RefuseBlank, HostedTypeOK
  <2>2. CASE RejectInput(r, p)
    BY <2>0, <2>2 DEF RejectInput, HostedTypeOK
  <2>3. CASE ServeCached(r, p)
    BY <2>0, <2>3 DEF ServeCached, Entries, HostedTypeOK
  <2>4. CASE ReadHistory(r, p)
    BY <2>0, <2>4 DEF ReadHistory, HostedTypeOK
  <2>5. CASE HistoryFails(r, p)
    BY <2>0, <2>5 DEF HistoryFails, HostedTypeOK
  <2> QED BY <1>1, <2>1, <2>2, <2>3, <2>4, <2>5 DEF Begin
<1>2. ASSUME NEW r \in Requests, Proceed(r) PROVE Effect
  <2> USE DEF Answers, Reply, Effect, Appends
  <2>1. CASE GraphFails(r)
    BY <2>1 DEF GraphFails, HostedTypeOK
  <2>2. CASE StoreQuestion(r)
    BY <2>2 DEF StoreQuestion, HostedTypeOK
  <2>3. CASE QuestionFails(r)
    BY <2>3 DEF QuestionFails, HostedTypeOK
  <2>4. CASE StoreAnswer(r)
    BY <2>4 DEF StoreAnswer, HostedTypeOK
  <2>5. CASE AnswerFails(r)
    BY <2>5 DEF AnswerFails, HostedTypeOK
  <2> QED BY <1>2, <2>1, <2>2, <2>3, <2>4, <2>5 DEF Proceed
<1>3. ASSUME NEW p \in Procs, Stop(p) PROVE Effect
  BY <1>3 DEF Stop, InProgress, Reply, Effect, HostedTypeOK
<1>4. CASE UNCHANGED vars
  BY <1>4 DEF vars, Effect
<1> QED BY <1>1, <1>2, <1>3, <1>4 DEF Next

-----------------------------------------------------------------------------
(* The store grows at the end. *)

LEMMA Grows ==
    ASSUME HostedTypeOK, NEW r \in Requests, NEW role \in {"user", "assistant"},
           Appends(r, role)
    PROVE  /\ \A s \in Sessions : s # Session(r) => events'[s] = events[s]
           /\ Len(events'[Session(r)]) = Len(events[Session(r)]) + 1
           /\ \A i \in 1..Len(events[Session(r)]) :
                 events'[Session(r)][i] = events[Session(r)][i]
           /\ events'[Session(r)][Len(events[Session(r)]) + 1] = Turn(role, r)
<1>1. Session(r) \in Sessions /\ events \in [Sessions -> Seq(Turns)] /\ Turn(role, r) \in Turns
  BY SessionTypes DEF HostedTypeOK, Turn, Turns
<1>2. events'[Session(r)] = Append(events[Session(r)], Turn(role, r))
  BY <1>1 DEF Appends
<1> QED BY <1>1, <1>2, AppendProperties DEF Appends

LEMMA PlacesAre ==
    ASSUME HostedTypeOK, NEW s \in Sessions
    PROVE  /\ Len(events[s]) \in Nat /\ Places(s) = 1..Len(events[s])
           /\ \A i \in Places(s) : events[s][i] \in Turns
BY LenProperties, ElementOfSeq DEF HostedTypeOK, Places

\* What stands in the store stays where it is.
LEMMA StaysPut ==
    ASSUME HostedTypeOK, HostedTypeOK', ask' = ask, StoreEffect
    PROVE  /\ \A s \in Sessions : \A i \in Places(s) :
                 i \in Places(s)' /\ events'[s][i] = events[s][i]
           /\ \A r \in Requests : Session(r)' = Session(r)
<1>1. \A r \in Requests : Session(r)' = Session(r)
  BY DEF Session
<1>2. ASSUME NEW s \in Sessions, NEW i \in Places(s)
      PROVE  i \in Places(s)' /\ events'[s][i] = events[s][i]
  <2>1. CASE events' = events
    BY <2>1 DEF Places
  <2>2. ASSUME NEW r \in Requests, NEW role \in {"user", "assistant"}, Appends(r, role)
        PROVE  i \in Places(s)' /\ events'[s][i] = events[s][i]
    <3>1. Len(events[s]) \in Nat /\ Places(s) = 1..Len(events[s])
      BY PlacesAre
    <3>2. Places(s)' = 1..Len(events'[s])
      BY LenProperties DEF HostedTypeOK, Places
    <3>3. CASE s = Session(r)
      BY <2>2, <3>1, <3>2, <3>3, Grows
    <3>4. CASE s # Session(r)
      BY <2>2, <3>1, <3>2, <3>4, Grows
    <3> QED BY <3>3, <3>4
  <2> QED BY <2>1, <2>2 DEF StoreEffect
<1> QED BY <1>1, <1>2

-----------------------------------------------------------------------------
(* The invariant: between its calls a request has its question in the store and not its
   answer. *)

Has(r, role) == \E i \in Places(Session(r)) : Stored(r, role, i)

HalfTurns == \A r \in Requests : pc[r] = "answer" => Has(r, "user") /\ ~Has(r, "assistant")

HostedInv == HostedTypeOK /\ HalfTurns /\ NoStrayTurns /\ TurnsInOrder /\ AnswersAreDurable

\* A turn in the store has the session, and the state, of its request.
LEMMA WhoseTurn ==
    ASSUME HostedTypeOK, NoStrayTurns, NEW s \in Sessions, NEW i \in Places(s)
    PROVE  /\ events[s][i].by \in Requests
           /\ Session(events[s][i].by) = s
           /\ Marked(events[s][i].by)
           /\ events[s][i] = Turn(events[s][i].role, events[s][i].by)
<1>1. events[s][i] \in Turns
  BY PlacesAre
<1> QED BY <1>1 DEF Turns, Turn, NoStrayTurns, Marked

\* Before its first call a request has nothing in the store.
LEMMA NothingYet ==
    ASSUME HostedTypeOK, NoStrayTurns, NEW r \in Requests, pc[r] = "graph"
    PROVE  \A s \in Sessions : \A i \in Places(s) : events[s][i].by # r
<1>1. ~Marked(r)
  BY DEF HostedTypeOK, Marked
<1> QED BY <1>1, WhoseTurn

\* Where the new turn is, and that there is no other new one.
LEMMA NewPlace ==
    ASSUME HostedTypeOK, HostedTypeOK', ask' = ask, StoreEffect,
           NEW r \in Requests, NEW role \in {"user", "assistant"}, Appends(r, role),
           NEW s \in Sessions, NEW i \in Places(s)'
    PROVE  \/ i \in Places(s) /\ events'[s][i] = events[s][i]
           \/ /\ s = Session(r) /\ i = Len(events[s]) + 1 /\ events'[s][i] = Turn(role, r)
<1>1. Len(events[s]) \in Nat /\ Places(s) = 1..Len(events[s])
  BY PlacesAre
<1>2. Places(s)' = 1..Len(events'[s])
  BY LenProperties DEF HostedTypeOK, Places
<1>3. CASE s # Session(r)
  BY <1>1, <1>2, <1>3, Grows
<1>4. CASE s = Session(r)
  BY <1>1, <1>2, <1>4, Grows
<1> QED BY <1>3, <1>4

LEMMA StrayStep ==
    ASSUME HostedTypeOK, HostedTypeOK', NoStrayTurns, Effect
    PROVE  NoStrayTurns'
<1> USE DEF Effect
<1>1. SUFFICES ASSUME NEW s \in Sessions, NEW i \in Places(s)', NEW q, q = events'[s][i].by
               PROVE  Session(q)' = s /\ Marked(q)'
  BY DEF NoStrayTurns, Marked, Session
<1>2. ASSUME i \in Places(s), events'[s][i] = events[s][i]
      PROVE  Session(q)' = s /\ Marked(q)'
  <2>1. q \in Requests /\ Session(q) = s /\ Marked(q)
    BY <1>1, <1>2, WhoseTurn
  <2> QED BY <2>1, StaysPut DEF AnswerEffect
<1>3. CASE events' = events
  BY <1>1, <1>2, <1>3 DEF Places
<1>4. ASSUME NEW r \in Requests, NEW role \in {"user", "assistant"},
             Appends(r, role), Marked(r)'
      PROVE  Session(q)' = s /\ Marked(q)'
  <2>1. CASE i \in Places(s) /\ events'[s][i] = events[s][i]
    BY <1>2, <2>1
  <2>2. CASE s = Session(r) /\ events'[s][i] = Turn(role, r)
    <3>1. q = r
      BY <1>1, <2>2 DEF Turn
    <3> QED BY <1>4, <2>2, <3>1, StaysPut
  <2> QED BY <1>4, <2>1, <2>2, NewPlace
<1>5. \A r \in Requests : pc[r] = "answer" => Marked(r)'
  BY DEF AnswerEffect, Marked
<1> QED BY <1>3, <1>4, <1>5 DEF StoreEffect

\* The question of a turn, and the turn itself, stay in the store.
LEMMA HasStays ==
    ASSUME HostedTypeOK, HostedTypeOK', Effect, NEW r \in Requests
    PROVE  /\ \A role : Has(r, role) => Has(r, role)'
           /\ Recorded(r) => Recorded(r)'
<1>1. /\ Session(r) \in Sessions /\ Session(r)' = Session(r)
      /\ \A i \in Places(Session(r)) :
            i \in Places(Session(r))' /\ events'[Session(r)][i] = events[Session(r)][i]
  BY SessionTypes, StaysPut DEF Effect
<1> QED BY <1>1 DEF Has, Recorded, Stored, Places

\* What is appended is in the store.
LEMMA HasNow ==
    ASSUME HostedTypeOK, HostedTypeOK', Effect,
           NEW r \in Requests, NEW role \in {"user", "assistant"}, Appends(r, role),
           NEW n, n = Len(events[Session(r)]) + 1
    PROVE  n \in Places(Session(r))' /\ Stored(r, role, n)'
<1>1. Session(r) \in Sessions /\ Session(r)' = Session(r)
  BY SessionTypes, StaysPut DEF Effect
<1>2. Places(Session(r))' = 1..Len(events'[Session(r)])
  BY <1>1, LenProperties DEF HostedTypeOK, Places
<1>3. Len(events[Session(r)]) \in Nat
  BY <1>1, PlacesAre
<1> QED BY <1>1, <1>2, <1>3, Grows DEF Stored

LEMMA HalfStep ==
    ASSUME HostedTypeOK, HostedTypeOK', HalfTurns, NoStrayTurns, Effect
    PROVE  HalfTurns'
<1> SUFFICES ASSUME NEW r \in Requests, pc'[r] = "answer"
             PROVE  Has(r, "user")' /\ ~Has(r, "assistant")'
  BY DEF HalfTurns
<1>0. Session(r) \in Sessions /\ Session(r)' = Session(r)
  BY SessionTypes, StaysPut DEF Effect
<1>1. Has(r, "user")'
  <2>1. CASE pc[r] = "answer"
    BY <2>1, HasStays DEF HalfTurns
  <2>2. CASE Appends(r, "user")
    <3>1. PICK n : n = Len(events[Session(r)]) + 1
      OBVIOUS
    <3>2. n \in Places(Session(r))' /\ Stored(r, "user", n)'
      BY <2>2, <3>1, HasNow
    <3> QED BY <3>2 DEF Has
  <2> QED BY <2>1, <2>2 DEF Effect, AnswerEffect
<1>2. ASSUME Has(r, "assistant")' PROVE FALSE
  <2>1. PICK i \in Places(Session(r))' : events'[Session(r)][i] = Turn("assistant", r)
    BY <1>0, <1>2 DEF Has, Stored, Places
  <2>2. ASSUME i \in Places(Session(r)), events'[Session(r)][i] = events[Session(r)][i]
        PROVE  FALSE
    <3>1. events[Session(r)][i] = Turn("assistant", r)
      BY <2>1, <2>2
    <3>2. CASE pc[r] = "answer"
      BY <2>2, <3>1, <3>2 DEF HalfTurns, Has, Stored
    <3>3. CASE pc[r] = "graph"
      BY <1>0, <2>2, <3>1, <3>3, NothingYet DEF Turn
    <3> QED BY <3>2, <3>3 DEF Effect, AnswerEffect
  <2>3. CASE events' = events
    BY <2>1, <2>2, <2>3, <1>0 DEF Places
  <2>4. ASSUME NEW q \in Requests, pc[q] = "graph", Appends(q, "user") PROVE FALSE
    <3>1. \/ i \in Places(Session(r)) /\ events'[Session(r)][i] = events[Session(r)][i]
          \/ events'[Session(r)][i] = Turn("user", q)
      BY <1>0, <2>1, <2>4, NewPlace DEF Effect, Places
    <3> QED BY <2>1, <2>2, <3>1 DEF Turn
  <2>5. ASSUME NEW q \in Requests, pc'[q] = "done", Appends(q, "assistant") PROVE FALSE
    <3>1. \/ i \in Places(Session(r)) /\ events'[Session(r)][i] = events[Session(r)][i]
          \/ events'[Session(r)][i] = Turn("assistant", q)
      BY <1>0, <2>1, <2>5, NewPlace DEF Effect, Places
    <3> QED BY <2>1, <2>2, <2>5, <3>1 DEF Turn
  <2> QED BY <2>3, <2>4, <2>5 DEF Effect, StoreEffect
<1> QED BY <1>1, <1>2

LEMMA OrderStep ==
    ASSUME HostedTypeOK, HostedTypeOK', HalfTurns, NoStrayTurns, TurnsInOrder, Effect
    PROVE  TurnsInOrder'
<1>1. CASE events' = events
  BY <1>1 DEF TurnsInOrder, Places
<1>2. ASSUME NEW r \in Requests, NEW role \in {"user", "assistant"}, Appends(r, role),
             \A s \in Sessions : \A i \in Places(s) : events[s][i] # Turn(role, r),
             role = "assistant" => Has(r, "user")
      PROVE  TurnsInOrder'
  <2> SUFFICES ASSUME NEW s \in Sessions
               PROVE  \A i, j \in Places(s)' :
                         /\ events'[s][i] = events'[s][j] => i = j
                         /\ events'[s][i].role = "assistant" =>
                               \E k \in 1..(i - 1) : events'[s][k] = Turn("user", events'[s][i].by)
    BY DEF TurnsInOrder
  <2>1. \A i \in Places(s)' :
            \/ i \in Places(s) /\ events'[s][i] = events[s][i]
            \/ /\ s = Session(r) /\ i = Len(events[s]) + 1 /\ events'[s][i] = Turn(role, r)
    BY <1>2, NewPlace DEF Effect
  <2>2. Len(events[s]) \in Nat /\ Places(s) = 1..Len(events[s])
    BY PlacesAre
  <2>3. \A k \in Places(s) : events'[s][k] = events[s][k]
    BY StaysPut DEF Effect
  <2>4. ASSUME NEW i \in Places(s)', NEW j \in Places(s)', events'[s][i] = events'[s][j]
        PROVE  i = j
    <3>1. ASSUME i \in Places(s), j \in Places(s) PROVE i = j
      <4>1. events[s][i] = events[s][j]
        BY <2>3, <2>4, <3>1
      <4> QED BY <3>1, <4>1 DEF TurnsInOrder
    <3>2. ASSUME NEW m \in Places(s), events'[s][m] = Turn(role, r) PROVE FALSE
      BY <1>2, <2>3, <3>2
    <3> QED BY <2>1, <2>4, <3>1, <3>2
  <2>5. ASSUME NEW i \in Places(s)', events'[s][i].role = "assistant"
        PROVE  \E k \in 1..(i - 1) : events'[s][k] = Turn("user", events'[s][i].by)
    <3>1. CASE i \in Places(s) /\ events'[s][i] = events[s][i]
      <4>1. PICK k \in 1..(i - 1) : events[s][k] = Turn("user", events[s][i].by)
        BY <2>5, <3>1 DEF TurnsInOrder
      <4>2. k \in Places(s)
        BY <2>2, <3>1, <4>1
      <4> QED BY <2>3, <3>1, <4>1, <4>2
    <3>2. CASE s = Session(r) /\ i = Len(events[s]) + 1 /\ events'[s][i] = Turn(role, r)
      <4>1. role = "assistant" /\ events'[s][i].by = r
        BY <2>5, <3>2 DEF Turn
      <4>2. PICK k \in Places(s) : events[s][k] = Turn("user", r)
        BY <1>2, <3>2, <4>1 DEF Has, Stored
      <4>3. k \in 1..(i - 1) /\ events'[s][k] = Turn("user", r)
        BY <2>2, <2>3, <3>2, <4>2
      <4> QED BY <4>1, <4>3
    <3> QED BY <2>1, <3>1, <3>2
  <2> QED BY <2>4, <2>5
<1>3. ASSUME NEW r \in Requests, pc[r] = "graph", Appends(r, "user") PROVE TurnsInOrder'
  <2>1. \A s \in Sessions : \A i \in Places(s) : events[s][i] # Turn("user", r)
    BY <1>3, NothingYet DEF Turn
  <2> QED BY <1>2, <1>3, <2>1
<1>4. ASSUME NEW r \in Requests, pc[r] = "answer", Appends(r, "assistant")
      PROVE  TurnsInOrder'
  <2>1. Has(r, "user") /\ ~Has(r, "assistant")
    BY <1>4 DEF HalfTurns
  <2>2. ASSUME NEW s \in Sessions, NEW i \in Places(s), events[s][i] = Turn("assistant", r)
        PROVE  FALSE
    <3>1. Session(r) = s
      BY <2>2, WhoseTurn DEF Turn
    <3> QED BY <2>1, <2>2, <3>1 DEF Has, Stored
  <2> QED BY <1>2, <1>4, <2>1, <2>2
<1> QED BY <1>1, <1>3, <1>4 DEF Effect, StoreEffect

\* The second call makes the turn whole.
LEMMA WholeNow ==
    ASSUME HostedTypeOK, HostedTypeOK', HalfTurns, Effect,
           NEW r \in Requests, pc[r] = "answer", Appends(r, "assistant")
    PROVE  Recorded(r)'
<1>0. Session(r) \in Sessions /\ Session(r)' = Session(r)
  BY SessionTypes, StaysPut DEF Effect
<1>1. PICK i \in Places(Session(r)) : Stored(r, "user", i)
  BY DEF HalfTurns, Has
<1>2. PICK j : j = Len(events[Session(r)]) + 1
  OBVIOUS
<1>3. j \in Places(Session(r))' /\ Stored(r, "assistant", j)'
  BY <1>2, HasNow
<1>4. i \in Places(Session(r))' /\ Stored(r, "user", i)'
  BY <1>0, <1>1, StaysPut DEF Stored, Effect
<1>5. i < j
  BY <1>0, <1>1, <1>2, PlacesAre
<1> QED BY <1>3, <1>4, <1>5 DEF Recorded

LEMMA DurableStep ==
    ASSUME HostedTypeOK, HostedTypeOK', HalfTurns, AnswersAreDurable, Effect
    PROVE  AnswersAreDurable'
<1>1. ASSUME NEW r \in Requests, Recorded(r) PROVE Recorded(r)'
  BY <1>1, HasStays
<1>2. ASSUME NEW p \in Procs, NEW e \in cached'[p] PROVE Recorded(e)'
  <2>1. e \in Requests
    BY DEF HostedTypeOK
  <2> QED BY <1>1, <2>1, WholeNow DEF AnswersAreDurable, Effect, CacheEffect
<1>3. ASSUME NEW r \in Requests, reply'[r].kind \in {"fresh", "hit"}, NEW by, by = reply'[r].by
      PROVE  Recorded(by)'
  <2>1. by \in Requests
    BY <1>3 DEF HostedTypeOK, Replies
  <2>2. CASE reply'[r] = reply[r]
    BY <1>1, <1>3, <2>1, <2>2 DEF AnswersAreDurable
  <2>3. CASE \E p \in Procs : by \in cached[p]
    BY <1>1, <2>1, <2>3 DEF AnswersAreDurable
  <2>4. CASE pc[r] = "answer" /\ Appends(r, "assistant") /\ by = r
    BY <2>4, WholeNow
  <2> QED BY <1>3, <2>2, <2>3, <2>4 DEF Effect, ReplyEffect
<1> QED BY <1>2, <1>3 DEF AnswersAreDurable, Recorded, Places, Stored, Session
-----------------------------------------------------------------------------
LEMMA HostedInvariant == Spec => []HostedInv
<1>1. Init => HostedInv
  <2> SUFFICES ASSUME Init PROVE HostedInv
    OBVIOUS
  <2>1. HostedTypeOK
    BY HostedInit
  <2>2. \A s \in Sessions : Places(s) = {}
    <3>1. ASSUME NEW s \in Sessions PROVE Places(s) = {}
      <4>1. events[s] = <<>>
        BY DEF Init
      <4> QED BY <4>1, PlacesAre, <2>1, EmptySeq
    <3> QED BY <3>1
  <2>3. HalfTurns /\ NoStrayTurns /\ TurnsInOrder
    BY <2>2 DEF Init, HalfTurns, NoStrayTurns, TurnsInOrder
  <2>4. AnswersAreDurable
    BY DEF Init, AnswersAreDurable, Reply
  <2> QED BY <2>1, <2>3, <2>4 DEF HostedInv
<1>2. HostedInv /\ [Next]_vars => HostedInv'
  BY HostedType, StepEffect, HalfStep, StrayStep, OrderStep, DurableStep DEF HostedInv
<1> QED BY <1>1, <1>2, PTL DEF Spec

\* The state keeps its types, and an event loop is kept by the request between its calls.
THEOREM HostedTypes == Spec => []HostedTypeOK
<1>1. HostedInv => HostedTypeOK
  BY DEF HostedInv
<1> QED BY <1>1, HostedInvariant, PTL

\* An answer somebody has, or may get from a cache, is recorded as a whole turn.
THEOREM AnswersAreDurableHolds == Spec => []AnswersAreDurable
<1>1. HostedInv => AnswersAreDurable
  BY DEF HostedInv
<1> QED BY <1>1, HostedInvariant, PTL

\* An answer stands after its question, and nothing stands twice.
THEOREM TurnsInOrderHolds == Spec => []TurnsInOrder
<1>1. HostedInv => TurnsInOrder
  BY DEF HostedInv
<1> QED BY <1>1, HostedInvariant, PTL

\* A refused or cached question, or one of a failed generation, leaves no turn.
THEOREM NoStrayTurnsHolds == Spec => []NoStrayTurns
<1>1. HostedInv => NoStrayTurns
  BY DEF HostedInv
<1> QED BY <1>1, HostedInvariant, PTL

-----------------------------------------------------------------------------
(* What is in a prompt. *)

HistoryInv ==
    \A r \in Requests : \A k \in DOMAIN hist[r] :
        hist[r][k].by \in Requests /\ Session(hist[r][k].by) = Session(r)

LEMMA HistoryStep ==
    ASSUME HostedTypeOK, NoStrayTurns, HistoryInv, [Next]_vars
    PROVE  HistoryInv'
<1>1. ASSUME hist' = hist PROVE HistoryInv'
  <2>1. ask' = ask
    BY StepEffect DEF Effect
  <2> QED BY <1>1, <2>1 DEF HistoryInv, Session
<1>2. ASSUME NEW r \in Requests, NEW p \in Procs, ReadHistory(r, p) PROVE HistoryInv'
  <2>1. ask' = ask /\ hist' = [hist EXCEPT ![r] = LastTurns(events[Session(r)], Window)]
    BY <1>2 DEF ReadHistory
  <2>2. Session(r) \in Sessions /\ events[Session(r)] \in Seq(Turns)
    BY SessionTypes DEF HostedTypeOK
  <2>3. \A k \in DOMAIN LastTurns(events[Session(r)], Window) :
            \E i \in DOMAIN events[Session(r)] :
                LastTurns(events[Session(r)], Window)[k] = events[Session(r)][i]
    BY <2>2, LastTurnsWithin, HostedAssumption
  <2>4. \A i \in DOMAIN events[Session(r)] :
            /\ events[Session(r)][i].by \in Requests
            /\ Session(events[Session(r)][i].by) = Session(r)
    BY <2>2, WhoseTurn DEF Places
  <2>5. hist'[r] = LastTurns(events[Session(r)], Window)
    BY <2>1 DEF HostedTypeOK
  <2>6. \A k \in DOMAIN hist'[r] :
            hist'[r][k].by \in Requests /\ Session(hist'[r][k].by) = Session(r)
    BY <2>3, <2>4, <2>5
  <2>7. \A q \in Requests \ {r} : hist'[q] = hist[q]
    BY <2>1 DEF HostedTypeOK
  <2>8. \A q \in Requests : \A k \in DOMAIN hist'[q] :
            hist'[q][k].by \in Requests /\ Session(hist'[q][k].by) = Session(q)
    BY <2>6, <2>7 DEF HistoryInv
  <2> QED BY <2>1, <2>8 DEF HistoryInv, Session
<1>3. ASSUME NEW r \in Requests, NEW p \in Procs, Begin(r, p) PROVE HistoryInv'
  <2>1. CASE ReadHistory(r, p)
    BY <1>2, <2>1
  <2>2. CASE ~ReadHistory(r, p)
    <3>1. hist' = hist
      BY <1>3, <2>2 DEF Begin, RefuseBlank, RejectInput, ServeCached, HistoryFails
    <3> QED BY <1>1, <3>1
  <2> QED BY <2>1, <2>2
<1>4. ASSUME NEW r \in Requests, Proceed(r) PROVE HistoryInv'
  <2>1. hist' = hist
    BY <1>4, Zenon
       DEF Proceed, GraphFails, StoreQuestion, QuestionFails, StoreAnswer, AnswerFails
  <2> QED BY <1>1, <2>1
<1>5. ASSUME NEW p \in Procs, Stop(p) PROVE HistoryInv'
  BY <1>1, <1>5 DEF Stop
<1>6. CASE UNCHANGED vars
  BY <1>1, <1>6 DEF vars
<1> QED BY <1>3, <1>4, <1>5, <1>6 DEF Next

\* No turn of one platform session is in a prompt of another, whatever the payloads say.
THEOREM PlatformSessionsApartHolds == Spec => []PlatformSessionsApart
<1>1. Init => HistoryInv
  BY EmptySeq DEF Init, HistoryInv
<1>2. HostedInv /\ HistoryInv /\ [Next]_vars => HistoryInv'
  BY HistoryStep DEF HostedInv
<1>3. HistoryInv => PlatformSessionsApart
  BY DEF HistoryInv, PlatformSessionsApart, Session, SessionOf
<1> QED BY <1>1, <1>2, <1>3, HostedInvariant, PTL DEF Spec

-----------------------------------------------------------------------------
(* What a prompt must know. *)

\* FollowUpsKnow of r and one answer e of its session.
Knows(r, e) ==
    \/ \E k \in DOMAIN hist[r] : hist[r][k] = Turn("assistant", e)
    \/ /\ Window < 0 \/ Len(hist[r]) = Window
       /\ \A k \in DOMAIN hist[r] : \E i, j \in Places(Session(r)) :
             i < j /\ Stored(e, "assistant", i) /\ events[Session(r)][j] = hist[r][k]

OwnReplies == \A r \in Generated : reply[r].by = r

\* A request that has read is one that reads now, or its prompt and its past stay.
LEMMA ReadSteps ==
    ASSUME HostedTypeOK, [Next]_vars, NEW r \in Requests, HasRead(r)'
    PROVE  \/ \E p \in Procs : ReadHistory(r, p)
           \/ /\ HasRead(r) /\ hist'[r] = hist[r] /\ past'[r] = past[r]
              /\ reply'[r].kind = "fresh" => reply'[r] = reply[r] \/ reply'[r].by = r
<1> DEFINE Same == /\ HasRead(r) /\ hist'[r] = hist[r] /\ past'[r] = past[r]
                   /\ reply'[r].kind = "fresh" => reply'[r] = reply[r] \/ reply'[r].by = r
<1>1. ASSUME NEW q \in Requests, NEW p \in Procs, Begin(q, p), ~ReadHistory(q, p)
      PROVE  Same
  <2> USE DEF Arrives, Enters, Misses, Answers, Reply, HostedTypeOK, HasRead
  <2>1. CASE RefuseBlank(q, p)
    BY <2>1 DEF RefuseBlank
  <2>2. CASE RejectInput(q, p)
    BY <2>2 DEF RejectInput
  <2>3. CASE ServeCached(q, p)
    BY <2>3 DEF ServeCached
  <2>4. CASE HistoryFails(q, p)
    BY <2>4 DEF HistoryFails
  <2> QED BY <1>1, <2>1, <2>2, <2>3, <2>4 DEF Begin
<1>2. ASSUME NEW q \in Requests, NEW p \in Procs, ReadHistory(q, p), q # r
      PROVE  Same
  BY <1>2 DEF ReadHistory, Misses, Enters, Arrives, HostedTypeOK, HasRead
<1>3. ASSUME NEW q \in Requests, Proceed(q) PROVE Same
  <2> USE DEF Answers, Reply, HostedTypeOK, HasRead
  <2>1. CASE GraphFails(q)
    BY <2>1 DEF GraphFails
  <2>2. CASE StoreQuestion(q)
    BY <2>2 DEF StoreQuestion
  <2>3. CASE QuestionFails(q)
    BY <2>3 DEF QuestionFails
  <2>4. CASE StoreAnswer(q)
    BY <2>4 DEF StoreAnswer
  <2>5. CASE AnswerFails(q)
    BY <2>5 DEF AnswerFails
  <2> QED BY <1>3, <2>1, <2>2, <2>3, <2>4, <2>5 DEF Proceed
<1>4. ASSUME NEW p \in Procs, Stop(p) PROVE Same
  BY <1>4 DEF Stop, InProgress, Reply, HostedTypeOK, HasRead
<1>5. CASE UNCHANGED vars
  BY <1>5 DEF vars, HasRead
<1> QED BY <1>1, <1>2, <1>3, <1>4, <1>5 DEF Next

\* What pushed an answer out of a prompt stays behind that answer.
LEMMA KnowsStays ==
    ASSUME HostedTypeOK, HostedTypeOK', Effect,
           NEW r \in Requests, NEW e \in Requests, Session(e) = Session(r),
           hist'[r] = hist[r], Knows(r, e)
    PROVE  Knows(r, e)'
<1>1. /\ Session(r) \in Sessions /\ Session(r)' = Session(r) /\ Session(e)' = Session(e)
      /\ \A i \in Places(Session(r)) :
            i \in Places(Session(r))' /\ events'[Session(r)][i] = events[Session(r)][i]
  BY SessionTypes, StaysPut DEF Effect
<1>2. CASE \E k \in DOMAIN hist[r] : hist[r][k] = Turn("assistant", e)
  BY <1>2 DEF Knows, Turn
<1>3. ASSUME NEW k \in DOMAIN hist[r], NEW i \in Places(Session(r)), NEW j \in Places(Session(r)),
             i < j, Stored(e, "assistant", i), events[Session(r)][j] = hist[r][k]
      PROVE  /\ i \in Places(Session(r))' /\ j \in Places(Session(r))'
             /\ Stored(e, "assistant", i)' /\ events'[Session(r)][j] = hist'[r][k]
  BY <1>1, <1>3 DEF Stored, Turn
<1>4. CASE /\ Window < 0 \/ Len(hist[r]) = Window
           /\ \A k \in DOMAIN hist[r] : \E i, j \in Places(Session(r)) :
                 i < j /\ Stored(e, "assistant", i) /\ events[Session(r)][j] = hist[r][k]
  <2>1. \A k \in DOMAIN hist'[r] : \E i, j \in Places(Session(r))' :
           i < j /\ Stored(e, "assistant", i)' /\ events'[Session(r)][j] = hist'[r][k]
    BY <1>3, <1>4
  <2> QED BY <1>1, <1>4, <2>1 DEF Knows
<1> QED BY <1>2, <1>3, <1>4 DEF Knows

\* Reading finds every recorded answer, or the window full of what came after it.
LEMMA ReadingKnows ==
    ASSUME HostedTypeOK, HostedTypeOK', Effect, AnswersAreDurable, OwnReplies,
           NEW r \in Requests, NEW p \in Procs, ReadHistory(r, p),
           NEW e \in past'[r], Session(e) = Session(r)
    PROVE  Knows(r, e)'
<1> DEFINE s     == Session(r)
           turns == events[s]
           list  == hist'[r]
<1>1. /\ s \in Sessions /\ turns \in Seq(Turns) /\ Window \in Int
      /\ events' = events /\ ask' = ask /\ e \in Requests /\ e \in Generated
      /\ list = LastTurns(turns, Window) /\ Places(s) = 1..Len(turns) /\ Len(turns) \in Nat
  <2>1. past'[r] = Generated /\ hist'[r] = LastTurns(turns, Window) /\ events' = events
    BY DEF ReadHistory, Misses, Enters, Arrives, HostedTypeOK
  <2>2. s \in Sessions
    BY SessionTypes
  <2> QED BY <2>1, <2>2, PlacesAre, HostedAssumption DEF Generated, HostedTypeOK, Effect
<1>2. PICK j \in 1..Len(turns) : turns[j] = Turn("assistant", e)
  <2>1. Recorded(reply[e].by) /\ reply[e].by = e
    BY <1>1 DEF Generated, AnswersAreDurable, OwnReplies
  <2> QED BY <1>1, <2>1 DEF Recorded, Stored
<1>3. PICK d \in Nat : /\ EndOf(list, turns, d)
                       /\ Window > 0 => Len(list) <= Window
                       /\ Window > 0 => (Len(list) < Window => d = 0)
                       /\ Window = 0 => d = 0
  BY <1>1, LastTurnsIsAnEnd
<1>4. /\ Len(list) = IF d <= Len(turns) THEN Len(turns) - d ELSE 0
      /\ \A k \in 1..Len(list) : list[k] = turns[k + d]
      /\ DOMAIN list = 1..Len(list)
  BY <1>1, <1>3, LastTurnsIsAnEnd, LenProperties DEF EndOf
<1>5. /\ events'[s] = turns /\ Session(r)' = s /\ Places(s)' = 1..Len(turns)
      /\ \A i \in 1..Len(turns) : Stored(e, "assistant", i)' <=> turns[i] = Turn("assistant", e)
  BY <1>1 DEF Session, Places, Stored, Turn
<1> HIDE DEF list, turns, s
<1>6. CASE j > d
  <2>1. j - d \in 1..Len(list) /\ (j - d) + d = j
    BY <1>1, <1>4, <1>6
  <2>2. list[j - d] = turns[(j - d) + d]
    BY <1>4, <2>1
  <2>3. list[j - d] = Turn("assistant", e) /\ j - d \in DOMAIN list
    BY <1>2, <1>4, <2>1, <2>2
  <2> QED BY <2>3 DEF Knows, list, Turn
<1>7. CASE ~(j > d)
  <2>1. Window < 0 \/ Len(list) = Window
    <3>1. d > 0 /\ Len(list) \in Nat
      BY <1>1, <1>4, <1>7
    <3> QED BY <1>1, <1>3, <3>1
  <2>2. ASSUME NEW k \in 1..Len(list)
        PROVE  k + d \in 1..Len(turns) /\ j < k + d /\ turns[k + d] = list[k]
    <3>1. list[k] = turns[k + d]
      BY <1>4
    <3> QED BY <1>1, <1>4, <1>7, <3>1
  <2>3. \A k \in DOMAIN list : \E i, n \in Places(s)' :
           i < n /\ Stored(e, "assistant", i)' /\ events'[s][n] = list[k]
    <3> SUFFICES ASSUME NEW k \in DOMAIN list
                 PROVE  \E i, n \in Places(s)' :
                           i < n /\ Stored(e, "assistant", i)' /\ events'[s][n] = list[k]
      OBVIOUS
    <3>1. k \in 1..Len(list)
      BY <1>4
    <3>2. /\ j \in Places(s)' /\ k + d \in Places(s)' /\ j < k + d
          /\ Stored(e, "assistant", j)' /\ events'[s][k + d] = list[k]
      BY <1>2, <1>5, <2>2, <3>1
    <3> QED BY <3>2
  <2> QED BY <1>5, <2>1, <2>3 DEF Knows, list, s
<1> QED BY <1>6, <1>7

FollowInv == OwnReplies /\ FollowUpsKnow

LEMMA FollowStep ==
    ASSUME HostedInv, FollowInv, [Next]_vars
    PROVE  FollowInv'
<1>1. HostedTypeOK /\ HostedTypeOK' /\ Effect /\ AnswersAreDurable
  BY HostedType, StepEffect DEF HostedInv
<1>2. ASSUME NEW r \in Generated' PROVE reply'[r].by = r
  <2>1. r \in Requests /\ reply'[r].kind = "fresh" /\ HasRead(r)'
    BY DEF Generated, HasRead
  <2>2. CASE \E p \in Procs : ReadHistory(r, p)
    BY <1>1, <2>1, <2>2 DEF ReadHistory, Misses, Enters, Arrives, HostedTypeOK
  <2>3. CASE reply'[r] = reply[r]
    BY <2>1, <2>3 DEF FollowInv, OwnReplies, Generated
  <2> QED BY <1>1, <2>1, <2>2, <2>3, ReadSteps
<1>3. ASSUME NEW r \in Requests, HasRead(r)', NEW e \in past'[r], (Session(e) = Session(r))'
      PROVE  Knows(r, e)'
  <2>1. e \in Requests /\ Session(e) = Session(r)
    <3>1. e \in Requests
      BY <1>1 DEF HostedTypeOK
    <3> QED BY <1>1, <1>3, <3>1 DEF Session, Effect
  <2>2. CASE \E p \in Procs : ReadHistory(r, p)
    BY <1>1, <1>3, <2>1, <2>2, ReadingKnows DEF FollowInv
  <2>3. CASE HasRead(r) /\ hist'[r] = hist[r] /\ past'[r] = past[r]
    <3>1. Knows(r, e)
      BY <1>3, <2>1, <2>3 DEF FollowInv, FollowUpsKnow, Knows
    <3> QED BY <1>1, <2>1, <2>3, <3>1, KnowsStays
  <2> QED BY <1>1, <1>3, <2>2, <2>3, ReadSteps
<1>4. FollowUpsKnow'
  BY <1>3 DEF FollowUpsKnow, Knows
<1> QED BY <1>2, <1>4 DEF FollowInv, OwnReplies

\* A follow-up knows the answers its session had got, or the window is full of what was
\* stored since: across processes, stops and failed calls.
THEOREM FollowUpsKnowHolds == Spec => []FollowUpsKnow
<1>1. Init => FollowInv
  <2> SUFFICES ASSUME Init PROVE FollowInv
    OBVIOUS
  <2>1. \A r \in Requests : pc[r] = "new" /\ reply[r].kind = "none"
    BY DEF Init, Reply
  <2> QED BY <2>1 DEF FollowInv, OwnReplies, Generated, FollowUpsKnow, HasRead
<1>2. HostedInv /\ FollowInv /\ [Next]_vars => FollowInv'
  BY FollowStep
<1>3. FollowInv => FollowUpsKnow
  BY DEF FollowInv
<1> QED BY <1>1, <1>2, <1>3, HostedInvariant, PTL DEF Spec
=============================================================================
