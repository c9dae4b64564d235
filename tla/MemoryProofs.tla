---------------------------- MODULE MemoryProofs ----------------------------
(* What the memory and the prompts of AgentPipeline are made of: clean turns, whole
   turns of finished requests, newest last, and the history a prompt should have, for
   every value of the constants. *)
EXTENDS AnswerProofs

-----------------------------------------------------------------------------
(* The guards. *)

CleanTurns == {turn \in Turns : CleanTurn(turn)}

GuardInv ==
    GuardsOn =>
        /\ \A r \in InGraph : Allowed(ask[r].query)
        /\ \A r \in Requests : reply[r].text # "pii"
        /\ \A k \in DOMAIN cache : cache[k].value.text # "pii"
        /\ \A s \in Sessions : memory[s] \in Seq(CleanTurns)
        /\ \A r \in Requests : hist[r] \in Seq(CleanTurns)

\* A step writes to the memory of a session only when a request of it finishes.
LEMMA MemorySteps ==
    ASSUME [Next]_vars, TypeOK, NEW s \in Sessions
    PROVE  \/ memory'[s] = memory[s]
           \/ \E r \in Requests :
                /\ Finish(r)
                /\ ask[r].session = s
                /\ memory'[s] = Pushed(Pushed(memory[s], UserTurn(r)),
                                       AssistantTurn(r, Sanitised(raw[r])))
<1>1. memory \in [Sessions -> Seq(Turns)]
  BY DEF TypeOK, MemoryTypeOK
<1>2. CASE \E r \in Requests : Finish(r)
  <2>1. PICK r \in Requests : Finish(r)
    BY <1>2
  <2>2. RememberPair(ask[r].session, UserTurn(r), AssistantTurn(r, Sanitised(raw[r])))
    BY <2>1 DEF Finish
  <2> QED BY <1>1, <2>1, <2>2 DEF RememberPair
<1>3. CASE ~ \E r \in Requests : Finish(r)
  <2>1. memory' = memory
    BY <1>3 DEF Next, Begin, RejectInput, ServeCached, EnterGraph, Proceed, Rewrite, Retrieve,
                Answer, ProviderFails, IngestNothing, StartIngest, ProceedIngest,
                StoreAndClear, IngestFails, Tick, vars
  <2> QED BY <2>1
<1> QED BY <1>2, <1>3

\* The turns a finished request leaves are clean.
LEMMA FinishedTurnsClean ==
    ASSUME TypeOK, GuardsOn, NEW r \in Requests, Allowed(ask[r].query)
    PROVE  UserTurn(r) \in CleanTurns /\ AssistantTurn(r, Sanitised(raw[r])) \in CleanTurns
<1>1. UserTurn(r) \in Turns /\ AssistantTurn(r, Sanitised(raw[r])) \in Turns
  BY RequestTypes
<1>2. Sanitised(raw[r]) # "pii"
  BY DEF Sanitised
<1> QED BY <1>1, <1>2 DEF CleanTurns, CleanTurn, UserTurn, AssistantTurn

LEMMA GuardInvStep ==
    ASSUME AnswerInv, GuardInv, [Next]_vars
    PROVE  GuardInv'
<1> SUFFICES ASSUME GuardsOn
             PROVE  /\ (\A r \in InGraph : Allowed(ask[r].query))'
                    /\ \A r \in Requests : reply'[r].text # "pii"
                    /\ \A k \in DOMAIN cache' : cache'[k].value.text # "pii"
                    /\ \A s \in Sessions : memory'[s] \in Seq(CleanTurns)
                    /\ \A r \in Requests : hist'[r] \in Seq(CleanTurns)
  BY DEF GuardInv
<1> USE DEF AnswerInv
<1>0. /\ ask' = ask
      /\ pc \in [Requests -> PCs] /\ reply \in [Requests -> Replies]
      /\ hist \in [Requests -> Seq(Turns)]
  BY AnsweredStay DEF TypeOK
<1>1. ASSUME NEW r \in Requests, r \in InGraph' PROVE Allowed(ask[r].query)
  <2>1. CASE r \in InGraph
    BY <2>1 DEF GuardInv
  <2>2. CASE r \notin InGraph
    <3>1. EnterGraph(r)
      BY <1>0, <1>1, <2>2, OtherRequestsStay
      DEF InGraph, Begin, Proceed, RejectInput, ServeCached, Rewrite, Retrieve, Answer, Finish,
          ProviderFails
    <3> QED BY <3>1 DEF EnterGraph
  <2> QED BY <2>1, <2>2
<1>2. ASSUME NEW r \in Requests PROVE reply'[r].text # "pii"
  <2>1. CASE reply'[r] = reply[r]
    BY <2>1 DEF GuardInv
  <2>2. CASE RejectInput(r) \/ ProviderFails(r)
    BY <2>2, UnservedReply
  <2>3. CASE ServeCached(r)
    BY <2>3, CachedReply DEF GuardInv
  <2>4. CASE Finish(r)
    BY <2>4, FreshReply DEF Sanitised
  <2>5. CASE EnterGraph(r)
    BY <2>1, <2>5 DEF EnterGraph
  <2> QED BY <2>1, <2>2, <2>3, <2>4, <2>5, ReplySteps
<1>3. ASSUME NEW k \in DOMAIN cache' PROVE cache'[k].value.text # "pii"
  BY CacheSteps DEF GuardInv, Sanitised
<1>4. ASSUME NEW s \in Sessions PROVE memory'[s] \in Seq(CleanTurns)
  <2>1. memory[s] \in Seq(CleanTurns) /\ Len(memory[s]) <= MaxTurns
    BY DEF GuardInv, TypeOK
  <2>2. ASSUME NEW r \in Requests, Finish(r),
               memory'[s] = Pushed(Pushed(memory[s], UserTurn(r)),
                                   AssistantTurn(r, Sanitised(raw[r])))
        PROVE  memory'[s] \in Seq(CleanTurns)
    <3>1. Allowed(ask[r].query)
      BY <2>2 DEF Finish, GuardInv, InGraph
    <3> QED BY <2>1, <2>2, <3>1, FinishedTurnsClean, PairType
  <2> QED BY <2>1, <2>2, MemorySteps
<1>5. ASSUME NEW r \in Requests PROVE hist'[r] \in Seq(CleanTurns)
  <2>1. CASE hist'[r] = hist[r]
    BY <2>1 DEF GuardInv
  <2>2. CASE EnterGraph(r)
    <3>1. hist'[r] = LastTurns(memory[ask[r].session], Window)
      BY <1>0, <2>2 DEF EnterGraph
    <3>2. memory[ask[r].session] \in Seq(CleanTurns)
      BY RequestTypes DEF GuardInv
    <3>3. Window \in Int
      BY PipelineAssumption
    <3>4. LastTurns(memory[ask[r].session], Window) \in Seq(CleanTurns)
      BY <3>2, <3>3, LastTurnsIsAnEnd
    <3> QED BY <3>1, <3>4
  <2>3. CASE (Begin(r) \/ Proceed(r)) /\ ~EnterGraph(r)
    BY <2>1, <2>3 DEF Begin, Proceed, RejectInput, ServeCached, Rewrite, Retrieve, Answer, Finish,
                      ProviderFails
  <2> QED BY <2>1, <2>2, <2>3, OtherRequestsStay
<1> QED BY <1>0, <1>1, <1>2, <1>3, <1>4, <1>5 DEF InGraph

\* With the guards on, no unsanitised answer and no flagged question is kept, prompted
\* with or sent (pipeline.py:84-95, 139-142).
THEOREM NoRawPIIHolds == Spec => []NoRawPII
<1>1. Init => GuardInv
  <2> SUFFICES ASSUME Init PROVE GuardInv
    OBVIOUS
  <2>1. \A r \in Requests : reply[r].text = "none" /\ pc[r] = "new"
    <3>1. \A r \in Requests : pc[r] = "new" /\ reply[r] = Reply("none", NoAnswer(r), <<>>)
      BY DEF Init
    <3>2. \A r \in Requests : NoAnswer(r).text = "none"
      BY DEF NoAnswer
    <3> QED BY <3>1, <3>2, ReplyFields
  <2>2. <<>> \in Seq(CleanTurns)
    OBVIOUS
  <2> QED BY <2>1, <2>2 DEF Init, CacheInit, MemoryInit, GuardInv, InGraph
<1>2. AnswerInv /\ GuardInv /\ [Next]_vars => GuardInv'
  BY GuardInvStep
<1>3. GuardInv => NoRawPII
  <2>1. \A turns \in Seq(CleanTurns) : \A n \in 1..Len(turns) : CleanTurn(turns[n])
    BY ElementOfSeq DEF CleanTurns
  <2> QED BY <2>1 DEF GuardInv, NoRawPII
<1> QED BY <1>1, <1>2, <1>3, AnswerInvariant, PTL DEF Spec

-----------------------------------------------------------------------------
(* The two pushes of a finished turn. *)

\* A push on a deque with room.
GrewBy(T, old, new, t) ==
    /\ new \in Seq(T) /\ Len(new) = Len(old) + 1
    /\ \A n \in 1..Len(old) : new[n] = old[n]
    /\ new[Len(old) + 1] = t

LEMMA PushedRoom ==
    ASSUME NEW T, NEW turns \in Seq(T), NEW t \in T, Len(turns) < MaxTurns
    PROVE  GrewBy(T, turns, Pushed(turns, t), t)
BY AppendProperties DEF Pushed, GrewBy

\* A push on a full deque: everything moves down by one.
MovedDown(T, old, new, t) ==
    /\ new \in Seq(T) /\ Len(new) = Len(old)
    /\ \A n \in 1..(Len(old) - 1) : new[n] = old[n + 1]
    /\ new[Len(old)] = t

LEMMA PushedFull ==
    ASSUME NEW T, NEW turns \in Seq(T), NEW t \in T, Len(turns) = MaxTurns
    PROVE  MovedDown(T, turns, Pushed(turns, t), t)
<1>0. Len(turns) \in Nat /\ MaxTurns \in Nat /\ MaxTurns > 0
  BY LenProperties, MemoryAssumption
<1>1. turns # <<>>
  BY <1>0, EmptySeq
<1>2. /\ Tail(turns) \in Seq(T) /\ Len(Tail(turns)) = Len(turns) - 1
      /\ \A n \in 1..(Len(turns) - 1) : Tail(turns)[n] = turns[n + 1]
  BY <1>1, HeadTailProperties
<1>3. /\ Append(Tail(turns), t) \in Seq(T)
      /\ Len(Append(Tail(turns), t)) = Len(turns)
      /\ \A n \in 1..(Len(turns) - 1) : Append(Tail(turns), t)[n] = Tail(turns)[n]
      /\ Append(Tail(turns), t)[Len(turns)] = t
  BY <1>0, <1>2, AppendProperties
<1>4. Pushed(turns, t) = Append(Tail(turns), t)
  BY <1>0 DEF Pushed
<1>5. MovedDown(T, turns, Append(Tail(turns), t), t)
  BY <1>2, <1>3 DEF MovedDown
<1> QED BY <1>4, <1>5

\* What a pair of pushes does: the turns move down by `drop`, the pair comes last.
Shifted(old, new, drop, t, u) ==
    /\ drop <= Len(old)
    /\ Len(new) = Len(old) + 2 - drop
    /\ \A n \in 1..(Len(old) - drop) : new[n] = old[n + drop]
    /\ new[Len(new) - 1] = t
    /\ new[Len(new)] = u

\* A pair of pushes on a deque with room for one, so for two: the turns stay.
LEMMA PairRoom ==
    ASSUME NEW T, NEW turns \in Seq(T), NEW t \in T, NEW u \in T,
           Len(turns) < MaxTurns, Len(turns) % 2 = 0
    PROVE  Shifted(turns, Pushed(Pushed(turns, t), u), 0, t, u)
<1> DEFINE mid == Pushed(turns, t)
           new == Pushed(mid, u)
<1>1. Len(turns) \in Nat /\ MaxTurns \in Nat /\ MaxTurns % 2 = 0
  BY LenProperties, MemoryAssumption
<1>2. GrewBy(T, turns, mid, t)
  BY PushedRoom
<1> HIDE DEF mid
<1>3. mid \in Seq(T) /\ Len(mid) < MaxTurns
  BY <1>1, <1>2 DEF GrewBy
<1>4. GrewBy(T, mid, new, u)
  BY <1>3, PushedRoom
<1> HIDE DEF new
<1>5. \A n \in 1..Len(turns) : new[n] = turns[n]
  BY <1>1, <1>2, <1>4 DEF GrewBy
<1>6. /\ Len(new) = Len(turns) + 2
      /\ new[Len(turns) + 1] = t /\ new[Len(turns) + 2] = u
  BY <1>1, <1>2, <1>4 DEF GrewBy
<1>7. Shifted(turns, new, 0, t, u)
  BY <1>1, <1>5, <1>6 DEF Shifted
<1> QED BY <1>7 DEF mid, new

\* A pair of pushes on a full deque: the oldest pair goes.
LEMMA PairFull ==
    ASSUME NEW T, NEW turns \in Seq(T), NEW t \in T, NEW u \in T, Len(turns) = MaxTurns
    PROVE  Shifted(turns, Pushed(Pushed(turns, t), u), 2, t, u)
<1> DEFINE mid == Pushed(turns, t)
           new == Pushed(mid, u)
<1>1. Len(turns) \in Nat /\ Len(turns) >= 2
  BY LenProperties, MemoryAssumption
<1>2. MovedDown(T, turns, mid, t)
  BY PushedFull
<1> HIDE DEF mid
<1>3. mid \in Seq(T) /\ Len(mid) = MaxTurns
  BY <1>2 DEF MovedDown
<1>4. MovedDown(T, mid, new, u)
  BY <1>3, PushedFull
<1> HIDE DEF new
<1>5. ASSUME NEW n \in 1..(Len(turns) - 2) PROVE new[n] = turns[n + 2]
  <2>1. new[n] = mid[n + 1]
    BY <1>1, <1>2, <1>4 DEF MovedDown
  <2>2. n + 1 \in 1..(Len(turns) - 1)
    BY <1>1
  <2>3. mid[n + 1] = turns[(n + 1) + 1]
    BY <1>2, <2>2 DEF MovedDown
  <2> QED BY <2>1, <2>3, (n + 1) + 1 = n + 2
<1>6. /\ Len(new) = Len(turns)
      /\ new[Len(turns) - 1] = t /\ new[Len(turns)] = u
  BY <1>1, <1>2, <1>4 DEF MovedDown
<1>7. Shifted(turns, new, 2, t, u)
  BY <1>1, <1>5, <1>6 DEF Shifted
<1> QED BY <1>7 DEF mid, new
-----------------------------------------------------------------------------
(* Whole turns. *)

Odds(turns) == {n \in 1..Len(turns) : n % 2 = 1}

\* With the given replies: the requests answered by a generation of their own.
AnsweredIn(replies) == {r \in Requests : replies[r].kind = "fresh"}

\* The turn at n and the next are the two that request r of session s left.
PairAt(turns, n, r, s, asks, replies) ==
    /\ turns[n] = [role |-> "user", by |-> r, text |-> asks[r].query]
    /\ turns[n + 1] = AssistantTurn(r, replies[r].text)
    /\ r \in AnsweredIn(replies)
    /\ asks[r].session = s

Remembers(turns, s, asks, replies) ==
    /\ Len(turns) % 2 = 0
    /\ \A n \in Odds(turns) : PairAt(turns, n, turns[n].by, s, asks, replies)
    /\ \A m, n \in Odds(turns) : turns[m].by = turns[n].by => m = n
    /\ Len(turns) < MaxTurns =>
          \A r \in AnsweredIn(replies) :
              asks[r].session = s => \E n \in Odds(turns) : turns[n].by = r

\* RememberedTurns with its parts named: inductive together with AnswerInv.
MemoryInv == \A s \in Sessions : Remembers(memory[s], s, ask, reply)

LEMMA MemoryInvSuffices == MemoryInv => RememberedTurns
<1>1. AnsweredIn(reply) = Generated
  BY DEF AnsweredIn, Generated
<1> QED BY <1>1 DEF MemoryInv, RememberedTurns, Remembers, Odds, PairAt, UserTurn

\* A request that finishes had no answer yet, and is the only one to get one.
LEMMA FinishIsNew ==
    ASSUME AnswerInv, [Next]_vars, NEW r \in Requests, Finish(r)
    PROVE  /\ r \notin Generated
           /\ Generated' = Generated \cup {r}
           /\ memory'[ask[r].session] =
                 Pushed(Pushed(memory[ask[r].session], UserTurn(r)),
                        AssistantTurn(r, reply'[r].text))
           /\ \A s \in Sessions \ {ask[r].session} : memory'[s] = memory[s]
<1>1. /\ TypeOK /\ ReplySound
      /\ pc \in [Requests -> PCs] /\ reply \in [Requests -> Replies]
      /\ memory \in [Sessions -> Seq(Turns)] /\ ask[r].session \in Sessions
  BY RequestTypes DEF AnswerInv, TypeOK, MemoryTypeOK
<1>2. r \notin Generated
  BY <1>1 DEF Finish, ReplySound, Generated
<1>3. reply'[r].kind = "fresh" /\ reply'[r].text = Sanitised(raw[r])
  BY <1>1, FreshReply
<1>4. \A g \in Requests \ {r} : reply'[g] = reply[g]
  BY <1>1 DEF Finish
<1>5. Generated' = Generated \cup {r}
  BY <1>3, <1>4 DEF Generated
<1>6. RememberPair(ask[r].session, UserTurn(r), AssistantTurn(r, reply'[r].text))
  BY <1>3 DEF Finish
<1> QED BY <1>1, <1>2, <1>5, <1>6 DEF RememberPair

\* A pair that is remembered still is that pair after a step.
LEMMA PairStays ==
    ASSUME AnswerInv, [Next]_vars, NEW turns, NEW n, NEW r, NEW s,
           PairAt(turns, n, r, s, ask, reply)
    PROVE  PairAt(turns, n, r, s, ask, reply')
<1>1. r \in Generated /\ ask[r].session = s
  BY DEF PairAt, AnsweredIn, Generated
<1>2. r \in Generated' /\ reply'[r] = reply[r]
  BY <1>1, GeneratedStay DEF AnswerInv
<1> QED BY <1>1, <1>2 DEF PairAt, AnsweredIn, Generated

LEMMA PairShifts ==
    ASSUME NEW T, NEW old \in Seq(T), NEW t \in T, NEW u \in T,
           Len(old) <= MaxTurns, Len(old) % 2 = 0
    PROVE  \E drop \in {0, 2} :
              /\ Shifted(old, Pushed(Pushed(old, t), u), drop, t, u)
              /\ Len(old) < MaxTurns => drop = 0
              /\ Len(old) = MaxTurns => drop = 2
<1>1. Len(old) \in Nat /\ MaxTurns \in Nat /\ MaxTurns > 0
  BY LenProperties, MemoryAssumption
<1>2. CASE Len(old) < MaxTurns
  BY <1>1, <1>2, PairRoom
<1>3. CASE Len(old) = MaxTurns
  BY <1>1, <1>3, PairFull
<1> QED BY <1>1, <1>2, <1>3

\* Where the pairs of the shifted memory come from.
LEMMA ShiftedPairs ==
    ASSUME NEW old, NEW new, NEW drop \in {0, 2}, NEW t, NEW u,
           Len(old) \in Nat, Len(old) % 2 = 0, Shifted(old, new, drop, t, u)
    PROVE  /\ Len(new) % 2 = 0 /\ Len(new) - 1 \in Odds(new)
           /\ \A n \in Odds(new) :
                 \/ n = Len(new) - 1
                 \/ /\ n + drop \in Odds(old)
                    /\ new[n] = old[n + drop]
                    /\ new[n + 1] = old[n + drop + 1]
           /\ \A n \in Odds(old) : n > drop => n - drop \in Odds(new) /\ new[n - drop] = old[n]
<1>1. Len(new) = Len(old) + 2 - drop /\ drop <= Len(old)
  BY DEF Shifted
<1>2. Len(new) \in Nat /\ Len(new) % 2 = 0 /\ Len(new) - 1 \in Odds(new)
  BY <1>1 DEF Odds
<1>3. ASSUME NEW n \in Odds(new), n # Len(new) - 1
      PROVE  /\ n + drop \in Odds(old)
             /\ new[n] = old[n + drop]
             /\ new[n + 1] = old[n + drop + 1]
  <2>1. n \in 1..Len(new) /\ n % 2 = 1 /\ n \in Nat
    BY <1>2 DEF Odds
  <2>2. n < Len(new) - 1
    BY <1>2, <1>3, <2>1
  <2>3. n \in 1..(Len(old) - drop) /\ n + 1 \in 1..(Len(old) - drop)
    BY <1>1, <2>1, <2>2
  <2>4. n + drop \in Odds(old)
    BY <2>1, <2>3 DEF Odds
  <2>5. new[n] = old[n + drop] /\ new[n + 1] = old[(n + 1) + drop]
    BY <2>3 DEF Shifted
  <2> QED BY <2>1, <2>4, <2>5, (n + 1) + drop = n + drop + 1
<1>4. ASSUME NEW n \in Odds(old), n > drop
      PROVE  n - drop \in Odds(new) /\ new[n - drop] = old[n]
  <2>1. n \in 1..Len(old) /\ n % 2 = 1 /\ n - drop \in 1..(Len(old) - drop)
    BY <1>4 DEF Odds
  <2>2. new[n - drop] = old[(n - drop) + drop] /\ (n - drop) + drop = n
    BY <2>1 DEF Shifted
  <2> QED BY <1>1, <2>1, <2>2 DEF Odds
<1> QED BY <1>2, <1>3, <1>4

\* What a finishing request does to the memory of its session: the pairs move down by
\* drop, its own comes last.
Gained(old, new, drop, r) ==
    /\ Len(new) \in Nat /\ Len(new) = Len(old) + 2 - drop
    /\ Len(old) < MaxTurns => drop = 0
    /\ Len(new) % 2 = 0 /\ Len(new) - 1 \in Odds(new)
    /\ new[Len(new) - 1] = UserTurn(r)
    /\ \A n \in Odds(new) :
          \/ n = Len(new) - 1
          \/ /\ n + drop \in Odds(old)
             /\ new[n] = old[n + drop]
             /\ new[n + 1] = old[n + drop + 1]
    /\ \A n \in Odds(old) : n > drop => n - drop \in Odds(new) /\ new[n - drop] = old[n]

LEMMA FinishShifts ==
    ASSUME AnswerInv, [Next]_vars, NEW r \in Requests, Finish(r),
           Remembers(memory[ask[r].session], ask[r].session, ask, reply)
    PROVE  LET old == memory[ask[r].session]
               new == memory'[ask[r].session]
           IN  /\ \E drop \in {0, 2} : Gained(old, new, drop, r)
               /\ new[Len(new)] = AssistantTurn(r, reply'[r].text)
               /\ Len(old) \in Nat /\ Len(old) <= MaxTurns /\ MaxTurns \in Nat
<1> DEFINE s   == ask[r].session
           old == memory[s]
           t   == UserTurn(r)
           u   == AssistantTurn(r, reply'[r].text)
           new == Pushed(Pushed(old, t), u)
<1>1. /\ s \in Sessions /\ t \in Turns /\ u \in Turns
      /\ old \in Seq(Turns) /\ Len(old) <= MaxTurns
      /\ ask' = ask
  <2>1. TypeOK
    BY DEF AnswerInv
  <2>2. reply'[r].text = Sanitised(raw[r])
    BY <2>1, FreshReply
  <2> QED BY <2>1, <2>2, RequestTypes, AnsweredStay DEF TypeOK, MemoryTypeOK
<1>2. Len(old) \in Nat /\ Len(old) % 2 = 0 /\ MaxTurns \in Nat
  BY <1>1, LenProperties, MemoryAssumption DEF Remembers
<1>3. memory'[s] = new
  BY FinishIsNew
<1>4. PICK drop \in {0, 2} : /\ Shifted(old, new, drop, t, u)
                             /\ Len(old) < MaxTurns => drop = 0
                             /\ Len(old) = MaxTurns => drop = 2
  BY <1>1, <1>2, PairShifts
<1> HIDE DEF new, old, u, s
<1>5. /\ Len(new) % 2 = 0 /\ Len(new) - 1 \in Odds(new)
      /\ \A n \in Odds(new) :
            \/ n = Len(new) - 1
            \/ /\ n + drop \in Odds(old)
               /\ new[n] = old[n + drop]
               /\ new[n + 1] = old[n + drop + 1]
      /\ \A n \in Odds(old) : n > drop => n - drop \in Odds(new) /\ new[n - drop] = old[n]
  BY <1>2, <1>4, ShiftedPairs
<1>6. /\ Len(new) \in Nat /\ Len(new) = Len(old) + 2 - drop
      /\ new[Len(new) - 1] = t /\ new[Len(new)] = u
  BY <1>2, <1>4 DEF Shifted
<1>7. Gained(old, new, drop, r)
  BY <1>4, <1>5, <1>6 DEF Gained
<1> QED BY <1>1, <1>2, <1>3, <1>6, <1>7 DEF old, s, u

\* A request of the session finishes.
LEMMA FinishRemembers ==
    ASSUME AnswerInv, [Next]_vars, NEW r \in Requests, Finish(r),
           Remembers(memory[ask[r].session], ask[r].session, ask, reply)
    PROVE  Remembers(memory'[ask[r].session], ask[r].session, ask, reply')
<1> DEFINE s   == ask[r].session
           old == memory[s]
           new == memory'[s]
           t   == UserTurn(r)
           u   == AssistantTurn(r, reply'[r].text)
<1>1. PICK drop \in {0, 2} : Gained(old, new, drop, r)
  BY FinishShifts
<1>2. /\ new[Len(new)] = u
      /\ Len(old) \in Nat /\ Len(old) <= MaxTurns /\ MaxTurns \in Nat
  BY FinishShifts
<1>3. r \notin Generated /\ Generated' = Generated \cup {r}
  BY FinishIsNew
<1>5. /\ t.by = r /\ t = UserTurn(r) /\ u = AssistantTurn(r, reply'[r].text)
      /\ ask[r].session = s
      /\ AnsweredIn(reply) = Generated /\ AnsweredIn(reply') = Generated'
  BY DEF UserTurn, AnsweredIn, Generated
<1> HIDE DEF new, old, t, u, s
<1>6. /\ Len(new) % 2 = 0 /\ Len(new) - 1 \in Odds(new)
      /\ \A n \in Odds(new) :
            \/ n = Len(new) - 1
            \/ /\ n + drop \in Odds(old)
               /\ new[n] = old[n + drop]
               /\ new[n + 1] = old[n + drop + 1]
      /\ \A n \in Odds(old) : n > drop => n - drop \in Odds(new) /\ new[n - drop] = old[n]
  BY <1>1 DEF Gained
<1>7. /\ Len(new) \in Nat /\ Len(new) = Len(old) + 2 - drop
      /\ new[Len(new) - 1] = t /\ new[Len(new)] = u
      /\ \A n \in Odds(new) : n \in Nat
  BY <1>1, <1>2, <1>5 DEF Gained, Odds
<1>8. Remembers(old, s, ask, reply)
  BY DEF old, s
<1>9. ASSUME NEW n \in Odds(new), n # Len(new) - 1
      PROVE  /\ PairAt(old, n + drop, new[n].by, s, ask, reply)
             /\ new[n].by = old[n + drop].by
             /\ new[n].by \in Generated
  BY <1>5, <1>6, <1>8, <1>9 DEF Remembers, PairAt
<1>10. ASSUME NEW n \in Odds(new) PROVE PairAt(new, n, new[n].by, s, ask, reply')
  <2>1. CASE n = Len(new) - 1
    <3>1. new[n] = t /\ new[n + 1] = u /\ new[n].by = r
      BY <1>5, <1>7, <2>1
    <3> QED BY <1>3, <1>5, <3>1 DEF PairAt, UserTurn
  <2>2. CASE n # Len(new) - 1
    <3>1. PairAt(old, n + drop, new[n].by, s, ask, reply')
      BY <1>9, <2>2, PairStays
    <3>2. new[n] = old[n + drop] /\ new[n + 1] = old[n + drop + 1]
      BY <1>6, <2>2
    <3> QED BY <3>1, <3>2 DEF PairAt
  <2> QED BY <2>1, <2>2
<1>11. \A m, n \in Odds(new) : new[m].by = new[n].by => m = n
  <2> SUFFICES ASSUME NEW m \in Odds(new), NEW n \in Odds(new), new[m].by = new[n].by
               PROVE  m = n
    OBVIOUS
  <2>1. CASE m # Len(new) - 1 /\ n # Len(new) - 1
    <3>1. m + drop = n + drop
      BY <1>6, <1>8, <1>9, <2>1 DEF Remembers
    <3> QED BY <1>7, <3>1
  <2>2. CASE m = Len(new) - 1 \/ n = Len(new) - 1
    BY <1>3, <1>5, <1>7, <1>9, <2>2
  <2> QED BY <2>1, <2>2
<1>12. ASSUME Len(new) < MaxTurns, NEW g \in Generated', ask[g].session = s
       PROVE  \E n \in Odds(new) : new[n].by = g
  <2>1. Len(old) < MaxTurns /\ drop = 0
    BY <1>1, <1>2, <1>7, <1>12 DEF Gained
  <2>2. CASE g = r
    BY <1>5, <1>6, <1>7, <2>2
  <2>3. CASE g # r
    <3>1. g \in Generated
      BY <1>3, <2>3
    <3>2. PICK n \in Odds(old) : old[n].by = g
      BY <1>5, <1>8, <1>12, <2>1, <3>1 DEF Remembers
    <3>3. n > 0 /\ n - 0 = n
      BY DEF Odds
    <3> QED BY <1>6, <2>1, <3>2, <3>3
  <2> QED BY <2>2, <2>3
<1>13. Remembers(new, s, ask, reply')
  BY <1>5, <1>6, <1>10, <1>11, <1>12 DEF Remembers
<1> QED BY <1>13 DEF new, s

LEMMA MemoryInvStep ==
    ASSUME AnswerInv, MemoryInv, [Next]_vars
    PROVE  MemoryInv'
<1>1. TypeOK /\ ask' = ask
  BY AnsweredStay DEF AnswerInv
<1>2. ASSUME NEW s \in Sessions PROVE Remembers(memory'[s], s, ask, reply')
  <2>1. Remembers(memory[s], s, ask, reply)
    BY DEF MemoryInv
  <2>2. CASE \E r \in Requests : Finish(r) /\ ask[r].session = s
    BY <2>1, <2>2, FinishRemembers
  <2>3. CASE ~ \E r \in Requests : Finish(r) /\ ask[r].session = s
    <3>1. memory'[s] = memory[s]
      BY <1>1, <2>3, MemorySteps
    <3>2. \A n \in Odds(memory[s]) : PairAt(memory[s], n, memory[s][n].by, s, ask, reply')
      BY <2>1, PairStays DEF Remembers
    <3>3. \A r \in AnsweredIn(reply') : ask[r].session = s => r \in AnsweredIn(reply)
      BY <1>1, <2>3, GeneratedSteps DEF AnsweredIn, Generated
    <3> QED BY <2>1, <3>1, <3>2, <3>3 DEF Remembers
  <2> QED BY <2>2, <2>3
<1> QED BY <1>1, <1>2 DEF MemoryInv

LEMMA MemoryInvariant == Spec => []MemoryInv
<1>1. Init => MemoryInv
  <2> SUFFICES ASSUME Init PROVE MemoryInv
    OBVIOUS
  <2>1. \A s \in Sessions : memory[s] = <<>>
    BY DEF Init, MemoryInit
  <2>2. AnsweredIn(reply) = {}
    <3>1. \A r \in Requests : reply[r] = Reply("none", NoAnswer(r), <<>>)
      BY DEF Init
    <3> QED BY <3>1, ReplyFields DEF AnsweredIn
  <2>3. Len(<<>>) = 0 /\ 0 % 2 = 0
    OBVIOUS
  <2>4. Odds(<<>>) = {}
    BY <2>3 DEF Odds
  <2>5. \A s \in Sessions : Remembers(<<>>, s, ask, reply)
    BY <2>2, <2>3, <2>4 DEF Remembers
  <2> QED BY <2>1, <2>5 DEF MemoryInv
<1>2. AnswerInv /\ MemoryInv /\ [Next]_vars => MemoryInv'
  BY MemoryInvStep
<1> QED BY <1>1, <1>2, AnswerInvariant, PTL DEF Spec

\* Whatever fails or overlaps, a session remembers whole turns only: the question and
\* the answer its client was given, of every generated answer, until the deque is full
\* (pipeline.py:172-174).
THEOREM RememberedTurnsHolds == Spec => []RememberedTurns
  BY MemoryInvariant, MemoryInvSuffices, PTL

-----------------------------------------------------------------------------
(* What a prompt is told of its session.  HistoryIsTheSessions speaks of what was
   answered before what was asked, so the memory must be in that order: PastInv and
   OrderInv, on top of MemoryInv. *)

\* What had been answered when r arrived still is, and r is not among it.
PastInv == \A r \in Requests : past[r] \subseteq Generated /\ r \notin past[r]

\* With the given past: what e's client could build upon stands before e.
InOrder(turns, s, pasts, asks, replies) ==
    \A e \in AnsweredIn(replies) : asks[e].session = s =>
        \A m \in Odds(turns) : turns[m].by \in pasts[e] =>
            \E n \in Odds(turns) : m < n /\ turns[n].by = e

OrderInv == \A s \in Sessions : InOrder(memory[s], s, past, ask, reply)

\* Only an arrival has its past written down.
LEMMA PastStays ==
    ASSUME AnswerInv, [Next]_vars, NEW r \in Requests
    PROVE  \/ past'[r] = past[r]
           \/ r \notin Generated /\ past'[r] = Generated
<1>1. TypeOK /\ ReplySound /\ past \in [Requests -> SUBSET Requests]
  BY DEF AnswerInv, TypeOK
<1>2. ASSUME Begin(r) PROVE r \notin Generated /\ past'[r] = Generated
  <2>1. pc[r] = "new" /\ past' = [past EXCEPT ![r] = Generated]
    BY <1>2 DEF Begin, RejectInput, ServeCached, EnterGraph, Arrives
  <2> QED BY <1>1, <2>1 DEF ReplySound, Generated
<1>3. ASSUME Proceed(r) PROVE past'[r] = past[r]
  BY <1>3 DEF Proceed, Rewrite, Retrieve, Answer, Finish, ProviderFails, noteVars
<1> QED BY <1>1, <1>2, <1>3, OtherRequestsStay

LEMMA PastInvStep ==
    ASSUME AnswerInv, PastInv, [Next]_vars
    PROVE  PastInv'
<1>1. Generated \subseteq Generated'
  BY GeneratedStay DEF AnswerInv
<1>2. ASSUME NEW r \in Requests
      PROVE  past'[r] \subseteq Generated' /\ r \notin past'[r]
  BY <1>1, PastStays DEF PastInv
<1> QED BY <1>2 DEF PastInv

\* The past of what has been answered is fixed.
LEMMA AnsweredPast ==
    ASSUME AnswerInv, [Next]_vars, NEW e \in Generated
    PROVE  past'[e] = past[e]
BY PastStays DEF Generated

\* The turns of a finishing request come after all others of its session.
LEMMA FinishOrders ==
    ASSUME AnswerInv, MemoryInv, PastInv, OrderInv, [Next]_vars,
           NEW r \in Requests, Finish(r)
    PROVE  InOrder(memory'[ask[r].session], ask[r].session, past', ask, reply')
<1> DEFINE s   == ask[r].session
           old == memory[s]
           new == memory'[s]
<1>0. s \in Sessions /\ past'[r] = past[r]
  <2>1. TypeOK
    BY DEF AnswerInv
  <2> QED BY <2>1, RequestTypes DEF Finish
<1>1. Remembers(old, s, ask, reply) /\ InOrder(old, s, past, ask, reply)
  BY <1>0 DEF MemoryInv, OrderInv
<1>2. PICK drop \in {0, 2} : Gained(old, new, drop, r)
  BY <1>1, FinishShifts
<1>3. r \notin Generated /\ Generated' = Generated \cup {r}
  BY FinishIsNew
<1>4. /\ AnsweredIn(reply) = Generated /\ AnsweredIn(reply') = Generated'
      /\ UserTurn(r).by = r
  BY DEF AnsweredIn, Generated, UserTurn
<1> HIDE DEF new, old, s
<1>5. /\ Len(new) \in Nat /\ Len(new) - 1 \in Odds(new) /\ new[Len(new) - 1].by = r
      /\ \A n \in Odds(new) : n \in Nat /\ n <= Len(new) /\ n % 2 = 1
      /\ \A n \in Odds(old) : n \in Nat
  BY <1>2, <1>4 DEF Gained, Odds
<1>6. Len(new) % 2 = 0
  BY <1>2 DEF Gained
<1>7. \A n \in Odds(new) : n # Len(new) - 1 => n < Len(new) - 1
  BY <1>5, <1>6
<1>8. ASSUME NEW e \in Generated', ask[e].session = s,
             NEW m \in Odds(new), new[m].by \in past'[e]
      PROVE  \E n \in Odds(new) : m < n /\ new[n].by = e
  <2>1. past'[e] = past[e]
    BY <1>0, <1>3, AnsweredPast
  <2>2. m # Len(new) - 1
    <3>1. r \notin past[e]
      BY <1>3, <1>8 DEF PastInv, Generated
    <3> QED BY <1>5, <1>8, <2>1, <3>1
  <2>3. m + drop \in Odds(old) /\ new[m] = old[m + drop]
    BY <1>2, <2>2 DEF Gained
  <2>4. CASE e = r
    BY <1>5, <1>7, <2>2, <2>4
  <2>5. CASE e # r
    <3>1. PICK n \in Odds(old) : m + drop < n /\ old[n].by = e
      BY <1>1, <1>3, <1>4, <1>8, <2>1, <2>3, <2>5 DEF InOrder
    <3>2. n > drop /\ m < n - drop
      BY <1>5, <3>1
    <3>3. n - drop \in Odds(new) /\ new[n - drop] = old[n]
      BY <1>2, <3>2 DEF Gained
    <3> QED BY <3>1, <3>2, <3>3
  <2> QED BY <2>4, <2>5
<1>9. InOrder(new, s, past', ask, reply')
  BY <1>4, <1>8 DEF InOrder
<1> QED BY <1>9 DEF new, s

LEMMA OrderInvStep ==
    ASSUME AnswerInv, MemoryInv, PastInv, OrderInv, [Next]_vars
    PROVE  OrderInv'
<1>1. TypeOK /\ ask' = ask
  BY AnsweredStay DEF AnswerInv
<1>2. ASSUME NEW s \in Sessions PROVE InOrder(memory'[s], s, past', ask, reply')
  <2>1. CASE \E r \in Requests : Finish(r) /\ ask[r].session = s
    BY <2>1, FinishOrders
  <2>2. CASE ~ \E r \in Requests : Finish(r) /\ ask[r].session = s
    <3>1. memory'[s] = memory[s]
      BY <1>1, <2>2, MemorySteps
    <3>2. ASSUME NEW e \in AnsweredIn(reply'), ask[e].session = s
          PROVE  e \in AnsweredIn(reply) /\ past'[e] = past[e]
      <4>1. e \in Generated'
        BY DEF AnsweredIn, Generated
      <4>2. e \in Generated
        BY <1>1, <2>2, <3>2, <4>1, GeneratedSteps DEF AnsweredIn
      <4> QED BY <4>2, AnsweredPast DEF AnsweredIn, Generated
    <3>3. InOrder(memory[s], s, past, ask, reply)
      BY DEF OrderInv
    <3> QED BY <3>1, <3>2, <3>3 DEF InOrder
  <2> QED BY <2>1, <2>2
<1> QED BY <1>1, <1>2 DEF OrderInv

\* HistoryIsTheSessions for one request, with the given prompt and pasts.
TellsOf(list, r, pasts) ==
    LET mine == {e \in pasts[r] : ask[e].session = ask[r].session}
        told == {list[n].by : n \in 1..Len(list)} IN
    /\ told \subseteq mine
    /\ Window > 0 => Len(list) <= Window
    /\ Len(list) < Window /\ Len(list) < MaxTurns => told = mine
    /\ \A e \in mine, t \in told : t \in pasts[e] => e \in told

\* Every turn of a session is of a pair.
LEMMA TurnOfPair ==
    ASSUME NEW turns, NEW s, Len(turns) \in Nat, Remembers(turns, s, ask, reply),
           NEW k \in 1..Len(turns)
    PROVE  \E m \in Odds(turns) :
              /\ m <= k /\ k <= m + 1
              /\ turns[k].by = turns[m].by
              /\ turns[m].by \in Generated /\ ask[turns[m].by].session = s
<1>1. CASE k % 2 = 1
  <2>1. k \in Odds(turns)
    BY <1>1 DEF Odds
  <2>2. turns[k].by \in Generated /\ ask[turns[k].by].session = s
    BY <2>1 DEF Remembers, PairAt, AnsweredIn, Generated
  <2> QED BY <2>1, <2>2 DEF Odds
<1>2. CASE k % 2 # 1
  <2> DEFINE m == k - 1
  <2>1. m \in Odds(turns) /\ m + 1 = k /\ m <= k
    BY <1>2 DEF Odds
  <2> HIDE DEF m
  <2>2. PairAt(turns, m, turns[m].by, s, ask, reply)
    BY <2>1 DEF Remembers
  <2>3. turns[k].by = turns[m].by
    BY <2>1, <2>2 DEF PairAt, AssistantTurn
  <2>4. turns[m].by \in Generated /\ ask[turns[m].by].session = s
    BY <2>2 DEF PairAt, AnsweredIn, Generated
  <2>5. k <= m + 1
    BY <2>1
  <2> QED BY <2>1, <2>3, <2>4, <2>5
<1> QED BY <1>1, <1>2

\* The prompt of a request that enters the graph.
LEMMA EntryTells ==
    ASSUME AnswerInv, MemoryInv, OrderInv, [Next]_vars, NEW r \in Requests, EnterGraph(r)
    PROVE  TellsOf(hist'[r], r, past')
<1> DEFINE s     == ask[r].session
           turns == memory[s]
           list  == hist'[r]
           mine  == {e \in past'[r] : ask[e].session = ask[r].session}
           told  == {list[n].by : n \in 1..Len(list)}
<1>1. /\ s \in Sessions /\ turns \in Seq(Turns) /\ Window \in Int
      /\ past'[r] = Generated /\ list = LastTurns(turns, Window)
  <2>1. TypeOK
    BY DEF AnswerInv
  <2> QED BY <2>1, RequestTypes, PipelineAssumption
          DEF EnterGraph, Arrives, TypeOK, MemoryTypeOK
<1>2. Remembers(turns, s, ask, reply) /\ InOrder(turns, s, past, ask, reply)
  BY <1>1 DEF MemoryInv, OrderInv
<1>3. PICK d \in Nat : /\ EndOf(list, turns, d)
                       /\ Window > 0 => Len(list) <= Window
                       /\ Window > 0 => (Len(list) < Window => d = 0)
  BY <1>1, LastTurnsIsAnEnd
<1>4. /\ Len(turns) \in Nat /\ Len(list) \in Nat
      /\ \A n \in 1..Len(list) : n + d \in 1..Len(turns) /\ list[n] = turns[n + d]
      /\ \A n \in 1..Len(turns) : n > d => n - d \in 1..Len(list) /\ list[n - d] = turns[n]
  <2>1. Len(turns) \in Nat
    BY <1>1, LenProperties
  <2>2. /\ Len(list) = IF d <= Len(turns) THEN Len(turns) - d ELSE 0
        /\ \A n \in 1..Len(list) : list[n] = turns[n + d]
    BY <1>3 DEF EndOf
  <2> HIDE DEF list, turns
  <2>3. Len(list) \in Nat
    BY <2>1, <2>2
  <2>4. ASSUME NEW n \in 1..Len(list) PROVE n + d \in 1..Len(turns)
    BY <2>1, <2>2
  <2>5. ASSUME NEW n \in 1..Len(turns), n > d
        PROVE  n - d \in 1..Len(list) /\ list[n - d] = turns[n]
    <3>1. n - d \in 1..Len(list) /\ (n - d) + d = n
      BY <2>1, <2>2, <2>5
    <3>2. list[n - d] = turns[(n - d) + d]
      BY <2>2, <3>1
    <3> QED BY <3>1, <3>2
  <2> QED BY <2>1, <2>2, <2>3, <2>4, <2>5
<1>5. mine = {e \in Generated : ask[e].session = s}
  BY <1>1
<1>6. AnsweredIn(reply) = Generated
  BY DEF AnsweredIn, Generated
<1> HIDE DEF list, turns, s
<1>7. ASSUME NEW n \in 1..Len(list)
      PROVE  \E m \in Odds(turns) : /\ n + d <= m + 1
                                    /\ list[n].by = turns[m].by
                                    /\ list[n].by \in mine
  <2>1. PICK m \in Odds(turns) :
           /\ n + d <= m + 1 /\ turns[n + d].by = turns[m].by
           /\ turns[m].by \in Generated /\ ask[turns[m].by].session = s
    BY <1>2, <1>4, TurnOfPair
  <2> QED BY <1>4, <1>5, <2>1
<1>8. told \subseteq mine
  BY <1>7
<1>9. ASSUME Len(list) < Window, Len(list) < MaxTurns, NEW e \in mine
      PROVE  e \in told
  <2>1. d = 0 /\ Len(turns) < MaxTurns
    <3>1. d = 0
      BY <1>1, <1>3, <1>4, <1>9
    <3> QED BY <1>3, <1>4, <1>9, <3>1 DEF EndOf
  <2>2. PICK n \in Odds(turns) : turns[n].by = e
    BY <1>2, <1>5, <1>6, <1>9, <2>1 DEF Remembers
  <2>3. n \in 1..Len(turns) /\ n > d /\ n \in Nat
    BY <2>1 DEF Odds
  <2>4. n - d \in 1..Len(list) /\ list[n - d].by = e
    BY <1>4, <2>2, <2>3
  <2> QED BY <2>4
<1>10. ASSUME NEW e \in mine, NEW t \in told, t \in past'[e]
       PROVE  e \in told
  <2>1. PICK n \in 1..Len(list) : t = list[n].by
    OBVIOUS
  <2>2. PICK m \in Odds(turns) : n + d <= m + 1 /\ list[n].by = turns[m].by
    BY <1>7
  <2>3. e \in Generated /\ ask[e].session = s /\ past'[e] = past[e]
    BY <1>5, AnsweredPast
  <2>4. PICK k \in Odds(turns) : m < k /\ turns[k].by = e
    BY <1>2, <1>6, <1>10, <2>1, <2>2, <2>3 DEF InOrder
  <2>5. k \in 1..Len(turns) /\ k > d
    BY <1>4, <2>2, <2>4 DEF Odds
  <2>6. k - d \in 1..Len(list) /\ list[k - d].by = e
    BY <1>4, <2>4, <2>5
  <2> QED BY <2>6
<1>11. TellsOf(list, r, past')
  <2>1. Len(list) < Window /\ Len(list) < MaxTurns => told = mine
    BY <1>8, <1>9
  <2>2. \A e \in mine, t \in told : t \in past'[e] => e \in told
    BY <1>10
  <2> HIDE DEF mine, told
  <2>3. /\ told \subseteq mine
        /\ Window > 0 => Len(list) <= Window
        /\ Len(list) < Window /\ Len(list) < MaxTurns => told = mine
        /\ \A e \in mine, t \in told : t \in past'[e] => e \in told
    BY <1>3, <1>8, <2>1, <2>2
  <2> QED BY <2>3 DEF TellsOf, mine, told
<1> QED BY <1>11 DEF list

\* Later steps leave the prompt alone, and the pasts it was measured with.
LEMMA HistoryStep ==
    ASSUME AnswerInv, MemoryInv, PastInv, OrderInv, HistoryIsTheSessions, [Next]_vars
    PROVE  HistoryIsTheSessions'
<1>1. /\ TypeOK /\ ReplySound /\ ask' = ask
      /\ pc \in [Requests -> PCs] /\ reply \in [Requests -> Replies]
      /\ hist \in [Requests -> Seq(Turns)]
  BY AnsweredStay DEF AnswerInv, TypeOK
<1>2. ASSUME NEW r \in Requests, pc'[r] # "new", reply'[r].kind \in {"none", "fresh"}
      PROVE  TellsOf(hist'[r], r, past')
  <2>1. CASE EnterGraph(r)
    BY <2>1, EntryTells
  <2>2. CASE ~ EnterGraph(r)
    <3>1. /\ pc[r] # "new" /\ reply[r].kind \in {"none", "fresh"}
          /\ hist'[r] = hist[r] /\ past'[r] = past[r]
      <4>1. CASE RejectInput(r) \/ ProviderFails(r)
        BY <1>1, <1>2, <4>1, UnservedReply
      <4>2. CASE ServeCached(r)
        BY <1>1, <1>2, <4>2, CachedReply
      <4>3. CASE Rewrite(r) \/ Retrieve(r) \/ Answer(r)
        BY <1>1, <1>2, <4>3 DEF Rewrite, Retrieve, Answer, noteVars
      <4>4. CASE Finish(r)
        BY <1>1, <4>4 DEF Finish, ReplySound
      <4>5. CASE ~ (Begin(r) \/ Proceed(r))
        BY <1>1, <1>2, <4>5, OtherRequestsStay
      <4> QED BY <2>2, <4>1, <4>2, <4>3, <4>4, <4>5 DEF Begin, Proceed
    <3>2. TellsOf(hist[r], r, past)
      BY <3>1 DEF HistoryIsTheSessions, TellsOf
    <3>3. \A e \in past[r] : past'[e] = past[e]
      BY AnsweredPast DEF PastInv
    <3> QED BY <3>1, <3>2, <3>3 DEF TellsOf
  <2> QED BY <2>1, <2>2
<1> QED BY <1>1, <1>2 DEF HistoryIsTheSessions, TellsOf

LEMMA OrderInit == Init => PastInv /\ OrderInv /\ HistoryIsTheSessions
<1> SUFFICES ASSUME Init PROVE PastInv /\ OrderInv /\ HistoryIsTheSessions
  OBVIOUS
<1>1. \A r \in Requests : past[r] = {} /\ pc[r] = "new"
  BY DEF Init
<1>2. \A r \in Requests : reply[r].kind = "none"
  BY ReplyFields DEF Init
<1> QED BY <1>1, <1>2 DEF PastInv, OrderInv, InOrder, AnsweredIn, HistoryIsTheSessions

\* A prompt has turns of earlier requests of its session only, all that the window has
\* room for, and never a turn without one asked after it had been answered
\* (pipeline.py:128, 244-249).
THEOREM HistoryIsTheSessionsHolds == Spec => []HistoryIsTheSessions
<1>1. Init => PastInv /\ OrderInv /\ HistoryIsTheSessions
  BY OrderInit
<1>2. /\ AnswerInv /\ MemoryInv
      /\ PastInv /\ OrderInv /\ HistoryIsTheSessions
      /\ [Next]_vars
      => (PastInv /\ OrderInv /\ HistoryIsTheSessions)'
  BY PastInvStep, OrderInvStep, HistoryStep
<1> QED BY <1>1, <1>2, AnswerInvariant, MemoryInvariant, PTL DEF Spec
=============================================================================
