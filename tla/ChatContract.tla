---------------------------- MODULE ChatContract ----------------------------
(***************************************************************************)
(* What the chat service promises its clients, with the coroutines, the    *)
(* guards, the router, the clock and the provider out of sight: every      *)
(* request and every ingestion happens at one moment.                      *)
(*                                                                         *)
(* A request is answered once, by an answer of its own or by one given     *)
(* before to a question on the same topic.  An answer of its own and the   *)
(* whole turn its session will remember come into being together; any      *)
(* other outcome leaves no trace.  After an ingestion nothing given before *)
(* is given again.  AgentPipeline implements this; WebClient relies on it. *)
(***************************************************************************)
EXTENDS Integers, Sequences

CONSTANTS
    Requests,
    Jobs,        \* ingestions
    Sessions,
    Questions,   \* records with a query and a session
    Topic,       \* query -> topic: queries of one topic may share an answer
    Texts,       \* what an answer may say
    Keep         \* the turns a session remembers at most

VARIABLES
    ask,         \* request -> question
    outcome,     \* request -> what came of it
    log,         \* session -> its turns, oldest first
    pool,        \* the requests whose answers may be given again
    known        \* the ingestions that have been acknowledged

contractVars == <<ask, outcome, log, pool, known>>

Outcome(kind, by, text) == [kind |-> kind, by |-> by, text |-> text]

Open(r) == outcome[r].kind = "none"

\* The newest Keep turns.
Newest(turns) ==
    IF Len(turns) <= Keep THEN turns ELSE SubSeq(turns, Len(turns) - Keep + 1, Len(turns))

WholeTurn(r, text) ==
    << [role |-> "user", by |-> r, text |-> ask[r].query],
       [role |-> "assistant", by |-> r, text |-> text] >>

Init ==
    /\ ask \in [Requests -> Questions]
    /\ outcome = [r \in Requests |-> Outcome("none", r, "none")]
    /\ log = [s \in Sessions |-> <<>>]
    /\ pool = {}
    /\ known = {}

\* An answer of the request's own, remembered as a whole turn of its session.
Generate(r, text) ==
    /\ Open(r)
    /\ outcome' = [outcome EXCEPT ![r] = Outcome("fresh", r, text)]
    /\ log' = [log EXCEPT ![ask[r].session] = Newest(@ \o WholeTurn(r, text))]
    /\ pool' \in SUBSET (pool \cup {r})
    /\ UNCHANGED <<ask, known>>

\* An answer given before, as it was given.
Reuse(r, e) ==
    /\ Open(r)
    /\ e \in pool
    /\ Topic[ask[e].query] = Topic[ask[r].query]
    /\ outcome' = [outcome EXCEPT ![r] = Outcome("hit", e, outcome[e].text)]
    /\ UNCHANGED <<ask, log, pool, known>>

\* No answer, and no trace of the question.
Refuse(r) ==
    /\ Open(r)
    /\ \E kind \in {"blocked", "error"} :
          outcome' = [outcome EXCEPT ![r] = Outcome(kind, r, "none")]
    /\ UNCHANGED <<ask, log, pool, known>>

\* Answers may become too old at any time.
Forget ==
    /\ pool' \in SUBSET pool
    /\ UNCHANGED <<ask, outcome, log, known>>

\* Faulty: what was given before the ingestion stays in the pool.
LearnKeeping(i) ==
    /\ i \notin known
    /\ known' = known \cup {i}
    /\ UNCHANGED <<ask, outcome, log, pool>>

Learn(i) ==
    /\ i \notin known
    /\ known' = known \cup {i}
    /\ pool' = {}
    /\ UNCHANGED <<ask, outcome, log>>

Next ==
    \/ \E r \in Requests :
          \/ \E text \in Texts : Generate(r, text)
          \/ \E e \in Requests : Reuse(r, e)
          \/ Refuse(r)
    \/ Forget
    \/ \E i \in Jobs : Learn(i)

Spec == Init /\ [][Next]_contractVars
=============================================================================
