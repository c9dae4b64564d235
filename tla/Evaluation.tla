----------------------------- MODULE Evaluation -----------------------------
(***************************************************************************)
(* A release is evaluated (eval/harness.py): EvalRunner.run puts the       *)
(* questions of a data set to the agent, one after the other, and scores   *)
(* the answers; ReleaseGate.evaluate reports and decides.  The agent       *)
(* (app/pipeline.py) scores and bills each answer by itself as well.       *)
(*                                                                         *)
(* The agent's answers are a choice.  Floats are exact fractions here; see *)
(* the README for why the verdict is the same.                             *)
(***************************************************************************)
EXTENDS Metrics, Pricing

CONSTANTS
    Words,
    Categories,
    Bases,          \* the base models that an agent may name
    Datasets,       \* sequences of items [query, expected : set of words, category]
    Outputs,        \* what the agent may do: [claims, context, model, input, output]
    Default,        \* the price of an unknown model
    MinFaithfulness,
    MinRelevance

Items == [query : SUBSET Words, expected : SUBSET Words, category : Categories]

ASSUME EvaluationAssumption ==
    /\ IsFiniteSet(Words)
    /\ Datasets \subseteq Seq(Items)
    /\ Outputs \subseteq [claims : Seq(SUBSET Words) \ {<<>>}, context : SUBSET Words,
                         model : ModelIds(Bases), input : Nat, output : Nat]
    /\ Default \in [input : Nat, output : Nat]
    /\ {MinFaithfulness, MinRelevance} \subseteq [num : Int, den : Nat \ {0}]

VARIABLES
    dataset,
    pc,
    results,   \* what EvalRunner.run has collected
    agent,     \* what the agent returned besides: its scores and its bill
    report     \* what ReleaseGate.evaluate returned

vars == <<dataset, pc, results, agent, report>>

NoReport == [passed |-> "none"]

Init ==
    /\ dataset \in Datasets
    /\ pc = "run"
    /\ results = <<>>
    /\ agent = <<>>
    /\ report = NoReport

-----------------------------------------------------------------------------
\* The words of an answer: claims are what split(". ") makes of it.
WordsOf(claims) == UNION {claims[i] : i \in DOMAIN claims}

\* The expected answer is the one claim, and the given answer its context.
Scored(item, answer) ==
    [answer |-> answer,
     faithfulness |-> Faithfulness(<<item.expected>>, answer),
     relevance |-> AnswerRelevance(answer, item.query),
     category |-> item.category]

\* The next question is answered: by the agent, with its own scores and a tracker of its
\* own, then scored by the runner.
Answer(o) ==
    LET item == dataset[Len(results) + 1] IN
    /\ pc = "run" /\ Len(results) < Len(dataset)
    /\ results' = Append(results, Scored(item, WordsOf(o.claims)))
    /\ \E bill \in Estimates(<<o>>, Default) :
          agent' = Append(agent, [output |-> o,
                                  faithfulness |-> Faithfulness(o.claims, o.context),
                                  cost |-> bill])
    /\ UNCHANGED <<dataset, pc, report>>

\* Faulty: the question is left out.
AnswererRaisesSkipping ==
    /\ pc = "run" /\ Len(results) < Len(dataset)
    /\ dataset' = dataset
    /\ pc' = "gate"
    /\ UNCHANGED <<results, agent, report>>

\* The agent raises, and run with it: there is nothing to decide on.
AnswererRaises ==
    /\ pc = "run" /\ Len(results) < Len(dataset)
    /\ pc' = "raised"
    /\ UNCHANGED <<dataset, results, agent, report>>

RunEnds ==
    /\ pc = "run" /\ Len(results) = Len(dataset)
    /\ pc' = "gate"
    /\ UNCHANGED <<dataset, results, agent, report>>

-----------------------------------------------------------------------------
Scores(rs, metric) == [i \in DOMAIN rs |-> rs[i][metric]]

\* Faulty: one of the two thresholds is enough.
PassedEither(rs) ==
    \/ AtLeast(Average(Scores(rs, "faithfulness")), MinFaithfulness)
    \/ AtLeast(Average(Scores(rs, "relevance")), MinRelevance)

Passed(rs) ==
    /\ AtLeast(Average(Scores(rs, "faithfulness")), MinFaithfulness)
    /\ AtLeast(Average(Scores(rs, "relevance")), MinRelevance)

OfCategory(rs, category) == {i \in DOMAIN rs : rs[i].category = category}

CategoriesOf(rs) == {rs[i].category : i \in DOMAIN rs}

\* What counts for a category's average: the scores of its own results.
FaithfulnessIn(rs, category) ==
    Total([i \in DOMAIN rs |->
              IF i \in OfCategory(rs, category) THEN rs[i].faithfulness ELSE Ratio(0, 1)])

\* Faulty: divided by the number of all results.
CategoryAverageOfAll(rs, category) ==
    LET sum == FaithfulnessIn(rs, category)
    IN  Ratio(sum.num, sum.den * Len(rs))

CategoryAverage(rs, category) ==
    LET sum == FaithfulnessIn(rs, category)
    IN  Ratio(sum.num, sum.den * Cardinality(OfCategory(rs, category)))

\* The ways to round the average faithfulness of every category.
CategoryRoundings(rs) ==
    LET roundings == [c \in CategoriesOf(rs) |-> Thousandths(CategoryAverage(rs, c))]
    IN  {g \in [CategoriesOf(rs) -> UNION {roundings[c] : c \in CategoriesOf(rs)}] :
            \A c \in CategoriesOf(rs) : g[c] \in roundings[c]}

\* The averages are reported rounded and compared as they are.
Evaluate ==
    /\ pc = "gate" /\ results # <<>>
    /\ \E f \in Thousandths(Average(Scores(results, "faithfulness"))),
          r \in Thousandths(Average(Scores(results, "relevance"))),
          perCategory \in CategoryRoundings(results) :
             report' = [passed |-> Passed(results), faithfulness |-> f, relevance |-> r,
                        questions |-> Len(results),
                        faithfulnessIn |-> perCategory,
                        count |-> [c \in CategoriesOf(results) |->
                                      Cardinality(OfCategory(results, c))]]
    /\ pc' = "done"
    /\ UNCHANGED <<dataset, results, agent>>

\* Without results the averages divide by zero.
EvaluateNothing ==
    /\ pc = "gate" /\ results = <<>>
    /\ pc' = "raised"
    /\ UNCHANGED <<dataset, results, agent, report>>

Next ==
    \/ \E o \in Outputs : Answer(o)
    \/ AnswererRaises \/ RunEnds \/ Evaluate \/ EvaluateNothing

Spec == Init /\ [][Next]_vars

-----------------------------------------------------------------------------
Unit(x) == x.den > 0 /\ x.num \in 0..x.den

\* Types; "assert 0.0 <= score <= 1.0", of every score.
EvaluationTypeOK ==
    /\ pc \in {"run", "gate", "done", "raised"}
    /\ \A i \in DOMAIN results :
          /\ Unit(results[i].faithfulness) /\ Unit(results[i].relevance)
          /\ results[i].answer \subseteq Words
    /\ \A i \in DOMAIN agent : Unit(agent[i].faithfulness) /\ agent[i].cost \in Nat

\* The gate decides on the whole data set or not at all: no verdict when a question was
\* not answered, none on an empty set, and each answer is counted in its category.
VerdictOnTheWhole ==
    report # NoReport =>
        /\ report.questions = Len(dataset) /\ dataset # <<>>
        /\ \A c \in DOMAIN report.count :
              report.count[c] = Cardinality({i \in DOMAIN dataset : dataset[i].category = c})

\* A release that passes still passes when one of its answers says more: neither metric
\* takes anything away for further words.
LongerAnswersStillPass ==
    pc = "done" /\ report.passed =>
        \A i \in DOMAIN results : \A more \in SUBSET Words :
            Passed([results EXCEPT ![i] = Scored(dataset[i], @.answer \cup more)])

\* The reader of a report is not misled by its rounding: what passed shows averages that
\* reach the thresholds, what failed shows one that does not exceed its threshold.  Only
\* of thresholds with at most three decimals, as ReleaseGate's own are: an average of
\* 0.66741 passes a threshold of 0.6674 and is reported as 0.667.
ReportShowsTheVerdict ==
    report # NoReport =>
        LET f == Ratio(report.faithfulness, 1000)
            r == Ratio(report.relevance, 1000)
        IN  IF report.passed
              THEN AtLeast(f, MinFaithfulness) /\ AtLeast(r, MinRelevance)
              ELSE AtLeast(MinFaithfulness, f) \/ AtLeast(MinRelevance, r)

\* The categories of a report make up its average: each counted with its questions, they
\* give the reported average again, but for the rounding of the one and of the other
\* (harness.py:76-78 against 66): no score is left out, counted twice or weighed by
\* another category's number.
CategoriesMakeUpTheAverage ==
    report # NoReport =>
        LET n == Len(results)
            weighed == SumOf([i \in DOMAIN results |-> report.faithfulnessIn[results[i].category]])
        IN  weighed - n * report.faithfulness \in (0 - n)..n

\* What the tokens of an answer cost, in nanodollars, at the list price of its model.
ListPrice(o) ==
    LET price == IF o.model.base \in DOMAIN ModelPricing THEN ModelPricing[o.model.base] ELSE Default
    IN  o.input * price.input + o.output * price.output

\* The tokens that n answers are billed for, those of the answering calls, are reported
\* to cost what they cost, give or take n microdollars, region prefix or not: no bill is
\* off by more than the two roundings (eval/cost.py:94-101).  A request's rewriting call
\* is not among them: AgentPipeline's EveryCallIsBilled is about that.
BillsAddUp ==
    LET billed == 1000 * SumOf([i \in DOMAIN agent |-> agent[i].cost])
        exact == SumOf([i \in DOMAIN agent |-> ListPrice(agent[i].output)])
        slack == 1000 * Len(agent)
    IN  billed - exact \in (0 - slack)..slack
=============================================================================
