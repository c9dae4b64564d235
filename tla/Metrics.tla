------------------------------ MODULE Metrics ------------------------------
(* The scores of app/eval/metrics.py.  A text is the set of its content words, what
   _tokens returns; a score is an exact fraction. *)
EXTENDS Integers, Sequences, FiniteSets

Ratio(n, d) == [num |-> n, den |-> d]

AtLeast(x, y) == x.num * y.den >= y.num * x.den

Plus(x, y) == Ratio(x.num * y.den + y.num * x.den, x.den * y.den)

Total(ratios) ==
    LET upTo[n \in 0..Len(ratios)] == IF n = 0 THEN Ratio(0, 1) ELSE Plus(upTo[n - 1], ratios[n])
    IN  upTo[Len(ratios)]

\* sum(scores) / len(scores), of a sequence that is not empty.
Average(ratios) == Ratio(Total(ratios).num, Total(ratios).den * Len(ratios))

\* round(score, 3), in thousandths: a tie may go either way, as the float lies.
Thousandths(x) == {n \in 0..1000 : 2 * (n * x.den - 1000 * x.num) \in (0 - x.den)..x.den}

Grounded(claims, context) == {i \in DOMAIN claims : claims[i] \cap context # {}}

\* Faulty: a claim without content words does not count.
FaithfulnessOfWordy(claims, context) ==
    IF claims = <<>> \/ context = {}
      THEN Ratio(0, 1)
      ELSE Ratio(Cardinality(Grounded(claims, context)),
                 Cardinality({i \in DOMAIN claims : claims[i] # {}}))

\* The share of claims that have a word of the context.
Faithfulness(claims, context) ==
    IF claims = <<>> \/ context = {}
      THEN Ratio(0, 1)
      ELSE Ratio(Cardinality(Grounded(claims, context)), Len(claims))

\* Faulty: the share of the answer's words.
RelevanceOfAnswer(answer, query) ==
    IF query = {} THEN Ratio(1, 1)
    ELSE IF answer = {} THEN Ratio(0, 1)
    ELSE Ratio(Cardinality(query \cap answer), Cardinality(answer))

\* The share of the query's words that the answer has.
AnswerRelevance(answer, query) ==
    IF query = {} THEN Ratio(1, 1)
    ELSE Ratio(Cardinality(query \cap answer), Cardinality(query))
=============================================================================
