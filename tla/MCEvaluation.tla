---------------------------- MODULE MCEvaluation ----------------------------
EXTENDS Evaluation

CONSTANTS pod, node

MCWords == {pod, node}
MCCategories == {"basics", "odd"}
MCBases == DOMAIN ModelPricing \cup {"other"}

Item(query, expected, category) ==
    [query |-> query, expected |-> expected, category |-> category]

\* The empty data set, and those of up to four items of which a query has one word,
\* two, or stop words only.
MCDatasets ==
    LET one == Item({pod, node}, {pod}, "basics")
        two == Item({node}, {pod, node}, "basics")
        bare == Item({}, {node}, "odd")
    IN  {<<>>, <<one>>, <<two, bare>>, <<one, two, bare>>, <<bare, one, two, two>>}

Out(claims, context, base, prefixed, input, output) ==
    [claims |-> claims, context |-> context, model |-> [base |-> base, prefixed |-> prefixed],
     input |-> input, output |-> output]

\* Answers of one claim or two, some without content words; amounts that round to
\* nothing, that are a tie, and that are not small; a model that is not in the table.
MCOutputs ==
    { Out(<<{pod}>>, {pod}, "micro", TRUE, 14, 3),
      Out(<<{node}>>, {}, "micro", FALSE, 100, 25),
      Out(<<{pod, node}, {}>>, {node}, "pro", TRUE, 1250, 400),
      Out(<<{pod}, {node}>>, {pod, node}, "lite", FALSE, 25, 0),
      Out(<<{}>>, {pod}, "pro", FALSE, 0, 0),
      Out(<<{node}, {pod}>>, {node}, "titan", FALSE, 25, 9),
      Out(<<{}, {}>>, {pod}, "other", TRUE, 33, 21) }

MCDefault == Price(150, 600)

\* Two grounded answers of three fail, and round to the threshold.
TwoThirdsUp == Ratio(667, 1000)
Half == Ratio(1, 2)
=============================================================================
