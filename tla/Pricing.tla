------------------------------ MODULE Pricing ------------------------------
(* The prices and the rounding of app/eval/cost.py.  Amounts are whole nanodollars;
   a reported amount has six decimals, so it is whole microdollars. *)
EXTENDS Integers, Sequences

Price(input, output) == [input |-> input, output |-> output]

\* MODEL_PRICING, per token.  No name of a base model is part of another's.
ModelPricing ==
    [micro |-> Price(35, 140), lite |-> Price(60, 240), pro |-> Price(800, 3200),
     titan |-> Price(20, 0)]

\* A model id is that of a base model, with the prefix of an inference profile or not.
ModelIds(bases) == [base : bases, prefixed : BOOLEAN]

\* Faulty: the substring match is missing.
PricingForExact(model, default) ==
    IF model.base \in DOMAIN ModelPricing /\ ~model.prefixed
      THEN ModelPricing[model.base]
      ELSE default

\* The exact match, then the substring match, then the default.
PricingFor(model, default) ==
    IF model.base \in DOMAIN ModelPricing THEN ModelPricing[model.base] ELSE default

\* round(dollars, 6): a tie may go either way, as the float lies.
Micros(nanos) == {n \in (nanos \div 1000)..(nanos \div 1000 + 1) : 2 * (1000 * n - nanos) \in -1000..1000}

\* The sum of a sequence of amounts.
SumOf(amounts) ==
    LET upTo[n \in 0..Len(amounts)] == IF n = 0 THEN 0 ELSE upTo[n - 1] + amounts[n]
    IN  upTo[Len(amounts)]

\* What one side of a tracker's history costs.
Charge(history, default, side) ==
    SumOf([i \in DOMAIN history |->
              history[i][side] * PricingFor(history[i].model, default)[side]])

\* The totals that estimate() may return: each side is rounded, then they are added.
Estimates(history, default) ==
    {n + m : n \in Micros(Charge(history, default, "input")),
             m \in Micros(Charge(history, default, "output"))}
=============================================================================
