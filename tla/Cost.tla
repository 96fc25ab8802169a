-------------------------------- MODULE Cost --------------------------------
(***************************************************************************)
(* The arithmetic of money: what tokens cost in micro-USD (models/         *)
(* pricing.go) and how far an output cap must shrink to be affordable      *)
(* (clampEstimateToBudget in proxy/guard.go).  Numbers are the code's      *)
(* int64: MaxInt is the largest, and a product nobody checks wraps around. *)
(*                                                                         *)
(* An operator named Bug... is a wrong version of the one that follows it, *)
(* used to see a property fail; no specification refers to it.             *)
(***************************************************************************)
EXTENDS Integers

CONSTANT MaxInt     \* math.MaxInt64

ASSUME MaxIntAssumption == MaxInt \in Nat

\* A rate prices PerUnit tokens; what the numbers are made of.
PerUnit == 1000
Amount == 0 .. MaxInt
Rates == [in : Amount, out : Amount]

Wrap(x) == ((x + MaxInt + 1) % (2 * MaxInt + 2)) - (MaxInt + 1)

\* Go's division by a positive number truncates towards zero.
Quotient(x, d) == IF x < 0 THEN -((-x) \div d) ELSE x \div d

CeilDiv(n, d) == IF n = 0 THEN 0 ELSE 1 + (n - 1) \div d

\* tokens * price is an int64.
Fits(tokens, price) == tokens # 0 /\ price # 0 => tokens <= MaxInt \div price

BugCostMicroUSD(tokens, price) == (tokens * price) \div PerUnit

CostMicroUSD(tokens, price) ==
    IF tokens = 0 \/ price = 0 THEN 0 ELSE CeilDiv(tokens * price, PerUnit)

\* EstimateProvider has an answer: neither product nor the sum overflows.
Estimable(rate, in, out) ==
    /\ Fits(in, rate.in)
    /\ Fits(out, rate.out)
    /\ CostMicroUSD(in, rate.in) <= MaxInt - CostMicroUSD(out, rate.out)

Estimate(rate, in, out) == CostMicroUSD(in, rate.in) + CostMicroUSD(out, rate.out)

BugAffordable(rate, in, available) ==
    LET room == available - CostMicroUSD(in, rate.in)
    IN  CeilDiv(room * PerUnit, rate.out)

\* The output tokens the room left by the input pays for.
Affordable(rate, in, available) ==
    LET room == available - CostMicroUSD(in, rate.in)
    IN  Quotient(Wrap(room * PerUnit), rate.out)

\* clampEstimateToBudget: the cap it lowers max to ...
ClampedTokens(rate, in, max, available) ==
    LET lower == IF rate.out > 0 /\ Affordable(rate, in, available) < max
                 THEN Affordable(rate, in, available) ELSE max
    IN  IF lower < 0 THEN 0 ELSE lower

\* ... if the input is affordable, and there is room for any output.
Clampable(rate, in, max, available) ==
    /\ CostMicroUSD(in, rate.in) <= available
    /\ ClampedTokens(rate, in, max, available) > 0 \/ max = 0
=============================================================================
