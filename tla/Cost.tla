--------------------------------- MODULE Cost ----------------------------------
(***************************************************************************)
(* What a call, a run and a report cost (agent/cost.py and the totals of   *)
(* evals/report.py).  An amount is a natural number of the smallest unit   *)
(* cost.py keeps, or Unpriced, which is None in the code.                  *)
(***************************************************************************)
EXTENDS Integers, Sequences

Unpriced == -1
Free     == 0
Amounts  == Nat \cup {Unpriced}

Priced(usd) == usd # Unpriced

(* cost_for: no tokens cost nothing at any rate; else the first source that  *)
(* knows the model prices the call, litellm before the pinned table.  A rate *)
(* is Unpriced where the source does not know the model.                     *)
CostFor(tokens, rates) ==
    IF tokens = 0 THEN Free
    ELSE IF Priced(rates[1]) THEN tokens * rates[1]
    ELSE IF Priced(rates[2]) THEN tokens * rates[2]
    ELSE Unpriced

Sum(amounts) ==
    LET sum[n \in 0..Len(amounts)] == IF n = 0 THEN 0 ELSE sum[n - 1] + amounts[n]
    IN  sum[Len(amounts)]

(* total_cost, and EvalReport.total_usd over the runs: one unknown makes the *)
(* total unknown.                                                            *)
TotalCost(costs) ==
    IF \A i \in DOMAIN costs : Priced(costs[i]) THEN Sum(costs) ELSE Unpriced

=============================================================================
