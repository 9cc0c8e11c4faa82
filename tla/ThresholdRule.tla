--------------------------- MODULE ThresholdRule ---------------------------
(***************************************************************************)
(* The rule that decides how much a channel or peer swaps                  *)
(* (liquidity/threshold_rule.go).  Amounts are whole satoshis; none of the *)
(* products comes near 2^64.  LiquidityProofs shows what the rule achieves *)
(* for all balances, percentages and restrictions.                         *)
(***************************************************************************)
EXTENDS Integers

TargetGoal(capacity, percentage) == (capacity * percentage) \div 100

\* target is the side that should reach the goal, reserve the side that liquidity is
\* taken from.
calculateSwapAmount(target, reserve, capacity, goal, reserveMinimum) ==
    LET required == (goal + (capacity - reserveMinimum)) \div 2 - target
    IN  IF \/ target >= goal
           \/ reserve <= reserveMinimum
           \/ reserve - reserveMinimum < required
        THEN 0 ELSE required

\* minIn and minOut are the rule's percentages, minimum and maximum the restrictions.
swapAmount(type, incoming, outgoing, capacity, minIn, minOut, minimum, maximum) ==
    LET amount ==
            IF type = "out"
            THEN calculateSwapAmount(incoming, outgoing, capacity,
                    TargetGoal(capacity, minIn), TargetGoal(capacity, minOut))
            ELSE calculateSwapAmount(outgoing, incoming, capacity,
                    TargetGoal(capacity, minOut), TargetGoal(capacity, minIn))
    IN  IF amount < minimum THEN 0
        ELSE IF amount > maximum THEN maximum ELSE amount
=============================================================================
