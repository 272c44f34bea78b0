--------------------------- MODULE MCBudgetGuard ---------------------------
(* Small instances of BudgetGuard. Limits and amounts are chosen so that    *)
(* one reservation, a lease and a metered segment fit one by one and not    *)
(* all together, and so that lowering the limits exceeds them; days are one *)
(* tick and a month two days, so that the clock crosses both boundaries.    *)
EXTENDS BudgetGuard, TLC

MCLimits == {<<3, 4>>, <<2, 3>>}
MCAmounts == {1, 3}
=============================================================================
