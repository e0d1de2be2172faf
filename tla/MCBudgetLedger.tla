--------------------------- MODULE MCBudgetLedger ---------------------------
(* BudgetLedger with two tasks, one of them with a sub-limit. *)
EXTENDS BudgetLedger, TLC

CONSTANTS t1, t2

Limits == t1 :> 3 @@ t2 :> NoLimit

Symmetry == Permutations(Callers)
=============================================================================
