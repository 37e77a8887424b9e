----------------------------- MODULE PathBudget -----------------------------
(***************************************************************************)
(* How often a working path is left (failover.rs), counted beside the      *)
(* failover machine's own count, which a failed move starts again.         *)
(***************************************************************************)
EXTENDS PathWatch

VARIABLE moved      \* history: the ages of the moves carried out, kept as the machine keeps its own

budgetVars == <<watchVars, moved>>

\* A decision that moved the tunnel from one path to another, and was carried out.
MovedOver == started /\ NoPath \notin {fail.carrying, fail'.carrying} /\ fail'.carrying # fail.carrying

BudgetInit == WatchInit /\ moved = <<>>

BudgetNext ==
    /\ WatchNext
    /\ moved' = IF MovedOver THEN WithMove(moved) ELSE IF Tick THEN InWindow(moved) ELSE moved

BudgetSpec == BudgetInit /\ [][BudgetNext]_budgetVars

\* "No more than `max_moves' moves may have happened in the last `window'. This
\* is SC-007 enforced directly, so it holds however the quality fluctuates"
\* (failover.rs): a path that still works is left only while fewer than
\* max_moves moves were carried out in the window.
MovesAreRationed == [][MovedOver /\ Usable(fail.carrying) => Len(moved) < MaxMoves]_budgetVars
=============================================================================
