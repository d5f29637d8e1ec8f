-------------------------- MODULE MCBudgetsAndExports --------------------------
(* The budgets and the export worker share no state here: a behaviour is one  *)
(* of the budgets or of the worker, while the other part stays as it was at   *)
(* the start.                                                                 *)
EXTENDS MCBudgetGate, ExportWorkerRefinement

BudgetsAndExportsInit == BudgetInit /\ Init

BudgetsAndExportsNext ==
    \/ Init /\ BudgetNext /\ UNCHANGED vars
    \/ Unbudgeted /\ Next /\ UNCHANGED budgetVars

BudgetsAndExportsSpec ==
    BudgetsAndExportsInit /\ [][BudgetsAndExportsNext]_<<budgetVars, vars>>
===============================================================================
