---------------------------- MODULE MCBudgetGate ----------------------------
(* Instances of BudgetGate for TLC: a policy per key, or one for all of them *)
(* beside one for a single key, as a workspace budget beside that of an      *)
(* environment, which may be moved to the other environment.                 *)
(* Slots are interchangeable: no definition tells one from another.          *)
EXTENDS BudgetGate, TLC

CONSTANTS k1, k2, workspace, environment

OneKey     == {k1}
TwoKeys    == {k1, k2}
OneScope   == workspace :> {{k1}}
TwoScopes  == workspace :> {{k1, k2}} @@ environment :> {{k1}, {k2}}
OneEnvironment  == {{k1}}
TwoEnvironments == {{k1}, {k2}}
EnvironmentOnly == environment :> {{k1}}

SlotSymmetry == Permutations(Slots)

\* The budgets where a behaviour is about something else: there are none.
Unbudgeted ==
    /\ BudgetInit /\ priced
    /\ \A p \in Policies : /\ policy[p].status = "none"
                           /\ policy[p].covers = CHOOSE c \in Scopes[p] : TRUE

=============================================================================
