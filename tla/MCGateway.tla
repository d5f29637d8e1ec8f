------------------------------ MODULE MCGateway ------------------------------
(* A request's way through the gateway, and what it does to the budgets, are  *)
(* modelled apart and share no state: a behaviour here is one of a request or *)
(* one of the budgets, while the other part stays as it was at the start.     *)
EXTENDS GatewayRequests, MCBudgetGate

gatewayVars == <<requestVars, budgetVars>>

RequestStep(A) == Unbudgeted /\ A /\ UNCHANGED budgetVars
BudgetStep(A)  == RequestsInit /\ A /\ UNCHANGED requestVars

GatewayInit == RequestsInit /\ BudgetInit
GatewayNext == RequestStep(RequestsNext) \/ BudgetStep(BudgetNext)

\* A handler goes on, the timer of a call ends, and a client that stays reads
\* what it is sent; a slot goes on, and requests keep coming in.  Nothing is
\* assumed of the provider.
GatewayFairness ==
    /\ \A r \in Requests :
          /\ WF_gatewayVars(RequestStep(handleRequest(r)))
          /\ WF_gatewayVars(RequestStep(timesOut(r)))
          /\ WF_gatewayVars(RequestStep(deliver(r)))
    /\ \A s \in Slots :
          /\ WF_gatewayVars(BudgetStep(Synchronise(s) \/ handleGatewayRequest(s)
                                          \/ getBudgetPolicySummaryById(s)))
          /\ WF_gatewayVars(BudgetStep(\E k \in Keys : evaluateApplicableBudgetPolicies(s, k)))

GatewaySpec == GatewayInit /\ [][GatewayNext]_gatewayVars /\ GatewayFairness

==============================================================================
