----------------------------- MODULE BudgetGate -----------------------------
(***************************************************************************)
(* Budget enforcement in the gateway.  A request reads what the budget      *)
(* policies that cover its virtual key have spent this month, is refused    *)
(* or goes upstream, and only afterwards has its cost added to the usage    *)
(* events the next request will read.  Alerts are opened and resolved from  *)
(* the summaries the request read at its start, brought up to date with     *)
(* its own cost alone.                                                      *)
(*                                                                         *)
(* A slot is one request at a time, or one PATCH or DELETE of a policy by   *)
(* the control API.  Every statement against the database is a step.        *)
(* Amounts are in a whole number of currency units, and time is the month.  *)
(***************************************************************************)
EXTENDS Naturals, FiniteSets

CONSTANTS
    Slots,         \* requests (or policy updates) in progress at once
    Keys,          \* virtual keys
    Policies,      \* budget policies
    Scopes,        \* [Policies -> SUBSET SUBSET Keys]: the sets of keys a
                   \* policy's scope may be given to cover
    Environmental, \* policies for an environment
    Environments,  \* the keys of each environment
    Limits,        \* monthly limits a policy may be given
    Percents,      \* soft limits a policy may be given, in percent
    MaxEstimate,   \* bound: estimated cost of a request
    Slack,         \* bound: what a request may cost beyond its estimate
    MaxMonths,     \* bound: months
    MaxFree,       \* bound: spend of a key from which its requests cost
                   \* nothing unless some policy covers them
    MaxChanges,    \* bound: edits of the policies and of the prices
    MaxMoves,      \* bound: edits of an environment's runtime
    MaxStraddles,  \* bound: months that end while a slot is busy
    MaxOverrides,  \* bound: alerts resolved or reopened by hand
    MaxDbErrors    \* bound: database errors and crashes

ASSUME BudgetConstantsOK ==
    /\ IsFiniteSet(Slots) /\ Slots # {} /\ IsFiniteSet(Keys)
    /\ Scopes \in [Policies -> SUBSET SUBSET Keys]
    /\ Environmental \subseteq Policies /\ Environments \subseteq SUBSET Keys
    /\ Limits \subseteq Nat \ {0} /\ Percents \subseteq 1 .. 100
    /\ MaxEstimate \in Nat /\ Slack \in Nat
    /\ MaxMonths \in Nat \ {0} /\ MaxFree \in Nat
    /\ MaxChanges \in Nat /\ MaxMoves \in Nat /\ MaxStraddles \in Nat
    /\ MaxOverrides \in Nat /\ MaxDbErrors \in Nat

VARIABLES
    policy,    \* budget_policies: status, scope, limit and percent of each
    ledger,    \* usage_events: cost recorded per month and key
    alert,     \* alerts, by policy, kind and period
    month,     \* the current budget period
    priced,    \* whether the model requested has a price
    moved,     \* keys whose environment has another runtime than they have
    gatePc,        \* where each slot stands
    req,       \* what each slot holds in memory
    changes, moves, straddles, overrides, dbErrors

store == <<policy, ledger, alert, priced, moved>>
counts == <<changes, moves, straddles, overrides, dbErrors>>
budgetVars  == <<store, month, gatePc, req, counts>>

Months     == 1 .. MaxMonths
Thresholds == {"soft-limit", "hard-limit"}
Kinds      == Thresholds \cup {"preflight-block"}

\* buildBudgetAlertDedupeKey: a missing price is not tied to a period.
AlertIds == (Policies \X Kinds \X Months)
            \cup (Policies \X {"pricing-unavailable"} \X {0})

GateSteps == {"idle", "reread", "sum", "sync", "gate", "upstream", "alerts"}
Roles == {"none", "request", "settle", "change"}

Policy  == [status : {"none", "active", "paused", "deleted"},
            covers : SUBSET Keys, limit : Limits, percent : Percents]
Summary == [status : {"active", "paused", "deleted"}, covers : SUBSET Keys,
            limit : Limits, percent : Percents, spend : Nat]
NoRequest == [role |-> "none", keys |-> {}, priced |-> FALSE, estimate |-> 0,
              seen |-> <<>>, todo |-> {}, closing |-> {}, queue |-> {},
              now |-> 0]

BudgetInit ==
    /\ policy \in [Policies -> [status : {"none", "active"}, covers : SUBSET Keys,
                                limit : Limits, percent : Percents]]
    /\ \A p \in Policies : policy[p].covers \in Scopes[p]
    /\ ledger = [m \in Months |-> [k \in Keys |-> 0]]
    /\ alert = [a \in AlertIds |-> [status |-> "none", estimate |-> 0]]
    /\ month = 1
    /\ priced \in BOOLEAN
    /\ moved = {}
    /\ gatePc = [s \in Slots |-> "idle"]
    /\ req = [s \in Slots |-> NoRequest]
    /\ changes = 0 /\ moves = 0 /\ straddles = 0 /\ overrides = 0 /\ dbErrors = 0

-----------------------------------------------------------------------------
(* Helpers *)

GateGoto(s, step, r) == gatePc' = [gatePc EXCEPT ![s] = step] /\ req' = [req EXCEPT ![s] = r]

Finish(s) == GateGoto(s, "idle", NoRequest)

DbError == dbErrors < MaxDbErrors /\ dbErrors' = dbErrors + 1

Applies(k) == {p \in Policies : policy[p].status = "active" /\ k \in policy[p].covers}

\* The sum over the keys covered, as the number of units any of them spent.
Units(k, n)      == {k} \X (1 .. n)
Spend(covers, m) == Cardinality(UNION {Units(k, ledger[m][k]) : k \in covers})

SummaryOf(p, spend) == [status |-> policy[p].status, covers |-> policy[p].covers,
                        limit |-> policy[p].limit, percent |-> policy[p].percent,
                        spend |-> spend]

\* A policy for an environment applies by the runtime of the key, and sums by
\* the runtime of the environment of the key.
Summed(p, covers) == IF p \in Environmental THEN covers \ moved ELSE covers

Current(p) == SummaryOf(p, Spend(Summed(p, policy[p].covers), month))

softLimitReached(b) == 100 * b.spend >= b.limit * b.percent
hardLimitReached(b) == b.spend >= b.limit
remainingUsd(b)     == IF b.spend < b.limit THEN b.limit - b.spend ELSE 0

ThresholdAlerts(seen, m) ==
    {a \in (DOMAIN seen) \X Thresholds \X {m} :
        IF a[2] = "soft-limit" THEN softLimitReached(seen[a[1]])
                               ELSE hardLimitReached(seen[a[1]])}

\* Seeded fault: a preflight alert outlives the exhaustion of its budget.
resolveWhileHeadroom(a, b, now) ==
    \/ b.status # "active"
    \/ a[3] \notin {0, now}
    \/ a[2] = "soft-limit" /\ ~softLimitReached(b)
    \/ a[2] = "hard-limit" /\ ~hardLimitReached(b)
    \/ a[2] = "preflight-block" /\ alert[a].estimate <= remainingUsd(b)

shouldResolveBudgetAlert(a, b, now) ==
    \/ b.status # "active"
    \/ a[3] \notin {0, now}
    \/ a[2] = "soft-limit" /\ ~softLimitReached(b)
    \/ a[2] = "hard-limit" /\ ~hardLimitReached(b)
    \/ a[2] = "preflight-block" /\ \/ hardLimitReached(b)
                                   \/ alert[a].estimate <= remainingUsd(b)

-----------------------------------------------------------------------------
(* Reading the budgets and bringing their alerts in line *)

\* A request arrives; the active policies of its workspace are listed.
evaluateApplicableBudgetPolicies(s, k) ==
    /\ gatePc[s] = "idle"
    /\ GateGoto(s, "sum",
            [NoRequest EXCEPT
               !.role = "request", !.keys = {k}, !.priced = priced,
               !.now = month, !.todo = Applies(k),
               !.seen = [p \in Applies(k) |-> SummaryOf(p, 0)]])
    /\ UNCHANGED <<store, month, counts>>

\* The sums of the policies run concurrently, over the period of the listing.
sumBudgetPolicyUsageForPeriod(s) ==
    /\ gatePc[s] = "sum"
    /\ \E p \in req[s].todo :
          GateGoto(s, "sum",
               [req[s] EXCEPT !.todo = @ \ {p},
                              !.seen[p].spend = Spend(Summed(p, req[s].seen[p].covers),
                                                      req[s].now)])
    /\ UNCHANGED <<store, month, counts>>

\* The clock is read once for all the summaries of a call.
syncBudgetPolicyAlertsSafely(s) ==
    /\ gatePc[s] = "sum"
    /\ req[s].todo = {}
    /\ GateGoto(s, "sync", [req[s] EXCEPT !.now = month, !.todo = DOMAIN req[s].seen])
    /\ UNCHANGED <<store, month, counts>>

listAlerts(s) ==
    /\ gatePc[s] = "sync"
    /\ \E p \in req[s].todo :
          LET open == {a \in AlertIds : a[1] = p /\ alert[a].status = "open"}
          IN  GateGoto(s, "sync",
                   [req[s] EXCEPT
                      !.todo = @ \ {p},
                      !.closing = @ \cup
                         {a \in open : shouldResolveBudgetAlert(
                                          a, req[s].seen[p], req[s].now)}])
    /\ UNCHANGED <<store, month, counts>>

\* By id alone, however long ago the alert was listed.
updateAlert(s) ==
    /\ gatePc[s] = "sync"
    /\ \E a \in req[s].closing :
          /\ alert' = [alert EXCEPT ![a].status = "resolved"]
          /\ GateGoto(s, "sync", [req[s] EXCEPT !.closing = @ \ {a}])
    /\ UNCHANGED <<policy, ledger, priced, moved, month, counts>>

\* An error while a policy's alerts are synchronised is logged and dropped.
syncError(s) ==
    /\ gatePc[s] = "sync"
    /\ \E p \in req[s].todo \cup {a[1] : a \in req[s].closing} :
          GateGoto(s, "sync", [req[s] EXCEPT !.todo = @ \ {p},
                              !.closing = {a \in @ : a[1] # p}])
    /\ DbError
    /\ UNCHANGED <<store, month, changes, moves, straddles, overrides>>

\* Only the alerts are left to be written; they carry the estimate refused.
Notify(s, queue, estimate) ==
    GateGoto(s, "alerts", [NoRequest EXCEPT !.queue = queue, !.estimate = estimate])

\* What follows depends on what the alerts were synchronised for.
SyncDone(s) ==
    /\ gatePc[s] = "sync"
    /\ req[s].todo = {} /\ req[s].closing = {}
    /\ CASE req[s].role = "request" ->
               GateGoto(s, "gate", [req[s] EXCEPT !.todo = DOMAIN req[s].seen])
         [] req[s].role = "settle" ->
               Notify(s, ThresholdAlerts(req[s].seen, month), 0)
         [] req[s].role = "change" -> Finish(s)
    /\ UNCHANGED <<store, month, counts>>

-----------------------------------------------------------------------------
(* Admission *)

\* Seeded fault: the estimate is held against the whole month's limit.
BlockedByLimit(s, estimate) ==
    {p \in DOMAIN req[s].seen : /\ remainingUsd(req[s].seen[p]) > 0
                                /\ estimate > req[s].seen[p].limit}

Blocked(s, estimate) ==
    {p \in DOMAIN req[s].seen : /\ remainingUsd(req[s].seen[p]) > 0
                                /\ estimate > remainingUsd(req[s].seen[p])}

Exhausted(s) == {p \in DOMAIN req[s].seen : hardLimitReached(req[s].seen[p])}

\* No price, and a budget to keep: refused.
refuseUnpriced(s) ==
    /\ gatePc[s] = "gate"
    /\ DOMAIN req[s].seen # {}
    /\ ~req[s].priced
    /\ Notify(s, (DOMAIN req[s].seen) \X {"pricing-unavailable"} \X {0}, 0)
    /\ UNCHANGED <<store, month, counts>>

\* A price resolves the alerts that said there was none, policy by policy.
resolveBudgetPricingUnavailableAlerts(s) ==
    /\ gatePc[s] = "gate"
    /\ req[s].priced
    /\ \E p \in req[s].todo :
          LET a == <<p, "pricing-unavailable", 0>> IN
          /\ \/ /\ alert' = IF alert[a].status = "open"
                            THEN [alert EXCEPT ![a].status = "resolved"]
                            ELSE alert
                /\ UNCHANGED dbErrors
             \/ UNCHANGED alert /\ DbError
          /\ GateGoto(s, "gate", [req[s] EXCEPT !.todo = @ \ {p}])
    /\ UNCHANGED <<policy, ledger, priced, moved, month,
                   changes, moves, straddles, overrides>>

Priced(s) == /\ gatePc[s] = "gate"
             /\ \/ DOMAIN req[s].seen = {}
                \/ req[s].priced /\ req[s].todo = {}

\* The estimate exceeds what is left of some budget: refused.
refuseExceedsHeadroom(s) ==
    /\ Priced(s)
    /\ \E estimate \in 0 .. MaxEstimate :
          /\ Blocked(s, estimate) # {}
          /\ Notify(s, Blocked(s, estimate) \X {"preflight-block"} \X {month},
                    estimate)
    /\ UNCHANGED <<store, month, counts>>

\* Seeded fault: the refusal opens no alert.
refuseQuietly(s) ==
    /\ Priced(s)
    /\ \E estimate \in 0 .. MaxEstimate : Blocked(s, estimate) = {}
    /\ Exhausted(s) # {}
    /\ Notify(s, {}, 0)
    /\ UNCHANGED <<store, month, counts>>

\* Nothing is left of some budget: refused.
refuseExhausted(s) ==
    /\ Priced(s)
    /\ \E estimate \in 0 .. MaxEstimate : Blocked(s, estimate) = {}
    /\ Exhausted(s) # {}
    /\ Notify(s, ThresholdAlerts([p \in Exhausted(s) |-> req[s].seen[p]], month), 0)
    /\ UNCHANGED <<store, month, counts>>

\* Every budget has room: the provider is invoked.
invokeProvider(s) ==
    /\ Priced(s)
    /\ \E estimate \in 0 .. MaxEstimate :
          /\ Blocked(s, estimate) = {} /\ Exhausted(s) = {}
          /\ GateGoto(s, "upstream", [req[s] EXCEPT !.estimate = estimate])
    /\ UNCHANGED <<store, month, counts>>

-----------------------------------------------------------------------------
(* After the provider answered *)

\* What a summary becomes once the request's own cost is added to it.
applyUsageCostToBudget(seen, cost) ==
    [p \in DOMAIN seen |-> [seen[p] EXCEPT !.spend = @ + cost]]

Settled(s, cost) ==
    GateGoto(s, "sync", [req[s] EXCEPT
                       !.role = "settle", !.now = month, !.estimate = 0,
                       !.todo = DOMAIN req[s].seen,
                       !.seen = applyUsageCostToBudget(req[s].seen, cost)])

\* Without a price a request costs nothing.
Costs(s, k) == IF \/ ~req[s].priced
                  \/ DOMAIN req[s].seen = {} /\ ledger[month][k] >= MaxFree
               THEN {0} ELSE 0 .. (req[s].estimate + Slack)

\* Seeded fault: the alerts are raised from the summary as it was read.
settleUnapplied(s) ==
    /\ gatePc[s] = "upstream"
    /\ \E k \in req[s].keys : \E cost \in Costs(s, k) :
          /\ ledger' = [ledger EXCEPT ![month][k] = @ + cost]
          /\ Settled(s, 0)
    /\ UNCHANGED <<policy, alert, priced, moved, month, counts>>

\* The usage event is dated when it is inserted.  An error inserting it is
\* logged and dropped, and the cost with it.
recordResolvedProviderUsage(s) ==
    /\ gatePc[s] = "upstream"
    /\ \E k \in req[s].keys : \E cost \in Costs(s, k) :
          /\ \/ /\ ledger' = [ledger EXCEPT ![month][k] = @ + cost]
                /\ UNCHANGED dbErrors
             \/ UNCHANGED ledger /\ DbError
          /\ Settled(s, cost)
    /\ UNCHANGED <<policy, alert, priced, moved, month,
                   changes, moves, straddles, overrides>>

\* The provider failed or the client left: an event without cost, no alerts.
upstreamFailed(s) ==
    /\ gatePc[s] = "upstream"
    /\ Finish(s)
    /\ UNCHANGED <<store, month, counts>>

\* Alerts are upserted one after the other, the soft limit of a policy before
\* its hard limit; one that cannot be written is logged and dropped.
upsertAlert(s) ==
    /\ gatePc[s] = "alerts"
    /\ \E a \in req[s].queue :
          /\ a[2] = "hard-limit" =>
                <<a[1], "soft-limit", a[3]>> \notin req[s].queue
          /\ \/ /\ alert' = [alert EXCEPT ![a] =
                     [status |-> "open",
                      estimate |-> IF a[2] = "preflight-block"
                                   THEN req[s].estimate ELSE 0]]
                /\ UNCHANGED dbErrors
             \/ UNCHANGED alert /\ DbError
          /\ GateGoto(s, "alerts", [req[s] EXCEPT !.queue = @ \ {a}])
    /\ UNCHANGED <<policy, ledger, priced, moved, month,
                   changes, moves, straddles, overrides>>

replied(s) ==
    /\ gatePc[s] = "alerts"
    /\ req[s].queue = {}
    /\ Finish(s)
    /\ UNCHANGED <<store, month, counts>>

\* A database error that is not caught on the way, or the end of the process.
Abort(s) ==
    /\ gatePc[s] # "idle"
    /\ Finish(s)
    /\ DbError
    /\ UNCHANGED <<store, month, changes, moves, straddles, overrides>>

-----------------------------------------------------------------------------
(* The control API *)

CountChange == changes < MaxChanges /\ changes' = changes + 1

\* The sum of the policy is over what it covers.
Steady(p) == p \notin Environmental \/ moves = 0

\* POST /v1/budgets.  The policy takes the runtime its environment has; bound:
\* that of the keys.
createBudgetPolicy(p) ==
    /\ policy[p].status = "none" /\ Steady(p)
    /\ policy' = [policy EXCEPT ![p].status = "active"]
    /\ CountChange
    /\ UNCHANGED <<ledger, alert, priced, moved, month,
                   gatePc, req, moves, straddles, overrides, dbErrors>>

\* The policy's alerts are synchronised with no summary: all are resolved.
Withdraw(s, p) ==
    GateGoto(s, "sync", [NoRequest EXCEPT
                       !.role = "change", !.todo = {p}, !.now = month,
                       !.seen = [q \in {p} |-> [SummaryOf(p, 0) EXCEPT
                                                   !.status = "deleted"]]])

\* PATCH /v1/budgets/:id, which goes on to synchronise the policy's alerts:
\* with what the policy now says, or with nothing when it has a new scope, which
\* takes the runtime of an environment as the creation does.
updateBudgetPolicy(s, p) ==
    /\ gatePc[s] = "idle"
    /\ policy[p].status \in {"active", "paused"}
    /\ \E status \in {"active", "paused"}, covers \in Scopes[p],
          limit \in Limits, percent \in Percents :
          /\ covers = policy[p].covers \/ Steady(p)
          /\ policy' = [policy EXCEPT ![p] =
                          [status |-> status, covers |-> covers,
                           limit |-> limit, percent |-> percent]]
          /\ IF covers = policy[p].covers
             THEN GateGoto(s, "reread",
                       [NoRequest EXCEPT !.role = "change", !.todo = {p}])
             ELSE Withdraw(s, p)
    /\ CountChange
    /\ UNCHANGED <<ledger, alert, priced, moved, month,
                   moves, straddles, overrides, dbErrors>>

\* The policy is read again, and summarised as a request would.
getBudgetPolicySummaryById(s) ==
    /\ gatePc[s] = "reread"
    /\ GateGoto(s, "sum", [req[s] EXCEPT
                         !.seen = [p \in req[s].todo |-> SummaryOf(p, 0)],
                         !.now = month])
    /\ UNCHANGED <<store, month, counts>>

\* Seeded fault: the row is kept, with a status nothing knows.
revokeBudgetPolicy(s, p) ==
    /\ gatePc[s] = "idle"
    /\ policy[p].status \in {"active", "paused"}
    /\ policy' = [policy EXCEPT ![p].status = "revoked"]
    /\ Withdraw(s, p)
    /\ CountChange
    /\ UNCHANGED <<ledger, alert, priced, moved, month,
                   moves, straddles, overrides, dbErrors>>

\* DELETE /v1/budgets/:id; without a policy every alert is resolved.
deleteBudgetPolicy(s, p) ==
    /\ gatePc[s] = "idle"
    /\ policy[p].status \in {"active", "paused"}
    /\ policy' = [policy EXCEPT ![p].status = "deleted"]
    /\ Withdraw(s, p)
    /\ CountChange
    /\ UNCHANGED <<ledger, alert, priced, moved, month,
                   moves, straddles, overrides, dbErrors>>

\* PATCH /v1/alerts/:id
patchAlert(a) ==
    /\ alert[a].status # "none"
    /\ \E status \in {"open", "resolved"} : alert' = [alert EXCEPT ![a].status = status]
    /\ overrides < MaxOverrides /\ overrides' = overrides + 1
    /\ UNCHANGED <<policy, ledger, priced, moved, month,
                   gatePc, req, changes, moves, straddles, dbErrors>>

\* The prices of the provider connection are edited.
configurePricing ==
    /\ priced' = ~priced
    /\ CountChange
    /\ UNCHANGED <<policy, ledger, alert, moved, month,
                   gatePc, req, moves, straddles, overrides, dbErrors>>

\* PATCH /v1/environments/:id: another runtime, or the one its keys have.
updateEnvironment ==
    /\ \E keys \in Environments : moved' \in {moved \cup keys, moved \ keys} \ {moved}
    /\ moves < MaxMoves /\ moves' = moves + 1
    /\ UNCHANGED <<policy, ledger, alert, priced, month, gatePc, req,
                   changes, straddles, overrides, dbErrors>>

\* getCurrentBudgetPeriod moves on.
NextMonth ==
    /\ month < MaxMonths
    /\ month' = month + 1
    /\ IF \A s \in Slots : gatePc[s] = "idle"
       THEN UNCHANGED straddles
       ELSE straddles < MaxStraddles /\ straddles' = straddles + 1
    /\ UNCHANGED <<store, gatePc, req, changes, moves, overrides, dbErrors>>

-----------------------------------------------------------------------------

Synchronise(s) ==
    \/ sumBudgetPolicyUsageForPeriod(s) \/ syncBudgetPolicyAlertsSafely(s)
    \/ listAlerts(s) \/ updateAlert(s) \/ syncError(s) \/ SyncDone(s)

handleGatewayRequest(s) ==
    \/ refuseUnpriced(s) \/ resolveBudgetPricingUnavailableAlerts(s)
    \/ refuseExceedsHeadroom(s) \/ refuseExhausted(s) \/ invokeProvider(s)
    \/ recordResolvedProviderUsage(s) \/ upstreamFailed(s)
    \/ upsertAlert(s) \/ replied(s)

BudgetNext ==
    \/ \E s \in Slots :
          \/ \E k \in Keys : evaluateApplicableBudgetPolicies(s, k)
          \/ \E p \in Policies : updateBudgetPolicy(s, p) \/ deleteBudgetPolicy(s, p)
          \/ Synchronise(s) \/ handleGatewayRequest(s)
          \/ getBudgetPolicySummaryById(s) \/ Abort(s)
    \/ \E p \in Policies : createBudgetPolicy(p)
    \/ \E a \in AlertIds : patchAlert(a)
    \/ configurePricing \/ updateEnvironment \/ NextMonth

BudgetSpec == BudgetInit /\ [][BudgetNext]_budgetVars

\* What has been started goes on, and requests keep coming in.
BudgetFairness ==
    \A s \in Slots :
       /\ WF_budgetVars(Synchronise(s) \/ handleGatewayRequest(s)
                     \/ getBudgetPolicySummaryById(s))
       /\ WF_budgetVars(\E k \in Keys : evaluateApplicableBudgetPolicies(s, k))

BudgetFairSpec == BudgetSpec /\ BudgetFairness

-----------------------------------------------------------------------------
(* Properties *)

\* Every variable has the type the code gives it.
BudgetTypeOK ==
    /\ policy \in [Policies -> Policy]
    /\ ledger \in [Months -> [Keys -> Nat]]
    /\ alert \in [AlertIds -> [status : {"none", "open", "resolved"},
                               estimate : 0 .. MaxEstimate]]
    /\ month \in Months
    /\ priced \in BOOLEAN
    /\ moved \in SUBSET Keys
    /\ gatePc \in [Slots -> GateSteps]
    /\ \A s \in Slots :
          /\ req[s].role \in Roles /\ req[s].keys \in SUBSET Keys
          /\ req[s].priced \in BOOLEAN /\ req[s].estimate \in 0 .. MaxEstimate
          /\ DOMAIN req[s].seen \subseteq Policies
          /\ \A p \in DOMAIN req[s].seen : req[s].seen[p] \in Summary
          /\ req[s].todo \subseteq Policies
          /\ req[s].closing \subseteq AlertIds
          /\ req[s].queue \subseteq AlertIds
          /\ req[s].now \in {0} \cup Months
    /\ changes \in 0 .. MaxChanges
    /\ moves \in 0 .. MaxMoves
    /\ straddles \in 0 .. MaxStraddles
    /\ overrides \in 0 .. MaxOverrides
    /\ dbErrors \in 0 .. MaxDbErrors

\* What a policy covers has cost no more than the limit, what the other slots
\* can have had in flight, and what one request can exceed its estimate by.
Within(p, m) ==
    policy[p].status = "active" =>
       Spend(policy[p].covers, m) <= policy[p].limit + Slack
          + (Cardinality(Slots) - 1) * (MaxEstimate + Slack)

\* Requests are admitted on a sum others are about to add to.  While nobody
\* edits the policies, no budget is overspent by more than what was in flight,
\* be it for an environment nobody edits, for a project or for a workspace; a
\* month that ends under a request makes it no worse.
OvershootBounded ==
    changes = 0 =>
       \A p \in Policies : Steady(p) => \A m \in Months : Within(p, m)

\* "Past the hard threshold requests are blocked", by budgets of a workspace,
\* a project or an environment, as long as nobody edits the policies.
HardLimitBlocks ==
    changes = 0 => \A p \in Policies, m \in Months : Within(p, m)

Quiet == \A s \in Slots : gatePc[s] = "idle"

\* "A soft limit exceeded raises an alert": with no request in progress, a
\* budget past its soft or its hard limit has the alert open, unless a policy or
\* its environment was edited, the alert was closed by hand, the month ended
\* under a request, or a write failed.
LimitsAlerted ==
    Quiet /\ changes = 0 /\ straddles = 0 /\ overrides = 0 /\ dbErrors = 0 =>
       \A p \in Policies : policy[p].status = "active" /\ Steady(p) =>
          \A a \in ThresholdAlerts([q \in {p} |-> Current(q)], month) :
             alert[a].status = "open"

Justified(a, b) ==
    /\ b.status = "active"
    /\ a[2] = "soft-limit" => softLimitReached(b)
    /\ a[2] = "hard-limit" => hardLimitReached(b)
    /\ a[2] = "preflight-block" => 0 < remainingUsd(b)
                                 /\ remainingUsd(b) < alert[a].estimate

\* No alert of the current month is open that its budget does not justify: a
\* threshold not reached, headroom for the request refused, a paused or
\* deleted policy.  Updates of policies are included, of their environments not.
AlertsJustified ==
    Quiet /\ straddles = 0 /\ overrides = 0 /\ dbErrors = 0 =>
       \A a \in AlertIds :
          alert[a].status = "open" /\ Steady(a[1]) /\ a[3] \in {0, month} =>
             Justified(a, Current(a[1]))

\* The hard-limit alert of an exhausted budget may be resolved by hand, or by a
\* request with an older summary, but the requests that follow put it back for good.
HardAlertSettles ==
    \A p \in Policies :
       <>[]priced =>
       <>[](/\ policy[p].status = "active"
            /\ hardLimitReached(Current(p))
            => alert[<<p, "hard-limit", month>>].status = "open")

=============================================================================
