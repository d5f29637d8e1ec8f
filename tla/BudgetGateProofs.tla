-------------------------- MODULE BudgetGateProofs --------------------------
(***************************************************************************)
(* Theorems about BudgetGate, for any number of requests, keys, policies,   *)
(* months and edits: its types, and that concurrent requests overspend a    *)
(* budget by no more than what they can have had in flight; and, as long as *)
(* requests and edits come one at a time, that the alerts open at rest are  *)
(* those the budgets call for and justify.                                  *)
(***************************************************************************)
EXTENDS BudgetGate, FiniteSetTheorems, TLAPS

-----------------------------------------------------------------------------
(* Sums of spending, as numbers of units *)

Spent(covers, costs) == UNION {Units(k, costs[k]) : k \in covers}

LEMMA UnitsCounted ==
  ASSUME NEW k, NEW m \in Int, NEW n \in Int
  PROVE  /\ IsFiniteSet({k} \X (m .. n))
         /\ Cardinality({k} \X (m .. n)) = IF m > n THEN 0 ELSE n - m + 1
<1>1. /\ IsFiniteSet(m .. n)
      /\ Cardinality(m .. n) = IF m > n THEN 0 ELSE n - m + 1
  BY FS_Interval
<1>2. IsFiniteSet({k}) /\ Cardinality({k}) = 1
  BY FS_Singleton
<1>3. /\ IsFiniteSet({k} \X (m .. n))
      /\ Cardinality({k} \X (m .. n)) = 1 * Cardinality(m .. n)
  BY <1>1, <1>2, FS_Product
<1> QED BY <1>1, <1>3

LEMMA SpentFinite ==
  ASSUME NEW covers, IsFiniteSet(covers), NEW costs \in [covers -> Nat]
  PROVE  /\ IsFiniteSet(Spent(covers, costs))
         /\ Cardinality(Spent(covers, costs)) \in Nat
<1> DEFINE parts == {Units(k, costs[k]) : k \in covers}
           part  == [k \in covers |-> Units(k, costs[k])]
<1>1. part \in Surjection(covers, parts)
  BY DEF Surjection
<1>2. IsFiniteSet(parts)
  BY <1>1, FS_Surjection
<1>3. \A P \in parts : IsFiniteSet(P)
  <2>1. ASSUME NEW k \in covers PROVE IsFiniteSet(Units(k, costs[k]))
    <3>1. IsFiniteSet(1 .. costs[k])
      BY FS_Interval
    <3>2. IsFiniteSet({k})
      BY FS_Singleton
    <3> QED BY <3>1, <3>2, FS_Product DEF Units
  <2> QED BY <2>1
<1>4. IsFiniteSet(UNION parts)
  BY <1>2, <1>3, FS_UNION
<1> QED BY <1>4, FS_CardinalityType DEF Spent

\* A cost that is booked to a key covered is added to the sum.
LEMMA SpentGrows ==
  ASSUME NEW covers, IsFiniteSet(covers), NEW costs \in [covers -> Nat],
         NEW k \in covers, NEW cost \in Nat, NEW new \in [covers -> Nat],
         new[k] = costs[k] + cost, \A j \in covers : j # k => new[j] = costs[j]
  PROVE  Cardinality(Spent(covers, new)) = Cardinality(Spent(covers, costs)) + cost
<1> DEFINE extra == {k} \X ((costs[k] + 1) .. (costs[k] + cost))
           old   == Spent(covers, costs)
<1>1. /\ IsFiniteSet(extra)
      /\ Cardinality(extra) = cost
  <2>1. costs[k] + 1 \in Int /\ costs[k] + cost \in Int
    OBVIOUS
  <2>2. /\ IsFiniteSet(extra)
        /\ Cardinality(extra) = IF costs[k] + 1 > costs[k] + cost THEN 0
                                ELSE (costs[k] + cost) - (costs[k] + 1) + 1
    BY <2>1, UnitsCounted
  <2> QED BY <2>2
<1>2. IsFiniteSet(old) /\ Cardinality(old) \in Nat
  BY SpentFinite
<1>3. Units(k, new[k]) = Units(k, costs[k]) \cup extra
  <2>1. 1 .. new[k] = (1 .. costs[k]) \cup ((costs[k] + 1) .. (costs[k] + cost))
    OBVIOUS
  <2> QED BY <2>1 DEF Units
<1>4. Spent(covers, new) = old \cup extra
  BY <1>3 DEF Spent
<1>5. old \cap extra = {}
  BY DEF Spent, Units
<1>6. Cardinality({}) = 0
  BY FS_EmptySet
<1>7. Cardinality(old \cup extra)
         = Cardinality(old) + Cardinality(extra) - Cardinality(old \cap extra)
  BY <1>1, <1>2, FS_Union
<1>8. Cardinality(old \cup extra) = Cardinality(old) + cost
  <2> HIDE DEF old, extra
  <2>1. Cardinality(old \cap extra) = 0
    BY <1>5, <1>6
  <2> QED BY <1>1, <1>2, <1>7, <2>1
<1> QED BY <1>4, <1>8

LEMMA SpentNothing ==
  ASSUME NEW covers, NEW costs \in [covers -> Nat], \A k \in covers : costs[k] = 0
  PROVE  Cardinality(Spent(covers, costs)) = 0
<1>1. Spent(covers, costs) = {}
  BY DEF Spent, Units
<1> QED BY <1>1, FS_EmptySet

-----------------------------------------------------------------------------
(* Types *)

Seen == UNION {[D -> Summary] : D \in SUBSET Policies}

Request == [role : Roles, keys : SUBSET Keys, priced : BOOLEAN,
            estimate : 0 .. MaxEstimate, seen : Seen, todo : SUBSET Policies,
            closing : SUBSET AlertIds, queue : SUBSET AlertIds,
            now : {0} \cup Months]

Alert == [status : {"none", "open", "resolved"}, estimate : 0 .. MaxEstimate]

StoreOK ==
    /\ policy \in [Policies -> Policy]
    /\ ledger \in [Months -> [Keys -> Nat]]
    /\ alert \in [AlertIds -> Alert]
    /\ month \in Months
    /\ priced \in BOOLEAN
    /\ moved \in SUBSET Keys /\ (moves = 0 => moved = {})
    /\ changes \in 0 .. MaxChanges /\ moves \in 0 .. MaxMoves
    /\ straddles \in 0 .. MaxStraddles
    /\ overrides \in 0 .. MaxOverrides /\ dbErrors \in 0 .. MaxDbErrors

\* A slot knows what it is synchronising alerts for, has a summary for every
\* policy it is to sum, over a month, and reads again only a policy that exists.
Stage(step, r) ==
    /\ step = "reread" => /\ r.role = "change"
                          /\ \A p \in r.todo : policy[p].status # "none"
    /\ step = "sum" => r.todo \subseteq DOMAIN r.seen /\ r.now \in Months
    /\ step \in {"sum", "sync"} => r.role # "none"
    /\ step \in {"gate", "upstream"} => r.role = "request"

TypeInv ==
    /\ StoreOK
    /\ gatePc \in [Slots -> GateSteps] /\ req \in [Slots -> Request]
    /\ \A s \in Slots : Stage(gatePc[s], req[s])

LEMMA TypeInvImplies == TypeInv => BudgetTypeOK
<1> SUFFICES ASSUME TypeInv PROVE BudgetTypeOK
  OBVIOUS
<1>1. ASSUME NEW s \in Slots
      PROVE  /\ DOMAIN req[s].seen \subseteq Policies
             /\ \A p \in DOMAIN req[s].seen : req[s].seen[p] \in Summary
  <2>1. req[s].seen \in Seen
    BY DEF TypeInv, Request
  <2>2. PICK D \in SUBSET Policies : req[s].seen \in [D -> Summary]
    BY <2>1 DEF Seen
  <2> QED BY <2>2
<1>2. ASSUME NEW s \in Slots
      PROVE  /\ req[s].role \in Roles /\ req[s].keys \in SUBSET Keys
             /\ req[s].priced \in BOOLEAN /\ req[s].estimate \in 0 .. MaxEstimate
             /\ req[s].todo \subseteq Policies
             /\ req[s].closing \subseteq AlertIds
             /\ req[s].queue \subseteq AlertIds
             /\ req[s].now \in {0} \cup Months
  BY DEF TypeInv, Request
<1> QED BY <1>1, <1>2 DEF TypeInv, StoreOK, BudgetTypeOK, Alert

LEMMA SeenIs ==
  ASSUME NEW seen \in Seen
  PROVE  /\ DOMAIN seen \subseteq Policies
         /\ seen = [p \in DOMAIN seen |-> seen[p]]
         /\ \A p \in DOMAIN seen : seen[p] \in Summary
<1>1. PICK D \in SUBSET Policies : seen \in [D -> Summary]
  BY DEF Seen
<1> QED BY <1>1

LEMMA SeenOf ==
  ASSUME NEW D \in SUBSET Policies, NEW seen \in [D -> Summary]
  PROVE  seen \in Seen /\ DOMAIN seen = D
BY DEF Seen

LEMMA NoRequestOK == NoRequest \in Request
<1>1. <<>> \in [{} -> Summary]
  OBVIOUS
<1>2. <<>> \in Seen
  BY <1>1 DEF Seen
<1> QED BY <1>2, BudgetConstantsOK DEF NoRequest, Request, Roles

\* What a slot does to itself disturbs no other, and no policy ever
\* vanishes from the table.
LEMMA SlotMoves ==
  ASSUME TypeInv, StoreOK', NEW s \in Slots, NEW step \in GateSteps, NEW r \in Request,
         GateGoto(s, step, r),
         \A p \in Policies : policy[p].status # "none" => policy'[p].status # "none",
         Stage(step, r)'
  PROVE  TypeInv'
<1>1. gatePc' \in [Slots -> GateSteps] /\ req' \in [Slots -> Request]
  BY DEF GateGoto, TypeInv
<1>2. gatePc'[s] = step /\ req'[s] = r
  BY DEF GateGoto, TypeInv
<1>3. ASSUME NEW t \in Slots PROVE Stage(gatePc[t], req[t])'
  <2>1. CASE t = s
    BY <1>2, <2>1 DEF Stage
  <2>2. CASE t # s
    <3>1. gatePc'[t] = gatePc[t] /\ req'[t] = req[t]
      BY <2>2 DEF GateGoto, TypeInv
    <3>2. req[t].todo \subseteq Policies
      BY DEF TypeInv, Request
    <3> QED BY <3>1, <3>2 DEF TypeInv, Stage
  <2> QED BY <2>1, <2>2
<1> QED BY <1>1, <1>3 DEF TypeInv

\* A step after which nothing is read again.
LEMMA SlotSteps ==
  ASSUME TypeInv, StoreOK', NEW s \in Slots, NEW step \in GateSteps, NEW r \in Request,
         GateGoto(s, step, r), step # "reread",
         \A p \in Policies : policy[p].status # "none" => policy'[p].status # "none",
         step = "sum" => r.todo \subseteq DOMAIN r.seen /\ r.now \in Months,
         step \in {"sum", "sync"} => r.role # "none",
         step \in {"gate", "upstream"} => r.role = "request"
  PROVE  TypeInv'
<1>1. Stage(step, r)'
  BY DEF Stage
<1> QED BY <1>1, SlotMoves

LEMMA SlotFinishes ==
  ASSUME TypeInv, StoreOK', NEW s \in Slots, Finish(s), UNCHANGED policy
  PROVE  TypeInv'
BY NoRequestOK, SlotSteps DEF Finish, GateSteps

LEMMA StoreKept ==
  ASSUME StoreOK, UNCHANGED <<store, month>>,
         \/ UNCHANGED counts
         \/ DbError /\ UNCHANGED <<changes, moves, straddles, overrides>>
  PROVE  StoreOK'
BY BudgetConstantsOK DEF StoreOK, store, counts, DbError

LEMMA SpendNat ==
  ASSUME StoreOK, NEW covers \in SUBSET Keys, NEW m \in Months
  PROVE  Spend(covers, m) \in Nat
<1>1. IsFiniteSet(covers)
  BY BudgetConstantsOK, FS_Subset
<1>2. ledger[m] \in [Keys -> Nat]
  BY DEF StoreOK
<1> DEFINE costs == [k \in covers |-> ledger[m][k]]
<1>3. costs \in [covers -> Nat]
  BY <1>2
<1>4. Spent(covers, costs) = UNION {Units(k, ledger[m][k]) : k \in covers}
  BY DEF Spent
<1> QED BY <1>1, <1>3, <1>4, SpentFinite DEF Spend

LEMMA SummaryOfOK ==
  ASSUME StoreOK, NEW p \in Policies, policy[p].status # "none", NEW n \in Nat
  PROVE  SummaryOf(p, n) \in Summary
BY DEF StoreOK, Policy, Summary, SummaryOf

-----------------------------------------------------------------------------
(* Types: the steps of a request *)

LEMMA EvaluateTyped ==
  ASSUME TypeInv, NEW s \in Slots, NEW k \in Keys,
         evaluateApplicableBudgetPolicies(s, k)
  PROVE  TypeInv'
<1> DEFINE D    == Applies(k)
           seen == [p \in D |-> SummaryOf(p, 0)]
           r    == [NoRequest EXCEPT !.role = "request", !.keys = {k},
                                     !.priced = priced, !.now = month,
                                     !.todo = D, !.seen = seen]
<1>1. D \in SUBSET Policies /\ \A p \in D : policy[p].status # "none"
  BY DEF Applies
<1>2. \A p \in D : SummaryOf(p, 0) \in Summary
  BY <1>1, SummaryOfOK DEF TypeInv
<1>3. seen \in Seen /\ DOMAIN seen = D
  <2>1. seen \in [D -> Summary]
    BY <1>2
  <2> HIDE DEF D, seen
  <2> QED BY <1>1, <2>1, SeenOf
<1>4. /\ r \in Request /\ r.todo = D /\ r.seen = seen /\ r.role = "request"
      /\ r.now \in Months
  <2> HIDE DEF D, seen
  <2>1. /\ NoRequest \in Request /\ priced \in BOOLEAN /\ month \in Months
    BY NoRequestOK DEF TypeInv, StoreOK
  <2> QED BY <1>1, <1>3, <2>1 DEF Request, Roles
<1>5. GateGoto(s, "sum", r) /\ UNCHANGED <<store, month, counts>>
  BY DEF evaluateApplicableBudgetPolicies
<1>6. StoreOK' /\ UNCHANGED policy
  BY <1>5, StoreKept DEF TypeInv, store
<1> HIDE DEF r
<1> QED BY <1>3, <1>4, <1>5, <1>6, SlotSteps DEF GateSteps

LEMMA SumTyped ==
  ASSUME TypeInv, NEW s \in Slots, sumBudgetPolicyUsageForPeriod(s)
  PROVE  TypeInv'
<1>1. PICK p \in req[s].todo :
         GateGoto(s, "sum",
              [req[s] EXCEPT !.todo = @ \ {p},
                             !.seen[p].spend = Spend(Summed(p, req[s].seen[p].covers), req[s].now)])
  BY DEF sumBudgetPolicyUsageForPeriod
<1> DEFINE n == Spend(Summed(p, req[s].seen[p].covers), req[s].now)
           seen == [req[s].seen EXCEPT ![p].spend = n]
           r == [req[s] EXCEPT !.todo = @ \ {p}, !.seen[p].spend = n]
<1>2. /\ gatePc[s] = "sum" /\ UNCHANGED <<store, month, counts>>
  BY DEF sumBudgetPolicyUsageForPeriod
<1>3. /\ req[s] \in Request /\ req[s].role # "none"
      /\ p \in DOMAIN req[s].seen /\ req[s].todo \subseteq DOMAIN req[s].seen
      /\ req[s].now \in Months
  BY <1>2 DEF TypeInv, Stage
<1>4. /\ DOMAIN req[s].seen \in SUBSET Policies
      /\ req[s].seen \in [DOMAIN req[s].seen -> Summary]
  BY <1>3, SeenIs DEF Request
<1>5. n \in Nat
  <2>1. req[s].seen[p].covers \in SUBSET Keys
    BY <1>3, <1>4 DEF Summary
  <2>2. req[s].now \in Months
    BY <1>2 DEF TypeInv, Stage
  <2>3. Summed(p, req[s].seen[p].covers) \in SUBSET Keys
    BY <2>1 DEF Summed
  <2> QED BY <2>2, <2>3, SpendNat DEF TypeInv
<1>6. seen \in [DOMAIN req[s].seen -> Summary]
  <2> HIDE DEF n
  <2> QED BY <1>3, <1>4, <1>5 DEF Summary
<1>7. seen \in Seen /\ DOMAIN seen = DOMAIN req[s].seen
  BY <1>4, <1>6, SeenOf
<1>8. /\ r = [req[s] EXCEPT !.todo = @ \ {p}, !.seen = seen]
      /\ r.todo = req[s].todo \ {p} /\ r.seen = seen /\ r.role = req[s].role
      /\ r.now = req[s].now
  <2> HIDE DEF n
  <2> QED BY <1>3 DEF Request
<1>9. r \in Request
  <2> HIDE DEF r, seen
  <2> QED BY <1>3, <1>7, <1>8 DEF Request
<1>10. StoreOK' /\ UNCHANGED policy
  BY <1>2, StoreKept DEF TypeInv, store
<1>11. GateGoto(s, "sum", r)
  BY <1>1
<1> HIDE DEF r, seen
<1> QED BY <1>3, <1>7, <1>8, <1>9, <1>10, <1>11, SlotSteps DEF GateSteps

LEMMA StartSyncTyped ==
  ASSUME TypeInv, NEW s \in Slots, syncBudgetPolicyAlertsSafely(s)
  PROVE  TypeInv'
<1> DEFINE r == [req[s] EXCEPT !.now = month, !.todo = DOMAIN req[s].seen]
<1>1. /\ GateGoto(s, "sync", r) /\ UNCHANGED <<store, month, counts>> /\ gatePc[s] = "sum"
  BY DEF syncBudgetPolicyAlertsSafely
<1>2. req[s] \in Request /\ month \in Months /\ req[s].role # "none"
  BY <1>1 DEF TypeInv, StoreOK, Stage
<1>3. DOMAIN req[s].seen \in SUBSET Policies
  BY <1>2, SeenIs DEF Request
<1>4. r \in Request /\ r.role # "none"
  BY <1>2, <1>3 DEF Request
<1>5. StoreOK' /\ UNCHANGED policy
  BY <1>1, StoreKept DEF TypeInv, store
<1> HIDE DEF r
<1> QED BY <1>1, <1>4, <1>5, SlotSteps DEF GateSteps

LEMMA ListAlertsTyped ==
  ASSUME TypeInv, NEW s \in Slots, listAlerts(s)
  PROVE  TypeInv'
<1>1. /\ UNCHANGED <<store, month, counts>> /\ gatePc[s] = "sync"
  BY DEF listAlerts
<1>2. PICK p \in req[s].todo, listed \in SUBSET AlertIds :
         GateGoto(s, "sync", [req[s] EXCEPT !.todo = @ \ {p}, !.closing = @ \cup listed])
  BY DEF listAlerts
<1> DEFINE r == [req[s] EXCEPT !.todo = @ \ {p}, !.closing = @ \cup listed]
<1>3. req[s] \in Request /\ req[s].role # "none"
  BY <1>1 DEF TypeInv, Stage
<1>4. r \in Request /\ r.role # "none"
  BY <1>3 DEF Request
<1>5. StoreOK' /\ UNCHANGED policy
  BY <1>1, StoreKept DEF TypeInv, store
<1> HIDE DEF r
<1> QED BY <1>2, <1>4, <1>5, SlotSteps DEF GateSteps, r

LEMMA UpdateAlertTyped ==
  ASSUME TypeInv, NEW s \in Slots, updateAlert(s)
  PROVE  TypeInv'
<1>1. PICK a \in req[s].closing :
         /\ alert' = [alert EXCEPT ![a].status = "resolved"]
         /\ GateGoto(s, "sync", [req[s] EXCEPT !.closing = @ \ {a}])
  BY DEF updateAlert
<1> DEFINE r == [req[s] EXCEPT !.closing = @ \ {a}]
<1>2. gatePc[s] = "sync" /\ UNCHANGED <<policy, ledger, priced, moved, month, counts>>
  BY DEF updateAlert
<1>3. req[s] \in Request /\ req[s].role # "none"
  BY <1>2 DEF TypeInv, Stage
<1>4. r \in Request /\ r.role # "none"
  BY <1>3 DEF Request
<1>5. StoreOK'
  <2>1. alert' \in [AlertIds -> Alert]
    BY <1>1 DEF TypeInv, StoreOK, Alert
  <2> QED BY <1>2, <2>1 DEF TypeInv, StoreOK, counts
<1> HIDE DEF r
<1> QED BY <1>1, <1>2, <1>4, <1>5, SlotSteps DEF GateSteps, r

LEMMA SyncErrorTyped ==
  ASSUME TypeInv, NEW s \in Slots, syncError(s)
  PROVE  TypeInv'
<1>1. PICK p \in req[s].todo \cup {a[1] : a \in req[s].closing} :
         GateGoto(s, "sync", [req[s] EXCEPT !.todo = @ \ {p},
                                        !.closing = {a \in @ : a[1] # p}])
  BY DEF syncError
<1> DEFINE r == [req[s] EXCEPT !.todo = @ \ {p}, !.closing = {a \in @ : a[1] # p}]
<1>2. /\ gatePc[s] = "sync" /\ DbError
      /\ UNCHANGED <<store, month, changes, moves, straddles, overrides>>
  BY DEF syncError
<1>3. req[s] \in Request /\ req[s].role # "none"
  BY <1>2 DEF TypeInv, Stage
<1>4. r \in Request /\ r.role # "none"
  BY <1>3 DEF Request
<1>5. StoreOK' /\ UNCHANGED policy
  BY <1>2, StoreKept DEF TypeInv, store
<1> HIDE DEF r
<1> QED BY <1>1, <1>4, <1>5, SlotSteps DEF GateSteps, r

LEMMA NotifyOK ==
  ASSUME NEW queue \in SUBSET AlertIds, NEW estimate \in 0 .. MaxEstimate
  PROVE  [NoRequest EXCEPT !.queue = queue, !.estimate = estimate] \in Request
BY NoRequestOK DEF Request

\* Whatever is refused or settled leaves alerts to write and nothing else.
LEMMA NotifyTyped ==
  ASSUME TypeInv, StoreOK', NEW s \in Slots, NEW queue \in SUBSET AlertIds,
         NEW estimate \in 0 .. MaxEstimate, Notify(s, queue, estimate),
         UNCHANGED policy
  PROVE  TypeInv'
<1> DEFINE r == [NoRequest EXCEPT !.queue = queue, !.estimate = estimate]
<1>1. r \in Request
  BY NotifyOK
<1>2. GateGoto(s, "alerts", r)
  BY DEF Notify
<1> HIDE DEF r
<1> QED BY <1>1, <1>2, SlotSteps DEF GateSteps

LEMMA ThresholdAlertsOK ==
  ASSUME NEW seen, DOMAIN seen \subseteq Policies, month \in Months
  PROVE  ThresholdAlerts(seen, month) \in SUBSET AlertIds
BY DEF ThresholdAlerts, AlertIds, Kinds

LEMMA SyncDoneTyped ==
  ASSUME TypeInv, NEW s \in Slots, SyncDone(s)
  PROVE  TypeInv'
<1>1. gatePc[s] = "sync" /\ UNCHANGED <<store, month, counts>>
  BY DEF SyncDone
<1>2. /\ req[s] \in Request /\ month \in Months
      /\ req[s].role \in {"request", "settle", "change"}
  BY <1>1 DEF TypeInv, StoreOK, Stage, Request, Roles
<1>3. DOMAIN req[s].seen \in SUBSET Policies
  BY <1>2, SeenIs DEF Request
<1>4. StoreOK' /\ UNCHANGED policy
  BY <1>1, StoreKept DEF TypeInv, store
<1>5. CASE req[s].role = "request"
  <2> DEFINE r == [req[s] EXCEPT !.todo = DOMAIN req[s].seen]
  <2>1. GateGoto(s, "gate", r)
    BY <1>5 DEF SyncDone
  <2>2. r \in Request /\ r.role = "request"
    BY <1>2, <1>3, <1>5 DEF Request
  <2> HIDE DEF r
  <2> QED BY <1>4, <2>1, <2>2, SlotSteps DEF GateSteps
<1>6. CASE req[s].role = "settle"
  <2>1. Notify(s, ThresholdAlerts(req[s].seen, month), 0)
    BY <1>6 DEF SyncDone
  <2>2. ThresholdAlerts(req[s].seen, month) \in SUBSET AlertIds
    BY <1>2, <1>3, ThresholdAlertsOK
  <2>3. 0 \in 0 .. MaxEstimate
    BY BudgetConstantsOK
  <2> QED BY <1>4, <2>1, <2>2, <2>3, NotifyTyped
<1>7. CASE req[s].role = "change"
  <2>1. Finish(s)
    BY <1>7 DEF SyncDone
  <2> QED BY <1>4, <2>1, SlotFinishes
<1> QED BY <1>2, <1>5, <1>6, <1>7

\* Every refusal queues alerts of policies it has a summary of.
LEMMA RefuseTyped ==
  ASSUME TypeInv, NEW s \in Slots,
         refuseUnpriced(s) \/ refuseExceedsHeadroom(s) \/ refuseExhausted(s)
  PROVE  TypeInv'
<1>1. UNCHANGED <<store, month, counts>>
  BY DEF refuseUnpriced, refuseExceedsHeadroom, refuseExhausted
<1>2. StoreOK' /\ UNCHANGED policy
  BY <1>1, StoreKept DEF TypeInv, store
<1>3. req[s] \in Request /\ month \in Months /\ 0 \in 0 .. MaxEstimate
  BY BudgetConstantsOK DEF TypeInv, StoreOK
<1>4. DOMAIN req[s].seen \in SUBSET Policies
  BY <1>3, SeenIs DEF Request
<1>5. CASE refuseUnpriced(s)
  <2>1. (DOMAIN req[s].seen) \X {"pricing-unavailable"} \X {0} \in SUBSET AlertIds
    BY <1>4 DEF AlertIds
  <2>2. Notify(s, (DOMAIN req[s].seen) \X {"pricing-unavailable"} \X {0}, 0)
    BY <1>5 DEF refuseUnpriced
  <2> QED BY <1>2, <1>3, <2>1, <2>2, NotifyTyped
<1>6. CASE refuseExceedsHeadroom(s)
  <2>1. PICK estimate \in 0 .. MaxEstimate :
           Notify(s, Blocked(s, estimate) \X {"preflight-block"} \X {month}, estimate)
    BY <1>6 DEF refuseExceedsHeadroom
  <2>2. Blocked(s, estimate) \X {"preflight-block"} \X {month} \in SUBSET AlertIds
    BY <1>3, <1>4 DEF Blocked, AlertIds, Kinds
  <2> QED BY <1>2, <2>1, <2>2, NotifyTyped
<1>7. CASE refuseExhausted(s)
  <2> DEFINE seen == [p \in Exhausted(s) |-> req[s].seen[p]]
  <2>1. Notify(s, ThresholdAlerts(seen, month), 0)
    BY <1>7 DEF refuseExhausted
  <2>2. DOMAIN seen \subseteq Policies
    BY <1>4 DEF Exhausted
  <2> HIDE DEF seen
  <2>3. ThresholdAlerts(seen, month) \in SUBSET AlertIds
    BY <1>3, <2>2, ThresholdAlertsOK
  <2> QED BY <1>2, <1>3, <2>1, <2>3, NotifyTyped
<1> QED BY <1>5, <1>6, <1>7

LEMMA PricingTyped ==
  ASSUME TypeInv, NEW s \in Slots, resolveBudgetPricingUnavailableAlerts(s)
  PROVE  TypeInv'
<1>1. PICK p \in req[s].todo :
         LET a == <<p, "pricing-unavailable", 0>> IN
         /\ \/ /\ alert' = IF alert[a].status = "open"
                           THEN [alert EXCEPT ![a].status = "resolved"]
                           ELSE alert
               /\ UNCHANGED dbErrors
            \/ UNCHANGED alert /\ DbError
         /\ GateGoto(s, "gate", [req[s] EXCEPT !.todo = @ \ {p}])
  BY DEF resolveBudgetPricingUnavailableAlerts
<1>2. /\ gatePc[s] = "gate"
      /\ UNCHANGED <<policy, ledger, priced, moved, month, changes, moves, straddles, overrides>>
  BY DEF resolveBudgetPricingUnavailableAlerts
<1> DEFINE r == [req[s] EXCEPT !.todo = @ \ {p}]
<1>3. req[s] \in Request /\ req[s].role = "request"
  BY <1>2 DEF TypeInv, Stage
<1>4. r \in Request /\ r.role = "request"
  BY <1>3 DEF Request
<1>5. alert' \in [AlertIds -> Alert]
  BY <1>1 DEF TypeInv, StoreOK, Alert
<1>6. dbErrors' \in 0 .. MaxDbErrors
  BY <1>1, BudgetConstantsOK DEF TypeInv, StoreOK, DbError
<1>7. StoreOK'
  BY <1>2, <1>5, <1>6 DEF TypeInv, StoreOK
<1> HIDE DEF r
<1> QED BY <1>1, <1>2, <1>4, <1>7, SlotSteps DEF GateSteps, r

LEMMA InvokeTyped ==
  ASSUME TypeInv, NEW s \in Slots, invokeProvider(s)
  PROVE  TypeInv'
<1>1. PICK estimate \in 0 .. MaxEstimate :
         GateGoto(s, "upstream", [req[s] EXCEPT !.estimate = estimate])
  BY DEF invokeProvider
<1>2. gatePc[s] = "gate" /\ UNCHANGED <<store, month, counts>>
  BY DEF invokeProvider, Priced
<1> DEFINE r == [req[s] EXCEPT !.estimate = estimate]
<1>3. req[s] \in Request /\ req[s].role = "request"
  BY <1>2 DEF TypeInv, Stage
<1>4. r \in Request /\ r.role = "request"
  BY <1>3 DEF Request
<1>5. StoreOK' /\ UNCHANGED policy
  BY <1>2, StoreKept DEF TypeInv, store
<1> HIDE DEF r
<1> QED BY <1>1, <1>4, <1>5, SlotSteps DEF GateSteps, r

\* What a request may cost is bounded by what it was admitted for.
LEMMA CostsBounded ==
  ASSUME TypeInv, NEW s \in Slots, NEW k \in Keys, NEW cost \in Costs(s, k)
  PROVE  cost \in Nat /\ cost <= req[s].estimate + Slack
<1>1. req[s].estimate \in Nat
  BY BudgetConstantsOK DEF TypeInv, Request
<1> QED BY <1>1, BudgetConstantsOK DEF Costs

LEMMA CostApplied ==
  ASSUME NEW seen \in Seen, NEW cost \in Nat
  PROVE  /\ applyUsageCostToBudget(seen, cost) \in Seen
         /\ DOMAIN applyUsageCostToBudget(seen, cost) = DOMAIN seen
<1> DEFINE new == applyUsageCostToBudget(seen, cost)
<1>1. /\ DOMAIN seen \in SUBSET Policies
      /\ \A p \in DOMAIN seen : seen[p] \in Summary
  BY SeenIs
<1>2. new \in [DOMAIN seen -> Summary]
  BY <1>1 DEF applyUsageCostToBudget, Summary
<1> HIDE DEF new
<1>3. new \in Seen /\ DOMAIN new = DOMAIN seen
  BY <1>1, <1>2, SeenOf
<1> QED BY <1>3 DEF new

LEMMA RecordTyped ==
  ASSUME TypeInv, NEW s \in Slots, recordResolvedProviderUsage(s)
  PROVE  TypeInv'
<1>0. PICK k \in req[s].keys : \E cost \in Costs(s, k) :
         /\ \/ /\ ledger' = [ledger EXCEPT ![month][k] = @ + cost]
               /\ UNCHANGED dbErrors
            \/ UNCHANGED ledger /\ DbError
         /\ Settled(s, cost)
  BY DEF recordResolvedProviderUsage
<1>1. PICK cost \in Costs(s, k) :
         /\ \/ /\ ledger' = [ledger EXCEPT ![month][k] = @ + cost]
               /\ UNCHANGED dbErrors
            \/ UNCHANGED ledger /\ DbError
         /\ Settled(s, cost)
  BY <1>0
<1>2. /\ gatePc[s] = "upstream"
      /\ UNCHANGED <<policy, alert, priced, moved, month, changes, moves, straddles, overrides>>
  BY DEF recordResolvedProviderUsage
<1>3. req[s] \in Request /\ month \in Months /\ k \in Keys /\ 0 \in 0 .. MaxEstimate
  BY <1>1, BudgetConstantsOK DEF TypeInv, StoreOK, Request
<1>4. cost \in Nat
  BY <1>3, CostsBounded
<1>5. ledger' \in [Months -> [Keys -> Nat]]
  <2>1. ledger \in [Months -> [Keys -> Nat]]
    BY DEF TypeInv, StoreOK
  <2> QED BY <1>1, <1>3, <1>4, <2>1
<1>6. dbErrors' \in 0 .. MaxDbErrors
  BY <1>1, BudgetConstantsOK DEF TypeInv, StoreOK, DbError
<1>7. StoreOK'
  BY <1>2, <1>5, <1>6 DEF TypeInv, StoreOK
<1> DEFINE seen == applyUsageCostToBudget(req[s].seen, cost)
           r == [req[s] EXCEPT !.role = "settle", !.now = month, !.estimate = 0,
                               !.todo = DOMAIN req[s].seen, !.seen = seen]
<1>8. seen \in Seen /\ DOMAIN req[s].seen \in SUBSET Policies
  BY <1>3, <1>4, CostApplied, SeenIs DEF Request
<1>9. r \in Request /\ r.role = "settle"
  <2> HIDE DEF seen
  <2> QED BY <1>3, <1>8 DEF Request, Roles
<1>10. GateGoto(s, "sync", r)
  BY <1>1 DEF Settled
<1> HIDE DEF r
<1> QED BY <1>2, <1>7, <1>9, <1>10, SlotSteps DEF GateSteps

LEMMA UpsertTyped ==
  ASSUME TypeInv, NEW s \in Slots, upsertAlert(s)
  PROVE  TypeInv'
<1>1. PICK a \in req[s].queue :
         /\ \/ /\ alert' = [alert EXCEPT ![a] =
                    [status |-> "open",
                     estimate |-> IF a[2] = "preflight-block"
                                  THEN req[s].estimate ELSE 0]]
               /\ UNCHANGED dbErrors
            \/ UNCHANGED alert /\ DbError
         /\ GateGoto(s, "alerts", [req[s] EXCEPT !.queue = @ \ {a}])
  BY DEF upsertAlert
<1>2. UNCHANGED <<policy, ledger, priced, moved, month, changes, moves, straddles, overrides>>
  BY DEF upsertAlert
<1> DEFINE r == [req[s] EXCEPT !.queue = @ \ {a}]
<1>3. req[s] \in Request /\ 0 \in 0 .. MaxEstimate
  BY BudgetConstantsOK DEF TypeInv
<1>4. r \in Request
  BY <1>3 DEF Request
<1>5. alert' \in [AlertIds -> Alert]
  <2>1. req[s].estimate \in 0 .. MaxEstimate
    BY <1>3 DEF Request
  <2> QED BY <1>1, <1>3, <2>1 DEF TypeInv, StoreOK, Alert
<1>6. dbErrors' \in 0 .. MaxDbErrors
  BY <1>1, BudgetConstantsOK DEF TypeInv, StoreOK, DbError
<1>7. StoreOK'
  BY <1>2, <1>5, <1>6 DEF TypeInv, StoreOK
<1> HIDE DEF r
<1> QED BY <1>1, <1>2, <1>4, <1>7, SlotSteps DEF GateSteps, r

LEMMA EndTyped ==
  ASSUME TypeInv, NEW s \in Slots, upstreamFailed(s) \/ replied(s) \/ Abort(s)
  PROVE  TypeInv'
<1>1. /\ Finish(s) /\ UNCHANGED <<store, month>>
      /\ \/ UNCHANGED counts
         \/ DbError /\ UNCHANGED <<changes, moves, straddles, overrides>>
  BY DEF upstreamFailed, replied, Abort
<1>2. StoreOK' /\ UNCHANGED policy
  BY <1>1, StoreKept DEF TypeInv, store
<1> QED BY <1>1, <1>2, SlotFinishes

-----------------------------------------------------------------------------
(* Types: the control API and the clock *)

LEMMA WithdrawTyped ==
  ASSUME TypeInv, StoreOK', NEW s \in Slots, NEW p \in Policies, Withdraw(s, p),
         \A q \in Policies : policy[q].status # "none" => policy'[q].status # "none"
  PROVE  TypeInv'
<1> DEFINE seen == [q \in {p} |-> [SummaryOf(p, 0) EXCEPT !.status = "deleted"]]
           r == [NoRequest EXCEPT !.role = "change", !.todo = {p}, !.now = month,
                                  !.seen = seen]
<1>1. [SummaryOf(p, 0) EXCEPT !.status = "deleted"] \in Summary
  BY DEF TypeInv, StoreOK, Policy, Summary, SummaryOf
<1>2. seen \in [{p} -> Summary]
  BY <1>1
<1>3. seen \in Seen
  <2> HIDE DEF seen
  <2> QED BY <1>2, SeenOf
<1>4. r \in Request /\ r.role = "change"
  <2> HIDE DEF seen
  <2> QED BY <1>3, NoRequestOK DEF TypeInv, StoreOK, Request, Roles
<1>5. GateGoto(s, "sync", r)
  BY DEF Withdraw
<1> HIDE DEF r
<1> QED BY <1>4, <1>5, SlotSteps DEF GateSteps

LEMMA ChangeTyped ==
  ASSUME TypeInv, CountChange
  PROVE  changes' \in 0 .. MaxChanges
BY BudgetConstantsOK DEF TypeInv, StoreOK, CountChange

LEMMA UpdatePolicyTyped ==
  ASSUME TypeInv, NEW s \in Slots, NEW p \in Policies, updateBudgetPolicy(s, p)
  PROVE  TypeInv'
<1>1. PICK status \in {"active", "paused"}, covers \in Scopes[p],
           limit \in Limits, percent \in Percents :
         /\ policy' = [policy EXCEPT ![p] =
                         [status |-> status, covers |-> covers,
                          limit |-> limit, percent |-> percent]]
         /\ IF covers = policy[p].covers
            THEN GateGoto(s, "reread", [NoRequest EXCEPT !.role = "change", !.todo = {p}])
            ELSE Withdraw(s, p)
  BY DEF updateBudgetPolicy
<1>2. CountChange /\ UNCHANGED <<ledger, alert, priced, moved, month, moves, straddles, overrides, dbErrors>>
  BY DEF updateBudgetPolicy
<1>3. covers \in SUBSET Keys
  BY BudgetConstantsOK
<1>4. /\ policy' \in [Policies -> Policy]
      /\ policy'[p].status # "none"
      /\ \A q \in Policies : policy[q].status # "none" => policy'[q].status # "none"
  BY <1>1, <1>3 DEF TypeInv, StoreOK, Policy
<1>5. StoreOK'
  BY <1>2, <1>4, ChangeTyped DEF TypeInv, StoreOK
<1>6. CASE covers = policy[p].covers
  <2> DEFINE r == [NoRequest EXCEPT !.role = "change", !.todo = {p}]
  <2>1. GateGoto(s, "reread", r)
    BY <1>1, <1>6
  <2>2. r \in Request /\ r.role = "change" /\ r.todo = {p}
    BY NoRequestOK DEF Request, Roles
  <2> HIDE DEF r
  <2>3. Stage("reread", r)'
    BY <1>4, <2>2 DEF Stage
  <2> QED BY <1>4, <1>5, <2>1, <2>2, <2>3, SlotMoves DEF GateSteps
<1>7. CASE covers # policy[p].covers
  BY <1>1, <1>4, <1>5, <1>7, WithdrawTyped
<1> QED BY <1>6, <1>7

LEMMA DeletePolicyTyped ==
  ASSUME TypeInv, NEW s \in Slots, NEW p \in Policies, deleteBudgetPolicy(s, p)
  PROVE  TypeInv'
<1>1. /\ policy' = [policy EXCEPT ![p].status = "deleted"] /\ Withdraw(s, p)
      /\ CountChange
      /\ UNCHANGED <<ledger, alert, priced, moved, month, moves, straddles, overrides, dbErrors>>
  BY DEF deleteBudgetPolicy
<1>2. /\ policy' \in [Policies -> Policy]
      /\ \A q \in Policies : policy[q].status # "none" => policy'[q].status # "none"
  BY <1>1 DEF TypeInv, StoreOK, Policy
<1>3. StoreOK'
  BY <1>1, <1>2, ChangeTyped DEF TypeInv, StoreOK
<1> QED BY <1>1, <1>2, <1>3, WithdrawTyped

LEMMA RereadTyped ==
  ASSUME TypeInv, NEW s \in Slots, getBudgetPolicySummaryById(s)
  PROVE  TypeInv'
<1> DEFINE D == req[s].todo
           seen == [p \in D |-> SummaryOf(p, 0)]
           r == [req[s] EXCEPT !.seen = seen, !.now = month]
<1>1. gatePc[s] = "reread" /\ GateGoto(s, "sum", r) /\ UNCHANGED <<store, month, counts>>
  BY DEF getBudgetPolicySummaryById
<1>2. /\ req[s] \in Request /\ month \in Months /\ req[s].role = "change"
      /\ D \in SUBSET Policies /\ \A p \in D : policy[p].status # "none"
  BY <1>1 DEF TypeInv, StoreOK, Stage, Request
<1>3. \A p \in D : SummaryOf(p, 0) \in Summary
  BY <1>2, SummaryOfOK DEF TypeInv
<1>4. seen \in Seen /\ DOMAIN seen = D
  <2>1. seen \in [D -> Summary]
    BY <1>3
  <2> HIDE DEF D, seen
  <2> QED BY <1>2, <2>1, SeenOf
<1>5. /\ r \in Request /\ r.role = "change" /\ r.seen = seen /\ r.todo = D
      /\ r.now \in Months
  <2> HIDE DEF seen
  <2> QED BY <1>2, <1>4 DEF Request
<1>6. StoreOK' /\ UNCHANGED policy
  BY <1>1, StoreKept DEF TypeInv, store
<1> HIDE DEF r, D, seen
<1> QED BY <1>1, <1>4, <1>5, <1>6, SlotSteps DEF GateSteps

\* Edits that move no slot.
LEMMA EditTyped ==
  ASSUME TypeInv,
         \/ \E p \in Policies : createBudgetPolicy(p)
         \/ \E a \in AlertIds : patchAlert(a)
         \/ configurePricing \/ updateEnvironment \/ NextMonth
  PROVE  TypeInv'
<1>1. UNCHANGED <<gatePc, req>>
  BY DEF createBudgetPolicy, patchAlert, configurePricing, updateEnvironment, NextMonth
<1>2. StoreOK' /\ \A q \in Policies : policy[q].status # "none" => policy'[q].status # "none"
  <2>1. CASE \E p \in Policies : createBudgetPolicy(p)
    <3>1. PICK p \in Policies : createBudgetPolicy(p)
      BY <2>1
    <3>2. /\ policy' = [policy EXCEPT ![p].status = "active"] /\ CountChange
          /\ UNCHANGED <<ledger, alert, priced, moved, month, moves, straddles, overrides, dbErrors>>
      BY <3>1 DEF createBudgetPolicy
    <3> QED BY <3>2, ChangeTyped DEF TypeInv, StoreOK, Policy
  <2>2. CASE \E a \in AlertIds : patchAlert(a)
    BY <2>2, BudgetConstantsOK DEF patchAlert, TypeInv, StoreOK, Alert
  <2>3. CASE configurePricing
    BY <2>3, ChangeTyped DEF configurePricing, TypeInv, StoreOK
  <2>4. CASE NextMonth
    <3>1. UNCHANGED <<store, changes, moves, overrides, dbErrors>> /\ month' \in Months
      BY <2>4, BudgetConstantsOK DEF NextMonth, TypeInv, StoreOK, Months
    <3>2. straddles' \in 0 .. MaxStraddles
      BY <2>4, BudgetConstantsOK DEF NextMonth, TypeInv, StoreOK
    <3> QED BY <3>1, <3>2 DEF TypeInv, StoreOK, store
  <2>5. CASE updateEnvironment
    <3>1. moved' \in SUBSET Keys /\ moves' \in 0 .. MaxMoves /\ moves' # 0
      BY <2>5, BudgetConstantsOK DEF updateEnvironment, TypeInv, StoreOK
    <3> QED BY <2>5, <3>1 DEF updateEnvironment, TypeInv, StoreOK
  <2> QED BY <2>1, <2>2, <2>3, <2>4, <2>5
<1>3. ASSUME NEW s \in Slots PROVE Stage(gatePc[s], req[s])'
  <2>1. req[s].todo \subseteq Policies
    BY DEF TypeInv, Request
  <2> QED BY <1>1, <1>2, <2>1 DEF TypeInv, Stage
<1> QED BY <1>1, <1>2, <1>3 DEF TypeInv

LEMMA InitTyped == BudgetInit => TypeInv
<1> SUFFICES ASSUME BudgetInit PROVE TypeInv
  OBVIOUS
<1>1. StoreOK
  BY BudgetConstantsOK DEF BudgetInit, StoreOK, Policy, Alert, Months
<1>2. gatePc \in [Slots -> GateSteps] /\ req \in [Slots -> Request]
  BY NoRequestOK DEF BudgetInit, GateSteps
<1>3. \A s \in Slots : Stage(gatePc[s], req[s])
  BY DEF BudgetInit, Stage
<1> QED BY <1>1, <1>2, <1>3 DEF TypeInv

LEMMA NextTyped == TypeInv /\ [BudgetNext]_budgetVars => TypeInv'
<1> SUFFICES ASSUME TypeInv, [BudgetNext]_budgetVars PROVE TypeInv'
  OBVIOUS
<1>1. CASE UNCHANGED budgetVars
  BY <1>1 DEF TypeInv, StoreOK, Stage, budgetVars, store, counts
<1>2. ASSUME NEW s \in Slots, Synchronise(s) PROVE TypeInv'
  BY <1>2, SumTyped, StartSyncTyped, ListAlertsTyped, UpdateAlertTyped,
     SyncErrorTyped, SyncDoneTyped DEF Synchronise
<1>3. ASSUME NEW s \in Slots, handleGatewayRequest(s) PROVE TypeInv'
  BY <1>3, RefuseTyped, PricingTyped, InvokeTyped, RecordTyped, UpsertTyped,
     EndTyped DEF handleGatewayRequest
<1> QED BY <1>1, <1>2, <1>3, EvaluateTyped, UpdatePolicyTyped, DeletePolicyTyped,
           RereadTyped, EndTyped, EditTyped DEF BudgetNext

\* Types hold at every step, with what a slot at each stage holds.
THEOREM TypesInvariant == BudgetSpec => []TypeInv
BY InitTyped, NextTyped, PTL DEF BudgetSpec

\* Every variable has the type the code gives it, for any constants.
THEOREM BudgetTypeCorrect == BudgetSpec => []BudgetTypeOK
BY TypesInvariant, TypeInvImplies, PTL

-----------------------------------------------------------------------------
(* How much can be in flight *)

\* What one request may cost at most, and what a budget may be brought to.
CostBound == MaxEstimate + Slack
Cap(p)    == policy[p].limit + Slack + (Cardinality(Slots) - 1) * CostBound

Left(r, p)    == r.seen[p].limit - r.seen[p].spend
MayCost(r, p) == Slack + (IF Left(r, p) < MaxEstimate THEN Left(r, p) ELSE MaxEstimate)

\* A request may still be admitted, or has been, on a sum it read below the
\* limit; one that has yet to read the current month is not counted.
Asking(step, r)    == r.role = "request" /\ step \in {"sum", "sync", "gate", "upstream"}
Flying(step, r, p) == /\ Asking(step, r)
                      /\ p \in DOMAIN r.seen
                      /\ r.seen[p].spend < r.seen[p].limit
                      /\ ~(step = "sum" /\ p \in r.todo /\ r.now = month)
InFlight(p) == {s \in Slots : Flying(gatePc[s], req[s], p)}

\* What a request holds is what the policies say, and it is upstream only
\* with an estimate that fits what it read.
Faithful(step, r) ==
    Asking(step, r) =>
       /\ \E k \in Keys : r.keys = {k} /\ DOMAIN r.seen = Applies(k)
       /\ \A p \in DOMAIN r.seen : /\ r.seen[p].covers = policy[p].covers
                                   /\ r.seen[p].limit = policy[p].limit
       /\ step = "sum" => /\ r.now <= month
                          /\ \A p \in r.todo : r.seen[p].spend = 0
       /\ step = "upstream" =>
             \A p \in DOMAIN r.seen :
                /\ r.seen[p].spend < r.seen[p].limit
                /\ r.seen[p].spend + r.estimate <= r.seen[p].limit

\* The sum, with what one request in flight may add knowing what it read and
\* the others may add not knowing of each other, is within the cap.
Covered(p) ==
    /\ \A m \in Months : m <= month => Spend(policy[p].covers, m) <= Cap(p)
    /\ InFlight(p) # {} =>
          \E s \in InFlight(p) :
             Spend(policy[p].covers, month) + MayCost(req[s], p)
                + (Cardinality(InFlight(p)) - 1) * CostBound <= Cap(p)

\* Nothing is booked to a month that has not begun.
Ahead == \A m \in Months : m > month => \A k \in Keys : ledger[m][k] = 0

\* The policy is in force, and is summed over what it covers.
Watched(p) == policy[p].status = "active" /\ Steady(p)

BudgetInv ==
    /\ TypeInv
    /\ Ahead
    /\ changes = 0 =>
          /\ \A s \in Slots : Faithful(gatePc[s], req[s])
          /\ \A p \in Policies : Watched(p) => Covered(p)

-----------------------------------------------------------------------------
(* Arithmetic of what is in flight *)

LEMMA Times ==
  ASSUME NEW c \in Nat, NEW m \in Int, NEW n \in Int, m <= n
  PROVE  /\ m * c \in Int /\ n * c \in Int /\ m * c <= n * c
         /\ (n + 1) * c = n * c + c /\ (n - 1) * c = n * c - c
<1>1. /\ (n - m) * c >= 0 /\ n * c = m * c + (n - m) * c
      /\ m * c \in Int /\ n * c \in Int /\ (n - m) * c \in Int
  OBVIOUS
<1>2. (n + 1) * c = n * c + c /\ (n - 1) * c = n * c - c
  OBVIOUS
<1>3. m * c <= n * c
  BY <1>1
<1> QED BY <1>1, <1>2, <1>3

\* One of those in flight accounts for its cost, the others for c each.
Held(F, may, sum, c, cap) ==
    \E s \in F : sum + may[s] + (Cardinality(F) - 1) * c <= cap

LEMMA Shrinks ==
  ASSUME NEW F, IsFiniteSet(F), NEW G \in SUBSET F, G # {},
         NEW sum \in Nat, NEW cap \in Nat, NEW c \in Nat,
         NEW old \in [F -> 0 .. c], NEW new \in [G -> 0 .. c],
         \A s \in G : new[s] <= old[s],
         Held(F, old, sum, c, cap)
  PROVE  Held(G, new, sum, c, cap)
<1>1. PICK w \in F : sum + old[w] + (Cardinality(F) - 1) * c <= cap
  BY DEF Held
<1>2. /\ IsFiniteSet(G) /\ Cardinality(F) \in Nat /\ Cardinality(G) \in Nat
      /\ Cardinality(G) <= Cardinality(F)
  BY FS_Subset, FS_CardinalityType
<1> DEFINE f == Cardinality(F)
           g == Cardinality(G)
<1> HIDE DEF f, g
<1>3. f \in Nat /\ g \in Nat /\ g <= f /\ sum + old[w] + (f - 1) * c <= cap
  BY <1>1, <1>2 DEF f, g
<1>4. /\ (g - 1) * c \in Int /\ (f - 1) * c \in Int /\ (g - 1) * c <= (f - 1) * c
  <2>1. g - 1 \in Int /\ f - 1 \in Int /\ g - 1 <= f - 1
    BY <1>3
  <2> QED BY <2>1, Times
<1>5. CASE w \in G
  <2>1. sum + new[w] + (g - 1) * c <= cap
    BY <1>3, <1>4, <1>5
  <2> QED BY <1>5, <2>1 DEF g, Held
<1>6. CASE w \notin G
  <2>1. PICK s \in G : TRUE
    OBVIOUS
  <2>2. /\ IsFiniteSet(F \ {w}) /\ Cardinality(F \ {w}) = f - 1
    BY FS_RemoveElement DEF f
  <2>3. g <= f - 1
    BY <1>6, <2>2, FS_Subset DEF g
  <2>4. (g - 1) * c <= (f - 1) * c - c
    <3>1. g - 1 \in Int /\ f - 2 \in Int /\ g - 1 <= f - 2
      BY <1>3, <2>3
    <3>2. (g - 1) * c <= (f - 2) * c
      BY <3>1, Times
    <3>3. (f - 2) * c = (f - 1) * c - c
      <4>1. f - 1 \in Int /\ (f - 1) - 1 = f - 2
        BY <1>3
      <4> QED BY <4>1, Times
    <3> QED BY <3>2, <3>3
  <2>5. old[w] >= 0 /\ new[s] <= c /\ new[s] \in Nat /\ old[w] \in Nat
    OBVIOUS
  <2>6. sum + new[s] + (g - 1) * c <= cap
    BY <1>3, <1>4, <2>4, <2>5
  <2> QED BY <2>6 DEF g, Held
<1> QED BY <1>5, <1>6

\* The cost of a request moves from what is in flight to the sum.
LEMMA Books ==
  ASSUME NEW F, IsFiniteSet(F), NEW u \in F,
         NEW sum \in Nat, NEW cap \in Nat, NEW c \in Nat,
         NEW may \in [F -> 0 .. c], NEW cost \in Nat, cost <= may[u],
         Held(F, may, sum, c, cap)
  PROVE  /\ sum + cost <= cap
         /\ F \ {u} # {} => Held(F \ {u}, may, sum + cost, c, cap)
<1> DEFINE f == Cardinality(F)
<1>1. PICK w \in F : sum + may[w] + (f - 1) * c <= cap
  BY DEF Held
<1>2. /\ IsFiniteSet(F \ {u}) /\ Cardinality(F \ {u}) = f - 1 /\ f \in Nat
      /\ Cardinality(F \ {u}) \in Nat
  BY FS_RemoveElement, FS_CardinalityType
<1> HIDE DEF f
<1>3. /\ f - 1 \in Nat /\ (f - 1) * c \in Int /\ 0 <= (f - 1) * c
      /\ (f - 2) * c = (f - 1) * c - c
  <2>1. f - 1 \in Nat /\ 0 \in Int /\ f - 1 \in Int /\ 0 <= f - 1 /\ (f - 1) - 1 = f - 2
    BY <1>2
  <2>2. (f - 1) * c \in Int /\ 0 * c = 0
    BY <2>1
  <2>3. 0 * c <= (f - 1) * c
    BY <2>1, Times
  <2>4. ((f - 1) - 1) * c = (f - 1) * c - c
    BY <2>1, Times
  <2>5. (f - 2) * c = (f - 1) * c - c
    BY <2>1, <2>4
  <2> QED BY <2>1, <2>2, <2>3, <2>5
<1>4. may[u] \in 0 .. c /\ may[w] \in 0 .. c
  OBVIOUS
<1>5. CASE w = u
  <2>1. sum + cost <= cap
    BY <1>1, <1>3, <1>4, <1>5
  <2>2. ASSUME NEW s \in F \ {u}
        PROVE  sum + cost + may[s] + (f - 2) * c <= cap
    <3>1. may[s] \in 0 .. c
      OBVIOUS
    <3> QED BY <1>1, <1>3, <1>4, <1>5, <3>1
  <2>3. (f - 1) - 1 = f - 2
    BY <1>3, <1>2
  <2> QED BY <1>2, <2>1, <2>2, <2>3 DEF Held
<1>6. CASE w # u
  <2>1. Cardinality(F \ {u}) # 0
    <3> DEFINE rest == F \ {u}
    <3>1. rest # {} /\ IsFiniteSet(rest)
      BY <1>2, <1>6
    <3> HIDE DEF rest
    <3>2. Cardinality(rest) # 0
      BY <3>1, FS_EmptySet
    <3> QED BY <3>2 DEF rest
  <2>2. f >= 2
    BY <1>2, <2>1
  <2>3. 0 <= (f - 2) * c
    <3>1. f - 2 \in Nat
      BY <1>2, <2>2
    <3>2. 0 * c = 0 /\ 0 \in Int /\ f - 2 \in Int /\ 0 <= f - 2
      BY <3>1
    <3> QED BY <3>2, Times
  <2>4. sum + cost + may[w] + (f - 2) * c <= cap
    BY <1>1, <1>3, <1>4
  <2>5. sum + cost <= cap
    <3> DEFINE x == (f - 2) * c
    <3>1. x \in Int /\ 0 <= x /\ sum + cost + may[w] + x <= cap
      BY <1>3, <2>3, <2>4
    <3> HIDE DEF x
    <3> QED BY <1>4, <3>1
  <2>6. (f - 1) - 1 = f - 2
    BY <1>3, <1>2
  <2> QED BY <1>2, <1>6, <2>4, <2>5, <2>6 DEF Held
<1> QED BY <1>5, <1>6

-----------------------------------------------------------------------------
(* The budgets stay covered: one lemma per way a step moves them *)

LEMMA BoundsNat ==
  MaxEstimate \in Nat /\ Slack \in Nat /\ CostBound \in Nat /\ Limits \subseteq Nat
<1>1. Limits \subseteq Nat
  BY BudgetConstantsOK
<1>2. MaxEstimate \in Nat /\ Slack \in Nat
  BY BudgetConstantsOK
<1> QED BY <1>1, <1>2 DEF CostBound

LEMMA CapNat ==
  ASSUME TypeInv, NEW p \in Policies
  PROVE  /\ Cap(p) \in Nat /\ CostBound \in Nat /\ policy[p].limit \in Nat
         /\ Cardinality(Slots) - 1 \in Nat
         /\ policy[p].limit + Slack <= Cap(p)
<1>1. Cardinality(Slots) \in Nat /\ Cardinality(Slots) # 0
  BY BudgetConstantsOK, FS_CardinalityType, FS_EmptySet
<1>2. policy[p].limit \in Nat /\ CostBound \in Nat /\ Slack \in Nat
  <2>1. policy[p].limit \in Limits
    BY DEF TypeInv, StoreOK, Policy
  <2> QED BY <2>1, BoundsNat
<1> DEFINE n == Cardinality(Slots) - 1
<1>3. n \in Nat
  BY <1>1
<1> HIDE DEF n
<1>4. n * CostBound \in Nat
  BY <1>2, <1>3
<1> QED BY <1>2, <1>3, <1>4 DEF Cap, n

\* What a request in flight may cost.
LEMMA MayCostNat ==
  ASSUME NEW r \in Request, NEW p \in DOMAIN r.seen,
         r.seen[p].spend < r.seen[p].limit
  PROVE  /\ MayCost(r, p) \in 0 .. CostBound
         /\ r.seen[p].spend \in Nat /\ r.seen[p].limit \in Nat
         /\ r.seen[p].spend + MayCost(r, p) <= r.seen[p].limit + Slack
<1>1. r.seen[p] \in Summary
  BY SeenIs DEF Request
<1>2. r.seen[p].spend \in Nat /\ r.seen[p].limit \in Nat
  BY <1>1, BudgetConstantsOK DEF Summary
<1> QED BY <1>2, BudgetConstantsOK DEF MayCost, Left, CostBound

LEMMA InFlightFinite ==
  ASSUME NEW F \in SUBSET Slots
  PROVE  /\ IsFiniteSet(F) /\ Cardinality(F) \in Nat
         /\ Cardinality(F) <= Cardinality(Slots)
BY BudgetConstantsOK, FS_Subset, FS_CardinalityType

LEMMA SpendsNat ==
  ASSUME TypeInv, NEW p \in Policies, NEW m \in Months
  PROVE  Spend(policy[p].covers, m) \in Nat
<1>1. policy[p].covers \in SUBSET Keys
  BY DEF TypeInv, StoreOK, Policy
<1> QED BY <1>1, SpendNat DEF TypeInv

\* No request takes flight, and none has more to spend than before.
LEMMA CoveredShrinks ==
  ASSUME TypeInv, TypeInv', NEW p \in Policies, Covered(p),
         UNCHANGED <<policy, month>>,
         \A m \in Months : Spend(policy[p].covers, m)' = Spend(policy[p].covers, m),
         Spend(policy[p].covers, month)' = Spend(policy[p].covers, month),
         \A s \in Slots : Flying(gatePc[s], req[s], p)' =>
            /\ Flying(gatePc[s], req[s], p)
            /\ req[s].seen[p].spend <= req'[s].seen[p].spend
            /\ req'[s].seen[p].limit = req[s].seen[p].limit
  PROVE  Covered(p)'
<1> DEFINE F   == InFlight(p)
           G   == InFlight(p)'
           sum == Spend(policy[p].covers, month)
           old == [s \in F |-> MayCost(req[s], p)]
           new == [s \in G |-> MayCost(req'[s], p)]
<1>1. /\ Cap(p)' = Cap(p) /\ month \in Months
      /\ \A m \in Months : Spend(policy[p].covers, m)' = Spend(policy[p].covers, m)
  BY DEF Cap, TypeInv, StoreOK
<1>2. SUFFICES ASSUME G # {}
               PROVE  Held(G, new, sum, CostBound, Cap(p))
  <2>1. /\ \A m \in Months : m <= month' => Spend(policy[p].covers, m)' <= Cap(p)'
        /\ Spend(policy[p].covers, month)' = sum
    BY <1>1 DEF Covered
  <2>2. ASSUME G # {}
        PROVE  \E s \in G : Spend(policy[p].covers, month)' + MayCost(req'[s], p)
                               + (Cardinality(G) - 1) * CostBound <= Cap(p)'
    <3>1. PICK s \in G : sum + new[s] + (Cardinality(G) - 1) * CostBound <= Cap(p)
      BY <2>2, <1>2 DEF Held
    <3> QED BY <1>1, <2>1, <3>1
  <2> QED BY <2>1, <2>2 DEF Covered
<1>3. F \in SUBSET Slots /\ G \in SUBSET F /\ IsFiniteSet(F)
  <2>1. F \in SUBSET Slots /\ G \in SUBSET F
    BY DEF InFlight
  <2> QED BY <2>1, InFlightFinite
<1>4. /\ sum \in Nat /\ Cap(p) \in Nat /\ CostBound \in Nat
  BY CapNat, SpendsNat DEF TypeInv, StoreOK
<1>5. ASSUME NEW s \in F PROVE MayCost(req[s], p) \in 0 .. CostBound
  BY <1>5, MayCostNat DEF InFlight, Flying, TypeInv
<1>6. ASSUME NEW s \in G
      PROVE  /\ MayCost(req'[s], p) \in 0 .. CostBound
             /\ MayCost(req'[s], p) <= MayCost(req[s], p)
  <2>1. /\ s \in Slots /\ req'[s] \in Request /\ req[s] \in Request
    BY DEF InFlight, TypeInv
  <2>2. /\ p \in DOMAIN req'[s].seen /\ req'[s].seen[p].spend < req'[s].seen[p].limit
        /\ p \in DOMAIN req[s].seen /\ req[s].seen[p].spend < req[s].seen[p].limit
        /\ req[s].seen[p].spend <= req'[s].seen[p].spend
        /\ req'[s].seen[p].limit = req[s].seen[p].limit
    BY <2>1 DEF InFlight, Flying
  <2>3. /\ req[s].seen[p].spend \in Nat /\ req[s].seen[p].limit \in Nat
        /\ req'[s].seen[p].spend \in Nat /\ MayCost(req'[s], p) \in 0 .. CostBound
    BY <2>1, <2>2, MayCostNat
  <2> QED BY <2>2, <2>3, BudgetConstantsOK DEF MayCost, Left
<1>7. /\ old \in [F -> 0 .. CostBound] /\ new \in [G -> 0 .. CostBound]
      /\ \A s \in G : new[s] <= old[s]
  <2> HIDE DEF F, G
  <2> QED BY <1>3, <1>5, <1>6
<1>8. Held(F, old, sum, CostBound, Cap(p))
  BY <1>2, <1>3 DEF Covered, Held
<1> HIDE DEF F, G, sum, old, new
<1> QED BY <1>2, <1>3, <1>4, <1>7, <1>8, Shrinks

\* A request that read the sum as it is now covers all the others.
LEMMA CoveredAnew ==
  ASSUME TypeInv', NEW p \in Policies, NEW sum \in Nat, NEW cap \in Nat, NEW limit \in Nat,
         sum = Spend(policy[p].covers, month)', cap = Cap(p)', limit = policy'[p].limit,
         \A m \in Months : m <= month' => Spend(policy[p].covers, m)' <= cap,
         InFlight(p)' # {} =>
            \E s \in InFlight(p)' : sum + MayCost(req'[s], p) <= limit + Slack
  PROVE  Covered(p)'
<1> DEFINE F == InFlight(p)'
<1>1. SUFFICES ASSUME F # {}
               PROVE  \E s \in F : sum + MayCost(req'[s], p)
                                     + (Cardinality(F) - 1) * CostBound <= cap
  BY DEF Covered
<1>2. PICK s \in F : sum + MayCost(req'[s], p) <= limit + Slack
  BY <1>1
<1>3. MayCost(req'[s], p) \in Nat
  <2>1. s \in Slots /\ req'[s] \in Request /\ p \in DOMAIN req'[s].seen
        /\ req'[s].seen[p].spend < req'[s].seen[p].limit
    BY DEF InFlight, Flying, TypeInv
  <2>2. MayCost(req'[s], p) \in 0 .. CostBound
    BY <2>1, MayCostNat
  <2> QED BY <2>2, BudgetConstantsOK DEF CostBound
<1>4. Cardinality(F) \in Nat /\ Cardinality(F) <= Cardinality(Slots)
  <2>1. F \in SUBSET Slots
    BY DEF InFlight
  <2> HIDE DEF F
  <2> QED BY <2>1, InFlightFinite
<1>5. Cardinality(Slots) \in Nat /\ CostBound \in Nat /\ Slack \in Nat
  BY BudgetConstantsOK, FS_CardinalityType DEF CostBound
<1> DEFINE f == Cardinality(F) - 1
           n == Cardinality(Slots) - 1
<1>6. f \in Int /\ n \in Int /\ f <= n
  BY <1>4, <1>5
<1>7. cap = limit + Slack + n * CostBound
  BY DEF Cap
<1> HIDE DEF f, n
<1>8. f * CostBound \in Int /\ n * CostBound \in Int /\ f * CostBound <= n * CostBound
  BY <1>5, <1>6, Times
<1>9. sum + MayCost(req'[s], p) + f * CostBound <= cap
  BY <1>2, <1>3, <1>5, <1>7, <1>8
<1> QED BY <1>9 DEF f

\* What a request in flight was to cost is booked.
LEMMA CoveredBooks ==
  ASSUME TypeInv, TypeInv', NEW p \in Policies, Covered(p),
         UNCHANGED <<policy, month>>,
         NEW u \in InFlight(p), NEW cost \in Nat, cost <= MayCost(req[u], p),
         InFlight(p)' = InFlight(p) \ {u},
         \A s \in InFlight(p) \ {u} : req'[s] = req[s],
         Spend(policy[p].covers, month)' = Spend(policy[p].covers, month) + cost,
         \A m \in Months : m < month =>
            Spend(policy[p].covers, m)' = Spend(policy[p].covers, m)
  PROVE  Covered(p)'
<1> DEFINE F   == InFlight(p)
           sum == Spend(policy[p].covers, month)
           may == [s \in F |-> MayCost(req[s], p)]
<1>1. Cap(p)' = Cap(p)
  BY DEF Cap
<1>2. F \in SUBSET Slots /\ IsFiniteSet(F)
  <2>1. F \in SUBSET Slots
    BY DEF InFlight
  <2> QED BY <2>1, InFlightFinite
<1>3. /\ sum \in Nat /\ Cap(p) \in Nat /\ CostBound \in Nat /\ month \in Nat
  BY CapNat, SpendsNat DEF TypeInv, StoreOK, Months
<1>4. ASSUME NEW s \in F PROVE MayCost(req[s], p) \in 0 .. CostBound
  BY <1>4, MayCostNat DEF InFlight, Flying, TypeInv
<1>5. may \in [F -> 0 .. CostBound] /\ cost <= may[u]
  <2> HIDE DEF F
  <2>1. u \in F
    BY DEF F
  <2> QED BY <1>4, <2>1
<1>6. Held(F, may, sum, CostBound, Cap(p))
  BY DEF Covered, Held
<1>7. /\ sum + cost <= Cap(p)
      /\ F \ {u} # {} => Held(F \ {u}, may, sum + cost, CostBound, Cap(p))
  <2>1. u \in F
    OBVIOUS
  <2> HIDE DEF F, sum, may
  <2> QED BY <1>2, <1>3, <1>5, <1>6, <2>1, Books
<1>8. ASSUME NEW m \in Months, m <= month'
      PROVE  Spend(policy[p].covers, m)' <= Cap(p)'
  <2>1. CASE m = month
    <3>1. Spend(policy[p].covers, m)' = sum + cost
      BY <2>1 DEF Spend
    <3> QED BY <1>1, <1>7, <3>1
  <2>2. CASE m # month
    <3>1. m < month /\ m <= month
      BY <1>3, <1>8, <2>2 DEF Months
    <3>2. Spend(policy[p].covers, m) <= Cap(p)
      BY <3>1 DEF Covered
    <3> QED BY <1>1, <3>1, <3>2
  <2> QED BY <2>1, <2>2
<1>9. ASSUME InFlight(p)' # {}
      PROVE  \E s \in InFlight(p)' :
                Spend(policy[p].covers, month)' + MayCost(req'[s], p)
                   + (Cardinality(InFlight(p)') - 1) * CostBound <= Cap(p)'
  <2>1. PICK s \in F \ {u} :
           sum + cost + may[s] + (Cardinality(F \ {u}) - 1) * CostBound <= Cap(p)
    BY <1>7, <1>9 DEF Held
  <2>2. may[s] = MayCost(req'[s], p)
    BY <2>1
  <2> QED BY <1>1, <2>1, <2>2
<1> QED BY <1>8, <1>9 DEF Covered

-----------------------------------------------------------------------------
(* Each step keeps the budgets covered *)

LEMMA AheadKept ==
  ASSUME Ahead, UNCHANGED <<ledger, month>>
  PROVE  Ahead'
BY DEF Ahead

\* The slot that steps holds what the policies say; the others are as before.
LEMMA FaithfulKept ==
  ASSUME TypeInv, NEW s \in Slots, NEW step, NEW r, GateGoto(s, step, r),
         UNCHANGED <<policy, month>>,
         \A t \in Slots : Faithful(gatePc[t], req[t]), Faithful(step, r)
  PROVE  \A t \in Slots : Faithful(gatePc[t], req[t])'
<1>1. ASSUME NEW t \in Slots
      PROVE  \/ gatePc'[t] = gatePc[t] /\ req'[t] = req[t]
             \/ gatePc'[t] = step /\ req'[t] = r
  BY DEF GateGoto, TypeInv
<1>2. ASSUME NEW t \in Slots PROVE Faithful(gatePc'[t], req'[t])
  BY <1>1
<1>3. ASSUME NEW t \in Slots PROVE Faithful(gatePc[t], req[t])'
  BY <1>2 DEF Faithful, Asking, Applies
<1> QED BY <1>3

\* A step of one slot that reads and books nothing.
LEMMA SlotKept ==
  ASSUME BudgetInv, TypeInv', NEW s \in Slots, NEW step, NEW r, GateGoto(s, step, r),
         UNCHANGED <<policy, ledger, month, changes, moves>>,
         changes = 0 =>
            /\ Faithful(step, r)
            /\ \A p \in Policies : Flying(step, r, p) =>
                  /\ Flying(gatePc[s], req[s], p)
                  /\ r.seen[p] = req[s].seen[p]
  PROVE  BudgetInv'
<1>1. SUFFICES ASSUME changes = 0
               PROVE  /\ \A t \in Slots : Faithful(gatePc[t], req[t])'
                      /\ \A p \in Policies : Watched(p) => Covered(p)'
  BY AheadKept DEF BudgetInv, Watched, Steady
<1>2. \A t \in Slots : Faithful(gatePc[t], req[t])'
  BY <1>1, FaithfulKept DEF BudgetInv
<1>3. ASSUME NEW p \in Policies, Watched(p) PROVE Covered(p)'
  <2>1. ASSUME NEW t \in Slots, Flying(gatePc[t], req[t], p)'
        PROVE  Flying(gatePc[t], req[t], p) /\ req'[t].seen[p] = req[t].seen[p]
    <3>1. Flying(gatePc'[t], req'[t], p)
      BY <2>1 DEF Flying, Asking
    <3>2. \/ gatePc'[t] = gatePc[t] /\ req'[t] = req[t]
          \/ t = s /\ gatePc'[t] = step /\ req'[t] = r
      BY DEF GateGoto, BudgetInv, TypeInv
    <3>3. CASE t = s /\ gatePc'[t] = step /\ req'[t] = r
      BY <1>1, <3>1, <3>3
    <3>4. CASE gatePc'[t] = gatePc[t] /\ req'[t] = req[t]
      BY <3>1, <3>4
    <3> QED BY <3>2, <3>3, <3>4
  <2>2. ASSUME NEW t \in Slots, Flying(gatePc[t], req[t], p)
        PROVE  req[t].seen[p].spend <= req[t].seen[p].spend
    <3>1. req[t].seen[p].spend \in Nat
      BY <2>2, MayCostNat DEF Flying, BudgetInv, TypeInv
    <3> QED BY <3>1
  <2>3. ASSUME NEW m \in Months
        PROVE  Spend(policy[p].covers, m)' = Spend(policy[p].covers, m)
    BY DEF Spend
  <2>4. Spend(policy[p].covers, month)' = Spend(policy[p].covers, month)
    BY DEF Spend
  <2> QED BY <1>1, <1>3, <2>1, <2>2, <2>3, <2>4, CoveredShrinks DEF BudgetInv
<1> QED BY <1>2, <1>3

\* A slot that is no longer asking is out of the way.
LEMMA SlotLands ==
  ASSUME BudgetInv, TypeInv', NEW s \in Slots, NEW step, NEW r, GateGoto(s, step, r),
         UNCHANGED <<policy, ledger, month, changes, moves>>, ~Asking(step, r)
  PROVE  BudgetInv'
BY SlotKept DEF Faithful, Flying

\* What a request holds when it is admitted.
Admissible(r) == \A p \in DOMAIN r.seen :
                    /\ r.seen[p].spend < r.seen[p].limit
                    /\ r.seen[p].spend + r.estimate <= r.seen[p].limit

\* A request that goes on with the summaries it has.
LEMMA SlotProceeds ==
  ASSUME BudgetInv, TypeInv', NEW s \in Slots, NEW step, NEW r, GateGoto(s, step, r),
         UNCHANGED <<policy, ledger, month, changes, moves>>,
         r.role = req[s].role, r.keys = req[s].keys, r.seen = req[s].seen,
         gatePc[s] \in {"sum", "sync", "gate"}, gatePc[s] = "sum" => req[s].todo = {},
         step \in {"sync", "gate", "upstream"},
         step = "upstream" => Admissible(r)
  PROVE  BudgetInv'
<1>1. CASE r.role # "request"
  BY <1>1, SlotLands DEF Asking
<1>2. CASE r.role = "request"
  <2>1. Asking(gatePc[s], req[s])
    BY <1>2 DEF Asking
  <2>2. changes = 0 => Faithful(step, r)
    BY <2>1 DEF Faithful, BudgetInv, Admissible
  <2>3. \A p \in Policies : Flying(step, r, p) => Flying(gatePc[s], req[s], p)
    BY <2>1 DEF Flying
  <2> QED BY <2>2, <2>3, SlotKept
<1> QED BY <1>1, <1>2

LEMMA EvaluateCovered ==
  ASSUME BudgetInv, TypeInv', NEW s \in Slots, NEW k \in Keys,
         evaluateApplicableBudgetPolicies(s, k)
  PROVE  BudgetInv'
<1> DEFINE seen == [p \in Applies(k) |-> SummaryOf(p, 0)]
           r    == [NoRequest EXCEPT !.role = "request", !.keys = {k},
                                     !.priced = priced, !.now = month,
                                     !.todo = Applies(k), !.seen = seen]
<1>1. GateGoto(s, "sum", r) /\ UNCHANGED <<policy, ledger, month, changes, moves>>
  BY DEF evaluateApplicableBudgetPolicies, store, counts
<1>2. /\ r.role = "request" /\ r.keys = {k} /\ r.now = month
      /\ r.todo = Applies(k) /\ r.seen = seen
  BY DEF NoRequest
<1>3. /\ DOMAIN seen = Applies(k)
      /\ \A p \in DOMAIN seen : /\ seen[p].covers = policy[p].covers
                                /\ seen[p].limit = policy[p].limit
                                /\ seen[p].spend = 0
  BY DEF SummaryOf
<1>4. month <= month
  BY DEF BudgetInv, TypeInv, StoreOK, Months
<1> HIDE DEF r, seen
<1>5. Faithful("sum", r)
  BY <1>2, <1>3, <1>4 DEF Faithful
<1>6. \A p \in Policies : ~Flying("sum", r, p)
  BY <1>2, <1>3 DEF Flying
<1> QED BY <1>1, <1>5, <1>6, SlotKept

LEMMA SyncCovered ==
  ASSUME BudgetInv, TypeInv', NEW s \in Slots,
         \/ syncBudgetPolicyAlertsSafely(s) \/ listAlerts(s) \/ updateAlert(s)
         \/ syncError(s) \/ SyncDone(s)
  PROVE  BudgetInv'
<1>1. req[s] \in Request
  BY DEF BudgetInv, TypeInv
<1>2. CASE syncBudgetPolicyAlertsSafely(s)
  <2> DEFINE r == [req[s] EXCEPT !.now = month, !.todo = DOMAIN req[s].seen]
  <2>1. /\ gatePc[s] = "sum" /\ req[s].todo = {} /\ GateGoto(s, "sync", r)
        /\ UNCHANGED <<policy, ledger, month, changes, moves>>
    BY <1>2 DEF syncBudgetPolicyAlertsSafely, store, counts
  <2>2. r.role = req[s].role /\ r.keys = req[s].keys /\ r.seen = req[s].seen
    BY <1>1 DEF Request
  <2> HIDE DEF r
  <2> QED BY <2>1, <2>2, SlotProceeds
<1>3. ASSUME NEW r, GateGoto(s, "sync", r), gatePc[s] = "sync",
             UNCHANGED <<policy, ledger, month, changes, moves>>,
             r.role = req[s].role, r.keys = req[s].keys, r.seen = req[s].seen
      PROVE  BudgetInv'
  BY <1>3, SlotProceeds
<1>4. CASE listAlerts(s)
  <2>1. PICK p \in req[s].todo, listed \in SUBSET AlertIds :
           GateGoto(s, "sync", [req[s] EXCEPT !.todo = @ \ {p}, !.closing = @ \cup listed])
    BY <1>4 DEF listAlerts
  <2> DEFINE r == [req[s] EXCEPT !.todo = @ \ {p}, !.closing = @ \cup listed]
  <2>2. gatePc[s] = "sync" /\ UNCHANGED <<policy, ledger, month, changes, moves>>
    BY <1>4 DEF listAlerts, store, counts
  <2>3. r.role = req[s].role /\ r.keys = req[s].keys /\ r.seen = req[s].seen
    BY <1>1 DEF Request
  <2>4. GateGoto(s, "sync", r)
    BY <2>1
  <2> HIDE DEF r
  <2> QED BY <1>3, <2>2, <2>3, <2>4
<1>5. CASE updateAlert(s)
  <2>1. PICK a \in req[s].closing : GateGoto(s, "sync", [req[s] EXCEPT !.closing = @ \ {a}])
    BY <1>5 DEF updateAlert
  <2> DEFINE r == [req[s] EXCEPT !.closing = @ \ {a}]
  <2>2. gatePc[s] = "sync" /\ UNCHANGED <<policy, ledger, month, changes, moves>>
    BY <1>5 DEF updateAlert, counts
  <2>3. r.role = req[s].role /\ r.keys = req[s].keys /\ r.seen = req[s].seen
    BY <1>1 DEF Request
  <2>4. GateGoto(s, "sync", r)
    BY <2>1
  <2> HIDE DEF r
  <2> QED BY <1>3, <2>2, <2>3, <2>4
<1>6. CASE syncError(s)
  <2>1. PICK p \in req[s].todo \cup {a[1] : a \in req[s].closing} :
           GateGoto(s, "sync", [req[s] EXCEPT !.todo = @ \ {p},
                                          !.closing = {a \in @ : a[1] # p}])
    BY <1>6 DEF syncError
  <2> DEFINE r == [req[s] EXCEPT !.todo = @ \ {p}, !.closing = {a \in @ : a[1] # p}]
  <2>2. gatePc[s] = "sync" /\ UNCHANGED <<policy, ledger, month, changes, moves>>
    BY <1>6 DEF syncError, store
  <2>3. r.role = req[s].role /\ r.keys = req[s].keys /\ r.seen = req[s].seen
    BY <1>1 DEF Request
  <2>4. GateGoto(s, "sync", r)
    BY <2>1
  <2> HIDE DEF r
  <2> QED BY <1>3, <2>2, <2>3, <2>4
<1>7. CASE SyncDone(s)
  <2>1. gatePc[s] = "sync" /\ UNCHANGED <<policy, ledger, month, changes, moves>>
    BY <1>7 DEF SyncDone, store, counts
  <2>2. req[s].role \in {"request", "settle", "change"}
    BY <1>1, <2>1 DEF BudgetInv, TypeInv, Stage, Request, Roles
  <2>3. CASE req[s].role = "request"
    <3> DEFINE r == [req[s] EXCEPT !.todo = DOMAIN req[s].seen]
    <3>1. GateGoto(s, "gate", r)
      BY <1>7, <2>3 DEF SyncDone
    <3>2. r.role = req[s].role /\ r.keys = req[s].keys /\ r.seen = req[s].seen
      BY <1>1 DEF Request
    <3> HIDE DEF r
    <3> QED BY <2>1, <3>1, <3>2, SlotProceeds
  <2>4. CASE req[s].role = "settle"
    <3>1. PICK r : GateGoto(s, "alerts", r)
      BY <1>7, <2>4 DEF SyncDone, Notify
    <3> QED BY <2>1, <3>1, SlotLands DEF Asking
  <2>5. CASE req[s].role = "change"
    <3>1. GateGoto(s, "idle", NoRequest)
      BY <1>7, <2>5 DEF SyncDone, Finish
    <3> QED BY <2>1, <3>1, SlotLands DEF Asking
  <2> QED BY <2>2, <2>3, <2>4, <2>5
<1> QED BY <1>2, <1>4, <1>5, <1>6, <1>7

LEMMA GateCovered ==
  ASSUME BudgetInv, TypeInv', NEW s \in Slots,
         \/ refuseUnpriced(s) \/ refuseExceedsHeadroom(s) \/ refuseExhausted(s)
         \/ upsertAlert(s) \/ upstreamFailed(s) \/ replied(s) \/ Abort(s)
         \/ resolveBudgetPricingUnavailableAlerts(s) \/ invokeProvider(s)
  PROVE  BudgetInv'
<1>1. req[s] \in Request
  BY DEF BudgetInv, TypeInv
<1>2. CASE \/ refuseUnpriced(s) \/ refuseExceedsHeadroom(s) \/ refuseExhausted(s)
           \/ upsertAlert(s)
  <2>1. \E r : GateGoto(s, "alerts", r)
    BY <1>2 DEF refuseUnpriced, refuseExceedsHeadroom, refuseExhausted, upsertAlert, Notify
  <2>2. UNCHANGED <<policy, ledger, month, changes, moves>>
    BY <1>2 DEF refuseUnpriced, refuseExceedsHeadroom, refuseExhausted, upsertAlert,
                store, counts
  <2> QED BY <2>1, <2>2, SlotLands DEF Asking
<1>3. CASE upstreamFailed(s) \/ replied(s) \/ Abort(s)
  <2>1. GateGoto(s, "idle", NoRequest) /\ UNCHANGED <<policy, ledger, month, changes, moves>>
    BY <1>3 DEF upstreamFailed, replied, Abort, Finish, store, counts
  <2> QED BY <2>1, SlotLands DEF Asking
<1>4. CASE resolveBudgetPricingUnavailableAlerts(s)
  <2>1. PICK p \in req[s].todo : GateGoto(s, "gate", [req[s] EXCEPT !.todo = @ \ {p}])
    BY <1>4 DEF resolveBudgetPricingUnavailableAlerts
  <2> DEFINE r == [req[s] EXCEPT !.todo = @ \ {p}]
  <2>2. gatePc[s] = "gate" /\ UNCHANGED <<policy, ledger, month, changes, moves>>
    BY <1>4 DEF resolveBudgetPricingUnavailableAlerts
  <2>3. r.role = req[s].role /\ r.keys = req[s].keys /\ r.seen = req[s].seen
    BY <1>1 DEF Request
  <2>4. GateGoto(s, "gate", r)
    BY <2>1
  <2> HIDE DEF r
  <2> QED BY <2>2, <2>3, <2>4, SlotProceeds
<1>5. CASE invokeProvider(s)
  <2>1. PICK estimate \in 0 .. MaxEstimate :
           /\ Blocked(s, estimate) = {} /\ Exhausted(s) = {}
           /\ GateGoto(s, "upstream", [req[s] EXCEPT !.estimate = estimate])
    BY <1>5 DEF invokeProvider
  <2> DEFINE r == [req[s] EXCEPT !.estimate = estimate]
  <2>2. gatePc[s] = "gate" /\ UNCHANGED <<policy, ledger, month, changes, moves>>
    BY <1>5 DEF invokeProvider, Priced, store, counts
  <2>3. /\ r.role = req[s].role /\ r.keys = req[s].keys /\ r.seen = req[s].seen
        /\ r.estimate = estimate /\ estimate \in Nat
    BY <1>1, BoundsNat DEF Request
  <2>4. ASSUME NEW p \in DOMAIN req[s].seen
        PROVE  /\ req[s].seen[p].spend < req[s].seen[p].limit
               /\ req[s].seen[p].spend + estimate <= req[s].seen[p].limit
    <3>1. req[s].seen[p] \in Summary
      BY <1>1, SeenIs DEF Request
    <3>2. req[s].seen[p].spend \in Nat /\ req[s].seen[p].limit \in Nat
      BY <3>1, BoundsNat DEF Summary
    <3>3. /\ ~hardLimitReached(req[s].seen[p])
          /\ ~(/\ remainingUsd(req[s].seen[p]) > 0
               /\ estimate > remainingUsd(req[s].seen[p]))
      BY <2>1 DEF Exhausted, Blocked
    <3> QED BY <2>3, <3>2, <3>3 DEF hardLimitReached, remainingUsd
  <2>5. GateGoto(s, "upstream", r)
    BY <2>1
  <2>6. Admissible(r)
    BY <2>3, <2>4 DEF Admissible
  <2> HIDE DEF r
  <2> QED BY <2>2, <2>3, <2>5, <2>6, SlotProceeds
<1> QED BY <1>2, <1>3, <1>4, <1>5

\* The slots and all they depend on are as before.
LEMMA Unmoved ==
  ASSUME BudgetInv, TypeInv', UNCHANGED <<policy, ledger, month, changes, gatePc, req>>,
         moves' = moves \/ moves' = moves + 1
  PROVE  BudgetInv'
<1>1. \A s \in Slots : Faithful(gatePc[s], req[s])' <=> Faithful(gatePc[s], req[s])
  BY DEF Faithful, Asking, Applies
<1>2. \A p \in Policies : Covered(p)' <=> Covered(p)
  <2>1. ASSUME NEW p \in Policies PROVE InFlight(p)' = InFlight(p) /\ Cap(p)' = Cap(p)
    BY DEF InFlight, Flying, Asking, Cap
  <2>2. ASSUME NEW p \in Policies, NEW m
        PROVE  Spend(policy[p].covers, m)' = Spend(policy[p].covers, m)
    BY DEF Spend
  <2>3. ASSUME NEW p \in Policies
        PROVE  Spend(policy[p].covers, month)' = Spend(policy[p].covers, month)
    BY DEF Spend
  <2> QED BY <2>1, <2>2, <2>3 DEF Covered
<1>3. ASSUME NEW p \in Policies, Watched(p)' PROVE Watched(p)
  <2>1. moves \in Nat
    BY DEF BudgetInv, TypeInv, StoreOK
  <2> QED BY <1>3, <2>1 DEF Watched, Steady
<1> QED BY <1>1, <1>2, <1>3, AheadKept DEF BudgetInv

\* After an edit nothing is claimed of the sums.
LEMMA ChangeCovered ==
  ASSUME BudgetInv, TypeInv', CountChange, UNCHANGED <<ledger, month>>
  PROVE  BudgetInv'
<1>1. changes' # 0
  BY DEF BudgetInv, TypeInv, StoreOK, CountChange
<1> QED BY <1>1, AheadKept DEF BudgetInv

LEMMA RereadCovered ==
  ASSUME BudgetInv, TypeInv', NEW s \in Slots, getBudgetPolicySummaryById(s)
  PROVE  BudgetInv'
<1> DEFINE r == [req[s] EXCEPT !.seen = [p \in req[s].todo |-> SummaryOf(p, 0)],
                               !.now = month]
<1>1. /\ gatePc[s] = "reread" /\ GateGoto(s, "sum", r)
      /\ UNCHANGED <<policy, ledger, month, changes, moves>>
  BY DEF getBudgetPolicySummaryById, store, counts
<1>2. r.role = "change"
  BY <1>1 DEF BudgetInv, TypeInv, Stage, Request
<1> HIDE DEF r
<1> QED BY <1>1, <1>2, SlotLands DEF Asking

\* A policy is summed: a request that finds headroom takes flight, and knows
\* what all the others have booked.
LEMMA SumCovered ==
  ASSUME BudgetInv, TypeInv', NEW s \in Slots, sumBudgetPolicyUsageForPeriod(s)
  PROVE  BudgetInv'
<1>1. PICK q \in req[s].todo :
         GateGoto(s, "sum",
              [req[s] EXCEPT !.todo = @ \ {q},
                             !.seen[q].spend = Spend(Summed(q, req[s].seen[q].covers), req[s].now)])
  BY DEF sumBudgetPolicyUsageForPeriod
<1> DEFINE read == Spend(Summed(q, req[s].seen[q].covers), req[s].now)
           r    == [req[s] EXCEPT !.todo = @ \ {q}, !.seen[q].spend = read]
<1>2. /\ gatePc[s] = "sum" /\ GateGoto(s, "sum", r) /\ UNCHANGED <<store, month, counts>>
      /\ UNCHANGED <<policy, ledger, month, changes, moves>>
  BY <1>1 DEF sumBudgetPolicyUsageForPeriod, store, counts
<1>3. /\ req[s] \in Request /\ q \in DOMAIN req[s].seen /\ req[s].now \in Months
      /\ q \in Policies /\ req[s].todo \subseteq DOMAIN req[s].seen
      /\ \A p \in DOMAIN req[s].seen : req[s].seen[p] \in Summary
  <2>1. req[s] \in Request /\ req[s].todo \subseteq DOMAIN req[s].seen /\ req[s].now \in Months
    BY <1>2 DEF BudgetInv, TypeInv, Stage
  <2> QED BY <2>1, SeenIs DEF Request
<1>4. /\ r.role = req[s].role /\ r.keys = req[s].keys /\ r.now = req[s].now
      /\ r.todo = req[s].todo \ {q}
      /\ DOMAIN r.seen = DOMAIN req[s].seen
      /\ \A p \in DOMAIN r.seen : /\ r.seen[p].covers = req[s].seen[p].covers
                                  /\ r.seen[p].limit = req[s].seen[p].limit
                                  /\ p # q => r.seen[p] = req[s].seen[p]
      /\ r.seen[q].spend = read
  <2> HIDE DEF read
  <2> QED BY <1>3 DEF Request, Summary
<1>5. read \in Nat
  <2>1. req[s].seen[q].covers \in SUBSET Keys
    BY <1>3 DEF Summary
  <2>2. Summed(q, req[s].seen[q].covers) \in SUBSET Keys
    BY <2>1 DEF Summed
  <2> QED BY <1>3, <2>2, SpendNat DEF BudgetInv, TypeInv
<1>6. CASE req[s].role # "request"
  <2>1. ~Asking("sum", r)
    BY <1>4, <1>6 DEF Asking
  <2> HIDE DEF r
  <2> QED BY <1>2, <2>1, SlotLands
<1>7. CASE req[s].role = "request" /\ changes # 0
  <2> HIDE DEF r
  <2> QED BY <1>2, <1>7, SlotKept
<1>8. CASE req[s].role = "request" /\ changes = 0
  <2>1. Asking("sum", req[s]) /\ Faithful("sum", req[s])
    BY <1>2, <1>8 DEF Asking, BudgetInv
  <2>2. Faithful("sum", r)
    <3> HIDE DEF r
    <3>1. \E k \in Keys : r.keys = {k} /\ DOMAIN r.seen = Applies(k)
      BY <1>4, <2>1 DEF Faithful
    <3>2. \A p \in DOMAIN r.seen : /\ r.seen[p].covers = policy[p].covers
                                   /\ r.seen[p].limit = policy[p].limit
      BY <1>4, <2>1 DEF Faithful
    <3>3. r.now <= month
      BY <1>4, <2>1 DEF Faithful
    <3>4. \A p \in r.todo : r.seen[p].spend = 0
      BY <1>3, <1>4, <2>1 DEF Faithful
    <3> QED BY <3>1, <3>2, <3>3, <3>4 DEF Faithful
  <2>3. \A t \in Slots : Faithful(gatePc[t], req[t])'
    <3> HIDE DEF r
    <3> QED BY <1>2, <1>8, <2>2, FaithfulKept DEF BudgetInv
  <2>4. ASSUME NEW t \in Slots
        PROVE  \/ gatePc'[t] = gatePc[t] /\ req'[t] = req[t] /\ t # s
               \/ t = s /\ gatePc'[t] = "sum" /\ req'[t] = r
    BY <1>2 DEF GateGoto, BudgetInv, TypeInv
  <2>5. ASSUME NEW p \in Policies, Watched(p),
               Flying("sum", r, p) =>
                  /\ Flying("sum", req[s], p)
                  /\ req[s].seen[p].spend <= r.seen[p].spend
                  /\ r.seen[p].limit = req[s].seen[p].limit
        PROVE  Covered(p)'
    <3> HIDE DEF r
    <3>1. ASSUME NEW t \in Slots, Flying(gatePc[t], req[t], p)'
          PROVE  /\ Flying(gatePc[t], req[t], p)
                 /\ req[t].seen[p].spend <= req'[t].seen[p].spend
                 /\ req'[t].seen[p].limit = req[t].seen[p].limit
      <4>1. Flying(gatePc'[t], req'[t], p)
        BY <1>2, <3>1 DEF Flying, Asking
      <4>2. CASE t = s /\ gatePc'[t] = "sum" /\ req'[t] = r
        BY <1>2, <2>5, <4>1, <4>2
      <4>3. CASE gatePc'[t] = gatePc[t] /\ req'[t] = req[t]
        <5>1. Flying(gatePc[t], req[t], p)
          BY <4>1, <4>3
        <5>2. req[t].seen[p].spend \in Nat
          BY <5>1, MayCostNat DEF Flying, BudgetInv, TypeInv
        <5> QED BY <4>3, <5>1, <5>2
      <4> QED BY <2>4, <4>2, <4>3
    <3>2. ASSUME NEW m \in Months
          PROVE  Spend(policy[p].covers, m)' = Spend(policy[p].covers, m)
      BY <1>2 DEF Spend
    <3>3. Spend(policy[p].covers, month)' = Spend(policy[p].covers, month)
      BY <1>2 DEF Spend
    <3> QED BY <1>2, <1>8, <2>5, <3>1, <3>2, <3>3, CoveredShrinks DEF BudgetInv
  <2>6. ASSUME NEW p \in Policies, Watched(p) PROVE Covered(p)'
    <3>1. CASE p # q
      <4>1. Flying("sum", r, p) => Flying("sum", req[s], p) /\ r.seen[p] = req[s].seen[p]
        <5> HIDE DEF r
        <5> QED BY <1>4, <2>1, <3>1 DEF Flying, Asking
      <4>2. p \in DOMAIN req[s].seen => req[s].seen[p].spend <= req[s].seen[p].spend
        BY <1>3 DEF Summary
      <4> HIDE DEF r
      <4> QED BY <2>5, <2>6, <4>1, <4>2 DEF Flying
    <3>2. CASE p = q /\ req[s].now # month
      <4>1. req[s].seen[q].spend = 0 /\ req[s].seen[q].limit \in Nat \ {0}
        <5>1. req[s].seen[q].limit \in Limits
          BY <1>3 DEF Summary
        <5> QED BY <2>1, <5>1, BudgetConstantsOK DEF Faithful
      <4>2. Flying("sum", req[s], q)
        BY <1>3, <2>1, <3>2, <4>1 DEF Flying
      <4> HIDE DEF r, read
      <4> QED BY <1>3, <1>4, <1>5, <2>5, <2>6, <3>2, <4>1, <4>2
    <3>3. CASE p = q /\ req[s].now = month /\ ~(read < r.seen[q].limit)
      <4>1. ~Flying("sum", r, q)
        <5> HIDE DEF r, read
        <5> QED BY <1>4, <3>3 DEF Flying
      <4> HIDE DEF r, read
      <4> QED BY <2>5, <2>6, <3>3, <4>1
    <3>4. CASE p = q /\ req[s].now = month /\ read < r.seen[q].limit
      <4>1. /\ req[s].seen[q].covers = policy[q].covers
            /\ r.seen[q].limit = policy[q].limit
        <5> HIDE DEF r
        <5> QED BY <1>3, <1>4, <2>1 DEF Faithful
      <4>2. read = Spend(policy[q].covers, month)
        <5>1. Summed(q, policy[q].covers) = policy[q].covers
          BY <2>6, <3>4 DEF Summed, Watched, Steady, BudgetInv, TypeInv, StoreOK
        <5> QED BY <3>4, <4>1, <5>1
      <4>3. Flying("sum", r, q) /\ r.seen[q].spend = read /\ r.seen[q].limit = policy[q].limit
        <5> HIDE DEF r, read
        <5> QED BY <1>3, <1>4, <2>1, <3>4, <4>1 DEF Flying, Asking
      <4>4. gatePc'[s] = "sum" /\ req'[s] = r /\ r \in Request
        <5>1. gatePc'[s] = "sum" /\ req'[s] = r
          BY <2>4
        <5> HIDE DEF r
        <5> QED BY <5>1 DEF TypeInv
      <4>5. s \in InFlight(q)'
        <5> HIDE DEF r
        <5>1. Flying(gatePc[s], req[s], q)'
          BY <1>2, <4>3, <4>4 DEF Flying, Asking
        <5> QED BY <5>1 DEF InFlight
      <4>6. read + MayCost(r, q) <= policy[q].limit + Slack
        <5> HIDE DEF r, read
        <5> QED BY <4>3, <4>4, MayCostNat DEF Flying
      <4>7. ASSUME NEW m \in Months, m <= month'
            PROVE  Spend(policy[q].covers, m)' <= Cap(q)'
        <5>1. Spend(policy[q].covers, m)' = Spend(policy[q].covers, m) /\ Cap(q)' = Cap(q)
          BY <1>2 DEF Spend, Cap
        <5>2. Covered(q) /\ m <= month
          BY <1>2, <1>8, <2>6, <3>4, <4>7 DEF BudgetInv
        <5> QED BY <5>1, <5>2 DEF Covered
      <4>8. Spend(policy[q].covers, month)' = read
        BY <1>2, <4>2 DEF Spend
      <4>9. Cap(q) \in Nat /\ Cap(q)' = Cap(q) /\ policy[q].limit \in Nat
        BY <1>2, <1>3, CapNat DEF BudgetInv, Cap
      <4>10. PICK sum \in Nat, cap \in Nat, limit \in Nat :
                sum = read /\ cap = Cap(q) /\ limit = policy[q].limit
        <5> HIDE DEF read
        <5> QED BY <1>5, <4>9
      <4>11. /\ sum = Spend(policy[q].covers, month)' /\ cap = Cap(q)'
             /\ limit = policy'[q].limit
             /\ sum + MayCost(req'[s], q) <= limit + Slack
        <5> HIDE DEF r, read
        <5> QED BY <1>2, <4>4, <4>6, <4>8, <4>9, <4>10
      <4>12. Covered(q)'
        <5> HIDE DEF r, read
        <5> QED BY <1>3, <4>5, <4>7, <4>11, CoveredAnew
      <4> QED BY <3>4, <4>12
    <3> QED BY <3>1, <3>2, <3>3, <3>4
  <2>7. Ahead'
    BY <1>2, AheadKept DEF BudgetInv
  <2> QED BY <1>2, <1>8, <2>3, <2>6, <2>7 DEF BudgetInv, Watched, Steady
<1> QED BY <1>6, <1>7, <1>8

\* The cost of a request is added to the sums of the policies that cover its
\* key, and to no others.
LEMMA SpendBooked ==
  ASSUME TypeInv, NEW covers \in SUBSET Keys, NEW k \in Keys, NEW cost \in Nat,
         ledger' = [ledger EXCEPT ![month][k] = @ + cost], NEW m \in Months
  PROVE  Spend(covers, m)' =
            Spend(covers, m) + (IF m = month /\ k \in covers THEN cost ELSE 0)
<1> DEFINE old == [j \in covers |-> ledger[m][j]]
           new == [j \in covers |-> ledger'[m][j]]
<1>1. /\ ledger \in [Months -> [Keys -> Nat]] /\ month \in Months
  BY DEF TypeInv, StoreOK
<1>2. ledger' \in [Months -> [Keys -> Nat]]
  BY <1>1
<1>3. old \in [covers -> Nat] /\ new \in [covers -> Nat] /\ IsFiniteSet(covers)
  BY <1>1, <1>2, BudgetConstantsOK, FS_Subset
<1>4. /\ Spend(covers, m) = Cardinality(Spent(covers, old))
      /\ Spend(covers, m)' = Cardinality(Spent(covers, new))
  <2>1. Spent(covers, old) = UNION {Units(j, ledger[m][j]) : j \in covers}
    BY DEF Spent
  <2>2. Spent(covers, new) = UNION {Units(j, ledger'[m][j]) : j \in covers}
    BY DEF Spent
  <2> QED BY <2>1, <2>2 DEF Spend
<1>5. Cardinality(Spent(covers, old)) \in Nat
  <2> HIDE DEF old
  <2> QED BY <1>3, SpentFinite
<1>6. CASE m = month /\ k \in covers
  <2>1. new[k] = old[k] + cost /\ \A j \in covers : j # k => new[j] = old[j]
    BY <1>1, <1>6
  <2>2. Cardinality(Spent(covers, new)) = Cardinality(Spent(covers, old)) + cost
    <3> HIDE DEF old, new
    <3> QED BY <1>3, <1>6, <2>1, SpentGrows
  <2> QED BY <1>4, <1>6, <2>2
<1>7. CASE ~(m = month /\ k \in covers)
  <2>1. new = old
    BY <1>1, <1>7
  <2> QED BY <1>4, <1>5, <1>7, <2>1
<1> QED BY <1>6, <1>7

\* The usage is recorded: what the request was to cost is now in the sum.
LEMMA RecordCovered ==
  ASSUME BudgetInv, TypeInv', NEW s \in Slots, recordResolvedProviderUsage(s)
  PROVE  BudgetInv'
<1>1. PICK k \in req[s].keys : \E cost \in Costs(s, k) :
         /\ \/ /\ ledger' = [ledger EXCEPT ![month][k] = @ + cost]
               /\ UNCHANGED dbErrors
            \/ UNCHANGED ledger /\ DbError
         /\ Settled(s, cost)
  BY DEF recordResolvedProviderUsage
<1>2. PICK cost \in Costs(s, k) :
         /\ \/ ledger' = [ledger EXCEPT ![month][k] = @ + cost]
            \/ UNCHANGED ledger
         /\ Settled(s, cost)
  BY <1>1
<1>3. gatePc[s] = "upstream" /\ UNCHANGED <<policy, month, changes, moves>>
  BY DEF recordResolvedProviderUsage
<1>4. req[s] \in Request /\ k \in Keys
  BY DEF BudgetInv, TypeInv, Request
<1>5. PICK r : GateGoto(s, "sync", r) /\ r.role = "settle"
  <2> DEFINE r == [req[s] EXCEPT !.role = "settle", !.now = month, !.estimate = 0,
                                 !.todo = DOMAIN req[s].seen,
                                 !.seen = applyUsageCostToBudget(req[s].seen, cost)]
  <2>1. GateGoto(s, "sync", r)
    BY <1>2 DEF Settled
  <2>2. r.role = "settle"
    BY <1>4 DEF Request
  <2> HIDE DEF r
  <2> QED BY <2>1, <2>2
<1>6. ~Asking("sync", r)
  BY <1>5 DEF Asking
<1>7. CASE UNCHANGED ledger
  BY <1>3, <1>5, <1>6, <1>7, SlotLands
<1>8. CASE ledger' = [ledger EXCEPT ![month][k] = @ + cost]
  <2>1. cost \in Nat /\ cost <= req[s].estimate + Slack
    BY <1>4, CostsBounded DEF BudgetInv
  <2>2. Ahead'
    <3>1. ASSUME NEW m \in Months, m > month PROVE ledger'[m] = ledger[m]
      BY <1>8, <3>1 DEF BudgetInv, TypeInv, StoreOK, Months
    <3> QED BY <1>3, <3>1 DEF Ahead, BudgetInv
  <2>3. SUFFICES ASSUME changes = 0
                 PROVE  /\ \A t \in Slots : Faithful(gatePc[t], req[t])'
                        /\ \A p \in Policies : Watched(p) => Covered(p)'
    BY <1>3, <2>2 DEF BudgetInv, Watched, Steady
  <2>4. \A t \in Slots : Faithful(gatePc[t], req[t])'
    BY <1>3, <1>5, <1>6, <2>3, FaithfulKept DEF BudgetInv, Faithful
  <2>5. ASSUME NEW t \in Slots
        PROVE  \/ t # s /\ gatePc'[t] = gatePc[t] /\ req'[t] = req[t]
               \/ t = s /\ gatePc'[t] = "sync" /\ req'[t] = r
    BY <1>5 DEF GateGoto, BudgetInv, TypeInv
  <2>6. ASSUME NEW p \in Policies
        PROVE  InFlight(p)' = InFlight(p) \ {s}
    <3>1. ASSUME NEW t \in Slots
          PROVE  Flying(gatePc[t], req[t], p)' <=> Flying(gatePc[t], req[t], p) /\ t # s
      <4>1. CASE t = s /\ gatePc'[t] = "sync" /\ req'[t] = r
        BY <1>6, <4>1 DEF Flying, Asking
      <4>2. CASE t # s /\ gatePc'[t] = gatePc[t] /\ req'[t] = req[t]
        BY <1>3, <4>2 DEF Flying, Asking
      <4> QED BY <2>5, <4>1, <4>2
    <3> QED BY <3>1 DEF InFlight
  <2>7. ASSUME NEW p \in Policies, NEW m \in Months
        PROVE  Spend(policy[p].covers, m)' = Spend(policy[p].covers, m)
                  + (IF m = month /\ k \in policy[p].covers THEN cost ELSE 0)
    <3>1. PICK covers \in SUBSET Keys : covers = policy[p].covers
      BY DEF BudgetInv, TypeInv, StoreOK, Policy
    <3>2. Spend(covers, m)' = Spend(covers, m)
                                 + (IF m = month /\ k \in covers THEN cost ELSE 0)
      BY <1>4, <1>8, <2>1, SpendBooked DEF BudgetInv
    <3>3. Spend(policy[p].covers, m)' = Spend(covers, m)'
      BY <1>3, <3>1 DEF Spend
    <3> QED BY <3>1, <3>2, <3>3
  <2>8. ASSUME NEW p \in Policies
        PROVE  /\ Spend(policy[p].covers, month) \in Nat
               /\ Spend(policy[p].covers, month)' = Spend(policy[p].covers, month)
                     + (IF k \in policy[p].covers THEN cost ELSE 0)
    <3>1. PICK m \in Months : m = month
      BY DEF BudgetInv, TypeInv, StoreOK
    <3>2. Spend(policy[p].covers, month)' = Spend(policy[p].covers, m)'
      BY <1>3, <3>1 DEF Spend
    <3>3. Spend(policy[p].covers, m) \in Nat
      BY SpendsNat DEF BudgetInv
    <3> QED BY <2>7, <3>1, <3>2, <3>3
  <2>9. /\ req[s].keys = {k} /\ DOMAIN req[s].seen = Applies(k)
        /\ \A p \in DOMAIN req[s].seen :
              /\ req[s].seen[p].spend < req[s].seen[p].limit
              /\ req[s].seen[p].spend + req[s].estimate <= req[s].seen[p].limit
        /\ Asking(gatePc[s], req[s])
    <3>1. Asking(gatePc[s], req[s]) /\ Faithful(gatePc[s], req[s])
      BY <1>3, <2>3 DEF BudgetInv, TypeInv, Stage, Asking
    <3> QED BY <1>3, <3>1 DEF Faithful
  <2>10. ASSUME NEW p \in Policies, Watched(p), k \in policy[p].covers
         PROVE  Covered(p)'
    <3>1. p \in DOMAIN req[s].seen
      BY <2>9, <2>10 DEF Applies, Watched
    <3>2. s \in InFlight(p)
      BY <1>3, <2>9, <3>1 DEF InFlight, Flying
    <3>3. cost <= MayCost(req[s], p)
      <4>1. req[s].seen[p].spend \in Nat /\ req[s].seen[p].limit \in Nat
        BY <1>4, <2>9, <3>1, MayCostNat
      <4>2. req[s].estimate \in Nat /\ req[s].estimate <= MaxEstimate
        BY <1>4, BoundsNat DEF Request
      <4>3. req[s].seen[p].spend + req[s].estimate <= req[s].seen[p].limit
        BY <2>9, <3>1
      <4> QED BY <2>1, <4>1, <4>2, <4>3, BoundsNat DEF MayCost, Left
    <3>4. \A t \in InFlight(p) \ {s} : req'[t] = req[t]
      BY <2>5 DEF InFlight
    <3>5. ASSUME NEW m \in Months, m < month
          PROVE  Spend(policy[p].covers, m)' = Spend(policy[p].covers, m)
      <4>1. m # month /\ Spend(policy[p].covers, m) \in Nat
        BY <3>5, SpendsNat DEF BudgetInv, TypeInv, StoreOK, Months
      <4> QED BY <2>7, <4>1
    <3>6. Spend(policy[p].covers, month)' = Spend(policy[p].covers, month) + cost
      BY <2>8, <2>10
    <3>7. Covered(p)
      BY <2>3, <2>10 DEF BudgetInv
    <3> QED BY <1>3, <2>1, <2>6, <3>2, <3>3, <3>4, <3>5, <3>6, <3>7, CoveredBooks DEF BudgetInv
  <2>11. ASSUME NEW p \in Policies, Watched(p), k \notin policy[p].covers
         PROVE  Covered(p)'
    <3>1. ASSUME NEW m \in Months
          PROVE  Spend(policy[p].covers, m)' = Spend(policy[p].covers, m)
      <4>1. Spend(policy[p].covers, m) \in Nat
        BY SpendsNat DEF BudgetInv
      <4> QED BY <2>7, <2>11, <4>1
    <3>2. Spend(policy[p].covers, month)' = Spend(policy[p].covers, month)
      BY <2>8, <2>11
    <3>3. ASSUME NEW t \in Slots, Flying(gatePc[t], req[t], p)'
          PROVE  /\ Flying(gatePc[t], req[t], p)
                 /\ req[t].seen[p].spend <= req'[t].seen[p].spend
                 /\ req'[t].seen[p].limit = req[t].seen[p].limit
      <4>1. t \in InFlight(p)'
        BY <3>3 DEF InFlight
      <4>2. Flying(gatePc[t], req[t], p) /\ t # s
        BY <2>6, <4>1 DEF InFlight
      <4>3. req'[t] = req[t] /\ req[t].seen[p].spend \in Nat
        BY <2>5, <4>2, MayCostNat DEF Flying, BudgetInv, TypeInv
      <4> QED BY <4>2, <4>3
    <3>4. Covered(p)
      BY <2>3, <2>11 DEF BudgetInv
    <3> QED BY <1>3, <3>1, <3>2, <3>3, <3>4, CoveredShrinks DEF BudgetInv
  <2> QED BY <2>4, <2>10, <2>11
<1> QED BY <1>2, <1>7, <1>8

\* Nothing is booked yet to the month that begins.
LEMMA NextMonthCovered ==
  ASSUME BudgetInv, TypeInv', NextMonth
  PROVE  BudgetInv'
<1>1. /\ UNCHANGED <<policy, ledger, gatePc, req, changes, moves>> /\ month' = month + 1
      /\ month \in Nat /\ month' \in Months
  BY DEF NextMonth, store, BudgetInv, TypeInv, StoreOK, Months
<1>2. Ahead'
  BY <1>1 DEF BudgetInv, Ahead, Months
<1>3. SUFFICES ASSUME changes = 0
               PROVE  /\ \A t \in Slots : Faithful(gatePc[t], req[t])'
                      /\ \A p \in Policies : Watched(p) => Covered(p)'
  BY <1>1, <1>2 DEF BudgetInv, Watched, Steady
<1>4. ASSUME NEW t \in Slots PROVE Faithful(gatePc[t], req[t])'
  <2>1. Faithful(gatePc[t], req[t]) /\ req[t].now \in Nat
    BY <1>3 DEF BudgetInv, TypeInv, Request, Months
  <2> QED BY <1>1, <2>1 DEF Faithful, Asking, Applies
<1>5. ASSUME NEW p \in Policies, Watched(p) PROVE Covered(p)'
  <2>1. PICK new \in Months, covers \in SUBSET Keys :
           new = month' /\ covers = policy[p].covers /\ covers = policy'[p].covers
    BY <1>1 DEF BudgetInv, TypeInv, StoreOK, Policy
  <2>2. Spend(covers, new)' = 0
    <3> DEFINE costs == [k \in covers |-> ledger'[new][k]]
    <3>1. ledger' \in [Months -> [Keys -> Nat]] /\ \A k \in Keys : ledger'[new][k] = 0
      BY <1>1, <2>1 DEF BudgetInv, Ahead, TypeInv, StoreOK, Months
    <3>2. costs \in [covers -> Nat] /\ \A k \in covers : costs[k] = 0
      BY <3>1
    <3>3. Spend(covers, new)' = Cardinality(Spent(covers, costs))
      BY DEF Spend, Spent
    <3> HIDE DEF costs
    <3> QED BY <3>2, <3>3, SpentNothing
  <2>3. Cap(p) \in Nat /\ Cap(p)' = Cap(p) /\ policy[p].limit \in Nat
    BY <1>1, CapNat DEF BudgetInv, Cap
  <2>4. ASSUME NEW m \in Months, m <= month'
        PROVE  Spend(policy[p].covers, m)' <= Cap(p)'
    <3>1. CASE m = new
      <4>1. Spend(policy[p].covers, m)' = 0
        BY <2>1, <2>2, <3>1 DEF Spend
      <4> QED BY <2>3, <4>1
    <3>2. CASE m # new
      <4>1. m <= month
        BY <1>1, <2>1, <2>4, <3>2 DEF Months
      <4>2. Spend(policy[p].covers, m) <= Cap(p)
        BY <1>3, <1>5, <4>1 DEF BudgetInv, Covered
      <4>3. Spend(policy[p].covers, m)' = Spend(policy[p].covers, m)
        BY <1>1 DEF Spend
      <4> QED BY <2>3, <4>2, <4>3
    <3> QED BY <3>1, <3>2
  <2>5. PICK sum \in Nat, cap \in Nat, limit \in Nat :
           sum = 0 /\ cap = Cap(p) /\ limit = policy[p].limit
    BY <2>3
  <2>6. sum = Spend(policy[p].covers, month)'
    BY <2>1, <2>2, <2>5 DEF Spend
  <2>7. ASSUME NEW s \in InFlight(p)'
        PROVE  sum + MayCost(req'[s], p) <= limit + Slack
    <3>1. /\ s \in Slots /\ Asking(gatePc[s], req[s]) /\ p \in DOMAIN req[s].seen
          /\ req[s].seen[p].spend < req[s].seen[p].limit /\ req'[s] = req[s]
      BY <1>1, <2>7 DEF InFlight, Flying, Asking
    <3>2. req[s].seen[p].limit = limit
      BY <1>3, <2>5, <3>1 DEF BudgetInv, Faithful
    <3>3. req[s] \in Request
      BY <3>1 DEF BudgetInv, TypeInv
    <3>4. /\ MayCost(req[s], p) \in 0 .. CostBound /\ req[s].seen[p].spend \in Nat
          /\ req[s].seen[p].spend + MayCost(req[s], p) <= limit + Slack
      BY <3>1, <3>2, <3>3, MayCostNat
    <3> QED BY <2>5, <3>1, <3>4, BoundsNat
  <2>8. cap = Cap(p)' /\ limit = policy'[p].limit
    BY <1>1, <2>3, <2>5
  <2> QED BY <2>3, <2>4, <2>5, <2>6, <2>7, <2>8, CoveredAnew
<1> QED BY <1>4, <1>5

LEMMA InitCovered == BudgetInit => BudgetInv
<1> SUFFICES ASSUME BudgetInit PROVE BudgetInv
  OBVIOUS
<1>1. TypeInv
  BY InitTyped
<1>2. \A m \in Months, k \in Keys : ledger[m][k] = 0
  BY DEF BudgetInit
<1>3. \A s \in Slots : ~Asking(gatePc[s], req[s])
  BY DEF BudgetInit, Asking
<1>4. ASSUME NEW p \in Policies PROVE Covered(p)
  <2>1. InFlight(p) = {}
    BY <1>3 DEF InFlight, Flying
  <2>2. ASSUME NEW m \in Months PROVE Spend(policy[p].covers, m) = 0
    <3> DEFINE costs == [k \in policy[p].covers |-> ledger[m][k]]
    <3>1. costs \in [policy[p].covers -> Nat] /\ \A k \in policy[p].covers : costs[k] = 0
      BY <1>1, <1>2 DEF TypeInv, StoreOK, Policy
    <3>2. Spend(policy[p].covers, m) = Cardinality(Spent(policy[p].covers, costs))
      BY DEF Spend, Spent
    <3> HIDE DEF costs
    <3> QED BY <3>1, <3>2, SpentNothing
  <2>3. Cap(p) \in Nat
    BY <1>1, CapNat
  <2> QED BY <2>1, <2>2, <2>3 DEF Covered
<1> QED BY <1>1, <1>2, <1>3, <1>4 DEF BudgetInv, Ahead, Faithful

LEMMA NextCovered == BudgetInv /\ [BudgetNext]_budgetVars => BudgetInv'
<1> SUFFICES ASSUME BudgetInv, [BudgetNext]_budgetVars PROVE BudgetInv'
  OBVIOUS
<1>1. TypeInv'
  BY NextTyped DEF BudgetInv
<1>2. CASE UNCHANGED budgetVars
  BY <1>1, <1>2, Unmoved DEF budgetVars, store, counts
<1>3. ASSUME NEW s \in Slots, Synchronise(s) PROVE BudgetInv'
  BY <1>1, <1>3, SumCovered, SyncCovered DEF Synchronise
<1>4. ASSUME NEW s \in Slots, handleGatewayRequest(s) PROVE BudgetInv'
  BY <1>1, <1>4, GateCovered, RecordCovered DEF handleGatewayRequest
<1>5. ASSUME NEW s \in Slots, NEW p \in Policies,
             updateBudgetPolicy(s, p) \/ deleteBudgetPolicy(s, p)
      PROVE  BudgetInv'
  BY <1>1, <1>5, ChangeCovered DEF updateBudgetPolicy, deleteBudgetPolicy
<1>6. CASE configurePricing \/ \E p \in Policies : createBudgetPolicy(p)
  BY <1>1, <1>6, ChangeCovered DEF configurePricing, createBudgetPolicy
<1>7. CASE updateEnvironment \/ \E a \in AlertIds : patchAlert(a)
  BY <1>1, <1>7, Unmoved DEF updateEnvironment, patchAlert
<1>8. ASSUME NEW s \in Slots, Abort(s) PROVE BudgetInv'
  BY <1>1, <1>8, GateCovered
<1> QED BY <1>1, <1>2, <1>3, <1>4, <1>5, <1>6, <1>7, <1>8, EvaluateCovered,
           RereadCovered, NextMonthCovered DEF BudgetNext

LEMMA CoveredBounds == BudgetInv => OvershootBounded
<1> SUFFICES ASSUME BudgetInv, changes = 0,
                    NEW p \in Policies, NEW m \in Months, Watched(p)
             PROVE  Spend(policy[p].covers, m) <= Cap(p)
  BY DEF OvershootBounded, Within, Watched, Cap, CostBound
<1>1. CASE m <= month
  BY <1>1 DEF BudgetInv, Covered
<1>2. CASE ~(m <= month)
  <2>1. m > month
    BY <1>2 DEF BudgetInv, TypeInv, StoreOK, Months
  <2> DEFINE costs == [k \in policy[p].covers |-> ledger[m][k]]
  <2>2. costs \in [policy[p].covers -> Nat] /\ \A k \in policy[p].covers : costs[k] = 0
    BY <2>1 DEF BudgetInv, Ahead, TypeInv, StoreOK, Policy
  <2>3. Spend(policy[p].covers, m) = Cardinality(Spent(policy[p].covers, costs))
    BY DEF Spend, Spent
  <2>4. Cap(p) \in Nat
    BY CapNat DEF BudgetInv
  <2> HIDE DEF costs
  <2> QED BY <2>2, <2>3, <2>4, SpentNothing
<1> QED BY <1>1, <1>2

\* Concurrent requests overspend a budget nobody edits, nor the environment it
\* is for, by no more than what the other slots can have had in flight and what
\* one request can exceed its estimate by, for any number of slots, keys,
\* policies and months.
THEOREM OvershootIsBounded == BudgetSpec => []OvershootBounded
BY InitCovered, NextCovered, CoveredBounds, PTL DEF BudgetSpec

\* Without budgets for environments no edit of one matters: a request past the
\* hard limit of a workspace or a project is blocked, but for what was in flight.
THEOREM HardLimitBlocksElsewhere ==
  ASSUME Environmental = {}
  PROVE  BudgetSpec => []HardLimitBlocks
<1>1. OvershootBounded => HardLimitBlocks
  BY DEF OvershootBounded, HardLimitBlocks, Steady
<1> QED BY <1>1, OvershootIsBounded, PTL

-----------------------------------------------------------------------------
(* Alerts, one request or edit at a time *)

\* Nothing has upset the alerts but edits of the policies.
Calm == straddles = 0 /\ overrides = 0 /\ dbErrors = 0

\* An alert there has to be: a threshold of a policy in force is reached.
Due(a) == /\ a[2] \in Thresholds /\ a[3] = month /\ Watched(a[1])
          /\ IF a[2] = "soft-limit" THEN softLimitReached(Current(a[1]))
                                    ELSE hardLimitReached(Current(a[1]))

\* An open alert that its policy does not justify.
Unjust(a) == /\ alert[a].status = "open" /\ Steady(a[1]) /\ a[3] \in {0, month}
             /\ ~Justified(a, Current(a[1]))

Holding == {"sum", "sync", "gate", "upstream"}

\* Summaries are exact once they are summed; a policy withdrawn has none.
Exact(step, r) ==
    step \in Holding =>
       \A p \in DOMAIN r.seen : Steady(p) =>
          \/ r.seen[p] = IF step = "sum" /\ p \in r.todo THEN SummaryOf(p, 0)
                                                         ELSE Current(p)
          \/ r.role = "change" /\ step = "sync" /\ r.seen[p].status = "deleted"

\* A request holds the policies in force that cover its key; one created since
\* has no alerts yet.
Holds(step, r) ==
    step \in Holding /\ r.role \in {"request", "settle"} =>
       \E k \in Keys :
          /\ r.keys = {k}
          /\ \A p \in DOMAIN r.seen : Steady(p) =>
                policy[p].status = "active" /\ k \in policy[p].covers
          /\ \A p \in Policies \ DOMAIN r.seen :
                Watched(p) /\ k \in policy[p].covers =>
                   /\ changes # 0
                   /\ \A a \in AlertIds : a[1] = p => alert[a].status # "open"

\* What is queued to be opened is justified, with the estimate it will carry.
Queued(step, r) ==
    step = "alerts" =>
       \A a \in r.queue : Steady(a[1]) =>
          /\ a[3] \in {0, month}
          /\ policy[a[1]].status = "active"
          /\ a[2] = "soft-limit" => softLimitReached(Current(a[1]))
          /\ a[2] = "hard-limit" => hardLimitReached(Current(a[1]))
          /\ a[2] = "preflight-block" => /\ 0 < remainingUsd(Current(a[1]))
                                         /\ remainingUsd(Current(a[1])) < r.estimate

\* The slot is about to see that the alert is not justified, or has.
Resolving(step, r, a) ==
    \/ step = "reread" /\ a[1] \in r.todo
    \/ step = "sum" /\ r.role = "change" /\ a[1] \in DOMAIN r.seen
    \/ step = "sync" /\ r.role # "request" /\ (a[1] \in r.todo \/ a \in r.closing)

\* The slot is about to raise the alert.
Raising(step, r, a) ==
    \/ step = "sync" /\ r.role = "settle" /\ a[1] \in DOMAIN r.seen
    \/ step = "alerts" /\ a \in r.queue

\* No alert without a policy, or before its month.
Dated == \A a \in AlertIds : alert[a].status = "open" /\ Steady(a[1]) =>
            policy[a[1]].status # "none" /\ a[3] <= month

Kept(step, r) ==
    /\ step \in {"sum", "sync"} => r.now = month
    /\ IF step = "sync" THEN r.todo \subseteq DOMAIN r.seen ELSE r.closing = {}
    /\ r.role = "change" => changes # 0
    /\ Exact(step, r) /\ Holds(step, r) /\ Queued(step, r) /\ Dated
    /\ \A a \in AlertIds : Unjust(a) => Resolving(step, r, a)
    /\ changes = 0 =>
          \A a \in AlertIds : Due(a) =>
             /\ a \notin r.closing
             /\ alert[a].status = "open" \/ Raising(step, r, a)

KeptInv == Calm => \A s \in Slots : Kept(gatePc[s], req[s])

AlertInv == BudgetInv /\ KeptInv

Single == \A s, t \in Slots : s = t

-----------------------------------------------------------------------------
(* What the alerts are held against *)

\* A policy that is summed over what it covers.
LEMMA CurrentIs ==
  ASSUME TypeInv, NEW p \in Policies, Steady(p)
  PROVE  /\ Current(p) = SummaryOf(p, Spend(policy[p].covers, month))
         /\ Spend(policy[p].covers, month) \in Nat
         /\ Summed(p, policy[p].covers) = policy[p].covers
<1>1. policy[p].covers \in SUBSET Keys /\ month \in Months
  BY DEF TypeInv, StoreOK, Policy
<1>2. Summed(p, policy[p].covers) = policy[p].covers
  BY <1>1 DEF Summed, Steady, TypeInv, StoreOK
<1>3. Spend(policy[p].covers, month) \in Nat
  BY <1>1, SpendNat DEF TypeInv
<1> QED BY <1>2, <1>3 DEF Current

LEMMA CurrentFields ==
  ASSUME TypeInv, NEW p \in Policies, Steady(p)
  PROVE  LET b == Current(p)
         IN  /\ b.status = policy[p].status /\ b.covers = policy[p].covers
             /\ b.limit = policy[p].limit /\ b.percent = policy[p].percent
             /\ b.limit \in Nat \ {0} /\ b.percent \in 1 .. 100
             /\ b.spend = Spend(policy[p].covers, month) /\ b.spend \in Nat
<1>1. policy[p] \in Policy
  BY DEF TypeInv, StoreOK
<1>2. policy[p].limit \in Nat \ {0} /\ policy[p].percent \in 1 .. 100
  BY <1>1, BudgetConstantsOK DEF Policy
<1> QED BY <1>2, CurrentIs DEF SummaryOf

LEMMA Frozen ==
  ASSUME UNCHANGED <<policy, ledger, moved, month, moves>>, NEW p
  PROVE  /\ Current(p)' = Current(p) /\ Steady(p)' = Steady(p)
         /\ Watched(p)' = Watched(p)
         /\ \A n : SummaryOf(p, n)' = SummaryOf(p, n)
<1>1. Current(p)' = Current(p)
  BY DEF Current, SummaryOf, Spend, Summed, Units
<1> QED BY <1>1 DEF Steady, Watched, SummaryOf

LEMMA SlotIs ==
  ASSUME TypeInv, Single, NEW s \in Slots, NEW step, NEW r, GateGoto(s, step, r)
  PROVE  \A t \in Slots : gatePc'[t] = step /\ req'[t] = r
BY DEF Single, GateGoto, TypeInv

\* The slot goes on; what it holds is held against the same state.
LEMMA KeptBySlot ==
  ASSUME AlertInv, Single, NEW s \in Slots, NEW step, NEW r, GateGoto(s, step, r),
         UNCHANGED <<store, month, counts>>, Calm => Kept(step, r)
  PROVE  KeptInv'
<1> SUFFICES ASSUME Calm', NEW t \in Slots PROVE Kept(gatePc[t], req[t])'
  BY DEF KeptInv
<1>1. gatePc'[t] = step /\ req'[t] = r
  BY SlotIs DEF AlertInv, BudgetInv
<1>2. UNCHANGED <<policy, ledger, alert, moved, month, moves, changes>>
  BY DEF store, counts
<1>3. Kept(gatePc'[t], req'[t])
  BY <1>1 DEF Calm, counts
<1>4. \A p : /\ Current(p)' = Current(p) /\ Steady(p)' = Steady(p)
             /\ Watched(p)' = Watched(p)
             /\ \A n : SummaryOf(p, n)' = SummaryOf(p, n)
  BY <1>2, Frozen
<1>5. Exact(gatePc[t], req[t])'
  BY <1>3, <1>4 DEF Kept, Exact
<1>6. Holds(gatePc[t], req[t])'
  BY <1>2, <1>3, <1>4 DEF Kept, Holds
<1>7. Queued(gatePc[t], req[t])'
  BY <1>2, <1>3, <1>4 DEF Kept, Queued, softLimitReached, hardLimitReached, remainingUsd
<1>8. Dated'
  BY <1>2, <1>3, <1>4 DEF Kept, Dated
<1>9. \A a \in AlertIds : /\ Unjust(a)' => Unjust(a)
                          /\ Due(a)' <=> Due(a)
  BY <1>2, <1>4 DEF Unjust, Due, Justified, softLimitReached, hardLimitReached, remainingUsd
<1>10. Kept(step, r)
  BY DEF Calm, counts
<1>11. \A a \in AlertIds : Unjust(a)' => Resolving(gatePc[t], req[t], a)'
  BY <1>1, <1>9, <1>10 DEF Kept, Resolving
<1>12. changes' = 0 => \A a \in AlertIds : Due(a)' =>
          /\ a \notin req'[t].closing
          /\ alert'[a].status = "open" \/ Raising(gatePc[t], req[t], a)'
  BY <1>1, <1>2, <1>9, <1>10 DEF Kept, Raising
<1>13. /\ gatePc'[t] \in {"sum", "sync"} => req'[t].now = month'
       /\ IF gatePc'[t] = "sync" THEN req'[t].todo \subseteq DOMAIN req'[t].seen
                             ELSE req'[t].closing = {}
       /\ req'[t].role = "change" => changes' # 0
  BY <1>1, <1>2, <1>10 DEF Kept
<1> QED BY <1>1, <1>5, <1>6, <1>7, <1>8, <1>11, <1>12, <1>13 DEF Kept

-----------------------------------------------------------------------------
(* Alerts: the steps that leave them alone *)

\* Between requests, and while one asks, every alert is as it should be.
LEMMA AtRest ==
  ASSUME NEW step, NEW r, Kept(step, r),
         \/ step \in {"idle", "gate", "upstream"}
         \/ step \in {"sum", "sync"} /\ r.role = "request"
         \/ step = "alerts" /\ r.queue = {}
         \/ step = "sync" /\ r.role # "settle" /\ r.todo = {} /\ r.closing = {}
  PROVE  /\ \A a \in AlertIds : ~Unjust(a)
         /\ changes = 0 => \A a \in AlertIds : Due(a) => alert[a].status = "open"
BY DEF Kept, Resolving, Raising

\* A slot that lets everything go.
LEMMA KeptIdle ==
  ASSUME NEW step, NEW r, Kept(step, r),
         \A a \in AlertIds : ~Unjust(a),
         changes = 0 => \A a \in AlertIds : Due(a) => alert[a].status = "open"
  PROVE  Kept("idle", NoRequest)
BY DEF Kept, NoRequest, Exact, Holds, Queued, Holding

LEMMA EvaluateKept ==
  ASSUME AlertInv, Single, NEW s \in Slots, NEW k \in Keys,
         evaluateApplicableBudgetPolicies(s, k)
  PROVE  KeptInv'
<1> DEFINE seen == [p \in Applies(k) |-> SummaryOf(p, 0)]
           r    == [NoRequest EXCEPT !.role = "request", !.keys = {k},
                                     !.priced = priced, !.now = month,
                                     !.todo = Applies(k), !.seen = seen]
<1>1. gatePc[s] = "idle" /\ GateGoto(s, "sum", r) /\ UNCHANGED <<store, month, counts>>
  BY DEF evaluateApplicableBudgetPolicies
<1>2. /\ r.role = "request" /\ r.keys = {k} /\ r.now = month
      /\ r.todo = Applies(k) /\ r.seen = seen /\ r.closing = {}
  BY DEF NoRequest
<1>3. DOMAIN seen = Applies(k) /\ \A p \in DOMAIN seen : seen[p] = SummaryOf(p, 0)
  OBVIOUS
<1> HIDE DEF r, seen
<1>4. ASSUME Calm PROVE Kept("sum", r)
  <2>1. Kept("idle", req[s])
    BY <1>1, <1>4 DEF AlertInv, KeptInv
  <2>2. /\ \A a \in AlertIds : ~Unjust(a)
        /\ changes = 0 => \A a \in AlertIds : Due(a) => alert[a].status = "open"
    BY <2>1, AtRest
  <2>3. Exact("sum", r)
    BY <1>2, <1>3 DEF Exact
  <2>4. Holds("sum", r)
    BY <1>2, <1>3 DEF Holds, Applies, Watched
  <2> QED BY <1>2, <2>1, <2>2, <2>3, <2>4 DEF Kept, Queued
<1> QED BY <1>1, <1>4, KeptBySlot

LEMMA SumKept ==
  ASSUME AlertInv, Single, NEW s \in Slots, sumBudgetPolicyUsageForPeriod(s)
  PROVE  KeptInv'
<1>1. PICK q \in req[s].todo :
         GateGoto(s, "sum",
              [req[s] EXCEPT !.todo = @ \ {q},
                             !.seen[q].spend = Spend(Summed(q, req[s].seen[q].covers), req[s].now)])
  BY DEF sumBudgetPolicyUsageForPeriod
<1> DEFINE read == Spend(Summed(q, req[s].seen[q].covers), req[s].now)
           r    == [req[s] EXCEPT !.todo = @ \ {q}, !.seen[q].spend = read]
<1>2. gatePc[s] = "sum" /\ GateGoto(s, "sum", r) /\ UNCHANGED <<store, month, counts>>
  BY <1>1 DEF sumBudgetPolicyUsageForPeriod
<1>3. /\ TypeInv /\ req[s] \in Request /\ req[s].todo \subseteq DOMAIN req[s].seen
      /\ DOMAIN req[s].seen \subseteq Policies
  <2>1. TypeInv /\ req[s] \in Request /\ req[s].todo \subseteq DOMAIN req[s].seen
    BY <1>2 DEF AlertInv, BudgetInv, TypeInv, Stage
  <2> QED BY <2>1, SeenIs DEF Request
<1>4. /\ r.role = req[s].role /\ r.keys = req[s].keys /\ r.now = req[s].now
      /\ r.todo = req[s].todo \ {q} /\ r.closing = req[s].closing
      /\ DOMAIN r.seen = DOMAIN req[s].seen
      /\ \A p \in DOMAIN r.seen : p # q => r.seen[p] = req[s].seen[p]
      /\ r.seen[q] = [req[s].seen[q] EXCEPT !.spend = read]
  <2> HIDE DEF read
  <2> QED BY <1>3 DEF Request
<1>5. ASSUME Calm PROVE Kept("sum", r)
  <2>1. Kept("sum", req[s])
    BY <1>2, <1>5 DEF AlertInv, KeptInv
  <2>2. ASSUME Steady(q) PROVE r.seen[q] = Current(q)
    <3>1. req[s].seen[q] = SummaryOf(q, 0) /\ req[s].now = month
      BY <1>3, <2>1, <2>2 DEF Kept, Exact, Holding
    <3>2. read = Spend(Summed(q, policy[q].covers), month)
      BY <3>1 DEF SummaryOf
    <3> HIDE DEF read
    <3> QED BY <1>4, <3>1, <3>2 DEF Current, SummaryOf
  <2> HIDE DEF r
  <2>3. Exact("sum", r)
    <3> SUFFICES ASSUME NEW p \in DOMAIN r.seen, Steady(p)
                 PROVE  r.seen[p] = IF p \in r.todo THEN SummaryOf(p, 0) ELSE Current(p)
      BY DEF Exact
    <3>1. CASE p = q
      BY <1>4, <2>2, <3>1
    <3>2. CASE p # q
      BY <1>4, <2>1, <3>2 DEF Kept, Exact, Holding
    <3> QED BY <3>1, <3>2
  <2>4. Holds("sum", r)
    BY <1>4, <2>1 DEF Kept, Holds
  <2> QED BY <1>4, <2>1, <2>3, <2>4 DEF Kept, Queued, Resolving, Raising
<1> HIDE DEF r
<1> QED BY <1>2, <1>5, KeptBySlot

LEMMA StartSyncKept ==
  ASSUME AlertInv, Single, NEW s \in Slots, syncBudgetPolicyAlertsSafely(s)
  PROVE  KeptInv'
<1> DEFINE r == [req[s] EXCEPT !.now = month, !.todo = DOMAIN req[s].seen]
<1>1. /\ gatePc[s] = "sum" /\ req[s].todo = {} /\ GateGoto(s, "sync", r)
      /\ UNCHANGED <<store, month, counts>>
  BY DEF syncBudgetPolicyAlertsSafely
<1>2. /\ r.role = req[s].role /\ r.keys = req[s].keys /\ r.seen = req[s].seen
      /\ r.now = month /\ r.todo = DOMAIN req[s].seen /\ r.closing = req[s].closing
  BY DEF AlertInv, BudgetInv, TypeInv, Request
<1> HIDE DEF r
<1>3. ASSUME Calm PROVE Kept("sync", r)
  <2>1. Kept("sum", req[s])
    BY <1>1, <1>3 DEF AlertInv, KeptInv
  <2>2. Exact("sync", r)
    BY <1>1, <1>2, <2>1 DEF Kept, Exact, Holding
  <2>3. Holds("sync", r)
    BY <1>2, <2>1 DEF Kept, Holds, Holding
  <2>4. \A a \in AlertIds : Resolving("sum", req[s], a) => Resolving("sync", r, a)
    BY <1>2 DEF Resolving
  <2> QED BY <1>2, <2>1, <2>2, <2>3, <2>4 DEF Kept, Queued, Raising
<1> QED BY <1>1, <1>3, KeptBySlot

\* An alert that is left open is justified; one that is due is not listed.
LEMMA Listed ==
  ASSUME TypeInv, NEW a \in AlertIds, NEW b, NEW now,
         a[1] \in Policies, Steady(a[1]), now = month
  PROVE  /\ b = Current(a[1]) /\ Unjust(a) => shouldResolveBudgetAlert(a, b, now)
         /\ b.status = "deleted" => shouldResolveBudgetAlert(a, b, now)
         /\ b = Current(a[1]) /\ Due(a) => ~shouldResolveBudgetAlert(a, b, now)
<1>1. LET c == Current(a[1])
      IN  c.status = policy[a[1]].status /\ c.limit \in Nat \ {0} /\ c.spend \in Nat
  BY CurrentFields
<1>2. b.status = "deleted" => shouldResolveBudgetAlert(a, b, now)
  BY DEF shouldResolveBudgetAlert
<1>3. CASE b = Current(a[1])
  <2>1. Unjust(a) => shouldResolveBudgetAlert(a, b, now)
    BY <1>1, <1>3 DEF Unjust, Justified, shouldResolveBudgetAlert, hardLimitReached,
                      remainingUsd, Alert, TypeInv, StoreOK
  <2>2. Due(a) => ~shouldResolveBudgetAlert(a, b, now)
    BY <1>1, <1>3 DEF Due, Thresholds, Watched, shouldResolveBudgetAlert
  <2> QED BY <1>2, <2>1, <2>2
<1> QED BY <1>2, <1>3

LEMMA AlertIdIs ==
  ASSUME NEW a \in AlertIds
  PROVE  a = <<a[1], a[2], a[3]>> /\ a[1] \in Policies /\ a[3] \in {0} \cup Months
BY DEF AlertIds

LEMMA ListAlertsKept ==
  ASSUME AlertInv, Single, NEW s \in Slots, listAlerts(s)
  PROVE  KeptInv'
<1>1. PICK p \in req[s].todo :
         GateGoto(s, "sync",
              [req[s] EXCEPT !.todo = @ \ {p},
                             !.closing = @ \cup
                                {a \in {b \in AlertIds : b[1] = p /\ alert[b].status = "open"} :
                                   shouldResolveBudgetAlert(a, req[s].seen[p], req[s].now)}])
  BY DEF listAlerts
<1> DEFINE listed == {a \in {b \in AlertIds : b[1] = p /\ alert[b].status = "open"} :
                         shouldResolveBudgetAlert(a, req[s].seen[p], req[s].now)}
           r == [req[s] EXCEPT !.todo = @ \ {p}, !.closing = @ \cup listed]
<1>2. gatePc[s] = "sync" /\ GateGoto(s, "sync", r) /\ UNCHANGED <<store, month, counts>>
  BY <1>1 DEF listAlerts
<1>3. /\ r.role = req[s].role /\ r.keys = req[s].keys /\ r.seen = req[s].seen
      /\ r.now = req[s].now /\ r.todo = req[s].todo \ {p}
      /\ r.closing = req[s].closing \cup listed
  <2> HIDE DEF listed
  <2> QED BY DEF AlertInv, BudgetInv, TypeInv, Request
<1> HIDE DEF r
<1>4. ASSUME Calm PROVE Kept("sync", r)
  <2>1. Kept("sync", req[s])
    BY <1>2, <1>4 DEF AlertInv, KeptInv
  <2>2. TypeInv /\ req[s].now = month /\ p \in DOMAIN req[s].seen
    BY <2>1 DEF Kept, AlertInv, BudgetInv
  <2>3. Exact("sync", r)
    BY <1>3, <2>1 DEF Kept, Exact
  <2>4. Holds("sync", r)
    BY <1>3, <2>1 DEF Kept, Holds
  <2>5. Steady(p) => \/ req[s].seen[p] = Current(p)
                     \/ req[s].role = "change" /\ req[s].seen[p].status = "deleted"
    BY <2>1, <2>2 DEF Kept, Exact, Holding
  <2>6. ASSUME NEW a \in AlertIds, Unjust(a) PROVE Resolving("sync", r, a)
    <3>1. Resolving("sync", req[s], a)
      BY <2>1, <2>6 DEF Kept
    <3>2. CASE a[1] = p
      <4>1. alert[a].status = "open" /\ Steady(p) /\ p \in Policies
        BY <2>6, <3>2, AlertIdIs DEF Unjust
      <4>2. shouldResolveBudgetAlert(a, req[s].seen[p], req[s].now)
        BY <2>2, <2>5, <2>6, <3>2, <4>1, Listed
      <4>3. a \in listed
        BY <3>2, <4>1, <4>2
      <4> HIDE DEF listed
      <4> QED BY <1>3, <3>1, <4>3 DEF Resolving
    <3>3. CASE a[1] # p
      <4> HIDE DEF listed
      <4> QED BY <1>3, <3>1, <3>3 DEF Resolving
    <3> QED BY <3>2, <3>3
  <2>7. ASSUME changes = 0, NEW a \in AlertIds, Due(a)
        PROVE  a \notin r.closing /\ (alert[a].status = "open" \/ Raising("sync", r, a))
    <3>1. /\ a \notin req[s].closing
          /\ alert[a].status = "open" \/ Raising("sync", req[s], a)
      BY <2>1, <2>7 DEF Kept
    <3>2. ASSUME a[1] = p
          PROVE  ~shouldResolveBudgetAlert(a, req[s].seen[p], req[s].now)
      <4>1. Steady(p) /\ p \in Policies
        BY <2>7, <3>2, AlertIdIs DEF Due, Watched
      <4>2. req[s].seen[p] = Current(p)
        BY <2>1, <2>5, <2>7, <4>1 DEF Kept
      <4> QED BY <2>2, <2>7, <3>2, <4>1, <4>2, Listed
    <3>3. a \notin listed
      BY <3>2
    <3> HIDE DEF listed
    <3> QED BY <1>3, <3>1, <3>3 DEF Raising
  <2> HIDE DEF listed
  <2> QED BY <1>3, <2>1, <2>3, <2>4, <2>6, <2>7 DEF Kept, Queued
<1> QED BY <1>2, <1>4, KeptBySlot

\* The alerts a settled request raises are those that are due.
LEMMA SyncDoneKept ==
  ASSUME AlertInv, Single, NEW s \in Slots, SyncDone(s)
  PROVE  KeptInv'
<1>1. /\ gatePc[s] = "sync" /\ req[s].todo = {} /\ req[s].closing = {}
      /\ UNCHANGED <<store, month, counts>>
  BY DEF SyncDone
<1>2. TypeInv /\ req[s] \in Request /\ req[s].role \in {"request", "settle", "change"}
  BY <1>1 DEF AlertInv, BudgetInv, TypeInv, Stage, Request, Roles
<1>3. Calm => Kept("sync", req[s])
  BY <1>1 DEF AlertInv, KeptInv
<1>4. CASE req[s].role = "request"
  <2> DEFINE r == [req[s] EXCEPT !.todo = DOMAIN req[s].seen]
  <2>1. GateGoto(s, "gate", r)
    BY <1>4 DEF SyncDone
  <2>2. /\ r.role = req[s].role /\ r.keys = req[s].keys /\ r.seen = req[s].seen
        /\ r.now = req[s].now /\ r.closing = req[s].closing
    BY <1>2 DEF Request
  <2> HIDE DEF r
  <2>3. ASSUME Calm PROVE Kept("gate", r)
    <3>1. /\ \A a \in AlertIds : ~Unjust(a)
          /\ changes = 0 => \A a \in AlertIds : Due(a) => alert[a].status = "open"
      BY <1>3, <1>4, <2>3, AtRest
    <3>2. Exact("gate", r)
      BY <1>3, <1>4, <2>2, <2>3 DEF Kept, Exact, Holding
    <3>3. Holds("gate", r)
      BY <1>3, <1>4, <2>2, <2>3 DEF Kept, Holds, Holding
    <3> QED BY <1>1, <1>3, <1>4, <2>2, <2>3, <3>1, <3>2, <3>3 DEF Kept, Queued
  <2> QED BY <1>1, <2>1, <2>3, KeptBySlot
<1>5. CASE req[s].role = "settle"
  <2> DEFINE queue == ThresholdAlerts(req[s].seen, month)
             r     == [NoRequest EXCEPT !.queue = queue, !.estimate = 0]
  <2>1. GateGoto(s, "alerts", r)
    BY <1>5 DEF SyncDone, Notify
  <2>2. r.role = "none" /\ r.closing = {} /\ r.queue = queue
    <3> HIDE DEF queue
    <3> QED BY DEF NoRequest
  <2> HIDE DEF r
  <2>3. ASSUME Calm PROVE Kept("alerts", r)
    <3>1. \A p \in DOMAIN req[s].seen : Steady(p) =>
             req[s].seen[p] = Current(p) /\ policy[p].status = "active"
      BY <1>3, <1>5, <2>3 DEF Kept, Exact, Holds, Holding
    <3>2. Queued("alerts", r)
      BY <2>2, <3>1 DEF Queued, ThresholdAlerts, Thresholds
    <3>3. \A a \in AlertIds : ~Unjust(a)
      BY <1>1, <1>3, <1>5, <2>3 DEF Kept, Resolving
    <3>4. ASSUME changes = 0, NEW a \in AlertIds, Due(a)
          PROVE  alert[a].status = "open" \/ Raising("alerts", r, a)
      <4>1. CASE a[1] \in DOMAIN req[s].seen
        <5>1. req[s].seen[a[1]] = Current(a[1])
          BY <3>1, <3>4, <4>1 DEF Due, Watched
        <5>2. a \in (DOMAIN req[s].seen) \X Thresholds \X {month}
          BY <3>4, <4>1, AlertIdIs DEF Due
        <5>3. a \in queue
          BY <3>4, <5>1, <5>2 DEF ThresholdAlerts, Due
        <5> QED BY <2>2, <5>3 DEF Raising
      <4>2. CASE a[1] \notin DOMAIN req[s].seen
        BY <1>3, <2>3, <3>4, <4>2 DEF Kept, Raising
      <4> QED BY <4>1, <4>2
    <3> HIDE DEF queue
    <3> QED BY <1>3, <2>2, <2>3, <3>2, <3>3, <3>4 DEF Kept, Exact, Holds, Holding
  <2> QED BY <1>1, <2>1, <2>3, KeptBySlot
<1>6. CASE req[s].role = "change"
  <2>1. GateGoto(s, "idle", NoRequest)
    BY <1>6 DEF SyncDone, Finish
  <2>2. Calm => Kept("idle", NoRequest)
    BY <1>1, <1>3, <1>6, AtRest, KeptIdle
  <2> QED BY <1>1, <2>1, <2>2, KeptBySlot
<1> QED BY <1>2, <1>4, <1>5, <1>6

\* A request at the gate knows what its budgets stand at.
LEMMA AtGate ==
  ASSUME AlertInv, NEW s \in Slots, gatePc[s] \in {"gate", "upstream"}, Calm
  PROVE  /\ Kept(gatePc[s], req[s]) /\ TypeInv /\ req[s].role = "request"
         /\ DOMAIN req[s].seen \subseteq Policies
         /\ \A p \in DOMAIN req[s].seen : Steady(p) =>
               req[s].seen[p] = Current(p) /\ policy[p].status = "active"
         /\ \A a \in AlertIds : ~Unjust(a)
         /\ changes = 0 => \A a \in AlertIds : Due(a) => alert[a].status = "open"
<1>1. Kept(gatePc[s], req[s]) /\ TypeInv
  BY DEF AlertInv, KeptInv, BudgetInv
<1>2. req[s].role = "request" /\ req[s] \in Request
  BY <1>1 DEF TypeInv, Stage
<1>3. DOMAIN req[s].seen \subseteq Policies
  BY <1>2, SeenIs DEF Request
<1>4. \A p \in DOMAIN req[s].seen : Steady(p) =>
         req[s].seen[p] = Current(p) /\ policy[p].status = "active"
  BY <1>1, <1>2 DEF Kept, Exact, Holds, Holding
<1> QED BY <1>1, <1>2, <1>3, <1>4, AtRest

\* A refusal opens alerts that are justified.
LEMMA NotifyKept ==
  ASSUME AlertInv, Single, NEW s \in Slots, gatePc[s] = "gate",
         UNCHANGED <<store, month, counts>>,
         NEW queue, NEW estimate, Notify(s, queue, estimate),
         Calm => \A a \in queue :
            /\ a[1] \in DOMAIN req[s].seen /\ a[3] \in {0, month}
            /\ LET b == req[s].seen[a[1]]
               IN  /\ a[2] = "soft-limit" => softLimitReached(b)
                   /\ a[2] = "hard-limit" => hardLimitReached(b)
                   /\ a[2] = "preflight-block" => /\ 0 < remainingUsd(b)
                                                  /\ remainingUsd(b) < estimate
  PROVE  KeptInv'
<1> DEFINE r == [NoRequest EXCEPT !.queue = queue, !.estimate = estimate]
<1>1. GateGoto(s, "alerts", r)
  BY DEF Notify
<1>2. r.role = "none" /\ r.closing = {} /\ r.queue = queue /\ r.estimate = estimate
  BY DEF NoRequest
<1> HIDE DEF r
<1>3. ASSUME Calm PROVE Kept("alerts", r)
  <2>1. /\ Kept("gate", req[s])
        /\ \A p \in DOMAIN req[s].seen : Steady(p) =>
              req[s].seen[p] = Current(p) /\ policy[p].status = "active"
        /\ \A a \in AlertIds : ~Unjust(a)
        /\ changes = 0 => \A a \in AlertIds : Due(a) => alert[a].status = "open"
    BY <1>3, AtGate
  <2>2. Queued("alerts", r)
    BY <1>2, <1>3, <2>1 DEF Queued
  <2> QED BY <1>2, <2>1, <2>2 DEF Kept, Exact, Holds, Holding
<1> QED BY <1>1, <1>3, KeptBySlot

LEMMA RefuseKept ==
  ASSUME AlertInv, Single, NEW s \in Slots,
         refuseUnpriced(s) \/ refuseExceedsHeadroom(s) \/ refuseExhausted(s)
  PROVE  KeptInv'
<1>1. CASE refuseUnpriced(s)
  <2> DEFINE queue == (DOMAIN req[s].seen) \X {"pricing-unavailable"} \X {0}
  <2>1. gatePc[s] = "gate" /\ Notify(s, queue, 0) /\ UNCHANGED <<store, month, counts>>
    BY <1>1 DEF refuseUnpriced
  <2>2. \A a \in queue : /\ a[1] \in DOMAIN req[s].seen
                         /\ a[2] = "pricing-unavailable" /\ a[3] = 0
    OBVIOUS
  <2> HIDE DEF queue
  <2> QED BY <2>1, <2>2, NotifyKept
<1>2. CASE refuseExceedsHeadroom(s)
  <2>1. PICK estimate \in 0 .. MaxEstimate :
           Notify(s, Blocked(s, estimate) \X {"preflight-block"} \X {month}, estimate)
    BY <1>2 DEF refuseExceedsHeadroom
  <2> DEFINE queue == Blocked(s, estimate) \X {"preflight-block"} \X {month}
  <2>2. gatePc[s] = "gate" /\ Notify(s, queue, estimate) /\ UNCHANGED <<store, month, counts>>
    BY <1>2, <2>1 DEF refuseExceedsHeadroom, Priced
  <2>3. ASSUME Calm, NEW a \in queue
        PROVE  /\ a[1] \in DOMAIN req[s].seen
               /\ a[2] = "preflight-block" /\ a[3] = month
               /\ 0 < remainingUsd(req[s].seen[a[1]])
               /\ remainingUsd(req[s].seen[a[1]]) < estimate
    <3>1. a[1] \in Blocked(s, estimate) /\ a[2] = "preflight-block" /\ a[3] = month
      OBVIOUS
    <3>2. req[s].seen[a[1]] \in Summary
      <4>1. req[s].seen \in Seen /\ a[1] \in DOMAIN req[s].seen
        BY <3>1 DEF Blocked, AlertInv, BudgetInv, TypeInv, Request
      <4> QED BY <4>1, SeenIs
    <3>3. remainingUsd(req[s].seen[a[1]]) \in Nat
      <4>1. /\ req[s].seen[a[1]].limit \in Nat
            /\ req[s].seen[a[1]].spend \in Nat
        BY <3>2, BudgetConstantsOK DEF Summary
      <4> QED BY <4>1 DEF remainingUsd
    <3>4. /\ a[1] \in DOMAIN req[s].seen /\ remainingUsd(req[s].seen[a[1]]) > 0
          /\ estimate > remainingUsd(req[s].seen[a[1]])
      BY <3>1 DEF Blocked
    <3> QED BY <3>1, <3>3, <3>4
  <2> HIDE DEF queue
  <2> QED BY <2>2, <2>3, NotifyKept
<1>3. CASE refuseExhausted(s)
  <2> DEFINE seen  == [p \in Exhausted(s) |-> req[s].seen[p]]
             queue == ThresholdAlerts(seen, month)
  <2>1. gatePc[s] = "gate" /\ Notify(s, queue, 0) /\ UNCHANGED <<store, month, counts>>
    BY <1>3 DEF refuseExhausted, Priced
  <2>2. \A a \in queue :
           /\ a[1] \in DOMAIN req[s].seen /\ a[2] \in Thresholds /\ a[3] = month
           /\ IF a[2] = "soft-limit" THEN softLimitReached(req[s].seen[a[1]])
                                     ELSE hardLimitReached(req[s].seen[a[1]])
    BY DEF ThresholdAlerts, Exhausted
  <2> HIDE DEF queue
  <2> QED BY <2>1, <2>2, NotifyKept DEF Thresholds
<1> QED BY <1>1, <1>2, <1>3

LEMMA InvokeKept ==
  ASSUME AlertInv, Single, NEW s \in Slots, invokeProvider(s)
  PROVE  KeptInv'
<1>1. PICK estimate \in 0 .. MaxEstimate :
         GateGoto(s, "upstream", [req[s] EXCEPT !.estimate = estimate])
  BY DEF invokeProvider
<1> DEFINE r == [req[s] EXCEPT !.estimate = estimate]
<1>2. gatePc[s] = "gate" /\ GateGoto(s, "upstream", r) /\ UNCHANGED <<store, month, counts>>
  BY <1>1 DEF invokeProvider, Priced
<1>3. /\ r.role = req[s].role /\ r.keys = req[s].keys /\ r.seen = req[s].seen
      /\ r.now = req[s].now /\ r.todo = req[s].todo /\ r.closing = req[s].closing
  BY DEF AlertInv, BudgetInv, TypeInv, Request
<1> HIDE DEF r
<1>4. ASSUME Calm PROVE Kept("upstream", r)
  <2>1. /\ Kept("gate", req[s]) /\ req[s].role = "request"
        /\ \A a \in AlertIds : ~Unjust(a)
        /\ changes = 0 => \A a \in AlertIds : Due(a) => alert[a].status = "open"
    BY <1>2, <1>4, AtGate
  <2>2. Exact("upstream", r)
    BY <1>3, <2>1 DEF Kept, Exact, Holding
  <2>3. Holds("upstream", r)
    BY <1>3, <2>1 DEF Kept, Holds, Holding
  <2> QED BY <1>3, <2>1, <2>2, <2>3 DEF Kept, Queued
<1> QED BY <1>2, <1>4, KeptBySlot

LEMMA EndKept ==
  ASSUME AlertInv, Single, NEW s \in Slots, upstreamFailed(s) \/ replied(s)
  PROVE  KeptInv'
<1>1. /\ gatePc[s] = "upstream" \/ (gatePc[s] = "alerts" /\ req[s].queue = {})
      /\ GateGoto(s, "idle", NoRequest) /\ UNCHANGED <<store, month, counts>>
  BY DEF upstreamFailed, replied, Finish
<1>2. ASSUME Calm PROVE Kept("idle", NoRequest)
  <2>1. Kept(gatePc[s], req[s])
    BY <1>2 DEF AlertInv, KeptInv
  <2> QED BY <1>1, <2>1, AtRest, KeptIdle
<1> QED BY <1>1, <1>2, KeptBySlot

LEMMA RereadKept ==
  ASSUME AlertInv, Single, NEW s \in Slots, getBudgetPolicySummaryById(s)
  PROVE  KeptInv'
<1> DEFINE seen == [p \in req[s].todo |-> SummaryOf(p, 0)]
           r    == [req[s] EXCEPT !.seen = seen, !.now = month]
<1>1. gatePc[s] = "reread" /\ GateGoto(s, "sum", r) /\ UNCHANGED <<store, month, counts>>
  BY DEF getBudgetPolicySummaryById
<1>2. /\ r.role = "change" /\ r.seen = seen /\ r.now = month
      /\ r.todo = req[s].todo /\ r.closing = req[s].closing
      /\ req[s].role = "change"
  <2> HIDE DEF seen
  <2> QED BY <1>1 DEF AlertInv, BudgetInv, TypeInv, Stage, Request
<1>3. DOMAIN seen = req[s].todo /\ \A p \in DOMAIN seen : seen[p] = SummaryOf(p, 0)
  OBVIOUS
<1> HIDE DEF r, seen
<1>4. ASSUME Calm PROVE Kept("sum", r)
  <2>1. Kept("reread", req[s])
    BY <1>1, <1>4 DEF AlertInv, KeptInv
  <2>2. Exact("sum", r)
    BY <1>2, <1>3 DEF Exact
  <2>3. \A a \in AlertIds : Resolving("reread", req[s], a) => Resolving("sum", r, a)
    BY <1>2, <1>3 DEF Resolving
  <2> QED BY <1>2, <2>1, <2>2, <2>3 DEF Kept, Holds, Queued
<1> QED BY <1>1, <1>4, KeptBySlot

\* After an error, a crash, or an alert changed by hand nothing is claimed.
LEMMA UpsetKept ==
  ASSUME AlertInv,
         \/ DbError
         \/ overrides' = overrides + 1
         \/ straddles' = straddles + 1
  PROVE  KeptInv'
<1>1. overrides \in Nat /\ straddles \in Nat /\ dbErrors \in Nat
  BY DEF AlertInv, BudgetInv, TypeInv, StoreOK
<1>2. ~Calm'
  BY <1>1 DEF Calm, DbError
<1> QED BY <1>2 DEF KeptInv

-----------------------------------------------------------------------------
(* Alerts: the steps that write one *)

LEMMA AlertElsewhere ==
  ASSUME UNCHANGED <<policy, ledger, moved, month, moves>>,
         NEW a \in AlertIds
  PROVE  /\ alert'[a] = alert[a] => (Unjust(a)' <=> Unjust(a))
         /\ alert'[a].status # "open" => ~Unjust(a)'
         /\ Due(a)' <=> Due(a)
<1>1. /\ Current(a[1])' = Current(a[1]) /\ Steady(a[1])' = Steady(a[1])
      /\ Watched(a[1])' = Watched(a[1])
  BY Frozen
<1>2. CASE alert'[a] = alert[a]
  <2>1. Justified(a, Current(a[1]))' <=> Justified(a, Current(a[1]))
    BY <1>1, <1>2 DEF Justified, softLimitReached, hardLimitReached, remainingUsd
  <2> QED BY <1>1, <1>2, <2>1 DEF Unjust, Due, softLimitReached, hardLimitReached
<1>3. alert'[a].status # "open" => ~Unjust(a)'
  BY DEF Unjust
<1>4. Due(a)' <=> Due(a)
  BY <1>1 DEF Due, softLimitReached, hardLimitReached
<1> QED BY <1>2, <1>3, <1>4

\* The slot goes on after it wrote the alert x.
LEMMA KeptByAlert ==
  ASSUME AlertInv, Single, NEW s \in Slots, NEW step, NEW r, GateGoto(s, step, r),
         UNCHANGED <<policy, ledger, moved, month, moves, changes>>,
         NEW x \in AlertIds, \A a \in AlertIds : a # x => alert'[a] = alert[a],
         Calm',
         step \in {"sum", "sync"} => r.now = month,
         IF step = "sync" THEN r.todo \subseteq DOMAIN r.seen ELSE r.closing = {},
         r.role = "change" => changes # 0,
         Exact(step, r), Queued(step, r), Dated,
         alert'[x].status = "open" /\ Steady(x[1]) =>
            /\ step \notin Holding
            /\ policy[x[1]].status # "none" /\ x[3] <= month,
         Holds(step, r),
         Unjust(x)' => Resolving(step, r, x),
         \A a \in AlertIds \ {x} : Unjust(a) => Resolving(step, r, a),
         changes = 0 => \A a \in AlertIds : Due(a) =>
            /\ a \notin r.closing
            /\ a # x => alert[a].status = "open" \/ Raising(step, r, a)
            /\ a = x => alert'[a].status = "open" \/ Raising(step, r, a)
  PROVE  KeptInv'
<1> SUFFICES ASSUME NEW t \in Slots PROVE Kept(gatePc[t], req[t])'
  BY DEF KeptInv
<1>1. gatePc'[t] = step /\ req'[t] = r
  BY SlotIs DEF AlertInv, BudgetInv
<1>2. \A p : /\ Current(p)' = Current(p) /\ Steady(p)' = Steady(p)
             /\ Watched(p)' = Watched(p)
             /\ \A n : SummaryOf(p, n)' = SummaryOf(p, n)
  BY Frozen
<1>3. \A a \in AlertIds : /\ a # x => (Unjust(a)' <=> Unjust(a))
                          /\ Due(a)' <=> Due(a)
  BY AlertElsewhere
<1>4. Exact(gatePc[t], req[t])'
  BY <1>1, <1>2 DEF Exact
<1>5. Holds(gatePc[t], req[t])'
  <2>1. CASE step \notin Holding
    BY <1>1, <2>1 DEF Holds
  <2>2. CASE step \in Holding
    <3>1. \A a \in AlertIds : Steady(a[1]) /\ alert'[a].status = "open" => alert[a].status = "open"
      BY <2>2
    <3> QED BY <1>1, <1>2, <3>1 DEF Holds, Watched
  <2> QED BY <2>1, <2>2
<1>6. Queued(gatePc[t], req[t])'
  BY <1>1, <1>2 DEF Queued, softLimitReached, hardLimitReached, remainingUsd
<1>7. Dated'
  BY <1>2 DEF Dated
<1>8. \A a \in AlertIds : Unjust(a)' => Resolving(gatePc[t], req[t], a)'
  BY <1>1, <1>3 DEF Resolving
<1>9. changes' = 0 => \A a \in AlertIds : Due(a)' =>
         /\ a \notin req'[t].closing
         /\ alert'[a].status = "open" \/ Raising(gatePc[t], req[t], a)'
  BY <1>1, <1>3 DEF Raising
<1> QED BY <1>1, <1>4, <1>5, <1>6, <1>7, <1>8, <1>9 DEF Kept

LEMMA UpdateAlertKept ==
  ASSUME AlertInv, Single, NEW s \in Slots, updateAlert(s)
  PROVE  KeptInv'
<1>1. PICK x \in req[s].closing :
         /\ alert' = [alert EXCEPT ![x].status = "resolved"]
         /\ GateGoto(s, "sync", [req[s] EXCEPT !.closing = @ \ {x}])
  BY DEF updateAlert
<1> DEFINE r == [req[s] EXCEPT !.closing = @ \ {x}]
<1>2. /\ gatePc[s] = "sync" /\ GateGoto(s, "sync", r)
      /\ UNCHANGED <<policy, ledger, moved, month, moves, changes>>
      /\ UNCHANGED counts
  BY <1>1 DEF updateAlert, counts
<1>3. x \in AlertIds /\ alert \in [AlertIds -> Alert]
  BY DEF AlertInv, BudgetInv, TypeInv, StoreOK, Request
<1>4. /\ r.role = req[s].role /\ r.keys = req[s].keys /\ r.seen = req[s].seen
      /\ r.now = req[s].now /\ r.todo = req[s].todo /\ r.closing = req[s].closing \ {x}
  BY DEF AlertInv, BudgetInv, TypeInv, Request
<1>5. /\ \A a \in AlertIds : a # x => alert'[a] = alert[a]
      /\ alert'[x].status = "resolved"
  BY <1>1, <1>3 DEF Alert
<1> HIDE DEF r
<1>6. SUFFICES ASSUME Calm' PROVE KeptInv'
  BY DEF KeptInv
<1>7. Kept("sync", req[s])
  BY <1>2, <1>6 DEF AlertInv, KeptInv, Calm, counts
<1>8. Exact("sync", r) /\ Holds("sync", r) /\ Queued("sync", r)
  BY <1>4, <1>7 DEF Kept, Exact, Holds, Queued
<1>9. ~Unjust(x)'
  BY <1>2, <1>3, <1>5, AlertElsewhere
<1>10. \A a \in AlertIds \ {x} : Unjust(a) => Resolving("sync", r, a)
  BY <1>4, <1>7 DEF Kept, Resolving
<1>11. changes = 0 => \A a \in AlertIds : Due(a) =>
          a # x /\ a \notin r.closing /\ (alert[a].status = "open" \/ Raising("sync", r, a))
  BY <1>4, <1>7 DEF Kept, Raising
<1>12. /\ r.now = month /\ r.todo \subseteq DOMAIN r.seen
       /\ r.role = "change" => changes # 0
       /\ Dated
  BY <1>4, <1>7 DEF Kept
<1> QED BY <1>2, <1>3, <1>5, <1>6, <1>8, <1>9, <1>10, <1>11, <1>12, KeptByAlert

LEMMA PricingKept ==
  ASSUME AlertInv, Single, NEW s \in Slots, resolveBudgetPricingUnavailableAlerts(s)
  PROVE  KeptInv'
<1>1. PICK p \in req[s].todo :
         /\ \/ /\ alert' = IF alert[<<p, "pricing-unavailable", 0>>].status = "open"
                            THEN [alert EXCEPT ![<<p, "pricing-unavailable", 0>>].status = "resolved"]
                            ELSE alert
               /\ UNCHANGED dbErrors
            \/ DbError
         /\ GateGoto(s, "gate", [req[s] EXCEPT !.todo = @ \ {p}])
  BY DEF resolveBudgetPricingUnavailableAlerts
<1> DEFINE x == <<p, "pricing-unavailable", 0>>
           r == [req[s] EXCEPT !.todo = @ \ {p}]
<1>2. /\ gatePc[s] = "gate" /\ GateGoto(s, "gate", r)
      /\ UNCHANGED <<policy, ledger, moved, month, moves, changes, straddles, overrides>>
  BY <1>1 DEF resolveBudgetPricingUnavailableAlerts
<1>3. x \in AlertIds /\ alert \in [AlertIds -> Alert]
  BY DEF AlertInv, BudgetInv, TypeInv, StoreOK, Request, AlertIds
<1>4. /\ r.role = req[s].role /\ r.keys = req[s].keys /\ r.seen = req[s].seen
      /\ r.closing = req[s].closing
  BY DEF AlertInv, BudgetInv, TypeInv, Request
<1>5. CASE DbError
  BY <1>5, UpsetKept
<1>6. CASE UNCHANGED dbErrors /\ alert' = IF alert[x].status = "open"
                                        THEN [alert EXCEPT ![x].status = "resolved"]
                                        ELSE alert
  <2>1. /\ \A a \in AlertIds : a # x => alert'[a] = alert[a]
        /\ alert'[x].status # "open"
    BY <1>3, <1>6 DEF Alert
  <2>2. ~Due(x)
    BY DEF Due, Thresholds
  <2> HIDE DEF r, x
  <2>3. SUFFICES ASSUME Calm' PROVE KeptInv'
    BY DEF KeptInv
  <2>4. Calm
    BY <1>2, <1>6, <2>3 DEF Calm
  <2>5. /\ Kept("gate", req[s]) /\ req[s].role = "request"
        /\ \A a \in AlertIds : ~Unjust(a)
        /\ changes = 0 => \A a \in AlertIds : Due(a) => alert[a].status = "open"
    BY <1>2, <2>4, AtGate
  <2>6. Exact("gate", r) /\ Holds("gate", r) /\ Queued("gate", r)
    BY <1>4, <2>5 DEF Kept, Exact, Holds, Queued
  <2>7. ~Unjust(x)'
    BY <1>2, <1>3, <2>1, AlertElsewhere
  <2>8. /\ r.closing = {} /\ r.role # "change" /\ Dated
    BY <1>4, <2>5 DEF Kept
  <2> QED BY <1>2, <1>3, <2>1, <2>2, <2>3, <2>5, <2>6, <2>7, <2>8, KeptByAlert
<1> QED BY <1>1, <1>5, <1>6

LEMMA UpsertKept ==
  ASSUME AlertInv, Single, NEW s \in Slots, upsertAlert(s)
  PROVE  KeptInv'
<1>1. PICK x \in req[s].queue :
         /\ \/ /\ alert' = [alert EXCEPT ![x] =
                     [status |-> "open",
                      estimate |-> IF x[2] = "preflight-block"
                                   THEN req[s].estimate ELSE 0]]
               /\ UNCHANGED dbErrors
            \/ DbError
         /\ GateGoto(s, "alerts", [req[s] EXCEPT !.queue = @ \ {x}])
  BY DEF upsertAlert
<1> DEFINE r == [req[s] EXCEPT !.queue = @ \ {x}]
<1>2. /\ gatePc[s] = "alerts" /\ GateGoto(s, "alerts", r)
      /\ UNCHANGED <<policy, ledger, moved, month, moves, changes, straddles, overrides>>
  BY <1>1 DEF upsertAlert
<1>3. /\ x \in AlertIds /\ alert \in [AlertIds -> Alert] /\ month \in Nat
  BY DEF AlertInv, BudgetInv, TypeInv, StoreOK, Request, Months
<1>4. /\ r.role = req[s].role /\ r.closing = req[s].closing
      /\ r.queue = req[s].queue \ {x} /\ r.estimate = req[s].estimate
  BY DEF AlertInv, BudgetInv, TypeInv, Request
<1> HIDE DEF r
<1>5. CASE DbError
  BY <1>5, UpsetKept
<1>6. CASE UNCHANGED dbErrors /\ alert' = [alert EXCEPT ![x] =
                     [status |-> "open",
                      estimate |-> IF x[2] = "preflight-block"
                                   THEN req[s].estimate ELSE 0]]
  <2>1. /\ \A a \in AlertIds : a # x => alert'[a] = alert[a]
        /\ alert'[x].status = "open"
        /\ x[2] = "preflight-block" => alert'[x].estimate = req[s].estimate
    BY <1>3, <1>6
  <2>2. SUFFICES ASSUME Calm' PROVE KeptInv'
    BY DEF KeptInv
  <2>3. Kept("alerts", req[s])
    BY <1>2, <1>6, <2>2 DEF AlertInv, KeptInv, Calm
  <2>4. /\ Queued("alerts", r) /\ Exact("alerts", r) /\ Holds("alerts", r)
    BY <1>4, <2>3 DEF Kept, Queued, Exact, Holds, Holding
  <2>5. Steady(x[1]) =>
           /\ x[3] \in {0, month}
           /\ policy[x[1]].status = "active"
           /\ x[2] = "soft-limit" => softLimitReached(Current(x[1]))
           /\ x[2] = "hard-limit" => hardLimitReached(Current(x[1]))
           /\ x[2] = "preflight-block" => /\ 0 < remainingUsd(Current(x[1]))
                                          /\ remainingUsd(Current(x[1])) < req[s].estimate
    BY <2>3 DEF Kept, Queued
  <2>6. ~Unjust(x)'
    <3> SUFFICES ASSUME Steady(x[1])' PROVE Justified(x, Current(x[1]))'
      BY DEF Unjust
    <3>1. Current(x[1])' = Current(x[1]) /\ Steady(x[1])
      BY <1>2, Frozen
    <3>2. Current(x[1]).status = policy[x[1]].status
      BY DEF Current, SummaryOf
    <3> QED BY <2>1, <2>5, <3>1, <3>2
            DEF Justified, softLimitReached, hardLimitReached, remainingUsd
  <2>7. \A a \in AlertIds : ~Unjust(a)
    BY <2>3 DEF Kept, Resolving
  <2>8. changes = 0 => \A a \in AlertIds : Due(a) =>
           a \notin r.closing /\ (a # x => alert[a].status = "open" \/ Raising("alerts", r, a))
    BY <1>4, <2>3 DEF Kept, Raising
  <2>9. r.closing = {} /\ (r.role = "change" => changes # 0) /\ Dated
    BY <1>4, <2>3 DEF Kept
  <2>10. Steady(x[1]) => policy[x[1]].status # "none" /\ x[3] <= month
    BY <1>3, <2>5
  <2>11. "alerts" \notin Holding
    BY DEF Holding
  <2> QED BY <1>2, <1>3, <2>1, <2>2, <2>4, <2>6, <2>7, <2>8, <2>9, <2>10, <2>11, KeptByAlert
<1> QED BY <1>1, <1>5, <1>6

-----------------------------------------------------------------------------
(* Alerts: the cost of a request *)

\* A cost is in the summary of a policy as soon as it is booked.
LEMMA CurrentBooked ==
  ASSUME TypeInv, NEW p \in Policies, Steady(p), NEW k \in Keys, NEW cost \in Nat,
         ledger' = [ledger EXCEPT ![month][k] = @ + cost],
         UNCHANGED <<policy, moved, month, moves>>
  PROVE  Current(p)' = SummaryOf(p, Spend(policy[p].covers, month)
                                       + (IF k \in policy[p].covers THEN cost ELSE 0))
<1>1. PICK covers \in SUBSET Keys, m \in Months : covers = policy[p].covers /\ m = month
  BY DEF TypeInv, StoreOK, Policy
<1>2. Summed(p, policy[p].covers)' = covers
  BY <1>1, CurrentIs DEF Summed
<1>3. Spend(Summed(p, policy[p].covers), month)' = Spend(covers, m)'
  BY <1>1, <1>2 DEF Spend
<1>4. Spend(covers, m)' = Spend(covers, m)
                             + (IF m = month /\ k \in covers THEN cost ELSE 0)
  BY SpendBooked
<1>5. Spend(Summed(p, policy[p].covers), month)'
         = Spend(policy[p].covers, month) + (IF k \in policy[p].covers THEN cost ELSE 0)
  BY <1>1, <1>3, <1>4
<1> QED BY <1>5 DEF Current, SummaryOf

LEMMA RecordKept ==
  ASSUME AlertInv, Single, NEW s \in Slots, recordResolvedProviderUsage(s)
  PROVE  KeptInv'
<1>1. PICK k \in req[s].keys : \E cost \in Costs(s, k) :
         /\ \/ /\ ledger' = [ledger EXCEPT ![month][k] = @ + cost]
               /\ UNCHANGED dbErrors
            \/ UNCHANGED ledger /\ DbError
         /\ Settled(s, cost)
  BY DEF recordResolvedProviderUsage
<1>2. PICK cost \in Costs(s, k) :
         /\ \/ /\ ledger' = [ledger EXCEPT ![month][k] = @ + cost]
               /\ UNCHANGED dbErrors
            \/ DbError
         /\ Settled(s, cost)
  BY <1>1
<1> DEFINE seen == applyUsageCostToBudget(req[s].seen, cost)
           r    == [req[s] EXCEPT !.role = "settle", !.now = month, !.estimate = 0,
                                  !.todo = DOMAIN req[s].seen, !.seen = seen]
<1>3. /\ gatePc[s] = "upstream" /\ GateGoto(s, "sync", r)
      /\ UNCHANGED <<policy, alert, moved, month, moves, changes, straddles, overrides>>
  BY <1>2 DEF recordResolvedProviderUsage, Settled
<1>4. TypeInv /\ req[s] \in Request /\ k \in Keys /\ cost \in Nat
  <2>1. TypeInv /\ req[s] \in Request /\ k \in Keys
    BY DEF AlertInv, BudgetInv, TypeInv, Request
  <2> QED BY <2>1, CostsBounded
<1>5. /\ r.role = "settle" /\ r.keys = req[s].keys /\ r.now = month
      /\ r.todo = DOMAIN req[s].seen /\ r.closing = req[s].closing /\ r.seen = seen
  <2> HIDE DEF seen
  <2> QED BY <1>4 DEF Request
<1>6. /\ DOMAIN seen = DOMAIN req[s].seen
      /\ \A p \in DOMAIN seen : seen[p] = [req[s].seen[p] EXCEPT !.spend = @ + cost]
  BY DEF applyUsageCostToBudget
<1> HIDE DEF r, seen
<1>7. CASE DbError
  BY <1>7, UpsetKept
<1>8. CASE ledger' = [ledger EXCEPT ![month][k] = @ + cost] /\ UNCHANGED dbErrors
  <2>1. SUFFICES ASSUME Calm', NEW t \in Slots PROVE Kept(gatePc[t], req[t])'
    BY DEF KeptInv
  <2>2. gatePc'[t] = "sync" /\ req'[t] = r
    BY <1>3, <1>4, SlotIs
  <2>3. Calm
    BY <1>3, <1>8, <2>1 DEF Calm
  <2>4. /\ Kept("upstream", req[s]) /\ req[s].role = "request"
        /\ DOMAIN req[s].seen \subseteq Policies
        /\ \A p \in DOMAIN req[s].seen : Steady(p) =>
              req[s].seen[p] = Current(p) /\ policy[p].status = "active"
        /\ \A a \in AlertIds : ~Unjust(a)
        /\ changes = 0 => \A a \in AlertIds : Due(a) => alert[a].status = "open"
    BY <1>3, <2>3, AtGate
  <2>5. /\ req[s].keys = {k}
        /\ \A p \in DOMAIN req[s].seen : Steady(p) => k \in policy[p].covers
        /\ \A p \in Policies \ DOMAIN req[s].seen :
              Watched(p) /\ k \in policy[p].covers =>
                 /\ changes # 0
                 /\ \A a \in AlertIds : a[1] = p => alert[a].status # "open"
    BY <2>4 DEF Kept, Holds, Holding
  <2>6. \A p : /\ Steady(p)' = Steady(p) /\ Watched(p)' = Watched(p)
    BY <1>3 DEF Steady, Watched
  <2>7. ASSUME NEW p \in Policies, Steady(p), k \notin policy[p].covers
        PROVE  Current(p)' = Current(p)
    <3>1. Spend(policy[p].covers, month) \in Nat
          /\ Current(p) = SummaryOf(p, Spend(policy[p].covers, month))
      BY <1>4, <2>7, CurrentIs
    <3>2. Current(p)' = SummaryOf(p, Spend(policy[p].covers, month) + 0)
      BY <1>3, <1>4, <1>8, <2>7, CurrentBooked
    <3> QED BY <3>1, <3>2
  <2>8. ASSUME NEW p \in DOMAIN req[s].seen, Steady(p)
        PROVE  seen[p] = Current(p)'
    <3>1. /\ p \in Policies /\ k \in policy[p].covers
          /\ req[s].seen[p] = SummaryOf(p, Spend(policy[p].covers, month))
      BY <1>4, <2>4, <2>5, <2>8, CurrentIs
    <3>2. Current(p)' = SummaryOf(p, Spend(policy[p].covers, month) + cost)
      BY <1>3, <1>4, <1>8, <2>8, <3>1, CurrentBooked
    <3> QED BY <1>6, <3>1, <3>2 DEF SummaryOf
  <2>9. Exact(gatePc[t], req[t])'
    BY <1>5, <1>6, <2>2, <2>6, <2>8 DEF Exact
  <2>10. Holds(gatePc[t], req[t])'
    BY <1>3, <1>4, <1>5, <1>6, <2>2, <2>4, <2>5, <2>6 DEF Holds
  <2>11. ASSUME NEW a \in AlertIds, a[1] \notin DOMAIN req[s].seen,
                Steady(a[1]), k \notin policy[a[1]].covers
         PROVE  (Unjust(a)' <=> Unjust(a)) /\ (Due(a)' <=> Due(a))
    <3>1. Current(a[1])' = Current(a[1])
      BY <2>7, <2>11, AlertIdIs
    <3>2. Justified(a, Current(a[1]))' <=> Justified(a, Current(a[1]))
      BY <1>3, <3>1 DEF Justified, softLimitReached, hardLimitReached, remainingUsd
    <3> QED BY <1>3, <2>6, <3>1, <3>2 DEF Unjust, Due, softLimitReached, hardLimitReached
  <2>12. ASSUME NEW a \in AlertIds, Unjust(a)'
         PROVE  Resolving(gatePc[t], req[t], a)'
    <3> SUFFICES ASSUME a[1] \notin DOMAIN req[s].seen PROVE FALSE
      BY <1>5, <2>2 DEF Resolving
    <3>1. Steady(a[1]) /\ alert[a].status = "open" /\ a[3] \in {0, month} /\ a[1] \in Policies
      BY <1>3, <2>6, <2>12, AlertIdIs DEF Unjust
    <3>2. Watched(a[1])
      <4>1. Justified(a, Current(a[1]))
        BY <2>4, <3>1 DEF Unjust
      <4> QED BY <3>1, <4>1 DEF Justified, Current, SummaryOf, Watched
    <3>3. k \notin policy[a[1]].covers
      BY <2>5, <3>1, <3>2
    <3> QED BY <2>4, <2>11, <2>12, <3>1, <3>3
  <2>13. ASSUME changes = 0, NEW a \in AlertIds, Due(a)'
         PROVE  alert[a].status = "open" \/ a[1] \in DOMAIN req[s].seen
    <3> SUFFICES ASSUME a[1] \notin DOMAIN req[s].seen PROVE alert[a].status = "open"
      OBVIOUS
    <3>1. Watched(a[1]) /\ a[1] \in Policies
      BY <2>6, <2>13, AlertIdIs DEF Due
    <3>2. k \notin policy[a[1]].covers
      BY <2>5, <2>13, <3>1
    <3> QED BY <2>4, <2>11, <2>13, <3>1, <3>2 DEF Watched
  <2>14. /\ Dated' /\ Queued(gatePc[t], req[t])'
         /\ r.closing = {}
    BY <1>3, <1>5, <2>2, <2>4, <2>6 DEF Kept, Dated, Queued
  <2>15. changes' = 0 => \A a \in AlertIds : Due(a)' =>
            /\ a \notin req'[t].closing
            /\ alert'[a].status = "open" \/ Raising(gatePc[t], req[t], a)'
    BY <1>3, <1>5, <1>6, <2>2, <2>13, <2>14 DEF Raising
  <2> QED BY <1>3, <1>5, <1>6, <2>2, <2>9, <2>10, <2>12, <2>14, <2>15 DEF Kept
<1> QED BY <1>2, <1>7, <1>8

-----------------------------------------------------------------------------
(* Alerts: the control API and the calendar *)

\* The slot has just edited q: nothing is claimed of its alerts until the slot
\* has been through them, and nothing changes for the other policies.
LEMMA EditedKept ==
  ASSUME AlertInv, Single, NEW s \in Slots, gatePc[s] = "idle",
         NEW q \in Policies, policy'[q].status # "none",
         \A p \in Policies : p # q => policy'[p] = policy[p],
         CountChange,
         UNCHANGED <<ledger, alert, moved, month, moves, straddles, overrides, dbErrors>>,
         NEW step, NEW r, GateGoto(s, step, r),
         r.role = "change", r.todo = {q}, r.closing = {},
         \/ step = "reread"
         \/ /\ step = "sync" /\ r.now = month
            /\ DOMAIN r.seen = {q} /\ r.seen[q].status = "deleted"
  PROVE  KeptInv'
<1> SUFFICES ASSUME Calm', NEW t \in Slots PROVE Kept(gatePc[t], req[t])'
  BY DEF KeptInv
<1>1. gatePc'[t] = step /\ req'[t] = r
  BY SlotIs DEF AlertInv, BudgetInv
<1>2. Kept("idle", req[s])
  BY DEF AlertInv, KeptInv, Calm
<1>3. \A a \in AlertIds : ~Unjust(a)
  BY <1>2, AtRest
<1>4. changes' # 0
  BY DEF CountChange, AlertInv, BudgetInv, TypeInv, StoreOK
<1>5. ASSUME NEW p \in Policies, p # q
      PROVE  Current(p)' = Current(p) /\ policy'[p] = policy[p]
  BY <1>5 DEF Current, SummaryOf, Spend, Summed, Units
<1>6. \A p : Steady(p)' = Steady(p)
  BY DEF Steady
<1>7. ASSUME NEW a \in AlertIds, Unjust(a)'
      PROVE  Resolving(gatePc[t], req[t], a)'
  <2>1. CASE a[1] = q
    BY <1>1, <2>1 DEF Resolving
  <2>2. CASE a[1] # q
    <3>1. Current(a[1])' = Current(a[1])
      BY <1>5, <2>2, AlertIdIs
    <3>2. Justified(a, Current(a[1]))' <=> Justified(a, Current(a[1]))
      BY <3>1 DEF Justified, softLimitReached, hardLimitReached, remainingUsd
    <3>3. Unjust(a)
      BY <1>6, <1>7, <3>2 DEF Unjust
    <3> QED BY <1>3, <3>3
  <2> QED BY <2>1, <2>2
<1>8. Exact(gatePc[t], req[t])' /\ Holds(gatePc[t], req[t])' /\ Queued(gatePc[t], req[t])'
  BY <1>1 DEF Exact, Holds, Queued, Holding
<1>9. Dated'
  <2> SUFFICES ASSUME NEW a \in AlertIds, alert[a].status = "open", Steady(a[1])
               PROVE  policy'[a[1]].status # "none" /\ a[3] <= month
    BY <1>6 DEF Dated
  <2>1. policy[a[1]].status # "none" /\ a[3] <= month
    BY <1>2 DEF Kept, Dated
  <2> QED BY <1>5, <2>1, AlertIdIs
<1> QED BY <1>1, <1>4, <1>7, <1>8, <1>9 DEF Kept

LEMMA EditKept ==
  ASSUME AlertInv, Single, NEW s \in Slots, NEW q \in Policies,
         updateBudgetPolicy(s, q) \/ deleteBudgetPolicy(s, q)
  PROVE  KeptInv'
<1> DEFINE withdrawn == [NoRequest EXCEPT
                           !.role = "change", !.todo = {q}, !.now = month,
                           !.seen = [p \in {q} |-> [SummaryOf(q, 0) EXCEPT
                                                       !.status = "deleted"]]]
           again     == [NoRequest EXCEPT !.role = "change", !.todo = {q}]
<1>1. /\ gatePc[s] = "idle" /\ CountChange
      /\ UNCHANGED <<ledger, alert, moved, month, moves, straddles, overrides, dbErrors>>
  BY DEF updateBudgetPolicy, deleteBudgetPolicy
<1>2. /\ \A p \in Policies : p # q => policy'[p] = policy[p]
      /\ policy'[q].status # "none"
  <2>1. policy \in [Policies -> Policy]
    BY DEF AlertInv, BudgetInv, TypeInv, StoreOK
  <2>2. CASE updateBudgetPolicy(s, q)
    <3>1. PICK status \in {"active", "paused"}, covers \in Scopes[q],
               limit \in Limits, percent \in Percents :
             /\ policy' = [policy EXCEPT ![q] =
                             [status |-> status, covers |-> covers,
                              limit |-> limit, percent |-> percent]]
             /\ IF covers = policy[q].covers
                THEN GateGoto(s, "reread", again) ELSE Withdraw(s, q)
      BY <2>2 DEF updateBudgetPolicy
    <3> QED BY <2>1, <3>1
  <2>3. CASE deleteBudgetPolicy(s, q)
    <3>1. policy' = [policy EXCEPT ![q].status = "deleted"]
      BY <2>3 DEF deleteBudgetPolicy
    <3> QED BY <2>1, <3>1 DEF Policy
  <2> QED BY <2>2, <2>3
<1>3. GateGoto(s, "sync", withdrawn) \/ GateGoto(s, "reread", again)
  BY DEF updateBudgetPolicy, deleteBudgetPolicy, Withdraw
<1>4. /\ withdrawn.role = "change" /\ withdrawn.todo = {q} /\ withdrawn.closing = {}
      /\ withdrawn.now = month /\ DOMAIN withdrawn.seen = {q}
      /\ withdrawn.seen[q].status = "deleted"
  BY DEF NoRequest, SummaryOf
<1>5. again.role = "change" /\ again.todo = {q} /\ again.closing = {}
  BY DEF NoRequest
<1> HIDE DEF withdrawn, again
<1>6. CASE GateGoto(s, "sync", withdrawn)
  BY <1>1, <1>2, <1>4, <1>6, EditedKept
<1>7. CASE GateGoto(s, "reread", again)
  BY <1>1, <1>2, <1>5, <1>7, EditedKept
<1> QED BY <1>3, <1>6, <1>7

\* Nothing moves but what no claim is about.
LEMMA KeptInPlace ==
  ASSUME AlertInv, Calm' => Calm, UNCHANGED <<policy, alert, month, gatePc, req>>,
         changes' = changes \/ changes' # 0,
         \A p \in Policies : Steady(p)' => Steady(p) /\ Current(p)' = Current(p)
  PROVE  KeptInv'
<1> SUFFICES ASSUME Calm', NEW t \in Slots PROVE Kept(gatePc[t], req[t])'
  BY DEF KeptInv
<1>1. Kept(gatePc[t], req[t]) /\ req[t] \in Request
  BY DEF AlertInv, KeptInv, BudgetInv, TypeInv
<1>2. DOMAIN req[t].seen \subseteq Policies
  BY <1>1, SeenIs DEF Request
<1>3. req[t].queue \subseteq AlertIds
  BY <1>1 DEF Request
<1>4. \A p \in Policies : Watched(p)' => Watched(p)
  BY DEF Watched
<1>5. \A p, n : SummaryOf(p, n)' = SummaryOf(p, n)
  BY DEF SummaryOf
<1>6. Exact(gatePc[t], req[t])'
  BY <1>1, <1>2, <1>5 DEF Kept, Exact
<1>7. Holds(gatePc[t], req[t])'
  BY <1>1, <1>2, <1>4 DEF Kept, Holds
<1>8. Queued(gatePc[t], req[t])'
  BY <1>1, <1>3, AlertIdIs DEF Kept, Queued, softLimitReached, hardLimitReached, remainingUsd
<1>9. Dated'
  BY <1>1, AlertIdIs DEF Kept, Dated
<1>10. ASSUME NEW a \in AlertIds
       PROVE  (Unjust(a)' => Unjust(a)) /\ (Due(a)' => Due(a))
  <2>1. a[1] \in Policies
    BY AlertIdIs
  <2>2. Unjust(a)' => Unjust(a)
    BY <2>1 DEF Unjust, Justified, softLimitReached, hardLimitReached, remainingUsd
  <2>3. Due(a)' => Due(a)
    BY <2>1 DEF Due, Watched, softLimitReached, hardLimitReached
  <2> QED BY <2>2, <2>3
<1> QED BY <1>1, <1>6, <1>7, <1>8, <1>9, <1>10 DEF Kept, Resolving, Raising

\* A policy just created is in no summary, and has no alerts.
LEMMA CreateKept ==
  ASSUME AlertInv, NEW q \in Policies, createBudgetPolicy(q)
  PROVE  KeptInv'
<1>1. /\ policy[q].status = "none" /\ Steady(q)
      /\ policy' = [policy EXCEPT ![q].status = "active"] /\ CountChange
      /\ UNCHANGED <<ledger, alert, moved, month, gatePc, req, moves, straddles, overrides, dbErrors>>
  BY DEF createBudgetPolicy
<1> SUFFICES ASSUME Calm', NEW t \in Slots PROVE Kept(gatePc[t], req[t])'
  BY DEF KeptInv
<1>2. Kept(gatePc[t], req[t]) /\ req[t] \in Request /\ policy \in [Policies -> Policy]
  BY <1>1 DEF AlertInv, KeptInv, BudgetInv, TypeInv, StoreOK, Calm
<1>3. /\ DOMAIN req[t].seen \subseteq Policies
      /\ \A p \in DOMAIN req[t].seen : req[t].seen[p].status \in {"active", "paused", "deleted"}
  BY <1>2, SeenIs DEF Request, Summary
<1>4. /\ policy'[q].status = "active"
      /\ \A p \in Policies : p # q => policy'[p] = policy[p]
  BY <1>1, <1>2 DEF Policy
<1>5. changes' # 0
  BY <1>1 DEF CountChange, AlertInv, BudgetInv, TypeInv, StoreOK
<1>6. \A p : Steady(p)' = Steady(p)
  BY <1>1 DEF Steady
<1>7. ASSUME NEW p \in Policies, p # q
      PROVE  /\ Current(p)' = Current(p) /\ Watched(p)' = Watched(p)
             /\ \A n : SummaryOf(p, n)' = SummaryOf(p, n)
  BY <1>1, <1>4, <1>6, <1>7 DEF Current, SummaryOf, Spend, Summed, Units, Watched
<1>8. \A a \in AlertIds : a[1] = q => alert[a].status # "open"
  BY <1>1, <1>2 DEF Kept, Dated
<1>9. gatePc[t] \in Holding /\ q \in DOMAIN req[t].seen =>
         req[t].role = "change" /\ gatePc[t] = "sync" /\ req[t].seen[q].status = "deleted"
  <2>1. SummaryOf(q, 0).status = "none" /\ Current(q).status = "none"
    BY <1>1 DEF SummaryOf, Current
  <2> QED BY <1>1, <1>2, <1>3, <2>1 DEF Kept, Exact
<1>10. Exact(gatePc[t], req[t])'
  BY <1>1, <1>2, <1>3, <1>6, <1>7, <1>9 DEF Kept, Exact
<1>11. Holds(gatePc[t], req[t])'
  <2> SUFFICES ASSUME gatePc[t] \in Holding, req[t].role \in {"request", "settle"}
               PROVE  \E k \in Keys :
                  /\ req[t].keys = {k}
                  /\ \A p \in DOMAIN req[t].seen : Steady(p)' =>
                        policy'[p].status = "active" /\ k \in policy'[p].covers
                  /\ \A p \in Policies \ DOMAIN req[t].seen :
                        Watched(p)' /\ k \in policy'[p].covers =>
                           /\ changes' # 0
                           /\ \A a \in AlertIds : a[1] = p => alert'[a].status # "open"
    BY <1>1 DEF Holds
  <2>1. PICK k \in Keys :
           /\ req[t].keys = {k}
           /\ \A p \in DOMAIN req[t].seen : Steady(p) =>
                 policy[p].status = "active" /\ k \in policy[p].covers
           /\ \A p \in Policies \ DOMAIN req[t].seen :
                 Watched(p) /\ k \in policy[p].covers =>
                    \A a \in AlertIds : a[1] = p => alert[a].status # "open"
    BY <1>2 DEF Kept, Holds
  <2>2. q \notin DOMAIN req[t].seen
    BY <1>9
  <2> QED BY <1>1, <1>3, <1>4, <1>5, <1>6, <1>7, <1>8, <2>1, <2>2
<1>12. Queued(gatePc[t], req[t])'
  <2> SUFFICES ASSUME gatePc[t] = "alerts", NEW a \in req[t].queue, Steady(a[1])
               PROVE  /\ a[3] \in {0, month'}
                      /\ policy'[a[1]].status = "active"
                      /\ a[2] = "soft-limit" => softLimitReached(Current(a[1]))'
                      /\ a[2] = "hard-limit" => hardLimitReached(Current(a[1]))'
                      /\ a[2] = "preflight-block" =>
                            /\ 0 < remainingUsd(Current(a[1]))'
                            /\ remainingUsd(Current(a[1]))' < req[t].estimate
    BY <1>1, <1>6 DEF Queued
  <2>1. /\ a[3] \in {0, month}
        /\ policy[a[1]].status = "active"
        /\ a[2] = "soft-limit" => softLimitReached(Current(a[1]))
        /\ a[2] = "hard-limit" => hardLimitReached(Current(a[1]))
        /\ a[2] = "preflight-block" =>
              /\ 0 < remainingUsd(Current(a[1]))
              /\ remainingUsd(Current(a[1])) < req[t].estimate
    BY <1>2 DEF Kept, Queued
  <2>2. a \in AlertIds
    BY <1>2 DEF Request
  <2>3. a[1] \in Policies /\ a[1] # q
    BY <1>1, <2>1, <2>2, AlertIdIs
  <2>4. Current(a[1])' = Current(a[1]) /\ policy'[a[1]] = policy[a[1]]
    BY <1>4, <1>7, <2>3
  <2> QED BY <1>1, <2>1, <2>4 DEF softLimitReached, hardLimitReached, remainingUsd
<1>13. Dated'
  BY <1>1, <1>2, <1>4, <1>6, AlertIdIs DEF Kept, Dated
<1>14. ASSUME NEW a \in AlertIds, Unjust(a)' PROVE Unjust(a)
  <2>1. alert[a].status = "open" /\ a[1] # q /\ a[1] \in Policies
    BY <1>1, <1>8, <1>14, AlertIdIs DEF Unjust
  <2>2. Justified(a, Current(a[1]))' <=> Justified(a, Current(a[1]))
    BY <1>1, <1>7, <2>1 DEF Justified, softLimitReached, hardLimitReached, remainingUsd
  <2> QED BY <1>1, <1>6, <1>14, <2>1, <2>2 DEF Unjust
<1> QED BY <1>1, <1>2, <1>5, <1>10, <1>11, <1>12, <1>13, <1>14 DEF Kept, Resolving

\* A new period: nothing has been spent in it, so no threshold is reached, and
\* with no request in progress no alert of an older one counts against a policy.
LEMMA NewPeriod ==
  ASSUME TypeInv, Ahead, NextMonth
  PROVE  /\ month \in Nat /\ month' = month + 1 /\ month' \in Months
         /\ \A p \in Policies : Spend(policy[p].covers, month') = 0
<1>1. /\ UNCHANGED <<policy, ledger>> /\ month' = month + 1
      /\ month \in Nat /\ month' \in Months
  <2>1. UNCHANGED <<policy, ledger>> /\ month' = month + 1 /\ month < MaxMonths
    BY DEF NextMonth, store
  <2>2. month \in 1 .. MaxMonths
    BY DEF TypeInv, StoreOK, Months
  <2> QED BY <2>1, <2>2, BudgetConstantsOK DEF Months
<1>2. ASSUME NEW p \in Policies PROVE Spend(policy[p].covers, month') = 0
  <2> DEFINE costs == [k \in policy[p].covers |-> ledger[month'][k]]
  <2>1. policy[p].covers \in SUBSET Keys
    BY DEF TypeInv, StoreOK, Policy
  <2>2. /\ ledger[month'] \in [Keys -> Nat]
        /\ \A k \in Keys : ledger[month'][k] = 0
    BY <1>1 DEF Ahead, TypeInv, StoreOK, Months
  <2>3. costs \in [policy[p].covers -> Nat] /\ \A k \in policy[p].covers : costs[k] = 0
    BY <2>1, <2>2
  <2>4. Spend(policy[p].covers, month') = Cardinality(Spent(policy[p].covers, costs))
    BY DEF Spend, Spent
  <2> HIDE DEF costs
  <2> QED BY <2>3, <2>4, SpentNothing
<1> QED BY <1>1, <1>2

\* A policy that has spent nothing has reached no threshold.
LEMMA NothingReached ==
  ASSUME NEW b, b.limit \in Nat \ {0}, b.percent \in 1 .. 100, b.spend = 0
  PROVE  ~softLimitReached(b) /\ ~hardLimitReached(b)
<1>1. PICK limit \in Nat, percent \in Nat :
         limit = b.limit /\ percent = b.percent /\ 1 <= limit /\ 1 <= percent
  OBVIOUS
<1>2. 1 * limit <= percent * limit /\ percent * limit \in Int
  BY <1>1, Times
<1>3. limit * percent > 0
  BY <1>1, <1>2
<1> QED BY <1>1, <1>3 DEF softLimitReached, hardLimitReached

LEMMA NextMonthKept ==
  ASSUME AlertInv, NextMonth
  PROVE  KeptInv'
<1>1. /\ UNCHANGED <<policy, ledger, alert, moved, gatePc, req, changes, moves, overrides, dbErrors>>
      /\ straddles' = straddles + 1 \/ UNCHANGED straddles
  BY DEF NextMonth, store
<1>2. CASE straddles' = straddles + 1
  BY <1>2, UpsetKept
<1>3. CASE (\A s \in Slots : gatePc[s] = "idle") /\ UNCHANGED straddles
  <2> SUFFICES ASSUME Calm', NEW t \in Slots PROVE Kept(gatePc[t], req[t])'
    BY DEF KeptInv
  <2>1. TypeInv /\ Ahead /\ gatePc[t] = "idle" /\ Kept("idle", req[t]) /\ Kept("idle", req[t])
    BY <1>1, <1>3 DEF AlertInv, KeptInv, BudgetInv, Calm
  <2>2. \A a \in AlertIds : ~Unjust(a)
    BY <2>1, AtRest
  <2>3. /\ month \in Nat /\ month' = month + 1 /\ month' \in Months
        /\ \A p \in Policies : Spend(policy[p].covers, month') = 0
    BY <2>1, NewPeriod
  <2>4. ASSUME NEW p \in Policies, Steady(p)
        PROVE  /\ Current(p)'.status = policy[p].status
               /\ Current(p)'.limit \in Nat \ {0} /\ Current(p)'.percent \in 1 .. 100
               /\ Current(p)'.spend = 0
    <3>1. /\ policy[p].limit \in Nat \ {0} /\ policy[p].percent \in 1 .. 100
          /\ Summed(p, policy[p].covers) = policy[p].covers
      BY <2>1, <2>4, CurrentIs, CurrentFields
    <3>2. Current(p)' = [status |-> policy[p].status, covers |-> policy[p].covers,
                         limit |-> policy[p].limit, percent |-> policy[p].percent,
                         spend |-> Spend(policy[p].covers, month')]
      BY <1>1, <3>1 DEF Current, SummaryOf, Summed, Spend, Units
    <3> QED BY <2>3, <3>1, <3>2
  <2>5. \A p : Steady(p)' = Steady(p) /\ Watched(p)' = Watched(p)
    BY <1>1 DEF Steady, Watched
  <2>6. \A a \in AlertIds : alert[a].status = "open" /\ Steady(a[1]) =>
           policy[a[1]].status # "none" /\ a[3] <= month
    BY <2>1 DEF Kept, Dated
  <2>7. Dated'
    BY <1>1, <2>3, <2>5, <2>6, AlertIdIs DEF Dated, Months
  <2>8. ASSUME NEW a \in AlertIds, Unjust(a)' PROVE FALSE
    <3>1. /\ alert[a].status = "open" /\ Steady(a[1]) /\ a[3] \in {0, month'}
          /\ a[1] \in Policies
      BY <1>1, <2>5, <2>8, AlertIdIs DEF Unjust
    <3>2. a[3] = 0 /\ a[3] <= month
      BY <2>3, <2>6, <3>1
    <3>3. a[2] = "pricing-unavailable"
      BY <3>2 DEF AlertIds, Months
    <3>4. policy[a[1]].status = "active"
      <4>1. Justified(a, Current(a[1]))
        BY <2>2, <3>1, <3>2 DEF Unjust
      <4> QED BY <4>1 DEF Justified, Current, SummaryOf
    <3>5. Current(a[1])'.status = "active"
      BY <2>4, <3>1, <3>4
    <3>6. Justified(a, Current(a[1]))'
      BY <3>3, <3>5 DEF Justified
    <3> QED BY <2>8, <3>6 DEF Unjust
  <2>9. ASSUME NEW a \in AlertIds, Due(a)' PROVE FALSE
    <3>1. a[1] \in Policies /\ Steady(a[1])
      BY <2>5, <2>9, AlertIdIs DEF Due, Watched
    <3>2. ~softLimitReached(Current(a[1])') /\ ~hardLimitReached(Current(a[1])')
      BY <2>4, <3>1, NothingReached
    <3> QED BY <2>9, <3>2 DEF Due, softLimitReached, hardLimitReached
  <2>10. /\ Exact(gatePc[t], req[t])' /\ Holds(gatePc[t], req[t])' /\ Queued(gatePc[t], req[t])'
    BY <1>1, <2>1 DEF Exact, Holds, Queued, Holding
  <2> QED BY <1>1, <2>1, <2>7, <2>8, <2>9, <2>10 DEF Kept
<1> QED BY <1>2, <1>3 DEF NextMonth

-----------------------------------------------------------------------------
(* The alerts of one request or edit at a time *)

LEMMA InPlaceKept ==
  ASSUME AlertInv, UNCHANGED budgetVars \/ configurePricing \/ updateEnvironment
  PROVE  KeptInv'
<1>1. /\ UNCHANGED <<policy, ledger, alert, month, gatePc, req, straddles, overrides, dbErrors>>
      /\ changes' = changes \/ CountChange
      /\ UNCHANGED <<moved, moves>> \/ moves' = moves + 1
  BY DEF budgetVars, store, counts, configurePricing, updateEnvironment
<1>2. changes \in Nat /\ moves \in Nat
  BY DEF AlertInv, BudgetInv, TypeInv, StoreOK
<1>3. changes' = changes \/ changes' # 0
  BY <1>1, <1>2 DEF CountChange
<1>4. Calm' => Calm
  BY <1>1 DEF Calm
<1>5. ASSUME NEW p \in Policies, Steady(p)'
      PROVE  Steady(p) /\ Current(p)' = Current(p)
  <2>1. CASE UNCHANGED <<moved, moves>>
    BY <1>1, <1>5, <2>1, Frozen
  <2>2. CASE moves' = moves + 1
    <3>1. p \notin Environmental
      BY <1>2, <1>5, <2>2 DEF Steady
    <3> QED BY <1>1, <3>1 DEF Steady, Current, SummaryOf, Summed, Spend, Units
  <2> QED BY <1>1, <2>1, <2>2
<1> QED BY <1>1, <1>3, <1>4, <1>5, KeptInPlace

LEMMA InitKept == BudgetInit => AlertInv
<1> SUFFICES ASSUME BudgetInit PROVE AlertInv
  OBVIOUS
<1>1. BudgetInv /\ TypeInv
  BY InitCovered DEF BudgetInv
<1>2. ASSUME NEW s \in Slots PROVE Kept(gatePc[s], req[s])
  <2>1. gatePc[s] = "idle" /\ req[s].closing = {} /\ req[s].role = "none"
    BY DEF BudgetInit, NoRequest
  <2>2. \A a \in AlertIds : alert[a].status # "open"
    BY DEF BudgetInit
  <2>3. ASSUME NEW a \in AlertIds PROVE ~Due(a)
    <3>1. ASSUME Due(a) PROVE FALSE
      <4>1. a[1] \in Policies /\ Steady(a[1])
        BY <3>1, AlertIdIs DEF Due, Watched
      <4>2. Spend(policy[a[1]].covers, month) = 0
        <5> DEFINE costs == [k \in policy[a[1]].covers |-> ledger[month][k]]
        <5>1. policy[a[1]].covers \in SUBSET Keys /\ month \in Months
          BY <1>1, <4>1 DEF TypeInv, StoreOK, Policy
        <5>2. \A k \in Keys : ledger[month][k] = 0
          BY <5>1 DEF BudgetInit
        <5>3. costs \in [policy[a[1]].covers -> Nat]
              /\ \A k \in policy[a[1]].covers : costs[k] = 0
          BY <5>1, <5>2
        <5>4. Spend(policy[a[1]].covers, month) = Cardinality(Spent(policy[a[1]].covers, costs))
          BY DEF Spend, Spent
        <5> HIDE DEF costs
        <5> QED BY <5>3, <5>4, SpentNothing
      <4>3. PICK b : b = Current(a[1])
        OBVIOUS
      <4>4. b.limit \in Nat \ {0} /\ b.percent \in 1 .. 100 /\ b.spend = 0
        BY <1>1, <4>1, <4>2, <4>3, CurrentFields
      <4> QED BY <3>1, <4>3, <4>4, NothingReached DEF Due
    <3> QED BY <3>1
  <2> QED BY <2>1, <2>2, <2>3 DEF Kept, Exact, Holds, Queued, Holding, Dated, Unjust
<1> QED BY <1>1, <1>2 DEF AlertInv, KeptInv

LEMMA NextKept == AlertInv /\ Single /\ [BudgetNext]_budgetVars => AlertInv'
<1> SUFFICES ASSUME AlertInv, Single, [BudgetNext]_budgetVars PROVE KeptInv'
  BY NextCovered DEF AlertInv
<1>1. ASSUME NEW s \in Slots, Synchronise(s) PROVE KeptInv'
  BY <1>1, SumKept, StartSyncKept, ListAlertsKept, UpdateAlertKept, SyncDoneKept,
     UpsetKept DEF Synchronise, syncError
<1>2. ASSUME NEW s \in Slots, handleGatewayRequest(s) PROVE KeptInv'
  BY <1>2, RefuseKept, PricingKept, InvokeKept, RecordKept, EndKept, UpsertKept
     DEF handleGatewayRequest
<1>3. ASSUME NEW s \in Slots, Abort(s) PROVE KeptInv'
  BY <1>3, UpsetKept DEF Abort
<1>4. ASSUME NEW a \in AlertIds, patchAlert(a) PROVE KeptInv'
  BY <1>4, UpsetKept DEF patchAlert
<1>5. CASE UNCHANGED budgetVars \/ configurePricing \/ updateEnvironment
  BY <1>5, InPlaceKept
<1> QED BY <1>1, <1>2, <1>3, <1>4, <1>5, EvaluateKept, EditKept, RereadKept,
           CreateKept, NextMonthKept DEF BudgetNext

LEMMA QuietAlerts ==
  ASSUME AlertInv
  PROVE  LimitsAlerted /\ AlertsJustified
<1>1. PICK s \in Slots : TRUE
  BY BudgetConstantsOK
<1>2. ASSUME Quiet, Calm
      PROVE  /\ \A a \in AlertIds : ~Unjust(a)
             /\ changes = 0 => \A a \in AlertIds : Due(a) => alert[a].status = "open"
  <2>1. gatePc[s] = "idle" /\ Kept(gatePc[s], req[s])
    BY <1>1, <1>2 DEF Quiet, AlertInv, KeptInv
  <2> QED BY <2>1, AtRest
<1>3. LimitsAlerted
  <2> SUFFICES ASSUME Quiet, Calm, changes = 0, NEW p \in Policies, Watched(p),
                      NEW a \in ThresholdAlerts([q \in {p} |-> Current(q)], month)
               PROVE  alert[a].status = "open"
    BY DEF LimitsAlerted, Calm, Watched
  <2>1. /\ a[1] = p /\ a[2] \in Thresholds /\ a[3] = month
        /\ a \in Policies \X Thresholds \X {month}
        /\ IF a[2] = "soft-limit" THEN softLimitReached(Current(p))
                                  ELSE hardLimitReached(Current(p))
    BY DEF ThresholdAlerts
  <2>2. month \in Months
    BY DEF AlertInv, BudgetInv, TypeInv, StoreOK
  <2>3. a \in AlertIds
    BY <2>1, <2>2 DEF AlertIds, Kinds
  <2> QED BY <1>2, <2>1, <2>3 DEF Due
<1>4. AlertsJustified
  BY <1>2 DEF AlertsJustified, Calm, Unjust
<1> QED BY <1>3, <1>4

LEMMA OneSlot ==
  ASSUME Cardinality(Slots) = 1
  PROVE  Single
BY BudgetConstantsOK, FS_Singleton DEF Single

\* A budget past its soft or its hard limit has the alert open whenever no
\* request is in progress, as long as requests come one at a time, unless
\* somebody edited policies, touched an alert, or the month ended under one.
THEOREM LimitsAlertedOneAtATime ==
  ASSUME Cardinality(Slots) = 1
  PROVE  BudgetSpec => []LimitsAlerted
<1>1. Single
  BY OneSlot
<1>2. AlertInv /\ [BudgetNext]_budgetVars => AlertInv'
  BY <1>1, NextKept
<1> QED BY <1>2, InitKept, QuietAlerts, PTL DEF BudgetSpec

\* No open alert outlives what justifies it once the requests and the edits of
\* the policies, one at a time, are through: an edit synchronises the alerts as
\* a request does.  Alerts touched by hand and failed writes are excepted.
THEOREM AlertsJustifiedOneAtATime ==
  ASSUME Cardinality(Slots) = 1
  PROVE  BudgetSpec => []AlertsJustified
<1>1. Single
  BY OneSlot
<1>2. AlertInv /\ [BudgetNext]_budgetVars => AlertInv'
  BY <1>1, NextKept
<1> QED BY <1>2, InitKept, QuietAlerts, PTL DEF BudgetSpec

=============================================================================
