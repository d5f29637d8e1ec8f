# ModelYard in TLA+

A verification development for the ModelYard AI gateway: models of the parts of
it that are hard to get right, instances of them that TLC checks, and proofs
that TLAPS checks. Paths below are relative to the repository.

## 1. Inventory

The system is a control plane and a data plane over one Postgres database.

| Component | State | Operations | Hard because |
|---|---|---|---|
| Export worker (`packages/export-jobs`, `apps/export-worker`) | `export_jobs` rows, files and temporary files in `EXPORT_JOBS_DIR`, a timer and a clean-up clock per process | poll, prune, recover, claim, write, complete, fail, deliver, follow up, stop | several processes on one table and one directory; no statement after the claim checks that the job is still the worker's |
| Export jobs API (`control-api/src/routes/usage.ts`) | the same rows, with workflow and governance in `filters`; the audit event that names the requester | create, retry, patch of workflow and governance, download | a PATCH and a download read the job twice and lock nothing; the requester is recorded after the job, as an actor made by another rule than the approver's |
| Scheduled reports (`packages/database`, `routes/scheduled-reports.ts`) | `scheduled_reports`: cadence, next and last run, event trigger | CRUD, run when due, run by hand, run on an event | cool-down checked before the lock, 15 s deduplication, chains of failing exports |
| Budget enforcement (`apps/gateway/src/routes.ts`, `routes/budgets.ts`, `routes/alerts.ts`) | `budget_policies`, `usage_events`, `alerts` | evaluate, synchronise alerts, refuse or admit, record, alert; edit of policies and alerts | check and debit are separated by the upstream call; alerts are decided on old summaries |
| Virtual keys (`routes/virtual-keys.ts`, `routes/self-serve-virtual-keys.ts`) | `virtual_keys`: status, expiry, issuer, predecessor | issue, rotate, revoke, by administrators and by members for themselves; resolve, expire | what entitles a caller is read before the transaction that acts |
| Gateway request handling (`apps/gateway`) | per request only: its abort signal, the stream to the client and the copy of it that is inspected | authenticate, select, call the provider, stream, abort, record | provider, timer, client and database may each break it off at any point, and each way out has to record the request |
| Provider credential cache (`apps/gateway/src/provider-credentials-cache.ts`) | decrypted credentials, with a time to live and a limit | look up, insert, evict | connections are edited behind its back |
| Pricing (`apps/gateway/src/pricing.ts`) | none | price a token count | tiers and cached tokens, rounding |
| Sessions and sign-in (`control-api/src/auth.ts`, `request-auth.ts`, `routes/auth.ts`) | `control_plane_sessions`, `session_revocations`, memberships; login state in valkey | sign in, resolve, switch identity, log out | requests of one session resolve side by side and write back what they settled on |
| Prompt inspection and policy sync | a policy per gateway | inspect, listen for changes | neither `inspectPromptInput` nor `createPgNotificationListener` has a caller outside of tests and tools |
| Workspaces, members, projects, catalog, views, audit | one row or a few each | guarded CRUD | roles and scopes rather than ordering |
| Web admin, desktop shell, tools, infra | none of the system's | UI, process control, deployment | out of scope |

The components meet in the database. The control API inserts and retries export
jobs and edits policies; the worker and the gateway read them statement by
statement. A failing export, and an alert, may trigger scheduled reports, which
insert export jobs again. Nothing but single statements and a few transactions
with `for update` orders any of this, so *a statement (or transaction) against
the database, or a file operation, is the unit of interleaving* throughout.

Within the gateway's process a task of the event loop, with the promise jobs it
leaves behind, is the unit.

What makes each correct:

* exports: a claim belongs to one worker; a job is processed by one worker at a
  time, completed with its own file and announced once; every job is settled;
  clean-up removes orphans and nothing else; a gated file is served only after
  a review that counts as another actor's than the requester's (whether that is
  another person is another matter, see `export_self_approval`);
* budgets: overspending is bounded by what is in flight; a limit reached is
  alerted, an alert that is open is justified, and the alert of an exhausted
  budget settles;
* reports: one job per due run, cool-downs respected;
* keys: at most one usable key per line of rotations, nothing expired or revoked
  comes back except by its member's own doing;
* sessions: revoked once and for good, idle time counted from the last visit,
  the identity chosen kept, logout logs out;
* credentials: a call is made with the key of the connection it selected; the
  cache drops what expires first;
* requests: one usage event each but for the cases named, charging what was delivered; no provider works
  for a client that has left; every request ends.

The hazards, each at its line and with the properties that cover it, are in
`PROJECT.json`.

## 2. Modules

| Module | What it is |
|---|---|
| `ExportWorker` | table, directory and any number of worker processes |
| `ExportJobs` | what the pipeline promises of a job: owned, settled by its owner, announced for good |
| `ExportWorkerRefinement` | the refinement mapping from `ExportWorker` to `ExportJobs` |
| `ExportGovernance` | the gate on an export's file: PATCHes, the audit event, downloads, over a job that lives as `ExportJobs` says |
| `BudgetGate` | requests as budgets see them, policies, usage and alerts |
| `GatewayRequests` | a request as its client and its provider see it |
| `ScheduledReports` | reports and the runs that insert export jobs: by the clock, by hand, on an event |
| `VirtualKeys` | keys, members and the calls that issue, rotate and revoke |
| `Sessions` | sessions of one person, and the requests that resolve, switch and end them |
| `ProviderCredentials` | connections, calls and the cache of credentials |
| `ExportWorkerProofs`, `ExportGovernanceProofs`, `BudgetGateProofs`, `GatewayRequestsProofs`, `ScheduledReportsProofs`, `VirtualKeysProofs`, `SessionsProofs`, `ProviderCredentialsProofs` | theorems about these, proved |
| `MCExportWorker`, `MCExportGovernance`, `MCBudgetGate`, `MCSessions` | instances for TLC |
| `MCGateway`, `MCBudgetsAndExports`, `MCReportsAndReviews`, `MCAccess` | parts that share no state, checked in turn: a behaviour is one of a single part while the others stay as they were at the start. Every property is of one part, so nothing is lost by it, and the state spaces add up instead of multiplying |

### ExportWorker

Variables: `created`, `row` and `stale` are the table (a row is in `stale` when
`started_at` is behind the stale interval, the one comparison the code makes of
it); `files` and `temps` are the directory; `delivered` counts what each delivery
target accepted; `pc`, `job`, `att`, `snap`, `todo` are the local state of a
worker's loop (`snap` is what a clean-up has read, `att` the `attempt_count` its
claim returned); `pruneDue` is its clean-up clock, `stopped` its flag.

`att` is also what the model writes into `row_count` and into a file: the code
writes the number of rows the attempt read, the model which attempt that was, so
that `FileMatchesRow` can tell whether file and row are of the same attempt.

Every statement is an action under the name of the function that issues it
(`claimNextPendingExportJob`, `completeExportJob`, `renameTempFile`, ...). The
two reads of a clean-up are concurrent in the code (`Promise.all`) and may answer
in either order. Errors: `LoopError` is the outer catch of the loop (a job that
was claimed but not audited stays running, held by nobody), `processError` and
`catchError` the two catches around a job, `dispatchDone` also the one around the
deliveries. `Exit` is a crash, or the end of a worker told to stop; `Restart` a
new process. Reading of export data, file contents, audit records and the wording of
notifications are left out; an audit that fails is an error like any other.
Reports triggered by one failed export are inserted in one step; the code uses a
transaction each.

### BudgetGate

A slot is one request, or one PATCH or DELETE of a policy, at a time. A request
lists the policies that apply to its key, sums each (concurrently), synchronises
the alerts of each with what it read, passes the gate, goes upstream, records its
cost in the month it then is, adds the cost to the summaries it has *kept*,
synchronises again and opens threshold alerts one by one. `req[s]` is what the
handler holds in local variables. A policy's scope is the set of keys it covers; moving
it resolves its alerts, as the route does. A policy for an environment
(`Environmental`) applies to the keys issued with the environment's runtime, but sums
what was spent by the runtime the environment has at the time of the sum; `moved` are
the keys for which PATCH `/v1/environments/:id` (`updateEnvironment`) has made the two
differ, and `Steady` says of a policy that they cannot have. Bound: policies for
an environment are created and moved before such an edit (afterwards they would
take the new runtime), keys are issued before it, and there are no policies for a
runtime without an environment. `patchAlert` is an operator resolving
or reopening an alert. Amounts are whole units and the month is the only time; a
sum over keys is the number of units any of them has spent, which is what lets it be
reasoned about without recursion. Streamed and plain answers differ in nothing a budget can see (they do in
`GatewayRequests`). Keys, providers and metadata requests are outside, as are
reports an alert triggers. There is one
model and one provider, so one alert per policy, kind and period. The checks in
front of a policy's update (roles, scopes, conflicts) are taken to have passed, and
are part of the step that updates.

### ScheduledReports

`report` is the table, `jobs` the export jobs reports inserted, in order of
insertion, and `slot` what a runner (a worker's loop, an API handler, a gateway
request) holds between its steps. Every handler reads its clock first (`start...`)
and uses that date in a transaction that may come later, so runs commit in another
order than their dates; this is the hazard of the module. A run on an event is a
list, a check of the cool-down for each report listed and then a transaction for
each report that passed, with nothing locked in between. A transaction that locks
the row of a report is one step. `advanced`, in a job, records whether its run moved
`next_run_at`, and `late` the reports a PATCH rescheduled from a date older than a
run already inserted; the code keeps neither, properties are stated with them.

All clocks agree; only reading one and using the date differ. A cadence is a fixed
length. `order by next_run_at ... for update skip locked` becomes: some due report,
or none, since which rows are locked is open. Whether a job older than the window is
still pending when a run by hand looks for one is open too: a retry can make it
so, and that belongs to `ExportWorker`. Which reports have an event in their scope is
data. Recipients, names and formats are left out. A job deleted from the table does
not occur: no code deletes one.

### ExportGovernance

The job itself is `Lifecycle`, an instance of `ExportJobs` for the one job, which
`ExportWorker` implements; the module adds `gov` (the `governance` field of the
job's filters), `posting` and `requester` (the caller that created the job, and the
audit event his call inserts afterwards, or fails to), `patch` and `download` (what a
call has read and decided). A PATCH is up to four steps: the first read, on which the
transition is checked; the look-up of the actors, for an approval; the second read
and merge in `updateExportJob`; the write. A download is a descriptor and then the
file. `overlapped` and `past` are not stored by the code: they record during which
calls the job changed and what has been done to the gate, for the properties to
speak of.

A caller is a record of what his headers say: the administrator's token, the address
of his session, `x-member-email`, `x-actor-type` and `x-actor-id`, `x-origin-service`.
The code makes an actor, a type and a name, of them twice. `getAuditActor` (for the
event `export.requested`) takes the operator of the session, then the member, then the
explicit actor; it looks the session up anew, and if that has been revoked since the
call was admitted it falls to the next, so it may answer either way here.
`getExportApprovalActor` takes the explicit actor first, then the member the call was
admitted as. The two are compared as `isSameAuditActor` does, by type and by name.
`person` is who the caller is, which no code knows. Members (`Emails`) do not change
while the job lives. The job's filters may say at its creation that it is gated, or
approved; an approver they name is not a caller of the API, and none is recorded. A job made by a
scheduled report has no audit event, so nobody can approve it; a file regenerated by a
retry keeps the approval of its predecessor. Both are what the code does and no document
rules them out.

### GatewayRequests

`call[r]` is one request: where its handler stands (`pc`), the client's connection,
the abort signal and what raised it, the provider's answer (`source`), the chunks of
a streamed answer with the usage each reported, how many of them the client took,
and the usage events written. The stream is split in two: one copy is inspected as
it arrives, the other goes to the client at its pace, so usage is known of chunks the
client never took. An error of the source drops what it still holds. `clientLeaves`,
`timesOut`, `sourceEnds`, `fetchError`, a failed insertion and the end of the process
may come at any step. Billing reports are numbers; their merge is the maximum, as
`mergeUsageCounts` takes it per field. Retries do not occur: the gateway has none.
`unrecorded` says why a request has no usage event: it was refused before the handler saw
it (`turnAway`: a browser of another origin, or a body the server cannot read), the look-up
of its key failed (outside of the handler's `try`, so that no insertion is attempted), the
insertion failed, or the process ended. `PRODUCT_REQUIREMENTS_ZH.md:629` has each request
write an event; `RecordedOnce` says that these four are the only ones that do not.
An abort while a plain body is read is recorded as a failure of the gateway and not
as a disconnect, because the body is read outside the `try` that tells them apart.

### VirtualKeys

A handler is a call of the control API: it reads what entitles its caller (`postRotate`,
`requireSelfServeMember`, ...) and then acts in one statement or transaction. `from`,
`root`, `grantee` and `ended` are history, for the properties. An administrator's
rotation copies neither the issuance mode nor the issuer; a member's rotation gives a
new expiry even to a key that has expired. Secrets, scopes, projects and budgets are
data a successor copies.

### Sessions

One person with memberships in several organizations. A request goes through the
statements of `resolveRequestAuth` (read the row, list the memberships, write back
the identity, write the visit) and then through those of a logout or a switch. `held` is
what the handler has in memory. `visited` (when a session was last accepted),
`chosen` (the identity last asked for) and `doubtful` are history. A session is in `doubtful`
when its choice may rightly be replaced: its membership has been edited since, or a request
read the row before the choice and has found, or is bound to find, what it read to be no
active membership (`Replacing`, `Unsettle`); that request writes its default over the choice. The touch of a request may carry
an older date than one already stored, as in the code. Disabling a membership
revokes no session (`docs/ENTERPRISE_IDENTITY_MAINLINE.md:97` would have it do so; that
is written there as a plan).

### ProviderCredentials

A call reads candidate connections (`selectProvider`), later asks the cache for the
decrypted key of the one selected (`getDecryptedProviderCredential`, synchronous in
the code, so one step). Connections are created, edited, tested and revoked by the
control API meanwhile, also several times within one millisecond of `updatedAt`. The
cache is a sequence in order of insertion, as a `Map` is; setting an entry whose key
is there keeps its place.

## 3. Runs

| Run | Instance | Shows |
|---|---|---|
| `gateway` | 1 request of up to 3 chunks; apart from it, 2 slots, 1 policy, 1 failed write, 1 alert closed by hand, 1 edit of the environment; fair | a request ends, with one usage event that charges what was delivered unless a named reason leaves it without, and its call is aborted when the client leaves; overspending is bounded; the hard-limit alert settles |
| `budgets_and_exports` | 1 slot, 2 keys, 2 policies, 2 months, 1 edit; apart from it, 1 worker, 2 jobs, 2 targets, 3 attempts, 2 faults | limits reached are alerted, open alerts are justified; a completed job keeps its file, `ExportWorker` implements `ExportJobs` |
| `export_live` | 2 workers, 1 job, 2 attempts, 1 fault, 1 overrun, fair | types; exclusive claims; keys on settled jobs only; and, without an overrun, one processor, file and row of one attempt, one notification; jobs settle, orphans are pruned |
| `reports_and_reviews` | 1 report, 2 runners, 1 event, 2 units of time, 3 jobs; apart from it, 2 PATCHes, 1 download, 2 callers, the worker | runs keep the cadence; clicks are deduplicated; bursts of an event are bounded; approvals count as another actor's than the requester's; a gated file is served only after a review or the lifting of the gate; rules are broken only by PATCHes that overlap a change |
| `access` | 2 handlers, 1 member and 3 keys; 2 requests of 1 session, 2 memberships, 2 edits; 2 calls, 2 connections, 3 edits and a cache of 2: each by itself | keys: one active per line, rotated once, kept by their member, revived by nobody else; sessions: revoked once, frozen then, idle time and choice of identity honoured; credentials: as selected, oldest dropped |
| `export_prune_race` | 2 workers | *violated*: clean-up removes a completed job's file |
| `export_leftovers` | 1 worker, 1 crash, fair | *violated*: a temporary file stays for ever |
| `export_approval_lost` | 2 PATCHes | *violated*: a PATCH of the workflow writes an approval away |
| `export_self_approval` | 2 persons signed in, 1 PATCH | *violated*: a person approves what she has requested |
| `budget_environment` | 1 slot, 1 policy for an environment, 1 edit of the environment | *violated*: the hard limit no longer blocks |
| `budget_alerts` | 2 slots | *violated*: a limit passed by two requests together raises no alert |
| `session_logout` | 1 request, 1 session, 2 organizations | *violated*: a logout after a switch revokes nothing |

Bounds. What goes wrong between workers goes wrong between two of them: a claim
and its successor, or a clean-up and a completion. One job is enough wherever jobs do
not meet; `budgets_and_exports` has two because clean-up, recovery and `InsertJobs` act
on several rows at once. That several workers implement `ExportJobs` too is proved
(`WorkerRefines`). Two attempts give a retry
of everything a first attempt left; two faults a crash after an error; one overrun
the worker that wakes up after its job has been given away. A limit of two units
with costs up to three gives requests below, at and beyond each threshold (soft
limit 50 %), and an estimate of two exceeds a remaining unit. Two slots are the
least at which a sum is stale; `gateway` has one month, and a request that straddles two is in `budgets_and_exports`. Reports are
independent of one another, so one is enough; window, cool-down and cadence are one
unit of time each and two units hold two runs that are due, and what is exactly a
window apart or less; two runners are the least whose dates and transactions cross. That `late` is an exception
to `ManualDeduplicated` takes a third runner (a PATCH between two clicks), which only the
theorem covers. `MaxFree` stops the spend of keys no policy covers,
which would only grow. A bound named `Max...` limits the environment (claims by
retry, crashes, edits, months), never what the code does once it has started, with
one exception: `created < NJobs` also stops reports from inserting jobs.
Two calls are also the
least that cross between a read and an act on it: a rotation and a revocation of one
key, a switch and a request being resolved, an approval and another PATCH. Three keys
are a key, its successor and the one a second rotation would add; three chunks a
report that is lower than the one before, and a chunk the client does not take.
Two edits of memberships are one that makes a request replace what it read and one that
gives the membership back for the person to choose. The two callers of
`reports_and_reviews` are somebody signed in, whose actors differ, and a script with the administrator's token
and an actor of its own, whose actors are one and the same; so an approval passes and is
refused, by the requester and by the other. More callers are left to the theorems.
Symmetry is used for safety runs only: in `access` the handlers, requests and
calls share two values, in `reports_and_reviews` the runners and PATCHes, and exchanging the
two is a symmetry of every part.

Deadlock is checked in every run but `access`, which may stop: when the last
connection is revoked and the clock is at its bound nothing is left to do.

Fairness. `ExportWorker!Fairness`: the loop of a worker goes on by itself
(`schedule` is called on every path out of `runLoop`), a process told to stop
exits, one that exited is started again (by the container's restart policy), the
clean-up interval elapses, and a running row nobody processes any more gets stale.
Fairness of a loop is weak fairness of its steps together, so that an error can be
taken at every step; errors and crashes are bounded by `MaxFaults`, except
`processError`, which is not. `BudgetFairness` of `BudgetGate`: a request or edit that was started goes on,
and requests keep coming in; the latter is an assumption about clients, without
which nobody would look at an alert again, and `HardAlertSettles` is about the
requests that follow. It also presupposes that the model's price is configured from
some point on, since a request without a price is refused before it looks at limits.
`GatewayFairness` of `MCGateway`, which joins it with that of requests: a handler of the gateway goes on by itself, the
timer of a call (`AbortSignal.timeout`) fires, and a client that stays reads what it is
sent; of the provider nothing is assumed. The third is about clients: once a provider's
answer has ended no timer is left, and a client that neither reads nor leaves holds the
request and its unrecorded cost for as long as it likes.

## 4. What the violated runs say

* `export_prune_race`: the clean-up of one worker works on a snapshot of keys and
  files. A file renamed into place and referenced after its own half of the
  snapshot was taken is removed although a completed job refers to it
  (`DEPLOYMENT.md` says it is not). The model has no age check because the code
  has none. With one worker it cannot happen, which `budgets_and_exports` checks.
* `export_leftovers`: temporary files of a dead worker do not match the pattern of
  managed files, so they are never removed (`DEPLOYMENT.md`: the worker removes
  orphaned files).
* `budget_alerts`: the alerts after a request are decided on the summary read
  before it. Two requests can pass the soft limit together and neither notices;
  the requirement that exceeding the soft threshold raises an alert holds only
  once another request comes.
* `budget_environment`: a key keeps the runtime it was issued with and a budget the one
  its environment had; the sum goes by the runtime the environment has now. Once that
  is edited the budget of the environment sums nothing, while it goes on to apply to
  the keys: requests are admitted one after the other past its hard limit
  (`PRODUCT_REQUIREMENTS_ZH.md` has budgets take effect for environments, and requests
  blocked past the hard limit). A budget for a workspace or a project is not
  affected, which `OvershootIsBounded` includes.
* `session_logout`: the sessions a logout revokes are those of the operator in the
  organization of the *active identity*. After a switch to a membership of another
  organization there are none, and the session goes on; the test that expects a logout
  to revoke the session (`auth-routes.test.ts:111`) never switches.
* `export_approval_lost`: `updateExportJob` reads all filters and writes all of them
  back. A PATCH of the workflow that read before an approval and writes after it takes
  the approval away, which the route refuses to anyone who asks for it.
* `export_self_approval`: the route refuses an approval by the requester, but asks whether
  two *actors* are the same. A request made with a session is recorded as the operator's,
  an approval made with it counts as the member's, so the two never are. That
  explicit headers come first for an approval, and last for the audit event, is contrary to
  `usage-governance.test.ts:12-105` as well.

## 5. What is proved

A theorem holds for every value of the constants that the named assumptions of its
module allow. Each follows the same argument: an invariant strong enough to be
inductive, a lemma for each action or group of actions that it survives, and the
property read off it. The invariants checked by runs are seldom inductive; what is
added to each, and why, is the content of a proof. Each safety property a run refutes
has a theorem too, which says when it does hold:

| Refuted by | Holds | Theorem |
|---|---|---|
| `export_prune_race` | with one worker | `CompletedFileKeptHolds` |
| `budget_alerts` | with one request or edit at a time | `LimitsAlertedOneAtATime` |
| `budget_environment` | without budgets for environments | `HardLimitBlocksElsewhere` |
| `session_logout` | with memberships of one organization | `LogoutRevokesInOneOrganization` |
| `export_approval_lost` | with one PATCH at a time | `ApprovalKeptOneAtATime` |
| `export_self_approval` | where calls carry an address only, one to a person | `SelfApprovalBlockedByAddress` |

**`ExportWorkerProofs`** (`ConstantsOK`, `NoOwnerOK`): any workers, jobs, targets, faults.

1. `TypeCorrect`: `TypeOK` and `HolderOK` (a worker has a job exactly while it
   processes one) are inductive together.
2. `ClaimsAreExclusive`, then `ExclusiveClaimHolds` and `KeyOnlyWhenSettledHolds`:
   `ClaimInv` adds that rows not created are untouched and that a claim's number is at
   most its row's `attempt_count`. A claim takes a number above all others of
   the job, hence is nobody else's. This needs no assumption on time.
3. `WorkersArePrompt`, then `SingleProcessorHolds`, `FileMatchesRowHolds` and
   `DeliveredOnceHolds`: `PromptInv` says, as long as no live worker outlived the
   stale interval, what row, file and notifications of a job look like at each step
   of its worker, and that a running row that is stale has no live holder. The properties
   are not inductive themselves: that `completeExportJob` touches its own
   claim's row follows only from the row being in the state the *same* worker left it
   in, for which one has to know where that worker stands.
4. `CompletedFileKeptHolds`, under `OneWorker` (the run `export_prune_race` shows it
   false for two): `KeptInv` says that a completed job names its file, that what
   clean-up has read of the table has every completed job, and that what it is about to
   remove holds no file of one. All three rest on a worker doing one thing at a time: it
   completes no job while it cleans up.
5. `WorkerRefines`: with `MaxOverruns = 0` any number of workers implement `ExportJobs`.
   By `PromptInv` a job has at most one owner,
   so the owner in the refinement mapping, a `CHOOSE`, is a function of who stands where;
   no step but a claim and the owner's own changes who it is; each step is then one
   abstract step of one job, or none. The code itself never checks ownership after the claim.
6. `AnnouncedForGoodHolds`, also with `MaxOverruns = 0`, read off the abstract lifecycle by
   way of `WorkerRefines`: an export some target has been notified of stays completed. It
   needs no invariant of the worker's own.

**`ScheduledReportsProofs`** (`CadencesOK`, `TimesOK`, `EventsOK`): any reports, events,
cadences, window and cool-down, and any finite number of runners.

7. `TypeCorrect`.
8. `SchedulePacedHolds`, through `ScheduleInv`: unless an edit came late, every run
   that moved the schedule lies at least the row's cadence before `next_run_at`.
   `SchedulePaced` speaks only of jobs; that the next one keeps its distance
   follows from where the row has been moved to.
9. `ManualDeduplicatedHolds`, through `DatesPast` (a runner's date and a job's date are
   past when they are used, and a job's date is not after its insertion) and
   `ManualInv`: `next_run_at` is after every run by the clock or by hand, and as
   long as no event followed such a run, `last_run_at` is not before its date. So
   a click within the window finds a recent run and its job, even a click with an
   older date that commits last.
10. `BurstBoundedHolds`, through `BurstInv`: while the cool-down that a job starts lasts,
   the jobs inserted in it and the runners let through by their check (`Armed`) are
   together no more than the runners. Each inserts at most one job, and is
   let through only when its check found nothing within the cool-down before its
   date, so by `DatesPast` when no cool-down lasts.

**`BudgetGateProofs`** (`BudgetConstantsOK`): any finite number of slots and keys, any
policies, scopes, months, edits and faults.

11. `TypesInvariant` and `BudgetTypeCorrect`: `TypeInv` adds to the types what a slot at
   each stage holds: a summary of each policy it is still to sum, and only policies that
   exist to read again.
12. `OvershootIsBounded`, through `BudgetInv`, for budgets nobody edits, nor the
    environment they are for; `HardLimitBlocksElsewhere` is a corollary. The sum recorded
    says nothing of what is in flight, so the invariant counts it: of the requests that
    have been admitted or still may be, at most one read the sum as it is and accounts for
    what it read; each of the others adds at most a whole request (`MaxEstimate + Slack`).
    `Faithful` adds that what a request holds is what the policies say, and that it is
    upstream only with an estimate that fits; `Ahead`, that nothing is booked to a month
    that has not begun. Recording a cost moves it from what is in flight to the sum.
13. `LimitsAlertedOneAtATime` and `AlertsJustifiedOneAtATime`, for one slot, through
    `AlertInv`. Both properties speak of the system at rest only, so the invariant has to
    say what a slot on its way knows. While nothing has upset the alerts (`Calm`:
    no month ended under a request, no alert was touched by hand, no write failed) the
    summaries in its memory are what the tables would give (`Exact`), they are those of the
    policies in force for its key (`Holds`), and the alerts it has queued are
    justified (`Queued`). With these: an open alert that is not justified is one the
    slot is about to resolve (`Resolving`), and one that is due is open or about to be
    raised (`Raising`). At rest nothing is about to happen. A second slot breaks
    `Exact`: what one keeps in memory the other has outdated.

**`VirtualKeysProofs`** (`KeysConstantsOK`): any members, handlers, keys and dates.
`KeysInv` (types, and calls under way are of keys that were issued) gives
`KeysTypeCorrect`; `LineInv` (rows not issued are empty, predecessor and root have been
issued, a key is active exactly while nothing has ended it) gives
`OneActivePerLineHolds` and `RotatedOnceHolds`: a successor is inserted in the
transaction that ends its predecessor, so a line has the usable key of its one
key that nothing ended, if any. `GrantKeptHolds` and the action property
`LapsedRevivedByMemberHolds` follow.

**`SessionsProofs`** (`SessionsConstantsOK`): any sessions, requests, memberships and spans.
`SessionsTypeCorrect`, `RevokedOnceHolds`, and the action property
`FrozenOnceRevokedHolds`. `IdleHonouredHolds` needs `IdleInv`: a request that is still to
date its visit was accepted no later than the last visit of its session, so its older
date is harmless. `SwitchKeptHolds` needs `SwitchInv`: the choice of a session that is not in
doubt is of an active membership and is what its row says; a request that is to look up what it
read of that row will find it active, and none is about to write a default back. Edits of other
memberships, or of that one while nobody has read it, leave it so.
`LogoutAtHomeHolds`, through `LogoutInv` (a row keeps its organization, and a request that
has read it holds that): a logout revokes the session it was made with when it acts in the
organization of the session; so it does for a person with memberships of one
(`LogoutRevokesInOneOrganization`).

**`ExportGovernanceProofs`** (`GovConstantsOK`): any callers, with any headers, members, PATCHes and downloads.
`GovInvariant` joins the types with those of the lifecycle and gives `GovTypeCorrect`.
`FourEyesInv` follows a PATCH: once its actors are checked, what it carries, and later what
it has merged, names a caller whose actor for approvals is not the actor recorded (which is
recorded once);
with it `FourEyesHolds` and `DownloadReviewedHolds`. `TurnInv`: for a PATCH the job has
not changed under, what it checked still holds and what it will write is its change
merged into what is there; with it the action property `GateKeptInTurnHolds`. `AloneInv`:
a PATCH that is alone writes its change merged into what is there even if the worker moves
the job meanwhile, and no change it may carry reverts an approval; with it the action property
`ApprovalKeptOneAtATime`. `SelfApprovalBlockedByAddress`: where a call names its sender by
`x-member-email` only, the two rules give the same actor, so that `FourEyesInv` speaks of
persons. The lifecycle of the job needs no theorem here: it is that of `ExportJobs` by
definition, and `WorkerRefines` is what proves it of the workers.

**`GatewayRequestsProofs`** (`RequestConstantsOK`): any number of requests, chunks and
usage. `RequestsInv` says, of each request at each stage, how the number of its events,
its signal, its source, the chunks sent and the usage added up agree; from it
`RequestsTypeCorrect`, `RecordedOnceHolds`, `RecordedAsDeliveredHolds` and
`AbandonedCallAbortedHolds`.

**`ProviderCredentialsProofs`** (`CredConstantsOK`): any connections, calls, edits, limit and
time to live. Here the properties are inductive together with the types (`CredInv`):
`CredTypeCorrect`, `CredentialAsSelectedHolds`, `OldestDroppedHolds`. The work is in the lemmas
about lists. What is left of the cache after an eviction is described by the increasing
list of the places that stay, which exists (`Listed`, by a least counterexample in the
length); so entries keep their order (`EvictedOrdered`), a new one comes last (`SetEntryOrdered`),
and a cut at the front drops what would expire first (`LimitEnforced`). That a credential is
the selected one follows from the key of an entry, which has id, `updatedAt` and secret of
the row it was read from.

Only model-checked: liveness under fairness (`JobsSettle`, `OrphansPruned`,
`HardAlertSettles`, `RequestsSettle`), which is beyond the prover. Every invariant and
every action property of a passing run is the subject of a theorem.

## 6. Plan

Done: the export worker with lifecycle, refinement and proofs; the budget gate with its
proofs; scheduled reports with theirs; virtual keys, sessions, governance and gateway
requests with theirs; the credential cache with its proofs.

Left, in this order:

1. The calendar: `setUTCMonth` overflows (`packages/database/src/index.ts:6971`), so a monthly cadence is
   28 to 31 days, counted from the run; a pure module over dates.
2. Prices by tier with cached tokens (`apps/gateway/src/pricing.ts`), a pure module over
   bounded token counts and price tables.

## 7. Not modelled

Most of the repository's lines are user interface, schemas, translations and single-row
CRUD; the modules are about the few thousand lines in which calls, workers and requests
meet.

* Web admin, desktop shell, tools and deployment files keep none of the system's state.
* Workspaces, projects, catalog, saved views, lineage: guarded single-row CRUD. Members
  and policies are modelled as far as keys, sessions and budgets depend on them.
* Schemas, configuration, protocol translation and text matching are data. Prices are
  reduced to whether there is one.
* Prompt inspection and the listener for policy changes: no caller outside of tests and
  tools, so no behaviour of the system depends on them.
* Signing in at the identity provider and the login state in valkey; roles.
* Postgres is taken at its word: statements and transactions are atomic
  and `for update skip locked` skips rows another transaction has locked.
* Spend that is never recorded (a usage event that cannot be inserted) is lost in the
  model as in the code; no property bounds it.
* Budgets for a runtime without an environment, whose sums gain what they lose of
  their environments when one is edited.
