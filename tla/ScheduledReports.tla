-------------------------- MODULE ScheduledReports --------------------------
(***************************************************************************)
(* Scheduled reports and the export jobs they insert: by the clock, by     *)
(* hand and on an event.  Every runner reads its clock first and locks the *)
(* row of the report later, so runs commit in another order than their     *)
(* dates.  All clocks agree; only reading them and using the date differ.  *)
(***************************************************************************)
EXTENDS Integers, Sequences, FiniteSets

CONSTANTS
    Reports,     \* ids of reports
    Runners,     \* worker loops, API handlers, gateway requests
    Events,      \* "export-job-failed", "budget-alert-opened"
    Cadences,    \* lengths of a cadence
    DedupWindow, \* scheduledReportManualTriggerDedupWindowMs
    Cooldown,    \* cooldownMinutes of an event trigger
    LastDay,     \* bound: the clock
    MaxJobs      \* bound on jobs: from there on nothing begins for a live report

ASSUME CadencesOK == Cadences \subseteq Nat \ {0}
ASSUME EventsOK == IsFiniteSet(Runners) /\ "none" \notin Events
ASSUME TimesOK == DedupWindow \in Nat /\ Cooldown \in Nat /\ LastDay \in Nat /\ MaxJobs \in Nat

VARIABLES
    today,       \* the clock
    report,      \* rows of scheduled_reports
    jobs,        \* export_jobs with a scheduledReportId, in order of insertion
    slot,        \* what a runner is doing
    late         \* reports an edit rescheduled from a date before a run

vars == <<today, report, jobs, slot, late>>

NeverRun == -1   \* last_run_at is null
NoEvent == "none"
Time == 0..LastDay

Row == [state : {"none", "live", "deleted"}, cadence : Cadences,
        next : Nat, last : Nat \cup {NeverRun}, events : SUBSET Events]

JobRow == [report : Reports, source : {"scheduled", "manual", "event"},
        event : Events \cup {NoEvent}, cadence : Cadences,
        at : Nat, created : Nat, advanced : BOOLEAN]

BusySlot == [op : {"claim", "manual"}, at : Nat, on : SUBSET Reports]
        \cup [op : {"patch"}, at : Nat, on : SUBSET Reports,
              cadence : Cadences, events : SUBSET Events]
        \cup [op : {"list", "check", "run"}, at : Nat, on : SUBSET Reports,
              matches : SUBSET Reports, event : Events]

FreeSlot == [op |-> "idle"]

LiveReports == {r \in Reports : report[r].state = "live"}

JobsOf(r) == {i \in DOMAIN jobs : jobs[i].report = r}

Init ==
    /\ today = 0
    /\ \E c \in Cadences :
          report = [r \in Reports |-> [state |-> "none", cadence |-> c, next |-> 0,
                                       last |-> NeverRun, events |-> {}]]
    /\ jobs = <<>>
    /\ slot = [s \in Runners |-> FreeSlot]
    /\ late = {}

Begin(s, req) ==
    /\ slot[s] = FreeSlot
    /\ Len(jobs) < MaxJobs \/ LiveReports = {}
    /\ slot' = [slot EXCEPT ![s] = req]

End(s) == slot' = [slot EXCEPT ![s] = FreeSlot]

\* The row the transaction has locked is updated and its job inserted.
Run(r, source, event, t, next) ==
    /\ report' = [report EXCEPT ![r].last = t, ![r].next = next]
    /\ jobs' = Append(jobs, [report |-> r, source |-> source, event |-> event,
                             cadence |-> report[r].cadence, at |-> t, created |-> today,
                             advanced |-> next # report[r].next])

-----------------------------------------------------------------------------
(* Rows created, edited and deleted.                                       *)

\* A new report is due at once.
createScheduledReport ==
    /\ \E r \in Reports, c \in Cadences, E \in SUBSET Events :
          /\ report[r].state = "none"
          /\ report' = [report EXCEPT ![r] = [state |-> "live", cadence |-> c, next |-> today,
                                              last |-> NeverRun, events |-> E]]
    /\ UNCHANGED <<today, jobs, slot, late>>

deleteScheduledReport ==
    /\ \E r \in LiveReports : report' = [report EXCEPT ![r].state = "deleted"]
    /\ UNCHANGED <<today, jobs, slot, late>>

\* PATCH: a cadence restarts the schedule from the date the handler has read.
startPatch(s) ==
    /\ \E r \in LiveReports, c \in Cadences, E \in SUBSET Events :
          Begin(s, [op |-> "patch", at |-> today, on |-> {r}, cadence |-> c, events |-> E])
    /\ UNCHANGED <<today, report, jobs, late>>

updateScheduledReport(s) ==
    /\ slot[s].op = "patch"
    /\ \E r \in slot[s].on :
         \/ /\ r \in LiveReports      \* cadence, perhaps with filters
            /\ \E E \in {report[r].events, slot[s].events} :
                  report' = [report EXCEPT ![r].cadence = slot[s].cadence,
                                           ![r].next = slot[s].at + slot[s].cadence,
                                           ![r].events = E]
            /\ late' = IF \E i \in JobsOf(r) : jobs[i].at > slot[s].at
                       THEN late \cup {r} ELSE late
         \/ /\ r \in LiveReports      \* filters alone
            /\ report' = [report EXCEPT ![r].events = slot[s].events]
            /\ UNCHANGED late
         \/ /\ r \notin LiveReports   \* deleted meanwhile
            /\ UNCHANGED <<report, late>>
    /\ End(s)
    /\ UNCHANGED <<today, jobs>>

-----------------------------------------------------------------------------
(* Runs by the clock.                                                      *)

startClaim(s) ==
    /\ Begin(s, [op |-> "claim", at |-> today, on |-> {}])
    /\ UNCHANGED <<today, report, jobs, late>>

\* Seeded fault: the next run follows the run that was missed.
claimCatchingUp(s) ==
    /\ slot[s].op = "claim"
    /\ \E r \in LiveReports :
          /\ report[r].next <= slot[s].at
          /\ Run(r, "scheduled", NoEvent, slot[s].at, report[r].next + report[r].cadence)
    /\ End(s)
    /\ UNCHANGED <<today, late>>

\* The report due first, or another one if its row is locked.
claimNextDueScheduledReport(s) ==
    /\ slot[s].op = "claim"
    /\ \E r \in LiveReports :
          /\ report[r].next <= slot[s].at
          /\ Run(r, "scheduled", NoEvent, slot[s].at, slot[s].at + report[r].cadence)
    /\ End(s)
    /\ UNCHANGED <<today, late>>

\* None is due, or the rows that are due are locked.
NothingDue(s) ==
    /\ slot[s].op = "claim"
    /\ End(s)
    /\ UNCHANGED <<today, report, jobs, late>>

-----------------------------------------------------------------------------
(* Runs by hand.                                                           *)

startTrigger(s) ==
    /\ \E r \in LiveReports : Begin(s, [op |-> "manual", at |-> today, on |-> {r}])
    /\ UNCHANGED <<today, report, jobs, late>>

Recently(r, t) == report[r].last # NeverRun /\ t - report[r].last <= DedupWindow

\* Seeded fault: only jobs still pending or running are reused.
UnfinishedOnly(r, t) == {}

RecentJobs(r, t) == {i \in JobsOf(r) : jobs[i].created >= t - DedupWindow}

\* A run within the window is answered with a job of the window or one still
\* pending or running.  Whether an older job is (a retry can make it pending
\* again) is the export worker's business.
triggerScheduledReport(s) ==
    /\ slot[s].op = "manual"
    /\ \E r \in slot[s].on :
         LET t == slot[s].at
             next == IF report[r].next <= t THEN t + report[r].cadence ELSE report[r].next
         IN  \/ /\ r \in LiveReports
                /\ ~(Recently(r, t) /\ RecentJobs(r, t) # {})
                /\ Run(r, "manual", NoEvent, t, next)
             \/ /\ r \notin LiveReports \/ (Recently(r, t) /\ JobsOf(r) # {})
                /\ UNCHANGED <<report, jobs>>
    /\ End(s)
    /\ UNCHANGED <<today, late>>

-----------------------------------------------------------------------------
(* Runs on an event: list, check the cool-down of each, run each.          *)

startEvent(s) ==
    /\ \E e \in Events :
          Begin(s, [op |-> "list", at |-> today, on |-> {}, matches |-> {}, event |-> e])
    /\ UNCHANGED <<today, report, jobs, late>>

\* Which of the subscribed reports have the event in their scope is data.
listScheduledReports(s) ==
    /\ slot[s].op = "list"
    /\ \E S \in SUBSET {r \in LiveReports : slot[s].event \in report[r].events} :
          slot' = [slot EXCEPT ![s].op = "check", ![s].on = S]
    /\ UNCHANGED <<today, report, jobs, late>>

\* Seeded fault: the start of the cool-down is left out.
recentAfter(r, e, createdAfter) ==
    \E i \in JobsOf(r) : /\ jobs[i].source = "event"
                         /\ jobs[i].event = e
                         /\ jobs[i].created > createdAfter

hasRecentEventDrivenExportJob(r, e, createdAfter) ==
    \E i \in JobsOf(r) : /\ jobs[i].source = "event"
                         /\ jobs[i].event = e
                         /\ jobs[i].created >= createdAfter

checkCooldown(s) ==
    /\ slot[s].op = "check"
    /\ \E r \in slot[s].on :
          LET cooling == Cooldown > 0 /\ hasRecentEventDrivenExportJob(
                             r, slot[s].event, slot[s].at - Cooldown)
          IN  slot' = [slot EXCEPT ![s].on = @ \ {r},
                                   ![s].matches = IF cooling THEN @ ELSE @ \cup {r}]
    /\ UNCHANGED <<today, report, jobs, late>>

allChecked(s) ==
    /\ slot[s].op = "check" /\ slot[s].on = {}
    /\ slot' = [slot EXCEPT ![s].op = "run"]
    /\ UNCHANGED <<today, report, jobs, late>>

\* Seeded fault: the start of the cool-down is recorded as the run's date.
runFromCooldownStart(s) ==
    /\ slot[s].op = "run"
    /\ \E r \in slot[s].matches \cap LiveReports :
          /\ Run(r, "event", slot[s].event, slot[s].at - Cooldown, report[r].next)
          /\ slot' = [slot EXCEPT ![s].matches = @ \ {r}]
    /\ UNCHANGED <<today, late>>

\* One transaction for each match: the row is locked, the cool-down not
\* checked again and the schedule left alone.
triggerEventDrivenScheduledReport(s) ==
    /\ slot[s].op = "run"
    /\ \E r \in slot[s].matches :
          /\ IF r \in LiveReports
             THEN Run(r, "event", slot[s].event, slot[s].at, report[r].next)
             ELSE UNCHANGED <<report, jobs>>
          /\ slot' = [slot EXCEPT ![s].matches = @ \ {r}]
    /\ UNCHANGED <<today, late>>

\* All done, or one of the transactions failed and the rest is given up.
eventDone(s) ==
    /\ slot[s].op \in {"list", "check", "run"}
    /\ End(s)
    /\ UNCHANGED <<today, report, jobs, late>>

-----------------------------------------------------------------------------
Tick ==
    /\ today < LastDay
    /\ today' = today + 1
    /\ UNCHANGED <<report, jobs, slot, late>>

triggerEventDrivenScheduledReports(s) ==
    \/ startEvent(s) \/ listScheduledReports(s) \/ checkCooldown(s) \/ allChecked(s)
    \/ triggerEventDrivenScheduledReport(s) \/ eventDone(s)

Next ==
    \/ createScheduledReport \/ deleteScheduledReport \/ Tick
    \/ \E s \in Runners :
          \/ startPatch(s) \/ updateScheduledReport(s)
          \/ startClaim(s) \/ claimNextDueScheduledReport(s) \/ NothingDue(s)
          \/ startTrigger(s) \/ triggerScheduledReport(s)
          \/ triggerEventDrivenScheduledReports(s)

Spec == Init /\ [][Next]_vars

-----------------------------------------------------------------------------
(* Every row, job and runner is one the code can hold; a deleted or new    *)
(* report's job list is what its runs inserted.                            *)
TypeOK ==
    /\ today \in Time
    /\ report \in [Reports -> Row]
    /\ jobs \in Seq(JobRow)
    /\ slot \in [Runners -> BusySlot \cup {FreeSlot}]
    /\ late \in SUBSET Reports

(* However claims, manual runs and edits interleave, two runs that moved   *)
(* the schedule of a report (by claimNextDueScheduledReport or by hand     *)
(* when due) have dates at least the cadence of the later one apart: no    *)
(* missed run is caught up twice and no run is claimed twice.  A PATCH     *)
(* that waited while the report ran restarts it from its own older date    *)
(* and is the one exception.                                               *)
SchedulePaced ==
    \A r \in Reports \ late : \A i, j \in JobsOf(r) :
        i < j /\ jobs[i].advanced /\ jobs[j].advanced
            => jobs[j].at >= jobs[i].at + jobs[j].cadence

(* triggerScheduledReport gives two clicks within the window one job,      *)
(* even when the second transaction commits first: a second job exists     *)
(* only if a run on an event has put last_run_at back in between.          *)
ManualDeduplicated ==
    \A r \in Reports \ late : \A i, j \in JobsOf(r) :
        /\ i < j
        /\ jobs[i].source = "manual" /\ jobs[j].source = "manual"
        /\ jobs[j].at - jobs[i].at <= DedupWindow
        => \E k \in JobsOf(r) : i < k /\ k < j /\ jobs[k].source = "event"

(* The cool-down of an event trigger is checked before the row is locked:  *)
(* events handled at once may each insert a job, but no cool-down sees     *)
(* more of them than there are runners, so a chain of failing exports      *)
(* that trigger each other goes on at that pace only.                      *)
BurstBounded ==
    Cooldown > 0 =>
    \A i \in DOMAIN jobs :
        jobs[i].source = "event" =>
            LET Burst == {k \in JobsOf(jobs[i].report) :
                            /\ jobs[k].event = jobs[i].event
                            /\ jobs[k].created \in
                                   jobs[i].created..(jobs[i].created + Cooldown)}
            IN  Cardinality(Burst) <= Cardinality(Runners)

=============================================================================
