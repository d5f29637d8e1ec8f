----------------------- MODULE ScheduledReportsProofs -----------------------
(***************************************************************************)
(* Theorems about ScheduledReports, for any number of reports and runners, *)
(* any cadences, windows and bounds.                                       *)
(***************************************************************************)
EXTENDS ScheduledReports, FiniteSetTheorems, TLAPS

Sources == {"scheduled", "manual", "event"}

\* Appending adds one job, which is the last one.
LEMMA AppendJob ==
    ASSUME jobs \in Seq(JobRow), NEW job \in JobRow, jobs' = Append(jobs, job)
    PROVE  /\ jobs' \in Seq(JobRow)
           /\ DOMAIN jobs' = DOMAIN jobs \cup {Len(jobs) + 1}
           /\ Len(jobs) + 1 \notin DOMAIN jobs
           /\ jobs'[Len(jobs) + 1] = job
           /\ \A i \in DOMAIN jobs : i < Len(jobs) + 1 /\ jobs'[i] = jobs[i]
  <1> USE DEF JobRow
  <1>1. jobs' \in Seq(JobRow) /\ Len(jobs') = Len(jobs) + 1
    OBVIOUS
  <1>2. DOMAIN jobs = 1..Len(jobs) /\ Len(jobs) \in Nat
    OBVIOUS
  <1>3. DOMAIN jobs' = 1..(Len(jobs) + 1)
    BY <1>1
  <1>4. jobs'[Len(jobs) + 1] = job /\ \A i \in 1..Len(jobs) : jobs'[i] = jobs[i]
    OBVIOUS
  <1> QED
    BY <1>1, <1>2, <1>3, <1>4

LEMMA JobTyped ==
    ASSUME TypeOK, NEW i \in DOMAIN jobs
    PROVE  i \in Nat /\ jobs[i] \in JobRow /\ jobs[i].at \in Nat
  <1>1. jobs \in Seq(JobRow)
    BY DEF TypeOK
  <1>2. i \in 1..Len(jobs)
    BY <1>1
  <1>3. jobs[i] \in JobRow
    BY <1>1, <1>2
  <1> QED
    BY <1>2, <1>3 DEF JobRow

\* A run of a report inserts a job of the type of jobs and changes nothing of
\* the report but its dates.
LEMMA RunTyped ==
    ASSUME TypeOK, NEW r \in Reports, NEW source \in Sources,
           NEW event \in Events \cup {NoEvent}, NEW t \in Nat, NEW next \in Nat,
           Run(r, source, event, t, next)
    PROVE  /\ report' \in [Reports -> Row]
           /\ jobs' \in Seq(JobRow)
           /\ \A q \in Reports \ {r} : report'[q] = report[q]
           /\ report'[r].next = next
           /\ report'[r].cadence = report[r].cadence
           /\ report'[r].state = report[r].state
  <1> DEFINE row == [report[r] EXCEPT !.last = t, !.next = next]
  <1>1. report[r] \in Row
    BY DEF TypeOK
  <1>2. row \in Row /\ row.next = next /\ row.cadence = report[r].cadence
        /\ row.state = report[r].state
    BY <1>1 DEF Row
  <1>3. report' = [report EXCEPT ![r] = row]
    BY DEF Run, TypeOK
  <1>4. [report |-> r, source |-> source, event |-> event, cadence |-> report[r].cadence,
         at |-> t, created |-> today, advanced |-> next # report[r].next] \in JobRow
    BY <1>1 DEF Row, JobRow, TypeOK, Time, Sources
  <1>5. jobs' \in Seq(JobRow)
    BY <1>4, AppendJob DEF Run, TypeOK
  <1> QED
    BY <1>2, <1>3, <1>5 DEF TypeOK

LEMMA RowTyped ==
    ASSUME TypeOK, NEW r \in Reports
    PROVE  report[r].cadence \in Cadences /\ report[r].next \in Nat
  <1>1. report[r] \in Row
    BY DEF TypeOK
  <1> QED
    BY <1>1 DEF Row

\* The date of the next run is a date.
LEMMA NextRunTyped ==
    ASSUME NEW t \in Nat, NEW c \in Cadences
    PROVE  t + c \in Nat /\ t + c > t
  <1>1. c \in Nat \ {0}
    BY CadencesOK
  <1> QED
    BY <1>1

\* What a runner holds, by what it is doing.
LEMMA SlotTyped ==
    ASSUME TypeOK, NEW s \in Runners
    PROVE  /\ slot[s].op \in {"claim", "manual"} =>
                  slot[s] \in [op : {"claim", "manual"}, at : Nat, on : SUBSET Reports]
           /\ slot[s].op = "patch" =>
                  slot[s] \in [op : {"patch"}, at : Nat, on : SUBSET Reports,
                               cadence : Cadences, events : SUBSET Events]
           /\ slot[s].op \in {"list", "check", "run"} =>
                  slot[s] \in [op : {"list", "check", "run"}, at : Nat, on : SUBSET Reports,
                               matches : SUBSET Reports, event : Events]
  <1>1. slot[s] \in BusySlot \cup {FreeSlot}
    BY DEF TypeOK
  <1>2. CASE slot[s] = FreeSlot
    BY <1>2 DEF FreeSlot
  <1>3. CASE slot[s] \in BusySlot
    BY <1>3 DEF BusySlot
  <1> QED
    BY <1>1, <1>2, <1>3

\* Beginning and ending leave well-formed runners.
LEMMA BeginTyped ==
    ASSUME TypeOK, NEW s \in Runners, NEW req \in BusySlot, Begin(s, req)
    PROVE  slot' \in [Runners -> BusySlot \cup {FreeSlot}]
  BY DEF TypeOK, Begin

LEMMA EndTyped ==
    ASSUME TypeOK, NEW s \in Runners, End(s)
    PROVE  slot' \in [Runners -> BusySlot \cup {FreeSlot}]
  BY DEF TypeOK, End

-----------------------------------------------------------------------------
(* Types *)

LEMMA TypeInit == Init => TypeOK
  BY CadencesOK, TimesOK DEF Init, TypeOK, Time, Row, NeverRun, JobRow, FreeSlot

\* A runner only begins, ends or works on its own sets of reports.
LEMMA EventStepTyped ==
    ASSUME TypeOK, NEW s \in Runners, triggerEventDrivenScheduledReports(s)
    PROVE  TypeOK'
  <1>1. CASE startEvent(s)
    <2>1. PICK e \in Events : Begin(s, [op |-> "list", at |-> today, on |-> {},
                                        matches |-> {}, event |-> e])
      BY <1>1 DEF startEvent
    <2>2. [op |-> "list", at |-> today, on |-> {}, matches |-> {}, event |-> e] \in BusySlot
      BY DEF BusySlot, TypeOK, Time
    <2> QED
      BY <1>1, <2>1, <2>2, BeginTyped DEF startEvent, TypeOK
  <1>2. CASE listScheduledReports(s)
    <2>1. PICK S \in SUBSET {r \in LiveReports : slot[s].event \in report[r].events} :
             slot' = [slot EXCEPT ![s].op = "check", ![s].on = S]
      BY <1>2 DEF listScheduledReports
    <2>2. S \in SUBSET Reports
      BY <2>1 DEF LiveReports
    <2>3. slot[s].op = "list"
      BY <1>2 DEF listScheduledReports
    <2>4. slot[s] \in [op : {"list", "check", "run"}, at : Nat, on : SUBSET Reports,
                       matches : SUBSET Reports, event : Events]
      BY <2>3, SlotTyped
    <2>5. [[slot[s] EXCEPT !.op = "check"] EXCEPT !.on = S] \in BusySlot
      BY <2>2, <2>4 DEF BusySlot
    <2>6. slot' = [slot EXCEPT ![s] = [[slot[s] EXCEPT !.op = "check"] EXCEPT !.on = S]]
      BY <2>1 DEF TypeOK
    <2> QED
      BY <1>2, <2>5, <2>6 DEF listScheduledReports, TypeOK
  <1>3. CASE checkCooldown(s)
    <2>1. slot[s] \in [op : {"list", "check", "run"}, at : Nat, on : SUBSET Reports,
                       matches : SUBSET Reports, event : Events]
      BY <1>3, SlotTyped DEF checkCooldown
    <2>2. PICK r \in slot[s].on, cooling \in BOOLEAN :
             slot' = [slot EXCEPT ![s].on = @ \ {r},
                                  ![s].matches = IF cooling THEN @ ELSE @ \cup {r}]
      BY <1>3 DEF checkCooldown, hasRecentEventDrivenExportJob
    <2> DEFINE kept == IF cooling THEN slot[s].matches ELSE slot[s].matches \cup {r}
               rest == [[slot[s] EXCEPT !.on = slot[s].on \ {r}] EXCEPT !.matches = kept]
    <2>3. kept \in SUBSET Reports
      BY <2>1, <2>2
    <2>4. rest \in BusySlot
      BY <2>1, <2>3 DEF BusySlot
    <2>5. slot' = [slot EXCEPT ![s] = rest]
      BY <2>2 DEF TypeOK
    <2> QED
      BY <1>3, <2>4, <2>5 DEF checkCooldown, TypeOK
  <1>4. CASE allChecked(s)
    <2>1. slot[s] \in [op : {"list", "check", "run"}, at : Nat, on : SUBSET Reports,
                       matches : SUBSET Reports, event : Events]
      BY <1>4, SlotTyped DEF allChecked
    <2>2. [slot[s] EXCEPT !.op = "run"] \in BusySlot
      BY <2>1 DEF BusySlot
    <2> QED
      BY <1>4, <2>2 DEF allChecked, TypeOK
  <1>5. CASE triggerEventDrivenScheduledReport(s)
    <2>1. slot[s] \in [op : {"list", "check", "run"}, at : Nat, on : SUBSET Reports,
                       matches : SUBSET Reports, event : Events]
      BY <1>5, SlotTyped DEF triggerEventDrivenScheduledReport
    <2>2. PICK r \in slot[s].matches :
             /\ \/ r \in LiveReports /\ Run(r, "event", slot[s].event, slot[s].at, report[r].next)
                \/ UNCHANGED <<report, jobs>>
             /\ slot' = [slot EXCEPT ![s].matches = @ \ {r}]
      BY <1>5 DEF triggerEventDrivenScheduledReport
    <2>3. [slot[s] EXCEPT !.matches = slot[s].matches \ {r}] \in BusySlot
      BY <2>1 DEF BusySlot
    <2>4. slot' \in [Runners -> BusySlot \cup {FreeSlot}]
      BY <2>2, <2>3 DEF TypeOK
    <2>5. report' \in [Reports -> Row] /\ jobs' \in Seq(JobRow)
      <3>1. CASE UNCHANGED <<report, jobs>>
        BY <3>1 DEF TypeOK
      <3>2. CASE Run(r, "event", slot[s].event, slot[s].at, report[r].next)
        <4>1. report[r].next \in Nat
          BY <2>1, <2>2 DEF TypeOK, Row
        <4> QED
          BY <2>1, <2>2, <3>2, <4>1, RunTyped DEF Sources
      <3> QED
        BY <2>2, <3>1, <3>2
    <2> QED
      BY <1>5, <2>4, <2>5 DEF triggerEventDrivenScheduledReport, TypeOK
  <1>6. CASE eventDone(s)
    BY <1>6, EndTyped DEF eventDone, TypeOK
  <1> QED
    BY <1>1, <1>2, <1>3, <1>4, <1>5, <1>6 DEF triggerEventDrivenScheduledReports

LEMMA ClaimStepTyped ==
    ASSUME TypeOK, NEW s \in Runners, startClaim(s) \/ claimNextDueScheduledReport(s)
                                    \/ NothingDue(s)
    PROVE  TypeOK'
  <1>1. CASE startClaim(s)
    <2>1. [op |-> "claim", at |-> today, on |-> {}] \in BusySlot
      BY DEF BusySlot, TypeOK, Time
    <2> QED
      BY <1>1, <2>1, BeginTyped DEF startClaim, TypeOK
  <1>2. CASE claimNextDueScheduledReport(s)
    <2>1. slot[s].at \in Nat
      BY <1>2, SlotTyped DEF claimNextDueScheduledReport
    <2>2. PICK r \in LiveReports :
             Run(r, "scheduled", NoEvent, slot[s].at, slot[s].at + report[r].cadence)
      BY <1>2 DEF claimNextDueScheduledReport
    <2>3. r \in Reports /\ slot[s].at + report[r].cadence \in Nat
      BY <2>1, <2>2, RowTyped, NextRunTyped DEF LiveReports
    <2>4. report' \in [Reports -> Row] /\ jobs' \in Seq(JobRow)
      BY <2>1, <2>2, <2>3, RunTyped DEF Sources
    <2> QED
      BY <1>2, <2>4, EndTyped DEF claimNextDueScheduledReport, TypeOK
  <1>3. CASE NothingDue(s)
    BY <1>3, EndTyped DEF NothingDue, TypeOK
  <1> QED
    BY <1>1, <1>2, <1>3

LEMMA ManualStepTyped ==
    ASSUME TypeOK, NEW s \in Runners, startTrigger(s) \/ triggerScheduledReport(s)
    PROVE  TypeOK'
  <1>1. CASE startTrigger(s)
    <2>1. PICK r \in LiveReports : Begin(s, [op |-> "manual", at |-> today, on |-> {r}])
      BY <1>1 DEF startTrigger
    <2>2. [op |-> "manual", at |-> today, on |-> {r}] \in BusySlot
      BY DEF BusySlot, TypeOK, Time, LiveReports
    <2> QED
      BY <1>1, <2>1, <2>2, BeginTyped DEF startTrigger, TypeOK
  <1>2. CASE triggerScheduledReport(s)
    <2>1. slot[s].at \in Nat /\ slot[s].on \in SUBSET Reports
      BY <1>2, SlotTyped DEF triggerScheduledReport
    <2>2. PICK r \in slot[s].on :
             \/ Run(r, "manual", NoEvent, slot[s].at,
                    IF report[r].next <= slot[s].at
                    THEN slot[s].at + report[r].cadence ELSE report[r].next)
             \/ UNCHANGED <<report, jobs>>
      BY <1>2 DEF triggerScheduledReport
    <2>3. CASE UNCHANGED <<report, jobs>>
      BY <1>2, <2>3, EndTyped DEF triggerScheduledReport, TypeOK
    <2>4. CASE Run(r, "manual", NoEvent, slot[s].at,
                   IF report[r].next <= slot[s].at
                   THEN slot[s].at + report[r].cadence ELSE report[r].next)
      <3>1. (IF report[r].next <= slot[s].at
             THEN slot[s].at + report[r].cadence ELSE report[r].next) \in Nat
        <4>1. r \in Reports
          BY <2>1
        <4> QED
          BY <2>1, <4>1, RowTyped, NextRunTyped
      <3>2. report' \in [Reports -> Row] /\ jobs' \in Seq(JobRow)
        BY <2>1, <2>4, <3>1, RunTyped DEF Sources
      <3> QED
        BY <1>2, <3>2, EndTyped DEF triggerScheduledReport, TypeOK
    <2> QED
      BY <2>2, <2>3, <2>4
  <1> QED
    BY <1>1, <1>2

LEMMA EditStepTyped ==
    ASSUME TypeOK,
           \/ createScheduledReport \/ deleteScheduledReport \/ Tick
           \/ \E s \in Runners : startPatch(s) \/ updateScheduledReport(s)
    PROVE  TypeOK'
  <1>1. CASE createScheduledReport
    BY <1>1 DEF createScheduledReport, TypeOK, Row, Time
  <1>2. CASE deleteScheduledReport
    BY <1>2 DEF deleteScheduledReport, TypeOK, Row, LiveReports
  <1>3. CASE Tick
    BY <1>3, TimesOK DEF Tick, TypeOK, Time
  <1>4. ASSUME NEW s \in Runners, startPatch(s)
        PROVE  TypeOK'
    <2>1. PICK r \in LiveReports, c \in Cadences, E \in SUBSET Events :
             Begin(s, [op |-> "patch", at |-> today, on |-> {r}, cadence |-> c, events |-> E])
      BY <1>4 DEF startPatch
    <2>2. [op |-> "patch", at |-> today, on |-> {r}, cadence |-> c, events |-> E] \in BusySlot
      BY DEF BusySlot, TypeOK, Time, LiveReports
    <2> QED
      BY <1>4, <2>1, <2>2, BeginTyped DEF startPatch, TypeOK
  <1>5. ASSUME NEW s \in Runners, updateScheduledReport(s)
        PROVE  TypeOK'
    <2>1. slot[s] \in [op : {"patch"}, at : Nat, on : SUBSET Reports,
                       cadence : Cadences, events : SUBSET Events]
      BY <1>5, SlotTyped DEF updateScheduledReport
    <2>2. PICK r \in slot[s].on :
             \/ /\ \E E \in {report[r].events, slot[s].events} :
                      report' = [report EXCEPT ![r].cadence = slot[s].cadence,
                                               ![r].next = slot[s].at + slot[s].cadence,
                                               ![r].events = E]
                /\ late' \in {late, late \cup {r}}
             \/ report' = [report EXCEPT ![r].events = slot[s].events] /\ late' = late
             \/ report' = report /\ late' = late
      BY <1>5 DEF updateScheduledReport
    <2>3. late' \in SUBSET Reports
      BY <2>1, <2>2 DEF TypeOK
    <2>4. report[r] \in Row /\ slot[s].at + slot[s].cadence \in Nat
      BY <2>1, NextRunTyped DEF TypeOK
    <2> DEFINE moved(E) == [[[report[r] EXCEPT !.cadence = slot[s].cadence]
                                EXCEPT !.next = slot[s].at + slot[s].cadence]
                                EXCEPT !.events = E]
               filtered == [report[r] EXCEPT !.events = slot[s].events]
    <2>5. /\ \A E \in {report[r].events, slot[s].events} : moved(E) \in Row
          /\ filtered \in Row
      BY <2>1, <2>4 DEF Row
    <2>6. \E E \in {report[r].events, slot[s].events} :
             report' \in {report, [report EXCEPT ![r] = moved(E)],
                          [report EXCEPT ![r] = filtered]}
      BY <2>2 DEF TypeOK
    <2>7. report' \in [Reports -> Row]
      BY <2>5, <2>6 DEF TypeOK
    <2> QED
      BY <1>5, <2>3, <2>7, EndTyped DEF updateScheduledReport, TypeOK
  <1> QED
    BY <1>1, <1>2, <1>3, <1>4, <1>5

LEMMA TypeStep == TypeOK /\ [Next]_vars => TypeOK'
  <1> SUFFICES ASSUME TypeOK, [Next]_vars
               PROVE  TypeOK'
    OBVIOUS
  <1>1. CASE UNCHANGED vars
    BY <1>1 DEF vars, TypeOK
  <1>2. CASE Next
    BY <1>2, EventStepTyped, ClaimStepTyped, ManualStepTyped, EditStepTyped DEF Next
  <1> QED
    BY <1>1, <1>2

(* The rows, jobs and runners of every behaviour have their types: dates   *)
(* are never negative, and a runner holds what its handler has read.       *)
THEOREM TypeCorrect == Spec => []TypeOK
  BY TypeInit, TypeStep, PTL DEF Spec

-----------------------------------------------------------------------------
(* The schedule *)

\* A report that has jobs was created, and unless a late edit moved it, its
\* next run lies a cadence after every run that moved the schedule.
NextRunAfterRuns ==
    \A r \in Reports : \A i \in JobsOf(r) :
        /\ report[r].state # "none"
        /\ r \notin late /\ jobs[i].advanced
               => report[r].next >= jobs[i].at + report[r].cadence

ScheduleInv == NextRunAfterRuns /\ SchedulePaced

\* Steps that insert no job and keep, or carefully move, the schedules.
LEMMA NoRunPaced ==
    ASSUME ScheduleInv, jobs' = jobs, late \subseteq late',
           \A r \in Reports : \/ report'[r] = report[r]
                              \/ JobsOf(r) = {}
                              \/ /\ report'[r].state # "none"
                                 /\ \A i \in JobsOf(r) :
                                        r \notin late' /\ jobs[i].advanced =>
                                          report'[r].next >= jobs[i].at + report'[r].cadence
    PROVE  ScheduleInv'
  <1>1. \A r : JobsOf(r)' = JobsOf(r)
    BY DEF JobsOf
  <1>2. SchedulePaced'
    BY <1>1 DEF ScheduleInv, SchedulePaced
  <1>3. NextRunAfterRuns'
    BY <1>1 DEF ScheduleInv, NextRunAfterRuns
  <1> QED
    BY <1>2, <1>3 DEF ScheduleInv

\* A run that leaves the schedule alone, or moves it because it was due.
LEMMA RunPaced ==
    ASSUME TypeOK, ScheduleInv, NEW r \in LiveReports, NEW source \in Sources,
           NEW event \in Events \cup {NoEvent}, NEW t \in Nat, NEW next \in Nat,
           Run(r, source, event, t, next), late' = late,
           \/ next = report[r].next
           \/ report[r].next <= t /\ next = t + report[r].cadence
    PROVE  ScheduleInv'
  <1> DEFINE n   == Len(jobs) + 1
             job == [report |-> r, source |-> source, event |-> event,
                     cadence |-> report[r].cadence, at |-> t, created |-> today,
                     advanced |-> next # report[r].next]
  <1>1. r \in Reports /\ report[r].state = "live"
    BY DEF LiveReports
  <1>2. report[r].cadence \in Nat \ {0} /\ report[r].next \in Nat
    BY <1>1, RowTyped, CadencesOK
  <1>3. job \in JobRow
    BY <1>1, RowTyped DEF JobRow, Sources, TypeOK, Time
  <1>4. jobs' = Append(jobs, job)
    BY DEF Run
  <1>5. /\ DOMAIN jobs' = DOMAIN jobs \cup {n}
        /\ n \notin DOMAIN jobs
        /\ jobs'[n] = job
        /\ \A i \in DOMAIN jobs : i < n /\ jobs'[i] = jobs[i]
    BY <1>3, <1>4, AppendJob DEF TypeOK
  <1>6. /\ \A q \in Reports \ {r} : report'[q] = report[q]
        /\ report'[r].next = next
        /\ report'[r].cadence = report[r].cadence
        /\ report'[r].state = report[r].state
    BY <1>1, RunTyped
  <1>7. job.report = r /\ job.at = t /\ job.cadence = report[r].cadence
        /\ (job.advanced => report[r].next <= t)
        /\ (job.advanced => next = t + report[r].cadence)
    OBVIOUS
  <1>8. \A q \in Reports \ {r} : JobsOf(q)' = JobsOf(q)
    BY <1>5, <1>7 DEF JobsOf
  <1>9. JobsOf(r)' = JobsOf(r) \cup {n}
    BY <1>5, <1>7 DEF JobsOf
  <1>10. \A q \in Reports : JobsOf(q) \subseteq DOMAIN jobs
    BY DEF JobsOf
  <1>11. \A i \in DOMAIN jobs : jobs[i] \in JobRow /\ jobs[i].at \in Nat /\ i \in Nat
    BY JobTyped
  <1>12. n \in Nat
    BY DEF TypeOK
  \* Every earlier run lies a cadence before the next one, old or new.
  <1>13. ASSUME NEW i \in JobsOf(r), r \notin late, jobs[i].advanced
         PROVE  /\ report[r].next >= jobs[i].at + report[r].cadence
                /\ next >= jobs[i].at + report[r].cadence
    <2>1. report[r].next >= jobs[i].at + report[r].cadence
      BY <1>1, <1>13 DEF ScheduleInv, NextRunAfterRuns
    <2>2. jobs[i].at \in Nat
      BY <1>1, <1>10, <1>11
    <2> QED
      BY <1>2, <2>1, <2>2
  <1>14. NextRunAfterRuns'
    <2> SUFFICES ASSUME NEW q \in Reports, NEW i \in JobsOf(q)'
                 PROVE  /\ report'[q].state # "none"
                        /\ q \notin late /\ jobs'[i].advanced
                               => report'[q].next >= jobs'[i].at + report'[q].cadence
      BY DEF NextRunAfterRuns
    <2>1. CASE q # r
      BY <2>1, <1>5, <1>6, <1>8, <1>10 DEF ScheduleInv, NextRunAfterRuns
    <2>2. CASE q = r /\ i = n
      BY <2>2, <1>1, <1>2, <1>5, <1>6, <1>7
    <2>3. CASE q = r /\ i \in JobsOf(r)
      BY <2>3, <1>1, <1>5, <1>6, <1>10, <1>13
    <2> QED
      BY <2>1, <2>2, <2>3, <1>9
  <1>15. SchedulePaced'
    <2> SUFFICES ASSUME NEW q \in Reports \ late, NEW i \in JobsOf(q)', NEW j \in JobsOf(q)',
                        i < j, jobs'[i].advanced, jobs'[j].advanced
                 PROVE  jobs'[j].at >= jobs'[i].at + jobs'[j].cadence
      BY DEF SchedulePaced
    <2>1. CASE i \in JobsOf(q) /\ j \in JobsOf(q)
      BY <2>1, <1>5, <1>10 DEF ScheduleInv, SchedulePaced
    <2>2. CASE q = r /\ i \in JobsOf(r) /\ j = n
      <3>1. jobs'[i] = jobs[i] /\ jobs[i].at \in Nat
        BY <2>2, <1>1, <1>5, <1>10, <1>11
      <3>2. report[r].next >= jobs[i].at + report[r].cadence
        BY <2>2, <3>1, <1>13
      <3>3. jobs'[j].at = t /\ jobs'[j].cadence = report[r].cadence /\ report[r].next <= t
        BY <2>2, <1>5, <1>7
      <3> QED
        BY <3>1, <3>2, <3>3, <1>2
    <2>3. CASE i = n
      <3>1. j \in DOMAIN jobs \cup {n}
        BY <1>5 DEF JobsOf
      <3> QED
        BY <2>3, <3>1, <1>5, <1>11, <1>12
    <2> QED
      BY <2>1, <2>2, <2>3, <1>8, <1>9
  <1> QED
    BY <1>14, <1>15 DEF ScheduleInv

LEMMA ScheduleStep == TypeOK /\ ScheduleInv /\ [Next]_vars => ScheduleInv'
  <1> SUFFICES ASSUME TypeOK, ScheduleInv, [Next]_vars
               PROVE  ScheduleInv'
    OBVIOUS
  <1>1. CASE UNCHANGED <<report, jobs, late>>
    BY <1>1, NoRunPaced
  <1>2. CASE createScheduledReport
    <2>1. PICK r \in Reports : /\ report[r].state = "none"
                              /\ \A q \in Reports \ {r} : report'[q] = report[q]
      BY <1>2 DEF createScheduledReport, TypeOK
    <2>2. JobsOf(r) = {}
      BY <2>1 DEF ScheduleInv, NextRunAfterRuns
    <2> QED
      BY <1>2, <2>1, <2>2, NoRunPaced DEF createScheduledReport
  <1>3. CASE deleteScheduledReport
    <2>1. PICK r \in LiveReports : report' = [report EXCEPT ![r].state = "deleted"]
      BY <1>3 DEF deleteScheduledReport
    <2>2. report[r] \in Row /\ r \in Reports
      BY DEF LiveReports, TypeOK
    <2>3. /\ \A q \in Reports \ {r} : report'[q] = report[q]
          /\ report'[r].state = "deleted"
          /\ report'[r].next = report[r].next
          /\ report'[r].cadence = report[r].cadence
      BY <2>1, <2>2 DEF TypeOK, Row
    <2> QED
      BY <1>3, <2>3, NoRunPaced DEF deleteScheduledReport, ScheduleInv, NextRunAfterRuns
  <1>4. ASSUME NEW s \in Runners, updateScheduledReport(s)
        PROVE  ScheduleInv'
    <2>1. slot[s] \in [op : {"patch"}, at : Nat, on : SUBSET Reports,
                       cadence : Cadences, events : SUBSET Events]
      BY <1>4, SlotTyped DEF updateScheduledReport
    <2>2. PICK r \in slot[s].on :
             \/ /\ r \in LiveReports
                /\ \E E \in {report[r].events, slot[s].events} :
                      report' = [report EXCEPT ![r].cadence = slot[s].cadence,
                                               ![r].next = slot[s].at + slot[s].cadence,
                                               ![r].events = E]
                /\ late' = IF \E i \in JobsOf(r) : jobs[i].at > slot[s].at
                           THEN late \cup {r} ELSE late
             \/ /\ r \in LiveReports
                /\ report' = [report EXCEPT ![r].events = slot[s].events]
                /\ late' = late
             \/ UNCHANGED <<report, late>>
      BY <1>4 DEF updateScheduledReport
    <2>3. jobs' = jobs
      BY <1>4 DEF updateScheduledReport
    <2>4. report[r] \in Row /\ r \in Reports
      BY <2>1 DEF TypeOK
    <2>5. CASE UNCHANGED <<report, late>>
      BY <2>3, <2>5, NoRunPaced
    <2>6. CASE /\ r \in LiveReports
               /\ report' = [report EXCEPT ![r].events = slot[s].events]
               /\ late' = late
      <3>1. /\ \A q \in Reports \ {r} : report'[q] = report[q]
            /\ report'[r].state = report[r].state
            /\ report'[r].next = report[r].next
            /\ report'[r].cadence = report[r].cadence
        BY <2>4, <2>6 DEF TypeOK, Row
      <3> QED
        BY <2>3, <2>6, <3>1, NoRunPaced DEF ScheduleInv, NextRunAfterRuns
    <2>7. CASE /\ r \in LiveReports
               /\ \E E \in {report[r].events, slot[s].events} :
                     report' = [report EXCEPT ![r].cadence = slot[s].cadence,
                                              ![r].next = slot[s].at + slot[s].cadence,
                                              ![r].events = E]
               /\ late' = IF \E i \in JobsOf(r) : jobs[i].at > slot[s].at
                          THEN late \cup {r} ELSE late
      <3>1. /\ \A q \in Reports \ {r} : report'[q] = report[q]
            /\ report'[r].state = report[r].state
            /\ report'[r].next = slot[s].at + slot[s].cadence
            /\ report'[r].cadence = slot[s].cadence
        BY <2>4, <2>7 DEF TypeOK, Row
      <3>2. late \subseteq late'
        BY <2>7
      <3>3. report'[r].state # "none"
        BY <2>7, <3>1 DEF LiveReports
      <3>4. \A i \in JobsOf(r) : jobs[i].at \in Nat
        BY JobTyped DEF JobsOf
      <3>5. slot[s].at \in Nat /\ slot[s].cadence \in Nat
        BY <2>1, CadencesOK
      <3>6. ASSUME NEW i \in JobsOf(r), r \notin late', jobs[i].advanced
            PROVE  report'[r].next >= jobs[i].at + report'[r].cadence
        <4>1. ~(jobs[i].at > slot[s].at)
          BY <2>7, <3>6
        <4> QED
          BY <3>1, <3>4, <3>5, <4>1
      <3> QED
        BY <2>3, <3>1, <3>2, <3>3, <3>6, NoRunPaced
    <2> QED
      BY <2>2, <2>5, <2>6, <2>7
  <1>5. ASSUME NEW s \in Runners, claimNextDueScheduledReport(s)
        PROVE  ScheduleInv'
    <2>1. slot[s].at \in Nat
      BY <1>5, SlotTyped DEF claimNextDueScheduledReport
    <2>2. PICK r \in LiveReports :
             /\ report[r].next <= slot[s].at
             /\ Run(r, "scheduled", NoEvent, slot[s].at, slot[s].at + report[r].cadence)
      BY <1>5 DEF claimNextDueScheduledReport
    <2>3. slot[s].at + report[r].cadence \in Nat
      BY <2>1, RowTyped, NextRunTyped DEF LiveReports
    <2>4. late' = late
      BY <1>5 DEF claimNextDueScheduledReport
    <2> QED
      BY <2>1, <2>2, <2>3, <2>4, RunPaced DEF Sources
  <1>6. ASSUME NEW s \in Runners, triggerScheduledReport(s)
        PROVE  ScheduleInv'
    <2>1. slot[s].at \in Nat /\ late' = late
      BY <1>6, SlotTyped DEF triggerScheduledReport
    <2>2. PICK r \in slot[s].on :
             \/ /\ r \in LiveReports
                /\ Run(r, "manual", NoEvent, slot[s].at,
                       IF report[r].next <= slot[s].at
                       THEN slot[s].at + report[r].cadence ELSE report[r].next)
             \/ UNCHANGED <<report, jobs>>
      BY <1>6 DEF triggerScheduledReport
    <2>3. CASE UNCHANGED <<report, jobs>>
      BY <2>1, <2>3, NoRunPaced
    <2>4. ASSUME r \in LiveReports, report[r].next <= slot[s].at,
                 Run(r, "manual", NoEvent, slot[s].at, slot[s].at + report[r].cadence)
          PROVE  ScheduleInv'
      <3>1. slot[s].at + report[r].cadence \in Nat
        BY <2>1, <2>4, RowTyped, NextRunTyped DEF LiveReports
      <3> QED
        BY <2>1, <2>4, <3>1, RunPaced DEF Sources
    <2>5. ASSUME r \in LiveReports, Run(r, "manual", NoEvent, slot[s].at, report[r].next)
          PROVE  ScheduleInv'
      <3>1. report[r].next \in Nat
        BY <2>5, RowTyped DEF LiveReports
      <3> QED
        BY <2>1, <2>5, <3>1, RunPaced DEF Sources
    <2> QED
      BY <2>2, <2>3, <2>4, <2>5
  <1>7. ASSUME NEW s \in Runners, triggerEventDrivenScheduledReport(s)
        PROVE  ScheduleInv'
    <2>1. slot[s].at \in Nat /\ slot[s].event \in Events /\ late' = late
      BY <1>7, SlotTyped DEF triggerEventDrivenScheduledReport
    <2>2. PICK r \in slot[s].matches :
             \/ r \in LiveReports /\ Run(r, "event", slot[s].event, slot[s].at, report[r].next)
             \/ UNCHANGED <<report, jobs>>
      BY <1>7 DEF triggerEventDrivenScheduledReport
    <2>3. CASE UNCHANGED <<report, jobs>>
      BY <2>1, <2>3, NoRunPaced
    <2>4. ASSUME r \in LiveReports, Run(r, "event", slot[s].event, slot[s].at, report[r].next)
          PROVE  ScheduleInv'
      <3>1. report[r].next \in Nat
        BY <2>4, RowTyped DEF LiveReports
      <3> QED
        BY <2>1, <2>4, <3>1, RunPaced DEF Sources
    <2> QED
      BY <2>2, <2>3, <2>4
  <1>8. CASE UNCHANGED vars
    BY <1>1, <1>8 DEF vars
  <1> QED
    BY <1>1, <1>2, <1>3, <1>4, <1>5, <1>6, <1>7, <1>8
       DEF Next, Tick, startPatch, startClaim, NothingDue, startTrigger,
           triggerEventDrivenScheduledReports, startEvent, listScheduledReports,
           checkCooldown, allChecked, eventDone

(* However runs by the clock, runs by hand and edits of any number of      *)
(* reports interleave, the schedule of a report that no late edit moved    *)
(* is consumed at most once per cadence.                                   *)
THEOREM SchedulePacedHolds == Spec => []SchedulePaced
  <1>1. Init => ScheduleInv
    BY DEF Init, ScheduleInv, NextRunAfterRuns, SchedulePaced, JobsOf
  <1>2. ScheduleInv => SchedulePaced
    BY DEF ScheduleInv
  <1> QED
    BY <1>1, <1>2, TypeCorrect, ScheduleStep, PTL DEF Spec

-----------------------------------------------------------------------------
(* Runs by hand *)

\* A runner's date, and a job's, was read before it was used.
DatesPast ==
    /\ \A s \in Runners : slot[s] # FreeSlot => slot[s].at <= today
    /\ \A i \in DOMAIN jobs : jobs[i].at <= jobs[i].created

\* No event has put the last run back since job i.
Undisturbed(i) ==
    \A k \in JobsOf(jobs[i].report) : i < k => jobs[k].source # "event"

\* Unless a late edit moved the schedule, the next run is after all runs but
\* those on events, and so is the last run while no event disturbs it.
LastRunAfterRuns ==
    \A r \in Reports : \A i \in JobsOf(r) :
        /\ report[r].state # "none"
        /\ r \notin late /\ jobs[i].source # "event"
               => /\ report[r].next > jobs[i].at
                  /\ Undisturbed(i) => report[r].last >= jobs[i].at

ManualInv == LastRunAfterRuns /\ ManualDeduplicated

LEMMA DatesStep == TypeOK /\ DatesPast /\ [Next]_vars => DatesPast'
  <1> SUFFICES ASSUME TypeOK, DatesPast, [Next]_vars
               PROVE  DatesPast'
    OBVIOUS
  <1>0. today \in Nat
    BY DEF TypeOK, Time
  <1>1. ASSUME UNCHANGED jobs
        PROVE  \A i \in DOMAIN jobs' : jobs'[i].at <= jobs'[i].created
    BY <1>1 DEF DatesPast
  <1>2. ASSUME NEW r \in LiveReports, NEW source \in Sources, NEW event \in Events \cup {NoEvent},
               NEW s \in Runners, NEW next \in Nat, slot[s] # FreeSlot, slot[s].at \in Nat,
               Run(r, source, event, slot[s].at, next)
        PROVE  \A i \in DOMAIN jobs' : jobs'[i].at <= jobs'[i].created
    <2> DEFINE job == [report |-> r, source |-> source, event |-> event,
                       cadence |-> report[r].cadence, at |-> slot[s].at, created |-> today,
                       advanced |-> next # report[r].next]
    <2>1. job \in JobRow
      BY <1>2, <1>0, RowTyped DEF LiveReports, JobRow, Sources
    <2>2. jobs' = Append(jobs, job) /\ jobs \in Seq(JobRow)
      BY <1>2 DEF Run, TypeOK
    <2>3. job.at <= job.created
      BY <1>2 DEF DatesPast
    <2> QED
      BY <2>1, <2>2, <2>3, AppendJob DEF DatesPast
  \* Runners begin with the present date, keep theirs, or end.
  <1>3. ASSUME NEW s \in Runners, End(s), today' = today
        PROVE  \A q \in Runners : slot'[q] # FreeSlot => slot'[q].at <= today'
    BY <1>3 DEF End, DatesPast, TypeOK
  <1>4. CASE UNCHANGED <<today, jobs, slot>>
    BY <1>4 DEF DatesPast
  <1>5. CASE Tick
    <2>1. \A s \in Runners : slot[s] # FreeSlot => slot[s].at \in Nat
      <3> SUFFICES ASSUME NEW s \in Runners, slot[s] # FreeSlot
                   PROVE  slot[s].at \in Nat
        OBVIOUS
      <3>1. slot[s] \in BusySlot
        BY DEF TypeOK
      <3> QED
        BY <3>1 DEF BusySlot
    <2> QED
      BY <1>0, <1>5, <2>1 DEF Tick, DatesPast
  <1>6. ASSUME NEW s \in Runners, startPatch(s) \/ startClaim(s) \/ startTrigger(s) \/ startEvent(s)
        PROVE  DatesPast'
    <2>1. UNCHANGED <<today, jobs>>
      BY <1>6 DEF startPatch, startClaim, startTrigger, startEvent
    <2>2. ASSUME NEW req, Begin(s, req), req.at = today
          PROVE  \A q \in Runners : slot'[q] # FreeSlot => slot'[q].at <= today'
      BY <1>0, <2>1, <2>2 DEF Begin, DatesPast, TypeOK
    <2>3. CASE startPatch(s)
      BY <1>1, <2>1, <2>2, <2>3 DEF startPatch, DatesPast
    <2>4. CASE startClaim(s)
      BY <1>1, <2>1, <2>2, <2>4 DEF startClaim, DatesPast
    <2>5. CASE startTrigger(s)
      BY <1>1, <2>1, <2>2, <2>5 DEF startTrigger, DatesPast
    <2>6. CASE startEvent(s)
      BY <1>1, <2>1, <2>2, <2>6 DEF startEvent, DatesPast
    <2> QED
      BY <1>6, <2>3, <2>4, <2>5, <2>6
  <1>7. ASSUME NEW s \in Runners, updateScheduledReport(s) \/ NothingDue(s) \/ eventDone(s)
        PROVE  DatesPast'
    <2>1. UNCHANGED <<today, jobs>> /\ End(s)
      BY <1>7 DEF updateScheduledReport, NothingDue, eventDone
    <2> QED
      BY <1>1, <1>3, <2>1 DEF DatesPast
  <1>8. ASSUME NEW s \in Runners, claimNextDueScheduledReport(s)
        PROVE  DatesPast'
    <2>1. slot[s].at \in Nat /\ slot[s] # FreeSlot /\ today' = today /\ End(s)
      BY <1>8, SlotTyped DEF claimNextDueScheduledReport, FreeSlot
    <2>2. PICK r \in LiveReports :
             Run(r, "scheduled", NoEvent, slot[s].at, slot[s].at + report[r].cadence)
      BY <1>8 DEF claimNextDueScheduledReport
    <2>3. slot[s].at + report[r].cadence \in Nat
      BY <2>1, RowTyped, NextRunTyped DEF LiveReports
    <2> QED
      BY <1>2, <1>3, <2>1, <2>2, <2>3 DEF DatesPast, Sources
  <1>9. ASSUME NEW s \in Runners, triggerScheduledReport(s)
         PROVE  DatesPast'
    <2>1. slot[s].at \in Nat /\ slot[s] # FreeSlot /\ today' = today /\ End(s)
      BY <1>9, SlotTyped DEF triggerScheduledReport, FreeSlot
    <2>2. PICK r \in slot[s].on :
             \/ /\ r \in LiveReports
                /\ Run(r, "manual", NoEvent, slot[s].at,
                       IF report[r].next <= slot[s].at
                       THEN slot[s].at + report[r].cadence ELSE report[r].next)
             \/ UNCHANGED <<report, jobs>>
      BY <1>9 DEF triggerScheduledReport
    <2>3. CASE UNCHANGED jobs
      BY <1>1, <1>3, <2>1, <2>3 DEF DatesPast
    <2>4. ASSUME r \in LiveReports, NEW next \in Nat, Run(r, "manual", NoEvent, slot[s].at, next)
          PROVE  DatesPast'
      BY <1>2, <1>3, <2>1, <2>4 DEF DatesPast, Sources
    <2>5. r \in LiveReports => slot[s].at + report[r].cadence \in Nat /\ report[r].next \in Nat
      BY <2>1, RowTyped, NextRunTyped DEF LiveReports
    <2> QED
      BY <2>2, <2>3, <2>4, <2>5
  <1>10. ASSUME NEW s \in Runners, listScheduledReports(s) \/ checkCooldown(s) \/ allChecked(s)
         PROVE  DatesPast'
    <2>1. UNCHANGED <<today, jobs>> /\ slot[s].op \in {"list", "check"}
      BY <1>10 DEF listScheduledReports, checkCooldown, allChecked
    <2>2. slot[s] \in [op : {"list", "check", "run"}, at : Nat, on : SUBSET Reports,
                       matches : SUBSET Reports, event : Events]
      BY <2>1, SlotTyped
    <2>3. /\ \A q \in Runners \ {s} : slot'[q] = slot[q]
          /\ slot'[s].at = slot[s].at
      BY <1>10, <2>2 DEF listScheduledReports, checkCooldown, allChecked, TypeOK
    <2>4. slot[s] # FreeSlot
      BY <2>1 DEF FreeSlot
    <2> QED
      BY <1>1, <2>1, <2>3, <2>4 DEF DatesPast
  <1>11. ASSUME NEW s \in Runners, triggerEventDrivenScheduledReport(s)
         PROVE  DatesPast'
    <2>1. slot[s] \in [op : {"list", "check", "run"}, at : Nat, on : SUBSET Reports,
                       matches : SUBSET Reports, event : Events] /\ slot[s] # FreeSlot
      BY <1>11, SlotTyped DEF triggerEventDrivenScheduledReport, FreeSlot
    <2>2. PICK r \in slot[s].matches :
             /\ \/ r \in LiveReports /\ Run(r, "event", slot[s].event, slot[s].at, report[r].next)
                \/ UNCHANGED <<report, jobs>>
             /\ slot' = [slot EXCEPT ![s].matches = @ \ {r}]
      BY <1>11 DEF triggerEventDrivenScheduledReport
    <2>3. /\ \A q \in Runners \ {s} : slot'[q] = slot[q]
          /\ slot'[s].at = slot[s].at
          /\ today' = today
      BY <1>11, <2>1, <2>2 DEF triggerEventDrivenScheduledReport, TypeOK
    <2>4. \A q \in Runners : slot'[q] # FreeSlot => slot'[q].at <= today'
      BY <2>1, <2>3 DEF DatesPast
    <2>5. \A i \in DOMAIN jobs' : jobs'[i].at <= jobs'[i].created
      <3>1. CASE UNCHANGED jobs
        BY <1>1, <3>1
      <3>2. CASE r \in LiveReports /\ Run(r, "event", slot[s].event, slot[s].at, report[r].next)
        <4>1. report[r].next \in Nat
          BY <3>2, RowTyped DEF LiveReports
        <4> QED
          BY <1>2, <2>1, <3>2, <4>1 DEF Sources
      <3> QED
        BY <2>2, <3>1, <3>2
    <2> QED
      BY <2>4, <2>5 DEF DatesPast
  <1> QED
    BY <1>4, <1>5, <1>6, <1>7, <1>8, <1>9, <1>10, <1>11
       DEF Next, vars, createScheduledReport, deleteScheduledReport,
           triggerEventDrivenScheduledReports

\* Steps that insert no job and keep, or carefully move, the schedules.
LEMMA NoRunManual ==
    ASSUME ManualInv, jobs' = jobs, late \subseteq late',
           \A r \in Reports : \/ report'[r] = report[r]
                              \/ JobsOf(r) = {}
                              \/ /\ report'[r].state # "none"
                                 /\ report'[r].last = report[r].last
                                 /\ \A i \in JobsOf(r) :
                                        r \notin late' /\ jobs[i].source # "event" =>
                                          report'[r].next > jobs[i].at
    PROVE  ManualInv'
  <1>1. \A r : JobsOf(r)' = JobsOf(r)
    BY DEF JobsOf
  <1>2. ManualDeduplicated'
    BY <1>1 DEF ManualInv, ManualDeduplicated
  <1>3. \A i \in DOMAIN jobs : Undisturbed(i)' <=> Undisturbed(i)
    BY <1>1 DEF Undisturbed
  <1>4. \A r \in Reports : JobsOf(r) \subseteq DOMAIN jobs
    BY DEF JobsOf
  <1>5. LastRunAfterRuns'
    BY <1>1, <1>3, <1>4 DEF ManualInv, LastRunAfterRuns
  <1> QED
    BY <1>2, <1>5 DEF ManualInv

\* A run that is on an event, or dated no earlier than the undisturbed runs and,
\* if by hand, out of the window of the undisturbed runs by hand.
LEMMA RunManual ==
    ASSUME TypeOK, ManualInv, NEW r \in LiveReports, NEW source \in Sources,
           NEW event \in Events \cup {NoEvent}, NEW t \in Nat, NEW next \in Nat,
           Run(r, source, event, t, next), late' = late,
           next >= report[r].next,
           source # "event" => next > t,
           \A i \in JobsOf(r) :
               /\ r \notin late /\ source # "event"
               /\ jobs[i].source # "event" /\ Undisturbed(i)
               => /\ t >= jobs[i].at
                  /\ source = "manual" /\ jobs[i].source = "manual"
                         => t - jobs[i].at > DedupWindow
    PROVE  ManualInv'
  <1> DEFINE n   == Len(jobs) + 1
             job == [report |-> r, source |-> source, event |-> event,
                     cadence |-> report[r].cadence, at |-> t, created |-> today,
                     advanced |-> next # report[r].next]
  <1>1. r \in Reports /\ report[r].state = "live"
    BY DEF LiveReports
  <1>2. report[r].next \in Nat
    BY <1>1, RowTyped
  <1>3. job \in JobRow
    BY <1>1, RowTyped DEF JobRow, Sources, TypeOK, Time
  <1>4. jobs' = Append(jobs, job)
    BY DEF Run
  <1>5. /\ DOMAIN jobs' = DOMAIN jobs \cup {n}
        /\ n \notin DOMAIN jobs
        /\ jobs'[n] = job
        /\ \A i \in DOMAIN jobs : i < n /\ jobs'[i] = jobs[i]
    BY <1>3, <1>4, AppendJob DEF TypeOK
  <1>6. /\ \A q \in Reports \ {r} : report'[q] = report[q]
        /\ report'[r].next = next
        /\ report'[r].state = report[r].state
    BY <1>1, RunTyped
  <1>7. report'[r].last = t
    <2>1. report[r] \in Row
      BY <1>1 DEF TypeOK
    <2> QED
      BY <1>1, <2>1 DEF Run, TypeOK, Row
  <1>8. job.report = r /\ job.at = t /\ job.source = source
    OBVIOUS
  <1>9. \A q \in Reports \ {r} : JobsOf(q)' = JobsOf(q)
    BY <1>5, <1>8 DEF JobsOf
  <1>10. JobsOf(r)' = JobsOf(r) \cup {n}
    BY <1>5, <1>8 DEF JobsOf
  <1>11. \A q \in Reports : JobsOf(q) \subseteq DOMAIN jobs
    BY DEF JobsOf
  <1>12. \A i \in DOMAIN jobs : jobs[i].at \in Nat /\ i \in Nat
    BY JobTyped
  <1>13. n \in Nat
    BY DEF TypeOK
  <1>14. ASSUME NEW q \in Reports, NEW i \in JobsOf(q), Undisturbed(i)'
         PROVE  Undisturbed(i) /\ (q = r => source # "event")
    <2>1. i \in DOMAIN jobs /\ jobs[i].report = q /\ jobs'[i] = jobs[i] /\ i < n
      BY <1>5, <1>11, <1>14 DEF JobsOf
    <2>2. \A k \in JobsOf(q)' : i < k => jobs'[k].source # "event"
      BY <1>14, <2>1 DEF Undisturbed
    <2>3. \A k \in JobsOf(q) : k \in JobsOf(q)' /\ jobs'[k] = jobs[k]
      BY <1>5, <1>9, <1>10, <1>11
    <2>4. Undisturbed(i)
      BY <2>1, <2>2, <2>3 DEF Undisturbed
    <2>5. q = r => source # "event"
      BY <1>5, <1>8, <1>10, <2>1, <2>2
    <2> QED
      BY <2>4, <2>5
  <1>15. LastRunAfterRuns'
    <2> SUFFICES ASSUME NEW q \in Reports, NEW i \in JobsOf(q)'
                 PROVE  /\ report'[q].state # "none"
                        /\ q \notin late /\ jobs'[i].source # "event"
                              => /\ report'[q].next > jobs'[i].at
                                 /\ Undisturbed(i)' => report'[q].last >= jobs'[i].at
      BY DEF LastRunAfterRuns
    <2>1. CASE q # r
      <3>1. i \in JobsOf(q) /\ jobs'[i] = jobs[i]
        BY <2>1, <1>5, <1>9, <1>11
      <3> QED
        BY <2>1, <3>1, <1>6, <1>14 DEF ManualInv, LastRunAfterRuns
    <2>2. CASE q = r /\ i = n
      BY <2>2, <1>1, <1>5, <1>6, <1>7, <1>8
    <2>3. CASE q = r /\ i \in JobsOf(r)
      <3>1. jobs'[i] = jobs[i] /\ jobs[i].at \in Nat
        BY <2>3, <1>1, <1>5, <1>11, <1>12
      <3>2. r \notin late /\ jobs[i].source # "event" => report[r].next > jobs[i].at
        BY <2>3, <1>1 DEF ManualInv, LastRunAfterRuns
      <3>3. r \notin late /\ jobs[i].source # "event" => next > jobs[i].at
        BY <3>1, <3>2, <1>2
      <3>4. r \notin late /\ jobs[i].source # "event" /\ Undisturbed(i)' => t >= jobs[i].at
        BY <2>3, <1>1, <1>14
      <3> QED
        BY <2>3, <3>1, <3>3, <3>4, <1>1, <1>6, <1>7
    <2> QED
      BY <2>1, <2>2, <2>3, <1>10
  <1>16. ManualDeduplicated'
    <2> SUFFICES ASSUME NEW q \in Reports \ late, NEW i \in JobsOf(q)', NEW j \in JobsOf(q)',
                        i < j, jobs'[i].source = "manual", jobs'[j].source = "manual",
                        jobs'[j].at - jobs'[i].at <= DedupWindow
                 PROVE  \E k \in JobsOf(q)' : i < k /\ k < j /\ jobs'[k].source = "event"
      BY DEF ManualDeduplicated
    <2>1. CASE i \in JobsOf(q) /\ j \in JobsOf(q)
      <3>1. jobs'[i] = jobs[i] /\ jobs'[j] = jobs[j]
        BY <2>1, <1>5, <1>11
      <3>2. PICK k \in JobsOf(q) : i < k /\ k < j /\ jobs[k].source = "event"
        BY <2>1, <3>1 DEF ManualInv, ManualDeduplicated
      <3>3. k \in JobsOf(q)' /\ jobs'[k] = jobs[k]
        BY <1>5, <1>9, <1>10, <1>11
      <3> QED
        BY <3>2, <3>3
    <2>2. CASE q = r /\ i \in JobsOf(r) /\ j = n
      <3>1. jobs'[i] = jobs[i] /\ jobs[i].report = r
        BY <2>2, <1>1, <1>5, <1>11 DEF JobsOf
      <3>2. jobs'[j].at = t /\ source = "manual"
        BY <2>2, <1>5, <1>8
      <3>3. jobs[i].source = "manual" /\ ~(t - jobs[i].at > DedupWindow)
        BY <3>1, <3>2, <2>2, <1>1, <1>11, <1>12, TimesOK
      <3>4. ~Undisturbed(i)
        BY <2>2, <3>2, <3>3
      <3>5. PICK k \in JobsOf(r) : i < k /\ jobs[k].source = "event"
        BY <3>1, <3>4 DEF Undisturbed
      <3>6. k < n /\ jobs'[k] = jobs[k] /\ k \in JobsOf(r)'
        BY <1>1, <1>5, <1>10, <1>11
      <3> QED
        BY <2>2, <3>5, <3>6
    <2>3. CASE i = n
      <3>1. j \in DOMAIN jobs \cup {n}
        BY <1>5 DEF JobsOf
      <3> QED
        BY <2>3, <3>1, <1>5, <1>12, <1>13
    <2> QED
      BY <2>1, <2>2, <2>3, <1>9, <1>10
  <1> QED
    BY <1>15, <1>16 DEF ManualInv

\* A trigger that inserts a job found no run within the window, as it would
\* have found any undisturbed run by hand and its job.
LEMMA TriggerManual ==
    ASSUME TypeOK, DatesPast, ManualInv, NEW s \in Runners, slot[s].op = "manual",
           NEW r \in LiveReports, NEW next \in Nat, late' = late,
           ~(Recently(r, slot[s].at) /\ RecentJobs(r, slot[s].at) # {}),
           Run(r, "manual", NoEvent, slot[s].at, next),
           next >= report[r].next, next > slot[s].at
    PROVE  ManualInv'
  <1> DEFINE t == slot[s].at
  <1>1. r \in Reports
    BY DEF LiveReports
  <1>2. t \in Nat
    BY SlotTyped
  <1>3. ASSUME NEW i \in JobsOf(r), r \notin late, jobs[i].source # "event", Undisturbed(i)
        PROVE  t >= jobs[i].at /\ t - jobs[i].at > DedupWindow
    <2>1. i \in DOMAIN jobs
      BY DEF JobsOf
    <2>2. jobs[i].at \in Nat /\ jobs[i].created \in Nat /\ jobs[i].created >= jobs[i].at
      <3>1. jobs[i] \in JobRow
        BY <2>1, JobTyped
      <3> QED
        BY <2>1, <3>1 DEF DatesPast, JobRow
    <2>3. report[r].last >= jobs[i].at
      BY <1>1, <1>3 DEF ManualInv, LastRunAfterRuns
    <2>4. report[r].last \in Nat \cup {NeverRun}
      <3>1. report[r] \in Row
        BY <1>1 DEF TypeOK
      <3> QED
        BY <3>1 DEF Row
    <2>5. report[r].last \in Nat /\ report[r].last # NeverRun
      BY <2>2, <2>3, <2>4 DEF NeverRun
    <2>6. CASE t - jobs[i].at <= DedupWindow
      <3>1. Recently(r, t)
        BY <1>2, <2>2, <2>3, <2>5, <2>6, TimesOK DEF Recently
      <3>2. jobs[i].created >= t - DedupWindow
        BY <1>2, <2>2, <2>6, TimesOK
      <3>3. i \in RecentJobs(r, t)
        BY <3>2 DEF RecentJobs
      <3> QED
        BY <3>1, <3>3
    <2> QED
      BY <1>2, <2>2, <2>6, TimesOK
  <1> QED
    BY <1>2, <1>3, RunManual DEF Sources

LEMMA ManualStep == TypeOK /\ DatesPast /\ ManualInv /\ [Next]_vars => ManualInv'
  <1> SUFFICES ASSUME TypeOK, DatesPast, ManualInv, [Next]_vars
               PROVE  ManualInv'
    OBVIOUS
  <1>1. CASE UNCHANGED <<report, jobs, late>>
    BY <1>1, NoRunManual
  <1>2. CASE createScheduledReport
    <2>1. PICK r \in Reports : /\ report[r].state = "none"
                              /\ \A q \in Reports \ {r} : report'[q] = report[q]
      BY <1>2 DEF createScheduledReport, TypeOK
    <2>2. JobsOf(r) = {}
      BY <2>1 DEF ManualInv, LastRunAfterRuns
    <2> QED
      BY <1>2, <2>1, <2>2, NoRunManual DEF createScheduledReport
  <1>3. CASE deleteScheduledReport
    <2>1. PICK r \in LiveReports : report' = [report EXCEPT ![r].state = "deleted"]
      BY <1>3 DEF deleteScheduledReport
    <2>2. report[r] \in Row /\ r \in Reports
      BY DEF LiveReports, TypeOK
    <2>3. /\ \A q \in Reports \ {r} : report'[q] = report[q]
          /\ report'[r].state = "deleted"
          /\ report'[r].next = report[r].next
          /\ report'[r].last = report[r].last
      BY <2>1, <2>2 DEF TypeOK, Row
    <2> QED
      BY <1>3, <2>3, NoRunManual DEF deleteScheduledReport, ManualInv, LastRunAfterRuns
  <1>4. ASSUME NEW s \in Runners, updateScheduledReport(s)
        PROVE  ManualInv'
    <2>1. slot[s] \in [op : {"patch"}, at : Nat, on : SUBSET Reports,
                       cadence : Cadences, events : SUBSET Events]
      BY <1>4, SlotTyped DEF updateScheduledReport
    <2>2. PICK r \in slot[s].on :
             \/ /\ r \in LiveReports
                /\ \E E \in {report[r].events, slot[s].events} :
                      report' = [report EXCEPT ![r].cadence = slot[s].cadence,
                                               ![r].next = slot[s].at + slot[s].cadence,
                                               ![r].events = E]
                /\ late' = IF \E i \in JobsOf(r) : jobs[i].at > slot[s].at
                           THEN late \cup {r} ELSE late
             \/ /\ r \in LiveReports
                /\ report' = [report EXCEPT ![r].events = slot[s].events]
                /\ late' = late
             \/ UNCHANGED <<report, late>>
      BY <1>4 DEF updateScheduledReport
    <2>3. jobs' = jobs
      BY <1>4 DEF updateScheduledReport
    <2>4. report[r] \in Row /\ r \in Reports
      BY <2>1 DEF TypeOK
    <2>5. CASE UNCHANGED <<report, late>>
      BY <2>3, <2>5, NoRunManual
    <2>6. CASE /\ r \in LiveReports
               /\ report' = [report EXCEPT ![r].events = slot[s].events]
               /\ late' = late
      <3>1. /\ \A q \in Reports \ {r} : report'[q] = report[q]
            /\ report'[r].state = report[r].state
            /\ report'[r].next = report[r].next
            /\ report'[r].last = report[r].last
        BY <2>4, <2>6 DEF TypeOK, Row
      <3> QED
        BY <2>3, <2>6, <3>1, NoRunManual DEF ManualInv, LastRunAfterRuns
    <2>7. CASE /\ r \in LiveReports
               /\ \E E \in {report[r].events, slot[s].events} :
                     report' = [report EXCEPT ![r].cadence = slot[s].cadence,
                                              ![r].next = slot[s].at + slot[s].cadence,
                                              ![r].events = E]
               /\ late' = IF \E i \in JobsOf(r) : jobs[i].at > slot[s].at
                          THEN late \cup {r} ELSE late
      <3>1. /\ \A q \in Reports \ {r} : report'[q] = report[q]
            /\ report'[r].state = report[r].state
            /\ report'[r].next = slot[s].at + slot[s].cadence
            /\ report'[r].last = report[r].last
        BY <2>4, <2>7 DEF TypeOK, Row
      <3>2. late \subseteq late'
        BY <2>7
      <3>3. report'[r].state # "none"
        BY <2>7, <3>1 DEF LiveReports
      <3>4. \A i \in JobsOf(r) : jobs[i].at \in Nat
        BY JobTyped DEF JobsOf
      <3>5. slot[s].at \in Nat /\ slot[s].cadence \in Nat \ {0}
        BY <2>1, CadencesOK
      <3>6. ASSUME NEW i \in JobsOf(r), r \notin late'
            PROVE  report'[r].next > jobs[i].at
        <4>1. ~(jobs[i].at > slot[s].at)
          BY <2>7, <3>6
        <4> QED
          BY <3>1, <3>4, <3>5, <4>1
      <3> QED
        BY <2>3, <3>1, <3>2, <3>3, <3>6, NoRunManual
    <2> QED
      BY <2>2, <2>5, <2>6, <2>7
  <1>5. ASSUME NEW s \in Runners, claimNextDueScheduledReport(s)
        PROVE  ManualInv'
    <2>1. slot[s].at \in Nat
      BY <1>5, SlotTyped DEF claimNextDueScheduledReport
    <2>2. PICK r \in LiveReports :
             /\ report[r].next <= slot[s].at
             /\ Run(r, "scheduled", NoEvent, slot[s].at, slot[s].at + report[r].cadence)
      BY <1>5 DEF claimNextDueScheduledReport
    <2>3. /\ r \in Reports /\ report[r].next \in Nat
          /\ slot[s].at + report[r].cadence \in Nat
          /\ slot[s].at + report[r].cadence > slot[s].at
      BY <2>1, RowTyped, NextRunTyped DEF LiveReports
    <2>4. late' = late
      BY <1>5 DEF claimNextDueScheduledReport
    <2>5. ASSUME NEW i \in JobsOf(r), r \notin late, jobs[i].source # "event"
          PROVE  slot[s].at >= jobs[i].at
      <3>1. report[r].next > jobs[i].at
        BY <2>3, <2>5 DEF ManualInv, LastRunAfterRuns
      <3>2. jobs[i].at \in Nat
        BY JobTyped DEF JobsOf
      <3> QED
        BY <2>1, <2>2, <2>3, <3>1, <3>2
    <2>6. slot[s].at + report[r].cadence >= report[r].next
      BY <2>1, <2>2, <2>3
    <2> QED
      BY <2>1, <2>2, <2>3, <2>4, <2>5, <2>6, RunManual DEF Sources
  <1>6. ASSUME NEW s \in Runners, triggerScheduledReport(s)
        PROVE  ManualInv'
    <2>1. slot[s].at \in Nat /\ late' = late /\ slot[s].op = "manual"
      BY <1>6, SlotTyped DEF triggerScheduledReport
    <2>2. PICK r \in slot[s].on :
             \/ /\ r \in LiveReports
                /\ ~(Recently(r, slot[s].at) /\ RecentJobs(r, slot[s].at) # {})
                /\ Run(r, "manual", NoEvent, slot[s].at,
                       IF report[r].next <= slot[s].at
                       THEN slot[s].at + report[r].cadence ELSE report[r].next)
             \/ UNCHANGED <<report, jobs>>
      BY <1>6 DEF triggerScheduledReport
    <2>3. CASE UNCHANGED <<report, jobs>>
      BY <2>1, <2>3, NoRunManual
    <2>4. CASE /\ r \in LiveReports
               /\ ~(Recently(r, slot[s].at) /\ RecentJobs(r, slot[s].at) # {})
               /\ Run(r, "manual", NoEvent, slot[s].at,
                      IF report[r].next <= slot[s].at
                      THEN slot[s].at + report[r].cadence ELSE report[r].next)
      <3> DEFINE next == IF report[r].next <= slot[s].at
                         THEN slot[s].at + report[r].cadence ELSE report[r].next
      <3>1. /\ report[r].next \in Nat
            /\ slot[s].at + report[r].cadence \in Nat
            /\ slot[s].at + report[r].cadence > slot[s].at
        BY <2>1, <2>4, RowTyped, NextRunTyped DEF LiveReports
      <3>2. next \in Nat /\ next >= report[r].next /\ next > slot[s].at
        BY <2>1, <3>1
      <3>3. Run(r, "manual", NoEvent, slot[s].at, next)
        BY <2>4
      <3> HIDE DEF next
      <3> QED
        BY <2>1, <2>4, <3>2, <3>3, TriggerManual
    <2> QED
      BY <2>2, <2>3, <2>4
  <1>7. ASSUME NEW s \in Runners, triggerEventDrivenScheduledReport(s)
        PROVE  ManualInv'
    <2>1. slot[s].at \in Nat /\ slot[s].event \in Events /\ late' = late
      BY <1>7, SlotTyped DEF triggerEventDrivenScheduledReport
    <2>2. PICK r \in slot[s].matches :
             \/ r \in LiveReports /\ Run(r, "event", slot[s].event, slot[s].at, report[r].next)
             \/ UNCHANGED <<report, jobs>>
      BY <1>7 DEF triggerEventDrivenScheduledReport
    <2>3. CASE UNCHANGED <<report, jobs>>
      BY <2>1, <2>3, NoRunManual
    <2>4. ASSUME r \in LiveReports, Run(r, "event", slot[s].event, slot[s].at, report[r].next)
          PROVE  ManualInv'
      <3>1. report[r].next \in Nat /\ report[r].next >= report[r].next
        BY <2>4, RowTyped DEF LiveReports
      <3> QED
        BY <2>1, <2>4, <3>1, RunManual DEF Sources
    <2> QED
      BY <2>2, <2>3, <2>4
  <1>8. CASE UNCHANGED vars
    BY <1>1, <1>8 DEF vars
  <1> QED
    BY <1>1, <1>2, <1>3, <1>4, <1>5, <1>6, <1>7, <1>8
       DEF Next, Tick, startPatch, startClaim, NothingDue, startTrigger,
           triggerEventDrivenScheduledReports, startEvent, listScheduledReports,
           checkCooldown, allChecked, eventDone

(* Two triggers by hand within the window insert two jobs only if a run on *)
(* an event committed between them, whatever the order their transactions  *)
(* commit in and however many there are.                                   *)
THEOREM ManualDeduplicatedHolds == Spec => []ManualDeduplicated
  <1>1. Init => DatesPast /\ ManualInv
    BY DEF Init, DatesPast, ManualInv, LastRunAfterRuns, ManualDeduplicated, JobsOf
  <1>2. ManualInv => ManualDeduplicated
    BY DEF ManualInv
  <1> QED
    BY <1>1, <1>2, TypeCorrect, DatesStep, ManualStep, PTL DEF Spec

-----------------------------------------------------------------------------
(* Runs on events *)

\* The runners that are to run a report on an event, and have checked it.
Armed(r, e) == {s \in Runners : /\ slot[s].op \in {"list", "check", "run"}
                              /\ r \in slot[s].matches
                              /\ slot[s].event = e}

BurstFrom(r, e, c) == {k \in JobsOf(r) : /\ jobs[k].event = e
                                         /\ jobs[k].created \in c..(c + Cooldown)}

\* Jobs were inserted in the past, and only runs on an event name one.
Inserted ==
    \A i \in DOMAIN jobs : /\ jobs[i].created <= today
                           /\ jobs[i].source = "event" <=> jobs[i].event \in Events

\* As long as the cool-down of a run lasts, no runner is let through any more:
\* those that will add to its burst were before it, each for one job.
Bounded(i) ==
    LET r == jobs[i].report
        e == jobs[i].event
        c == jobs[i].created
    IN  /\ Cardinality(BurstFrom(r, e, c)) <= Cardinality(Runners)
        /\ today <= c + Cooldown =>
              Cardinality(BurstFrom(r, e, c)) + Cardinality(Armed(r, e)) <= Cardinality(Runners)

BurstInv ==
    /\ Inserted
    /\ Cooldown > 0 => \A i \in DOMAIN jobs : jobs[i].source = "event" => Bounded(i)

LEMMA BurstFinite ==
    ASSUME TypeOK, NEW r, NEW e, NEW c
    PROVE  /\ IsFiniteSet(BurstFrom(r, e, c)) /\ Cardinality(BurstFrom(r, e, c)) \in Nat
           /\ BurstFrom(r, e, c) \subseteq DOMAIN jobs
  <1>1. jobs \in Seq(JobRow)
    BY DEF TypeOK
  <1>2. DOMAIN jobs = 1..Len(jobs) /\ Len(jobs) \in Nat
    BY <1>1
  <1>3. IsFiniteSet(DOMAIN jobs)
    BY <1>2, FS_Interval
  <1>4. BurstFrom(r, e, c) \subseteq DOMAIN jobs
    BY DEF BurstFrom, JobsOf
  <1> QED
    BY <1>3, <1>4, FS_Subset, FS_CardinalityType

LEMMA RunnersFinite ==
    ASSUME NEW S \in SUBSET Runners
    PROVE  /\ IsFiniteSet(S) /\ Cardinality(S) \in Nat
           /\ \A T \in SUBSET S : Cardinality(T) <= Cardinality(S)
           /\ Cardinality(S) <= Cardinality(Runners) /\ Cardinality(Runners) \in Nat
  <1>1. IsFiniteSet(S)
    BY EventsOK, FS_Subset
  <1> QED
    BY <1>1, EventsOK, FS_Subset, FS_CardinalityType

LEMMA EventJob ==
    ASSUME TypeOK, NEW i \in DOMAIN jobs
    PROVE  /\ jobs[i].report \in Reports /\ jobs[i].created \in Nat
           /\ i \in JobsOf(jobs[i].report)
  <1>1. jobs[i] \in JobRow
    BY JobTyped
  <1> QED
    BY <1>1 DEF JobRow, JobsOf

\* A step that inserts no job lets a runner through only where no cool-down lasts.
LEMMA BurstQuiet ==
    ASSUME TypeOK, TypeOK', BurstInv, jobs' = jobs, today <= today',
           \A r \in Reports, e \in Events :
              \/ Armed(r, e)' \subseteq Armed(r, e)
              \/ Cooldown > 0 => \A i \in JobsOf(r) :
                    jobs[i].source = "event" /\ jobs[i].event = e =>
                       ~(today <= jobs[i].created + Cooldown)
    PROVE  BurstInv'
  <1>1. today \in Nat /\ today' \in Nat /\ Cooldown \in Nat
    BY TimesOK DEF TypeOK, Time
  <1>2. Inserted'
    <2>1. \A i \in DOMAIN jobs : jobs[i].created \in Nat
      BY EventJob
    <2> QED
      BY <1>1, <2>1 DEF BurstInv, Inserted
  <1>3. ASSUME Cooldown > 0, NEW i \in DOMAIN jobs, jobs[i].source = "event"
        PROVE  Bounded(i)'
    <2> DEFINE r == jobs[i].report
               e == jobs[i].event
               c == jobs[i].created
               B == BurstFrom(r, e, c)
    <2>1. r \in Reports /\ e \in Events /\ c \in Nat /\ i \in JobsOf(r)
      BY <1>3, EventJob DEF BurstInv, Inserted
    <2>2. BurstFrom(r, e, c)' = B
      BY DEF BurstFrom, JobsOf
    <2>3. Bounded(i)
      BY <1>3 DEF BurstInv
    <2>4. Cardinality(B) \in Nat
      BY BurstFinite
    <2>5. ASSUME today' <= c + Cooldown
          PROVE  Cardinality(B) + Cardinality(Armed(r, e)') <= Cardinality(Runners)
      <3>1. today <= c + Cooldown
        BY <1>1, <2>1, <2>5
      <3>2. Armed(r, e)' \subseteq Armed(r, e)
        BY <1>3, <2>1, <3>1
      <3>3. Armed(r, e) \in SUBSET Runners
        BY DEF Armed
      <3>4. /\ Cardinality(Armed(r, e)') <= Cardinality(Armed(r, e))
            /\ Cardinality(Armed(r, e)') \in Nat /\ Cardinality(Armed(r, e)) \in Nat
            /\ Cardinality(Runners) \in Nat
        <4>1. Armed(r, e)' \in SUBSET Runners
          BY <3>2, <3>3
        <4> HIDE DEF r, e
        <4> QED
          BY <3>2, <3>3, <4>1, RunnersFinite
      <3>5. Cardinality(B) + Cardinality(Armed(r, e)) <= Cardinality(Runners)
        BY <2>3, <3>1 DEF Bounded
      <3> HIDE DEF B, r, e
      <3> QED
        BY <2>4, <3>4, <3>5
    <2>6. /\ jobs'[i] = jobs[i] /\ Cardinality(B) <= Cardinality(Runners)
      BY <2>3 DEF Bounded
    <2> QED
      BY <2>2, <2>5, <2>6 DEF Bounded
  <1> QED
    BY <1>2, <1>3 DEF BurstInv

LEMMA SomeJobs ==
    ASSUME NEW q \in Seq(JobRow), NEW S \in SUBSET DOMAIN q
    PROVE  IsFiniteSet(S) /\ Cardinality(S) \in Nat
  <1>1. DOMAIN q = 1..Len(q) /\ Len(q) \in Nat
    OBVIOUS
  <1>2. IsFiniteSet(DOMAIN q)
    BY <1>1, FS_Interval
  <1> QED
    BY <1>2, FS_Subset, FS_CardinalityType

\* What a run adds to the bursts: its own job, to those it falls into.
LEMMA BurstAppend ==
    ASSUME TypeOK, NEW r \in Reports, NEW source \in Sources,
           NEW event \in Events \cup {NoEvent}, NEW t \in Nat, NEW next \in Nat,
           Run(r, source, event, t, next)
    PROVE  LET n == Len(jobs) + 1
           IN  /\ DOMAIN jobs' = DOMAIN jobs \cup {n} /\ n \notin DOMAIN jobs
               /\ jobs'[n].report = r /\ jobs'[n].event = event
               /\ jobs'[n].source = source /\ jobs'[n].created = today
               /\ \A i \in DOMAIN jobs : jobs'[i] = jobs[i]
               /\ \A q, f : \A c \in Nat :
                     /\ n \in BurstFrom(q, f, c)'
                           <=> q = r /\ f = event /\ c <= today /\ today <= c + Cooldown
                     /\ BurstFrom(q, f, c)' \ {n} = BurstFrom(q, f, c)
                     /\ BurstFrom(q, f, c) \subseteq BurstFrom(q, f, c)'
  <1> DEFINE n   == Len(jobs) + 1
             job == [report |-> r, source |-> source, event |-> event,
                     cadence |-> report[r].cadence, at |-> t, created |-> today,
                     advanced |-> next # report[r].next]
  <1>1. job \in JobRow /\ today \in Nat
    BY RowTyped DEF JobRow, Sources, TypeOK, Time
  <1>2. jobs' = Append(jobs, job)
    BY DEF Run
  <1>3. /\ DOMAIN jobs' = DOMAIN jobs \cup {n}
        /\ n \notin DOMAIN jobs
        /\ jobs'[n] = job
        /\ \A i \in DOMAIN jobs : jobs'[i] = jobs[i]
    BY <1>1, <1>2, AppendJob DEF TypeOK
  <1>4. job.report = r /\ job.event = event /\ job.source = source /\ job.created = today
    OBVIOUS
  <1> HIDE DEF n, job
  <1>5. ASSUME NEW q, NEW f, NEW c \in Nat
        PROVE  /\ n \in BurstFrom(q, f, c)'
                     <=> q = r /\ f = event /\ c <= today /\ today <= c + Cooldown
               /\ BurstFrom(q, f, c)' \ {n} = BurstFrom(q, f, c)
               /\ BurstFrom(q, f, c) \subseteq BurstFrom(q, f, c)'
    <2>1. today \in c..(c + Cooldown) <=> c <= today /\ today <= c + Cooldown
      BY <1>1, TimesOK
    <2>2. n \in BurstFrom(q, f, c)' <=> q = r /\ f = event /\ today \in c..(c + Cooldown)
      BY <1>3, <1>4 DEF BurstFrom, JobsOf
    <2>3. \A i \in DOMAIN jobs : i \in BurstFrom(q, f, c)' <=> i \in BurstFrom(q, f, c)
      BY <1>3 DEF BurstFrom, JobsOf
    <2>4. /\ BurstFrom(q, f, c) \subseteq DOMAIN jobs
          /\ BurstFrom(q, f, c)' \subseteq DOMAIN jobs'
      BY DEF BurstFrom, JobsOf
    <2> QED
      BY <1>3, <2>1, <2>2, <2>3, <2>4
  <1> QED
    BY <1>3, <1>4, <1>5 DEF n

LEMMA RunInserted ==
    ASSUME TypeOK, Inserted, today' = today, NEW r \in Reports, NEW source \in Sources,
           NEW event \in Events \cup {NoEvent}, NEW t \in Nat, NEW next \in Nat,
           source = "event" <=> event \in Events, Run(r, source, event, t, next)
    PROVE  Inserted'
  <1>1. today \in Nat
    BY DEF TypeOK, Time
  <1> QED
    BY <1>1, BurstAppend DEF Inserted

\* A run by the clock or by hand is in no burst of an event.
LEMMA BurstOtherRun ==
    ASSUME TypeOK, BurstInv, today' = today, NEW r \in Reports, NEW source \in {"scheduled", "manual"},
           NEW t \in Nat, NEW next \in Nat, Run(r, source, NoEvent, t, next),
           \A q, f : Armed(q, f)' \subseteq Armed(q, f)
    PROVE  BurstInv'
  <1>1. source \in Sources /\ source # "event" /\ NoEvent \notin Events
    BY EventsOK DEF Sources, NoEvent
  <1>2. Inserted'
    BY <1>1, RunInserted DEF BurstInv
  <1>3. ASSUME Cooldown > 0, NEW i \in DOMAIN jobs', jobs'[i].source = "event"
        PROVE  Bounded(i)'
    <2>1. i \in DOMAIN jobs /\ jobs'[i] = jobs[i]
      BY <1>1, <1>3, BurstAppend
    <2>2. PICK q \in Reports, f \in Events, c \in Nat :
             q = jobs[i].report /\ f = jobs[i].event /\ c = jobs[i].created
      BY <1>3, <2>1, EventJob DEF BurstInv, Inserted
    <2>3. Bounded(i)
      BY <1>3, <2>1 DEF BurstInv
    <2>4. BurstFrom(q, f, c)' = BurstFrom(q, f, c)
      <3>1. /\ Len(jobs) + 1 \notin BurstFrom(q, f, c)'
            /\ BurstFrom(q, f, c)' \ {Len(jobs) + 1} = BurstFrom(q, f, c)
        BY <1>1, <2>2, BurstAppend
      <3> QED
        BY <3>1, Zenon
    <2>5. Armed(q, f) \in SUBSET Runners /\ Armed(q, f)' \in SUBSET Armed(q, f)
      BY DEF Armed
    <2>6. /\ Cardinality(Armed(q, f)') <= Cardinality(Armed(q, f))
          /\ Cardinality(Armed(q, f)) \in Nat /\ Cardinality(Runners) \in Nat
      BY <2>5, RunnersFinite
    <2>7. Cardinality(Armed(q, f)') \in Nat
      BY <2>5, RunnersFinite
    <2>8. Cardinality(BurstFrom(q, f, c)) \in Nat
      BY BurstFinite
    <2>9. /\ Cardinality(BurstFrom(q, f, c)) <= Cardinality(Runners)
          /\ today <= c + Cooldown =>
                Cardinality(BurstFrom(q, f, c)) + Cardinality(Armed(q, f)) <= Cardinality(Runners)
      BY <2>2, <2>3 DEF Bounded
    <2>10. /\ Cardinality(BurstFrom(q, f, c)') <= Cardinality(Runners)
           /\ today' <= c + Cooldown =>
                 Cardinality(BurstFrom(q, f, c)') + Cardinality(Armed(q, f)') <= Cardinality(Runners)
      BY <2>4, <2>6, <2>7, <2>8, <2>9
    <2> QED
      BY <2>1, <2>2, <2>10 DEF Bounded
  <1> QED
    BY <1>2, <1>3 DEF BurstInv

\* A run on an event adds one job and takes its runner off those let through.
LEMMA BurstRun ==
    ASSUME TypeOK, TypeOK', BurstInv, today' = today, NEW r \in Reports, NEW e \in Events,
           NEW t \in Nat, NEW next \in Nat, Run(r, "event", e, t, next),
           NEW s \in Armed(r, e), Armed(r, e)' \subseteq Armed(r, e) \ {s},
           \A q, f : Armed(q, f)' \subseteq Armed(q, f)
    PROVE  BurstInv'
  <1> DEFINE N == Cardinality(Runners)
  <1>1. "event" \in Sources
    BY DEF Sources
  <1>0. PICK n \in Nat : n = Len(jobs) + 1
    BY DEF TypeOK
  <1>2. Inserted'
    BY <1>1, RunInserted DEF BurstInv
  <1>3. today \in Nat /\ Cooldown \in Nat
    BY TimesOK DEF TypeOK, Time
  <1>4. /\ Armed(r, e)' \in SUBSET Runners /\ Armed(r, e) \in SUBSET Runners
        /\ Armed(r, e)' \in SUBSET (Armed(r, e) \ {s})
        /\ Armed(r, e) \ {s} \in SUBSET Runners
    BY DEF Armed
  <1>5. Cardinality(Armed(r, e)') + 1 <= Cardinality(Armed(r, e))
        /\ Cardinality(Armed(r, e)') \in Nat /\ Cardinality(Armed(r, e)) \in Nat /\ N \in Nat
        /\ Cardinality(Armed(r, e)) <= N
    <2>1. IsFiniteSet(Armed(r, e)) /\ Cardinality(Armed(r, e)) \in Nat /\ N \in Nat
          /\ Cardinality(Armed(r, e)) <= N
      BY <1>4, RunnersFinite
    <2>2. Cardinality(Armed(r, e) \ {s}) = Cardinality(Armed(r, e)) - 1
      BY <2>1, FS_RemoveElement
    <2>3. Cardinality(Armed(r, e)') <= Cardinality(Armed(r, e) \ {s})
      BY <1>4, RunnersFinite
    <2>4. Cardinality(Armed(r, e)') \in Nat
      BY <1>4, RunnersFinite
    <2> QED
      BY <2>1, <2>2, <2>3, <2>4
  \* A burst the new job falls into, that was bounded before.
  <1>6. ASSUME NEW c \in Nat, c <= today, today <= c + Cooldown,
               Cardinality(BurstFrom(r, e, c)) + Cardinality(Armed(r, e)) <= N
        PROVE  Cardinality(BurstFrom(r, e, c)') + Cardinality(Armed(r, e)') <= N
    <2>1. /\ IsFiniteSet(BurstFrom(r, e, c)) /\ Cardinality(BurstFrom(r, e, c)) \in Nat
          /\ n \notin BurstFrom(r, e, c)
      BY <1>0, <1>1, BurstFinite, BurstAppend
    <2>2. BurstFrom(r, e, c)' = BurstFrom(r, e, c) \cup {n}
      BY <1>0, <1>1, <1>6, BurstAppend
    <2>3. Cardinality(BurstFrom(r, e, c) \cup {n}) = Cardinality(BurstFrom(r, e, c)) + 1
      BY <2>1, FS_AddElement
    <2> HIDE DEF N
    <2> QED
      BY <1>5, <1>6, <2>1, <2>2, <2>3
  <1>7. ASSUME NEW c \in Nat
        PROVE  Cardinality(BurstFrom(r, e, c)') \in Nat
    <2>1. jobs' \in Seq(JobRow) /\ BurstFrom(r, e, c)' \subseteq DOMAIN jobs'
      BY DEF TypeOK, BurstFrom, JobsOf
    <2> QED
      BY <2>1, SomeJobs
  <1>8. ASSUME Cooldown > 0, NEW i \in DOMAIN jobs, jobs[i].source = "event"
        PROVE  Bounded(i)'
    <2>1. jobs'[i] = jobs[i]
      BY <1>1, BurstAppend
    <2>2. PICK q \in Reports, f \in Events, c \in Nat :
             q = jobs[i].report /\ f = jobs[i].event /\ c = jobs[i].created /\ c <= today
      BY <1>8, EventJob DEF BurstInv, Inserted
    <2>3. /\ Cardinality(BurstFrom(q, f, c)) <= N
          /\ today <= c + Cooldown =>
                Cardinality(BurstFrom(q, f, c)) + Cardinality(Armed(q, f)) <= N
      BY <1>8, <2>2 DEF BurstInv, Bounded
    <2> SUFFICES /\ Cardinality(BurstFrom(q, f, c)') <= N
                 /\ today <= c + Cooldown =>
                       Cardinality(BurstFrom(q, f, c)') + Cardinality(Armed(q, f)') <= N
      BY <2>1, <2>2 DEF Bounded
    <2> HIDE DEF N
    <2>4. CASE q = r /\ f = e /\ today <= c + Cooldown
      <3>1. Cardinality(BurstFrom(r, e, c)') + Cardinality(Armed(r, e)') <= N
        BY <1>6, <2>2, <2>3, <2>4
      <3>2. Cardinality(BurstFrom(r, e, c)') \in Nat
        BY <1>7, <2>2
      <3> QED
        BY <1>5, <2>4, <3>1, <3>2
    <2>5. CASE ~(q = r /\ f = e /\ today <= c + Cooldown)
      <3>1. BurstFrom(q, f, c)' = BurstFrom(q, f, c)
        <4>1. n \notin BurstFrom(q, f, c)' /\ BurstFrom(q, f, c)' \ {n} = BurstFrom(q, f, c)
          BY <1>0, <1>1, <2>2, <2>5, BurstAppend
        <4> QED
          BY <4>1, Zenon
      <3>2. Armed(q, f) \in SUBSET Runners /\ Armed(q, f)' \in SUBSET Armed(q, f)
        BY DEF Armed
      <3>3. /\ Cardinality(Armed(q, f)') <= Cardinality(Armed(q, f))
            /\ Cardinality(Armed(q, f)) \in Nat
        BY <3>2, RunnersFinite
      <3>4. Cardinality(Armed(q, f)') \in Nat
        BY <3>2, RunnersFinite
      <3>5. Cardinality(BurstFrom(q, f, c)) \in Nat
        BY BurstFinite
      <3> QED
        BY <1>5, <2>3, <3>1, <3>3, <3>4, <3>5
    <2> QED
      BY <2>4, <2>5
  \* The new job's own burst: that of a job of the same date, or itself alone.
  <1>9. ASSUME Cooldown > 0
        PROVE  Bounded(n)'
    <2>0. PICK d \in Nat : d = today
      BY <1>3
    <2>1. jobs'[n].report = r /\ jobs'[n].event = e /\ jobs'[n].created = d
      BY <1>0, <1>1, <2>0, BurstAppend
    <2>2. Cardinality(BurstFrom(r, e, d)') + Cardinality(Armed(r, e)') <= N
      <3>1. CASE \E k \in JobsOf(r) : jobs[k].event = e /\ jobs[k].created = d
        <4>1. PICK k \in JobsOf(r) : jobs[k].event = e /\ jobs[k].created = d
          BY <3>1
        <4>2. k \in DOMAIN jobs /\ jobs[k].report = r /\ jobs[k].source = "event"
          BY <4>1 DEF JobsOf, BurstInv, Inserted
        <4>3. Bounded(k)
          BY <1>9, <4>2 DEF BurstInv
        <4>4. d <= today /\ today <= d + Cooldown
          BY <1>3, <2>0
        <4>5. Cardinality(BurstFrom(r, e, d)) + Cardinality(Armed(r, e)) <= N
          BY <4>1, <4>2, <4>3, <4>4 DEF Bounded
        <4> HIDE DEF N
        <4> QED
          BY <1>3, <1>6, <4>4, <4>5
      <3>2. CASE ~\E k \in JobsOf(r) : jobs[k].event = e /\ jobs[k].created = d
        <4>1. ASSUME NEW k \in BurstFrom(r, e, d)
              PROVE  FALSE
          <5>1. k \in JobsOf(r) /\ jobs[k].event = e /\ jobs[k].created >= d
            BY <1>3, <2>0, <4>1 DEF BurstFrom
          <5>2. jobs[k].created <= d /\ jobs[k].created \in Nat
            BY <2>0, <5>1, EventJob DEF BurstInv, Inserted, JobsOf
          <5> QED
            BY <1>3, <3>2, <5>1, <5>2
        <4>2. d <= today /\ today <= d + Cooldown
          BY <1>3, <2>0
        <4>3. Cardinality(BurstFrom(r, e, d)) = 0
          BY <4>1, FS_EmptySet
        <4> HIDE DEF N
        <4> QED
          BY <1>3, <1>5, <1>6, <4>2, <4>3
      <3> QED
        BY <3>1, <3>2
    <2>3. Cardinality(BurstFrom(r, e, d)') \in Nat
      BY <1>7
    <2>4. Cardinality(BurstFrom(r, e, d)') <= N
      <3> HIDE DEF N
      <3> QED
        BY <1>5, <2>2, <2>3
    <2> QED
      BY <2>1, <2>2, <2>4 DEF Bounded
  <1>10. DOMAIN jobs' = DOMAIN jobs \cup {n} /\ \A i \in DOMAIN jobs : jobs'[i] = jobs[i]
    BY <1>0, <1>1, BurstAppend
  <1> QED
    BY <1>2, <1>8, <1>9, <1>10 DEF BurstInv

\* Beginning or ending lets no runner through.
LEMMA ArmedOnSlot ==
    ASSUME TypeOK, NEW s \in Runners, NEW busy, slot' = [slot EXCEPT ![s] = busy],
           NEW q, NEW f,
           s \in Armed(q, f)' => s \in Armed(q, f)
    PROVE  Armed(q, f)' \subseteq Armed(q, f)
  <1> SUFFICES ASSUME NEW o \in Armed(q, f)'
               PROVE  o \in Armed(q, f)
    OBVIOUS
  <1>1. CASE o = s
    BY <1>1
  <1>2. CASE o # s
    BY <1>2 DEF Armed, TypeOK
  <1> QED
    BY <1>1, <1>2

LEMMA ArmedEnd ==
    ASSUME TypeOK, NEW s \in Runners, End(s), NEW q, NEW f
    PROVE  Armed(q, f)' \subseteq Armed(q, f)
  <1>1. slot' = [slot EXCEPT ![s] = FreeSlot] /\ slot'[s].op = "idle"
    BY DEF End, FreeSlot, TypeOK
  <1>2. s \notin Armed(q, f)'
    BY <1>1 DEF Armed
  <1> QED
    BY <1>1, <1>2, ArmedOnSlot

LEMMA ArmedBegin ==
    ASSUME TypeOK, NEW s \in Runners, NEW req, Begin(s, req), NEW q, NEW f,
           req.op \in {"list", "check", "run"} => req.matches = {}
    PROVE  Armed(q, f)' \subseteq Armed(q, f)
  <1>1. slot' = [slot EXCEPT ![s] = req] /\ slot'[s] = req
    BY DEF Begin, TypeOK
  <1>2. s \notin Armed(q, f)'
    BY <1>1 DEF Armed
  <1> QED
    BY <1>1, <1>2, ArmedOnSlot

\* A runner is let through only when its check found no job of the event as
\* young as its cool-down, and so no cool-down that still lasts.
LEMMA CheckQuiet ==
    ASSUME TypeOK, DatesPast, Inserted, NEW s \in Runners, checkCooldown(s),
           NEW q \in Reports, NEW f \in Events
    PROVE  \/ Armed(q, f)' \subseteq Armed(q, f)
           \/ Cooldown > 0 => \A i \in JobsOf(q) :
                 jobs[i].source = "event" /\ jobs[i].event = f =>
                    ~(today <= jobs[i].created + Cooldown)
  <1>1. slot[s] \in [op : {"list", "check", "run"}, at : Nat, on : SUBSET Reports,
                     matches : SUBSET Reports, event : Events]
    BY SlotTyped DEF checkCooldown
  <1>2. PICK r \in slot[s].on :
           LET cooling == Cooldown > 0 /\ hasRecentEventDrivenExportJob(
                              r, slot[s].event, slot[s].at - Cooldown)
           IN  slot' = [slot EXCEPT ![s].on = @ \ {r},
                                    ![s].matches = IF cooling THEN @ ELSE @ \cup {r}]
    BY DEF checkCooldown
  <1> DEFINE cooling == Cooldown > 0 /\ hasRecentEventDrivenExportJob(
                            r, slot[s].event, slot[s].at - Cooldown)
             kept == IF cooling THEN slot[s].matches ELSE slot[s].matches \cup {r}
             rest == [[slot[s] EXCEPT !.on = slot[s].on \ {r}] EXCEPT !.matches = kept]
  <1>3. slot' = [slot EXCEPT ![s] = rest]
    BY <1>2 DEF TypeOK
  <1>4. slot'[s] = rest /\ rest.op = slot[s].op /\ rest.event = slot[s].event
        /\ rest.matches = kept
    BY <1>1, <1>3 DEF TypeOK
  <1>5. CASE cooling \/ q # r \/ f # slot[s].event
    <2>1. s \in Armed(q, f)' => s \in Armed(q, f)
      <3> SUFFICES ASSUME s \in Armed(q, f)'
                   PROVE  s \in Armed(q, f)
        OBVIOUS
      <3>1. slot'[s].op \in {"list", "check", "run"} /\ q \in slot'[s].matches
            /\ slot'[s].event = f
        BY DEF Armed
      <3> HIDE DEF rest, cooling
      <3>2. f = slot[s].event /\ q \in kept
        BY <1>4, <3>1
      <3>3. q \in slot[s].matches
        BY <1>5, <3>2
      <3> QED
        BY <1>4, <3>1, <3>2, <3>3 DEF Armed
    <2> HIDE DEF rest
    <2> QED
      BY <1>3, <2>1, ArmedOnSlot
  <1>6. CASE ~cooling /\ q = r /\ f = slot[s].event
    <2> SUFFICES ASSUME Cooldown > 0, NEW i \in JobsOf(q), jobs[i].source = "event",
                        jobs[i].event = f, today <= jobs[i].created + Cooldown
                 PROVE  FALSE
      OBVIOUS
    <2>1. ~(jobs[i].created >= slot[s].at - Cooldown)
      BY <1>6 DEF hasRecentEventDrivenExportJob
    <2>2. i \in DOMAIN jobs
      BY DEF JobsOf
    <2>3. jobs[i].created \in Nat
      BY <2>2, EventJob
    <2>4. slot[s].at \in Nat /\ slot[s].at <= today /\ today \in Nat
      <3>1. slot[s] # FreeSlot
        BY DEF checkCooldown, FreeSlot
      <3> QED
        BY <1>1, <3>1 DEF DatesPast, TypeOK, Time
    <2> QED
      BY <2>1, <2>3, <2>4, TimesOK
  <1> QED
    BY <1>5, <1>6

LEMMA BurstEventStep ==
    ASSUME TypeOK, TypeOK', DatesPast, BurstInv, NEW s \in Runners,
           triggerEventDrivenScheduledReport(s)
    PROVE  BurstInv'
  <1>1. slot[s] \in [op : {"list", "check", "run"}, at : Nat, on : SUBSET Reports,
                     matches : SUBSET Reports, event : Events]
    BY SlotTyped DEF triggerEventDrivenScheduledReport
  <1>2. PICK r \in slot[s].matches :
           /\ \/ r \in LiveReports /\ Run(r, "event", slot[s].event, slot[s].at, report[r].next)
              \/ UNCHANGED <<report, jobs>>
           /\ slot' = [slot EXCEPT ![s].matches = @ \ {r}]
    BY DEF triggerEventDrivenScheduledReport
  <1>3. today' = today /\ today \in Nat
    BY DEF triggerEventDrivenScheduledReport, TypeOK, Time
  <1> DEFINE rest == [slot[s] EXCEPT !.matches = slot[s].matches \ {r}]
  <1>4. slot' = [slot EXCEPT ![s] = rest]
    BY <1>2 DEF TypeOK
  <1>5. slot'[s] = rest /\ rest.op = slot[s].op /\ rest.event = slot[s].event
        /\ rest.matches = slot[s].matches \ {r}
    BY <1>1, <1>4 DEF TypeOK
  <1> HIDE DEF rest
  <1>6. ASSUME NEW q, NEW f
        PROVE  Armed(q, f)' \subseteq Armed(q, f)
    <2>1. s \in Armed(q, f)' => s \in Armed(q, f)
      BY <1>5 DEF Armed
    <2> QED
      BY <1>4, <2>1, ArmedOnSlot
  <1>7. CASE UNCHANGED <<report, jobs>>
    BY <1>3, <1>6, <1>7, BurstQuiet
  <1>8. CASE r \in LiveReports /\ Run(r, "event", slot[s].event, slot[s].at, report[r].next)
    <2>1. PICK e \in Events : e = slot[s].event
      BY <1>1
    <2>2. r \in Reports /\ slot[s].at \in Nat /\ report[r].next \in Nat
      BY <1>1, <1>8, RowTyped DEF LiveReports
    <2>3. s \in Armed(r, e)
      BY <1>1, <1>2, <2>1 DEF Armed, triggerEventDrivenScheduledReport
    <2>4. s \notin Armed(r, e)'
      BY <1>5 DEF Armed
    <2>5. Armed(r, e)' \subseteq Armed(r, e) \ {s}
      BY <1>6, <2>4
    <2>6. Run(r, "event", e, slot[s].at, report[r].next)
      BY <1>8, <2>1
    <2> QED
      BY <1>3, <1>6, <2>2, <2>3, <2>5, <2>6, BurstRun
  <1> QED
    BY <1>2, <1>7, <1>8

LEMMA BurstStep == TypeOK /\ TypeOK' /\ DatesPast /\ BurstInv /\ [Next]_vars => BurstInv'
  <1> SUFFICES ASSUME TypeOK, TypeOK', DatesPast, BurstInv, [Next]_vars
               PROVE  BurstInv'
    OBVIOUS
  <1>0. today \in Nat /\ today' \in Nat /\ Inserted
    BY DEF TypeOK, Time, BurstInv
  <1>1. CASE UNCHANGED <<jobs, slot>> /\ today <= today'
    <2>1. \A q, f : Armed(q, f)' = Armed(q, f)
      BY <1>1 DEF Armed
    <2> QED
      BY <1>1, <2>1, BurstQuiet
  <1>2. ASSUME NEW s \in Runners, startPatch(s) \/ startClaim(s) \/ startTrigger(s) \/ startEvent(s)
        PROVE  BurstInv'
    <2>1. UNCHANGED <<today, jobs>>
      BY <1>2 DEF startPatch, startClaim, startTrigger, startEvent
    <2>2. ASSUME NEW q, NEW f
          PROVE  Armed(q, f)' \subseteq Armed(q, f)
      <3>1. CASE startPatch(s)
        BY <3>1, ArmedBegin DEF startPatch
      <3>2. CASE startClaim(s)
        BY <3>2, ArmedBegin DEF startClaim
      <3>3. CASE startTrigger(s)
        BY <3>3, ArmedBegin DEF startTrigger
      <3>4. CASE startEvent(s)
        BY <3>4, ArmedBegin DEF startEvent
      <3> QED
        BY <1>2, <3>1, <3>2, <3>3, <3>4
    <2> QED
      BY <1>0, <2>1, <2>2, BurstQuiet
  <1>3. ASSUME NEW s \in Runners, updateScheduledReport(s) \/ NothingDue(s) \/ eventDone(s)
        PROVE  BurstInv'
    <2>1. UNCHANGED <<today, jobs>> /\ End(s)
      BY <1>3 DEF updateScheduledReport, NothingDue, eventDone
    <2> QED
      BY <1>0, <2>1, ArmedEnd, BurstQuiet
  <1>4. ASSUME NEW s \in Runners, claimNextDueScheduledReport(s)
        PROVE  BurstInv'
    <2>1. slot[s].at \in Nat /\ today' = today /\ End(s)
      BY <1>4, SlotTyped DEF claimNextDueScheduledReport
    <2>2. PICK r \in LiveReports :
             Run(r, "scheduled", NoEvent, slot[s].at, slot[s].at + report[r].cadence)
      BY <1>4 DEF claimNextDueScheduledReport
    <2>3. r \in Reports /\ slot[s].at + report[r].cadence \in Nat
      BY <2>1, <2>2, RowTyped, NextRunTyped DEF LiveReports
    <2> QED
      BY <2>1, <2>2, <2>3, ArmedEnd, BurstOtherRun
  <1>5. ASSUME NEW s \in Runners, triggerScheduledReport(s)
        PROVE  BurstInv'
    <2>1. slot[s].at \in Nat /\ today' = today /\ End(s)
      BY <1>5, SlotTyped DEF triggerScheduledReport
    <2>2. PICK r \in slot[s].on :
             \/ /\ r \in LiveReports
                /\ Run(r, "manual", NoEvent, slot[s].at,
                       IF report[r].next <= slot[s].at
                       THEN slot[s].at + report[r].cadence ELSE report[r].next)
             \/ UNCHANGED <<report, jobs>>
      BY <1>5 DEF triggerScheduledReport
    <2>3. CASE UNCHANGED <<report, jobs>>
      BY <1>0, <2>1, <2>3, ArmedEnd, BurstQuiet
    <2>4. ASSUME r \in LiveReports, NEW next \in Nat, Run(r, "manual", NoEvent, slot[s].at, next)
          PROVE  BurstInv'
      BY <2>1, <2>4, ArmedEnd, BurstOtherRun DEF LiveReports
    <2>5. CASE /\ r \in LiveReports
               /\ Run(r, "manual", NoEvent, slot[s].at,
                      IF report[r].next <= slot[s].at
                      THEN slot[s].at + report[r].cadence ELSE report[r].next)
      <3>1. (IF report[r].next <= slot[s].at
             THEN slot[s].at + report[r].cadence ELSE report[r].next) \in Nat
        BY <2>1, <2>5, RowTyped, NextRunTyped DEF LiveReports
      <3> QED
        BY <2>4, <2>5, <3>1
    <2> QED
      BY <2>2, <2>3, <2>5
  <1>6. ASSUME NEW s \in Runners, checkCooldown(s)
        PROVE  BurstInv'
    <2>1. UNCHANGED <<today, jobs>>
      BY <1>6 DEF checkCooldown
    <2> QED
      BY <1>0, <1>6, <2>1, CheckQuiet, BurstQuiet
  <1>7. ASSUME NEW s \in Runners, listScheduledReports(s) \/ allChecked(s)
        PROVE  BurstInv'
    <2>1. UNCHANGED <<today, jobs>> /\ slot[s].op \in {"list", "check"}
      BY <1>7 DEF listScheduledReports, allChecked
    <2>2. slot[s] \in [op : {"list", "check", "run"}, at : Nat, on : SUBSET Reports,
                       matches : SUBSET Reports, event : Events]
      BY <2>1, SlotTyped
    <2>3. PICK busy : /\ slot' = [slot EXCEPT ![s] = busy]
                      /\ busy.matches = slot[s].matches /\ busy.event = slot[s].event
      <3>1. CASE listScheduledReports(s)
        <4>1. PICK S : slot' = [slot EXCEPT ![s].op = "check", ![s].on = S]
          BY <3>1 DEF listScheduledReports
        <4> DEFINE rest == [[slot[s] EXCEPT !.op = "check"] EXCEPT !.on = S]
        <4>2. slot' = [slot EXCEPT ![s] = rest]
          BY <4>1 DEF TypeOK
        <4>3. rest.matches = slot[s].matches /\ rest.event = slot[s].event
          BY <2>2
        <4> QED
          BY <4>2, <4>3
      <3>2. CASE allChecked(s)
        <4> DEFINE rest == [slot[s] EXCEPT !.op = "run"]
        <4>1. slot' = [slot EXCEPT ![s] = rest]
          BY <3>2 DEF TypeOK, allChecked
        <4>2. rest.matches = slot[s].matches /\ rest.event = slot[s].event
          BY <2>2
        <4> QED
          BY <4>1, <4>2
      <3> QED
        BY <1>7, <3>1, <3>2
    <2>4. ASSUME NEW q, NEW f
          PROVE  Armed(q, f)' \subseteq Armed(q, f)
      <3>1. slot'[s] = busy
        BY <2>3 DEF TypeOK
      <3>2. s \in Armed(q, f)' => s \in Armed(q, f)
        BY <2>1, <2>3, <3>1 DEF Armed
      <3> QED
        BY <2>3, <3>2, ArmedOnSlot
    <2> QED
      BY <1>0, <2>1, <2>4, BurstQuiet
  <1>8. CASE createScheduledReport \/ deleteScheduledReport \/ Tick \/ UNCHANGED vars
    BY <1>0, <1>1, <1>8 DEF createScheduledReport, deleteScheduledReport, Tick, vars
  <1> QED
    BY <1>2, <1>3, <1>4, <1>5, <1>6, <1>7, <1>8, BurstEventStep
       DEF Next, triggerEventDrivenScheduledReports

(* A runner is let through by its check only when no cool-down of the      *)
(* report and event lasts, and inserts at most one job for it: however     *)
(* many events are handled at once, no cool-down sees more jobs of its     *)
(* event than there are runners.                                           *)
THEOREM BurstBoundedHolds == Spec => []BurstBounded
  <1>1. Init => DatesPast /\ BurstInv
    BY DEF Init, DatesPast, BurstInv, Inserted
  <1>2. BurstInv => BurstBounded
    BY DEF BurstInv, BurstBounded, Bounded, BurstFrom
  <1>3. TypeOK /\ DatesPast /\ [Next]_vars => DatesPast'
    BY DatesStep
  <1> QED
    BY <1>1, <1>2, <1>3, TypeCorrect, BurstStep, PTL DEF Spec

=============================================================================
