---------------------------- MODULE ExportWorker ----------------------------
(***************************************************************************)
(* The export pipeline of the control plane: the export_jobs table, the    *)
(* directory the files are written to, and any number of export-worker     *)
(* processes that share both.                                              *)
(*                                                                         *)
(* A worker polls: it prunes orphaned files when its cleanup interval has  *)
(* elapsed, puts stale running jobs back in the queue, turns due scheduled *)
(* reports into jobs, then claims the oldest pending job, writes its file, *)
(* records the completion, audits it and notifies the delivery targets.    *)
(* Every statement against the database is one step; between two steps     *)
(* another worker, the control API, the clock or a crash may intervene.    *)
(*                                                                         *)
(* Time is abstracted to the one comparison the code makes: a row is in    *)
(* `stale' when its started_at is older than EXPORT_JOB_STALE_AFTER_MS.    *)
(***************************************************************************)
EXTENDS Naturals, FiniteSets

CONSTANTS
    Workers,      \* export-worker processes
    NJobs,        \* bound: rows of export_jobs ever created
    Targets,      \* delivery targets in a job's distribution list
    MaxAttempts,  \* bound: claims after which no manual retry is made
    MaxFaults,    \* bound: crashes, shutdowns and database errors
    MaxOverruns   \* bound: live workers outliving the stale interval

ASSUME ConstantsOK ==
    /\ NJobs \in Nat /\ MaxAttempts \in Nat
    /\ MaxFaults \in Nat /\ MaxOverruns \in Nat

VARIABLES
    created,      \* number of rows inserted; job ids follow created_at
    row,          \* export_jobs, by id
    stale,        \* rows whose started_at is older than the stale interval
    files,        \* managed files: the attempt that wrote it, 0 if absent
    temps,        \* temporary files, named after a job and an attempt
    delivered,    \* how often each target accepted a job's notification
    pc,           \* where each worker's loop stands
    job,          \* the job a worker holds, 0 if none
    att,          \* the attempt_count its claim returned
    snap,         \* file names or keys a pruning worker has read
    todo,         \* targets a dispatching worker has still to notify
    pruneDue,     \* workers whose cleanup interval has elapsed
    stopped,      \* workers told to stop
    faults, overruns

db   == <<created, row, stale>>
disk == <<files, temps>>
loop == <<pc, job, att, snap, todo, pruneDue, stopped>>
vars == <<db, disk, delivered, loop, faults, overruns>>

Jobs     == 1 .. NJobs
Existing == 1 .. created

PruneSteps   == {"prune", "listed", "referenced", "remove"}
PollSteps    == PruneSteps \cup {"recover", "reports", "claim"}
ProcessSteps == {"start", "write", "rename", "complete"}
SettleSteps  == {"auditDone", "dispatch", "fail", "auditFail", "followup"}
HoldSteps    == ProcessSteps \cup SettleSteps
OwnSteps     == ProcessSteps \cup {"auditDone", "dispatch", "fail"}
Steps        == {"idle", "down"} \cup PollSteps \cup HoldSteps

Statuses == {"none", "pending", "running", "completed", "failed"}
Row      == [status : Statuses, objectKey : BOOLEAN, rowCount : Nat,
             attemptCount : Nat]
NewRow   == [status |-> "none", objectKey |-> FALSE, rowCount |-> 0,
             attemptCount |-> 0]

Init ==
    /\ created = 0
    /\ row = [j \in Jobs |-> NewRow]
    /\ stale = {}
    /\ files = [j \in Jobs |-> 0]
    /\ temps = {}
    /\ delivered = [j \in Jobs |-> [t \in Targets |-> 0]]
    /\ pc = [w \in Workers |-> "idle"]
    /\ job = [w \in Workers |-> 0]
    /\ att = [w \in Workers |-> 0]
    /\ snap = [w \in Workers |-> {}]
    /\ todo = [w \in Workers |-> {}]
    /\ pruneDue = Workers
    /\ stopped = {}
    /\ faults = 0
    /\ overruns = 0

-----------------------------------------------------------------------------
(* Helpers *)

Goto(w, step) == pc' = [pc EXCEPT ![w] = step]

\* The worker is done with its job, in whatever way, and moves on to `step'.
LetGo(w, step) ==
    /\ Goto(w, step)
    /\ job' = [job EXCEPT ![w] = 0]
    /\ att' = [att EXCEPT ![w] = 0]
    /\ todo' = [todo EXCEPT ![w] = {}]

Fault == faults < MaxFaults /\ faults' = faults + 1

WithStatus(j, status) == row[j].status = status

\* Insert n pending rows behind the ones that exist.
InsertJobs(n) ==
    /\ created' = created + n
    /\ row' = [j \in Jobs |-> IF j \in (created + 1) .. (created + n)
                              THEN [NewRow EXCEPT !.status = "pending"]
                              ELSE row[j]]

-----------------------------------------------------------------------------
(* The control API and the clock *)

createExportJob ==
    /\ created < NJobs
    /\ InsertJobs(1)
    /\ UNCHANGED <<stale, disk, delivered, loop, faults, overruns>>

\* Seeded fault: a status no query of the table looks for.
retryAsQueued(j) ==
    /\ WithStatus(j, "failed")
    /\ row[j].attemptCount < MaxAttempts
    /\ row' = [row EXCEPT ![j].status = "queued"]
    /\ UNCHANGED <<created, stale, disk, delivered, loop, faults, overruns>>

\* Seeded fault: any settled job can be retried.
retrySettledJob(j) ==
    /\ row[j].status \in {"failed", "completed"}
    /\ row[j].attemptCount < MaxAttempts
    /\ row' = [row EXCEPT ![j].status = "pending", ![j].objectKey = FALSE,
                          ![j].rowCount = 0]
    /\ stale' = stale \ {j}
    /\ UNCHANGED <<created, disk, delivered, loop, faults, overruns>>

\* Seeded fault: the retry leaves the columns of the last attempt in place.
retryKeepingKey(j) ==
    /\ WithStatus(j, "failed")
    /\ row[j].attemptCount < MaxAttempts
    /\ row' = [row EXCEPT ![j].status = "pending"]
    /\ stale' = stale \ {j}
    /\ UNCHANGED <<created, disk, delivered, loop, faults, overruns>>

\* POST /v1/export-jobs/:id/retry; the update is guarded by status = 'failed'.
retryExportJob(j) ==
    /\ WithStatus(j, "failed")
    /\ row[j].attemptCount < MaxAttempts
    /\ row' = [row EXCEPT ![j].status = "pending", ![j].objectKey = FALSE,
                          ![j].rowCount = 0]
    /\ stale' = stale \ {j}
    /\ UNCHANGED <<created, disk, delivered, loop, faults, overruns>>

\* A live worker is still processing the row's current claim.
Held(j) == \E w \in Workers : /\ pc[w] \in ProcessSteps \cup {"fail"}
                              /\ job[w] = j
                              /\ att[w] = row[j].attemptCount

\* started_at falls behind now - EXPORT_JOB_STALE_AFTER_MS.
GrowStale(j) ==
    /\ WithStatus(j, "running")
    /\ j \notin stale
    /\ stale' = stale \cup {j}
    /\ IF Held(j) THEN overruns < MaxOverruns /\ overruns' = overruns + 1
                  ELSE UNCHANGED overruns
    /\ UNCHANGED <<created, row, disk, delivered, loop, faults>>

\* Date.now() - lastCleanupAt reaches EXPORT_JOB_CLEANUP_INTERVAL_MS.
CleanupElapsed(w) ==
    /\ w \notin pruneDue
    /\ pc[w] # "down"
    /\ pruneDue' = pruneDue \cup {w}
    /\ UNCHANGED <<db, disk, delivered, pc, job, att, snap, todo, stopped,
                   faults, overruns>>

-----------------------------------------------------------------------------
(* The worker's polling loop *)

WakeUp(w) ==
    /\ pc[w] = "idle"
    /\ w \notin stopped
    /\ Goto(w, IF w \in pruneDue THEN "prune" ELSE "recover")
    /\ UNCHANGED <<db, disk, delivered, job, att, snap, todo, pruneDue,
                   stopped, faults, overruns>>

OnDisk     == {j \in Jobs : files[j] # 0}
\* Seeded fault: only keys of jobs still running count as referenced.
ReferencedByRunning == {j \in Jobs : row[j].objectKey /\ WithStatus(j, "running")}

Referenced == {j \in Jobs : row[j].objectKey}

\* readdir and the query of referenced keys run concurrently; either answers
\* first, and what is in only the listing is to be removed.
pruneListFiles(w) ==
    /\ \/ /\ pc[w] = "prune"
          /\ snap' = [snap EXCEPT ![w] = OnDisk]
          /\ Goto(w, "listed")
       \/ /\ pc[w] = "referenced"
          /\ snap' = [snap EXCEPT ![w] = OnDisk \ snap[w]]
          /\ Goto(w, "remove")
    /\ UNCHANGED <<db, disk, delivered, job, att, todo, pruneDue, stopped,
                   faults, overruns>>

listReferencedExportObjectKeys(w) ==
    /\ \/ /\ pc[w] = "prune"
          /\ snap' = [snap EXCEPT ![w] = Referenced]
          /\ Goto(w, "referenced")
       \/ /\ pc[w] = "listed"
          /\ snap' = [snap EXCEPT ![w] = snap[w] \ Referenced]
          /\ Goto(w, "remove")
    /\ UNCHANGED <<db, disk, delivered, job, att, todo, pruneDue, stopped,
                   faults, overruns>>

\* rm with force: a file that is gone already is no error.
pruneRemoveFile(w) ==
    /\ pc[w] = "remove"
    /\ \E j \in snap[w] :
          /\ files' = [files EXCEPT ![j] = 0]
          /\ snap' = [snap EXCEPT ![w] = snap[w] \ {j}]
    /\ UNCHANGED <<db, temps, delivered, pc, job, att, todo, pruneDue,
                   stopped, faults, overruns>>

\* Seeded fault: the pass ends after any number of files.
pruneDoneEarly(w) ==
    /\ pc[w] = "remove"
    /\ pruneDue' = pruneDue \ {w}
    /\ snap' = [snap EXCEPT ![w] = {}]
    /\ Goto(w, "recover")
    /\ UNCHANGED <<db, disk, delivered, job, att, todo, stopped, faults,
                   overruns>>

pruneDone(w) ==
    /\ pc[w] = "remove"
    /\ snap[w] = {}
    /\ pruneDue' = pruneDue \ {w}
    /\ Goto(w, "recover")
    /\ UNCHANGED <<db, disk, delivered, job, att, snap, todo, stopped,
                   faults, overruns>>

\* Seeded fault: every running job is recovered, whatever its started_at.
recoverAnyRunning(w) ==
    /\ pc[w] = "recover"
    /\ row' = [j \in Jobs |-> IF WithStatus(j, "running")
                              THEN [row[j] EXCEPT !.status = "pending"]
                              ELSE row[j]]
    /\ stale' = {j \in stale : ~WithStatus(j, "running")}
    /\ Goto(w, "reports")
    /\ UNCHANGED <<created, disk, delivered, job, att, snap, todo, pruneDue,
                   stopped, faults, overruns>>

\* Seeded fault: the timestamps are cleared and the status is not.
recoverTimesOnly(w) ==
    /\ pc[w] = "recover"
    /\ stale' = {j \in stale : ~WithStatus(j, "running")}
    /\ Goto(w, "reports")
    /\ UNCHANGED <<created, row, disk, delivered, job, att, snap, todo,
                   pruneDue, stopped, faults, overruns>>

\* object_key and row_count are left as they are.
recoverStaleExportJobs(w) ==
    /\ pc[w] = "recover"
    /\ LET late == {j \in stale : WithStatus(j, "running")} IN
          /\ row' = [j \in Jobs |-> IF j \in late
                                    THEN [row[j] EXCEPT !.status = "pending"]
                                    ELSE row[j]]
          /\ stale' = stale \ late
    /\ Goto(w, "reports")
    /\ UNCHANGED <<created, disk, delivered, job, att, snap, todo, pruneDue,
                   stopped, faults, overruns>>

\* A due scheduled report becomes a pending job; the loop asks again.
claimNextDueScheduledReport(w) ==
    /\ pc[w] = "reports"
    /\ w \notin stopped
    /\ created < NJobs
    /\ InsertJobs(1)
    /\ UNCHANGED <<stale, disk, delivered, loop, faults, overruns>>

NoReportDue(w) ==
    /\ pc[w] = "reports"
    /\ Goto(w, "claim")
    /\ UNCHANGED <<db, disk, delivered, job, att, snap, todo, pruneDue,
                   stopped, faults, overruns>>

Pending == {j \in Existing : WithStatus(j, "pending")}

\* Seeded fault: the claim does not count the attempt.
claimUncounted(w) ==
    /\ pc[w] = "claim"
    /\ w \notin stopped
    /\ \E j \in Pending :
          /\ \A k \in Pending : j <= k
          /\ row' = [row EXCEPT ![j].status = "running"]
          /\ stale' = stale \ {j}
          /\ job' = [job EXCEPT ![w] = j]
          /\ att' = [att EXCEPT ![w] = row[j].attemptCount]
    /\ Goto(w, "start")
    /\ UNCHANGED <<created, disk, delivered, snap, todo, pruneDue, stopped,
                   faults, overruns>>

claimNextPendingExportJob(w) ==
    /\ pc[w] = "claim"
    /\ w \notin stopped
    /\ \E j \in Pending :
          /\ \A k \in Pending : j <= k
          /\ row' = [row EXCEPT ![j].status = "running",
                                ![j].attemptCount = row[j].attemptCount + 1]
          /\ stale' = stale \ {j}
          /\ job' = [job EXCEPT ![w] = j]
          /\ att' = [att EXCEPT ![w] = row[j].attemptCount + 1]
    /\ Goto(w, "start")
    /\ UNCHANGED <<created, disk, delivered, snap, todo, pruneDue, stopped,
                   faults, overruns>>

EndOfLoop(w) ==
    /\ pc[w] = "claim"
    /\ w \in stopped \/ Pending = {}
    /\ Goto(w, "idle")
    /\ UNCHANGED <<db, disk, delivered, job, att, snap, todo, pruneDue,
                   stopped, faults, overruns>>

\* A database error outside processExportJob ends the iteration; a job that
\* was claimed but not yet audited as started stays running, held by nobody.
LoopError(w) ==
    /\ pc[w] \in PollSteps \cup {"start"}
    /\ Fault
    /\ LetGo(w, "idle")
    /\ snap' = [snap EXCEPT ![w] = {}]
    /\ UNCHANGED <<db, disk, delivered, pruneDue, stopped, overruns>>

-----------------------------------------------------------------------------
(* processExportJob *)

auditStarted(w) ==
    /\ pc[w] = "start"
    /\ Goto(w, "write")
    /\ UNCHANGED <<db, disk, delivered, job, att, snap, todo, pruneDue,
                   stopped, faults, overruns>>

\* The rows are read and written to <id>.<format>.tmp-<pid>-<uuid>.
writeTempFile(w) ==
    /\ pc[w] = "write"
    /\ temps' = temps \cup {<<job[w], att[w]>>}
    /\ Goto(w, "rename")
    /\ UNCHANGED <<db, files, delivered, job, att, snap, todo, pruneDue,
                   stopped, faults, overruns>>

\* Seeded fault: a file that exists is not replaced.
renameIfAbsent(w) ==
    /\ pc[w] = "rename"
    /\ files' = [files EXCEPT ![job[w]] = IF @ = 0 THEN att[w] ELSE @]
    /\ temps' = temps \ {<<job[w], att[w]>>}
    /\ Goto(w, "complete")
    /\ UNCHANGED <<db, delivered, job, att, snap, todo, pruneDue, stopped,
                   faults, overruns>>

renameTempFile(w) ==
    /\ pc[w] = "rename"
    /\ files' = [files EXCEPT ![job[w]] = att[w]]
    /\ temps' = temps \ {<<job[w], att[w]>>}
    /\ Goto(w, "complete")
    /\ UNCHANGED <<db, delivered, job, att, snap, todo, pruneDue, stopped,
                   faults, overruns>>

\* The update is by id alone: neither the status nor the attempt is checked.
completeExportJob(w) ==
    /\ pc[w] = "complete"
    /\ row' = [row EXCEPT ![job[w]].status = "completed",
                          ![job[w]].objectKey = TRUE,
                          ![job[w]].rowCount = att[w]]
    /\ Goto(w, "auditDone")
    /\ UNCHANGED <<created, stale, disk, delivered, job, att, snap, todo,
                   pruneDue, stopped, faults, overruns>>

auditCompleted(w) ==
    /\ pc[w] = "auditDone"
    /\ Goto(w, "dispatch")
    /\ todo' = [todo EXCEPT ![w] = Targets]
    /\ UNCHANGED <<db, disk, delivered, job, att, snap, pruneDue, stopped,
                   faults, overruns>>

\* One POST; refused or not, its outcome is audited and the next target is up.
dispatchExportDelivery(w) ==
    /\ pc[w] = "dispatch"
    /\ \E t \in todo[w] :
          /\ \/ delivered' = [delivered EXCEPT ![job[w]][t] = @ + 1]
             \/ UNCHANGED delivered
          /\ todo' = [todo EXCEPT ![w] = @ \ {t}]
    /\ UNCHANGED <<db, disk, pc, job, att, snap, pruneDue, stopped, faults,
                   overruns>>

\* Seeded fault: an error while notifying fails the job.
dispatchErrorFailsJob(w) ==
    /\ pc[w] = "dispatch"
    /\ \/ /\ todo[w] = {}
          /\ LetGo(w, "claim")
          /\ UNCHANGED faults
       \/ /\ todo[w] # {}
          /\ Fault
          /\ Goto(w, "fail")
          /\ todo' = [todo EXCEPT ![w] = {}]
          /\ UNCHANGED <<job, att>>
    /\ UNCHANGED <<db, disk, delivered, snap, pruneDue, stopped, overruns>>

\* All targets tried, or an audit of an outcome failed and the rest is given up.
dispatchDone(w) ==
    /\ pc[w] = "dispatch"
    /\ \/ todo[w] = {} /\ UNCHANGED faults
       \/ todo[w] # {} /\ Fault
    /\ LetGo(w, "claim")
    /\ UNCHANGED <<db, disk, delivered, snap, pruneDue, stopped, overruns>>

\* An exception inside the try block, the audit of the completion included.
\* writeFileAtomically removes its temporary file.
processError(w) ==
    /\ pc[w] \in {"write", "rename", "complete", "auditDone"}
    /\ temps' = temps \ {<<job[w], att[w]>>}
    /\ Goto(w, "fail")
    /\ UNCHANGED <<db, files, delivered, job, att, snap, todo, pruneDue,
                   stopped, faults, overruns>>

\* The update is by id alone; object_key and row_count are left as they are.
failExportJob(w) ==
    /\ pc[w] = "fail"
    /\ row' = [row EXCEPT ![job[w]].status = "failed"]
    /\ Goto(w, "auditFail")
    /\ UNCHANGED <<created, stale, disk, delivered, job, att, snap, todo,
                   pruneDue, stopped, faults, overruns>>

auditFailed(w) ==
    /\ pc[w] = "auditFail"
    /\ Goto(w, "followup")
    /\ UNCHANGED <<db, disk, delivered, job, att, snap, todo, pruneDue,
                   stopped, faults, overruns>>

\* Reports listening for export-job-failed insert a job each.
triggerFailedExportFollowupReports(w) ==
    /\ pc[w] = "followup"
    /\ \E n \in 0 .. (NJobs - created) : InsertJobs(n)
    /\ LetGo(w, "claim")
    /\ UNCHANGED <<stale, disk, delivered, snap, pruneDue, stopped, faults,
                   overruns>>

\* An exception in the catch block leaves processExportJob; the loop logs it.
catchError(w) ==
    /\ pc[w] \in {"fail", "auditFail"}
    /\ Fault
    /\ LetGo(w, "claim")
    /\ UNCHANGED <<db, disk, delivered, snap, pruneDue, stopped, overruns>>

-----------------------------------------------------------------------------
(* The process *)

\* SIGTERM: no new work is claimed; a job in flight goes on until exit.
stopExportWorker(w) ==
    /\ pc[w] # "down"
    /\ w \notin stopped
    /\ Fault
    /\ stopped' = stopped \cup {w}
    /\ UNCHANGED <<db, disk, delivered, pc, job, att, snap, todo, pruneDue,
                   overruns>>

\* process.exit after a stop, or a crash; whatever was in flight is dropped.
Exit(w) ==
    /\ pc[w] # "down"
    /\ IF w \in stopped THEN UNCHANGED faults ELSE Fault
    /\ LetGo(w, "down")
    /\ snap' = [snap EXCEPT ![w] = {}]
    /\ stopped' = stopped \ {w}
    /\ pruneDue' = pruneDue \ {w}
    /\ UNCHANGED <<db, disk, delivered, overruns>>

\* lastCleanupAt is 0 in a new process.
Restart(w) ==
    /\ pc[w] = "down"
    /\ Goto(w, "idle")
    /\ pruneDue' = pruneDue \cup {w}
    /\ UNCHANGED <<db, disk, delivered, job, att, snap, todo, stopped,
                   faults, overruns>>

-----------------------------------------------------------------------------

Prune(w) ==
    \/ pruneListFiles(w) \/ listReferencedExportObjectKeys(w)
    \/ pruneRemoveFile(w) \/ pruneDone(w)

Poll(w) ==
    \/ WakeUp(w) \/ Prune(w) \/ recoverStaleExportJobs(w)
    \/ claimNextDueScheduledReport(w) \/ NoReportDue(w)
    \/ claimNextPendingExportJob(w) \/ EndOfLoop(w)

processExportJob(w) ==
    \/ auditStarted(w) \/ writeTempFile(w) \/ renameTempFile(w)
    \/ completeExportJob(w) \/ auditCompleted(w)
    \/ dispatchExportDelivery(w) \/ dispatchDone(w)
    \/ processError(w) \/ failExportJob(w) \/ auditFailed(w)
    \/ triggerFailedExportFollowupReports(w)

Process(w) ==
    \/ LoopError(w) \/ catchError(w)
    \/ stopExportWorker(w) \/ Exit(w) \/ Restart(w)

Environment ==
    \/ createExportJob
    \/ \E j \in Jobs : retryExportJob(j) \/ GrowStale(j)
    \/ \E w \in Workers : CleanupElapsed(w)

Next ==
    \/ Environment
    \/ \E w \in Workers : Poll(w) \/ processExportJob(w) \/ Process(w)

Spec == Init /\ [][Next]_vars

\* A worker's loop keeps running, a process that exits is started again (and
\* one told to stop does exit), and the clock advances.
Fairness ==
    /\ \A w \in Workers :
          /\ WF_vars(Poll(w) \/ processExportJob(w))
          /\ WF_vars(w \in stopped /\ Exit(w))
          /\ WF_vars(Restart(w))
          /\ WF_vars(CleanupElapsed(w))
    /\ \A j \in Jobs : WF_vars(~Held(j) /\ GrowStale(j))

FairSpec == Spec /\ Fairness

-----------------------------------------------------------------------------
(* Properties *)

\* Every variable has the type the code gives it.
TypeOK ==
    /\ created \in 0 .. NJobs
    /\ row \in [Jobs -> Row]
    /\ stale \subseteq Jobs
    /\ files \in [Jobs -> Nat]
    /\ temps \subseteq Jobs \X Nat
    /\ delivered \in [Jobs -> [Targets -> Nat]]
    /\ pc \in [Workers -> Steps]
    /\ job \in [Workers -> {0} \cup Jobs]
    /\ att \in [Workers -> Nat]
    /\ snap \in [Workers -> SUBSET Jobs]
    /\ todo \in [Workers -> SUBSET Targets]
    /\ pruneDue \subseteq Workers
    /\ stopped \subseteq Workers
    /\ faults \in 0 .. MaxFaults
    /\ overruns \in 0 .. MaxOverruns

\* A worker has a job exactly while its loop is inside the processing of one;
\* every way out of it, errors and crashes included, drops the job.
HolderOK == \A w \in Workers : job[w] # 0 <=> pc[w] \in HoldSteps

\* Whatever crashes, restarts and recoveries of slow workers happen, no two
\* workers ever act on the same claim: attempt_count tells every claim of a
\* job apart (claimNextPendingExportJob, recoverStaleExportJobs).
ExclusiveClaim ==
    \A v, w \in Workers :
        v # w /\ job[v] # 0 /\ job[v] = job[w] => att[v] # att[w]

\* Unless a worker outlived the stale interval, a job is processed by one
\* worker at a time and its row says so: completeExportJob, which checks
\* nothing, then only ever updates the running row of its own claim.
SingleProcessor ==
    overruns = 0 =>
        \A w \in Workers : pc[w] \in ProcessSteps =>
            /\ WithStatus(job[w], "running")
            /\ att[w] = row[job[w]].attemptCount
            /\ \A v \in Workers \ {w} :
                  pc[v] \in ProcessSteps => job[v] # job[w]

\* Unless a worker outlived the stale interval, the file a completed job is
\* downloaded from was written by the attempt its row_count is from.
FileMatchesRow ==
    overruns = 0 =>
        \A j \in Jobs : WithStatus(j, "completed") =>
            files[j] \in {0, row[j].rowCount}

\* Unless a worker outlived the stale interval, no target is notified of a
\* job twice, over all its attempts, and a job once announced stays completed.
DeliveredOnce ==
    overruns = 0 =>
        \A j \in Jobs, t \in Targets :
            /\ delivered[j][t] <= 1
            /\ delivered[j][t] > 0 => WithStatus(j, "completed")

\* A job that is still to be run has no object_key, however it came back into
\* the queue: a listing of referenced keys names settled jobs only.
KeyOnlyWhenSettled ==
    \A j \in Jobs : row[j].objectKey => row[j].status \in {"completed", "failed"}

\* The worker "does not delete files that are still referenced by completed
\* export jobs": a completed job has its file.
CompletedFileKept ==
    \A j \in Jobs : WithStatus(j, "completed") => files[j] # 0

\* Every pending job is eventually settled, through any number of crashes,
\* restarts, database errors and slow workers that come to an end.
JobsSettle ==
    \A j \in Jobs : WithStatus(j, "pending") ~>
                        row[j].status \in {"completed", "failed"}

\* A file that no row references and no worker is about to reference is
\* eventually removed, unless its job is run again.
Orphaned(j) == /\ files[j] # 0
               /\ WithStatus(j, "failed")
               /\ ~row[j].objectKey
OrphansPruned == \A j \in Jobs : Orphaned(j) ~> ~Orphaned(j)

\* "Removes orphaned files from EXPORT_JOBS_DIR": what a worker that died in
\* the middle of writing left behind is eventually removed.
Leftover(f) == f \in temps /\ \A w \in Workers : <<job[w], att[w]>> # f
LeftoversRemoved == \A f \in Jobs \X (1 .. MaxAttempts + MaxFaults) :
                        Leftover(f) ~> ~Leftover(f)


-----------------------------------------------------------------------------
(* The inductive strengthenings behind ExclusiveClaim, KeyOnlyWhenSettled and *)
(* the properties of workers that keep within the stale interval.            *)

\* Rows beyond the last insert are untouched, and nobody holds one; a claim's
\* number is at most the row's attempt_count.
CreatedOK == \A j \in Jobs : j > created => row[j] = NewRow
ClaimOK(w) == job[w] # 0 => /\ job[w] <= created
                            /\ att[w] <= row[job[w]].attemptCount

ClaimInv ==
    /\ CreatedOK
    /\ \A w \in Workers : ClaimOK(w)
    /\ ExclusiveClaim
    /\ KeyOnlyWhenSettled

\* What the row, the file and the notifications of a worker's job look like
\* at each step of a worker whose claim is the current one.
PromptWorker(w) ==
    /\ pc[w] \in ProcessSteps => WithStatus(job[w], "running")
    /\ pc[w] \in {"auditDone", "dispatch"} => WithStatus(job[w], "completed")
    /\ pc[w] = "fail" => \/ WithStatus(job[w], "running")
                         \/ WithStatus(job[w], "completed")
    /\ pc[w] \in OwnSteps => att[w] = row[job[w]].attemptCount
    /\ pc[w] = "complete" => files[job[w]] \in {0, att[w]}
    /\ pc[w] \in {"auditDone", "fail"} =>
          \A t \in Targets : delivered[job[w]][t] = 0
    /\ pc[w] = "dispatch" => \A t \in todo[w] : delivered[job[w]][t] = 0

PromptJob(j) ==
    /\ WithStatus(j, "completed") => files[j] \in {0, row[j].rowCount}
    /\ \A t \in Targets : /\ delivered[j][t] <= 1
                          /\ delivered[j][t] > 0 => WithStatus(j, "completed")
    /\ j \in stale /\ WithStatus(j, "running") => ~Held(j)

PromptInv ==
    overruns = 0 => /\ \A w \in Workers : PromptWorker(w)
                    /\ \A j \in Jobs : PromptJob(j)

=============================================================================
