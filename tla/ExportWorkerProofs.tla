------------------------- MODULE ExportWorkerProofs -------------------------
(***************************************************************************)
(* Proofs about ExportWorker for every set of workers and targets and      *)
(* every number of jobs, attempts, faults and overruns; and that the       *)
(* workers implement ExportJobs as long as none outlives the stale         *)
(* interval.                                                               *)
(***************************************************************************)
EXTENDS ExportWorkerRefinement, TLAPS

-----------------------------------------------------------------------------
(* Types of the helpers *)

\* Changing the status of a row leaves a row.
LEMMA WithStatusType ==
  ASSUME NEW r \in Row, NEW s \in Statuses
  PROVE  [r EXCEPT !.status = s] \in Row
  BY DEF Row

LEMMA RetriedType ==
  ASSUME NEW r \in Row
  PROVE  [r EXCEPT !.status = "pending", !.objectKey = FALSE, !.rowCount = 0]
            \in Row
  BY DEF Row, Statuses

LEMMA ClaimedType ==
  ASSUME NEW r \in Row, NEW n \in Nat
  PROVE  [r EXCEPT !.status = "running", !.attemptCount = n] \in Row
  BY DEF Row, Statuses

LEMMA CompletedType ==
  ASSUME NEW r \in Row, NEW n \in Nat
  PROVE  [r EXCEPT !.status = "completed", !.objectKey = TRUE, !.rowCount = n]
            \in Row
  BY DEF Row, Statuses

\* A row that was just inserted is a row.
LEMMA NewRowType == NewRow \in Row
  BY DEF NewRow, Row, Statuses

\* Inserting no more rows than there are ids left keeps the table typed.
LEMMA InsertType ==
  ASSUME TypeOK, NEW n \in Nat, n <= NJobs - created, InsertJobs(n)
  PROVE  created' \in 0 .. NJobs /\ row' \in [Jobs -> Row]
<1>1. created' \in 0 .. NJobs
  BY ConstantsOK DEF TypeOK, InsertJobs
<1>2. [NewRow EXCEPT !.status = "pending"] \in Row
  BY NewRowType, WithStatusType DEF Statuses
<1>3. row' \in [Jobs -> Row]
  BY <1>2 DEF TypeOK, InsertJobs
<1> QED BY <1>1, <1>3

\* Pending rows are rows.
LEMMA PendingJobs == TypeOK => Pending \subseteq Jobs
  BY ConstantsOK DEF TypeOK, Pending, Existing, Jobs

\* Moving a worker to a step of its loop, with or without its job.
LEMMA GotoType ==
  ASSUME TypeOK, NEW w \in Workers, NEW s \in Steps, Goto(w, s)
  PROVE  pc' \in [Workers -> Steps]
  BY DEF TypeOK, Goto

LEMMA LetGoType ==
  ASSUME TypeOK, NEW w \in Workers, NEW s \in Steps, LetGo(w, s)
  PROVE  /\ pc' \in [Workers -> Steps]
         /\ job' \in [Workers -> {0} \cup Jobs]
         /\ att' \in [Workers -> Nat]
         /\ todo' \in [Workers -> SUBSET Targets]
<1>1. pc' \in [Workers -> Steps]
  BY GotoType DEF LetGo
<1> QED BY <1>1 DEF TypeOK, LetGo

\* The names of the steps are steps.
LEMMA StepNames ==
  {"idle", "down", "prune", "listed", "referenced", "remove", "recover",
   "reports", "claim", "start", "write", "rename", "complete", "auditDone",
   "dispatch", "fail", "auditFail", "followup"} = Steps
  BY DEF Steps, PollSteps, PruneSteps, HoldSteps, ProcessSteps, SettleSteps

\* A fault is counted up to its bound.
LEMMA FaultType == TypeOK /\ Fault => faults' \in 0 .. MaxFaults
  BY ConstantsOK DEF TypeOK, Fault

-----------------------------------------------------------------------------
(* Type correctness *)

\* The initial state is typed.
LEMMA TypeInit == Init => TypeOK
<1> SUFFICES ASSUME Init PROVE TypeOK
  OBVIOUS
<1>1. row \in [Jobs -> Row]
  BY NewRowType DEF Init
<1>2. pc \in [Workers -> Steps]
  BY StepNames DEF Init
<1> QED BY <1>1, <1>2, ConstantsOK DEF Init, TypeOK

\* Every step keeps every variable within its type.
LEMMA TypeStep == TypeOK /\ HolderOK /\ [Next]_vars => TypeOK'
<1> SUFFICES ASSUME TypeOK, HolderOK, [Next]_vars PROVE TypeOK'
  OBVIOUS
<1>0. \A w \in Workers : pc[w] \in HoldSteps => job[w] \in Jobs
  BY DEF TypeOK, HolderOK
<1>1. ASSUME createExportJob PROVE TypeOK'
  <2>1. created' \in 0 .. NJobs /\ row' \in [Jobs -> Row]
    BY <1>1, InsertType, ConstantsOK DEF createExportJob, TypeOK
  <2> QED BY <1>1, <2>1 DEF createExportJob, TypeOK, disk, loop
<1>2. ASSUME NEW j \in Jobs, retryExportJob(j) PROVE TypeOK'
  <2>1. row' \in [Jobs -> Row]
    BY <1>2, RetriedType DEF retryExportJob, TypeOK
  <2> QED BY <1>2, <2>1 DEF retryExportJob, TypeOK, disk, loop
<1>3. ASSUME NEW j \in Jobs, GrowStale(j) PROVE TypeOK'
  <2>1. overruns' \in 0 .. MaxOverruns
    BY <1>3, ConstantsOK DEF GrowStale, TypeOK
  <2> QED BY <1>3, <2>1 DEF GrowStale, TypeOK, disk, loop
<1>4. ASSUME NEW w \in Workers, CleanupElapsed(w) PROVE TypeOK'
  BY <1>4 DEF CleanupElapsed, TypeOK, db, disk
<1>5. ASSUME NEW w \in Workers, WakeUp(w) PROVE TypeOK'
  <2>1. pc' \in [Workers -> Steps]
    BY <1>5, GotoType, StepNames DEF WakeUp
  <2> QED BY <1>5, <2>1 DEF WakeUp, TypeOK, db, disk
<1>6. ASSUME NEW w \in Workers, pruneListFiles(w) PROVE TypeOK'
  <2>1. pc' \in [Workers -> Steps]
    BY <1>6, GotoType, StepNames DEF pruneListFiles
  <2> QED BY <1>6, <2>1 DEF pruneListFiles, TypeOK, db, disk, OnDisk
<1>7. ASSUME NEW w \in Workers, listReferencedExportObjectKeys(w) PROVE TypeOK'
  <2>1. pc' \in [Workers -> Steps]
    BY <1>7, GotoType, StepNames DEF listReferencedExportObjectKeys
  <2> QED BY <1>7, <2>1 DEF listReferencedExportObjectKeys, TypeOK, db, disk, Referenced
<1>8. ASSUME NEW w \in Workers, pruneRemoveFile(w) PROVE TypeOK'
  BY <1>8 DEF pruneRemoveFile, TypeOK, db
<1>9. ASSUME NEW w \in Workers, pruneDone(w) PROVE TypeOK'
  <2>1. pc' \in [Workers -> Steps]
    BY <1>9, GotoType, StepNames DEF pruneDone
  <2> QED BY <1>9, <2>1 DEF pruneDone, TypeOK, db, disk
<1>10. ASSUME NEW w \in Workers, recoverStaleExportJobs(w) PROVE TypeOK'
  <2>1. pc' \in [Workers -> Steps]
    BY <1>10, GotoType, StepNames DEF recoverStaleExportJobs
  <2>2. \A k \in Jobs : [row[k] EXCEPT !.status = "pending"] \in Row
    BY WithStatusType DEF TypeOK, Statuses
  <2>3. row' \in [Jobs -> Row]
    BY <1>10, <2>2 DEF recoverStaleExportJobs, TypeOK
  <2> QED BY <1>10, <2>1, <2>3 DEF recoverStaleExportJobs, TypeOK, disk
<1>11. ASSUME NEW w \in Workers, claimNextDueScheduledReport(w) PROVE TypeOK'
  <2>1. created' \in 0 .. NJobs /\ row' \in [Jobs -> Row]
    BY <1>11, InsertType, ConstantsOK DEF claimNextDueScheduledReport, TypeOK
  <2> QED BY <1>11, <2>1 DEF claimNextDueScheduledReport, TypeOK, disk, loop
<1>12. ASSUME NEW w \in Workers, NoReportDue(w) PROVE TypeOK'
  <2>1. pc' \in [Workers -> Steps]
    BY <1>12, GotoType, StepNames DEF NoReportDue
  <2> QED BY <1>12, <2>1 DEF NoReportDue, TypeOK, db, disk
<1>13. ASSUME NEW w \in Workers, claimNextPendingExportJob(w) PROVE TypeOK'
  <2>1. pc' \in [Workers -> Steps]
    BY <1>13, GotoType, StepNames DEF claimNextPendingExportJob
  <2>2. Pending \subseteq Jobs
    BY PendingJobs
  <2>3. \A k \in Jobs : row[k].attemptCount + 1 \in Nat
    BY DEF TypeOK, Row
  <2>4. row' \in [Jobs -> Row]
    <3>1. PICK j \in Jobs :
             row' = [row EXCEPT ![j].status = "running",
                        ![j].attemptCount = row[j].attemptCount + 1]
      BY <1>13, <2>2 DEF claimNextPendingExportJob
    <3>2. [row[j] EXCEPT !.status = "running",
             !.attemptCount = row[j].attemptCount + 1] \in Row
      BY <2>3, ClaimedType DEF TypeOK
    <3> QED BY <3>1, <3>2 DEF TypeOK
  <2>5. job' \in [Workers -> {0} \cup Jobs] /\ att' \in [Workers -> Nat]
    BY <1>13, <2>2, <2>3 DEF claimNextPendingExportJob, TypeOK
  <2> QED BY <1>13, <2>1, <2>4, <2>5 DEF claimNextPendingExportJob, TypeOK, disk
<1>14. ASSUME NEW w \in Workers, EndOfLoop(w) PROVE TypeOK'
  <2>1. pc' \in [Workers -> Steps]
    BY <1>14, GotoType, StepNames DEF EndOfLoop
  <2> QED BY <1>14, <2>1 DEF EndOfLoop, TypeOK, db, disk
<1>15. ASSUME NEW w \in Workers, LoopError(w) PROVE TypeOK'
  <2>1. /\ pc' \in [Workers -> Steps]
       /\ job' \in [Workers -> {0} \cup Jobs]
       /\ att' \in [Workers -> Nat]
       /\ todo' \in [Workers -> SUBSET Targets]
    BY <1>15, LetGoType, StepNames DEF LoopError
  <2>2. faults' \in 0 .. MaxFaults
    BY <1>15, FaultType DEF LoopError
  <2> QED BY <1>15, <2>1, <2>2 DEF LoopError, TypeOK, db, disk
<1>16. ASSUME NEW w \in Workers, auditStarted(w) PROVE TypeOK'
  <2>1. pc' \in [Workers -> Steps]
    BY <1>16, GotoType, StepNames DEF auditStarted
  <2> QED BY <1>16, <2>1 DEF auditStarted, TypeOK, db, disk
<1>17. ASSUME NEW w \in Workers, writeTempFile(w) PROVE TypeOK'
  <2>1. pc' \in [Workers -> Steps]
    BY <1>17, GotoType, StepNames DEF writeTempFile
  <2>2. job[w] \in Jobs
    BY <1>0, <1>17 DEF writeTempFile, HoldSteps, ProcessSteps
  <2> QED BY <1>17, <2>1, <2>2 DEF writeTempFile, TypeOK, db
<1>18. ASSUME NEW w \in Workers, renameTempFile(w) PROVE TypeOK'
  <2>1. pc' \in [Workers -> Steps]
    BY <1>18, GotoType, StepNames DEF renameTempFile
  <2> QED BY <1>18, <2>1 DEF renameTempFile, TypeOK, db
<1>19. ASSUME NEW w \in Workers, completeExportJob(w) PROVE TypeOK'
  <2>1. pc' \in [Workers -> Steps]
    BY <1>19, GotoType, StepNames DEF completeExportJob
  <2>2. row' \in [Jobs -> Row]
    BY <1>19, CompletedType DEF completeExportJob, TypeOK
  <2> QED BY <1>19, <2>1, <2>2 DEF completeExportJob, TypeOK, disk
<1>20. ASSUME NEW w \in Workers, auditCompleted(w) PROVE TypeOK'
  <2>1. pc' \in [Workers -> Steps]
    BY <1>20, GotoType, StepNames DEF auditCompleted
  <2> QED BY <1>20, <2>1 DEF auditCompleted, TypeOK, db, disk
<1>21. ASSUME NEW w \in Workers, dispatchExportDelivery(w) PROVE TypeOK'
  <2>1. delivered' \in [Jobs -> [Targets -> Nat]]
    <3>1. job[w] \in Jobs
      BY <1>0, <1>21 DEF dispatchExportDelivery, HoldSteps, SettleSteps
    <3>2. \A t \in Targets : delivered[job[w]][t] + 1 \in Nat
      BY <3>1 DEF TypeOK
    <3> QED BY <1>21, <3>1, <3>2 DEF dispatchExportDelivery, TypeOK
  <2> QED BY <1>21, <2>1 DEF dispatchExportDelivery, TypeOK, db, disk
<1>22. ASSUME NEW w \in Workers, dispatchDone(w) PROVE TypeOK'
  <2>1. /\ pc' \in [Workers -> Steps]
       /\ job' \in [Workers -> {0} \cup Jobs]
       /\ att' \in [Workers -> Nat]
       /\ todo' \in [Workers -> SUBSET Targets]
    BY <1>22, LetGoType, StepNames DEF dispatchDone
  <2>2. faults' \in 0 .. MaxFaults
    BY <1>22, FaultType DEF dispatchDone, TypeOK
  <2> QED BY <1>22, <2>1, <2>2 DEF dispatchDone, TypeOK, db, disk
<1>23. ASSUME NEW w \in Workers, processError(w) PROVE TypeOK'
  <2>1. pc' \in [Workers -> Steps]
    BY <1>23, GotoType, StepNames DEF processError
  <2> QED BY <1>23, <2>1 DEF processError, TypeOK, db
<1>24. ASSUME NEW w \in Workers, failExportJob(w) PROVE TypeOK'
  <2>1. pc' \in [Workers -> Steps]
    BY <1>24, GotoType, StepNames DEF failExportJob
  <2>2. row' \in [Jobs -> Row]
    BY <1>24, WithStatusType DEF failExportJob, TypeOK, Statuses
  <2> QED BY <1>24, <2>1, <2>2 DEF failExportJob, TypeOK, disk
<1>25. ASSUME NEW w \in Workers, auditFailed(w) PROVE TypeOK'
  <2>1. pc' \in [Workers -> Steps]
    BY <1>25, GotoType, StepNames DEF auditFailed
  <2> QED BY <1>25, <2>1 DEF auditFailed, TypeOK, db, disk
<1>26. ASSUME NEW w \in Workers, triggerFailedExportFollowupReports(w) PROVE TypeOK'
  <2>1. /\ pc' \in [Workers -> Steps]
       /\ job' \in [Workers -> {0} \cup Jobs]
       /\ att' \in [Workers -> Nat]
       /\ todo' \in [Workers -> SUBSET Targets]
    BY <1>26, LetGoType, StepNames DEF triggerFailedExportFollowupReports
  <2>2. created' \in 0 .. NJobs /\ row' \in [Jobs -> Row]
    BY <1>26, InsertType, ConstantsOK DEF triggerFailedExportFollowupReports, TypeOK
  <2> QED BY <1>26, <2>1, <2>2 DEF triggerFailedExportFollowupReports, TypeOK, disk
<1>27. ASSUME NEW w \in Workers, catchError(w) PROVE TypeOK'
  <2>1. /\ pc' \in [Workers -> Steps]
       /\ job' \in [Workers -> {0} \cup Jobs]
       /\ att' \in [Workers -> Nat]
       /\ todo' \in [Workers -> SUBSET Targets]
    BY <1>27, LetGoType, StepNames DEF catchError
  <2>2. faults' \in 0 .. MaxFaults
    BY <1>27, FaultType DEF catchError
  <2> QED BY <1>27, <2>1, <2>2 DEF catchError, TypeOK, db, disk
<1>28. ASSUME NEW w \in Workers, stopExportWorker(w) PROVE TypeOK'
  <2>1. faults' \in 0 .. MaxFaults
    BY <1>28, FaultType DEF stopExportWorker
  <2> QED BY <1>28, <2>1 DEF stopExportWorker, TypeOK, db, disk
<1>29. ASSUME NEW w \in Workers, Exit(w) PROVE TypeOK'
  <2>1. /\ pc' \in [Workers -> Steps]
       /\ job' \in [Workers -> {0} \cup Jobs]
       /\ att' \in [Workers -> Nat]
       /\ todo' \in [Workers -> SUBSET Targets]
    BY <1>29, LetGoType, StepNames DEF Exit
  <2>2. faults' \in 0 .. MaxFaults
    BY <1>29, FaultType DEF Exit, TypeOK
  <2> QED BY <1>29, <2>1, <2>2 DEF Exit, TypeOK, db, disk
<1>30. ASSUME NEW w \in Workers, Restart(w) PROVE TypeOK'
  <2>1. pc' \in [Workers -> Steps]
    BY <1>30, GotoType, StepNames DEF Restart
  <2> QED BY <1>30, <2>1 DEF Restart, TypeOK, db, disk
<1>31. CASE UNCHANGED vars
  BY <1>31 DEF TypeOK, vars, db, disk, loop
<1> QED
  BY <1>1, <1>2, <1>3, <1>4, <1>5, <1>6, <1>7, <1>8, <1>9, <1>10, <1>11, <1>12, <1>13, <1>14, <1>15, <1>16, <1>17, <1>18, <1>19, <1>20, <1>21, <1>22, <1>23, <1>24, <1>25, <1>26, <1>27, <1>28, <1>29, <1>30, <1>31
     DEF Next, Environment, Poll, Prune, processExportJob, Process

\* Every step takes up and drops a worker's job together with its place in
\* the loop.
LEMMA HolderStep == TypeOK /\ HolderOK /\ [Next]_vars => HolderOK'
<1> SUFFICES ASSUME TypeOK, HolderOK, [Next]_vars PROVE HolderOK'
  OBVIOUS
<1> USE DEF HolderOK, HoldSteps, ProcessSteps, SettleSteps
<1>1. ASSUME UNCHANGED <<pc, job>> PROVE HolderOK'
  BY <1>1
<1>2. ASSUME NEW w \in Workers, NEW s, Goto(w, s), UNCHANGED job,
             pc[w] \in HoldSteps <=> s \in HoldSteps
      PROVE  HolderOK'
  BY <1>2 DEF Goto, TypeOK
<1>3. ASSUME NEW w \in Workers, NEW s, LetGo(w, s), s \notin HoldSteps
      PROVE  HolderOK'
  BY <1>3 DEF LetGo, Goto, TypeOK
<1>4. ASSUME createExportJob PROVE HolderOK'
  BY <1>4, <1>1 DEF createExportJob, loop
<1>5. ASSUME NEW j \in Jobs, retryExportJob(j) PROVE HolderOK'
  BY <1>5, <1>1 DEF retryExportJob, loop
<1>6. ASSUME NEW j \in Jobs, GrowStale(j) PROVE HolderOK'
  BY <1>6, <1>1 DEF GrowStale, loop
<1>7. ASSUME NEW w \in Workers, CleanupElapsed(w) PROVE HolderOK'
  BY <1>7, <1>1 DEF CleanupElapsed, loop
<1>8. ASSUME NEW w \in Workers, WakeUp(w) PROVE HolderOK'
  BY <1>8, <1>2 DEF WakeUp, PruneSteps
<1>9. ASSUME NEW w \in Workers, pruneListFiles(w) PROVE HolderOK'
  BY <1>9, <1>2 DEF pruneListFiles, PruneSteps
<1>10. ASSUME NEW w \in Workers, listReferencedExportObjectKeys(w) PROVE HolderOK'
  BY <1>10, <1>2 DEF listReferencedExportObjectKeys, PruneSteps
<1>11. ASSUME NEW w \in Workers, pruneRemoveFile(w) PROVE HolderOK'
  BY <1>11, <1>1 DEF pruneRemoveFile, loop
<1>12. ASSUME NEW w \in Workers, pruneDone(w) PROVE HolderOK'
  BY <1>12, <1>2 DEF pruneDone, PruneSteps
<1>13. ASSUME NEW w \in Workers, recoverStaleExportJobs(w) PROVE HolderOK'
  BY <1>13, <1>2 DEF recoverStaleExportJobs, PruneSteps
<1>14. ASSUME NEW w \in Workers, claimNextDueScheduledReport(w) PROVE HolderOK'
  BY <1>14, <1>1 DEF claimNextDueScheduledReport, loop
<1>15. ASSUME NEW w \in Workers, NoReportDue(w) PROVE HolderOK'
  BY <1>15, <1>2 DEF NoReportDue, PruneSteps
<1>16. ASSUME NEW w \in Workers, claimNextPendingExportJob(w) PROVE HolderOK'
  <2>1. Pending \subseteq Jobs /\ 0 \notin Jobs
    BY PendingJobs DEF Jobs
  <2> QED BY <1>16, <2>1 DEF claimNextPendingExportJob, Goto, TypeOK
<1>17. ASSUME NEW w \in Workers, EndOfLoop(w) PROVE HolderOK'
  BY <1>17, <1>2 DEF EndOfLoop, PruneSteps
<1>18. ASSUME NEW w \in Workers, LoopError(w) PROVE HolderOK'
  BY <1>18, <1>3 DEF LoopError
<1>19. ASSUME NEW w \in Workers, auditStarted(w) PROVE HolderOK'
  BY <1>19, <1>2 DEF auditStarted, PruneSteps
<1>20. ASSUME NEW w \in Workers, writeTempFile(w) PROVE HolderOK'
  BY <1>20, <1>2 DEF writeTempFile, PruneSteps
<1>21. ASSUME NEW w \in Workers, renameTempFile(w) PROVE HolderOK'
  BY <1>21, <1>2 DEF renameTempFile, PruneSteps
<1>22. ASSUME NEW w \in Workers, completeExportJob(w) PROVE HolderOK'
  BY <1>22, <1>2 DEF completeExportJob, PruneSteps
<1>23. ASSUME NEW w \in Workers, auditCompleted(w) PROVE HolderOK'
  BY <1>23, <1>2 DEF auditCompleted, PruneSteps
<1>24. ASSUME NEW w \in Workers, dispatchExportDelivery(w) PROVE HolderOK'
  BY <1>24, <1>1 DEF dispatchExportDelivery, loop
<1>25. ASSUME NEW w \in Workers, dispatchDone(w) PROVE HolderOK'
  BY <1>25, <1>3 DEF dispatchDone
<1>26. ASSUME NEW w \in Workers, processError(w) PROVE HolderOK'
  BY <1>26, <1>2 DEF processError, PruneSteps
<1>27. ASSUME NEW w \in Workers, failExportJob(w) PROVE HolderOK'
  BY <1>27, <1>2 DEF failExportJob, PruneSteps
<1>28. ASSUME NEW w \in Workers, auditFailed(w) PROVE HolderOK'
  BY <1>28, <1>2 DEF auditFailed, PruneSteps
<1>29. ASSUME NEW w \in Workers, triggerFailedExportFollowupReports(w) PROVE HolderOK'
  BY <1>29, <1>3 DEF triggerFailedExportFollowupReports
<1>30. ASSUME NEW w \in Workers, catchError(w) PROVE HolderOK'
  BY <1>30, <1>3 DEF catchError
<1>31. ASSUME NEW w \in Workers, stopExportWorker(w) PROVE HolderOK'
  BY <1>31, <1>1 DEF stopExportWorker, loop
<1>32. ASSUME NEW w \in Workers, Exit(w) PROVE HolderOK'
  BY <1>32, <1>3 DEF Exit
<1>33. ASSUME NEW w \in Workers, Restart(w) PROVE HolderOK'
  BY <1>33, <1>2 DEF Restart, PruneSteps
<1>34. CASE UNCHANGED vars
  BY <1>34, <1>1 DEF vars, loop
<1> QED
  BY <1>4, <1>5, <1>6, <1>7, <1>8, <1>9, <1>10, <1>11, <1>12, <1>13, <1>14, <1>15, <1>16, <1>17, <1>18, <1>19, <1>20, <1>21, <1>22, <1>23, <1>24, <1>25, <1>26, <1>27, <1>28, <1>29, <1>30, <1>31, <1>32, <1>33, <1>34
     DEF Next, Environment, Poll, Prune, processExportJob, Process

\* Every variable always has the type the code gives it.
THEOREM TypeCorrect == Spec => [](TypeOK /\ HolderOK)
<1>1. Init => HolderOK
  BY DEF Init, HolderOK, HoldSteps, ProcessSteps, SettleSteps
<1> QED BY TypeInit, <1>1, TypeStep, HolderStep, PTL DEF Spec

-----------------------------------------------------------------------------
(* Claims *)

\* Inserting rows leaves those that exist as they are.
LEMMA InsertKeeps ==
  ASSUME TypeOK, NEW n \in Nat, InsertJobs(n)
  PROVE  /\ \A j \in Jobs : j <= created => row'[j] = row[j]
         /\ \A j \in Jobs : j > created' => row'[j] = row[j]
         /\ \A j \in Jobs : row'[j] = row[j] \/ row'[j] = [NewRow EXCEPT !.status = "pending"]
         /\ created <= created'
  BY DEF InsertJobs, TypeOK, Jobs

\* The invariant depends on the rows through these facts only: no row loses
\* attempts or is claimed anew, and keys are on settled rows.
LEMMA ClaimFrame ==
  ASSUME TypeOK, ClaimInv, created <= created',
         \A j \in Jobs : j > created' => row'[j] = row[j],
         \A j \in Jobs : j <= created =>
                            row[j].attemptCount <= row'[j].attemptCount,
         \A j \in Jobs : row'[j].objectKey =>
                            row'[j].status \in {"completed", "failed"},
         \A w \in Workers : \/ job'[w] = 0
                            \/ job'[w] = job[w] /\ att'[w] = att[w],
         TypeOK'
  PROVE  ClaimInv'
<1>1. CreatedOK'
  BY DEF ClaimInv, CreatedOK, TypeOK, Jobs, NewRow
<1>2. ASSUME NEW w \in Workers PROVE ClaimOK(w)'
  <2> SUFFICES ASSUME job'[w] # 0 PROVE ClaimOK(w)'
    BY DEF ClaimOK
  <2>1. job'[w] = job[w] /\ att'[w] = att[w] /\ job[w] \in Jobs
    BY DEF TypeOK
  <2>2. job[w] <= created /\ att[w] <= row[job[w]].attemptCount
    BY <2>1 DEF ClaimInv, ClaimOK
  <2>3. /\ row[job[w]].attemptCount \in Nat /\ row'[job[w]].attemptCount \in Nat
        /\ created \in Nat /\ created' \in Nat /\ att[w] \in Nat /\ job[w] \in Nat
    BY <2>1 DEF TypeOK, Row, Jobs
  <2>4. row[job[w]].attemptCount <= row'[job[w]].attemptCount
    BY <2>1, <2>2
  <2>5. job'[w] <= created'
    BY <2>1, <2>2, <2>3
  <2>6. att'[w] <= row'[job'[w]].attemptCount
    BY <2>1, <2>2, <2>3, <2>4
  <2> QED BY <2>5, <2>6 DEF ClaimOK
<1>3. ExclusiveClaim'
  BY DEF ClaimInv, ExclusiveClaim
<1>4. KeyOnlyWhenSettled'
  BY DEF KeyOnlyWhenSettled
<1> QED BY <1>1, <1>2, <1>3, <1>4 DEF ClaimInv

\* No step, an overrun, a crash or an error included, breaks the claims.
LEMMA ClaimStep == TypeOK /\ HolderOK /\ ClaimInv /\ [Next]_vars => ClaimInv'
<1> SUFFICES ASSUME TypeOK, HolderOK, ClaimInv, [Next]_vars, TypeOK'
             PROVE  ClaimInv'
  BY TypeStep
<1>1. ASSUME UNCHANGED <<created, row>>,
             \A w \in Workers : \/ job'[w] = 0
                                \/ job'[w] = job[w] /\ att'[w] = att[w]
      PROVE  ClaimInv'
  <2>1. created <= created' /\ \A j \in Jobs : row'[j] = row[j]
    BY <1>1 DEF TypeOK
  <2>2. \A j \in Jobs : row[j].attemptCount \in Nat
    BY DEF TypeOK, Row
  <2>3. \A j \in Jobs : row[j].attemptCount <= row'[j].attemptCount
    BY <2>1, <2>2
  <2>4. \A j \in Jobs : row'[j].objectKey => row'[j].status \in {"completed", "failed"}
    BY <2>1 DEF ClaimInv, KeyOnlyWhenSettled
  <2> QED BY <1>1, <2>1, <2>3, <2>4, ClaimFrame
<1>2. ASSUME NEW w \in Workers, NEW s, UNCHANGED <<created, row>>, LetGo(w, s)
      PROVE  ClaimInv'
  BY <1>1, <1>2 DEF LetGo, TypeOK
<1>3. ASSUME NEW n \in Nat, InsertJobs(n),
             \A w \in Workers : \/ job'[w] = 0
                                \/ job'[w] = job[w] /\ att'[w] = att[w]
      PROVE  ClaimInv'
  <2>1. \A j \in Jobs : j <= created => row[j].attemptCount <= row'[j].attemptCount
    BY <1>3, InsertKeeps DEF TypeOK, Row
  <2>2. \A j \in Jobs : row'[j].objectKey => row'[j].status \in {"completed", "failed"}
    <3>1. ~[NewRow EXCEPT !.status = "pending"].objectKey
      BY DEF NewRow
    <3> QED BY <1>3, <3>1, InsertKeeps DEF ClaimInv, KeyOnlyWhenSettled
  <2> QED BY <1>3, <2>1, <2>2, InsertKeeps, ClaimFrame
<1>4. ASSUME NEW j \in Jobs, NEW r \in Row, row' = [row EXCEPT ![j] = r],
             j <= created, UNCHANGED created,
             r.attemptCount = row[j].attemptCount,
             r.objectKey => r.status \in {"completed", "failed"},
             \A w \in Workers : \/ job'[w] = 0
                                \/ job'[w] = job[w] /\ att'[w] = att[w]
      PROVE  ClaimInv'
  <2>1. \A k \in Jobs : k > created' => row'[k] = row[k]
    BY <1>4 DEF TypeOK, Jobs
  <2>2. \A k \in Jobs : row[k].attemptCount <= row'[k].attemptCount
    BY <1>4 DEF TypeOK, Row
  <2>3. \A k \in Jobs : row'[k].objectKey => row'[k].status \in {"completed", "failed"}
    BY <1>4 DEF TypeOK, ClaimInv, KeyOnlyWhenSettled
  <2>4. created <= created'
    BY <1>4 DEF TypeOK
  <2> QED BY <1>4, <2>1, <2>2, <2>3, <2>4, ClaimFrame
\* A worker with a job holds one that exists.
<1>5. ASSUME NEW w \in Workers, pc[w] \in HoldSteps
      PROVE  job[w] \in Jobs /\ job[w] <= created
  BY <1>5 DEF HolderOK, ClaimInv, ClaimOK, TypeOK
\* A row that is not new exists.
<1>6. ASSUME NEW j \in Jobs, ~WithStatus(j, "none") PROVE j <= created
  BY <1>6 DEF WithStatus, ClaimInv, CreatedOK, NewRow, TypeOK, Jobs
<1>7. ASSUME createExportJob PROVE ClaimInv'
  BY <1>7, <1>3 DEF createExportJob, loop
<1>8. ASSUME NEW j \in Jobs, retryExportJob(j) PROVE ClaimInv'
  <2>1. j <= created
    BY <1>8, <1>6 DEF retryExportJob, WithStatus
  <2> DEFINE r == [row[j] EXCEPT !.status = "pending", !.objectKey = FALSE,
                                 !.rowCount = 0]
  <2>2. r \in Row
    BY RetriedType DEF TypeOK
  <2>3. row' = [row EXCEPT ![j] = r]
    BY <1>8 DEF retryExportJob, TypeOK
  <2>4. r.attemptCount = row[j].attemptCount /\ ~r.objectKey
    BY DEF TypeOK, Row
  <2> HIDE DEF r
  <2> QED BY <1>8, <1>4, <2>1, <2>2, <2>3, <2>4 DEF retryExportJob, loop
<1>9. ASSUME NEW j \in Jobs, GrowStale(j) PROVE ClaimInv'
  BY <1>9, <1>1 DEF GrowStale, loop
<1>10. ASSUME NEW w \in Workers, CleanupElapsed(w) PROVE ClaimInv'
  BY <1>10, <1>1 DEF CleanupElapsed, db
<1>11. ASSUME NEW w \in Workers, WakeUp(w) PROVE ClaimInv'
  BY <1>11, <1>1 DEF WakeUp, db
<1>12. ASSUME NEW w \in Workers, pruneListFiles(w) PROVE ClaimInv'
  BY <1>12, <1>1 DEF pruneListFiles, db
<1>13. ASSUME NEW w \in Workers, listReferencedExportObjectKeys(w) PROVE ClaimInv'
  BY <1>13, <1>1 DEF listReferencedExportObjectKeys, db
<1>14. ASSUME NEW w \in Workers, pruneRemoveFile(w) PROVE ClaimInv'
  BY <1>14, <1>1 DEF pruneRemoveFile, db
<1>15. ASSUME NEW w \in Workers, pruneDone(w) PROVE ClaimInv'
  BY <1>15, <1>1 DEF pruneDone, db
<1>16. ASSUME NEW w \in Workers, NoReportDue(w) PROVE ClaimInv'
  BY <1>16, <1>1 DEF NoReportDue, db
<1>17. ASSUME NEW w \in Workers, EndOfLoop(w) PROVE ClaimInv'
  BY <1>17, <1>1 DEF EndOfLoop, db
<1>18. ASSUME NEW w \in Workers, auditStarted(w) PROVE ClaimInv'
  BY <1>18, <1>1 DEF auditStarted, db
<1>19. ASSUME NEW w \in Workers, writeTempFile(w) PROVE ClaimInv'
  BY <1>19, <1>1 DEF writeTempFile, db
<1>20. ASSUME NEW w \in Workers, renameTempFile(w) PROVE ClaimInv'
  BY <1>20, <1>1 DEF renameTempFile, db
<1>21. ASSUME NEW w \in Workers, auditCompleted(w) PROVE ClaimInv'
  BY <1>21, <1>1 DEF auditCompleted, db
<1>22. ASSUME NEW w \in Workers, dispatchExportDelivery(w) PROVE ClaimInv'
  BY <1>22, <1>1 DEF dispatchExportDelivery, db
<1>23. ASSUME NEW w \in Workers, processError(w) PROVE ClaimInv'
  BY <1>23, <1>1 DEF processError, db
<1>24. ASSUME NEW w \in Workers, auditFailed(w) PROVE ClaimInv'
  BY <1>24, <1>1 DEF auditFailed, db
<1>25. ASSUME NEW w \in Workers, stopExportWorker(w) PROVE ClaimInv'
  BY <1>25, <1>1 DEF stopExportWorker, db
<1>26. ASSUME NEW w \in Workers, Restart(w) PROVE ClaimInv'
  BY <1>26, <1>1 DEF Restart, db
<1>27. ASSUME NEW w \in Workers, LoopError(w) PROVE ClaimInv'
  BY <1>27, <1>2 DEF LoopError, db
<1>28. ASSUME NEW w \in Workers, dispatchDone(w) PROVE ClaimInv'
  BY <1>28, <1>2 DEF dispatchDone, db
<1>29. ASSUME NEW w \in Workers, catchError(w) PROVE ClaimInv'
  BY <1>29, <1>2 DEF catchError, db
<1>30. ASSUME NEW w \in Workers, Exit(w) PROVE ClaimInv'
  BY <1>30, <1>2 DEF Exit, db
<1>31. ASSUME NEW w \in Workers, recoverStaleExportJobs(w) PROVE ClaimInv'
  <2> DEFINE r(k) == [row[k] EXCEPT !.status = "pending"]
  <2>1. ASSUME NEW k \in Jobs
        PROVE  row'[k] = row[k] \/ (row'[k] = r(k) /\ WithStatus(k, "running"))
    BY <1>31 DEF recoverStaleExportJobs
  <2>2. ASSUME NEW k \in Jobs
        PROVE  /\ row[k].attemptCount \in Nat
               /\ r(k).attemptCount = row[k].attemptCount
               /\ r(k).objectKey = row[k].objectKey
               /\ WithStatus(k, "running") => ~row[k].objectKey
    <3>1. row[k] \in Row
      BY DEF TypeOK
    <3>2. WithStatus(k, "running") => ~row[k].objectKey
      BY DEF ClaimInv, KeyOnlyWhenSettled, WithStatus
    <3> QED BY <3>1, <3>2 DEF Row
  <2> HIDE DEF r
  <2>3. ASSUME NEW k \in Jobs
        PROVE  /\ row[k].attemptCount <= row'[k].attemptCount
               /\ row'[k].objectKey => row'[k].status \in {"completed", "failed"}
    <3>1. CASE row'[k] = row[k]
      BY <2>2, <3>1 DEF ClaimInv, KeyOnlyWhenSettled
    <3>2. CASE row'[k] = r(k) /\ WithStatus(k, "running")
      BY <2>2, <3>2
    <3> QED BY <2>1, <3>1, <3>2
  <2>4. ASSUME NEW k \in Jobs, k > created PROVE row'[k] = row[k]
    <3>1. ~WithStatus(k, "running")
      <4> SUFFICES ASSUME WithStatus(k, "running") PROVE FALSE
        OBVIOUS
      <4>1. k <= created
        BY <1>6 DEF WithStatus
      <4> QED BY <4>1, <2>4, ConstantsOK DEF TypeOK, Jobs
    <3> QED BY <2>1, <3>1
  <2>5. UNCHANGED <<created, job, att>> /\ created <= created'
    BY <1>31 DEF recoverStaleExportJobs, TypeOK
  <2> QED BY <2>3, <2>4, <2>5, ClaimFrame
<1>32. ASSUME NEW w \in Workers, claimNextDueScheduledReport(w) PROVE ClaimInv'
  BY <1>32, <1>3 DEF claimNextDueScheduledReport, loop
<1>33. ASSUME NEW w \in Workers, claimNextPendingExportJob(w) PROVE ClaimInv'
  <2>1. PICK j \in Pending :
           /\ row' = [row EXCEPT ![j].status = "running",
                        ![j].attemptCount = row[j].attemptCount + 1]
           /\ job' = [job EXCEPT ![w] = j]
           /\ att' = [att EXCEPT ![w] = row[j].attemptCount + 1]
    BY <1>33 DEF claimNextPendingExportJob
  <2>2. j \in Jobs /\ WithStatus(j, "pending") /\ j <= created
    BY <2>1, PendingJobs DEF Pending, Existing, TypeOK
  <2>3. created' = created
    BY <1>33 DEF claimNextPendingExportJob
  <2>4. /\ row'[j].status = "running"
        /\ row'[j].attemptCount = row[j].attemptCount + 1
        /\ row'[j].objectKey = row[j].objectKey
        /\ \A k \in Jobs \ {j} : row'[k] = row[k]
        /\ row[j].attemptCount \in Nat
    BY <2>1, <2>2 DEF TypeOK, Row
  <2>5. ~row[j].objectKey
    BY <2>2 DEF ClaimInv, KeyOnlyWhenSettled, WithStatus
  <2>6. CreatedOK'
    BY <2>2, <2>3, <2>4 DEF ClaimInv, CreatedOK, TypeOK, Jobs
  <2>7. /\ job'[w] = j /\ att'[w] = row[j].attemptCount + 1
        /\ \A v \in Workers \ {w} : job'[v] = job[v] /\ att'[v] = att[v]
    BY <2>1 DEF TypeOK
  <2>8. ASSUME NEW v \in Workers PROVE ClaimOK(v)'
    <3>1. CASE v = w
      BY <2>2, <2>3, <2>4, <2>7, <3>1 DEF ClaimOK
    <3>2. CASE v # w /\ job[v] = j
      BY <2>2, <2>3, <2>4, <2>7, <3>2 DEF ClaimOK, ClaimInv, TypeOK
    <3>3. CASE v # w /\ job[v] # j
      BY <2>3, <2>4, <2>7, <3>3 DEF ClaimOK, ClaimInv, TypeOK
    <3> QED BY <3>1, <3>2, <3>3
  <2>9. ASSUME NEW v \in Workers, job[v] = j
        PROVE  att[v] # row[j].attemptCount + 1
    <3>1. att[v] \in Nat /\ j # 0
      BY <2>2, ConstantsOK DEF TypeOK, Jobs
    <3>2. att[v] <= row[j].attemptCount
      BY <2>9, <3>1 DEF ClaimInv, ClaimOK
    <3> QED BY <3>1, <3>2, <2>4
  <2>10. ExclusiveClaim'
    BY <2>7, <2>9 DEF ExclusiveClaim, ClaimInv
  <2>11. KeyOnlyWhenSettled'
    BY <2>4, <2>5 DEF KeyOnlyWhenSettled, ClaimInv
  <2> QED BY <2>6, <2>8, <2>10, <2>11 DEF ClaimInv
<1>34. ASSUME NEW w \in Workers, completeExportJob(w) PROVE ClaimInv'
  <2>1. job[w] \in Jobs /\ job[w] <= created
    BY <1>34, <1>5 DEF completeExportJob, HoldSteps, ProcessSteps
  <2> DEFINE r == [row[job[w]] EXCEPT !.status = "completed",
                                      !.objectKey = TRUE, !.rowCount = att[w]]
  <2>2. r \in Row
    BY <2>1, CompletedType DEF TypeOK
  <2>3. row' = [row EXCEPT ![job[w]] = r]
    BY <1>34, <2>1 DEF completeExportJob, TypeOK
  <2>4. r.attemptCount = row[job[w]].attemptCount /\ r.status = "completed"
    BY <2>1 DEF TypeOK, Row
  <2> HIDE DEF r
  <2> QED BY <1>34, <1>4, <2>1, <2>2, <2>3, <2>4 DEF completeExportJob
<1>35. ASSUME NEW w \in Workers, failExportJob(w) PROVE ClaimInv'
  <2>1. job[w] \in Jobs /\ job[w] <= created
    BY <1>35, <1>5 DEF failExportJob, HoldSteps, SettleSteps
  <2> DEFINE r == [row[job[w]] EXCEPT !.status = "failed"]
  <2>2. r \in Row
    BY <2>1, WithStatusType DEF TypeOK, Statuses
  <2>3. row' = [row EXCEPT ![job[w]] = r]
    BY <1>35, <2>1 DEF failExportJob, TypeOK
  <2>4. r.attemptCount = row[job[w]].attemptCount /\ r.status = "failed"
    BY <2>1 DEF TypeOK, Row
  <2> HIDE DEF r
  <2> QED BY <1>35, <1>4, <2>1, <2>2, <2>3, <2>4 DEF failExportJob
<1>36. ASSUME NEW w \in Workers, triggerFailedExportFollowupReports(w) PROVE ClaimInv'
  <2>1. PICK n \in 0 .. (NJobs - created) : InsertJobs(n)
    BY <1>36 DEF triggerFailedExportFollowupReports
  <2>2. n \in Nat
    BY ConstantsOK DEF TypeOK
  <2> QED BY <1>36, <1>3, <2>1, <2>2 DEF triggerFailedExportFollowupReports, LetGo, TypeOK
<1>37. CASE UNCHANGED vars
  BY <1>37, <1>1 DEF vars, db, loop
<1> QED
  BY <1>7, <1>8, <1>9, <1>10, <1>11, <1>12, <1>13, <1>14, <1>15, <1>16,
     <1>17, <1>18, <1>19, <1>20, <1>21, <1>22, <1>23, <1>24, <1>25, <1>26,
     <1>27, <1>28, <1>29, <1>30, <1>31, <1>32, <1>33, <1>34, <1>35, <1>36,
     <1>37
     DEF Next, Environment, Poll, Prune, processExportJob, Process

\* Claims are exclusive, and keys are on settled rows only, whatever happens.
THEOREM ClaimsAreExclusive == Spec => []ClaimInv
<1>1. Init => ClaimInv
  BY DEF Init, ClaimInv, CreatedOK, ClaimOK, ExclusiveClaim,
         KeyOnlyWhenSettled, NewRow
<1> QED BY <1>1, TypeCorrect, ClaimStep, PTL DEF Spec

\* No two workers hold the same claim of a job.
THEOREM ExclusiveClaimHolds == Spec => []ExclusiveClaim
  BY ClaimsAreExclusive, PTL DEF ClaimInv

\* A row refers to a file only once its job is completed or failed, never while
\* the job waits or runs.
THEOREM KeyOnlyWhenSettledHolds == Spec => []KeyOnlyWhenSettled
  BY ClaimsAreExclusive, PTL DEF ClaimInv

-----------------------------------------------------------------------------
(* Workers that keep within the stale interval *)

\* The states the step lemma starts from.
Prompt == /\ TypeOK /\ HolderOK /\ ClaimInv
          /\ \A w \in Workers : PromptWorker(w)
          /\ \A j \in Jobs : PromptJob(j)

\* Two workers do not own the same job.
LEMMA OneOwner ==
  ASSUME Prompt, NEW v \in Workers, NEW w \in Workers, v # w,
         pc[v] \in OwnSteps, pc[w] \in OwnSteps
  PROVE  job[v] # job[w]
<1>1. job[v] # 0 /\ job[w] # 0
  BY DEF Prompt, HolderOK, OwnSteps, HoldSteps, SettleSteps
<1>2. att[v] = row[job[v]].attemptCount /\ att[w] = row[job[w]].attemptCount
  BY DEF Prompt, PromptWorker
<1> QED BY <1>1, <1>2 DEF Prompt, ClaimInv, ExclusiveClaim

\* The job a worker owns is running or completed.
LEMMA OwnedStatus ==
  ASSUME Prompt, NEW w \in Workers, pc[w] \in OwnSteps
  PROVE  /\ job[w] \in Jobs
         /\ WithStatus(job[w], "running") \/ WithStatus(job[w], "completed")
<1>1. job[w] \in Jobs
  BY DEF Prompt, TypeOK, HolderOK, OwnSteps, HoldSteps, SettleSteps
<1> QED BY <1>1 DEF Prompt, PromptWorker, OwnSteps

\* A worker stays as it should be while nothing it depends on changes.
LEMMA WorkerFrame ==
  ASSUME NEW v \in Workers, PromptWorker(v),
         pc'[v] \in OwnSteps =>
            /\ pc'[v] = pc[v] /\ job'[v] = job[v] /\ att'[v] = att[v]
            /\ todo'[v] = todo[v]
            /\ row'[job[v]] = row[job[v]]
            /\ files'[job[v]] \in {0, files[job[v]]}
            /\ delivered'[job[v]] = delivered[job[v]]
  PROVE  PromptWorker(v)'
  BY DEF PromptWorker, OwnSteps, ProcessSteps, WithStatus

\* So does a job.
LEMMA JobFrame ==
  ASSUME NEW j \in Jobs, PromptJob(j), row'[j] = row[j],
         files'[j] \in {0, files[j]}, delivered'[j] = delivered[j],
         j \in stale' => j \in stale,
         \A v \in Workers :
            /\ pc'[v] \in ProcessSteps \cup {"fail"}
            /\ job'[v] = j
            => \/ pc[v] \in ProcessSteps \cup {"fail"} /\ job[v] = j /\ att'[v] = att[v]
               \/ ~WithStatus(j, "running")
  PROVE  PromptJob(j)'
  BY DEF PromptJob, WithStatus, Held

\* The count of overruns never goes down.
LEMMA OverrunsGrow ==
  ASSUME TypeOK, [Next]_vars, overruns' = 0
  PROVE  overruns = 0
<1>1. CASE Environment
  <2>1. ASSUME NEW j \in Jobs, GrowStale(j) PROVE overruns = 0
    <3>1. overruns \in Nat
      BY ConstantsOK DEF TypeOK
    <3>2. overruns' = overruns \/ overruns' = overruns + 1
      BY <2>1 DEF GrowStale
    <3> QED BY <3>1, <3>2
  <2> QED BY <1>1, <2>1
          DEF Environment, createExportJob, retryExportJob, CleanupElapsed
<1>2. CASE \E w \in Workers : Poll(w)
  BY <1>2 DEF Poll, WakeUp, Prune, pruneListFiles,
         listReferencedExportObjectKeys, pruneRemoveFile, pruneDone,
         recoverStaleExportJobs, claimNextDueScheduledReport, NoReportDue,
         claimNextPendingExportJob, EndOfLoop
<1>3. CASE \E w \in Workers : processExportJob(w)
  BY <1>3 DEF processExportJob, auditStarted, writeTempFile, renameTempFile,
         completeExportJob, auditCompleted, dispatchExportDelivery,
         dispatchDone, processError, failExportJob, auditFailed,
         triggerFailedExportFollowupReports
<1>4. CASE \E w \in Workers : Process(w)
  BY <1>4 DEF Process, LoopError, catchError, stopExportWorker, Exit, Restart
<1>5. CASE UNCHANGED vars
  BY <1>5 DEF vars
<1> QED BY <1>1, <1>2, <1>3, <1>4, <1>5 DEF Next

\* Inserted rows take the place of untouched ones.
LEMMA InsertFresh ==
  ASSUME NEW n \in Nat, created \in Nat, CreatedOK, InsertJobs(n)
  PROVE  \A j \in Jobs : \/ row'[j] = row[j]
                         \/ row[j] = NewRow /\ row'[j].status = "pending"
  BY DEF InsertJobs, CreatedOK, Jobs, NewRow

\* Both, in the form of the step lemma's conclusion.
AllPrompt == /\ \A w \in Workers : PromptWorker(w)
             /\ \A j \in Jobs : PromptJob(j)

\* A step by which owners keep what they hold, rows are only inserted, files
\* only removed and no claim grows stale.
LEMMA QuietStep ==
  ASSUME Prompt,
         \A v \in Workers : pc'[v] \in OwnSteps =>
            /\ pc'[v] = pc[v] /\ job'[v] = job[v] /\ att'[v] = att[v]
            /\ todo'[v] = todo[v],
         \A j \in Jobs : \/ row'[j] = row[j]
                         \/ /\ row[j] = NewRow
                            /\ row'[j].status = "pending",
         \A j \in Jobs : files'[j] \in {0, files[j]},
         delivered' = delivered,
         stale' \subseteq stale
  PROVE  AllPrompt'
<1>1. ASSUME NEW w \in Workers PROVE PromptWorker(w)'
  <2>1. CASE pc'[w] \notin OwnSteps
    BY <2>1, <1>1, WorkerFrame DEF Prompt
  <2>2. CASE pc'[w] \in OwnSteps
    <3>1. pc[w] \in OwnSteps
      BY <2>2
    <3>2. /\ job[w] \in Jobs
          /\ row[job[w]].status \in {"running", "completed"}
      BY <3>1, OwnedStatus DEF WithStatus
    <3>3. row[job[w]] # NewRow
      BY <3>2 DEF NewRow
    <3>4. row'[job[w]] = row[job[w]] /\ files'[job[w]] \in {0, files[job[w]]}
      BY <3>2, <3>3
    <3> QED BY <2>2, <3>4, WorkerFrame DEF Prompt
  <2> QED BY <2>1, <2>2
<1>2. ASSUME NEW j \in Jobs PROVE PromptJob(j)'
  <2>1. CASE row'[j] = row[j]
    <3>1. \A v \in Workers :
            pc'[v] \in ProcessSteps \cup {"fail"} /\ job'[v] = j =>
               pc[v] \in ProcessSteps \cup {"fail"} /\ job[v] = j /\ att'[v] = att[v]
      BY DEF OwnSteps
    <3> QED BY <2>1, <3>1, JobFrame DEF Prompt
  <2>2. CASE row[j] = NewRow /\ row'[j].status = "pending"
    <3>1. ~WithStatus(j, "completed")
      BY <2>2 DEF WithStatus, NewRow
    <3> QED BY <2>2, <3>1 DEF Prompt, PromptJob, WithStatus
  <2> QED BY <2>1, <2>2
<1> QED BY <1>1, <1>2 DEF AllPrompt

\* A step of an owner that touches its own job alone.
LEMMA OwnerStep ==
  ASSUME Prompt, NEW w \in Workers, pc[w] \in OwnSteps,
         job' = job, att' = att, stale' = stale,
         \A v \in Workers \ {w} : pc'[v] = pc[v] /\ todo'[v] = todo[v],
         \A j \in Jobs \ {job[w]} : /\ row'[j] = row[j]
                                    /\ files'[j] = files[j]
                                    /\ delivered'[j] = delivered[j],
         PromptWorker(w)', PromptJob(job[w])'
  PROVE  AllPrompt'
<1>1. ASSUME NEW v \in Workers PROVE PromptWorker(v)'
  <2>1. CASE v # w /\ pc[v] \in OwnSteps
    <3>1. job[v] \in Jobs /\ job[v] # job[w]
      BY <2>1, OneOwner, OwnedStatus
    <3> QED BY <2>1, <3>1, WorkerFrame DEF Prompt
  <2>2. CASE v # w /\ pc[v] \notin OwnSteps
    BY <2>2, WorkerFrame DEF Prompt
  <2> QED BY <2>1, <2>2
<1>2. ASSUME NEW j \in Jobs PROVE PromptJob(j)'
  <2>1. CASE j # job[w]
    <3>1. \A v \in Workers : job'[v] = j => pc'[v] = pc[v]
      BY <2>1
    <3> QED BY <2>1, <3>1, JobFrame DEF Prompt
  <2> QED BY <2>1
<1> QED BY <1>1, <1>2 DEF AllPrompt

\* Every step keeps the invariant of prompt workers.
LEMMA PromptStep ==
  TypeOK /\ HolderOK /\ ClaimInv /\ PromptInv /\ [Next]_vars => PromptInv'
<1> SUFFICES ASSUME TypeOK, HolderOK, ClaimInv, PromptInv, [Next]_vars,
                    overruns' = 0
             PROVE  AllPrompt'
  BY DEF PromptInv, AllPrompt
<1>1. overruns = 0
  BY OverrunsGrow
<1>2. Prompt
  BY <1>1 DEF PromptInv, Prompt
<1>3. ASSUME createExportJob PROVE AllPrompt'
  <2>1. InsertJobs(1)
    BY <1>3 DEF createExportJob
  <2>2. \A j \in Jobs : \/ row'[j] = row[j]
                        \/ row[j] = NewRow /\ row'[j].status = "pending"
    BY <2>1, InsertFresh, <1>2, ConstantsOK DEF Prompt, ClaimInv, TypeOK
  <2> QED BY <1>3, <2>2, <1>2, QuietStep DEF createExportJob, loop, disk
<1>4. ASSUME NEW w \in Workers, claimNextDueScheduledReport(w) PROVE AllPrompt'
  <2>1. InsertJobs(1)
    BY <1>4 DEF claimNextDueScheduledReport
  <2>2. \A j \in Jobs : \/ row'[j] = row[j]
                        \/ row[j] = NewRow /\ row'[j].status = "pending"
    BY <2>1, InsertFresh, <1>2, ConstantsOK DEF Prompt, ClaimInv, TypeOK
  <2> QED BY <1>4, <2>2, <1>2, QuietStep
          DEF claimNextDueScheduledReport, loop, disk
<1>5. ASSUME NEW w \in Workers, triggerFailedExportFollowupReports(w) PROVE AllPrompt'
  <2>1. PICK m \in 0 .. (NJobs - created) : InsertJobs(m)
    BY <1>5 DEF triggerFailedExportFollowupReports
  <2>2. m \in Nat
    BY ConstantsOK DEF TypeOK
  <2>3. \A j \in Jobs : \/ row'[j] = row[j]
                        \/ row[j] = NewRow /\ row'[j].status = "pending"
    BY <2>1, <2>2, InsertFresh, <1>2, ConstantsOK DEF Prompt, ClaimInv, TypeOK
  <2> QED BY <1>5, <2>3, <1>2, QuietStep
          DEF triggerFailedExportFollowupReports, LetGo, Goto, loop, disk,
              TypeOK, OwnSteps, ProcessSteps
<1>6. ASSUME NEW w \in Workers, CleanupElapsed(w) PROVE AllPrompt'
  BY <1>6, <1>2, QuietStep
     DEF CleanupElapsed, loop, disk, db, Goto, LetGo, TypeOK, OwnSteps, ProcessSteps, PollSteps, PruneSteps
<1>7. ASSUME NEW w \in Workers, WakeUp(w) PROVE AllPrompt'
  BY <1>7, <1>2, QuietStep
     DEF WakeUp, loop, disk, db, Goto, LetGo, TypeOK, OwnSteps, ProcessSteps, PollSteps, PruneSteps
<1>8. ASSUME NEW w \in Workers, pruneListFiles(w) PROVE AllPrompt'
  BY <1>8, <1>2, QuietStep
     DEF pruneListFiles, loop, disk, db, Goto, LetGo, TypeOK, OwnSteps, ProcessSteps, PollSteps, PruneSteps
<1>9. ASSUME NEW w \in Workers, listReferencedExportObjectKeys(w) PROVE AllPrompt'
  BY <1>9, <1>2, QuietStep
     DEF listReferencedExportObjectKeys, loop, disk, db, Goto, LetGo, TypeOK, OwnSteps, ProcessSteps, PollSteps, PruneSteps
<1>10. ASSUME NEW w \in Workers, pruneRemoveFile(w) PROVE AllPrompt'
  BY <1>10, <1>2, QuietStep
     DEF pruneRemoveFile, loop, disk, db, Goto, LetGo, TypeOK, OwnSteps, ProcessSteps, PollSteps, PruneSteps
<1>11. ASSUME NEW w \in Workers, pruneDone(w) PROVE AllPrompt'
  BY <1>11, <1>2, QuietStep
     DEF pruneDone, loop, disk, db, Goto, LetGo, TypeOK, OwnSteps, ProcessSteps, PollSteps, PruneSteps
<1>12. ASSUME NEW w \in Workers, NoReportDue(w) PROVE AllPrompt'
  BY <1>12, <1>2, QuietStep
     DEF NoReportDue, loop, disk, db, Goto, LetGo, TypeOK, OwnSteps, ProcessSteps, PollSteps, PruneSteps
<1>13. ASSUME NEW w \in Workers, EndOfLoop(w) PROVE AllPrompt'
  BY <1>13, <1>2, QuietStep
     DEF EndOfLoop, loop, disk, db, Goto, LetGo, TypeOK, OwnSteps, ProcessSteps, PollSteps, PruneSteps
<1>14. ASSUME NEW w \in Workers, LoopError(w) PROVE AllPrompt'
  BY <1>14, <1>2, QuietStep
     DEF LoopError, Fault, loop, disk, db, Goto, LetGo, TypeOK, OwnSteps, ProcessSteps, PollSteps, PruneSteps
<1>15. ASSUME NEW w \in Workers, dispatchDone(w) PROVE AllPrompt'
  BY <1>15, <1>2, QuietStep
     DEF dispatchDone, Fault, loop, disk, db, Goto, LetGo, TypeOK, OwnSteps, ProcessSteps, PollSteps, PruneSteps
<1>16. ASSUME NEW w \in Workers, auditFailed(w) PROVE AllPrompt'
  BY <1>16, <1>2, QuietStep
     DEF auditFailed, loop, disk, db, Goto, LetGo, TypeOK, OwnSteps, ProcessSteps, PollSteps, PruneSteps
<1>17. ASSUME NEW w \in Workers, catchError(w) PROVE AllPrompt'
  BY <1>17, <1>2, QuietStep
     DEF catchError, Fault, loop, disk, db, Goto, LetGo, TypeOK, OwnSteps, ProcessSteps, PollSteps, PruneSteps
<1>18. ASSUME NEW w \in Workers, stopExportWorker(w) PROVE AllPrompt'
  BY <1>18, <1>2, QuietStep
     DEF stopExportWorker, Fault, loop, disk, db, Goto, LetGo, TypeOK, OwnSteps, ProcessSteps, PollSteps, PruneSteps
<1>19. ASSUME NEW w \in Workers, Exit(w) PROVE AllPrompt'
  BY <1>19, <1>2, QuietStep
     DEF Exit, Fault, loop, disk, db, Goto, LetGo, TypeOK, OwnSteps, ProcessSteps, PollSteps, PruneSteps
<1>20. ASSUME NEW w \in Workers, Restart(w) PROVE AllPrompt'
  BY <1>20, <1>2, QuietStep
     DEF Restart, loop, disk, db, Goto, LetGo, TypeOK, OwnSteps, ProcessSteps, PollSteps, PruneSteps
<1>21. ASSUME NEW j \in Jobs, retryExportJob(j) PROVE AllPrompt'
  <2>1. /\ row[j].status = "failed" /\ row'[j].status = "pending"
        /\ \A k \in Jobs \ {j} : row'[k] = row[k]
        /\ stale' \subseteq stale
        /\ UNCHANGED <<files, delivered, pc, job, att, todo>>
    BY <1>21 DEF retryExportJob, WithStatus, TypeOK, Row, disk, loop
  <2> HIDE DEF Prompt
  <2>2. ASSUME NEW w \in Workers PROVE PromptWorker(w)'
    <3>1. CASE pc[w] \in OwnSteps
      <4>1. job[w] \in Jobs \ {j}
        BY <3>1, <2>1, <1>2, OwnedStatus DEF WithStatus
      <4> QED BY <4>1, <2>1, <1>2, WorkerFrame DEF Prompt
    <3> QED BY <3>1, <2>1, <1>2, WorkerFrame DEF Prompt
  <2>3. ASSUME NEW k \in Jobs PROVE PromptJob(k)'
    <3>1. CASE k = j
      BY <3>1, <2>1, <1>2 DEF Prompt, PromptJob, WithStatus
    <3>2. CASE k # j
      BY <3>2, <2>1, <1>2, JobFrame DEF Prompt
    <3> QED BY <3>1, <3>2
  <2> QED BY <2>2, <2>3 DEF AllPrompt
<1>22. ASSUME NEW j \in Jobs, GrowStale(j) PROVE AllPrompt'
  <2>1. /\ ~Held(j)
        /\ stale' = stale \cup {j}
        /\ UNCHANGED <<row, files, delivered, pc, job, att, todo>>
    BY <1>22, <1>1 DEF GrowStale, disk, loop
  <2>2. ASSUME NEW w \in Workers PROVE PromptWorker(w)'
    BY <2>1, <1>2, WorkerFrame DEF Prompt
  <2>3. ASSUME NEW k \in Jobs PROVE PromptJob(k)'
    <3>1. CASE k = j
      BY <3>1, <2>1, <1>2 DEF Prompt, PromptJob, WithStatus, Held
    <3>2. CASE k # j
      BY <3>2, <2>1, <1>2, JobFrame DEF Prompt
    <3> QED BY <3>1, <3>2
  <2> QED BY <2>2, <2>3 DEF AllPrompt
<1>23. ASSUME NEW w \in Workers, recoverStaleExportJobs(w) PROVE AllPrompt'
  <2> DEFINE late == {j \in stale : WithStatus(j, "running")}
  <2>1. /\ \A j \in Jobs \ late : row'[j] = row[j]
        /\ \A j \in Jobs \cap late : row'[j].status = "pending"
        /\ stale' \subseteq stale
        /\ UNCHANGED <<files, delivered, job, att, todo>>
        /\ \A v \in Workers : pc'[v] \in OwnSteps => pc'[v] = pc[v]
    BY <1>23 DEF recoverStaleExportJobs, Goto, TypeOK, Row, disk, OwnSteps,
                ProcessSteps
  <2>2. ASSUME NEW v \in Workers PROVE PromptWorker(v)'
    <3>1. CASE pc'[v] \in OwnSteps
      <4>1. pc[v] \in OwnSteps /\ job[v] \in Jobs
        BY <3>1, <2>1, <1>2, OwnedStatus
      <4>2. job[v] \notin late
        <5> SUFFICES ASSUME job[v] \in late PROVE FALSE
          OBVIOUS
        <5>1. PromptWorker(v) /\ PromptJob(job[v])
          BY <4>1, <1>2 DEF Prompt
        <5>2. ~Held(job[v])
          BY <5>1 DEF PromptJob
        <5>3. pc[v] \in ProcessSteps \cup {"fail"}
          BY <5>1, <4>1 DEF PromptWorker, WithStatus, OwnSteps
        <5>4. att[v] = row[job[v]].attemptCount
          BY <5>1, <4>1 DEF PromptWorker
        <5> QED BY <5>2, <5>3, <5>4 DEF Held
      <4> QED BY <3>1, <4>1, <4>2, <2>1, <1>2, WorkerFrame DEF Prompt
    <3> QED BY <3>1, <2>1, <1>2, WorkerFrame DEF Prompt
  <2>3. ASSUME NEW k \in Jobs PROVE PromptJob(k)'
    <3>1. CASE k \in late
      BY <3>1, <2>1, <1>2 DEF Prompt, PromptJob, WithStatus
    <3>2. CASE k \notin late
      <4>1. \A v \in Workers : pc'[v] \in ProcessSteps \cup {"fail"} =>
                                  pc'[v] = pc[v]
        BY <2>1 DEF OwnSteps
      <4> QED BY <3>2, <4>1, <2>1, <1>2, JobFrame DEF Prompt
    <3> QED BY <3>1, <3>2
  <2> QED BY <2>2, <2>3 DEF AllPrompt
<1>24. ASSUME NEW w \in Workers, claimNextPendingExportJob(w) PROVE AllPrompt'
  <2>1. PICK j \in Pending :
           /\ row' = [row EXCEPT ![j].status = "running",
                        ![j].attemptCount = row[j].attemptCount + 1]
           /\ stale' = stale \ {j}
           /\ job' = [job EXCEPT ![w] = j]
           /\ att' = [att EXCEPT ![w] = row[j].attemptCount + 1]
    BY <1>24 DEF claimNextPendingExportJob
  <2>2. j \in Jobs /\ row[j].status = "pending"
    BY <2>1, PendingJobs DEF WithStatus, Pending, TypeOK
  <2>3. /\ row'[j].status = "running"
        /\ row'[j].attemptCount = row[j].attemptCount + 1
        /\ \A k \in Jobs \ {j} : row'[k] = row[k]
    BY <2>1, <2>2 DEF TypeOK, Row
  <2>4. /\ pc'[w] = "start" /\ job'[w] = j /\ att'[w] = row[j].attemptCount + 1
        /\ \A v \in Workers \ {w} : /\ pc'[v] = pc[v]
                                    /\ job'[v] = job[v] /\ att'[v] = att[v]
        /\ UNCHANGED <<files, delivered, todo>>
    BY <1>24, <2>1 DEF claimNextPendingExportJob, Goto, TypeOK, disk
  <2>5. ASSUME NEW v \in Workers PROVE PromptWorker(v)'
    <3>1. CASE v = w
      BY <3>1, <2>3, <2>4 DEF PromptWorker, WithStatus, OwnSteps, ProcessSteps
    <3>2. CASE v # w /\ pc[v] \in OwnSteps
      <4>1. job[v] \in Jobs \ {j}
        BY <3>2, <2>2, <1>2, OwnedStatus DEF WithStatus
      <4> QED BY <3>2, <4>1, <2>3, <2>4, <1>2, WorkerFrame DEF Prompt
    <3>3. CASE v # w /\ pc[v] \notin OwnSteps
      BY <3>3, <2>4, <1>2, WorkerFrame DEF Prompt
    <3> QED BY <3>1, <3>2, <3>3
  <2>6. ASSUME NEW k \in Jobs PROVE PromptJob(k)'
    <3>1. CASE k = j
      BY <3>1, <2>1, <2>2, <2>3, <2>4, <1>2 DEF Prompt, PromptJob, WithStatus
    <3>2. CASE k # j
      <4>1. \A v \in Workers : job'[v] = k => v # w
        BY <3>2, <2>4
      <4> QED BY <3>2, <4>1, <2>1, <2>3, <2>4, <1>2, JobFrame DEF Prompt
    <3> QED BY <3>1, <3>2
  <2> QED BY <2>5, <2>6 DEF AllPrompt
<1>25. ASSUME NEW w \in Workers, auditStarted(w) PROVE AllPrompt'
  <2>1. pc[w] \in OwnSteps
    BY <1>25 DEF auditStarted, OwnSteps, ProcessSteps
  <2>2. /\ PromptWorker(w) /\ PromptJob(job[w]) /\ job[w] \in Jobs
        /\ row[job[w]] \in Row /\ att[w] \in Nat
        /\ delivered[job[w]] \in [Targets -> Nat] /\ todo[w] \subseteq Targets
    BY <2>1, <1>2, OwnedStatus DEF Prompt, TypeOK
  <2>3. /\ \A v \in Workers \ {w} : pc'[v] = pc[v]
        /\ pc[w] = "start" /\ pc'[w] = "write"
        /\ UNCHANGED <<row, files, delivered, stale, job, att>>
    BY <1>25, <2>2 DEF auditStarted, Goto, TypeOK, Row, db, disk
  <2>4. PromptWorker(w)'
    BY <2>2, <2>3 DEF PromptWorker, WithStatus, OwnSteps, ProcessSteps
  <2>5. PromptJob(job[w])'
    <3>1. \A v \in Workers : v # w /\ pc[v] \in OwnSteps => job[v] # job[w]
      BY <2>1, <1>2, OneOwner
    <3> QED BY <3>1, <2>2, <2>3 DEF PromptJob, PromptWorker, WithStatus, Held, OwnSteps, ProcessSteps
  <2>6. /\ job' = job /\ att' = att /\ stale' = stale
        /\ \A v \in Workers \ {w} : pc'[v] = pc[v] /\ todo'[v] = todo[v]
        /\ \A j \in Jobs \ {job[w]} : /\ row'[j] = row[j]
                                       /\ files'[j] = files[j]
                                       /\ delivered'[j] = delivered[j]
    BY <1>25, <2>2 DEF auditStarted, Goto, TypeOK, Row, db, disk, loop
  <2> QED BY <2>1, <2>4, <2>5, <2>6, <1>2, OwnerStep
<1>26. ASSUME NEW w \in Workers, writeTempFile(w) PROVE AllPrompt'
  <2>1. pc[w] \in OwnSteps
    BY <1>26 DEF writeTempFile, OwnSteps, ProcessSteps
  <2>2. /\ PromptWorker(w) /\ PromptJob(job[w]) /\ job[w] \in Jobs
        /\ row[job[w]] \in Row /\ att[w] \in Nat
        /\ delivered[job[w]] \in [Targets -> Nat] /\ todo[w] \subseteq Targets
    BY <2>1, <1>2, OwnedStatus DEF Prompt, TypeOK
  <2>3. /\ \A v \in Workers \ {w} : pc'[v] = pc[v]
        /\ pc[w] = "write" /\ pc'[w] = "rename"
        /\ UNCHANGED <<row, files, delivered, stale, job, att>>
    BY <1>26, <2>2 DEF writeTempFile, Goto, TypeOK, Row, db, disk
  <2>4. PromptWorker(w)'
    BY <2>2, <2>3 DEF PromptWorker, WithStatus, OwnSteps, ProcessSteps
  <2>5. PromptJob(job[w])'
    <3>1. \A v \in Workers : v # w /\ pc[v] \in OwnSteps => job[v] # job[w]
      BY <2>1, <1>2, OneOwner
    <3> QED BY <3>1, <2>2, <2>3 DEF PromptJob, PromptWorker, WithStatus, Held, OwnSteps, ProcessSteps
  <2>6. /\ job' = job /\ att' = att /\ stale' = stale
        /\ \A v \in Workers \ {w} : pc'[v] = pc[v] /\ todo'[v] = todo[v]
        /\ \A j \in Jobs \ {job[w]} : /\ row'[j] = row[j]
                                       /\ files'[j] = files[j]
                                       /\ delivered'[j] = delivered[j]
    BY <1>26, <2>2 DEF writeTempFile, Goto, TypeOK, Row, db, disk, loop
  <2> QED BY <2>1, <2>4, <2>5, <2>6, <1>2, OwnerStep
<1>27. ASSUME NEW w \in Workers, renameTempFile(w) PROVE AllPrompt'
  <2>1. pc[w] \in OwnSteps
    BY <1>27 DEF renameTempFile, OwnSteps, ProcessSteps
  <2>2. /\ PromptWorker(w) /\ PromptJob(job[w]) /\ job[w] \in Jobs
        /\ row[job[w]] \in Row /\ att[w] \in Nat
        /\ delivered[job[w]] \in [Targets -> Nat] /\ todo[w] \subseteq Targets
    BY <2>1, <1>2, OwnedStatus DEF Prompt, TypeOK
  <2>3. /\ \A v \in Workers \ {w} : pc'[v] = pc[v]
        /\ pc[w] = "rename" /\ pc'[w] = "complete"
        /\ files'[job[w]] = att[w]
        /\ UNCHANGED <<row, delivered, stale, job, att>>
    BY <1>27, <2>2 DEF renameTempFile, Goto, TypeOK, Row, db
  <2>4. PromptWorker(w)'
    BY <2>2, <2>3 DEF PromptWorker, WithStatus, OwnSteps, ProcessSteps
  <2>5. PromptJob(job[w])'
    <3>1. \A v \in Workers : v # w /\ pc[v] \in OwnSteps => job[v] # job[w]
      BY <2>1, <1>2, OneOwner
    <3> QED BY <3>1, <2>2, <2>3 DEF PromptJob, PromptWorker, WithStatus, Held, OwnSteps, ProcessSteps
  <2>6. /\ job' = job /\ att' = att /\ stale' = stale
        /\ \A v \in Workers \ {w} : pc'[v] = pc[v] /\ todo'[v] = todo[v]
        /\ \A j \in Jobs \ {job[w]} : /\ row'[j] = row[j]
                                       /\ files'[j] = files[j]
                                       /\ delivered'[j] = delivered[j]
    BY <1>27, <2>2 DEF renameTempFile, Goto, TypeOK, Row, db, disk, loop
  <2> QED BY <2>1, <2>4, <2>5, <2>6, <1>2, OwnerStep
<1>28. ASSUME NEW w \in Workers, completeExportJob(w) PROVE AllPrompt'
  <2>1. pc[w] \in OwnSteps
    BY <1>28 DEF completeExportJob, OwnSteps, ProcessSteps
  <2>2. /\ PromptWorker(w) /\ PromptJob(job[w]) /\ job[w] \in Jobs
        /\ row[job[w]] \in Row /\ att[w] \in Nat
        /\ delivered[job[w]] \in [Targets -> Nat] /\ todo[w] \subseteq Targets
    BY <2>1, <1>2, OwnedStatus DEF Prompt, TypeOK
  <2>3. /\ \A v \in Workers \ {w} : pc'[v] = pc[v]
        /\ pc[w] = "complete" /\ pc'[w] = "auditDone"
        /\ row'[job[w]].status = "completed"
        /\ row'[job[w]].rowCount = att[w]
        /\ row'[job[w]].attemptCount = row[job[w]].attemptCount
        /\ UNCHANGED <<files, delivered, stale, job, att>>
    BY <1>28, <2>2 DEF completeExportJob, Goto, TypeOK, Row, disk
  <2>9. WithStatus(job[w], "running") =>
           \A t \in Targets : delivered[job[w]][t] = 0
    BY <2>2 DEF PromptJob, WithStatus
  <2>4. PromptWorker(w)'
    BY <2>2, <2>3, <2>9 DEF PromptWorker, WithStatus, OwnSteps, ProcessSteps
  <2>5. PromptJob(job[w])'
    <3>1. \A v \in Workers : v # w /\ pc[v] \in OwnSteps => job[v] # job[w]
      BY <2>1, <1>2, OneOwner
    <3> QED BY <3>1, <2>2, <2>3, <2>9 DEF PromptJob, PromptWorker, WithStatus, Held, OwnSteps, ProcessSteps
  <2>6. /\ job' = job /\ att' = att /\ stale' = stale
        /\ \A v \in Workers \ {w} : pc'[v] = pc[v] /\ todo'[v] = todo[v]
        /\ \A j \in Jobs \ {job[w]} : /\ row'[j] = row[j]
                                       /\ files'[j] = files[j]
                                       /\ delivered'[j] = delivered[j]
    BY <1>28, <2>2 DEF completeExportJob, Goto, TypeOK, Row, db, disk, loop
  <2> QED BY <2>1, <2>4, <2>5, <2>6, <1>2, OwnerStep
<1>29. ASSUME NEW w \in Workers, auditCompleted(w) PROVE AllPrompt'
  <2>1. pc[w] \in OwnSteps
    BY <1>29 DEF auditCompleted, OwnSteps, ProcessSteps
  <2>2. /\ PromptWorker(w) /\ PromptJob(job[w]) /\ job[w] \in Jobs
        /\ row[job[w]] \in Row /\ att[w] \in Nat
        /\ delivered[job[w]] \in [Targets -> Nat] /\ todo[w] \subseteq Targets
    BY <2>1, <1>2, OwnedStatus DEF Prompt, TypeOK
  <2>3. /\ \A v \in Workers \ {w} : pc'[v] = pc[v]
        /\ pc[w] = "auditDone" /\ pc'[w] = "dispatch"
        /\ todo'[w] = Targets
        /\ UNCHANGED <<row, files, delivered, stale, job, att>>
    BY <1>29, <2>2 DEF auditCompleted, Goto, TypeOK, Row, db, disk
  <2>4. PromptWorker(w)'
    BY <2>2, <2>3 DEF PromptWorker, WithStatus, OwnSteps, ProcessSteps
  <2>5. PromptJob(job[w])'
    <3>1. \A v \in Workers : v # w /\ pc[v] \in OwnSteps => job[v] # job[w]
      BY <2>1, <1>2, OneOwner
    <3> QED BY <3>1, <2>2, <2>3 DEF PromptJob, PromptWorker, WithStatus, Held, OwnSteps, ProcessSteps
  <2>6. /\ job' = job /\ att' = att /\ stale' = stale
        /\ \A v \in Workers \ {w} : pc'[v] = pc[v] /\ todo'[v] = todo[v]
        /\ \A j \in Jobs \ {job[w]} : /\ row'[j] = row[j]
                                       /\ files'[j] = files[j]
                                       /\ delivered'[j] = delivered[j]
    BY <1>29, <2>2 DEF auditCompleted, Goto, TypeOK, Row, db, disk, loop
  <2> QED BY <2>1, <2>4, <2>5, <2>6, <1>2, OwnerStep
<1>30. ASSUME NEW w \in Workers, processError(w) PROVE AllPrompt'
  <2>1. pc[w] \in OwnSteps
    BY <1>30 DEF processError, OwnSteps, ProcessSteps
  <2>2. /\ PromptWorker(w) /\ PromptJob(job[w]) /\ job[w] \in Jobs
        /\ row[job[w]] \in Row /\ att[w] \in Nat
        /\ delivered[job[w]] \in [Targets -> Nat] /\ todo[w] \subseteq Targets
    BY <2>1, <1>2, OwnedStatus DEF Prompt, TypeOK
  <2>3. /\ \A v \in Workers \ {w} : pc'[v] = pc[v]
        /\ pc[w] \in {"write", "rename", "complete", "auditDone"}
        /\ pc'[w] = "fail"
        /\ UNCHANGED <<row, files, delivered, stale, job, att>>
    BY <1>30, <2>2 DEF processError, Goto, TypeOK, Row, db
  <2>9. WithStatus(job[w], "running") =>
           \A t \in Targets : delivered[job[w]][t] = 0
    BY <2>2 DEF PromptJob, WithStatus
  <2>4. PromptWorker(w)'
    BY <2>2, <2>3, <2>9 DEF PromptWorker, WithStatus, OwnSteps, ProcessSteps
  <2>5. PromptJob(job[w])'
    <3>1. \A v \in Workers : v # w /\ pc[v] \in OwnSteps => job[v] # job[w]
      BY <2>1, <1>2, OneOwner
    <3> QED BY <3>1, <2>2, <2>3, <2>9 DEF PromptJob, PromptWorker, WithStatus, Held, OwnSteps, ProcessSteps
  <2>6. /\ job' = job /\ att' = att /\ stale' = stale
        /\ \A v \in Workers \ {w} : pc'[v] = pc[v] /\ todo'[v] = todo[v]
        /\ \A j \in Jobs \ {job[w]} : /\ row'[j] = row[j]
                                       /\ files'[j] = files[j]
                                       /\ delivered'[j] = delivered[j]
    BY <1>30, <2>2 DEF processError, Goto, TypeOK, Row, db, disk, loop
  <2> QED BY <2>1, <2>4, <2>5, <2>6, <1>2, OwnerStep
<1>31. ASSUME NEW w \in Workers, failExportJob(w) PROVE AllPrompt'
  <2>1. pc[w] \in OwnSteps
    BY <1>31 DEF failExportJob, OwnSteps, ProcessSteps
  <2>2. /\ PromptWorker(w) /\ PromptJob(job[w]) /\ job[w] \in Jobs
        /\ row[job[w]] \in Row /\ att[w] \in Nat
        /\ delivered[job[w]] \in [Targets -> Nat] /\ todo[w] \subseteq Targets
    BY <2>1, <1>2, OwnedStatus DEF Prompt, TypeOK
  <2>3. /\ \A v \in Workers \ {w} : pc'[v] = pc[v]
        /\ pc[w] = "fail" /\ pc'[w] = "auditFail"
        /\ row'[job[w]].status = "failed"
        /\ row'[job[w]].attemptCount = row[job[w]].attemptCount
        /\ UNCHANGED <<files, delivered, stale, job, att>>
    BY <1>31, <2>2 DEF failExportJob, Goto, TypeOK, Row, disk
  <2>4. PromptWorker(w)'
    BY <2>2, <2>3 DEF PromptWorker, WithStatus, OwnSteps, ProcessSteps
  <2>5. PromptJob(job[w])'
    <3>1. \A v \in Workers : v # w /\ pc[v] \in OwnSteps => job[v] # job[w]
      BY <2>1, <1>2, OneOwner
    <3> QED BY <3>1, <2>2, <2>3 DEF PromptJob, PromptWorker, WithStatus, Held, OwnSteps, ProcessSteps
  <2>6. /\ job' = job /\ att' = att /\ stale' = stale
        /\ \A v \in Workers \ {w} : pc'[v] = pc[v] /\ todo'[v] = todo[v]
        /\ \A j \in Jobs \ {job[w]} : /\ row'[j] = row[j]
                                       /\ files'[j] = files[j]
                                       /\ delivered'[j] = delivered[j]
    BY <1>31, <2>2 DEF failExportJob, Goto, TypeOK, Row, db, disk, loop
  <2> QED BY <2>1, <2>4, <2>5, <2>6, <1>2, OwnerStep
<1>32. ASSUME NEW w \in Workers, dispatchExportDelivery(w) PROVE AllPrompt'
  <2>1. pc[w] \in OwnSteps
    BY <1>32 DEF dispatchExportDelivery, OwnSteps, ProcessSteps
  <2>2. /\ PromptWorker(w) /\ PromptJob(job[w]) /\ job[w] \in Jobs
        /\ row[job[w]] \in Row /\ att[w] \in Nat
        /\ delivered[job[w]] \in [Targets -> Nat] /\ todo[w] \subseteq Targets
    BY <2>1, <1>2, OwnedStatus DEF Prompt, TypeOK
  <2>3. /\ \A v \in Workers \ {w} : pc'[v] = pc[v]
        /\ pc[w] = "dispatch" /\ pc'[w] = pc[w]
        /\ \E t \in todo[w] :
              /\ todo'[w] = todo[w] \ {t}
              /\ \A u \in Targets \ {t} : delivered'[job[w]][u] = delivered[job[w]][u]
              /\ delivered'[job[w]][t] \in {delivered[job[w]][t], delivered[job[w]][t] + 1}
        /\ UNCHANGED <<row, files, stale, job, att>>
    BY <1>32, <2>2 DEF dispatchExportDelivery, Goto, TypeOK, Row, db, disk
  <2>4. PromptWorker(w)'
    BY <2>2, <2>3 DEF PromptWorker, WithStatus, OwnSteps, ProcessSteps
  <2>5. PromptJob(job[w])'
    <3>1. \A v \in Workers : v # w /\ pc[v] \in OwnSteps => job[v] # job[w]
      BY <2>1, <1>2, OneOwner
    <3> QED BY <3>1, <2>2, <2>3 DEF PromptJob, PromptWorker, WithStatus, Held, OwnSteps, ProcessSteps
  <2>6. /\ job' = job /\ att' = att /\ stale' = stale
        /\ \A v \in Workers \ {w} : pc'[v] = pc[v] /\ todo'[v] = todo[v]
        /\ \A j \in Jobs \ {job[w]} : /\ row'[j] = row[j]
                                       /\ files'[j] = files[j]
                                       /\ delivered'[j] = delivered[j]
    BY <1>32, <2>2 DEF dispatchExportDelivery, Goto, TypeOK, Row, db, disk, loop
  <2> QED BY <2>1, <2>4, <2>5, <2>6, <1>2, OwnerStep
<1>33. ASSUME UNCHANGED vars PROVE AllPrompt'
  BY <1>33, <1>2, QuietStep DEF vars, db, disk, loop
<1> QED
  BY <1>3, <1>4, <1>5, <1>6, <1>7, <1>8, <1>9, <1>10, <1>11, <1>12, <1>13, <1>14, <1>15, <1>16, <1>17, <1>18, <1>19, <1>20, <1>21, <1>22, <1>23, <1>24, <1>25, <1>26, <1>27, <1>28, <1>29, <1>30, <1>31, <1>32, <1>33
     DEF Next, Environment, Poll, Prune, processExportJob, Process

\* Workers that keep within the stale interval never work against each other.
THEOREM WorkersArePrompt == Spec => []PromptInv
<1>1. Init => PromptInv
  BY DEF Init, PromptInv, PromptWorker, PromptJob, WithStatus, NewRow,
         OwnSteps, ProcessSteps
<1> QED BY <1>1, TypeCorrect, ClaimsAreExclusive, PromptStep, PTL DEF Spec

\* One processor per job, as long as no worker outlives the stale interval.
THEOREM SingleProcessorHolds == Spec => []SingleProcessor
<1>1. TypeOK /\ HolderOK /\ ClaimInv /\ PromptInv => SingleProcessor
  <2> SUFFICES ASSUME TypeOK, HolderOK, ClaimInv, PromptInv, overruns = 0,
                      NEW w \in Workers, pc[w] \in ProcessSteps
               PROVE  /\ WithStatus(job[w], "running")
                      /\ att[w] = row[job[w]].attemptCount
                      /\ \A v \in Workers \ {w} :
                            pc[v] \in ProcessSteps => job[v] # job[w]
    BY DEF SingleProcessor
  <2>1. Prompt
    BY DEF Prompt, PromptInv
  <2> QED BY <2>1, OneOwner DEF Prompt, PromptWorker, OwnSteps
<1> QED BY <1>1, TypeCorrect, ClaimsAreExclusive, WorkersArePrompt, PTL

\* The file of a completed job is its own attempt's.
THEOREM FileMatchesRowHolds == Spec => []FileMatchesRow
<1>1. PromptInv => FileMatchesRow
  BY DEF PromptInv, PromptJob, FileMatchesRow
<1> QED BY <1>1, WorkersArePrompt, PTL

\* No target is notified twice of a job, and only of completed ones.
THEOREM DeliveredOnceHolds == Spec => []DeliveredOnce
<1>1. PromptInv => DeliveredOnce
  BY DEF PromptInv, PromptJob, DeliveredOnce
<1> QED BY <1>1, WorkersArePrompt, PTL

-----------------------------------------------------------------------------
(* One worker and its own clean-up *)

OneWorker == \A v, w \in Workers : v = w

\* A completed job has its file and names it; what the clean-up has read of
\* the table has every completed job, and what it is to remove has none.
KeptWorker(w) ==
    /\ pc[w] = "complete" => files[job[w]] # 0
    /\ pc[w] = "referenced" => \A j \in Jobs : WithStatus(j, "completed") => j \in snap[w]
    /\ pc[w] = "remove" => \A j \in snap[w] : ~WithStatus(j, "completed")

KeptJob(j) == WithStatus(j, "completed") => files[j] # 0 /\ row[j].objectKey

KeptInv == (\A w \in Workers : KeptWorker(w)) /\ (\A j \in Jobs : KeptJob(j))

\* A claim has a number; a file written for it is there.
Counted == \A w \in Workers : job[w] # 0 => att[w] # 0

LEMMA CountedStep == TypeOK /\ Counted /\ [Next]_vars => Counted'
<1> SUFFICES ASSUME TypeOK, Counted, [Next]_vars PROVE Counted'
  OBVIOUS
<1>1. CASE UNCHANGED <<job, att>>
  BY <1>1 DEF Counted
<1>2. ASSUME NEW w \in Workers, NEW step, LetGo(w, step) PROVE Counted'
  BY <1>2 DEF LetGo, Counted, TypeOK
<1>3. ASSUME NEW w \in Workers, claimNextPendingExportJob(w) PROVE Counted'
  <2>1. PICK j \in Pending : /\ job' = [job EXCEPT ![w] = j]
                             /\ att' = [att EXCEPT ![w] = row[j].attemptCount + 1]
    BY <1>3 DEF claimNextPendingExportJob
  <2>2. row[j].attemptCount + 1 # 0
    BY PendingJobs DEF TypeOK, Row
  <2> QED BY <2>1, <2>2 DEF Counted, TypeOK
<1>4. ASSUME Environment PROVE UNCHANGED <<job, att>>
  BY <1>4 DEF Environment, createExportJob, retryExportJob, GrowStale, CleanupElapsed, loop
<1>5. ASSUME NEW w \in Workers, Poll(w), ~claimNextPendingExportJob(w)
      PROVE  UNCHANGED <<job, att>>
  BY <1>5 DEF Poll, Prune, WakeUp, pruneListFiles, listReferencedExportObjectKeys,
              pruneRemoveFile, pruneDone, recoverStaleExportJobs,
              claimNextDueScheduledReport, NoReportDue, EndOfLoop, loop
<1>6. ASSUME NEW w \in Workers, processExportJob(w)
      PROVE  LetGo(w, "claim") \/ UNCHANGED <<job, att>>
  BY <1>6 DEF processExportJob, auditStarted, writeTempFile, renameTempFile,
              completeExportJob, auditCompleted, dispatchExportDelivery, dispatchDone,
              processError, failExportJob, auditFailed, triggerFailedExportFollowupReports
<1>7. ASSUME NEW w \in Workers, Process(w)
      PROVE  (\E step : LetGo(w, step)) \/ UNCHANGED <<job, att>>
  BY <1>7 DEF Process, LoopError, catchError, stopExportWorker, Exit, Restart
<1>8. CASE UNCHANGED vars
  BY <1>1, <1>8 DEF vars, loop
<1> QED BY <1>1, <1>2, <1>3, <1>4, <1>5, <1>6, <1>7, <1>8 DEF Next

\* A step that writes no file, completes no job and lets no worker enter a
\* stage of which something is claimed.
LEMMA KeptByOthers ==
  ASSUME TypeOK, HolderOK, KeptInv, UNCHANGED files,
         \A j \in Jobs : row'[j].status = "completed" => row'[j] = row[j],
         \A w \in Workers :
            pc'[w] \in {"complete", "referenced", "remove"} =>
               pc'[w] = pc[w] /\ job'[w] = job[w] /\ snap'[w] = snap[w]
  PROVE  KeptInv'
<1>1. ASSUME NEW w \in Workers PROVE KeptWorker(w)'
  <2>1. snap[w] \subseteq Jobs
    BY DEF TypeOK
  <2> QED BY <2>1 DEF KeptInv, KeptWorker, WithStatus
<1>2. ASSUME NEW j \in Jobs PROVE KeptJob(j)'
  BY DEF KeptInv, KeptJob, WithStatus
<1> QED BY <1>1, <1>2 DEF KeptInv

\* Of what completes no job: inserting rows, and giving a row another status.
NoneCompleted == \A j \in Jobs : row'[j].status = "completed" => row'[j] = row[j]

LEMMA InsertCompletesNone ==
  ASSUME TypeOK, NEW n, InsertJobs(n)
  PROVE  NoneCompleted
BY DEF InsertJobs, NewRow, NoneCompleted

LEMMA KeptStep ==
  ASSUME OneWorker, TypeOK, HolderOK, Counted, KeptInv, [Next]_vars
  PROVE  KeptInv'
<1>1. CASE UNCHANGED vars
  BY <1>1, KeptByOthers DEF vars, db, disk, loop
<1>2. CASE Environment
  <2>1. UNCHANGED <<files, pc, job, snap>>
    BY <1>2 DEF Environment, createExportJob, retryExportJob, GrowStale, CleanupElapsed,
                disk, loop
  <2>2. NoneCompleted
    <3>1. CASE createExportJob
      BY <3>1, InsertCompletesNone DEF createExportJob
    <3>2. ASSUME NEW k \in Jobs, retryExportJob(k) PROVE NoneCompleted
      BY <3>2 DEF retryExportJob, TypeOK, Row, NoneCompleted
    <3>3. CASE UNCHANGED row
      BY <3>3 DEF NoneCompleted
    <3> QED BY <1>2, <3>1, <3>2, <3>3 DEF Environment, GrowStale, CleanupElapsed, db
  <2> QED BY <2>1, <2>2, KeptByOthers DEF NoneCompleted
<1>3. ASSUME NEW w \in Workers, Poll(w) PROVE KeptInv'
  <2>1. CASE \/ WakeUp(w) \/ pruneDone(w) \/ recoverStaleExportJobs(w)
             \/ claimNextDueScheduledReport(w) \/ NoReportDue(w)
             \/ claimNextPendingExportJob(w) \/ EndOfLoop(w)
    <3>1. /\ UNCHANGED <<files, snap>>
          /\ pc'[w] \notin {"complete", "referenced", "remove"} \/ UNCHANGED pc
          /\ \A v \in Workers : v = w
      BY <2>1 DEF WakeUp, pruneDone, recoverStaleExportJobs, claimNextDueScheduledReport,
                  NoReportDue, claimNextPendingExportJob, EndOfLoop, Goto, disk, loop,
                  TypeOK, OneWorker
    <3>2. NoneCompleted
      <4>1. CASE claimNextDueScheduledReport(w)
        BY <4>1, InsertCompletesNone DEF claimNextDueScheduledReport
      <4>2. CASE claimNextPendingExportJob(w)
        <5>1. PICK k \in Pending :
                 row' = [row EXCEPT ![k].status = "running",
                                    ![k].attemptCount = row[k].attemptCount + 1]
          BY <4>2 DEF claimNextPendingExportJob
        <5>2. k \in Jobs
          BY PendingJobs
        <5> QED BY <5>1, <5>2 DEF NoneCompleted, TypeOK, Row
      <4>3. CASE recoverStaleExportJobs(w)
        BY <4>3 DEF recoverStaleExportJobs, NoneCompleted, TypeOK, Row
      <4>4. CASE UNCHANGED row
        BY <4>4 DEF NoneCompleted
      <4> QED BY <2>1, <4>1, <4>2, <4>3, <4>4
                 DEF WakeUp, pruneDone, NoReportDue, EndOfLoop, db
    <3>3. UNCHANGED pc => UNCHANGED job
      BY <2>1 DEF WakeUp, pruneDone, recoverStaleExportJobs, claimNextDueScheduledReport,
                  NoReportDue, claimNextPendingExportJob, EndOfLoop, Goto, loop, TypeOK
    <3> QED BY <3>1, <3>2, <3>3, KeptByOthers DEF NoneCompleted
  <2>2. CASE pruneListFiles(w)
    <3>1. /\ UNCHANGED <<files, row, job>>
          /\ \/ pc'[w] = "listed"
             \/ pc[w] = "referenced" /\ pc'[w] = "remove" /\ snap'[w] = OnDisk \ snap[w]
      BY <2>2 DEF pruneListFiles, Goto, TypeOK, disk, db
    <3>2. KeptWorker(w)'
      BY <3>1 DEF KeptInv, KeptWorker, OnDisk, WithStatus
    <3> QED BY <3>1, <3>2 DEF OneWorker, KeptInv, KeptJob, WithStatus
  <2>3. CASE listReferencedExportObjectKeys(w)
    <3>1. /\ UNCHANGED <<files, row, job>>
          /\ \/ pc'[w] = "referenced" /\ snap'[w] = Referenced
             \/ pc'[w] = "remove" /\ snap'[w] = snap[w] \ Referenced
          /\ snap[w] \subseteq Jobs
      BY <2>3 DEF listReferencedExportObjectKeys, Goto, TypeOK, disk, db
    <3>2. KeptWorker(w)'
      BY <3>1 DEF KeptInv, KeptWorker, KeptJob, Referenced, WithStatus
    <3> QED BY <3>1, <3>2 DEF OneWorker, KeptInv, KeptJob, WithStatus
  <2>4. CASE pruneRemoveFile(w)
    <3>1. PICK k \in snap[w] : /\ files' = [files EXCEPT ![k] = 0]
                               /\ snap' = [snap EXCEPT ![w] = snap[w] \ {k}]
      BY <2>4 DEF pruneRemoveFile
    <3>2. pc[w] = "remove" /\ UNCHANGED <<row, pc, job>> /\ k \in Jobs
      BY <2>4, <3>1 DEF pruneRemoveFile, db, TypeOK
    <3>3. ~WithStatus(k, "completed")
      BY <3>2 DEF KeptInv, KeptWorker
    <3>4. ASSUME NEW j \in Jobs PROVE KeptJob(j)'
      BY <3>1, <3>2, <3>3 DEF KeptInv, KeptJob, WithStatus, TypeOK
    <3>5. KeptWorker(w)'
      BY <3>1, <3>2 DEF KeptInv, KeptWorker, WithStatus, TypeOK
    <3> QED BY <3>4, <3>5 DEF OneWorker, KeptInv
  <2> QED BY <1>3, <2>1, <2>2, <2>3, <2>4 DEF Poll, Prune
<1>4. ASSUME NEW w \in Workers, processExportJob(w) PROVE KeptInv'
  <2>1. CASE \/ auditStarted(w) \/ writeTempFile(w) \/ auditCompleted(w)
             \/ dispatchExportDelivery(w) \/ dispatchDone(w) \/ processError(w)
             \/ failExportJob(w) \/ auditFailed(w)
             \/ triggerFailedExportFollowupReports(w)
    <3>1. /\ UNCHANGED files
          /\ pc'[w] \notin {"complete", "referenced", "remove"}
      BY <2>1 DEF auditStarted, writeTempFile, auditCompleted, dispatchExportDelivery,
                  dispatchDone, processError, failExportJob, auditFailed,
                  triggerFailedExportFollowupReports, LetGo, Goto, disk, TypeOK
    <3>2. NoneCompleted
      <4>1. CASE failExportJob(w)
        <5>1. row' = [row EXCEPT ![job[w]].status = "failed"] /\ job[w] \in Jobs
          BY <4>1 DEF failExportJob, TypeOK, HolderOK, HoldSteps, SettleSteps
        <5> QED BY <5>1 DEF NoneCompleted, TypeOK, Row
      <4>2. CASE triggerFailedExportFollowupReports(w)
        BY <4>2, InsertCompletesNone DEF triggerFailedExportFollowupReports
      <4>3. CASE UNCHANGED row
        BY <4>3 DEF NoneCompleted
      <4> QED BY <2>1, <4>1, <4>2, <4>3
                 DEF auditStarted, writeTempFile, auditCompleted, dispatchExportDelivery,
                     dispatchDone, processError, auditFailed, db
    <3> QED BY <3>1, <3>2, KeptByOthers DEF OneWorker, NoneCompleted
  <2>2. CASE renameTempFile(w)
    <3>1. /\ files' = [files EXCEPT ![job[w]] = att[w]] /\ UNCHANGED <<row, job>>
          /\ pc[w] = "rename" /\ pc'[w] = "complete" /\ job[w] \in Jobs
      BY <2>2 DEF renameTempFile, Goto, TypeOK, HolderOK, HoldSteps, ProcessSteps, db
    <3>2. att[w] \in Nat \ {0}
      BY <3>1 DEF TypeOK, Counted, Jobs
    <3>3. ASSUME NEW j \in Jobs PROVE KeptJob(j)'
      BY <3>1, <3>2 DEF KeptInv, KeptJob, WithStatus, TypeOK
    <3>4. KeptWorker(w)'
      BY <3>1, <3>2 DEF KeptWorker, TypeOK
    <3> QED BY <3>3, <3>4 DEF OneWorker, KeptInv
  <2>3. CASE completeExportJob(w)
    <3>1. /\ row' = [row EXCEPT ![job[w]].status = "completed",
                                ![job[w]].objectKey = TRUE,
                                ![job[w]].rowCount = att[w]]
          /\ pc[w] = "complete" /\ pc'[w] = "auditDone" /\ UNCHANGED files
          /\ job[w] \in Jobs
      BY <2>3 DEF completeExportJob, Goto, TypeOK, HolderOK, HoldSteps, ProcessSteps, disk
    <3>2. ASSUME NEW j \in Jobs PROVE KeptJob(j)'
      BY <3>1 DEF KeptInv, KeptWorker, KeptJob, WithStatus, TypeOK, Row
    <3>3. KeptWorker(w)'
      BY <3>1 DEF KeptWorker
    <3> QED BY <3>2, <3>3 DEF OneWorker, KeptInv
  <2> QED BY <1>4, <2>1, <2>2, <2>3 DEF processExportJob
<1>5. ASSUME NEW w \in Workers, Process(w) PROVE KeptInv'
  <2>1. /\ UNCHANGED <<files, row>>
        /\ \/ pc'[w] \notin {"complete", "referenced", "remove"}
           \/ UNCHANGED <<pc, job, snap>>
    BY <1>5 DEF Process, LoopError, catchError, stopExportWorker, Exit, Restart, LetGo, Goto,
                disk, db, TypeOK
  <2> QED BY <2>1, KeptByOthers DEF OneWorker
<1> QED BY <1>1, <1>2, <1>3, <1>4, <1>5 DEF Next

\* The clean-up of a worker that is alone with the table and the directory
\* removes no file of a completed job, whatever crashes, overruns and retries
\* there are, and in whichever order its two reads are answered.
THEOREM CompletedFileKeptHolds == OneWorker => (Spec => []CompletedFileKept)
<1> SUFFICES ASSUME OneWorker PROVE Spec => []CompletedFileKept
  OBVIOUS
<1>1. Init => Counted /\ KeptInv
  BY DEF Init, Counted, KeptInv, KeptWorker, KeptJob, WithStatus, NewRow
<1>2. TypeOK /\ HolderOK /\ Counted /\ KeptInv /\ [Next]_vars => Counted' /\ KeptInv'
  BY CountedStep, KeptStep
<1>3. KeptInv => CompletedFileKept
  BY DEF KeptInv, KeptJob, CompletedFileKept
<1> QED BY <1>1, <1>2, <1>3, TypeCorrect, PTL DEF Spec

-----------------------------------------------------------------------------
(* The workers implement ExportJobs.                                       *)
(*                                                                         *)
(* The argument is about ownership: by the invariants above a job has at   *)
(* most one owner, and no step but a claim and the steps of the owner      *)
(* itself changes who it is.  Each step is then one abstract step of one   *)
(* job, or none.                                                           *)

Owned(j) == \E w \in Workers : Owns(w, j)

\* The abstract owner is a function of who owns what.
LEMMA OwnerOf ==
  ASSUME Prompt, NEW j \in Jobs
  PROVE  /\ \A w \in Workers : Owns(w, j) => absOwner[j] = w
         /\ ~Owned(j) => absOwner[j] = NoOwner
         /\ absOwner[j] # NoOwner => Owned(j)
<1>1. \A v, w \in Workers : Owns(v, j) /\ Owns(w, j) => v = w
  BY OneOwner DEF Owns
<1>2. absOwner[j] = IF Owned(j) THEN CHOOSE w \in Workers : Owns(w, j) ELSE NoOwner
  BY DEF absOwner, Owned
<1>3. ASSUME NEW w \in Workers, Owns(w, j)
      PROVE  absOwner[j] = w
  <2>1. \E v \in Workers : Owns(v, j)
    BY <1>3
  <2>2. /\ (CHOOSE v \in Workers : Owns(v, j)) \in Workers
        /\ Owns(CHOOSE v \in Workers : Owns(v, j), j)
    BY <2>1, Zenon
  <2> QED BY <1>1, <1>2, <1>3, <2>1, <2>2 DEF Owned
<1> QED BY <1>2, <1>3

\* The same of the next state.
Ownership(j) == /\ \A w \in Workers : Owns(w, j) => absOwner[j] = w
                /\ ~Owned(j) => absOwner[j] = NoOwner
                /\ absOwner[j] # NoOwner => Owned(j)

LEMMA OwnersNow == Prompt => \A j \in Jobs : Ownership(j)
  BY OwnerOf DEF Ownership

LEMMA OwnersThen == Prompt' => (\A j \in Jobs : Ownership(j))'
  BY OwnersNow, PTL

\* As long as owners remain the same, so does the abstract owner.
LEMMA OwnerStays ==
  ASSUME Prompt, Prompt', NEW j \in Jobs,
         \A w \in Workers : Owns(w, j)' <=> Owns(w, j)
  PROVE  absOwner'[j] = absOwner[j]
<1>1. Ownership(j) /\ Ownership(j)'
  BY OwnersNow, OwnersThen
<1>2. Owned(j)' <=> Owned(j)
  BY DEF Owned
<1>3. CASE Owned(j)
  <2>1. PICK w \in Workers : Owns(w, j)
    BY <1>3 DEF Owned
  <2> QED BY <1>1, <2>1 DEF Ownership
<1>4. CASE ~Owned(j)
  BY <1>1, <1>2, <1>4 DEF Ownership
<1> QED BY <1>3, <1>4

\* A step of one worker that keeps the attempt counts.
Attempts == [j \in Jobs |-> row[j].attemptCount]
Alone(w) == \A v \in Workers \ {w} : pc'[v] = pc[v] /\ job'[v] = job[v] /\ att'[v] = att[v]

LEMMA OthersStay ==
  ASSUME Prompt, Prompt', NEW w \in Workers, Alone(w), Attempts' = Attempts,
         NEW j \in Jobs, Owns(w, j)' <=> Owns(w, j)
  PROVE  absOwner'[j] = absOwner[j]
<1>1. row'[j].attemptCount = row[j].attemptCount
  <2>1. Attempts'[j] = Attempts[j]
    OBVIOUS
  <2> QED BY <2>1 DEF Attempts
<1>2. ASSUME NEW v \in Workers PROVE Owns(v, j)' <=> Owns(v, j)
  BY <1>1 DEF Owns, Alone
<1> QED BY <1>2, OwnerStays

\* The abstract owner is a function of the jobs.
LEMMA OwnerDomain ==
  /\ absOwner = [j \in Jobs |-> absOwner[j]]
  /\ absOwner' = [j \in Jobs |-> absOwner'[j]]
  BY DEF absOwner

LEMMA SameOwners ==
  ASSUME \A j \in Jobs : absOwner'[j] = absOwner[j]
  PROVE  absOwner' = absOwner
  BY OwnerDomain, Zenon

\* A worker that owns its job before and after the step, or neither.
LEMMA OwnsOn ==
  ASSUME Prompt, Prompt', NEW w \in Workers, Alone(w), Attempts' = Attempts,
         \/ pc[w] \notin OwnSteps /\ pc'[w] \notin OwnSteps
         \/ /\ pc[w] \in OwnSteps /\ pc'[w] \in OwnSteps
            /\ job'[w] = job[w] /\ att'[w] = att[w]
  PROVE  absOwner' = absOwner
<1>1. ASSUME NEW j \in Jobs PROVE Owns(w, j)' <=> Owns(w, j)
  <2>1. row'[j].attemptCount = row[j].attemptCount
    <3>1. Attempts'[j] = Attempts[j]
      OBVIOUS
    <3> QED BY <3>1 DEF Attempts
  <2> QED BY <2>1 DEF Owns
<1> QED BY <1>1, OthersStay, SameOwners

\* A worker that lets go of the job it owns.
LEMMA GivesUp ==
  ASSUME Prompt, Prompt', NEW w \in Workers, Alone(w), Attempts' = Attempts,
         pc[w] \in OwnSteps, pc'[w] \notin OwnSteps
  PROVE  /\ job[w] \in Jobs /\ absOwner[job[w]] = w /\ w # NoOwner
         /\ absOwner' = [absOwner EXCEPT ![job[w]] = NoOwner]
<1>1. job[w] \in Jobs /\ Owns(w, job[w])
  BY OwnedStatus DEF Owns, Prompt, PromptWorker
<1>2. absOwner[job[w]] = w /\ w # NoOwner
  BY <1>1, OwnersNow, NoOwnerOK DEF Ownership
<1>3. ASSUME NEW j \in Jobs, j # job[w] PROVE absOwner'[j] = absOwner[j]
  <2>1. ~Owns(w, j) /\ ~Owns(w, j)'
    BY <1>3 DEF Owns
  <2> QED BY <2>1, OthersStay
<1>4. absOwner'[job[w]] = NoOwner
  <2>1. PICK k \in Jobs : k = job[w]
    BY <1>1
  <2>2. ASSUME NEW v \in Workers PROVE ~Owns(v, k)'
    <3>1. CASE v = w
      BY <3>1 DEF Owns
    <3>2. CASE v # w
      <4>1. pc[v] \in OwnSteps => job[v] # k
        BY <2>1, <3>2, OneOwner
      <4> QED BY <3>2, <4>1 DEF Owns, Alone
    <3> QED BY <3>1, <3>2
  <2>3. ~Owned(k)'
    BY <2>2 DEF Owned
  <2>4. Ownership(k)'
    BY OwnersThen
  <2> QED BY <2>1, <2>3, <2>4 DEF Ownership
<1>5. absOwner' = [absOwner EXCEPT ![job[w]] = NoOwner]
  BY <1>1, <1>3, <1>4, OwnerDomain
<1> QED BY <1>1, <1>2, <1>5

-----------------------------------------------------------------------------
(* What the abstract specification sees of a step *)

LEMMA RowsSeen == row' = row => absStatus' = absStatus /\ Attempts' = Attempts
  BY DEF absStatus, Attempts

LEMMA TargetsSeen == delivered' = delivered => absAnnounced' = absAnnounced
  BY DEF absAnnounced

Unseen == UNCHANGED <<absStatus, absOwner, absAnnounced>>

\* A worker goes on without touching a row or a target.
LEMMA GoesOn ==
  ASSUME Prompt, Prompt', NEW w \in Workers, Alone(w), row' = row, delivered' = delivered,
         \/ pc[w] \notin OwnSteps /\ pc'[w] \notin OwnSteps
         \/ /\ pc[w] \in OwnSteps /\ pc'[w] \in OwnSteps
            /\ job'[w] = job[w] /\ att'[w] = att[w]
  PROVE  Unseen
  BY RowsSeen, TargetsSeen, OwnsOn DEF Unseen

\* An owner that is done, gives up or dies.
LEMMA Disowns ==
  ASSUME Prompt, Prompt', NEW w \in Workers, Alone(w), row' = row, delivered' = delivered,
         pc[w] \in OwnSteps, pc'[w] \notin OwnSteps
  PROVE  \E j \in Jobs : Abs!Disown(j)
<1>1. /\ job[w] \in Jobs /\ absOwner[job[w]] # NoOwner
      /\ absOwner' = [absOwner EXCEPT ![job[w]] = NoOwner]
  BY RowsSeen, GivesUp
<1> QED BY <1>1, RowsSeen, TargetsSeen DEF Abs!Disown

\* Rows that are inserted come into the queue.
LEMMA Inserts ==
  ASSUME Prompt, NEW n \in Nat, InsertJobs(n)
  PROVE  Attempts' = Attempts /\ \E S \in SUBSET Jobs : Abs!Submit(S)
<1>1. CreatedOK /\ created \in Nat
  BY ConstantsOK DEF Prompt, ClaimInv, TypeOK
<1> DEFINE S == {j \in Jobs : j \in (created + 1) .. (created + n)}
<1>2. ASSUME NEW j \in Jobs
      PROVE  row'[j] = IF j \in S THEN [NewRow EXCEPT !.status = "pending"] ELSE row[j]
  BY DEF InsertJobs
<1>3. \A j \in S : row[j] = NewRow
  BY <1>1 DEF CreatedOK, Jobs
<1>4. Attempts' = Attempts
  <2>1. \A j \in Jobs : row'[j].attemptCount = row[j].attemptCount
    BY <1>2, <1>3 DEF NewRow
  <2> QED BY <2>1 DEF Attempts
<1>5. \A j \in S : absStatus[j] = "none"
  BY <1>3 DEF absStatus, NewRow
<1>6. absStatus' = [j \in Jobs |-> IF j \in S THEN "pending" ELSE absStatus[j]]
  BY <1>2 DEF absStatus, NewRow
<1> HIDE DEF S
<1>7. S \in SUBSET Jobs
  BY DEF S
<1> QED BY <1>4, <1>5, <1>6, <1>7 DEF Abs!Submit

-----------------------------------------------------------------------------
(* The steps of the workers *)

\* Steps of the loop outside of the processing of a job.
LEMMA PollUnseen ==
  ASSUME Prompt, Prompt', NEW w \in Workers,
         WakeUp(w) \/ Prune(w) \/ NoReportDue(w) \/ EndOfLoop(w)
  PROVE  Unseen
<1>1. PICK step \in PollSteps \cup {"idle"} :
         pc' = [pc EXCEPT ![w] = step] /\ pc[w] \in PollSteps \cup {"idle"}
  BY DEF WakeUp, Prune, pruneListFiles, listReferencedExportObjectKeys, pruneDone,
         pruneRemoveFile, NoReportDue, EndOfLoop, Goto, PollSteps, PruneSteps, Prompt, TypeOK
<1>2. UNCHANGED <<row, delivered, job, att>>
  BY DEF WakeUp, Prune, pruneListFiles, listReferencedExportObjectKeys, pruneDone,
         pruneRemoveFile, NoReportDue, EndOfLoop, db
<1>3. Alone(w) /\ pc'[w] = step
  BY <1>1, <1>2 DEF Alone, Prompt, TypeOK
<1>4. pc[w] \notin OwnSteps /\ pc'[w] \notin OwnSteps
  BY <1>1, <1>3 DEF OwnSteps, ProcessSteps, PollSteps, PruneSteps
<1> QED BY <1>2, <1>3, <1>4, GoesOn

\* Steps of the processing that keep the job, the row and the targets.
LEMMA ProcessUnseen ==
  ASSUME Prompt, Prompt', NEW w \in Workers,
         \/ auditStarted(w) \/ writeTempFile(w) \/ renameTempFile(w)
         \/ auditCompleted(w) \/ processError(w) \/ auditFailed(w)
         \/ stopExportWorker(w) \/ Restart(w)
  PROVE  Unseen
<1>1. PICK step \in Steps :
         /\ pc' = [pc EXCEPT ![w] = step]
         /\ pc[w] \in OwnSteps <=> step \in OwnSteps
  <2>1. CASE stopExportWorker(w)
    <3>1. pc' = [pc EXCEPT ![w] = pc[w]] /\ pc[w] \in Steps
      BY <2>1 DEF stopExportWorker, Prompt, TypeOK
    <3> QED BY <3>1
  <2>2. CASE ~stopExportWorker(w)
    BY <2>2 DEF auditStarted, writeTempFile, renameTempFile, auditCompleted, processError,
       auditFailed, Restart, Goto, Steps, OwnSteps, ProcessSteps, HoldSteps, SettleSteps
  <2> QED BY <2>1, <2>2
<1>2. UNCHANGED <<row, delivered, job, att>>
  BY DEF auditStarted, writeTempFile, renameTempFile, auditCompleted, processError,
     auditFailed, stopExportWorker, Restart, db
<1>3. Alone(w) /\ pc'[w] = step
  BY <1>1, <1>2 DEF Alone, Prompt, TypeOK
<1> QED BY <1>1, <1>2, <1>3, GoesOn

\* Steps by which a worker leaves whatever it was doing.
LEMMA LeavesSeen ==
  ASSUME Prompt, Prompt', NEW w \in Workers,
         dispatchDone(w) \/ LoopError(w) \/ catchError(w) \/ Exit(w)
  PROVE  Unseen \/ \E j \in Jobs : Abs!Disown(j)
<1>1. PICK step \in {"claim", "idle", "down"} : LetGo(w, step)
  BY DEF dispatchDone, LoopError, catchError, Exit
<1>2. row' = row /\ delivered' = delivered
  BY DEF dispatchDone, LoopError, catchError, Exit, db
<1>3. Alone(w) /\ pc'[w] = step
  BY <1>1 DEF LetGo, Goto, Alone, Prompt, TypeOK
<1>4. pc'[w] \notin OwnSteps
  BY <1>3 DEF OwnSteps, ProcessSteps
<1> QED BY <1>2, <1>3, <1>4, GoesOn, Disowns

\* Reports that are due, or follow a failure, insert jobs.
LEMMA ReportsSubmit ==
  ASSUME Prompt, Prompt', NEW w \in Workers,
         claimNextDueScheduledReport(w) \/ triggerFailedExportFollowupReports(w)
  PROVE  \E S \in SUBSET Jobs : Abs!Submit(S) /\ UNCHANGED <<absOwner, absAnnounced>>
<1>1. PICK n \in Nat : InsertJobs(n)
  BY ConstantsOK DEF claimNextDueScheduledReport, triggerFailedExportFollowupReports,
         Prompt, TypeOK
<1>2. delivered' = delivered
  BY DEF claimNextDueScheduledReport, triggerFailedExportFollowupReports
<1>3. /\ Alone(w)
      /\ pc[w] \in {"reports", "followup"} /\ pc'[w] \in {"reports", "claim"}
  BY DEF claimNextDueScheduledReport, triggerFailedExportFollowupReports, loop, LetGo,
     Goto, Alone, Prompt, TypeOK
<1>4. absOwner' = absOwner
  <2>1. pc[w] \notin OwnSteps /\ pc'[w] \notin OwnSteps
    BY <1>3 DEF OwnSteps, ProcessSteps
  <2> QED BY <1>1, <1>3, <2>1, Inserts, OwnsOn
<1> QED BY <1>1, <1>2, <1>4, Inserts, TargetsSeen

\* A claim: the pending job had no owner and gets one.
LEMMA ClaimSeen ==
  ASSUME Prompt, Prompt', NEW w \in Workers, claimNextPendingExportJob(w)
  PROVE  \E j \in Jobs : Abs!Claim(j)
<1>1. PICK j \in Pending :
         /\ row' = [row EXCEPT ![j].status = "running",
                               ![j].attemptCount = row[j].attemptCount + 1]
         /\ job' = [job EXCEPT ![w] = j]
         /\ att' = [att EXCEPT ![w] = row[j].attemptCount + 1]
  BY DEF claimNextPendingExportJob
<1>2. pc[w] = "claim" /\ pc' = [pc EXCEPT ![w] = "start"] /\ delivered' = delivered
  BY DEF claimNextPendingExportJob, Goto
<1>3. j \in Jobs /\ row[j] \in Row /\ row[j].status = "pending"
  BY PendingJobs DEF Prompt, TypeOK, Pending, WithStatus
<1>4. /\ row'[j].status = "running" /\ row'[j].attemptCount = row[j].attemptCount + 1
      /\ \A k \in Jobs : k # j => row'[k] = row[k]
  BY <1>1, <1>3 DEF Prompt, TypeOK, Row
<1>5. Alone(w) /\ pc'[w] = "start" /\ job'[w] = j /\ att'[w] = row[j].attemptCount + 1
  BY <1>1, <1>2 DEF Alone, Prompt, TypeOK
<1>6. \A v \in Workers : ~Owns(v, j)
  BY <1>3, OwnedStatus DEF Owns, WithStatus
<1>7. absOwner[j] = NoOwner
  BY <1>3, <1>6, OwnersNow DEF Ownership, Owned
<1>8. absOwner'[j] = w
  <2>1. Owns(w, j)'
    BY <1>4, <1>5 DEF Owns, OwnSteps, ProcessSteps
  <2>2. Ownership(j)'
    BY <1>3, OwnersThen
  <2> QED BY <2>1, <2>2 DEF Ownership
<1>9. ASSUME NEW k \in Jobs, k # j PROVE absOwner'[k] = absOwner[k]
  <2>1. ~Owns(w, k) /\ ~Owns(w, k)'
    BY <1>2, <1>5, <1>9 DEF Owns, OwnSteps, ProcessSteps
  <2>2. \A v \in Workers : Owns(v, k)' <=> Owns(v, k)
    BY <1>4, <1>5, <1>9, <2>1 DEF Owns, Alone
  <2> QED BY <2>2, OwnerStays
<1>10. absOwner' = [absOwner EXCEPT ![j] = w]
  BY <1>3, <1>8, <1>9, OwnerDomain
<1>11. absStatus[j] = "pending" /\ absStatus' = [absStatus EXCEPT ![j] = "running"]
  BY <1>3, <1>4 DEF absStatus
<1> QED BY <1>2, <1>3, <1>7, <1>10, <1>11, TargetsSeen DEF Abs!Claim

\* The statement that completes a job is its owner's.
LEMMA CompletionSeen ==
  ASSUME Prompt, Prompt', NEW w \in Workers, completeExportJob(w)
  PROVE  \E j \in Jobs : Abs!Complete(j)
<1>1. /\ pc[w] = "complete" /\ pc' = [pc EXCEPT ![w] = "auditDone"]
      /\ UNCHANGED <<job, att, delivered>>
  BY DEF completeExportJob, Goto
<1>2. pc[w] \in OwnSteps /\ pc'[w] \in OwnSteps /\ Alone(w)
  BY <1>1 DEF Alone, Prompt, TypeOK, OwnSteps, ProcessSteps
<1>3. PICK j \in Jobs : j = job[w] /\ row[j].status = "running"
  BY <1>1, <1>2, OwnedStatus DEF Prompt, PromptWorker, ProcessSteps, WithStatus
<1>4. /\ row'[j].status = "completed" /\ row'[j].attemptCount = row[j].attemptCount
      /\ \A k \in Jobs : k # j => row'[k] = row[k]
  BY <1>3 DEF completeExportJob, Prompt, TypeOK, Row
<1>5. Attempts' = Attempts
  <2>1. \A k \in Jobs : row'[k].attemptCount = row[k].attemptCount
    BY <1>4
  <2> QED BY <2>1 DEF Attempts
<1>6. absOwner' = absOwner
  BY <1>1, <1>2, <1>5, OwnsOn
<1>7. absOwner[j] = w /\ w # NoOwner
  <2>1. Owns(w, j)
    BY <1>2, <1>3 DEF Owns, Prompt, PromptWorker
  <2> QED BY <2>1, OwnersNow, NoOwnerOK DEF Ownership
<1>8. absStatus[j] = "running" /\ absStatus' = [absStatus EXCEPT ![j] = "completed"]
  BY <1>3, <1>4 DEF absStatus
<1> QED BY <1>1, <1>6, <1>7, <1>8, TargetsSeen DEF Abs!Complete

\* A target is notified of a job by its owner, or not at all.
LEMMA DeliverySeen ==
  ASSUME Prompt, Prompt', NEW w \in Workers, dispatchExportDelivery(w)
  PROVE  Unseen \/ \E j \in Jobs : Abs!Announce(j)
<1>1. pc[w] = "dispatch" /\ UNCHANGED <<row, pc, job, att>>
  BY DEF dispatchExportDelivery, db
<1>2. pc[w] \in OwnSteps /\ pc'[w] \in OwnSteps /\ Alone(w)
  BY <1>1 DEF Alone, OwnSteps
<1>3. PICK j \in Jobs : j = job[w] /\ row[j].status = "completed"
  BY <1>1, <1>2, OwnedStatus DEF Prompt, PromptWorker, WithStatus
<1>4. absOwner' = absOwner /\ absStatus' = absStatus
  BY <1>1, <1>2, RowsSeen, OwnsOn
<1>5. absOwner[j] # NoOwner
  <2>1. Owns(w, j)
    BY <1>2, <1>3 DEF Owns, Prompt, PromptWorker
  <2> QED BY <2>1, OwnersNow, NoOwnerOK DEF Ownership
<1>6. CASE delivered' = delivered
  BY <1>4, <1>6, TargetsSeen DEF Unseen
<1>7. CASE delivered' # delivered
  <2>1. PICK t \in Targets : delivered' = [delivered EXCEPT ![job[w]][t] = @ + 1]
    BY <1>7 DEF dispatchExportDelivery, Prompt, TypeOK
  <2>2. /\ delivered'[j][t] = delivered[j][t] + 1 /\ delivered[j][t] \in Nat
        /\ \A u \in Targets : u # t => delivered'[j][u] = delivered[j][u]
        /\ \A k \in Jobs : k # j => delivered'[k] = delivered[k]
    BY <1>3, <2>1 DEF Prompt, TypeOK
  <2>3. absAnnounced' = absAnnounced \cup {j}
    BY <2>2 DEF absAnnounced
  <2>4. absStatus[j] = "completed"
    BY <1>3 DEF absStatus
  <2> QED BY <1>4, <1>5, <2>3, <2>4 DEF Abs!Announce
<1> QED BY <1>6, <1>7

\* The owner fails its job, nobody having been told of it.
LEMMA FailureSeen ==
  ASSUME Prompt, Prompt', NEW w \in Workers, failExportJob(w)
  PROVE  \E j \in Jobs : Abs!Fail(j)
<1>1. /\ pc[w] = "fail" /\ pc' = [pc EXCEPT ![w] = "auditFail"]
      /\ UNCHANGED <<job, att, delivered>>
  BY DEF failExportJob, Goto
<1>2. pc[w] \in OwnSteps /\ pc'[w] \notin OwnSteps /\ Alone(w)
  BY <1>1 DEF Alone, Prompt, TypeOK, OwnSteps, ProcessSteps
<1>3. PICK j \in Jobs : j = job[w] /\ row[j].status \in {"running", "completed"}
  BY <1>2, OwnedStatus DEF WithStatus
<1>4. /\ row'[j].status = "failed" /\ row'[j].attemptCount = row[j].attemptCount
      /\ \A k \in Jobs : k # j => row'[k] = row[k]
  BY <1>3 DEF failExportJob, Prompt, TypeOK, Row
<1>5. Attempts' = Attempts
  <2>1. \A k \in Jobs : row'[k].attemptCount = row[k].attemptCount
    BY <1>4
  <2> QED BY <2>1 DEF Attempts
<1>6. absOwner[j] # NoOwner /\ absOwner' = [absOwner EXCEPT ![j] = NoOwner]
  BY <1>2, <1>3, <1>5, GivesUp
<1>7. j \notin absAnnounced
  <2>1. \A t \in Targets : delivered[j][t] = 0
    BY <1>1, <1>3 DEF Prompt, PromptWorker
  <2> QED BY <2>1 DEF absAnnounced
<1>8. /\ absStatus[j] \in {"running", "completed"}
      /\ absStatus' = [absStatus EXCEPT ![j] = "failed"]
  BY <1>3, <1>4 DEF absStatus
<1> QED BY <1>1, <1>6, <1>7, <1>8, TargetsSeen DEF Abs!Fail

\* Only jobs without an owner are put back into the queue.
LEMMA RecoverySeen ==
  ASSUME Prompt, Prompt', NEW w \in Workers, recoverStaleExportJobs(w)
  PROVE  \E S \in SUBSET Jobs : Abs!Requeue(S) /\ UNCHANGED <<absOwner, absAnnounced>>
<1> DEFINE late == {j \in stale : WithStatus(j, "running")}
<1>1. /\ row' = [j \in Jobs |-> IF j \in late THEN [row[j] EXCEPT !.status = "pending"]
                                              ELSE row[j]]
      /\ pc[w] = "recover" /\ pc' = [pc EXCEPT ![w] = "reports"]
      /\ UNCHANGED <<job, att, delivered>>
  BY DEF recoverStaleExportJobs, Goto
<1>2. late \in SUBSET Jobs
  BY DEF Prompt, TypeOK
<1>3. Alone(w) /\ pc'[w] = "reports"
  BY <1>1 DEF Alone, Prompt, TypeOK
<1>4. \A j \in late : absStatus[j] = "running" /\ absOwner[j] = NoOwner
  <2>1. ASSUME NEW j \in Jobs, j \in stale, WithStatus(j, "running"), NEW v \in Workers
        PROVE  ~Owns(v, j)
    <3>1. ~Held(j)
      BY <2>1 DEF Prompt, PromptJob
    <3>2. pc[v] \in {"auditDone", "dispatch"} => WithStatus(job[v], "completed")
      BY DEF Prompt, PromptWorker
    <3> QED BY <2>1, <3>1, <3>2 DEF Held, Owns, OwnSteps, WithStatus
  <2>2. \A j \in late : ~Owned(j)
    BY <1>2, <2>1 DEF Owned
  <2> QED BY <1>2, <2>2, OwnersNow DEF Ownership, absStatus, WithStatus
<1>5. \A j \in Jobs : /\ row'[j].attemptCount = row[j].attemptCount
                      /\ row'[j].status = IF j \in late THEN "pending" ELSE row[j].status
  <2>1. \A j \in Jobs : row[j] \in Row
    BY DEF Prompt, TypeOK
  <2> HIDE DEF late
  <2> QED BY <1>1, <2>1 DEF Row
<1> HIDE DEF late
<1>6. Attempts' = Attempts
  BY <1>5 DEF Attempts
<1>7. absOwner' = absOwner
  <2>1. pc[w] \notin OwnSteps /\ pc'[w] \notin OwnSteps
    BY <1>1, <1>3 DEF OwnSteps, ProcessSteps
  <2> QED BY <1>3, <1>6, <2>1, OwnsOn
<1>8. absStatus' = [j \in Jobs |-> IF j \in late THEN "pending" ELSE absStatus[j]]
  BY <1>5 DEF absStatus
<1> QED BY <1>1, <1>2, <1>4, <1>7, <1>8, TargetsSeen DEF Abs!Requeue

-----------------------------------------------------------------------------
(* The steps of the API and the clock *)

\* Steps in which no worker moves.
LEMMA NobodyMoves ==
  ASSUME Prompt, Prompt', UNCHANGED <<pc, job, att>>, Attempts' = Attempts
  PROVE  absOwner' = absOwner
<1>1. ASSUME NEW j \in Jobs PROVE absOwner'[j] = absOwner[j]
  <2>1. row'[j].attemptCount = row[j].attemptCount
    <3>1. Attempts'[j] = Attempts[j]
      OBVIOUS
    <3> QED BY <3>1 DEF Attempts
  <2>2. \A w \in Workers : Owns(w, j)' <=> Owns(w, j)
    BY <2>1 DEF Owns
  <2> QED BY <2>2, OwnerStays
<1> QED BY <1>1, SameOwners

LEMMA EnvironmentSeen ==
  ASSUME Prompt, Prompt', Environment
  PROVE  Unseen \/ Abs!Next
<1>1. UNCHANGED <<pc, job, att, delivered>>
  BY DEF Environment, createExportJob, retryExportJob, GrowStale, CleanupElapsed, loop
<1>2. CASE createExportJob
  <2>1. InsertJobs(1)
    BY <1>2 DEF createExportJob
  <2>2. Attempts' = Attempts /\ \E S \in SUBSET Jobs : Abs!Submit(S)
    BY <2>1, Inserts
  <2> QED BY <1>1, <2>2, NobodyMoves, TargetsSeen DEF Abs!Next
<1>3. ASSUME NEW j \in Jobs, retryExportJob(j) PROVE Abs!Next
  <2>1. /\ row[j].status = "failed"
        /\ row' = [row EXCEPT ![j].status = "pending", ![j].objectKey = FALSE,
                              ![j].rowCount = 0]
    BY <1>3 DEF retryExportJob, WithStatus
  <2>2. /\ row'[j].status = "pending" /\ row'[j].attemptCount = row[j].attemptCount
        /\ \A k \in Jobs : k # j => row'[k] = row[k]
    BY <2>1 DEF Prompt, TypeOK, Row
  <2>3. Attempts' = Attempts
    <3>1. \A k \in Jobs : row'[k].attemptCount = row[k].attemptCount
      BY <2>2
    <3> QED BY <3>1 DEF Attempts
  <2>4. absStatus[j] = "failed" /\ absStatus' = [absStatus EXCEPT ![j] = "pending"]
    <3>1. absStatus[j] = "failed"
      BY <1>3, <2>1 DEF absStatus
    <3>2. absStatus' = [k \in Jobs |-> IF k = j THEN "pending" ELSE absStatus[k]]
      <4>1. \A k \in Jobs : row'[k].status = IF k = j THEN "pending" ELSE absStatus[k]
        BY <1>3, <2>2 DEF absStatus
      <4> QED BY <4>1 DEF absStatus
    <3>3. absStatus = [k \in Jobs |-> absStatus[k]]
      BY DEF absStatus
    <3> QED BY <3>1, <3>2, <3>3
  <2>5. Abs!Retry(j)
    BY <1>1, <2>3, <2>4, NobodyMoves, TargetsSeen DEF Abs!Retry
  <2> QED BY <2>5 DEF Abs!Next
<1>4. CASE (\E j \in Jobs : GrowStale(j)) \/ (\E w \in Workers : CleanupElapsed(w))
  <2>1. row' = row
    BY <1>4 DEF GrowStale, CleanupElapsed, db
  <2> QED BY <1>1, <2>1, RowsSeen, NobodyMoves, TargetsSeen DEF Unseen
<1> QED BY <1>2, <1>3, <1>4 DEF Environment

-----------------------------------------------------------------------------
(* The refinement *)

LEMMA StepSeen ==
  ASSUME Prompt, Prompt', [Next]_vars
  PROVE  Abs!Next \/ Unseen
<1>1. CASE Environment
  BY <1>1, EnvironmentSeen
<1>2. ASSUME NEW w \in Workers, Poll(w) PROVE Abs!Next \/ Unseen
  <2>1. CASE WakeUp(w) \/ Prune(w) \/ NoReportDue(w) \/ EndOfLoop(w)
    BY <2>1, PollUnseen
  <2>2. CASE recoverStaleExportJobs(w)
    BY <2>2, RecoverySeen DEF Abs!Next
  <2>3. CASE claimNextDueScheduledReport(w)
    BY <2>3, ReportsSubmit DEF Abs!Next
  <2>4. CASE claimNextPendingExportJob(w)
    BY <2>4, ClaimSeen DEF Abs!Next
  <2> QED BY <1>2, <2>1, <2>2, <2>3, <2>4 DEF Poll
<1>3. ASSUME NEW w \in Workers, processExportJob(w) PROVE Abs!Next \/ Unseen
  <2>1. CASE \/ auditStarted(w) \/ writeTempFile(w) \/ renameTempFile(w)
             \/ auditCompleted(w) \/ processError(w) \/ auditFailed(w)
    BY <2>1, ProcessUnseen
  <2>2. CASE completeExportJob(w)
    BY <2>2, CompletionSeen DEF Abs!Next
  <2>3. CASE dispatchExportDelivery(w)
    BY <2>3, DeliverySeen DEF Abs!Next
  <2>4. CASE dispatchDone(w)
    BY <2>4, LeavesSeen DEF Abs!Next
  <2>5. CASE failExportJob(w)
    BY <2>5, FailureSeen DEF Abs!Next
  <2>6. CASE triggerFailedExportFollowupReports(w)
    BY <2>6, ReportsSubmit DEF Abs!Next
  <2> QED BY <1>3, <2>1, <2>2, <2>3, <2>4, <2>5, <2>6 DEF processExportJob
<1>4. ASSUME NEW w \in Workers, Process(w) PROVE Abs!Next \/ Unseen
  <2>1. CASE LoopError(w) \/ catchError(w) \/ Exit(w)
    BY <2>1, LeavesSeen DEF Abs!Next
  <2>2. CASE stopExportWorker(w) \/ Restart(w)
    BY <2>2, ProcessUnseen
  <2> QED BY <1>4, <2>1, <2>2 DEF Process
<1>5. CASE UNCHANGED vars
  <2>1. UNCHANGED <<row, delivered, pc, job, att>>
    BY <1>5 DEF vars, db, loop
  <2> QED BY <2>1, RowsSeen, NobodyMoves, TargetsSeen DEF Unseen
<1> QED BY <1>1, <1>2, <1>3, <1>4, <1>5 DEF Next

LEMMA InitSeen == Init => Abs!Init
<1> SUFFICES ASSUME Init PROVE Abs!Init
  OBVIOUS
<1>1. absStatus = [j \in Jobs |-> "none"]
  BY DEF Init, absStatus, NewRow
<1>2. \A j \in Jobs, w \in Workers : ~Owns(w, j)
  BY DEF Init, Owns, OwnSteps, ProcessSteps
<1>3. absOwner = [j \in Jobs |-> NoOwner]
  BY <1>2 DEF absOwner
<1>4. absAnnounced = {}
  BY DEF Init, absAnnounced
<1> QED BY <1>1, <1>3, <1>4 DEF Abs!Init

\* Without overruns the invariants of prompt workers hold at every step.
LEMMA PromptAlways == MaxOverruns = 0 => (Spec => []Prompt)
<1> SUFFICES ASSUME MaxOverruns = 0 PROVE Spec => []Prompt
  OBVIOUS
<1>1. TypeOK /\ HolderOK /\ ClaimInv /\ PromptInv => Prompt
  BY DEF TypeOK, PromptInv, Prompt
<1> QED BY <1>1, TypeCorrect, ClaimsAreExclusive, WorkersArePrompt, PTL

\* Export workers implement the abstract lifecycle of a job, as long as none
\* of them outlives the stale interval: no step of a worker, of the API or of
\* the clock changes a job on behalf of anybody but its owner, although no
\* statement of the code asks who that is.
THEOREM WorkerRefines == MaxOverruns = 0 => (Spec => Refines)
<1> SUFFICES ASSUME MaxOverruns = 0 PROVE Spec => Refines
  OBVIOUS
<1>1. Spec => []Prompt
  BY PromptAlways
<1>2. Prompt /\ Prompt' /\ [Next]_vars => [Abs!Next]_(Abs!absVars)
  BY StepSeen DEF Unseen, Abs!absVars
<1> QED BY <1>1, <1>2, InitSeen, PTL DEF Spec, Refines, Abs!Spec

-----------------------------------------------------------------------------
(* What follows for the workers *)

\* What the lifecycle says of every implementation of it: an announced job is
\* completed, because only its owner could withdraw the result, and does not
\* once it is announced.
AnnouncedDone == \A j \in absAnnounced : absStatus[j] = "completed"

LEMMA AnnouncedStep ==
  ASSUME AnnouncedDone, [Abs!Next]_(Abs!absVars)
  PROVE  /\ AnnouncedDone'
         /\ absAnnounced \subseteq absAnnounced'
<1>1. absStatus = [j \in Jobs |-> absStatus[j]] /\ absAnnounced \subseteq Jobs
  BY DEF absStatus, absAnnounced
<1> HIDE DEF absStatus, absAnnounced
<1>2. CASE \E S \in SUBSET Jobs : /\ Abs!Submit(S) \/ Abs!Requeue(S)
                                  /\ UNCHANGED absAnnounced
  BY <1>1, <1>2 DEF AnnouncedDone, Abs!Submit, Abs!Requeue
<1>3. ASSUME NEW j \in Jobs, Abs!Announce(j)
      PROVE  /\ AnnouncedDone' /\ absAnnounced \subseteq absAnnounced'
  BY <1>1, <1>3 DEF Abs!Announce, AnnouncedDone
<1>4. ASSUME NEW j \in Jobs,
             Abs!Claim(j) \/ Abs!Complete(j) \/ Abs!Fail(j) \/ Abs!Disown(j) \/ Abs!Retry(j)
      PROVE  /\ AnnouncedDone' /\ absAnnounced \subseteq absAnnounced'
  <2>1. PICK v : /\ \/ absStatus' = absStatus
                    \/ absStatus' = [absStatus EXCEPT ![j] = v] /\ j \notin absAnnounced
                 /\ absAnnounced' = absAnnounced
    <3>1. CASE Abs!Claim(j)
      BY <1>4, <3>1 DEF Abs!Claim, AnnouncedDone
    <3>2. CASE Abs!Complete(j)
      BY <1>4, <3>2 DEF Abs!Complete, AnnouncedDone
    <3>3. CASE Abs!Fail(j) \/ Abs!Disown(j) \/ Abs!Retry(j)
      BY <1>4, <3>3 DEF Abs!Fail, Abs!Disown, Abs!Retry, AnnouncedDone
    <3> QED BY <1>4, <3>1, <3>2, <3>3
  <2> QED BY <1>1, <2>1 DEF AnnouncedDone
<1>5. CASE UNCHANGED Abs!absVars
  BY <1>5 DEF AnnouncedDone, Abs!absVars
<1> QED BY <1>2, <1>3, <1>4, <1>5 DEF Abs!Next

\* Once a target has been notified of an export, the export is completed and
\* stays so, through errors, crashes, retries and the recovery of stale jobs.
AnnouncedForGood ==
    [][\A j \in absAnnounced : j \in absAnnounced' /\ row'[j].status = "completed"]_vars

\* As long as no worker outlives the stale interval, nothing takes back an export
\* of which some target has been notified.
THEOREM AnnouncedForGoodHolds == MaxOverruns = 0 => (Spec => AnnouncedForGood)
<1> SUFFICES ASSUME MaxOverruns = 0 PROVE Spec => AnnouncedForGood
  OBVIOUS
<1>1. Spec => Abs!Spec
  BY WorkerRefines DEF Refines
<1>2. Abs!Init => AnnouncedDone
  BY DEF Abs!Init, AnnouncedDone
<1>3. AnnouncedDone /\ [Abs!Next]_(Abs!absVars)
         => /\ AnnouncedDone'
            /\ [\A j \in absAnnounced : j \in absAnnounced' /\ row'[j].status = "completed"]_vars
  <2> SUFFICES ASSUME AnnouncedDone, [Abs!Next]_(Abs!absVars)
               PROVE  /\ AnnouncedDone'
                      /\ \A j \in absAnnounced : j \in absAnnounced' /\ row'[j].status = "completed"
    OBVIOUS
  <2>1. AnnouncedDone' /\ absAnnounced \subseteq absAnnounced'
    BY AnnouncedStep
  <2>2. \A j \in absAnnounced' : j \in Jobs
    BY DEF absAnnounced
  <2>3. \A j \in Jobs : absStatus'[j] = row'[j].status
    BY DEF absStatus
  <2> QED BY <2>1, <2>2, <2>3 DEF AnnouncedDone
<1> QED BY <1>1, <1>2, <1>3, PTL DEF Abs!Spec, AnnouncedForGood

=============================================================================
