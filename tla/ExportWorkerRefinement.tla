----------------------- MODULE ExportWorkerRefinement -----------------------
(***************************************************************************)
(* ExportWorker implements ExportJobs when no live worker outlives the     *)
(* stale interval (MaxOverruns = 0), although no statement the worker      *)
(* makes checks that the job is still its own.                             *)
(***************************************************************************)
EXTENDS ExportWorker

CONSTANT NoOwner

ASSUME NoOwnerOK == NoOwner \notin Workers

\* A worker owns the job whose current claim it holds, until it has settled
\* it and told everybody.
Owns(w, j) == /\ pc[w] \in OwnSteps
              /\ job[w] = j
              /\ att[w] = row[j].attemptCount

absStatus    == [j \in Jobs |-> row[j].status]
absOwner     == [j \in Jobs |-> IF \E w \in Workers : Owns(w, j)
                                THEN CHOOSE w \in Workers : Owns(w, j)
                                ELSE NoOwner]
absAnnounced == {j \in Jobs : \E t \in Targets : delivered[j][t] > 0}

Abs == INSTANCE ExportJobs WITH
           status <- absStatus, owner <- absOwner, announced <- absAnnounced

\* Every behaviour of the workers, the API and the clock is one the abstract
\* job lifecycle allows: the row of a job is only ever changed on behalf of
\* the worker that owns its current claim.
Refines == Abs!Spec

=============================================================================
