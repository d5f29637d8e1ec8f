----------------------------- MODULE ExportJobs -----------------------------
(***************************************************************************)
(* What the export pipeline promises about a job, without its steps: a job *)
(* is run by the one worker that owns it, only its owner settles it, it    *)
(* goes back to the queue only when nobody owns it, and once its result    *)
(* has been announced it stays completed.  ExportWorkerRefinement shows    *)
(* that ExportWorker implements this as long as no worker outlives the     *)
(* stale interval.                                                         *)
(***************************************************************************)
CONSTANTS Jobs, Workers, NoOwner

VARIABLES
    status,      \* "none", "pending", "running", "completed" or "failed"
    owner,       \* the worker a job belongs to, or NoOwner
    announced    \* jobs some target has been notified of

absVars == <<status, owner, announced>>

Init ==
    /\ status = [j \in Jobs |-> "none"]
    /\ owner = [j \in Jobs |-> NoOwner]
    /\ announced = {}

\* New jobs come into the queue together or one by one.
Submit(S) ==
    /\ \A j \in S : status[j] = "none"
    /\ status' = [j \in Jobs |-> IF j \in S THEN "pending" ELSE status[j]]

Claim(j) ==
    /\ status[j] = "pending" /\ owner[j] = NoOwner
    /\ status' = [status EXCEPT ![j] = "running"]
    /\ \E w \in Workers : owner' = [owner EXCEPT ![j] = w]
    /\ UNCHANGED announced

Complete(j) ==
    /\ status[j] = "running" /\ owner[j] # NoOwner
    /\ status' = [status EXCEPT ![j] = "completed"]
    /\ UNCHANGED <<owner, announced>>

Announce(j) ==
    /\ status[j] = "completed" /\ owner[j] # NoOwner
    /\ announced' = announced \cup {j}
    /\ UNCHANGED <<status, owner>>

\* The owner fails the job, or withdraws a result it has not announced.
Fail(j) ==
    /\ status[j] \in {"running", "completed"} /\ owner[j] # NoOwner
    /\ j \notin announced
    /\ status' = [status EXCEPT ![j] = "failed"]
    /\ owner' = [owner EXCEPT ![j] = NoOwner]
    /\ UNCHANGED announced

\* The owner finished, gave up or died.
Disown(j) ==
    /\ owner[j] # NoOwner
    /\ owner' = [owner EXCEPT ![j] = NoOwner]
    /\ UNCHANGED <<status, announced>>

\* Abandoned jobs are put back into the queue.
Requeue(S) ==
    /\ \A j \in S : status[j] = "running" /\ owner[j] = NoOwner
    /\ status' = [j \in Jobs |-> IF j \in S THEN "pending" ELSE status[j]]

Retry(j) ==
    /\ status[j] = "failed"
    /\ status' = [status EXCEPT ![j] = "pending"]
    /\ UNCHANGED <<owner, announced>>

Next ==
    \/ \E S \in SUBSET Jobs : Submit(S) /\ UNCHANGED <<owner, announced>>
    \/ \E S \in SUBSET Jobs : Requeue(S) /\ UNCHANGED <<owner, announced>>
    \/ \E j \in Jobs : \/ Claim(j) \/ Complete(j) \/ Announce(j) \/ Fail(j)
                       \/ Disown(j) \/ Retry(j)

Spec == Init /\ [][Next]_absVars

=============================================================================
