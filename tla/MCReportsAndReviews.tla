-------------------------- MODULE MCReportsAndReviews --------------------------
(* The schedules that make exports and the approval of an export share no     *)
(* state here: a behaviour is one of the schedules or of the approval, while  *)
(* the other part stays as it was at the start.                               *)
EXTENDS ScheduledReports, MCExportGovernance

ReportsAndReviewsInit == Init /\ GovInit

ReportsAndReviewsNext ==
    \/ GovInit /\ Next /\ UNCHANGED govVars
    \/ Init /\ GovNext /\ UNCHANGED vars

ReportsAndReviewsSpec ==
    ReportsAndReviewsInit /\ [][ReportsAndReviewsNext]_<<vars, govVars>>

\* Runners and PATCHes are given the same two values, so that one exchange of
\* them serves both: no definition tells one from another.
Alike == Permutations(Runners \cup Patches)
===============================================================================
