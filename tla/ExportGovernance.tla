--------------------------- MODULE ExportGovernance ---------------------------
(***************************************************************************)
(* The approval of an export: a job may carry a gate that keeps its file    *)
(* from being downloaded until an actor other than its requester approves   *)
(* it.  The gate is a field of the job's filters, which PATCH reads twice,  *)
(* once to check the change and once to merge it, and then writes back as a *)
(* whole without a lock; the requester is known from an audit event that    *)
(* the creating call inserts after the job; a download reads the job twice  *)
(* as well.  Meanwhile workers run the job as ExportJobs says.              *)
(*                                                                         *)
(* The actor of a call is made from its headers, and by two rules: one for  *)
(* the audit event of the creation, the other for the approval.             *)
(***************************************************************************)
EXTENDS Naturals

CONSTANTS
    Job,              \* the one export this is about
    Workers, NoOwner, \* of ExportJobs
    Callers,          \* who may send a call, and with which headers
    Emails,           \* addresses of the members of the workspace
    Null,             \* null
    AsIs,             \* a field a patch leaves out
    Patches,          \* PATCH calls in progress at once
    Downloads         \* downloads in progress at once

\* A caller is a record: token says that he has the administrator's token,
\* manages that his role may manage approvals; session is the address of the
\* operator of his session, email what x-member-email says, type, id and
\* service what the headers of the same names say, each Null if missing.
\* person is who it is; no code knows that.

\* resolveRequestAuth: a session counts before x-member-email.
Principal(c) == IF c.session # Null THEN c.session ELSE c.email

\* getWorkspaceAccess
Admitted(c) == c.token \/ Principal(c) \in Emails

ASSUME GovConstantsOK ==
    /\ \A c \in Callers : Admitted(c)
    /\ Null \notin Callers \cup Emails
    /\ AsIs \notin {"none", "required", "not_required", "pending", "approved"}
    /\ AsIs \notin Callers \cup {Null}

VARIABLES
    status, owner, announced,   \* of ExportJobs
    gov,         \* filters.governance of the job
    posting,     \* who created the job, while his call is not over
    requester,   \* the audit event export.requested, if there is one
    patch,       \* PATCH /v1/export-jobs/:id
    overlapped,  \* calls since whose first read the job has changed
    download,    \* GET /v1/export-jobs/:id/download
    past         \* what has happened to the job; not stored

jobVars == <<status, owner, announced>>
govVars == <<jobVars, gov, posting, requester, patch, overlapped, download, past>>

Lifecycle == INSTANCE ExportJobs WITH Jobs <- {Job}

Modes      == {"none", "required"}
Approvals  == {"not_required", "pending", "approved"}
Ungated    == [mode |-> "none", approval |-> "not_required", approver |-> Null]
Gated      == [mode |-> "required", approval |-> "pending", approver |-> Null]
Approved(c) == [mode |-> "required", approval |-> "approved", approver |-> c]
Governance == {Ungated, Gated} \cup {Approved(c) : c \in Callers \cup {Null}}

Change == [mode : Modes \cup {AsIs}, approval : Approvals \cup {AsIs},
           approver : Callers \cup {Null, AsIs}]
NoChange == [mode |-> AsIs, approval |-> AsIs, approver |-> AsIs]
NoPatch  == [step |-> "idle", caller |-> Null, change |-> NoChange, next |-> Ungated]

Exists    == status[Job] # "none"
Completed == status[Job] = "completed"

GovInit ==
    /\ Lifecycle!Init
    /\ gov = Ungated
    /\ posting = Null
    /\ requester = {}
    /\ patch = [p \in Patches |-> NoPatch]
    /\ overlapped = {}
    /\ download = [d \in Downloads |-> "idle"]
    /\ past = {}

-----------------------------------------------------------------------------
(* Actors.  Their names are compared trimmed and in lower case, which is how  *)
(* they are written here.                                                     *)

Actor(type, id) == [type |-> type, id |-> id]

Explicit(c) == c.type # Null /\ c.id # Null

\* The actor an approval counts as.
getExportApprovalActor(c) ==
    IF Explicit(c) THEN Actor(c.type, c.id)
    ELSE IF ~c.token THEN Actor("member", Principal(c))
    ELSE IF c.email \in Emails THEN Actor("member", c.email)
    ELSE Actor(IF c.type = Null THEN "system" ELSE c.type,
               IF c.id = Null THEN "bootstrap" ELSE c.id)

\* The actor of an audit event of a call without a session.
sessionlessActor(c) ==
    IF c.email # Null THEN Actor(IF c.email \in Emails THEN "member" ELSE "operator", c.email)
    ELSE IF Explicit(c) THEN Actor(c.type, c.id)
    ELSE IF c.service # Null THEN Actor("service", c.service)
    ELSE Actor("system", "bootstrap")

\* The actors an audit event of the call may name: the operator of the session,
\* which is looked up anew, or, if it has been revoked by then, the next best.
getAuditActor(c) ==
    {sessionlessActor(c)} \cup IF c.session = Null THEN {} ELSE {Actor("operator", c.session)}

canManageExportGovernance(c) == c.token \/ c.manages

\* A requester is recorded, and is not the actor the approval counts as.
MayApprove(c) == \E e \in requester : e.actor # getExportApprovalActor(c)

-----------------------------------------------------------------------------
(* Helpers *)

\* Seeded fault: what a job without a gate says of its approval is kept.
normalizeGated(m, a, who) ==
    IF m # "required" THEN [mode |-> m, approval |-> a, approver |-> Null]
    ELSE IF a = "approved" THEN Approved(who) ELSE Gated

normalizeReportGovernance(m, a, who) ==
    IF m # "required" THEN Ungated ELSE IF a = "approved" THEN Approved(who) ELSE Gated

Or(new, old) == IF new = AsIs THEN old ELSE new

Merge(g, c) == normalizeReportGovernance(
    Or(c.mode, g.mode), Or(c.approval, g.approval), Or(c.approver, g.approver))

\* Seeded fault: the status of an approved export may be set again.
transitionOfUnapproved(c) ==
    LET mode     == Or(c.mode, gov.mode)
        approval == IF mode = "required" THEN Or(c.approval, gov.approval)
                                         ELSE "not_required"
    IN  /\ Completed /\ gov.mode = "required" => mode = "required"
        /\ approval = "approved" => Completed

\* No getGovernanceTransitionError.  As the status of an ungated export is
\* not_required, only a gated one can become approved.
TransitionAllowed(c) ==
    LET mode     == Or(c.mode, gov.mode)
        approval == IF mode = "required" THEN Or(c.approval, gov.approval)
                                         ELSE "not_required"
    IN  /\ Completed /\ gov.mode = "required" => mode = "required"
        /\ gov.approval = "approved" => approval = "approved"
        /\ approval = "approved" => Completed

GateOpen(g) == g.mode # "required" \/ g.approval = "approved"

Busy == {p \in Patches : patch[p].step # "idle"}

-----------------------------------------------------------------------------
(* The job *)

\* POST /v1/export-jobs, or a run of a scheduled report.  The filters may say
\* anything of the gate; whom they name as approver is the caller's text.
createExportJob ==
    /\ ~Exists
    /\ Lifecycle!Submit({Job}) /\ UNCHANGED <<owner, announced>>
    /\ posting' \in Callers \cup {Null}
    /\ \E m \in Modes, a \in Approvals : gov' = normalizeReportGovernance(m, a, Null)
    /\ past' = {e \in {"bornOpen", "bornApproved"} :
          \/ e = "bornOpen" /\ gov'.mode = "none"
          \/ e = "bornApproved" /\ gov'.approval = "approved"}
    /\ UNCHANGED <<requester, patch, overlapped, download>>

\* The audit event of the creation; or its insertion fails, and the job stays.
appendRequestAuditLog ==
    /\ posting # Null
    /\ \/ \E a \in getAuditActor(posting) : requester' = {[actor |-> a, by |-> posting]}
       \/ UNCHANGED requester
    /\ posting' = Null
    /\ UNCHANGED <<jobVars, gov, patch, overlapped, download, past>>

\* Claimed, completed, announced, failed, put back or retried.
runJob ==
    /\ Exists
    /\ Lifecycle!Next
    /\ overlapped' = IF status' = status THEN overlapped ELSE Busy
    /\ UNCHANGED <<gov, posting, requester, patch, download, past>>

-----------------------------------------------------------------------------
(* PATCH /v1/export-jobs/:id *)

Leave(p, r) ==
    /\ patch' = [patch EXCEPT ![p] = r]
    /\ UNCHANGED <<jobVars, gov, posting, requester, download, past>>

\* Of the workflow only: the gate is not looked at, but written back.
patchWorkflow(p) ==
    /\ patch[p].step = "idle" /\ Exists
    /\ Leave(p, [NoPatch EXCEPT !.step = "read"])
    /\ overlapped' = overlapped \ {p}

\* Of the governance: checked against the first read.  Approver and date in
\* the patch are ignored; an approval needs the actors, another status clears
\* them.
patchGovernance(p) ==
    /\ patch[p].step = "idle" /\ Exists
    /\ \E m \in Modes \cup {AsIs}, a \in Approvals \cup {AsIs}, by \in Callers :
          LET c == [mode |-> m, approval |-> a,
                    approver |-> IF a \in {"not_required", "pending"} THEN Null ELSE AsIs]
          IN  /\ canManageExportGovernance(by) /\ TransitionAllowed(c)
              /\ Leave(p, IF a = "approved"
                          THEN [NoPatch EXCEPT !.step = "actors", !.caller = by, !.change = c]
                          ELSE [NoPatch EXCEPT !.step = "read", !.change = c])
    /\ overlapped' = overlapped \ {p}

ApproverNamed(p) == [patch[p] EXCEPT !.step = "read", !.caller = Null,
                                     !.change.approver = patch[p].caller]

\* Seeded fault: an export without a recorded requester is anybody's.
actorsIfRecorded(p) ==
    /\ patch[p].step = "actors"
    /\ Leave(p, IF requester = {} \/ MayApprove(patch[p].caller) THEN ApproverNamed(p) ELSE NoPatch)
    /\ UNCHANGED overlapped

\* getExportRequestActor and isSameAuditActor: without a recorded requester, and
\* to the very actor that is recorded, the approval is refused.
getExportRequestActor(p) ==
    /\ patch[p].step = "actors"
    /\ Leave(p, IF MayApprove(patch[p].caller) THEN ApproverNamed(p) ELSE NoPatch)
    /\ UNCHANGED overlapped

\* The second read, merged at once.
readExportJob(p) ==
    /\ patch[p].step = "read"
    /\ Leave(p, [NoPatch EXCEPT !.step = "write", !.next = Merge(gov, patch[p].change)])
    /\ UNCHANGED overlapped

\* The whole of the filters, as merged.
updateExportJob(p) ==
    /\ patch[p].step = "write"
    /\ gov' = patch[p].next
    /\ patch' = [patch EXCEPT ![p] = NoPatch]
    /\ overlapped' = IF gov' = gov THEN overlapped ELSE Busy
    /\ past' = past \cup {e \in {"lifted", "reviewed"} :
          \/ e = "lifted" /\ gov.mode = "required" /\ gov'.mode = "none"
          \/ /\ e = "reviewed" /\ gov'.approval = "approved"
             /\ gov'.approver \in Callers /\ MayApprove(gov'.approver)}
    /\ UNCHANGED <<jobVars, posting, requester, download>>

-----------------------------------------------------------------------------
(* GET /v1/export-jobs/:id/download *)

MoveOn(d, at) ==
    /\ download' = [download EXCEPT ![d] = at]
    /\ UNCHANGED <<jobVars, gov, posting, requester, patch, overlapped, past>>

\* Seeded fault: the gate is left for when there is a file.
describeLazily(d) ==
    /\ download[d] = "idle" /\ Exists
    /\ Completed => GateOpen(gov)
    /\ MoveOn(d, "cleared")

\* The gate is checked, whether or not there is a file yet.
getExportJobDownloadDescriptor(d) ==
    /\ download[d] = "idle" /\ Exists
    /\ GateOpen(gov)
    /\ MoveOn(d, "cleared")

\* The job is read again, for the file; the gate is not.
getExportDownloadFile(d) ==
    /\ download[d] = "cleared"
    /\ MoveOn(d, IF Completed THEN "served" ELSE "idle")

endDownload(d) == download[d] = "served" /\ MoveOn(d, "idle")

\* A call fails or its process ends between two statements.
abandonPatch(p) ==
    /\ patch[p].step # "idle"
    /\ Leave(p, NoPatch)
    /\ UNCHANGED overlapped

GovNext ==
    \/ createExportJob \/ appendRequestAuditLog \/ runJob
    \/ \E p \in Patches :
          \/ patchWorkflow(p) \/ patchGovernance(p) \/ getExportRequestActor(p)
          \/ readExportJob(p) \/ updateExportJob(p) \/ abandonPatch(p)
    \/ \E d \in Downloads :
          \/ getExportJobDownloadDescriptor(d) \/ getExportDownloadFile(d)
          \/ endDownload(d)

GovSpec == GovInit /\ [][GovNext]_govVars

-----------------------------------------------------------------------------
(* Properties *)

\* Every variable has the type the code gives it; the gate is stored in one of
\* its normal forms.
GovTypeOK ==
    /\ gov \in Governance
    /\ posting \in Callers \cup {Null}
    /\ \/ requester = {}
       \/ \E c \in Callers : \E a \in getAuditActor(c) : requester = {[actor |-> a, by |-> c]}
    /\ patch \in [Patches -> [step : {"idle", "actors", "read", "write"},
                              caller : Callers \cup {Null}, change : Change,
                              next : Governance]]
    /\ overlapped \subseteq Patches
    /\ download \in [Downloads -> {"idle", "cleared", "served"}]
    /\ past \subseteq {"bornOpen", "bornApproved", "lifted", "reviewed"}

\* Of an export that was not created approved, an approval in force has a
\* recorded requester, and counts as another actor than the recorded one,
\* however PATCHes overwrite each other and whenever the audit event of the
\* creation appears.  That is said of actors, as the code compares them, not of
\* persons.
FourEyes ==
    /\ gov.approval = "approved" /\ "bornApproved" \notin past
    => \E e \in requester : /\ gov.approver \in Callers
                            /\ getExportApprovalActor(gov.approver) # e.actor

\* The file of an export created with its gate closed is served only after a
\* review that counts as another actor's than the recorded requester, or after
\* the gate has been lifted.
DownloadReviewed ==
    \A d \in Downloads :
       download[d] = "served" => past \cap {"bornOpen", "bornApproved", "lifted", "reviewed"} # {}

\* "The export requester cannot approve the same export": of an export that was
\* not created approved, the approver is another person than the one whose call
\* is recorded as its request.
SelfApprovalBlocked ==
    /\ gov.approval = "approved" /\ "bornApproved" \notin past
    => \A e \in requester : gov.approver \in Callers => gov.approver.person # e.by.person

\* An approval is reverted, the gate of a completed export lifted, or an
\* export approved that is not completed, only by a PATCH the job has changed
\* under since its first read: one after the other they never do.
GateKeptInTurn ==
    [][ \/ gov.approval = "approved" /\ gov'.approval # "approved"
        \/ gov.approval # "approved" /\ gov'.approval = "approved" /\ Exists /\ ~Completed
        \/ gov.mode = "required" /\ gov'.mode # "required" /\ Completed
        => \E p \in overlapped : patch[p].step = "write" /\ gov' = patch[p].next
      ]_govVars

\* "Approved exports cannot be reverted to a non-approved state".
ApprovalKept ==
    [][gov.approval = "approved" => gov'.approval = "approved"]_govVars

=============================================================================
