----------------------- MODULE ExportGovernanceProofs -----------------------
(***************************************************************************)
(* Theorems about ExportGovernance, for any callers and any number of       *)
(* workers, PATCH calls and downloads.                                      *)
(***************************************************************************)
EXTENDS ExportGovernance, TLAPS

CallersOrNobody == Callers \cup {Null}
Statuses == {"none", "pending", "running", "completed", "failed"}
PatchRec == [step : {"idle", "actors", "read", "write"}, caller : CallersOrNobody,
             change : Change, next : Governance]

GovInv == GovTypeOK /\ status \in [{Job} -> Statuses]

-----------------------------------------------------------------------------
(* Normal forms of the gate *)

\* A gate, field by field.
LEMMA GateFields ==
    /\ Ungated.mode = "none" /\ Ungated.approval = "not_required" /\ Ungated.approver = Null
    /\ Gated.mode = "required" /\ Gated.approval = "pending" /\ Gated.approver = Null
    /\ \A a : /\ Approved(a).mode = "required" /\ Approved(a).approval = "approved"
              /\ Approved(a).approver = a
  BY DEF Ungated, Gated, Approved

LEMMA GateCases ==
    ASSUME NEW g \in Governance
    PROVE  /\ g = Ungated \/ g = Gated \/ g = Approved(g.approver)
           /\ g.approver \in CallersOrNobody
  BY GateFields DEF Governance, CallersOrNobody

LEMMA GateNormal ==
    ASSUME NEW m, NEW a, NEW c \in CallersOrNobody
    PROVE  normalizeReportGovernance(m, a, c) \in Governance
  BY DEF normalizeReportGovernance, Governance, CallersOrNobody

LEMMA ChangeFields ==
    ASSUME NEW c \in Change
    PROVE  /\ c.mode \in Modes \cup {AsIs} /\ c.approval \in Approvals \cup {AsIs}
           /\ c.approver \in CallersOrNobody \cup {AsIs}
  BY DEF Change, CallersOrNobody

LEMMA NoChangeTyped == /\ NoChange \in Change /\ NoChange.mode = AsIs
                       /\ NoChange.approval = AsIs /\ NoChange.approver = AsIs
  BY DEF NoChange, Change

LEMMA NoPatchTyped == NoPatch \in PatchRec /\ NoPatch.step = "idle"
  BY NoChangeTyped DEF NoPatch, PatchRec, CallersOrNobody, Governance

LEMMA MergeTyped ==
    ASSUME NEW g \in Governance, NEW c \in Change
    PROVE  Merge(g, c) \in Governance
  <1>1. Or(c.approver, g.approver) \in CallersOrNobody
    BY GateCases, ChangeFields DEF Or
  <1> QED
    BY <1>1, GateNormal DEF Merge

\* A gate merged with nothing is as before.
LEMMA MergeNothing ==
    ASSUME NEW g \in Governance
    PROVE  Merge(g, NoChange) = g
  <1>1. Merge(g, NoChange) = normalizeReportGovernance(g.mode, g.approval, g.approver)
    BY NoChangeTyped DEF Merge, Or
  <1> QED
    BY <1>1, GateCases, GateFields DEF normalizeReportGovernance

LEMMA MergeFields ==
    ASSUME NEW g \in Governance, NEW c \in Change
    PROVE  /\ Merge(g, c).mode = "required" <=> Or(c.mode, g.mode) = "required"
           /\ Merge(g, c).approval = "approved" <=>
                 Or(c.mode, g.mode) = "required" /\ Or(c.approval, g.approval) = "approved"
           /\ Merge(g, c).approval = "approved" =>
                 Merge(g, c).approver = Or(c.approver, g.approver)
  BY GateFields DEF Merge, normalizeReportGovernance

-----------------------------------------------------------------------------
(* Types *)

LEMMA PatchTyped ==
    ASSUME GovTypeOK, NEW p \in Patches
    PROVE  /\ patch[p] \in PatchRec
           /\ patch[p].step \in {"idle", "actors", "read", "write"}
           /\ patch[p].caller \in CallersOrNobody /\ patch[p].change \in Change
           /\ patch[p].next \in Governance
  <1>1. patch[p] \in PatchRec
    BY DEF GovTypeOK, PatchRec, CallersOrNobody
  <1> QED
    BY <1>1 DEF PatchRec

LEMMA LeaveTyped ==
    ASSUME GovInv, NEW p \in Patches, NEW r \in PatchRec, Leave(p, r),
           overlapped' \subseteq Patches
    PROVE  GovInv'
  <1>1. patch' \in [Patches -> PatchRec]
    BY DEF GovInv, GovTypeOK, Leave, PatchRec, CallersOrNobody
  <1> QED
    BY <1>1 DEF GovInv, GovTypeOK, Leave, jobVars, PatchRec, CallersOrNobody

\* A job, once there, stays, and is in one of its states.
LEMMA JobSteps ==
    ASSUME status \in [{Job} -> Statuses], Lifecycle!Next
    PROVE  /\ status' \in [{Job} -> Statuses]
           /\ Exists => Exists'
  <1>1. CASE \E S \in SUBSET {Job} : Lifecycle!Submit(S) \/ Lifecycle!Requeue(S)
    BY <1>1 DEF Lifecycle!Submit, Lifecycle!Requeue, Statuses, Exists
  <1>2. ASSUME NEW j \in {Job},
               \/ Lifecycle!Claim(j) \/ Lifecycle!Complete(j) \/ Lifecycle!Announce(j)
               \/ Lifecycle!Fail(j) \/ Lifecycle!Disown(j) \/ Lifecycle!Retry(j)
        PROVE  /\ status' \in [{Job} -> Statuses]
               /\ Exists => Exists'
    <2>1. status' = status \/ \E v \in Statuses \ {"none"} : status' = [status EXCEPT ![j] = v]
      BY <1>2 DEF Lifecycle!Claim, Lifecycle!Complete, Lifecycle!Announce, Lifecycle!Fail,
         Lifecycle!Disown, Lifecycle!Retry, Statuses
    <2> QED
      BY <2>1 DEF Exists, Statuses
  <1> QED
    BY <1>1, <1>2 DEF Lifecycle!Next

LEMMA GovTypeInit == GovInit => GovInv
  BY NoPatchTyped, Zenon
  DEF GovInit, GovInv, GovTypeOK, Lifecycle!Init, Statuses, Governance, PatchRec, CallersOrNobody

LEMMA CreateTyped ==
    ASSUME GovInv, createExportJob
    PROVE  GovInv' /\ status'[Job] = "pending"
  <1>1. status' \in [{Job} -> Statuses] /\ status'[Job] = "pending"
    BY DEF createExportJob, Lifecycle!Submit, Statuses, GovInv
  <1>2. posting' \in CallersOrNobody /\ gov' \in Governance
        /\ past' \subseteq {"bornOpen", "bornApproved"}
    <2>1. PICK m \in Modes, a \in Approvals : gov' = normalizeReportGovernance(m, a, Null)
      BY DEF createExportJob
    <2> QED
      BY <2>1, GateNormal DEF createExportJob, CallersOrNobody
  <1>3. UNCHANGED <<requester, patch, overlapped, download>>
    BY DEF createExportJob
  <1> QED
    BY <1>1, <1>2, <1>3 DEF GovInv, GovTypeOK, CallersOrNobody

\* A PATCH of the governance that is allowed, by its fields.
Asked(m, a) == [mode |-> m, approval |-> a,
                approver |-> IF a \in {"not_required", "pending"} THEN Null ELSE AsIs]
Checked(m, a, by) ==
    IF a = "approved"
    THEN [NoPatch EXCEPT !.step = "actors", !.caller = by, !.change = Asked(m, a)]
    ELSE [NoPatch EXCEPT !.step = "read", !.change = Asked(m, a)]

LEMMA PatchChecked ==
    ASSUME NEW p \in Patches, patchGovernance(p)
    PROVE  \E m \in Modes \cup {AsIs}, a \in Approvals \cup {AsIs}, by \in Callers :
              TransitionAllowed(Asked(m, a)) /\ Leave(p, Checked(m, a, by))
  BY DEF patchGovernance, Checked, Asked

LEMMA CheckedFields ==
    ASSUME NEW m \in Modes \cup {AsIs}, NEW a \in Approvals \cup {AsIs}, NEW by \in Callers
    PROVE  /\ Asked(m, a) \in Change /\ Checked(m, a, by) \in PatchRec
           /\ Checked(m, a, by).step = IF a = "approved" THEN "actors" ELSE "read"
           /\ Checked(m, a, by).change = Asked(m, a)
           /\ a = "approved" => Checked(m, a, by).caller = by
           /\ Asked(m, a).approval = a
           /\ a = AsIs => Asked(m, a).approver = AsIs
  <1>0. /\ Asked(m, a).approval = a
        /\ a = AsIs => Asked(m, a).approver = AsIs
    BY GovConstantsOK DEF Asked
  <1>1. Asked(m, a) \in Change
    BY DEF Asked, Change
  <1> HIDE DEF Asked
  <1>2. NoPatch \in PatchRec
    BY NoPatchTyped
  <1> QED
    BY <1>0, <1>1, <1>2 DEF Checked, PatchRec, CallersOrNobody

LEMMA NamedFields ==
    ASSUME NEW p \in Patches, patch[p] \in PatchRec
    PROVE  /\ ApproverNamed(p) \in PatchRec
           /\ ApproverNamed(p).step = "read"
           /\ ApproverNamed(p).change \in Change
           /\ ApproverNamed(p).change.mode = patch[p].change.mode
           /\ ApproverNamed(p).change.approval = patch[p].change.approval
           /\ ApproverNamed(p).change.approver = patch[p].caller
  BY DEF ApproverNamed, PatchRec, Change, CallersOrNobody

LEMMA PatchSteps ==
    ASSUME GovInv, NEW p \in Patches,
           \/ patchWorkflow(p) \/ patchGovernance(p) \/ getExportRequestActor(p)
           \/ readExportJob(p) \/ abandonPatch(p)
    PROVE  \E r \in PatchRec : Leave(p, r) /\ overlapped' \subseteq Patches
  <1>1. overlapped \subseteq Patches
    BY DEF GovInv, GovTypeOK
  <1>2. patch[p] \in PatchRec
    BY PatchTyped DEF GovInv
  <1>3. CASE patchWorkflow(p)
    <2>1. [NoPatch EXCEPT !.step = "read"] \in PatchRec
      BY NoPatchTyped DEF PatchRec
    <2> QED
      BY <1>1, <1>3, <2>1 DEF patchWorkflow
  <1>4. CASE patchGovernance(p)
    <2>1. PICK m \in Modes \cup {AsIs}, a \in Approvals \cup {AsIs}, by \in Callers :
             Leave(p, Checked(m, a, by))
      BY <1>4, PatchChecked
    <2>2. Checked(m, a, by) \in PatchRec
      BY CheckedFields
    <2> QED
      BY <1>1, <1>4, <2>1, <2>2 DEF patchGovernance
  <1>5. CASE getExportRequestActor(p)
    <2>1. ApproverNamed(p) \in PatchRec
      BY <1>2, NamedFields
    <2> QED
      BY <1>1, <1>5, <2>1, NoPatchTyped DEF getExportRequestActor
  <1>6. CASE readExportJob(p)
    <2>1. Merge(gov, patch[p].change) \in Governance
      BY PatchTyped, MergeTyped DEF GovInv, GovTypeOK
    <2>2. [NoPatch EXCEPT !.step = "write", !.next = Merge(gov, patch[p].change)] \in PatchRec
      BY <2>1, NoPatchTyped DEF PatchRec
    <2> QED
      BY <1>1, <1>6, <2>2 DEF readExportJob
  <1>7. CASE abandonPatch(p)
    BY <1>1, <1>7, NoPatchTyped DEF abandonPatch
  <1> QED
    BY <1>3, <1>4, <1>5, <1>6, <1>7

LEMMA GovTypeNext == GovInv /\ [GovNext]_govVars => GovInv'
  <1> SUFFICES ASSUME GovInv, [GovNext]_govVars
               PROVE  GovInv'
    OBVIOUS
  <1>1. ASSUME appendRequestAuditLog
        PROVE  GovInv'
    <2>1. posting \in Callers /\ posting' = Null
      BY <1>1 DEF appendRequestAuditLog, GovInv, GovTypeOK
    <2>2. \/ requester' = {}
          \/ \E c \in Callers : \E a \in getAuditActor(c) : requester' = {[actor |-> a, by |-> c]}
      BY <1>1, <2>1 DEF appendRequestAuditLog, GovInv, GovTypeOK
    <2> QED
      BY <1>1, <2>1, <2>2 DEF appendRequestAuditLog, jobVars, GovInv, GovTypeOK
  <1>2. ASSUME runJob
        PROVE  GovInv'
    <2>1. status' \in [{Job} -> Statuses]
      BY <1>2, JobSteps DEF runJob, GovInv
    <2>2. overlapped' \subseteq Patches
      BY <1>2 DEF runJob, Busy, GovInv, GovTypeOK
    <2> QED
      BY <1>2, <2>1, <2>2 DEF runJob, GovInv, GovTypeOK
  <1>3. ASSUME NEW p \in Patches,
               \/ patchWorkflow(p) \/ patchGovernance(p) \/ getExportRequestActor(p)
               \/ readExportJob(p) \/ abandonPatch(p)
        PROVE  GovInv'
    BY <1>3, PatchSteps, LeaveTyped
  <1>4. ASSUME NEW p \in Patches, updateExportJob(p)
        PROVE  GovInv'
    <2>1. gov' \in Governance
      BY <1>4, PatchTyped DEF updateExportJob, GovInv
    <2>2. patch' \in [Patches -> PatchRec]
      BY <1>4, NoPatchTyped DEF updateExportJob, GovInv, GovTypeOK, PatchRec, CallersOrNobody
    <2>3. overlapped' \subseteq Patches /\ past' \subseteq {"bornOpen", "bornApproved", "lifted", "reviewed"}
      BY <1>4 DEF updateExportJob, Busy, GovInv, GovTypeOK
    <2> QED
      BY <1>4, <2>1, <2>2, <2>3 DEF updateExportJob, jobVars, GovInv, GovTypeOK, PatchRec, CallersOrNobody
  <1>5. ASSUME NEW d \in Downloads,
               \/ getExportJobDownloadDescriptor(d) \/ getExportDownloadFile(d)
               \/ endDownload(d)
        PROVE  GovInv'
    BY <1>5 DEF getExportJobDownloadDescriptor, getExportDownloadFile, endDownload, MoveOn,
       jobVars, GovInv, GovTypeOK
  <1>6. CASE UNCHANGED govVars
    BY <1>6 DEF govVars, jobVars, GovInv, GovTypeOK
  <1> QED
    BY <1>1, <1>2, <1>3, <1>4, <1>5, <1>6, CreateTyped DEF GovNext

\* The types of the governance, together with those of the job's lifecycle.
THEOREM GovInvariant == GovSpec => []GovInv
  BY GovTypeInit, GovTypeNext, PTL DEF GovSpec

\* Types are kept, and the gate is always stored in one of its normal forms.
THEOREM GovTypeCorrect == GovSpec => []GovTypeOK
  <1>1. GovInv => GovTypeOK
    BY DEF GovInv
  <1> QED
    BY <1>1, GovInvariant, PTL

-----------------------------------------------------------------------------
(* Approvals *)

\* Before the job is there, nothing else is.
Unborn == ~Exists => /\ gov = Ungated /\ posting = Null /\ requester = {} /\ past = {}
                     /\ \A p \in Patches : patch[p].step = "idle"
                     /\ \A d \in Downloads : download[d] = "idle"

\* A caller whose approval counts as another actor's than the recorded one.
ByAnother(c, req) == c \in Callers /\ \E e \in req : e.actor # getExportApprovalActor(c)
Reviewed(g, req) == g.approval = "approved" => ByAnother(g.approver, req)

\* What a PATCH holds of the approval: while its actors have not been
\* checked it names no approver, then it names one who may approve.
PatchReviewed(r, req) ==
    /\ r.step = "actors" => r.change.approval = "approved" /\ r.caller \in Callers
    /\ r.step \in {"read", "write"} =>
          /\ r.change.approval = AsIs => r.change.approver = AsIs
          /\ r.change.approval = "approved" => ByAnother(r.change.approver, req)
    /\ r.step = "write" => Reviewed(r.next, req)

FourEyesInv ==
    /\ Unborn
    /\ posting # Null => requester = {}
    /\ "bornApproved" \notin past => /\ Reviewed(gov, requester)
                                     /\ \A p \in Patches : PatchReviewed(patch[p], requester)

LEMMA PatchElsewhere ==
    ASSUME GovInv, NEW p \in Patches, NEW r \in PatchRec, Leave(p, r)
    PROVE  /\ patch'[p] = r
           /\ \A q \in Patches : q # p => patch'[q] = patch[q]
           /\ UNCHANGED <<status, gov, posting, requester, download, past>>
  BY DEF Leave, jobVars, GovInv, GovTypeOK

\* A merged gate is approved by the change's own approver, or as it was.
LEMMA MergeReviewed ==
    ASSUME NEW g \in Governance, NEW c \in Change, NEW req,
           Reviewed(g, req), c.approval = AsIs => c.approver = AsIs,
           c.approval = "approved" => ByAnother(c.approver, req)
    PROVE  Reviewed(Merge(g, c), req)
  <1> SUFFICES ASSUME Merge(g, c).approval = "approved"
               PROVE  ByAnother(Merge(g, c).approver, req)
    BY DEF Reviewed
  <1>1. /\ Or(c.approval, g.approval) = "approved"
        /\ Merge(g, c).approver = Or(c.approver, g.approver)
    BY MergeFields
  <1>2. CASE c.approval = AsIs
    BY <1>1, <1>2 DEF Or, Reviewed
  <1>3. CASE c.approval # AsIs
    <2>1. ByAnother(c.approver, req)
      BY <1>1, <1>3 DEF Or
    <2>2. c.approver # AsIs
      BY <2>1, GovConstantsOK DEF ByAnother
    <2> QED
      BY <1>1, <2>1, <2>2 DEF Or
  <1> QED
    BY <1>2, <1>3

LEMMA PatchStepReviewed ==
    ASSUME GovInv, NEW p \in Patches, PatchReviewed(patch[p], requester),
           Reviewed(gov, requester),
           \/ patchWorkflow(p) \/ patchGovernance(p) \/ getExportRequestActor(p)
           \/ readExportJob(p) \/ abandonPatch(p)
    PROVE  PatchReviewed(patch'[p], requester)
  <1>1. patch[p] \in PatchRec /\ patch[p].change \in Change
    BY PatchTyped DEF GovInv
  <1>2. AsIs # "approved" /\ AsIs # "pending" /\ AsIs # "not_required"
    BY GovConstantsOK
  <1>3. \A r : Leave(p, r) => patch'[p] = r
    BY DEF Leave, GovInv, GovTypeOK
  <1>4. CASE patchWorkflow(p)
    <2>1. patch'[p] = [NoPatch EXCEPT !.step = "read"]
      BY <1>3, <1>4 DEF patchWorkflow
    <2> QED
      BY <1>2, <2>1, NoChangeTyped DEF PatchReviewed, NoPatch
  <1>5. CASE patchGovernance(p)
    <2>1. PICK m \in Modes \cup {AsIs}, a \in Approvals \cup {AsIs}, by \in Callers :
             patch'[p] = Checked(m, a, by)
      BY <1>3, <1>5, PatchChecked
    <2>2. /\ patch'[p].step = IF a = "approved" THEN "actors" ELSE "read"
          /\ patch'[p].change.approval = a
          /\ a = AsIs => patch'[p].change.approver = AsIs
          /\ a = "approved" => patch'[p].caller = by
      BY <2>1, CheckedFields
    <2>3. CASE a = "approved"
      BY <2>2, <2>3 DEF PatchReviewed
    <2>4. CASE a # "approved"
      BY <2>2, <2>4 DEF PatchReviewed
    <2> QED
      BY <2>3, <2>4
  <1>6. CASE getExportRequestActor(p)
    <2>1. CASE ~MayApprove(patch[p].caller)
      BY <1>3, <1>6, <2>1, NoPatchTyped DEF getExportRequestActor, PatchReviewed
    <2>2. CASE MayApprove(patch[p].caller)
      <3>1. patch'[p] = ApproverNamed(p)
        BY <1>3, <1>6, <2>2 DEF getExportRequestActor
      <3>2. /\ patch'[p].step = "read"
            /\ patch'[p].change.approval = patch[p].change.approval
            /\ patch'[p].change.approver = patch[p].caller
        BY <1>1, <3>1, NamedFields
      <3>3. patch[p].change.approval = "approved" /\ patch[p].caller \in Callers
        BY <1>6 DEF getExportRequestActor, PatchReviewed
      <3> QED
        BY <1>2, <2>2, <3>2, <3>3 DEF PatchReviewed, ByAnother, MayApprove
    <2> QED
      BY <2>1, <2>2
  <1>7. CASE readExportJob(p)
    <2>1. patch'[p] = [NoPatch EXCEPT !.step = "write", !.next = Merge(gov, patch[p].change)]
          /\ patch[p].step = "read"
      BY <1>3, <1>7 DEF readExportJob
    <2>2. /\ patch'[p].step = "write" /\ patch'[p].change = NoChange
          /\ patch'[p].next = Merge(gov, patch[p].change)
      BY <2>1 DEF NoPatch
    <2>3. Reviewed(Merge(gov, patch[p].change), requester)
      BY <1>1, <2>1, MergeReviewed DEF PatchReviewed, GovInv, GovTypeOK
    <2> QED
      BY <2>2, <2>3, NoChangeTyped, GovConstantsOK DEF PatchReviewed
  <1>8. CASE abandonPatch(p)
    BY <1>3, <1>8, NoPatchTyped DEF abandonPatch, PatchReviewed
  <1> QED
    BY <1>4, <1>5, <1>6, <1>7, <1>8

\* What the history says of a new job is what its gate is.
LEMMA NewGate ==
    ASSUME createExportJob
    PROVE  /\ gov'.approval = "approved" => "bornApproved" \in past'
           /\ GateOpen(gov') => past' # {}
  <1>1. PICK m \in Modes, a \in Approvals : gov' = normalizeReportGovernance(m, a, Null)
    BY DEF createExportJob
  <1>2. gov' \in {Ungated, Gated, Approved(Null)}
    BY <1>1 DEF normalizeReportGovernance
  <1> QED
    BY <1>2, GateFields DEF createExportJob, GateOpen

\* What happens to the job and to a download leaves the approval alone.
LEMMA FourEyesFrame ==
    ASSUME GovInv, FourEyesInv, Exists', UNCHANGED <<gov, requester, patch, past>>,
           posting' = posting \/ posting' = Null
    PROVE  FourEyesInv'
  BY DEF FourEyesInv, Unborn

LEMMA FourEyesStep ==
    ASSUME GovInv, FourEyesInv, [GovNext]_govVars
    PROVE  FourEyesInv'
  <1>1. CASE createExportJob
    <2>1. Exists' /\ ~Exists
      BY <1>1, CreateTyped DEF createExportJob, Exists
    <2>2. requester' = {} /\ \A p \in Patches : patch'[p].step = "idle"
      BY <1>1, <2>1 DEF createExportJob, FourEyesInv, Unborn
    <2>3. "bornApproved" \notin past' => gov'.approval # "approved"
      BY <1>1, NewGate
    <2>4. "bornApproved" \notin past' => Reviewed(gov', requester')
      BY <2>3, GateFields DEF Reviewed
    <2>5. \A p \in Patches : PatchReviewed(patch'[p], requester')
      BY <2>2 DEF PatchReviewed
    <2> QED
      BY <2>1, <2>2, <2>4, <2>5 DEF FourEyesInv, Unborn
  <1>2. CASE appendRequestAuditLog
    <2>1. /\ posting # Null /\ posting' = Null
          /\ UNCHANGED <<status, gov, patch, download, past>>
      BY <1>2 DEF appendRequestAuditLog, jobVars
    <2>2. requester = {} /\ Exists
      BY <2>1 DEF FourEyesInv, Unborn
    <2>3. ASSUME "bornApproved" \notin past
          PROVE  Reviewed(gov, requester') /\ \A p \in Patches : PatchReviewed(patch[p], requester')
      BY <2>2, <2>3 DEF FourEyesInv, Reviewed, PatchReviewed, ByAnother
    <2> QED
      BY <2>1, <2>2, <2>3 DEF FourEyesInv, Unborn, Exists
  <1>3. CASE runJob
    <2>1. Exists'
      BY <1>3, JobSteps DEF runJob, GovInv
    <2> QED
      BY <1>3, <2>1, FourEyesFrame DEF runJob
  <1>4. ASSUME NEW p \in Patches,
               \/ patchWorkflow(p) \/ patchGovernance(p) \/ getExportRequestActor(p)
               \/ readExportJob(p) \/ abandonPatch(p)
        PROVE  FourEyesInv'
    <2>1. Exists
      BY <1>4 DEF patchWorkflow, patchGovernance, getExportRequestActor, readExportJob,
         abandonPatch, FourEyesInv, Unborn
    <2>2. PICK r \in PatchRec : Leave(p, r)
      BY <1>4, PatchSteps
    <2>3. /\ \A q \in Patches : q # p => patch'[q] = patch[q]
          /\ UNCHANGED <<status, gov, posting, requester, download, past>>
      BY <2>2, PatchElsewhere
    <2>4. "bornApproved" \notin past => PatchReviewed(patch'[p], requester)
      BY <1>4, PatchStepReviewed DEF FourEyesInv
    <2> QED
      BY <2>1, <2>3, <2>4 DEF FourEyesInv, Unborn, Exists
  <1>5. ASSUME NEW p \in Patches, updateExportJob(p)
        PROVE  FourEyesInv'
    <2>1. /\ patch[p].step = "write" /\ gov' = patch[p].next
          /\ patch' = [patch EXCEPT ![p] = NoPatch]
          /\ past \subseteq past' /\ ("bornApproved" \in past' => "bornApproved" \in past)
          /\ UNCHANGED <<status, posting, requester, download>>
      BY <1>5 DEF updateExportJob, jobVars
    <2>2. Exists
      BY <2>1 DEF FourEyesInv, Unborn
    <2>3. "bornApproved" \notin past => Reviewed(gov', requester)
      BY <2>1 DEF FourEyesInv, PatchReviewed
    <2>4. \A q \in Patches : patch'[q] = IF q = p THEN NoPatch ELSE patch[q]
      BY <2>1 DEF GovInv, GovTypeOK
    <2>5. PatchReviewed(NoPatch, requester)
      BY NoPatchTyped DEF PatchReviewed
    <2> QED
      BY <2>1, <2>2, <2>3, <2>4, <2>5 DEF FourEyesInv, Unborn, Exists
  <1>6. ASSUME NEW d \in Downloads,
               \/ getExportJobDownloadDescriptor(d) \/ getExportDownloadFile(d)
               \/ endDownload(d)
        PROVE  FourEyesInv'
    <2>1. download[d] = "idle" => Exists
      BY <1>6 DEF getExportJobDownloadDescriptor, getExportDownloadFile, endDownload
    <2>2. Exists
      BY <2>1 DEF FourEyesInv, Unborn
    <2>3. UNCHANGED <<status, gov, posting, requester, patch, past>>
      BY <1>6 DEF getExportJobDownloadDescriptor, getExportDownloadFile, endDownload,
         MoveOn, jobVars
    <2> QED
      BY <2>2, <2>3, FourEyesFrame DEF Exists
  <1>7. CASE UNCHANGED govVars
    BY <1>7 DEF govVars, jobVars, FourEyesInv, Unborn, Exists
  <1> QED
    BY <1>1, <1>2, <1>3, <1>4, <1>5, <1>6, <1>7 DEF GovNext

\* A PATCH that has passed the check of the actors carries, and later has merged,
\* an approver who counts as another actor than the requester, who is recorded
\* at most once.
THEOREM FourEyesInvariant == GovSpec => []FourEyesInv
  <1>1. GovInit => FourEyesInv
    BY NoPatchTyped, GateFields
    DEF GovInit, Lifecycle!Init, FourEyesInv, Unborn, Exists, Reviewed, PatchReviewed
  <1> QED
    BY <1>1, FourEyesStep, GovInvariant, PTL DEF GovSpec

\* Of an export that was not created approved: however PATCHes overwrite each
\* other, and whenever the audit event of the creation appears, an approval in
\* force counts as another actor's than the recorded one.
THEOREM FourEyesHolds == GovSpec => []FourEyes
  <1>1. FourEyesInv => FourEyes
    BY DEF FourEyesInv, FourEyes, Reviewed, ByAnother
  <1> QED
    BY <1>1, FourEyesInvariant, PTL

-----------------------------------------------------------------------------
(* Downloads *)

\* A gate is open only after something opened it, and so is a download let
\* through.
DownloadInv ==
    Exists /\ (GateOpen(gov) \/ \E d \in Downloads : download[d] # "idle") => past # {}

LEMMA DownloadStep ==
    ASSUME GovInv, FourEyesInv, DownloadInv, [GovNext]_govVars
    PROVE  DownloadInv'
  <1>1. CASE createExportJob
    <2>1. \A d \in Downloads : download'[d] = "idle"
      BY <1>1 DEF createExportJob, FourEyesInv, Unborn
    <2> QED
      BY <1>1, <2>1, NewGate DEF DownloadInv, GateOpen
  <1>2. ASSUME appendRequestAuditLog \/ UNCHANGED govVars
        PROVE  DownloadInv'
    BY <1>2 DEF appendRequestAuditLog, govVars, jobVars, DownloadInv, GateOpen, Exists
  <1>3. CASE runJob
    BY <1>3 DEF runJob, DownloadInv, GateOpen
  <1>4. ASSUME NEW p \in Patches,
               \/ patchWorkflow(p) \/ patchGovernance(p) \/ getExportRequestActor(p)
               \/ readExportJob(p) \/ abandonPatch(p)
        PROVE  DownloadInv'
    <2>1. PICK r \in PatchRec : Leave(p, r)
      BY <1>4, PatchSteps
    <2>2. UNCHANGED <<status, gov, download, past>>
      BY <2>1, PatchElsewhere
    <2> QED
      BY <2>2 DEF DownloadInv, GateOpen, Exists
  <1>5. ASSUME NEW p \in Patches, updateExportJob(p)
        PROVE  DownloadInv'
    <2>1. /\ patch[p].step = "write" /\ gov' = patch[p].next
          /\ past \subseteq past' /\ UNCHANGED <<status, requester, download>>
          /\ gov.mode = "required" /\ gov'.mode = "none" => "lifted" \in past'
          /\ gov'.approval = "approved" /\ gov'.approver \in Callers /\ MayApprove(gov'.approver)
             => "reviewed" \in past'
      BY <1>5 DEF updateExportJob, jobVars
    <2>2. SUFFICES ASSUME past = {}, Exists, GateOpen(gov')
                   PROVE  past' # {}
      BY <2>1 DEF DownloadInv, GateOpen, Exists
    <2>3. gov.mode = "required"
      BY <2>2 DEF DownloadInv, GateOpen
    <2>4. Reviewed(gov', requester)
      BY <2>1, <2>2 DEF FourEyesInv, PatchReviewed
    <2>5. gov' \in Governance
      BY <2>1, PatchTyped DEF GovInv
    <2>6. gov'.mode = "none" \/ gov'.approval = "approved"
      BY <2>2, <2>5, GateCases, GateFields DEF GateOpen
    <2> QED
      BY <2>1, <2>3, <2>4, <2>6 DEF Reviewed, ByAnother, MayApprove
  <1>6. ASSUME NEW d \in Downloads, getExportJobDownloadDescriptor(d)
        PROVE  DownloadInv'
    BY <1>6 DEF getExportJobDownloadDescriptor, MoveOn, jobVars, DownloadInv, Exists
  <1>7. ASSUME NEW d \in Downloads, getExportDownloadFile(d) \/ endDownload(d)
        PROVE  DownloadInv'
    <2>1. download[d] # "idle" /\ UNCHANGED <<status, gov, past>>
      BY <1>7 DEF getExportDownloadFile, endDownload, MoveOn, jobVars
    <2> QED
      BY <2>1 DEF DownloadInv, Exists
  <1> QED
    BY <1>1, <1>2, <1>3, <1>4, <1>5, <1>6, <1>7 DEF GovNext

\* The file of an export whose gate was closed at first is served only after a
\* review that counts as another actor's or after the gate has been lifted.
THEOREM DownloadReviewedHolds == GovSpec => []DownloadReviewed
  <1>1. GovInit => DownloadInv
    BY DEF GovInit, Lifecycle!Init, DownloadInv, Exists
  <1>2. GovInv /\ FourEyesInv /\ DownloadInv => DownloadReviewed
    <2>1. SUFFICES ASSUME GovInv, FourEyesInv, DownloadInv, NEW d \in Downloads,
                          download[d] = "served"
                   PROVE  past \cap {"bornOpen", "bornApproved", "lifted", "reviewed"} # {}
      BY DEF DownloadReviewed
    <2>2. Exists
      BY <2>1 DEF FourEyesInv, Unborn
    <2> QED
      BY <2>1, <2>2 DEF DownloadInv, GovInv, GovTypeOK
  <1> QED
    BY <1>1, <1>2, DownloadStep, FourEyesInvariant, GovInvariant, PTL DEF GovSpec

-----------------------------------------------------------------------------
(* PATCHes in turn *)

\* A change of the workflow only, or one that the job as it is allows.
Harmless(c) == (c.mode = AsIs /\ c.approval = AsIs) \/ TransitionAllowed(c)

\* A gate that neither reverts an approval, nor approves an export that is not
\* completed, nor lifts the gate of one that is.
Allowed(g) ==
    /\ gov.approval = "approved" => g.approval = "approved"
    /\ gov.approval # "approved" /\ g.approval = "approved" => Completed
    /\ gov.mode = "required" /\ Completed => g.mode = "required"

\* As long as the job has not changed under a PATCH, what it checked holds,
\* and what it will write is allowed.
InTurn(r) == /\ r.step \in {"actors", "read"} => Harmless(r.change)
             /\ r.step = "write" => Allowed(r.next)
TurnInv == \A p \in Patches \ overlapped : InTurn(patch[p])

\* A harmless change, merged with what is there, is allowed.
LEMMA HarmlessMerge ==
    ASSUME GovInv, NEW c \in Change, Harmless(c)
    PROVE  Allowed(Merge(gov, c))
  <1>1. gov \in Governance
    BY DEF GovInv, GovTypeOK
  <1>2. gov.approval = "approved" => gov.mode = "required"
    BY <1>1, GateCases, GateFields
  <1>3. /\ Merge(gov, c).mode = "required" <=> Or(c.mode, gov.mode) = "required"
        /\ Merge(gov, c).approval = "approved" <=>
              /\ Or(c.mode, gov.mode) = "required"
              /\ Or(c.approval, gov.approval) = "approved"
    BY <1>1, MergeFields
  <1>4. CASE c.mode = AsIs /\ c.approval = AsIs
    BY <1>2, <1>3, <1>4 DEF Allowed, Or
  <1>5. CASE TransitionAllowed(c)
    BY <1>2, <1>3, <1>5 DEF Allowed, TransitionAllowed
  <1> QED
    BY <1>4, <1>5 DEF Harmless

\* A change is as harmless in the next state, while job and gate stay.
LEMMA HarmlessStays ==
    ASSUME UNCHANGED <<status, gov>>, NEW r, InTurn(r)
    PROVE  /\ r.step \in {"actors", "read"} => Harmless(r.change)'
           /\ r.step = "write" => Allowed(r.next)'
  BY DEF InTurn, Harmless, Allowed, TransitionAllowed, Completed

LEMMA PatchStepInTurn ==
    ASSUME GovInv, NEW p \in Patches,
           \/ patchWorkflow(p) \/ patchGovernance(p)
           \/ InTurn(patch[p]) /\ (getExportRequestActor(p) \/ readExportJob(p) \/ abandonPatch(p))
    PROVE  InTurn(patch'[p])
  <1>1. patch[p] \in PatchRec /\ patch[p].change \in Change
    BY PatchTyped DEF GovInv
  <1>2. \A r : Leave(p, r) => patch'[p] = r
    BY DEF Leave, GovInv, GovTypeOK
  <1>3. InTurn(NoPatch)
    BY NoPatchTyped DEF InTurn
  <1>4. CASE patchWorkflow(p)
    <2>1. patch'[p] = [NoPatch EXCEPT !.step = "read"]
      BY <1>2, <1>4 DEF patchWorkflow
    <2>2. patch'[p].step = "read" /\ patch'[p].change = NoChange
      BY <2>1 DEF NoPatch
    <2> QED
      BY <2>2, NoChangeTyped DEF InTurn, Harmless
  <1>5. CASE patchGovernance(p)
    <2>1. PICK m \in Modes \cup {AsIs}, a \in Approvals \cup {AsIs}, by \in Callers :
             TransitionAllowed(Asked(m, a)) /\ patch'[p] = Checked(m, a, by)
      BY <1>2, <1>5, PatchChecked
    <2>2. patch'[p].step \in {"actors", "read"} /\ patch'[p].change = Asked(m, a)
      BY <2>1, CheckedFields
    <2> QED
      BY <2>1, <2>2 DEF InTurn, Harmless
  <1>6. CASE InTurn(patch[p]) /\ getExportRequestActor(p)
    <2>1. CASE ~MayApprove(patch[p].caller)
      BY <1>2, <1>3, <1>6, <2>1 DEF getExportRequestActor
    <2>2. CASE MayApprove(patch[p].caller)
      <3>1. patch'[p] = ApproverNamed(p)
        BY <1>2, <1>6, <2>2 DEF getExportRequestActor
      <3>2. /\ patch'[p].step = "read"
            /\ patch'[p].change.approval = patch[p].change.approval
            /\ patch'[p].change.mode = patch[p].change.mode
        BY <1>1, <3>1, NamedFields
      <3>3. Harmless(patch[p].change)
        BY <1>6 DEF InTurn, getExportRequestActor
      <3> QED
        BY <3>2, <3>3 DEF InTurn, Harmless, TransitionAllowed
    <2> QED
      BY <2>1, <2>2
  <1>7. CASE InTurn(patch[p]) /\ readExportJob(p)
    <2>1. patch'[p] = [NoPatch EXCEPT !.step = "write", !.next = Merge(gov, patch[p].change)]
          /\ patch[p].step = "read"
      BY <1>2, <1>7 DEF readExportJob
    <2>2. patch'[p].step = "write" /\ patch'[p].next = Merge(gov, patch[p].change)
      BY <2>1 DEF NoPatch
    <2>3. Allowed(Merge(gov, patch[p].change))
      BY <1>1, <1>7, <2>1, HarmlessMerge DEF InTurn
    <2> QED
      BY <2>2, <2>3 DEF InTurn
  <1>8. CASE abandonPatch(p)
    BY <1>2, <1>3, <1>8 DEF abandonPatch
  <1> QED
    BY <1>4, <1>5, <1>6, <1>7, <1>8

\* A step that leaves job, gate and PATCHes alone, or marks those it changes
\* the job under.
LEMMA TurnFrame ==
    ASSUME GovInv, TurnInv, UNCHANGED patch,
           overlapped' = Busy \/ (UNCHANGED <<status, gov>> /\ overlapped' = overlapped)
    PROVE  TurnInv'
  <1>1. CASE overlapped' = Busy
    BY <1>1 DEF TurnInv, InTurn, Busy
  <1>2. CASE UNCHANGED <<status, gov>> /\ overlapped' = overlapped
    BY <1>2, HarmlessStays DEF TurnInv, InTurn
  <1> QED
    BY <1>1, <1>2

LEMMA TurnStep ==
    ASSUME GovInv, FourEyesInv, TurnInv, [GovNext]_govVars
    PROVE  TurnInv'
  <1>1. CASE createExportJob
    <2>1. \A p \in Patches : patch'[p].step = "idle"
      BY <1>1 DEF createExportJob, FourEyesInv, Unborn
    <2> QED
      BY <2>1 DEF TurnInv, InTurn
  <1>2. ASSUME \/ appendRequestAuditLog
               \/ \E d \in Downloads : \/ getExportJobDownloadDescriptor(d)
                                       \/ getExportDownloadFile(d) \/ endDownload(d)
               \/ UNCHANGED govVars
        PROVE  TurnInv'
    <2>1. UNCHANGED <<status, gov, patch, overlapped>>
      BY <1>2 DEF appendRequestAuditLog, getExportJobDownloadDescriptor,
         getExportDownloadFile, endDownload, MoveOn, govVars, jobVars
    <2> QED
      BY <2>1, TurnFrame
  <1>3. CASE runJob
    BY <1>3, TurnFrame DEF runJob
  <1>4. ASSUME NEW p \in Patches,
               \/ patchWorkflow(p) \/ patchGovernance(p) \/ getExportRequestActor(p)
               \/ readExportJob(p) \/ abandonPatch(p)
        PROVE  TurnInv'
    <2>1. PICK r \in PatchRec : Leave(p, r)
      BY <1>4, PatchSteps
    <2>2. /\ \A q \in Patches : q # p => patch'[q] = patch[q]
          /\ UNCHANGED <<status, gov>>
      BY <2>1, PatchElsewhere
    <2>3. \/ overlapped' = overlapped
          \/ overlapped' = overlapped \ {p} /\ (patchWorkflow(p) \/ patchGovernance(p))
      BY <1>4 DEF patchWorkflow, patchGovernance, getExportRequestActor, readExportJob,
         abandonPatch
    <2>4. p \notin overlapped' => InTurn(patch'[p])
      <3>1. CASE patchWorkflow(p) \/ patchGovernance(p)
        BY <3>1, PatchStepInTurn
      <3>2. CASE ~(patchWorkflow(p) \/ patchGovernance(p))
        BY <1>4, <2>3, <3>2, PatchStepInTurn DEF TurnInv
      <3> QED
        BY <3>1, <3>2
    <2>5. ASSUME NEW q \in Patches \ overlapped'
          PROVE  InTurn(patch'[q])
      BY <2>2, <2>3, <2>4, <2>5 DEF TurnInv
    <2> QED
      BY <2>2, <2>5, HarmlessStays DEF TurnInv, InTurn
  <1>5. ASSUME NEW p \in Patches, updateExportJob(p)
        PROVE  TurnInv'
    <2>1. /\ patch' = [patch EXCEPT ![p] = NoPatch] /\ UNCHANGED status
          /\ overlapped' = IF gov' = gov THEN overlapped ELSE Busy
      BY <1>5 DEF updateExportJob, jobVars
    <2>2. \A q \in Patches : patch'[q] = IF q = p THEN NoPatch ELSE patch[q]
      BY <2>1 DEF GovInv, GovTypeOK
    <2>3. ASSUME NEW q \in Patches \ overlapped', q # p
          PROVE  InTurn(patch[q])'
      <3>1. CASE gov' = gov
        <4>1. InTurn(patch[q])
          BY <2>1, <2>3, <3>1 DEF TurnInv
        <4> QED
          BY <2>1, <2>2, <2>3, <3>1, <4>1, HarmlessStays DEF InTurn
      <3>2. CASE gov' # gov
        BY <2>1, <2>2, <2>3, <3>2 DEF InTurn, Busy
      <3> QED
        BY <3>1, <3>2
    <2> QED
      BY <2>2, <2>3, NoPatchTyped DEF TurnInv, InTurn
  <1> QED
    BY <1>1, <1>2, <1>3, <1>4, <1>5 DEF GovNext

\* A PATCH under which the job has not changed writes what its check allowed.
THEOREM TurnInvariant == GovSpec => []TurnInv
  <1>1. GovInit => TurnInv
    BY NoPatchTyped DEF GovInit, TurnInv, InTurn
  <1> QED
    BY <1>1, TurnStep, FourEyesInvariant, GovInvariant, PTL DEF GovSpec

\* An approval is reverted, a gate lifted or an unfinished export approved only
\* by a PATCH the job has changed under, never by PATCHes one after the other.
THEOREM GateKeptInTurnHolds == GovSpec => GateKeptInTurn
  <1> DEFINE Lost == \/ gov.approval = "approved" /\ gov'.approval # "approved"
                     \/ /\ gov.approval # "approved" /\ gov'.approval = "approved"
                        /\ Exists /\ ~Completed
                     \/ gov.mode = "required" /\ gov'.mode # "required" /\ Completed
             Late == \E p \in overlapped : patch[p].step = "write" /\ gov' = patch[p].next
  <1>1. ASSUME GovInv, FourEyesInv, TurnInv, [GovNext]_govVars, Lost
        PROVE  Late
    <2>1. gov' # gov
      BY <1>1
    <2>2. ~createExportJob
      <3>1. createExportJob => gov = Ungated /\ ~Exists
        BY <1>1 DEF createExportJob, FourEyesInv, Unborn
      <3> QED
        BY <1>1, <3>1, GateFields
    <2>3. PICK p \in Patches : updateExportJob(p)
      BY <1>1, <2>1, <2>2, PatchSteps
      DEF GovNext, appendRequestAuditLog, runJob, getExportJobDownloadDescriptor,
          getExportDownloadFile, endDownload, MoveOn, Leave, govVars
    <2>4. patch[p].step = "write" /\ gov' = patch[p].next
      BY <2>3 DEF updateExportJob
    <2>5. CASE p \in overlapped
      BY <2>4, <2>5
    <2>6. CASE p \notin overlapped
      <3>1. Allowed(gov')
        BY <1>1, <2>4, <2>6 DEF TurnInv, InTurn
      <3> QED
        BY <1>1, <3>1 DEF Allowed
    <2> QED
      BY <2>5, <2>6
  <1>2. GovInv /\ FourEyesInv /\ TurnInv /\ [GovNext]_govVars => [Lost => Late]_govVars
    BY <1>1
  <1> QED
    BY <1>2, TurnInvariant, FourEyesInvariant, GovInvariant, PTL DEF GovSpec, GateKeptInTurn

-----------------------------------------------------------------------------
(* One PATCH at a time *)

\* What the PATCH will write of an approved gate is approved, and what it will
\* write is made of what is there, whatever the job does meanwhile.
KeepsApproval(c) ==
    /\ c \in Change
    /\ gov.approval = "approved" => /\ Or(c.mode, gov.mode) = "required"
                                    /\ Or(c.approval, gov.approval) = "approved"
StillApproved(g) == gov.approval = "approved" => g.approval = "approved"
AloneInv == \A p \in Patches :
               /\ patch[p].step \in {"actors", "read"} => KeepsApproval(patch[p].change)
               /\ patch[p].step = "write" => StillApproved(patch[p].next)

LEMMA AloneStep ==
    ASSUME GovInv, FourEyesInv, AloneInv, \A p, q \in Patches : p = q, [GovNext]_govVars
    PROVE  /\ AloneInv'
           /\ gov.approval = "approved" => gov'.approval = "approved"
  <1>1. gov \in Governance /\ (gov.approval = "approved" => gov.mode = "required")
    BY GateCases, GateFields DEF GovInv, GovTypeOK
  <1>2. CASE createExportJob
    <2>1. gov.approval # "approved" /\ \A p \in Patches : patch'[p].step = "idle"
      BY <1>2, GateFields DEF createExportJob, FourEyesInv, Unborn
    <2> QED
      BY <2>1 DEF AloneInv
  <1>3. CASE UNCHANGED <<gov, patch>>
    BY <1>3 DEF KeepsApproval, StillApproved, AloneInv
  <1>4. ASSUME NEW p \in Patches,
               \/ patchWorkflow(p) \/ patchGovernance(p) \/ getExportRequestActor(p)
               \/ readExportJob(p) \/ abandonPatch(p)
        PROVE  AloneInv' /\ gov' = gov
    <2>1. /\ \A r : Leave(p, r) => patch'[p] = r /\ gov' = gov
          /\ patch[p] \in PatchRec /\ patch[p].change \in Change
      BY PatchTyped DEF Leave, GovInv, GovTypeOK
    <2>2. gov' = gov
      BY <1>4, <2>1, PatchSteps
    <2>3. SUFFICES /\ patch'[p].step \in {"actors", "read"} => KeepsApproval(patch'[p].change)
                   /\ patch'[p].step = "write" => StillApproved(patch'[p].next)
      BY <2>2 DEF KeepsApproval, StillApproved, AloneInv
    <2>4. CASE patchWorkflow(p)
      <3>1. patch'[p] = [NoPatch EXCEPT !.step = "read"]
        BY <2>1, <2>4 DEF patchWorkflow
      <3>2. patch'[p].step = "read" /\ patch'[p].change = NoChange
        BY <3>1 DEF NoPatch
      <3> QED
        BY <1>1, <3>2, NoChangeTyped DEF KeepsApproval, Or
    <2>5. CASE patchGovernance(p)
      <3>1. PICK m \in Modes \cup {AsIs}, a \in Approvals \cup {AsIs}, by \in Callers :
               TransitionAllowed(Asked(m, a)) /\ patch'[p] = Checked(m, a, by)
        BY <2>1, <2>5, PatchChecked
      <3>2. /\ patch'[p].step \in {"actors", "read"} /\ patch'[p].change = Asked(m, a)
            /\ Asked(m, a) \in Change
        BY <3>1, CheckedFields
      <3>3. KeepsApproval(Asked(m, a))
        BY <1>1, <3>1, <3>2 DEF KeepsApproval, TransitionAllowed
      <3> QED
        BY <3>2, <3>3
    <2>6. CASE getExportRequestActor(p)
      <3>1. CASE patch'[p] = NoPatch
        BY <2>3, <3>1, NoPatchTyped
      <3>2. CASE patch'[p] = ApproverNamed(p)
        <4>1. /\ patch'[p].step = "read" /\ patch'[p].change \in Change
              /\ patch'[p].change.approval = patch[p].change.approval
              /\ patch'[p].change.mode = patch[p].change.mode
          BY <2>1, <3>2, NamedFields
        <4>2. KeepsApproval(patch[p].change)
          BY <2>6 DEF getExportRequestActor, AloneInv
        <4> QED
          BY <4>1, <4>2 DEF KeepsApproval
      <3> QED
        BY <2>1, <2>6, <3>1, <3>2 DEF getExportRequestActor
    <2>7. CASE readExportJob(p)
      <3>1. /\ patch'[p] = [NoPatch EXCEPT !.step = "write", !.next = Merge(gov, patch[p].change)]
            /\ patch[p].step = "read"
        BY <2>1, <2>7 DEF readExportJob
      <3>2. patch'[p].step = "write" /\ patch'[p].next = Merge(gov, patch[p].change)
        BY <3>1 DEF NoPatch
      <3>3. KeepsApproval(patch[p].change)
        BY <3>1 DEF AloneInv
      <3>4. StillApproved(Merge(gov, patch[p].change))
        BY <1>1, <2>1, <3>3, MergeFields DEF KeepsApproval, StillApproved
      <3> QED
        BY <3>2, <3>4
    <2>8. CASE abandonPatch(p)
      BY <2>1, <2>3, <2>8, NoPatchTyped DEF abandonPatch
    <2> QED
      BY <1>4, <2>4, <2>5, <2>6, <2>7, <2>8
  <1>5. ASSUME NEW p \in Patches, updateExportJob(p)
        PROVE  /\ AloneInv'
               /\ gov.approval = "approved" => gov'.approval = "approved"
    <2>1. /\ patch[p].step = "write" /\ gov' = patch[p].next
          /\ \A q \in Patches : patch'[q] = NoPatch
      BY <1>5 DEF updateExportJob, GovInv, GovTypeOK
    <2>2. StillApproved(gov')
      BY <2>1 DEF AloneInv
    <2> QED
      BY <2>1, <2>2, NoPatchTyped DEF StillApproved, AloneInv
  <1>6. ASSUME \/ appendRequestAuditLog \/ runJob
               \/ \E d \in Downloads : \/ getExportJobDownloadDescriptor(d)
                                       \/ getExportDownloadFile(d) \/ endDownload(d)
               \/ UNCHANGED govVars
        PROVE  UNCHANGED <<gov, patch>>
    BY <1>6 DEF appendRequestAuditLog, runJob, getExportJobDownloadDescriptor,
       getExportDownloadFile, endDownload, MoveOn, govVars
  <1> QED
    BY <1>2, <1>3, <1>4, <1>5, <1>6 DEF GovNext

\* PATCHes that come one at a time revert no approval, whatever the worker
\* does to the job between their reads and their write.
THEOREM ApprovalKeptOneAtATime ==
    ASSUME \A p, q \in Patches : p = q
    PROVE  GovSpec => ApprovalKept
  <1>1. GovInit => AloneInv
    BY NoPatchTyped DEF GovInit, AloneInv
  <1>2. GovInv /\ FourEyesInv /\ AloneInv /\ [GovNext]_govVars => AloneInv'
    BY AloneStep
  <1>3. GovInv /\ FourEyesInv /\ AloneInv /\ [GovNext]_govVars
           => [gov.approval = "approved" => gov'.approval = "approved"]_govVars
    BY AloneStep
  <1> QED
    BY <1>1, <1>2, <1>3, FourEyesInvariant, GovInvariant, PTL DEF GovSpec, ApprovalKept

-----------------------------------------------------------------------------
(* Self-approval *)

\* Where calls name their sender by x-member-email only, and everybody has an
\* address of his own, the recorded actor and the approving one are made alike,
\* and nobody approves what he has requested.
THEOREM SelfApprovalBlockedByAddress ==
    ASSUME \A c \in Callers : /\ ~c.token /\ c.session = Null
                              /\ c.type = Null /\ c.email # Null,
           \A c, d \in Callers : c.person = d.person => c.email = d.email
    PROVE  GovSpec => []SelfApprovalBlocked
  <1>1. ASSUME NEW c \in Callers
        PROVE  /\ getExportApprovalActor(c) = Actor("member", c.email)
               /\ getAuditActor(c) = {Actor("member", c.email)}
    BY GovConstantsOK
    DEF Admitted, Principal, Explicit, getExportApprovalActor, getAuditActor, sessionlessActor
  <1>2. GovInv /\ FourEyes => SelfApprovalBlocked
    <2> SUFFICES ASSUME GovInv, FourEyes, gov.approval = "approved", "bornApproved" \notin past,
                        NEW e \in requester, gov.approver \in Callers
                 PROVE  gov.approver.person # e.by.person
      BY DEF SelfApprovalBlocked
    <2>1. PICK c \in Callers : \E a \in getAuditActor(c) : requester = {[actor |-> a, by |-> c]}
      BY DEF GovInv, GovTypeOK
    <2>2. e.by = c /\ e.actor = Actor("member", c.email)
      BY <1>1, <2>1
    <2>3. getExportApprovalActor(gov.approver) # e.actor
      BY <2>1 DEF FourEyes
    <2> QED
      BY <1>1, <2>2, <2>3
  <1> QED
    BY <1>2, FourEyesHolds, GovInvariant, PTL

=============================================================================
