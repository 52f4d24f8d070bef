---------------------------- MODULE VendorReview ----------------------------
(***************************************************************************)
(* One vendor of the registry: its review list, the dated evidence behind *)
(* it, the recertification clock and the risk finding its providers raise  *)
(* (apps/platform/app/storage/policy_engine.py and vendor_evidence.py,     *)
(* api/policy.py).                                                         *)
(*                                                                         *)
(* Route handlers are @atomic units, one step each.  The maintenance       *)
(* worker reads before the first write of a pass takes the lock: the       *)
(* evidence pass reads the due references, writes in a second step and     *)
(* refreshes the findings in a third, the recertification pass reads the   *)
(* approvals that are too old and writes in a second step; the process may *)
(* stop before each.  Rows of earlier rounds are never written again, so   *)
(* the checklist kept is the current round's.                              *)
(***************************************************************************)
EXTENDS ApprovalStages

CONSTANTS
    VendorStages,    \* stage roles of the vendor section of each policy
    RecertifyAfter,  \* recertify_days of each policy, 0 when it sets none
    Configurer,      \* people with config.write
    Manager,         \* people with lifecycle.manage
    Surface,         \* provider and model lists a vendor can declare
    Uncovered,       \* surfaces that leave out a model observed in use
    Kind,            \* kinds of evidence
    NoticeDays,      \* EXPIRY_NOTICE_DAYS
    MaxRound,        \* bound: review rounds
    MaxDay           \* bound: the calendar

Day == 0..MaxDay

Reference == Kind \X (1..MaxDay)    \* a reference, by kind and expiry day

ASSUME VendorAssumption ==
    /\ VendorStages \in [Policy -> Seq(Role)]
    /\ IsFiniteSet(Policy) /\ Policy = 1..Cardinality(Policy) /\ 1 \in Policy /\ Surface # {}
    /\ \A q \in Policy : VendorStages[q] # <<>>
    /\ RecertifyAfter \in [Policy -> Nat]
    /\ Configurer \subseteq Person /\ Manager \subseteq Person
    /\ Uncovered \subseteq Surface
    /\ NoticeDays \in Nat /\ MaxRound \in Nat /\ MaxDay \in Nat

VendorStatus ==
    {"none", "draft", "under_review", "approved", "rejected", "recertify_due", "retired"}

VARIABLES
    today,      \* the calendar
    inForce,    \* the policy version in force
    vendor,     \* the vendor_registry row
    list,       \* the checklist of the current review round
    refs,       \* status of each vendor_evidence_references row
    noticed,    \* references whose expiry has been announced
    worker,     \* the maintenance worker: the pass it is in and the rows it read
    finding,    \* RISK-VND-001 of a system using the vendor's provider
    seen,       \* history: the surface each stage of the round was decided on
    edited      \* history: the surface was edited since the round began

vars == <<today, inForce, vendor, list, refs, noticed, worker, finding, seen, edited>>

TypeOK ==
    /\ today \in Day
    /\ inForce \in Policy
    /\ vendor \in [status : VendorStatus, round : 0..MaxRound, surface : Surface,
                   submitter : Person \cup {Nobody}, reviewed : Day]
    /\ list \in Checklist
    /\ refs \in [Reference -> {"none", "current", "superseded", "expired", "withdrawn"}]
    /\ noticed \subseteq Reference
    /\ worker \in [at : {"idle", "read", "posture", "recertify"}, day : Day,
                   due : SUBSET Reference, fresh : SUBSET Reference]
    /\ finding \in {"none", "open"}
    /\ seen \in [DOMAIN list.stages -> Surface \cup {Nobody}]
    /\ edited \in BOOLEAN

Idle == [at |-> "idle", day |-> 0, due |-> {}, fresh |-> {}]

\* require_no_expired_evidence
NoExpiredEvidence == \A e \in Reference : refs[e] # "expired"

-----------------------------------------------------------------------------
Init ==
    /\ today = 0
    /\ inForce = 1
    /\ vendor = [status |-> "none", round |-> 0, surface |-> CHOOSE s \in Surface : TRUE,
                 submitter |-> Nobody, reviewed |-> 0]
    /\ list = Materialized(<<>>, "sequence", inForce)
    /\ refs = [e \in Reference |-> "none"]
    /\ noticed = {}
    /\ worker = Idle
    /\ finding = "none"
    /\ seen = <<>> /\ edited = FALSE

\* Bug: an edit never reopens the review.
VendorUpsertedKept(surface) ==
    [vendor EXCEPT !.surface = surface, !.status = IF @ = "none" THEN "draft" ELSE @]

\* upsert_vendor: an edit of an approved surface asks for another review; one made
\* while the review runs leaves the review and its decided stages as they are.
VendorUpserted(surface) ==
    [vendor EXCEPT !.surface = surface,
                   !.status = IF @ = "none" \/ (@ \in {"approved", "recertify_due"}
                                                  /\ surface # vendor.surface)
                                THEN "draft" ELSE @]

\* POST /api/vendors
CreateVendor(p, surface) ==
    /\ p \in Configurer
    /\ vendor' = VendorUpserted(surface)
    /\ edited' = (edited \/ surface # vendor.surface)
    /\ UNCHANGED <<today, inForce, list, refs, noticed, worker, finding, seen>>

\* submit_vendor_review: the next round, with a checklist of its own.
ReviewSubmitted(p) ==
    /\ vendor.status \notin {"none", "under_review", "retired"}
    /\ NoExpiredEvidence
    /\ vendor' = [vendor EXCEPT !.status = "under_review", !.round = @ + 1, !.submitter = p]
    /\ list' = Materialized(VendorStages[inForce], "sequence", inForce)
    /\ seen' = [i \in DOMAIN VendorStages[inForce] |-> Nobody] /\ edited' = FALSE

\* POST /api/vendors/{id}/submit-review
SubmitVendorReview(p) ==
    /\ p \in Configurer
    /\ vendor.round < MaxRound
    /\ ReviewSubmitted(p)
    /\ UNCHANGED <<today, inForce, refs, noticed, worker, finding>>

\* _roll_up_subject for a vendor: a lapse during the review stops the approval.
RolledUp(rows) ==
    IF \E i \in DOMAIN rows.stages : rows.stages[i].status = "rejected" THEN "rejected"
    ELSE IF AllApproved(rows) THEN "approved"
    ELSE "under_review"

\* stage_subject_undecided, stage_maker
Undecided == vendor.status = "under_review"

Maker == vendor.submitter

\* As DecideVendorStage, the evidence not looked at again.
DecideUnchecked(p, i, decision) ==
    /\ Undecided
    /\ MayDecideStage(list, i, p, Maker)
    /\ LET outcome == RolledUp(StageDecided(list, i, decision, p))
       IN  /\ list' = StageDecided(list, i, decision, p)
           /\ vendor' = [vendor EXCEPT !.status = outcome,
                           !.reviewed = IF outcome = "under_review" THEN @ ELSE today]
    /\ seen' = [seen EXCEPT ![i] = vendor.surface]
    /\ UNCHANGED <<today, inForce, refs, noticed, worker, finding, edited>>

\* POST /api/approval-stages/{id}/decide for a vendor round: one unit, so an
\* approval the evidence refuses leaves the stage undecided too.
DecideVendorStage(p, i, decision) ==
    /\ Undecided
    /\ MayDecideStage(list, i, p, Maker)
    /\ LET outcome == RolledUp(StageDecided(list, i, decision, p))
       IN  /\ outcome = "approved" => NoExpiredEvidence
           /\ list' = StageDecided(list, i, decision, p)
           /\ vendor' = [vendor EXCEPT !.status = outcome,
                           !.reviewed = IF outcome = "under_review" THEN @ ELSE today]
    /\ seen' = [seen EXCEPT ![i] = vendor.surface]
    /\ UNCHANGED <<today, inForce, refs, noticed, worker, finding, edited>>

\* retire_vendor: from any status, a review in progress included.
VendorRetired == [vendor EXCEPT !.status = "retired"]

\* POST /api/vendors/{id}/retire
RetireVendor(p) ==
    /\ p \in Manager
    /\ vendor.status # "none"
    /\ vendor' = VendorRetired
    /\ UNCHANGED <<today, inForce, list, refs, noticed, worker, finding, seen, edited>>

\* record_evidence_reference: current, instead of an older one of its kind.
ReferenceRecorded(e) ==
    /\ vendor.status \notin {"none", "retired"}
    /\ e[2] > today
    /\ refs' = [f \in Reference |->
                  IF f = e THEN "current"
                  ELSE IF f[1] = e[1] /\ refs[f] \in {"current", "expired"} THEN "superseded"
                  ELSE refs[f]]
    /\ noticed' = noticed \ {e}

\* POST /api/vendors/{id}/evidence
RecordVendorEvidence(p, e) ==
    /\ p \in Configurer
    /\ ReferenceRecorded(e)
    /\ UNCHANGED <<today, inForce, vendor, list, worker, finding, seen, edited>>

\* withdraw_evidence_reference: from any status.
ReferenceWithdrawn(e) ==
    /\ refs[e] # "none"
    /\ refs' = [refs EXCEPT ![e] = "withdrawn"]

\* POST /api/vendors/{id}/evidence/{reference}/withdraw
WithdrawVendorEvidence(p, e) ==
    /\ p \in Configurer
    /\ ReferenceWithdrawn(e)
    /\ UNCHANGED <<today, inForce, vendor, list, noticed, worker, finding, seen, edited>>

-----------------------------------------------------------------------------
\* refresh_vendor_posture: it raises the finding and never withdraws it (what
\* reviewers then decide about a finding is in module ReleaseGate).
Posture ==
    IF vendor.status # "approved" \/ vendor.surface \in Uncovered
      THEN "open" ELSE finding

\* Telemetry that names the provider is folded.
ObserveProvider ==
    /\ finding' = Posture
    /\ UNCHANGED <<today, inForce, vendor, list, refs, noticed, worker, seen, edited>>

\* age_evidence_references: the rows due, read before the pass's first write.
AgeRead ==
    /\ worker.at = "idle"
    /\ LET due == {e \in Reference : refs[e] = "current" /\ e[2] <= today + NoticeDays}
       IN  /\ due # {}
           /\ worker' = [at |-> "read", day |-> today, due |-> due, fresh |-> due \ noticed]
    /\ UNCHANGED <<today, inForce, vendor, list, refs, noticed, finding, seen, edited>>

\* As Lapsed, one day late.
LapsedLate == {e \in worker.due : e[2] < worker.day - 1}

\* The references read that are past their last day.
Lapsed == {e \in worker.due : e[2] < worker.day}

\* The pass's writes, one transaction: what it read decides what it touches.
AgeWrite ==
    /\ worker.at = "read"
    /\ refs' = [e \in Reference |->
                  IF e \in Lapsed /\ refs[e] = "current" THEN "expired" ELSE refs[e]]
    /\ noticed' = noticed \cup (worker.fresh \ Lapsed)
    /\ LET flips == Lapsed # {} /\ vendor.status = "approved"
       IN  /\ vendor' = IF flips THEN [vendor EXCEPT !.status = "recertify_due"] ELSE vendor
           /\ worker' = IF flips THEN [worker EXCEPT !.at = "posture"] ELSE Idle
    /\ UNCHANGED <<today, inForce, list, finding, seen, edited>>

\* The findings of dependent systems, once the flip has committed.
AgePosture ==
    /\ worker.at = "posture"
    /\ finding' = Posture
    /\ worker' = Idle
    /\ UNCHANGED <<today, inForce, vendor, list, refs, noticed, seen, edited>>

\* The process stops in the middle of a pass.
Crash ==
    /\ worker.at # "idle"
    /\ worker' = Idle
    /\ UNCHANGED <<today, inForce, vendor, list, refs, noticed, finding, seen, edited>>

\* age_vendor_recertifications: an approval older than the policy allows is read
\* before the pass's first write,
AgeVendorRead ==
    /\ worker.at = "idle"
    /\ vendor.status = "approved"
    /\ RecertifyAfter[inForce] # 0
    /\ today > vendor.reviewed + RecertifyAfter[inForce]
    /\ worker' = [Idle EXCEPT !.at = "recertify"]
    /\ UNCHANGED <<today, inForce, vendor, list, refs, noticed, finding, seen, edited>>

\* and an approval that stands by then, be it another one, falls due.
AgeVendorWrite ==
    /\ worker.at = "recertify"
    /\ vendor' = [vendor EXCEPT !.status = IF @ = "approved" THEN "recertify_due" ELSE @]
    /\ worker' = Idle
    /\ UNCHANGED <<today, inForce, list, refs, noticed, finding, seen, edited>>

\* Another version comes into force (module PolicyEngine says when it may);
\* a superseded one never returns.
ChangePolicy ==
    /\ inForce + 1 \in Policy
    /\ inForce' = inForce + 1
    /\ UNCHANGED <<today, vendor, list, refs, noticed, worker, finding, seen, edited>>

NextDay ==
    /\ today < MaxDay
    /\ today' = today + 1
    /\ UNCHANGED <<inForce, vendor, list, refs, noticed, worker, finding, seen, edited>>

Next ==
    \/ \E p \in Person, s \in Surface : CreateVendor(p, s)
    \/ \E p \in Person : SubmitVendorReview(p) \/ RetireVendor(p)
    \/ \E p \in Person, i \in DOMAIN list.stages, d \in {"approved", "rejected"} :
         DecideVendorStage(p, i, d)
    \/ \E p \in Person, e \in Reference : RecordVendorEvidence(p, e) \/ WithdrawVendorEvidence(p, e)
    \/ ObserveProvider
    \/ AgeRead \/ AgeWrite \/ AgePosture \/ AgeVendorRead \/ AgeVendorWrite \/ Crash
    \/ ChangePolicy \/ NextDay

\* The maintenance loop runs its passes in turn, again and again, and is not
\* stopped in the middle of every one of them.
Fairness ==
    /\ SF_vars(AgeRead) /\ SF_vars(AgeWrite)
    /\ WF_vars(AgePosture) /\ WF_vars(AgeVendorWrite)

Spec == Init /\ [][Next]_vars /\ Fairness

-----------------------------------------------------------------------------
\* An approved vendor was approved in its current round, stage by stage, by
\* different people with the authority the policy of that round asked for, none
\* of them the submitter, policy changes and later rounds in between
\* notwithstanding.  The approver of the last stage decided on exactly the surface
\* it still declares, and so did everybody else unless that surface was edited
\* while the review ran (upsert_vendor keeps the review then: EveryStageSawSurface).
ApprovalCoversVendor ==
    vendor.status = "approved" =>
        /\ [i \in DOMAIN list.stages |-> list.stages[i].role] = VendorStages[list.policy]
        /\ ProperlyApproved(list, vendor.submitter)
        /\ seen[Len(list.stages)] = vendor.surface
        /\ ~edited => \A i \in DOMAIN list.stages : seen[i] = vendor.surface

\* Everybody who approved a stage of an approved vendor decided on the surface it
\* declares ("its review no longer covers what it declares", upsert_vendor).  It
\* does not hold: an edit while under_review keeps the stages already approved.
EveryStageSawSurface ==
    vendor.status = "approved" => \A i \in DOMAIN list.stages : seen[i] = vendor.surface

\* An approved vendor holds no expired reference, whatever the worker had read
\* when the reviewers decided (require_no_expired_evidence against the pass).
ApprovedWithoutExpiredEvidence == vendor.status = "approved" => NoExpiredEvidence

\* A lapsed reference does not stand behind an approval for ever: the pass
\* expires it, or it is renewed, withdrawn, or the vendor leaves approved.
LapseIsNoticed ==
    \A e \in Reference :
        (today > e[2] /\ refs[e] = "current" /\ vendor.status = "approved")
            ~> (refs[e] # "current" \/ vendor.status # "approved")

\* A vendor falls due only when an expired reference stands or its approval is
\* older than the policy allows ("an approved vendor holding one drops to
\* recertify_due").
DueForCause ==
    [][ (vendor.status = "approved" /\ vendor'.status = "recertify_due") =>
          \/ \E e \in Reference : refs'[e] = "expired"
          \/ today > vendor.reviewed + RecertifyAfter[inForce] ]_vars
=============================================================================
