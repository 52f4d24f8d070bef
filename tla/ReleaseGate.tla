---------------------------- MODULE ReleaseGate ----------------------------
(***************************************************************************)
(* The release gate of one deployment version: how telemetry, reviewers,   *)
(* lapsing exceptions and the CI gate check meet on it                     *)
(* (apps/platform/app/storage: deployments.py, governance_policy.py,       *)
(* workflow.py, fold.py; api/routes.py and ingestion/routes.py).           *)
(*                                                                         *)
(* The database is SQLite.  A route handler is one unit of work, hence one *)
(* step.  A projection of the fold, and the gate check, run their SELECTs  *)
(* outside any transaction until the first write, so what they read and    *)
(* what they do with it are separate steps.                                *)
(*                                                                         *)
(* The application is registered and has its baseline fingerprint, so that *)
(* telemetry that departs from it is a material change; each departure is  *)
(* a change_event of its own.  The policy asks for no minimum of control   *)
(* coverage and no observation window.                                     *)
(***************************************************************************)
EXTENDS Integers, FiniteSets

CONSTANTS
    Risk,            \* risk findings telemetry can raise
    Control,         \* controls of the tenant's library
    Change,          \* material changes telemetry can reveal
    Event,           \* telemetry events of the application
    Raises,          \* the risks and changes each event is evidence of
    Clears,          \* the controls each event is evidence for
    Deploys,         \* the deployment.event of the version (it names the prompt)
    Proves,          \* passing evals bound to the version's artifact
    Folder,          \* workers folding the tenant's pending rows
    Check,           \* concurrent gate checks of CI
    Waivable,        \* bound: the findings exceptions are created for
    Decisions,       \* bound: the decisions taken, as <<finding, status>>
    MaxOpenChanges   \* max_open_material_changes of the governance policy

Assessed == Risk \cup Control

Finding == Assessed \cup Change

ASSUME ConstantsAssumption ==
    /\ Risk \cap Control = {} /\ Risk \cap Change = {} /\ Control \cap Change = {}
    /\ Raises \in [Event -> SUBSET (Risk \cup Change)]
    /\ Clears \in [Event -> SUBSET Control]
    /\ Deploys \subseteq Event /\ Proves \subseteq Event
    /\ MaxOpenChanges \in Nat
    /\ IsFiniteSet(Change)
    /\ Waivable \subseteq Finding
    /\ Decisions \subseteq
         Finding \X {"accepted", "mitigation_required", "waived"}

\* "open" is a risk or change with status open, or a missing control;
\* "accepted" is any decision that clears: accepted, approved, rejected, closed.
Status == {"none", "open", "passing", "accepted", "mitigation_required", "waived"}

GateStatus == {"none", "pending_review", "approved", "rejected"}

VARIABLES
    stored,      \* events in sdk_events
    pending,     \* those with folded_at NULL
    projected,   \* events whose prompts, deployments and evals are projected
    status,      \* status of every finding, "none" while it has no row
    waiver,      \* the exception on a finding
    gate,        \* deployment_approval_gates.gate_status
    phase,       \* where each folder is
    rows,        \* the rows it claimed
    seen,        \* the statuses of risks and controls it read
    seenEvents,  \* the events it read the risk rules' aggregates from
    seenGate,    \* the gate status it read
    check,       \* what each gate check reads next, or "eligible"
    assessed,    \* history: events whose assessment has committed
    touched,     \* history: findings a person ever decided or waived
    everApproved,\* history: a person approved the gate
    settled,     \* history: what was folded when the check began
    begun,       \* history: what was stored when the check began
    unseen       \* history: what was stored and not assessed when the check
                 \* read the evidence

fold_vars == <<phase, rows, seen, seenEvents, seenGate>>
check_vars == <<check, settled, begun, unseen>>
ledger_vars == <<stored, pending, projected, assessed>>
review_vars == <<waiver, touched, everApproved>>
vars == <<ledger_vars, status, review_vars, gate, fold_vars, check_vars>>

\* Findings, exceptions and the gate only take the statuses of their tables, and
\* what a fold or a check holds was stored before.
TypeOK ==
    /\ stored \subseteq Event /\ pending \subseteq stored
    /\ projected \subseteq stored /\ assessed \subseteq stored
    /\ status \in [Finding -> Status]
    /\ waiver \in [Finding -> {"none", "active", "lapsed", "expired"}]
    /\ gate \in GateStatus
    /\ phase \in [Folder -> {"idle", "project", "fingerprint", "assess",
                             "assessing", "gates", "gating", "mark"}]
    /\ rows \in [Folder -> SUBSET stored]
    /\ seen \in [Folder -> [Assessed -> Status]]
    /\ seenEvents \in [Folder -> SUBSET stored]
    /\ seenGate \in [Folder -> GateStatus]
    /\ check \in [Check -> {"gate", "risks", "controls", "changes", "proof",
                            "pending", "eligible"}]
    /\ touched \subseteq Finding /\ everApproved \in BOOLEAN
    /\ settled \in [Check -> SUBSET stored]
    /\ begun \in [Check -> SUBSET stored]
    /\ unseen \in [Check -> SUBSET stored]

-----------------------------------------------------------------------------
(***************************************************************************)
(* gate_evidence_counts: the blockers of the gate, from current state.     *)
(***************************************************************************)
Deployed == Deploys \cap projected # {}

Proven == Deployed /\ Proves \cap projected # {}

OpenRisks(s) == {f \in Risk : s[f] \in {"open", "mitigation_required"}}

MissingControls(s) == {f \in Control : s[f] = "open"}

OpenChanges(s) == {f \in Change : s[f] = "open"}

Unblocked(s) ==
    /\ Proven
    /\ OpenRisks(s) = {}
    /\ MissingControls(s) = {}
    /\ Cardinality(OpenChanges(s)) <= MaxOpenChanges

(***************************************************************************)
(* expire_due_exceptions: lapsed exceptions are expired, and the risk or   *)
(* control one of them waived is open again.                               *)
(***************************************************************************)
ExpiredStatus ==
    [f \in Finding |->
       IF waiver[f] = "lapsed" /\ status[f] = "waived" /\ f \notin Change
         THEN "open" ELSE status[f]]

ExpiredWaiver ==
    [f \in Finding |-> IF waiver[f] = "lapsed" THEN "expired" ELSE waiver[f]]

\* Bug: undecided gates get a status the tables do not know.
RefreshedGateRenamed(s) == IF s \in {"approved", "rejected"} THEN s ELSE "pending"

\* upsert_deployment_gate, for the gate status s read before.
RefreshedGate(s) == IF s \in {"approved", "rejected"} THEN s ELSE "pending_review"

ChangesOf(events) == {f \in Change : \E e \in events : f \in Raises[e]}

NothingSeen == [f \in Assessed |-> "none"]

Init ==
    /\ stored = {} /\ pending = {} /\ projected = {} /\ assessed = {}
    /\ status = [f \in Finding |-> "none"]
    /\ waiver = [f \in Finding |-> "none"]
    /\ gate = "none"
    /\ phase = [w \in Folder |-> "idle"]
    /\ rows = [w \in Folder |-> {}]
    /\ seen = [w \in Folder |-> NothingSeen]
    /\ seenEvents = [w \in Folder |-> {}]
    /\ seenGate = [w \in Folder |-> "none"]
    /\ check = [c \in Check |-> "gate"]
    /\ touched = {} /\ everApproved = FALSE
    /\ settled = [c \in Check |-> {}]
    /\ begun = [c \in Check |-> {}]
    /\ unseen = [c \in Check |-> {}]

-----------------------------------------------------------------------------
(***************************************************************************)
(* Telemetry.                                                              *)
(***************************************************************************)

Ingest(e) ==
    /\ e \notin stored
    /\ stored' = stored \cup {e}
    /\ pending' = pending \cup {e}
    /\ UNCHANGED <<projected, assessed, status, review_vars, gate, fold_vars,
                   check_vars>>

Claim(w) ==
    /\ phase[w] = "idle"
    /\ pending # {}
    /\ phase' = [phase EXCEPT ![w] = "project"]
    /\ rows' = [rows EXCEPT ![w] = pending]
    /\ UNCHANGED <<ledger_vars, status, review_vars, gate, seen, seenEvents, seenGate,
                   check_vars>>

\* process_events to process_incident_events.
Project(w) ==
    /\ phase[w] = "project"
    /\ projected' = projected \cup rows[w]
    /\ phase' = [phase EXCEPT ![w] = "fingerprint"]
    /\ UNCHANGED <<stored, pending, assessed, status, review_vars, gate, rows, seen,
                   seenEvents, seenGate, check_vars>>

\* expire_due_exceptions and fold_batch_fingerprints.  A change already known
\* keeps its row and its status.
Fingerprint(w) ==
    /\ phase[w] = "fingerprint"
    /\ status' = [f \in Finding |->
         IF f \in ChangesOf(rows[w]) /\ status[f] = "none"
           THEN "open" ELSE ExpiredStatus[f]]
    /\ waiver' = ExpiredWaiver
    /\ phase' = [phase EXCEPT ![w] = "assess"]
    /\ UNCHANGED <<ledger_vars, touched, everApproved, gate, rows, seen, seenEvents,
                   seenGate, check_vars>>

(***************************************************************************)
(* fold_batch_assessments reads statuses and the aggregates of the risk    *)
(* rules outside any transaction until its first write, which may be over  *)
(* a status that changed since it was read.                                *)
(***************************************************************************)
AssessRead(w) ==
    /\ phase[w] = "assess"
    /\ seen' = [seen EXCEPT ![w] = [f \in Assessed |-> status[f]]]
    /\ seenEvents' = [seenEvents EXCEPT ![w] = stored]
    /\ phase' = [phase EXCEPT ![w] = "assessing"]
    /\ UNCHANGED <<ledger_vars, status, review_vars, gate, rows, seenGate, check_vars>>

\* _preserve_decided_status: only computed statuses are recomputed.
Recomputed(was, computed) ==
    IF was \in {"none", "open", "passing"} THEN computed ELSE was

RisksOf(events) == {f \in Risk : \E e \in events : f \in Raises[e]}

ControlsOf(events) == {f \in Control : \E e \in events : f \in Clears[e]}

\* _fold_controls looks at the batch, the risk rules at every stored event.
AssessedStatus(batch, events, s) ==
    [f \in Finding |->
       IF f \in RisksOf(events) THEN Recomputed(s[f], "open")
       ELSE IF f \in ControlsOf(batch) THEN Recomputed(s[f], "passing")
       ELSE IF f \in Control /\ s[f] = "none" THEN "open" ELSE s[f]]

\* A control is written on the evidence of the batch (saved before the status is
\* read, so that status is current), or as missing because it had no row; a risk
\* is written first only if no control is.
FirstWrites(w) ==
    LET evident   == ControlsOf(rows[w])
        unwritten == {f \in Control \ evident : seen[w][f] = "none"}
        none      == [stale |-> {}, events |-> stored]
    IN  {[stale |-> {f}, events |-> stored] : f \in unwritten}
          \cup {x \in {none} : evident # {}}
          \cup IF evident \cup unwritten # {} THEN {}
               ELSE IF RisksOf(seenEvents[w]) = {}
                 THEN {[stale |-> {}, events |-> seenEvents[w]]}
               ELSE {[stale |-> {f}, events |-> seenEvents[w]] :
                       f \in RisksOf(seenEvents[w])}

AssessWrite(w) ==
    /\ phase[w] = "assessing"
    /\ \E first \in FirstWrites(w) :
         status' = AssessedStatus(rows[w], first.events,
           [f \in Finding |-> IF f \in first.stale THEN seen[w][f] ELSE status[f]])
    /\ assessed' = assessed \cup rows[w]
    /\ phase' = [phase EXCEPT ![w] = "gates"]
    /\ seen' = [seen EXCEPT ![w] = NothingSeen]
    /\ seenEvents' = [seenEvents EXCEPT ![w] = {}]
    /\ UNCHANGED <<stored, pending, projected, review_vars, gate, rows, seenGate,
                   check_vars>>

\* refresh_deployment_gates reads the gate, then writes it.
GateRead(w) ==
    /\ phase[w] = "gates"
    /\ seenGate' = [seenGate EXCEPT ![w] = gate]
    /\ phase' = [phase EXCEPT ![w] = IF Deployed THEN "gating" ELSE "mark"]
    /\ UNCHANGED <<ledger_vars, status, review_vars, gate, rows, seen, seenEvents,
                   check_vars>>

\* Bug: a gate without blockers is approved by the refresh.
GateWriteAuto(w) ==
    /\ phase[w] = "gating"
    /\ gate' = IF Unblocked(status) THEN "approved" ELSE RefreshedGate(seenGate[w])
    /\ seenGate' = [seenGate EXCEPT ![w] = "none"]
    /\ phase' = [phase EXCEPT ![w] = "mark"]
    /\ UNCHANGED <<ledger_vars, status, review_vars, rows, seen, seenEvents, check_vars>>

GateWrite(w) ==
    /\ phase[w] = "gating"
    /\ gate' = RefreshedGate(seenGate[w])
    /\ seenGate' = [seenGate EXCEPT ![w] = "none"]
    /\ phase' = [phase EXCEPT ![w] = "mark"]
    /\ UNCHANGED <<ledger_vars, status, review_vars, rows, seen, seenEvents, check_vars>>

\* Bug: every pending row of the tenant is marked, not the claimed ones.
MarkAllFolded(w) ==
    /\ phase[w] = "mark"
    /\ pending' = {}
    /\ phase' = [phase EXCEPT ![w] = "idle"]
    /\ rows' = [rows EXCEPT ![w] = {}]
    /\ UNCHANGED <<stored, projected, assessed, status, review_vars, gate, seen,
                   seenEvents, seenGate, check_vars>>

MarkFolded(w) ==
    /\ phase[w] = "mark"
    /\ pending' = pending \ rows[w]
    /\ phase' = [phase EXCEPT ![w] = "idle"]
    /\ rows' = [rows EXCEPT ![w] = {}]
    /\ UNCHANGED <<stored, projected, assessed, status, review_vars, gate, seen,
                   seenEvents, seenGate, check_vars>>

\* The fold raises or its process dies: what it committed stays.
Abandon(w) ==
    /\ phase[w] # "idle"
    /\ phase' = [phase EXCEPT ![w] = "idle"]
    /\ rows' = [rows EXCEPT ![w] = {}]
    /\ seen' = [seen EXCEPT ![w] = NothingSeen]
    /\ seenEvents' = [seenEvents EXCEPT ![w] = {}]
    /\ seenGate' = [seenGate EXCEPT ![w] = "none"]
    /\ UNCHANGED <<ledger_vars, status, review_vars, gate, check_vars>>

-----------------------------------------------------------------------------
(***************************************************************************)
(* Reviewers and the clock.                                                *)
(***************************************************************************)

\* create_decision on a finding: record_decision, then the gates of its
\* application are refreshed in the same unit.
Decide(f, s) ==
    /\ status[f] # "none"
    /\ status' = [status EXCEPT ![f] = s]
    /\ gate' = IF Deployed THEN RefreshedGate(gate) ELSE gate
    /\ touched' = touched \cup {f}
    /\ UNCHANGED <<ledger_vars, waiver, everApproved, fold_vars, check_vars>>

\* create_exception: a new record, with an expiry of its own (bound: one for
\* each finding).
CreateException(f) ==
    /\ f \in Waivable
    /\ status[f] # "none"
    /\ waiver[f] = "none"
    /\ waiver' = [waiver EXCEPT ![f] = "active"]
    /\ status' = [status EXCEPT ![f] = "waived"]
    /\ touched' = touched \cup {f}
    /\ UNCHANGED <<ledger_vars, everApproved, gate, fold_vars, check_vars>>

\* The expiry of an exception passes.
Lapse(f) ==
    /\ waiver[f] = "active"
    /\ waiver' = [waiver EXCEPT ![f] = "lapsed"]
    /\ UNCHANGED <<ledger_vars, status, touched, everApproved, gate, fold_vars,
                   check_vars>>

\* The maintenance pass, or a listing of exceptions.
ExpireDueExceptions ==
    /\ \E f \in Finding : waiver[f] = "lapsed"
    /\ status' = ExpiredStatus
    /\ waiver' = ExpiredWaiver
    /\ UNCHANGED <<ledger_vars, touched, everApproved, gate, fold_vars, check_vars>>

\* approve_deployment_gate: due exceptions first, then the live evidence.
Approve ==
    /\ gate = "pending_review"
    /\ Unblocked(ExpiredStatus)
    /\ status' = ExpiredStatus
    /\ waiver' = ExpiredWaiver
    /\ gate' = "approved"
    /\ everApproved' = TRUE
    /\ UNCHANGED <<ledger_vars, touched, fold_vars, check_vars>>

Reject ==
    /\ gate = "pending_review"
    /\ gate' = "rejected"
    /\ UNCHANGED <<ledger_vars, status, review_vars, fold_vars, check_vars>>

-----------------------------------------------------------------------------
(***************************************************************************)
(* find_gate_for_release, behind GET /v1/gates/check: the gate row, the    *)
(* counts of live_gate_evidence, then the pending rows, each a SELECT of   *)
(* its own.  Reads after the first blocker do not change the answer.       *)
(***************************************************************************)

CheckGate(c) ==
    /\ check[c] \in {"gate", "eligible"}
    /\ gate # "none"
    /\ LET reads == gate = "approved"
       IN  /\ check' = [check EXCEPT ![c] = IF reads THEN "risks" ELSE "gate"]
           /\ settled' = [settled EXCEPT ![c] = {e \in stored \ pending : reads}]
           /\ begun' = [begun EXCEPT ![c] = {e \in stored : reads}]
           /\ unseen' = [unseen EXCEPT ![c] = {}]
    /\ UNCHANGED <<ledger_vars, status, review_vars, gate, fold_vars>>

\* The check reads one count.  A blocker refuses; the next check starts over.
Look(c, here, clear, next) ==
    /\ check[c] = here
    /\ check' = [check EXCEPT ![c] = IF clear THEN next ELSE "gate"]
    /\ settled' = [settled EXCEPT ![c] = {e \in @ : clear}]
    /\ begun' = [begun EXCEPT ![c] = {e \in @ : clear}]
    /\ UNCHANGED <<ledger_vars, status, review_vars, gate, fold_vars>>

CheckRisks(c) ==
    /\ Look(c, "risks", OpenRisks(status) = {}, "controls")
    /\ unseen' = [unseen EXCEPT ![c] = {e \in stored \ assessed : OpenRisks(status) = {}}]

CheckCount(c, here, clear, next) ==
    /\ Look(c, here, clear, next)
    /\ unseen' = [unseen EXCEPT ![c] = {e \in @ : clear}]

CheckControls(c) ==
    CheckCount(c, "controls", MissingControls(status) = {}, "changes")

CheckChanges(c) ==
    CheckCount(c, "changes", Cardinality(OpenChanges(status)) <= MaxOpenChanges,
               "proof")

CheckProof(c) == CheckCount(c, "proof", Proven, "pending")

\* Bug: the pending rows are not looked at.
CheckPendingNot(c) == CheckCount(c, "pending", TRUE, "eligible")

CheckPending(c) == CheckCount(c, "pending", pending = {}, "eligible")

CheckStep(c) ==
    \/ CheckGate(c)
    \/ CheckRisks(c)
    \/ CheckControls(c)
    \/ CheckChanges(c)
    \/ CheckProof(c)
    \/ CheckPending(c)

FoldStep(w) ==
    \/ Claim(w)
    \/ Project(w)
    \/ Fingerprint(w)
    \/ AssessRead(w)
    \/ AssessWrite(w)
    \/ GateRead(w)
    \/ GateWrite(w)
    \/ MarkFolded(w)

Next ==
    \/ \E e \in Event : Ingest(e)
    \/ \E w \in Folder : FoldStep(w) \/ Abandon(w)
    \/ \E d \in Decisions : Decide(d[1], d[2])
    \/ \E f \in Finding : CreateException(f) \/ Lapse(f)
    \/ ExpireDueExceptions
    \/ Approve
    \/ Reject
    \/ \E c \in Check : CheckStep(c)

Spec == Init /\ [][Next]_vars
-----------------------------------------------------------------------------
(***************************************************************************)
(*                              PROPERTIES                                 *)
(***************************************************************************)

\* An eligible answer is never given over telemetry that waits in the ledger:
\* every event stored before the check began is folded by the time it answers
\* (find_gate_for_release, the pending_evidence blocker).
EligibleOnlyWhenFolded ==
    \A c \in Check : check[c] = "eligible" => begun[c] \cap pending = {}

\* Telemetry cannot be bypassed without a person: an eligible answer means that
\* every risk raised by events folded before the check began was decided or
\* waived by somebody, and all but max_open_material_changes of the changes
\* were, whatever overlapping, failed and repeated folds did meanwhile.
UndecidedFindingBlocks ==
    \A c \in Check : check[c] = "eligible" =>
        /\ RisksOf(settled[c]) \subseteq touched
        /\ Cardinality(ChangesOf(settled[c]) \ touched) <= MaxOpenChanges

\* "never auto-approve" (upsert_deployment_gate): a gate is approved only after
\* a person approved it, and CI is told so only then.
NeverAutoApproved ==
    /\ gate = "approved" => everApproved
    /\ \A c \in Check : check[c] = "eligible" => everApproved

\* "a gate decision is terminal ... new telemetry already preserves a decided
\* status" (set_deployment_gate_status, upsert_deployment_gate).
GateDecisionIsTerminal ==
    [][(gate \in {"approved", "rejected"}) => (gate' = gate)]_vars

\* "Do not authorize on a deceptively clean projection" (find_gate_for_release):
\* the evidence behind an eligible answer reflects every event that was stored
\* when that evidence was read.
NotOnACleanMirage ==
    \A c \in Check : check[c] = "eligible" => unseen[c] = {}

\* "a batch without evidence leaves an existing assessment exactly as the full
\* recompute would have left it; only a control never assessed before is written
\* as missing" (_fold_controls): a control with folded evidence that no person
\* touched is passing.
EvidenceKeepsControl ==
    \A f \in ControlsOf(stored \ pending) \ touched : status[f] = "passing"
=============================================================================
