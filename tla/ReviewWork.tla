----------------------------- MODULE ReviewWork -----------------------------
(***************************************************************************)
(* The review of one AI use case: intake, its staged checklist, decisions  *)
(* and exceptions on the review task, routing and escalation, the owner of *)
(* the application, recertification and retirement                         *)
(* (apps/platform/app/storage/intake.py, workflow.py and policy_engine.py, *)
(* api/intake.py, api/policy.py and api/routes.py).                        *)
(*                                                                         *)
(* Every route handler is an @atomic unit, one step; so is a pass of the   *)
(* maintenance worker, whose first write takes the lock.  A day stands for *)
(* the second-resolution timestamps.                                       *)
(***************************************************************************)
EXTENDS ApprovalStages

CONSTANTS
    TierStages,      \* stage roles by policy and tier
    TierMode,        \* "sequence" or "parallel", by policy and tier
    RecertifyAfter,  \* recertify_days by policy and tier, 0 when not set
    Authored,        \* policies the organization wrote (not the seeded default)
    QueueRole,       \* assigned_role of the queue policy for intake reviews
    DueDays,         \* due_days and escalation_days of that policy
    EscalationDays,
    Holders,         \* people assigned exactly each role, in assignment order
    Answers,         \* bound: intake answers people may submit
    Submitter,       \* people with intake.submit
    Decider,         \* people with review.decide
    Acceptor,        \* people with risk.accept
    Manager,         \* people with lifecycle.manage and owner.assign
    Suspendable,     \* bound: accounts that may be suspended
    MaxDecisions,    \* bound: direct decisions on the task
    MaxDay           \* bound: the calendar

Tier == {"limited", "elevated", "high"}

Answer == [sensitivity : 0..3, autonomy : 0..2, individuals : BOOLEAN]

Day == 0..MaxDay

ASSUME ReviewAssumption ==
    /\ TierStages \in [Policy -> [Tier -> Seq(Role)]]
    /\ TierMode \in [Policy -> [Tier -> {"sequence", "parallel"}]]
    /\ RecertifyAfter \in [Policy -> [Tier -> Nat]]
    /\ Policy = 1..Cardinality(Policy) /\ 1 \in Policy /\ Authored \subseteq Policy
    /\ "none" \notin Person
    /\ Answers \subseteq Answer
    /\ QueueRole \in Role /\ Holders \in [Role -> Seq(Person)]
    /\ Submitter \cup Decider \cup Acceptor \cup Manager \cup Suspendable \subseteq Person
    /\ DueDays \in Nat /\ EscalationDays \in Nat /\ MaxDay \in Nat /\ MaxDecisions \in Nat

VARIABLES
    today,     \* the calendar
    inForce,   \* the policy version in force
    active,    \* people whose account is active
    case,      \* the ai_use_cases row
    task,      \* its intake_review task, with the routing of the queue and what
               \* of it was announced (history)
    list,      \* the task's stage checklist
    made,      \* governance_decisions on the task: their actor, decision and rationale
    recert,    \* recertification tasks, by the certification they are about
    owner,     \* the application's owner_assignments row
    told       \* the outcome the submitter was last notified of

vars == <<today, inForce, active, case, task, list, made, recert, owner, told>>

CaseStatus == {"none", "submitted", "approved", "rejected", "recertified", "retired"}

\* "closed" is any status but the two that decide the use case: accepted,
\* mitigation_required, waived or closed.
TaskStatus == {"none", "open", "approved", "rejected", "closed"}

Escalation == {"unassigned", "on_track", "overdue", "escalated"}

TypeOK ==
    /\ today \in Day /\ inForce \in Policy /\ active \subseteq Person
    /\ case \in [status : CaseStatus, tier : Tier, submitter : Person \cup {Nobody}, at : Day]
    /\ task \in [status : TaskStatus, created : Day, assignee : Person \cup {Nobody},
                 escalation : Escalation, heard : SUBSET Person, raised : BOOLEAN]
    /\ list \in Checklist
    /\ made \subseteq Person \X {"approved", "rejected", "closed"} \X 0..MaxDecisions
    /\ recert \in [Day -> {"none", "open", "decided", "closed"}]
    /\ owner \in Person \cup {"none", "unassigned"}
    /\ told \in {"none", "approved", "rejected"}

Init ==
    /\ today = 0 /\ inForce = 1 /\ active = Person
    /\ case = [status |-> "none", tier |-> "elevated", submitter |-> Nobody, at |-> 0]
    /\ task = [status |-> "none", created |-> 0, assignee |-> Nobody,
               escalation |-> "unassigned", heard |-> {}, raised |-> FALSE]
    /\ list = Materialized(<<>>, "sequence", 1)
    /\ made = {} /\ recert = [d \in Day |-> "none"]
    /\ owner = "none" /\ told = "none"

-----------------------------------------------------------------------------
(* Routing: refresh_workflow_state, after whatever the handler changed.    *)

\* _stage_route_role: an authored policy routes to its lowest open stage.
RouteRole(rows) ==
    LET open == {i \in DOMAIN rows.stages : rows.stages[i].status = "open"}
    IN  IF rows.policy \in Authored /\ open # {}
          THEN rows.stages[CHOOSE i \in open : \A j \in open : i <= j].role
          ELSE QueueRole

\* find_assignee: the holder of exactly that role assigned first.
FindAssignee(role) ==
    LET able == SelectSeq(Holders[role], LAMBDA p : p \in active)
    IN  IF able = <<>> THEN Nobody ELSE able[1]

\* queue_status
QueueStatus(created, assignee) ==
    IF assignee = Nobody THEN "unassigned"
    ELSE IF today <= created + DueDays THEN "on_track"
    ELSE IF today > created + DueDays + EscalationDays THEN "escalated"
    ELSE "overdue"

\* As Announced, an escalation expected to follow the overdue notice.
AnnouncedInTurn(t, assignee, escalation) ==
    [t EXCEPT !.heard  = IF assignee \notin {Nobody, t.assignee} THEN @ \cup {assignee} ELSE @,
              !.raised = @ \/ (escalation = "escalated" /\ t.escalation = "overdue")]

\* _notify_queue_transition: a new assignee is told, and the administrators of an
\* escalation, judged by the row as it was.
Announced(t, assignee, escalation) ==
    [t EXCEPT !.heard  = IF assignee \notin {Nobody, t.assignee} THEN @ \cup {assignee} ELSE @,
              !.raised = @ \/ (escalation = "escalated" /\ t.escalation # "escalated")]

\* mark_review_task_queue_state
QueueStateMarked(t, assignee, escalation) ==
    [Announced(t, assignee, escalation) EXCEPT !.assignee = assignee, !.escalation = escalation]

\* refresh_review_queue for the task; only open tasks are routed.
Routed(t, rows) ==
    IF t.status # "open" THEN t
    ELSE LET assignee == FindAssignee(RouteRole(rows))
         IN  QueueStateMarked(t, assignee, QueueStatus(t.created, assignee))

\* As OwnerEnsured, the assignment written again on every refresh.
OwnerReset == "unassigned"

\* apply_owner_policies, ensure_owner_assignment: a row that exists stays.
OwnerEnsured == IF owner = "none" THEN "unassigned" ELSE owner

-----------------------------------------------------------------------------
\* compute_risk_tier
ComputeRiskTier(a) ==
    LET score == a.sensitivity + a.autonomy + (IF a.individuals THEN 1 ELSE 0)
    IN  IF a.sensitivity = 3 \/ score >= 4 THEN "high"
        ELSE IF score >= 2 THEN "elevated" ELSE "limited"

\* create_intake: a resubmission edits the record, restarts its clock and keeps
\* its status and its submitter.
IntakeRecorded(p, tier) ==
    LET first == case.status = "none"
    IN  [status |-> IF first THEN "submitted" ELSE case.status, tier |-> tier,
         submitter |-> IF first THEN p ELSE case.submitter, at |-> today]

\* materialize_intake_stages, from the policy in force
IntakeStages(tier) == Materialized(TierStages[inForce][tier], TierMode[inForce][tier], inForce)

\* _seed_intake_review_task: the first submission opens the task and its
\* checklist; later ones keep both.
Seeded == task.status # "none"

ReviewSeeded ==
    IF Seeded THEN task ELSE [task EXCEPT !.status = "open", !.created = today]

\* POST /api/intake
SubmitIntake(p, answer) ==
    /\ p \in Submitter \cap active
    /\ case' = IntakeRecorded(p, ComputeRiskTier(answer))
    /\ list' = IF Seeded THEN list ELSE IntakeStages(ComputeRiskTier(answer))
    /\ task' = Routed(ReviewSeeded, list')
    /\ owner' = OwnerEnsured
    /\ UNCHANGED <<today, inForce, active, made, recert, told>>

\* As CaseDecided, whatever the use case's status was.
CaseDecidedSilently(outcome) ==
    /\ case' = IF outcome \in {"approved", "rejected"}
                 THEN [case EXCEPT !.status = outcome, !.at = today] ELSE case
    /\ told' = IF case.status = "submitted" /\ outcome # "closed" THEN outcome ELSE told

\* _notify_intake_decided
SubmitterTold(outcome) == told' = outcome

\* apply_decision_status on an intake review: the use case follows the task and
\* its submitter hears of it, once.
CaseDecided(outcome) ==
    LET moves == outcome \in {"approved", "rejected"} /\ case.status # outcome
    IN  /\ case' = IF moves THEN [case EXCEPT !.status = outcome, !.at = today] ELSE case
        /\ IF moves THEN SubmitterTold(outcome) ELSE UNCHANGED told

\* stage_subject_undecided, stage_maker
Undecided == task.status = "open"

Maker == case.submitter

\* POST /api/approval-stages/{id}/decide for the intake review.
DecideStage(p, i, decision) ==
    /\ Undecided
    /\ p \in Decider \cap active
    /\ MayDecideStage(list, i, p, Maker)
    /\ LET rows    == StageDecided(list, i, decision, p)
           outcome == IF decision = "rejected" THEN "rejected"
                      ELSE IF AllApproved(rows) THEN "approved" ELSE "open"
           t       == [task EXCEPT !.status = outcome]
       IN  /\ list' = rows
           /\ task' = Routed(t, rows)
           /\ CaseDecided(outcome)
    /\ owner' = OwnerEnsured
    /\ UNCHANGED <<today, inForce, active, made, recert>>

\* load_decision_target
TargetFound == task.status # "none"

\* enforce_segregation_of_duties
DutiesSegregated(p) == p # case.submitter

\* As StagePolicyAllows, only the wire behaviour from before the policy engine.
StagePolicyIgnored(p, decision) == TRUE

\* enforce_stage_policy: a checklist of several stages takes no direct decision,
\* a single undecided stage asks for its role's authority.
StagePolicyAllows(p, decision) ==
    decision = "closed" \/
        /\ Len(list.stages) <= 1
        /\ \A i \in DOMAIN list.stages :
             list.stages[i].status \in {"open", "pending"} =>
                 p \in Authority[list.stages[i].role]

\* sync_decision_to_stages: the single open stage is stamped.
StagesSynced(p, decision) ==
    IF decision # "closed" /\ Len(list.stages) = 1 /\ list.stages[1].status = "open"
      THEN [list EXCEPT !.stages[1].status = decision, !.stages[1].by = p] ELSE list

\* record_decision: the row is keyed by its content, the rationale included.  Repeating all
\* of it changes nothing; with another rationale, a number here, it is a new decision.
DecisionRecorded(p, decision) ==
    /\ Cardinality(made) < MaxDecisions
    /\ made' = made \cup {<<p, decision, Cardinality(made)>>}
    /\ task' = [task EXCEPT !.status = decision]
    /\ CaseDecided(decision)
    /\ list' = StagesSynced(p, decision)

\* POST /api/decisions on the review task
DecideTask(p, decision) ==
    /\ TargetFound
    /\ p \in Decider \cap active
    /\ DutiesSegregated(p)
    /\ StagePolicyAllows(p, decision)
    /\ DecisionRecorded(p, decision)
    /\ UNCHANGED <<today, inForce, active, recert, owner>>

\* create_exception: the task is waived.
Waived == [task EXCEPT !.status = "closed"]

\* POST /api/exceptions on the review task
ExceptTask(p) ==
    /\ TargetFound
    /\ p \in Acceptor \cap active
    /\ task' = Waived
    /\ UNCHANGED <<today, inForce, active, case, list, made, recert, owner, told>>

\* close_recertification_tasks
RecertificationsClosed == [d \in Day |-> IF recert[d] = "open" THEN "closed" ELSE recert[d]]

\* set_intake_status: from any status.
IntakeStatusSet(status) ==
    /\ case' = [case EXCEPT !.status = status, !.at = today]
    /\ recert' = RecertificationsClosed

\* POST /api/intake/{id}/recertify and /retire
LifecycleTransition(p, status) ==
    /\ p \in Manager \cap active
    /\ case.status # "none"
    /\ IntakeStatusSet(status)
    /\ UNCHANGED <<today, inForce, active, task, list, made, owner, told>>

\* age_recertifications: one reminder per certification.
AgeRecertification ==
    LET days == RecertifyAfter[inForce][case.tier]
    IN  /\ case.status \in {"approved", "recertified"}
        /\ days # 0 /\ today > case.at + days
        /\ recert[case.at] = "none"
        /\ recert' = [recert EXCEPT ![case.at] = "open"]
        /\ UNCHANGED <<today, inForce, active, case, task, list, made, owner, told>>

\* POST /api/decisions on a recertification review: it has no stages, and the
\* use case is not moved.
DecideRecertification(p, d) ==
    /\ recert[d] = "open"
    /\ p \in Decider \cap active
    /\ DutiesSegregated(p)
    /\ recert' = [recert EXCEPT ![d] = "decided"]
    /\ UNCHANGED <<today, inForce, active, case, task, list, made, owner, told>>

\* assign_owner
OwnerAssigned(q) == owner # "none" /\ owner' = q

\* POST /api/owner-assignments/{id}/assign
AssignOwner(p, q) ==
    /\ p \in Manager \cap active
    /\ OwnerAssigned(q)
    /\ UNCHANGED <<today, inForce, active, case, task, list, made, recert, told>>

\* refresh_workflow_state, after telemetry of the application is folded and at
\* the end of a maintenance pass: owners and queue are refreshed.
RefreshWorkflow ==
    /\ owner' = OwnerEnsured
    /\ task' = Routed(task, list)
    /\ UNCHANGED <<today, inForce, active, case, list, made, recert, told>>

SetUserStatus(p) ==
    /\ active' = IF p \in active THEN active \ {p} ELSE active \cup {p}
    /\ UNCHANGED <<today, inForce, case, task, list, made, recert, owner, told>>

ChangePolicy ==
    /\ inForce + 1 \in Policy
    /\ inForce' = inForce + 1
    /\ UNCHANGED <<today, active, case, task, list, made, recert, owner, told>>

NextDay ==
    /\ today < MaxDay
    /\ today' = today + 1
    /\ UNCHANGED <<inForce, active, case, task, list, made, recert, owner, told>>

Next ==
    \/ \E p \in Submitter, a \in Answers : SubmitIntake(p, a)
    \/ \E p \in Decider, i \in DOMAIN list.stages, d \in {"approved", "rejected"} :
         DecideStage(p, i, d)
    \/ \E p \in Decider, d \in {"approved", "rejected", "closed"} : DecideTask(p, d)
    \/ \E p \in Acceptor : ExceptTask(p)
    \/ \E p \in Manager, s \in {"recertified", "retired"} : LifecycleTransition(p, s)
    \/ AgeRecertification
    \/ \E p \in Decider, d \in Day : DecideRecertification(p, d)
    \/ \E p \in Manager, q \in Manager : AssignOwner(p, q)
    \/ RefreshWorkflow
    \/ \E p \in Suspendable : SetUserStatus(p)
    \/ ChangePolicy \/ NextDay

Spec == Init /\ [][Next]_vars

-----------------------------------------------------------------------------
\* A use case whose policy asks for several stages is approved only by all of
\* them: resubmissions, policy changes, direct decisions, waivers and retirement
\* open no shorter way (enforce_stage_policy, _roll_up_subject). It speaks of the
\* checklist the review was opened with: a resubmission that raises the tier
\* keeps that checklist and is approved by it (create_intake).
StagedApproval ==
    (case.status = "approved" /\ Len(list.stages) > 1) =>
        ProperlyApproved(list, case.submitter)

\* A decided stage and an assigned owner stand: no step, the refresh that runs on
\* every ingest included, changes the one or takes the other away again
\* (refresh_workflow, apply_stage_decision).
HumanCallsStand ==
    [][ /\ \A i \in DOMAIN list.stages :
             list.stages[i].status \in {"approved", "rejected"} =>
                 list'.stages[i] = list.stages[i]
        /\ owner \in Person => owner' \in Person ]_vars

\* While the use case stands approved or rejected, that is the outcome its
\* submitter heard last, however often the decision was reversed
\* (_notify_intake_decided).
SubmitterKnowsOutcome == case.status \in {"approved", "rejected"} => told = case.status

\* Nobody owns a review they never heard of and no review stands escalated
\* without the administrators knowing, whatever was skipped between two
\* refreshes: suspensions, days, decisions of a stage (_notify_queue_transition).
QueueIsAnnounced ==
    /\ task.assignee # Nobody => task.assignee \in task.heard
    /\ task.escalation = "escalated" => task.raised

\* An approved use case was approved by someone with the authority of each of
\* its stages ("so the policy's chosen role is enforced").
ApprovedByStageRole ==
    case.status = "approved" =>
        \A i \in DOMAIN list.stages :
            \E p \in Authority[list.stages[i].role] :
                \/ list.stages[i].by = p /\ list.stages[i].status = "approved"
                \/ \E why \in 0..MaxDecisions : <<p, "approved", why>> \in made
=============================================================================
