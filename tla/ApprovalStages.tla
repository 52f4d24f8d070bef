--------------------------- MODULE ApprovalStages ---------------------------
(***************************************************************************)
(* The stage checklist of one review (approval_stages rows of one subject  *)
(* and round) and what a decision does to it                               *)
(* (apps/platform/app/storage/policy_engine.py, services/authorization.py, *)
(* api/policy.py).                                                         *)
(***************************************************************************)
EXTENDS Integers, Sequences, SequencesExt, FiniteSets

CONSTANTS
    Person,      \* accounts of the organization
    Nobody,      \* decided_by of an undecided stage
    Role,        \* roles a stage can require
    Assigned,    \* the active role assignments of each person
    Grants,      \* the permissions of each role
    Policy       \* policy versions that come into force

ASSUME StagesAssumption ==
    /\ Nobody \notin Person /\ Assigned \in [Person -> SUBSET Role]
    /\ DOMAIN Grants = Role /\ \A r \in Role : IsFiniteSet(Grants[r]) /\ Grants[r] # {}

\* actor_satisfies_stage_role: the stage's own role, or one that grants at least
\* as much.
Authority ==
    [role \in Role |->
        {p \in Person : \E r \in Assigned[p] : r = role \/ Grants[role] \subseteq Grants[r]}]

StageStatus == {"pending", "open", "approved", "rejected"}

Checklist == [policy : Policy, mode : {"sequence", "parallel"},
              stages : Seq([role : Role, status : StageStatus, by : Person \cup {Nobody}])]

\* materialize_stages: pinned to the policy it was made from.
Materialized(roles, mode, policy) ==
    [policy |-> policy, mode |-> mode,
     stages |-> [i \in DOMAIN roles |->
        [role |-> roles[i], by |-> Nobody,
         status |-> IF mode = "parallel" \/ i = 1 THEN "open" ELSE "pending"]]]

AllApproved(list) == \A i \in DOMAIN list.stages : list.stages[i].status = "approved"

\* The lowest stage still waiting for its turn, as a set of at most one.
NextPending(list) ==
    {i \in DOMAIN list.stages :
        /\ list.stages[i].status = "pending"
        /\ \A j \in 1..(i - 1) : list.stages[j].status # "pending"}

\* actor_decided_sibling_stage
DecidedSibling(list, i, p) == \E j \in DOMAIN list.stages \ {i} : list.stages[j].by = p

\* decide_approval_stage: what is asked of the actor, once the subject is known
\* to be undecided.  The permission that require_decision also asks for is the
\* caller's: ReviewWork has it (Decider), VendorReview leaves it out and so
\* admits more deciders than the code.
MayDecideStage(list, i, p, maker) ==
    /\ list.stages[i].status = "open"
    /\ p \in Authority[list.stages[i].role]
    /\ p # maker
    /\ ~DecidedSibling(list, i, p)

\* apply_stage_decision, up to the roll-up of the subject.
StageDecided(list, i, decision, p) ==
    LET marked == [list EXCEPT !.stages[i].status = decision, !.stages[i].by = p]
        opens  == IF decision = "approved" /\ list.mode = "sequence"
                    THEN NextPending(marked) ELSE {}
    IN  [marked EXCEPT !.stages = [j \in DOMAIN @ |->
            IF j \in opens THEN [@[j] EXCEPT !.status = "open"] ELSE @[j]]]

\* Every stage was approved by someone with its authority, each by a different
\* person and none by the maker.
ProperlyApproved(list, maker) ==
    \A i \in DOMAIN list.stages :
        /\ list.stages[i].status = "approved"
        /\ list.stages[i].by \in Authority[list.stages[i].role] \ {maker}
        /\ \A j \in DOMAIN list.stages \ {i} : list.stages[j].by # list.stages[i].by

=============================================================================
