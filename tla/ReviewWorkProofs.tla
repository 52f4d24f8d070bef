-------------------------- MODULE ReviewWorkProofs --------------------------
(***************************************************************************)
(* Proofs about the review of a use case, for any people, roles, policies, *)
(* answers and calendar.                                                   *)
(***************************************************************************)
EXTENDS ReviewWork, SequenceTheorems, TLAPS

Stage == [role : Role, status : StageStatus, by : Person \cup {Nobody}]

List == [policy : Policy, mode : {"sequence", "parallel"}, stages : Seq(Stage)]

Case == [status : CaseStatus, tier : Tier, submitter : Person \cup {Nobody}, at : Nat]

\* The fields of the task that routing and decisions replace.
Fields(t) ==
    /\ t \in [status : {t.status}, created : {t.created}, assignee : {t.assignee},
              escalation : {t.escalation}, heard : {t.heard}, raised : {t.raised}]
    /\ t.raised \in BOOLEAN

Shape ==
    /\ today \in Nat /\ inForce \in Policy /\ active \subseteq Person
    /\ case \in Case /\ list \in List
    /\ Fields(task) /\ task.status \in TaskStatus

\* The task is opened with the use case, and its checklist with the task.
OpenedTogether ==
    /\ task.status = "none" <=> case.status = "none"
    /\ task.status = "none" => list.stages = <<>>

\* Every decided stage was decided by somebody who may, and no two by the same person.
DecidedByThoseWhoMay ==
    \A i \in DOMAIN list.stages :
        LET s == list.stages[i]
        IN  /\ s.by = Nobody <=> s.status \in {"pending", "open"}
            /\ s.by # Nobody =>
                 /\ s.by \in Authority[s.role] \ {case.submitter}
                 /\ \A j \in DOMAIN list.stages \ {i} : list.stages[j].by # s.by

ApprovedByAll == (case.status = "approved" /\ Len(list.stages) > 1) => AllApproved(list)

ReviewInv ==
    /\ Shape /\ OpenedTogether /\ DecidedByThoseWhoMay /\ ApprovedByAll
    /\ SubmitterKnowsOutcome /\ QueueIsAnnounced

-----------------------------------------------------------------------------
(***************************************************************************)
(* Checklists.                                                             *)
(***************************************************************************)

\* materialize_stages: a stage for each role, all undecided.
LEMMA MaterializedList ==
    ASSUME NEW roles \in Seq(Role), NEW policy \in Policy,
           NEW mode \in {"sequence", "parallel"}
    PROVE  LET l == Materialized(roles, mode, policy)
           IN  /\ l \in List /\ l.policy = policy
               /\ DOMAIN l.stages = DOMAIN roles
               /\ \A i \in DOMAIN roles :
                    /\ l.stages[i].role = roles[i] /\ l.stages[i].by = Nobody
                    /\ l.stages[i].status \in {"pending", "open"}
<1> DEFINE st == [i \in DOMAIN roles |->
                    [role |-> roles[i], by |-> Nobody,
                     status |-> IF mode = "parallel" \/ i = 1 THEN "open" ELSE "pending"]]
<1>1. DOMAIN roles = 1..Len(roles) /\ Len(roles) \in Nat
  BY LenProperties
<1>2. \A i \in 1..Len(roles) : roles[i] \in Role
  BY ElementOfSeq
<1>3. st \in [1..Len(roles) -> Stage]
  BY <1>1, <1>2 DEF Stage, StageStatus
<1>4. st \in Seq(Stage)
  BY <1>1, <1>3, SeqDef
<1>5. Materialized(roles, mode, policy) = [policy |-> policy, mode |-> mode, stages |-> st]
  BY DEF Materialized
<1>6. /\ DOMAIN st = DOMAIN roles
      /\ \A i \in DOMAIN roles :
           /\ st[i].role = roles[i] /\ st[i].by = Nobody /\ st[i].status \in {"pending", "open"}
  OBVIOUS
<1> HIDE DEF st
<1>7. [policy |-> policy, mode |-> mode, stages |-> st] \in List
  BY <1>4 DEF List
<1> QED
  BY <1>5, <1>6, <1>7

\* apply_stage_decision: the stage gets its decision, and another one may open.
LEMMA DecidedList ==
    ASSUME NEW l \in List, NEW i \in DOMAIN l.stages, NEW p \in Person,
           NEW decision \in {"approved", "rejected"}
    PROVE  LET m == StageDecided(l, i, decision, p)
           IN  /\ m \in List /\ m.policy = l.policy
               /\ DOMAIN m.stages = DOMAIN l.stages
               /\ m.stages[i].role = l.stages[i].role
               /\ m.stages[i].status = decision /\ m.stages[i].by = p
               /\ \A j \in DOMAIN l.stages \ {i} :
                    /\ m.stages[j].role = l.stages[j].role /\ m.stages[j].by = l.stages[j].by
                    /\ \/ m.stages[j] = l.stages[j]
                       \/ l.stages[j].status = "pending" /\ m.stages[j].status = "open"
<1> DEFINE s == l.stages
           marked == [l EXCEPT !.stages[i].status = decision, !.stages[i].by = p]
           opens == IF decision = "approved" /\ l.mode = "sequence" THEN NextPending(marked) ELSE {}
           t == marked.stages
           u == [j \in DOMAIN t |-> IF j \in opens THEN [t[j] EXCEPT !.status = "open"] ELSE t[j]]
<1>1. /\ s \in Seq(Stage) /\ DOMAIN s = 1..Len(s) /\ Len(s) \in Nat
      /\ s \in [1..Len(s) -> Stage] /\ l.policy \in Policy
  BY LenProperties DEF List
<1>2. s[i] \in Stage
  BY <1>1
<1>3. t = [s EXCEPT ![i] = [s[i] EXCEPT !.status = decision, !.by = p]]
      /\ marked = [l EXCEPT !.stages = t]
  BY DEF List
<1>4. /\ t \in [1..Len(s) -> Stage]
      /\ t[i].role = s[i].role /\ t[i].status = decision /\ t[i].by = p
      /\ \A j \in DOMAIN s \ {i} : t[j] = s[j]
  <2> DEFINE e == [s[i] EXCEPT !.status = decision, !.by = p]
  <2>1. e \in Stage /\ e.role = s[i].role /\ e.status = decision /\ e.by = p
    <3>1. ASSUME NEW x \in Stage
          PROVE  LET y == [x EXCEPT !.status = decision, !.by = p]
                 IN  y \in Stage /\ y.role = x.role /\ y.status = decision /\ y.by = p
      BY DEF Stage, StageStatus
    <3> QED
      BY <1>2, <3>1
  <2>2. t = [s EXCEPT ![i] = e]
    <3> HIDE DEF marked
    <3> QED
      BY <1>3
  <2> HIDE DEF e, t, s
  <2>3. i \in 1..Len(s)
    BY <1>1 DEF s
  <2> QED
    BY <1>1, <2>1, <2>2, <2>3
<1>5. StageDecided(l, i, decision, p) = [marked EXCEPT !.stages = u]
  BY DEF StageDecided
<1>6. \A j \in opens : j \in DOMAIN t /\ t[j].status = "pending"
  <2> HIDE DEF marked
  <2>1. opens \subseteq NextPending(marked)
    OBVIOUS
  <2> QED
    BY <2>1 DEF NextPending
<1> HIDE DEF opens
<1>7. u \in [1..Len(s) -> Stage]
  BY <1>4 DEF Stage, StageStatus
<1>8. /\ [marked EXCEPT !.stages = u] = [l EXCEPT !.stages = u]
      /\ [l EXCEPT !.stages = u].stages = u /\ [l EXCEPT !.stages = u].policy = l.policy
  BY <1>3 DEF List
<1>9. [l EXCEPT !.stages = u] \in List
  <2>1. u \in Seq(Stage)
    <3> HIDE DEF u, s
    <3> QED
      BY <1>1, <1>7, SeqDef
  <2>2. l.policy \in Policy /\ l.mode \in {"sequence", "parallel"}
    BY DEF List
  <2> HIDE DEF u
  <2>3. [l EXCEPT !.stages = u] = [policy |-> l.policy, mode |-> l.mode, stages |-> u]
    BY DEF List
  <2> QED
    BY <2>1, <2>2, <2>3 DEF List
<1>10. i \notin opens /\ u[i] = t[i]
  <2>1. t[i].status = decision
    BY <1>4
  <2> QED
    BY <1>1, <1>4, <1>6, <2>1
<1>11. ASSUME NEW j \in DOMAIN s \ {i}
       PROVE  /\ u[j].role = s[j].role /\ u[j].by = s[j].by
              /\ \/ u[j] = s[j]
                 \/ s[j].status = "pending" /\ u[j].status = "open"
  <2>1. t[j] = s[j] /\ s[j] \in Stage /\ j \in DOMAIN t
    BY <1>1, <1>4
  <2>2. CASE j \in opens
    BY <1>6, <2>1, <2>2 DEF Stage
  <2>3. CASE j \notin opens
    BY <2>1, <2>3
  <2> QED
    BY <2>2, <2>3
<1>12. DOMAIN u = DOMAIN s
  BY <1>1, <1>4
<1> DEFINE m == StageDecided(l, i, decision, p)
<1> HIDE DEF u, marked, t
<1>13. m \in List /\ m.policy = l.policy /\ m.stages = u
  BY <1>5, <1>8, <1>9
<1> HIDE DEF m
<1>14. m.stages[i].role = s[i].role /\ m.stages[i].status = decision /\ m.stages[i].by = p
  BY <1>4, <1>10, <1>13
<1> QED
  BY <1>11, <1>12, <1>13, <1>14 DEF m

-----------------------------------------------------------------------------
(***************************************************************************)
(* The task.                                                               *)
(***************************************************************************)

\* What QueueIsAnnounced says of the task, for any row.
HeardOf(t) ==
    /\ t.assignee # Nobody => t.assignee \in t.heard
    /\ t.escalation = "escalated" => t.raised

\* mark_review_task_queue_state announces whatever routing it writes.
LEMMA MarkedIsHeard ==
    ASSUME NEW t, Fields(t), HeardOf(t), NEW who, NEW level
    PROVE  LET u == QueueStateMarked(t, who, level)
           IN  Fields(u) /\ u.status = t.status /\ HeardOf(u)
<1> DEFINE heard == IF who \notin {Nobody, t.assignee} THEN t.heard \cup {who} ELSE t.heard
           raised == t.raised \/ (level = "escalated" /\ t.escalation # "escalated")
           u == QueueStateMarked(t, who, level)
<1>1. ASSUME NEW S, NEW C, NEW A, NEW E, NEW H, NEW R, NEW h2 \in H, NEW r2 \in R,
             NEW a2 \in A, NEW e2 \in E,
             NEW x \in [status : S, created : C, assignee : A,
                        escalation : E, heard : H, raised : R]
      PROVE  LET y == [[x EXCEPT !.heard = h2, !.raised = r2]
                         EXCEPT !.assignee = a2, !.escalation = e2]
             IN  /\ y \in [status : S, created : C, assignee : A,
                           escalation : E, heard : H, raised : R]
                 /\ y.status = x.status /\ y.assignee = a2 /\ y.escalation = e2
                 /\ y.heard = h2 /\ y.raised = r2 /\ y.created = x.created
  OBVIOUS
<1>2. u = [[t EXCEPT !.heard = heard, !.raised = raised]
             EXCEPT !.assignee = who, !.escalation = level]
  BY DEF QueueStateMarked, Announced
<1>3. who # Nobody => who \in heard
  BY DEF HeardOf
<1>4. level = "escalated" => raised
  BY DEF HeardOf
<1>5. raised \in BOOLEAN
  BY DEF Fields
<1> HIDE DEF heard, raised, u
<1>6. t \in [status : {t.status}, created : {t.created}, assignee : {t.assignee, who},
             escalation : {t.escalation, level}, heard : {t.heard, heard},
             raised : {t.raised, raised}]
  BY DEF Fields
<1>7. /\ u \in [status : {t.status}, created : {t.created}, assignee : {t.assignee, who},
                escalation : {t.escalation, level}, heard : {t.heard, heard},
                raised : {t.raised, raised}]
      /\ u.status = t.status /\ u.assignee = who /\ u.escalation = level
      /\ u.heard = heard /\ u.raised = raised /\ u.created = t.created
  BY <1>1, <1>2, <1>6
<1>8. Fields(u)
  BY <1>5, <1>7 DEF Fields
<1>9. HeardOf(u)
  BY <1>3, <1>4, <1>7 DEF HeardOf
<1> QED
  BY <1>7, <1>8, <1>9 DEF u

\* refresh_review_queue keeps the status of the task and announces its routing.
LEMMA RoutedIsHeard ==
    ASSUME NEW t, NEW rows, Fields(t), HeardOf(t)
    PROVE  LET u == Routed(t, rows)
           IN  Fields(u) /\ u.status = t.status /\ HeardOf(u)
<1>1. CASE t.status # "open"
  BY <1>1 DEF Routed
<1>2. CASE t.status = "open"
  <2> DEFINE who == FindAssignee(RouteRole(rows))
             level == QueueStatus(t.created, who)
  <2>1. Routed(t, rows) = QueueStateMarked(t, who, level)
    BY <1>2 DEF Routed
  <2> HIDE DEF who, level
  <2> QED
    BY <2>1, MarkedIsHeard
<1> QED
  BY <1>1, <1>2

\* A new status changes nothing of the routing.
LEMMA StatusIsHeard ==
    ASSUME NEW t, Fields(t), HeardOf(t), NEW s
    PROVE  LET u == [t EXCEPT !.status = s]
           IN  Fields(u) /\ u.status = s /\ HeardOf(u)
<1>1. [t EXCEPT !.status = s]
        = [status |-> s, created |-> t.created, assignee |-> t.assignee,
           escalation |-> t.escalation, heard |-> t.heard, raised |-> t.raised]
  BY DEF Fields
<1> QED
  BY <1>1 DEF Fields, HeardOf

-----------------------------------------------------------------------------
(***************************************************************************)
(* The steps.                                                              *)
(***************************************************************************)

\* apply_decision_status: the use case takes the outcome and its submitter hears of it.
LEMMA CaseFollows ==
    ASSUME case \in Case, today \in Nat, SubmitterKnowsOutcome, NEW outcome,
           CaseDecided(outcome)
    PROVE  /\ case' \in Case /\ case'.submitter = case.submitter /\ SubmitterKnowsOutcome'
           /\ outcome \in {"approved", "rejected"} => case'.status = outcome
           /\ outcome \notin {"approved", "rejected"} => case'.status = case.status
<1>1. CASE outcome \in {"approved", "rejected"} /\ case.status # outcome
  <2>1. case' = [case EXCEPT !.status = outcome, !.at = today] /\ told' = outcome
    BY <1>1 DEF CaseDecided, SubmitterTold
  <2>2. outcome \in CaseStatus
    BY <1>1 DEF CaseStatus
  <2>3. case' \in Case /\ case'.submitter = case.submitter /\ case'.status = outcome
    <3> DEFINE y == [case EXCEPT !.status = outcome, !.at = today]
    <3>1. case \in Case
      OBVIOUS
    <3>2. y \in Case /\ y.submitter = case.submitter /\ y.status = outcome
      BY <2>2, <3>1 DEF Case
    <3>3. case' = y
      BY <2>1
    <3> HIDE DEF y
    <3> QED
      BY <3>2, <3>3
  <2>4. SubmitterKnowsOutcome'
    BY <2>1, <2>3 DEF SubmitterKnowsOutcome
  <2> QED
    BY <1>1, <2>3, <2>4
<1>2. CASE ~(outcome \in {"approved", "rejected"} /\ case.status # outcome)
  BY <1>2 DEF CaseDecided, SubmitterKnowsOutcome
<1> QED
  BY <1>1, <1>2

\* A checklist all of whose decisions are by those who may, and which is complete, is a
\* proper approval.
LEMMA CompleteIsProper ==
    ASSUME DecidedByThoseWhoMay, AllApproved(list)
    PROVE  ProperlyApproved(list, case.submitter)
BY DEF DecidedByThoseWhoMay, AllApproved, ProperlyApproved

\* What the invariant says of the pieces a step needs.
LEMMA InvParts ==
    ASSUME ReviewInv
    PROVE  /\ case \in Case /\ list \in List /\ today \in Nat /\ inForce \in Policy
           /\ Fields(task) /\ HeardOf(task) /\ task.status \in TaskStatus
           /\ list.stages \in Seq(Stage) /\ Len(list.stages) \in Nat
           /\ DOMAIN list.stages = 1..Len(list.stages)
           /\ \A j \in DOMAIN list.stages : list.stages[j] \in Stage
           /\ DecidedByThoseWhoMay /\ OpenedTogether /\ ApprovedByAll
           /\ SubmitterKnowsOutcome
<1>1. list \in List
  BY DEF ReviewInv, Shape
<1>2. list.stages \in Seq(Stage)
  BY <1>1 DEF List
<1>3. \A j \in DOMAIN list.stages : list.stages[j] \in Stage
  BY <1>2, LenProperties, ElementOfSeq
<1>4. Len(list.stages) \in Nat /\ DOMAIN list.stages = 1..Len(list.stages)
  BY <1>2, LenProperties
<1>5. HeardOf(task)
  BY DEF ReviewInv, QueueIsAnnounced, HeardOf
<1> QED
  BY <1>1, <1>2, <1>3, <1>4, <1>5 DEF ReviewInv, Shape

\* POST /api/approval-stages/{id}/decide for the intake review.
LEMMA StageDecisionKeeps ==
    ASSUME ReviewInv, NEW p \in Person, NEW i \in DOMAIN list.stages,
           NEW d \in {"approved", "rejected"}, DecideStage(p, i, d)
    PROVE  ReviewInv'
<1> DEFINE m == StageDecided(list, i, d, p)
           s == list.stages
           t == m.stages
           outcome == IF d = "rejected" THEN "rejected"
                      ELSE IF AllApproved(m) THEN "approved" ELSE "open"
<1>1. /\ m \in List /\ m.policy = list.policy
      /\ DOMAIN t = DOMAIN s
      /\ t[i].role = s[i].role /\ t[i].status = d /\ t[i].by = p
      /\ \A j \in DOMAIN s \ {i} :
           /\ t[j].role = s[j].role /\ t[j].by = s[j].by
           /\ t[j] = s[j] \/ (s[j].status = "pending" /\ t[j].status = "open")
  BY InvParts, DecidedList
<1>2. /\ s[i].status = "open" /\ p \in Authority[s[i].role] /\ p # case.submitter
      /\ \A j \in DOMAIN s \ {i} : s[j].by # p
  BY DEF DecideStage, MayDecideStage, DecidedSibling, Maker
<1>3. /\ list' = m /\ task' = Routed([task EXCEPT !.status = outcome], m)
      /\ CaseDecided(outcome) /\ UNCHANGED <<today, inForce, active>> /\ task.status = "open"
  BY DEF DecideStage, Undecided
<1>4. outcome \in {"approved", "rejected", "open"} /\ (outcome = "approved" => AllApproved(m))
  OBVIOUS
<1> HIDE DEF m, outcome
<1>5. /\ case' \in Case /\ case'.submitter = case.submitter /\ SubmitterKnowsOutcome'
      /\ outcome \in {"approved", "rejected"} => case'.status = outcome
      /\ outcome \notin {"approved", "rejected"} => case'.status = case.status
  BY <1>3, InvParts, CaseFollows
<1>6. Fields(task)' /\ task'.status = outcome /\ HeardOf(task)'
  <2> DEFINE x == [task EXCEPT !.status = outcome]
  <2>1. Fields(x) /\ x.status = outcome /\ HeardOf(x)
    BY InvParts, StatusIsHeard
  <2> HIDE DEF x
  <2>2. task' = Routed(x, m)
    BY <1>3 DEF x
  <2>3. LET u == Routed(x, m) IN Fields(u) /\ u.status = x.status /\ HeardOf(u)
    BY <2>1, RoutedIsHeard
  <2> QED
    BY <2>1, <2>2, <2>3 DEF Fields, HeardOf
<1>7. Shape'
  BY <1>1, <1>3, <1>4, <1>5, <1>6 DEF ReviewInv, Shape, TaskStatus
<1>8. OpenedTogether'
  <2>1. case.status # "none"
    BY <1>3, InvParts DEF OpenedTogether
  <2> QED
    BY <1>4, <1>5, <1>6, <2>1 DEF OpenedTogether
<1>9. DecidedByThoseWhoMay'
  <2> HIDE DEF s, t
  <2>1. p # Nobody
    BY StagesAssumption
  <2>2. ASSUME NEW j \in DOMAIN t
        PROVE  /\ t[j].by = Nobody <=> t[j].status \in {"pending", "open"}
               /\ t[j].by # Nobody =>
                    /\ t[j].by \in Authority[t[j].role] \ {case'.submitter}
                    /\ \A k \in DOMAIN t \ {j} : t[k].by # t[j].by
    <3>1. j \in DOMAIN s
      BY <1>1
    <3>2. /\ s[j].by = Nobody <=> s[j].status \in {"pending", "open"}
          /\ s[j].by # Nobody =>
               /\ s[j].by \in Authority[s[j].role] \ {case.submitter}
               /\ \A k \in DOMAIN s \ {j} : s[k].by # s[j].by
      BY <3>1, InvParts DEF DecidedByThoseWhoMay, s
    <3>3. CASE j = i
      BY <1>1, <1>2, <1>5, <2>1, <3>3
    <3>4. CASE j # i
      <4>1. t[j].role = s[j].role /\ t[j].by = s[j].by
        BY <1>1, <3>1, <3>4
      <4>2. t[j].by = Nobody <=> t[j].status \in {"pending", "open"}
        BY <1>1, <3>1, <3>2, <3>4
      <4>3. \A k \in DOMAIN t \ {j} : t[j].by # Nobody => t[k].by # t[j].by
        BY <1>1, <1>2, <3>1, <3>2, <3>4
      <4> QED
        BY <1>5, <3>2, <4>1, <4>2, <4>3
    <3> QED
      BY <3>3, <3>4
  <2> QED
    BY <1>3, <2>2 DEF DecidedByThoseWhoMay, t
<1>10. ApprovedByAll'
  <2>1. CASE outcome = "approved"
    BY <1>3, <1>4, <2>1 DEF ApprovedByAll
  <2>2. CASE outcome = "rejected"
    BY <1>5, <2>2 DEF ApprovedByAll
  <2>3. CASE outcome = "open"
    <3>1. case.status = "approved" => ~(Len(s) > 1)
      BY <1>2, InvParts DEF ApprovedByAll, AllApproved
    <3>2. Len(t) = Len(s)
      <4>1. t \in Seq(Stage) /\ s \in Seq(Stage)
        BY <1>1, InvParts DEF List
      <4> HIDE DEF s, t
      <4> QED
        BY <1>1, <4>1, LenProperties
    <3> QED
      BY <1>3, <1>5, <2>3, <3>1, <3>2 DEF ApprovedByAll
  <2> QED
    BY <1>4, <2>1, <2>2, <2>3
<1> QED
  BY <1>5, <1>6, <1>7, <1>8, <1>9, <1>10 DEF ReviewInv, QueueIsAnnounced, HeardOf

\* POST /api/decisions on the review task: a checklist of several stages takes none, a
\* single open stage is stamped by somebody with its role's authority.
LEMMA TaskDecisionKeeps ==
    ASSUME ReviewInv, NEW p \in Person, NEW d \in {"approved", "rejected", "closed"},
           DecideTask(p, d)
    PROVE  ReviewInv'
<1> DEFINE s == list.stages
           m == StagesSynced(p, d)
<1>1. /\ task.status # "none" /\ p # case.submitter
      /\ task' = [task EXCEPT !.status = d] /\ CaseDecided(d) /\ list' = m
      /\ UNCHANGED <<today, inForce, active>>
  BY DEF DecideTask, TargetFound, DutiesSegregated, DecisionRecorded
<1>2. d # "closed" => /\ ~(Len(s) > 1)
                      /\ \A i \in DOMAIN s : s[i].status \in {"open", "pending"} =>
                                               p \in Authority[s[i].role]
  BY InvParts DEF DecideTask, StagePolicyAllows
<1>3. /\ case' \in Case /\ case'.submitter = case.submitter /\ SubmitterKnowsOutcome'
      /\ d \in {"approved", "rejected"} => case'.status = d
      /\ d \notin {"approved", "rejected"} => case'.status = case.status
  BY <1>1, InvParts, CaseFollows
<1>4. Fields(task)' /\ task'.status = d /\ HeardOf(task)'
  <2>1. LET u == [task EXCEPT !.status = d] IN Fields(u) /\ u.status = d /\ HeardOf(u)
    BY InvParts, StatusIsHeard
  <2> QED
    BY <1>1, <2>1 DEF Fields, HeardOf
<1>5. /\ m \in List /\ DOMAIN m.stages = DOMAIN s /\ Len(m.stages) = Len(s)
      /\ DecidedByThoseWhoMay'
  <2>1. CASE d # "closed" /\ Len(s) = 1 /\ s[1].status = "open"
    <3> DEFINE e == [s[1] EXCEPT !.status = d, !.by = p]
               t == [s EXCEPT ![1] = e]
    <3>1. 1 \in DOMAIN s /\ s[1] \in Stage /\ DOMAIN s = 1..1 /\ list \in List
      BY <2>1, InvParts
    <3>2. e \in Stage /\ e.role = s[1].role /\ e.status = d /\ e.by = p
      <4>1. ASSUME NEW x \in Stage, NEW c \in {"approved", "rejected"}
            PROVE  LET y == [x EXCEPT !.status = c, !.by = p]
                   IN  y \in Stage /\ y.role = x.role /\ y.status = c /\ y.by = p
        BY DEF Stage, StageStatus
      <4>2. d \in {"approved", "rejected"} /\ s[1] \in Stage
        BY <2>1, <3>1
      <4> HIDE DEF s
      <4> QED
        BY <4>1, <4>2
    <3>3. m = [list EXCEPT !.stages = t]
      BY <2>1, <3>1 DEF StagesSynced, List
    <3> HIDE DEF e
    <3>4. t \in [1..1 -> Stage] /\ t[1] = e /\ DOMAIN t = DOMAIN s
      <4>1. s \in [1..1 -> Stage]
        <5> HIDE DEF s
        <5>1. s \in Seq(Stage) /\ Len(s) = 1
          BY <2>1, InvParts DEF s
        <5> QED
          BY <5>1, LenProperties
      <4> HIDE DEF s
      <4> QED
        BY <3>2, <4>1
    <3>5. t \in Seq(Stage)
      <4> HIDE DEF t
      <4> QED
        BY <3>4, SeqDef
    <3> HIDE DEF t
    <3>6. m \in List /\ m.stages = t
      BY <3>1, <3>3, <3>5 DEF List
    <3>7. Len(t) = Len(s)
      <4>1. s \in Seq(Stage)
        BY InvParts
      <4> HIDE DEF s
      <4> QED
        BY <3>4, <3>5, <4>1, LenProperties
    <3>8. p \in Authority[s[1].role]
      BY <1>2, <2>1, <3>1
    <3>9. p # Nobody
      BY StagesAssumption
    <3> HIDE DEF m
    <3>10. DecidedByThoseWhoMay'
      BY <1>1, <1>3, <2>1, <3>1, <3>2, <3>4, <3>6, <3>8, <3>9 DEF DecidedByThoseWhoMay
    <3> QED
      BY <3>4, <3>6, <3>7, <3>10
  <2>2. CASE ~(d # "closed" /\ Len(s) = 1 /\ s[1].status = "open")
    <3>1. m = list
      BY <2>2 DEF StagesSynced
    <3> HIDE DEF m
    <3> QED
      BY <1>1, <1>3, <3>1, InvParts DEF DecidedByThoseWhoMay
  <2> QED
    BY <2>1, <2>2
<1> HIDE DEF m
<1>6. Shape'
  BY <1>1, <1>3, <1>4, <1>5 DEF ReviewInv, Shape, TaskStatus
<1>7. OpenedTogether'
  <2>1. case.status # "none"
    BY <1>1, InvParts DEF OpenedTogether
  <2> QED
    BY <1>3, <1>4, <2>1 DEF OpenedTogether
<1>8. ApprovedByAll'
  <2>1. CASE d # "closed"
    BY <1>1, <1>2, <1>5, <2>1 DEF ApprovedByAll
  <2>2. CASE d = "closed"
    <3>1. m = list
      BY <2>2 DEF StagesSynced, m
    <3> QED
      BY <1>1, <1>3, <2>2, <3>1, InvParts DEF ApprovedByAll, AllApproved
  <2> QED
    BY <2>1, <2>2
<1> QED
  BY <1>3, <1>4, <1>5, <1>6, <1>7, <1>8 DEF ReviewInv, QueueIsAnnounced, HeardOf

\* POST /api/intake: the first submission opens the review, a later one leaves it alone.
LEMMA SubmissionKeeps ==
    ASSUME ReviewInv, NEW p \in Person, NEW a \in Answer, SubmitIntake(p, a)
    PROVE  ReviewInv'
<1> DEFINE tier == ComputeRiskTier(a)
           x == ReviewSeeded
<1>1. tier \in Tier
  BY DEF ComputeRiskTier, Tier
<1>2. /\ case' = IntakeRecorded(p, tier) /\ task' = Routed(x, list')
      /\ list' = IF Seeded THEN list ELSE IntakeStages(tier)
      /\ UNCHANGED <<today, inForce, active, told>>
  BY DEF SubmitIntake
<1> HIDE DEF tier
<1>3. /\ Fields(x) /\ HeardOf(x)
      /\ x.status = IF Seeded THEN task.status ELSE "open"
  <2>1. LET u == [task EXCEPT !.status = "open", !.created = today]
        IN  Fields(u) /\ u.status = "open" /\ HeardOf(u)
    <3> DEFINE u == [task EXCEPT !.status = "open", !.created = today]
    <3>1. ASSUME NEW S, NEW C, NEW A, NEW E, NEW H, NEW R, NEW s2 \in S, NEW c2 \in C,
                 NEW y \in [status : S, created : C, assignee : A,
                            escalation : E, heard : H, raised : R]
          PROVE  LET z == [y EXCEPT !.status = s2, !.created = c2]
                 IN  /\ z \in [status : S, created : C, assignee : A,
                               escalation : E, heard : H, raised : R]
                     /\ z.status = s2 /\ z.assignee = y.assignee
                     /\ z.escalation = y.escalation
                     /\ z.heard = y.heard /\ z.raised = y.raised
      OBVIOUS
    <3>2. task \in [status : {task.status, "open"}, created : {task.created, today},
                    assignee : {task.assignee}, escalation : {task.escalation},
                    heard : {task.heard}, raised : {task.raised}]
      BY InvParts DEF Fields
    <3>3. /\ u \in [status : {task.status, "open"}, created : {task.created, today},
                    assignee : {task.assignee}, escalation : {task.escalation},
                    heard : {task.heard}, raised : {task.raised}]
          /\ u.status = "open" /\ u.assignee = task.assignee
          /\ u.escalation = task.escalation
          /\ u.heard = task.heard /\ u.raised = task.raised
      <4>1. "open" \in {task.status, "open"} /\ today \in {task.created, today}
        OBVIOUS
      <4> QED
        BY <3>1, <3>2, <4>1
    <3> HIDE DEF u
    <3> QED
      BY <3>3, InvParts DEF Fields, HeardOf, u
  <2> QED
    BY <2>1, InvParts DEF ReviewSeeded
<1> HIDE DEF x
<1>4. Fields(task)' /\ task'.status = x.status /\ HeardOf(task)'
  <2> DEFINE rows == list'
  <2>1. LET u == Routed(x, rows) IN Fields(u) /\ u.status = x.status /\ HeardOf(u)
    <3> HIDE DEF rows
    <3> QED
      BY <1>3, RoutedIsHeard
  <2> QED
    BY <1>2, <2>1 DEF Fields, HeardOf
<1>5. CASE Seeded
  <2>1. list' = list /\ task'.status = task.status /\ task.status # "none"
    BY <1>2, <1>3, <1>4, <1>5 DEF Seeded
  <2>2. case.status # "none" /\ case \in Case /\ today \in Nat
    BY <2>1, InvParts DEF OpenedTogether
  <2>3. case' = [status |-> case.status, tier |-> tier, submitter |-> case.submitter, at |-> today]
    BY <1>2, <2>2 DEF IntakeRecorded
  <2>4. case' \in Case /\ case'.status = case.status /\ case'.submitter = case.submitter
    BY <1>1, <2>2, <2>3 DEF Case
  <2>5. Shape'
    BY <1>2, <1>4, <2>1, <2>4, InvParts DEF ReviewInv, Shape
  <2>6. OpenedTogether' /\ DecidedByThoseWhoMay'
    BY <2>1, <2>2, <2>4, InvParts DEF OpenedTogether, DecidedByThoseWhoMay
  <2>7. ApprovedByAll' /\ SubmitterKnowsOutcome'
    BY <1>2, <2>1, <2>4, InvParts DEF ApprovedByAll, AllApproved, SubmitterKnowsOutcome
  <2> QED
    BY <1>4, <2>5, <2>6, <2>7 DEF ReviewInv, QueueIsAnnounced, HeardOf
<1>6. CASE ~Seeded
  <2> DEFINE roles == TierStages[inForce][tier]
             mode == TierMode[inForce][tier]
  <2>1. case.status = "none" /\ task'.status = "open" /\ inForce \in Policy /\ today \in Nat
    BY <1>3, <1>4, <1>6, InvParts DEF OpenedTogether, Seeded
  <2>2. roles \in Seq(Role) /\ mode \in {"sequence", "parallel"}
    <3>1. TierStages \in [Policy -> [Tier -> Seq(Role)]]
          /\ TierMode \in [Policy -> [Tier -> {"sequence", "parallel"}]]
      BY ReviewAssumption
    <3> QED
      BY <1>1, <2>1, <3>1
  <2>3. list' = Materialized(roles, mode, inForce)
    BY <1>2, <1>6 DEF IntakeStages
  <2> HIDE DEF roles, mode
  <2>4. /\ list' \in List /\ DOMAIN list'.stages = DOMAIN roles
        /\ \A i \in DOMAIN roles :
             /\ list'.stages[i].role = roles[i] /\ list'.stages[i].by = Nobody
             /\ list'.stages[i].status \in {"pending", "open"}
    BY <2>1, <2>2, <2>3, MaterializedList
  <2>5. case' = [status |-> "submitted", tier |-> tier, submitter |-> p, at |-> today]
    BY <1>2, <2>1 DEF IntakeRecorded
  <2>6. case' \in Case /\ case'.status = "submitted"
    BY <1>1, <2>1, <2>5 DEF Case, CaseStatus
  <2>7. Shape'
    BY <1>2, <1>4, <2>1, <2>4, <2>6 DEF ReviewInv, Shape, TaskStatus
  <2>8. OpenedTogether' /\ DecidedByThoseWhoMay'
    BY <2>1, <2>4, <2>6 DEF OpenedTogether, DecidedByThoseWhoMay
  <2>9. ApprovedByAll' /\ SubmitterKnowsOutcome'
    BY <2>6 DEF ApprovedByAll, SubmitterKnowsOutcome
  <2> QED
    BY <1>4, <2>7, <2>8, <2>9 DEF ReviewInv, QueueIsAnnounced, HeardOf
<1> QED
  BY <1>5, <1>6

\* A step that leaves the use case and its checklist alone, and of the task changes at most
\* its routing or, once it is open, its status.
LEMMA ElsewhereKeeps ==
    ASSUME ReviewInv, UNCHANGED <<case, list, told>>, Fields(task)', HeardOf(task)',
           task'.status \in TaskStatus, task'.status = "none" <=> task.status = "none",
           today' \in Nat, inForce' \in Policy, active' \subseteq Person
    PROVE  ReviewInv'
<1>1. Shape'
  BY InvParts DEF Shape
<1>2. OpenedTogether' /\ DecidedByThoseWhoMay'
  BY InvParts DEF OpenedTogether, DecidedByThoseWhoMay
<1>3. ApprovedByAll' /\ SubmitterKnowsOutcome'
  BY InvParts DEF ApprovedByAll, AllApproved, SubmitterKnowsOutcome
<1> QED
  BY <1>1, <1>2, <1>3 DEF ReviewInv, QueueIsAnnounced, HeardOf

\* POST /api/intake/{id}/recertify and /retire take the use case out of the decided ones.
LEMMA TransitionKeeps ==
    ASSUME ReviewInv, NEW p \in Person, NEW s \in {"recertified", "retired"},
           LifecycleTransition(p, s)
    PROVE  ReviewInv'
<1> DEFINE y == [case EXCEPT !.status = s, !.at = today]
<1>1. /\ case' = y /\ case.status # "none"
      /\ UNCHANGED <<today, inForce, active, task, list, told>>
  BY DEF LifecycleTransition, IntakeStatusSet
<1>2. y \in Case /\ y.submitter = case.submitter /\ y.status = s
  <2>1. case \in Case /\ today \in Nat
    BY InvParts
  <2>2. s \in CaseStatus
    BY DEF CaseStatus
  <2> QED
    BY <2>1, <2>2 DEF Case
<1> HIDE DEF y
<1>3. Shape'
  BY <1>1, <1>2 DEF ReviewInv, Shape, Fields
<1>4. OpenedTogether' /\ DecidedByThoseWhoMay'
  BY <1>1, <1>2, InvParts DEF OpenedTogether, DecidedByThoseWhoMay
<1>5. ApprovedByAll' /\ SubmitterKnowsOutcome'
  BY <1>1, <1>2 DEF ApprovedByAll, SubmitterKnowsOutcome
<1>6. QueueIsAnnounced'
  BY <1>1 DEF ReviewInv, QueueIsAnnounced
<1> QED
  BY <1>3, <1>4, <1>5, <1>6 DEF ReviewInv

\* Every step keeps the invariant.
LEMMA ReviewStep ==
    ASSUME ReviewInv, [Next]_vars
    PROVE  ReviewInv'
<1>0. Submitter \cup Decider \cup Acceptor \cup Manager \cup Suspendable \subseteq Person
      /\ Answers \subseteq Answer
  BY ReviewAssumption
<1> DEFINE Rest == UNCHANGED <<today, inForce, active, case, task, list, told>>
<1>1. ASSUME NEW p \in Submitter, NEW a \in Answers, SubmitIntake(p, a) PROVE ReviewInv'
  <2>1. p \in Person /\ a \in Answer
    BY <1>0
  <2> QED
    BY <1>1, <2>1, SubmissionKeeps
<1>2. ASSUME NEW p \in Decider, NEW i \in DOMAIN list.stages, NEW d \in {"approved", "rejected"},
             DecideStage(p, i, d)
      PROVE  ReviewInv'
  <2>1. p \in Person
    BY <1>0
  <2> QED
    BY <1>2, <2>1, StageDecisionKeeps
<1>3. ASSUME NEW p \in Decider, NEW d \in {"approved", "rejected", "closed"}, DecideTask(p, d)
      PROVE  ReviewInv'
  <2>1. p \in Person
    BY <1>0
  <2> QED
    BY <1>3, <2>1, TaskDecisionKeeps
<1>4. ASSUME NEW p \in Manager, NEW s \in {"recertified", "retired"}, LifecycleTransition(p, s)
      PROVE  ReviewInv'
  <2>1. p \in Person
    BY <1>0
  <2> QED
    BY <1>4, <2>1, TransitionKeeps
<1>5. ASSUME NEW p \in Acceptor, ExceptTask(p) PROVE ReviewInv'
  <2>1. LET u == [task EXCEPT !.status = "closed"]
        IN  Fields(u) /\ u.status = "closed" /\ HeardOf(u)
    BY InvParts, StatusIsHeard
  <2>2. /\ UNCHANGED <<today, inForce, active, case, list, told>> /\ task.status # "none"
        /\ task' = [task EXCEPT !.status = "closed"]
    BY <1>5 DEF ExceptTask, TargetFound, Waived
  <2>3. Fields(task)' /\ HeardOf(task)' /\ task'.status = "closed"
    BY <2>1, <2>2 DEF Fields, HeardOf
  <2>4. today' \in Nat /\ inForce' \in Policy /\ active' \subseteq Person
    BY <2>2 DEF ReviewInv, Shape
  <2> QED
    BY <2>2, <2>3, <2>4, ElsewhereKeeps DEF TaskStatus
<1>6. ASSUME RefreshWorkflow PROVE ReviewInv'
  <2>1. LET u == Routed(task, list)
        IN  Fields(u) /\ u.status = task.status /\ HeardOf(u)
    BY InvParts, RoutedIsHeard
  <2>2. UNCHANGED <<today, inForce, active, case, list, told>> /\ task' = Routed(task, list)
    BY <1>6 DEF RefreshWorkflow
  <2>3. Fields(task)' /\ HeardOf(task)' /\ task'.status = task.status
    BY <2>1, <2>2 DEF Fields, HeardOf
  <2>4. today' \in Nat /\ inForce' \in Policy /\ active' \subseteq Person
    BY <2>2 DEF ReviewInv, Shape
  <2> QED
    BY <2>2, <2>3, <2>4, InvParts, ElsewhereKeeps
<1>7. ASSUME UNCHANGED <<case, task, list, told>>,
             today' \in Nat, inForce' \in Policy, active' \subseteq Person
      PROVE  ReviewInv'
  <2>1. Fields(task)' /\ HeardOf(task)' /\ task'.status = task.status
    BY <1>7, InvParts DEF Fields, HeardOf
  <2> QED
    BY <1>7, <2>1, InvParts, ElsewhereKeeps
<1>8. today \in Nat /\ inForce \in Policy /\ active \subseteq Person
  BY DEF ReviewInv, Shape
<1>9. ASSUME Rest PROVE ReviewInv'
  BY <1>7, <1>8, <1>9
<1>10. ASSUME AgeRecertification \/ (\E p \in Decider, d \in Day : DecideRecertification(p, d))
                \/ (\E p \in Manager, q \in Manager : AssignOwner(p, q))
       PROVE  ReviewInv'
  BY <1>9, <1>10 DEF AgeRecertification, DecideRecertification, AssignOwner
<1>11. ASSUME NEW p \in Suspendable, SetUserStatus(p) PROVE ReviewInv'
  <2>1. p \in Person
    BY <1>0
  <2> QED
    BY <1>7, <1>8, <1>11, <2>1 DEF SetUserStatus
<1>12. ASSUME ChangePolicy PROVE ReviewInv'
  BY <1>7, <1>8, <1>12 DEF ChangePolicy
<1>13. ASSUME NextDay PROVE ReviewInv'
  BY <1>7, <1>8, <1>13 DEF NextDay
<1>14. ASSUME UNCHANGED vars PROVE ReviewInv'
  BY <1>9, <1>14 DEF vars
<1> QED
  BY <1>1, <1>2, <1>3, <1>4, <1>5, <1>6, <1>10, <1>11, <1>12, <1>13, <1>14 DEF Next

-----------------------------------------------------------------------------
\* The inductive invariant: task, use case and checklist open together, every decision on
\* the checklist is by somebody who may, several stages approve only all together, and
\* outcome and routing are announced (storage/workflow.py, storage/policy_engine.py).
THEOREM ReviewInvariant == Spec => []ReviewInv
<1>1. ASSUME Init PROVE ReviewInv
  <2> DEFINE m == Materialized(<<>>, "sequence", 1)
  <2>1. <<>> \in Seq(Role) /\ 1 \in Policy
    BY ReviewAssumption
  <2>2. m \in List /\ DOMAIN m.stages = DOMAIN <<>>
    BY <2>1, MaterializedList
  <2>3. list = m
    BY <1>1 DEF Init
  <2> HIDE DEF m
  <2>4. list.stages = <<>> /\ list \in List
    <3>1. list.stages \in Seq(Stage) /\ DOMAIN list.stages = {}
      BY <2>2, <2>3 DEF List
    <3> DEFINE s == list.stages
    <3>2. Len(s) \in Nat /\ DOMAIN s = 1..Len(s)
      BY <3>1, LenProperties
    <3>3. Len(s) = 0
      <4>1. ASSUME NEW n \in Nat, 1..n = {} PROVE n = 0
        <5>1. ~(1 \in 1..n)
          BY <4>1
        <5> QED
          BY <5>1
      <4>2. 1..Len(s) = {}
        BY <3>1, <3>2
      <4> HIDE DEF s
      <4> QED
        BY <3>2, <4>1, <4>2
    <3>4. s = <<>>
      <4> HIDE DEF s
      <4>1. s \in Seq(Stage)
        BY <3>1 DEF s
      <4> QED
        BY <3>3, <4>1, EmptySeq
    <3> QED
      BY <2>2, <2>3, <3>4
  <2>5. case \in Case /\ case.status = "none"
    BY <1>1 DEF Init, Case, CaseStatus, Tier
  <2>6. /\ Fields(task) /\ task.status = "none" /\ task.assignee = Nobody
        /\ task.escalation = "unassigned"
    BY <1>1 DEF Init, Fields
  <2>7. Shape /\ OpenedTogether
    BY <1>1, <2>1, <2>4, <2>5, <2>6 DEF Init, Shape, OpenedTogether, TaskStatus
  <2>8. DecidedByThoseWhoMay
    BY <2>4 DEF DecidedByThoseWhoMay
  <2> QED
    BY <2>5, <2>6, <2>7, <2>8
       DEF ReviewInv, ApprovedByAll, SubmitterKnowsOutcome, QueueIsAnnounced
<1> QED
  BY <1>1, ReviewStep, PTL DEF Spec

\* A use case whose policy asks for several stages is approved only by all of them, each by
\* another person with its authority and none by the submitter (enforce_stage_policy,
\* _roll_up_subject).
THEOREM SeveralStagesAllApprove == Spec => []StagedApproval
<1>1. ReviewInv => StagedApproval
  BY CompleteIsProper DEF ReviewInv, ApprovedByAll, StagedApproval
<1> QED
  BY <1>1, ReviewInvariant, PTL

\* While the use case stands decided, that is the outcome its submitter heard last
\* (_notify_intake_decided).
THEOREM SubmitterHearsOutcome == Spec => []SubmitterKnowsOutcome
<1>1. ReviewInv => SubmitterKnowsOutcome
  BY DEF ReviewInv
<1> QED
  BY <1>1, ReviewInvariant, PTL

\* Nobody owns a review they never heard of, and no review stands escalated without the
\* administrators knowing (_notify_queue_transition).
THEOREM QueueAlwaysAnnounced == Spec => []QueueIsAnnounced
<1>1. ReviewInv => QueueIsAnnounced
  BY DEF ReviewInv
<1> QED
  BY <1>1, ReviewInvariant, PTL

\* What a person decided stands: no step changes a decided stage or takes an assigned owner
\* away again (apply_stage_decision, sync_decision_to_stages, ensure_owner_assignment).
THEOREM HumanCallsAlwaysStand == Spec => HumanCallsStand
<1> DEFINE Decided(i) == list.stages[i].status \in {"approved", "rejected"}
           Stands == /\ \A i \in DOMAIN list.stages :
                          Decided(i) => list'.stages[i] = list.stages[i]
                     /\ owner \in Person => owner' \in Person
<1>1. ASSUME ReviewInv, [Next]_vars PROVE [Stands]_vars
  <2>1. owner \in Person => OwnerEnsured \in Person
    BY ReviewAssumption DEF OwnerEnsured
  <2>2. ASSUME list' = list, owner' \in {owner, OwnerEnsured} PROVE Stands
    BY <2>1, <2>2
  <2>3. ASSUME NEW p \in Submitter, NEW a \in Answers, SubmitIntake(p, a) PROVE Stands
    <3>1. list.stages = <<>> \/ list' = list
      BY <1>1, <2>3, InvParts DEF SubmitIntake, Seeded, OpenedTogether
    <3>2. owner' = OwnerEnsured
      BY <2>3 DEF SubmitIntake
    <3> QED
      BY <2>1, <3>1, <3>2
  <2>4. ASSUME NEW p \in Decider, NEW i \in DOMAIN list.stages, NEW d \in {"approved", "rejected"},
               DecideStage(p, i, d)
        PROVE  Stands
    <3> DEFINE m == StageDecided(list, i, d, p)
    <3>1. p \in Person
      BY ReviewAssumption
    <3>2. \A j \in DOMAIN list.stages \ {i} :
            m.stages[j] = list.stages[j] \/ list.stages[j].status = "pending"
      BY <1>1, <3>1, InvParts, DecidedList
    <3>3. list' = m /\ list.stages[i].status = "open" /\ owner' = OwnerEnsured
      BY <2>4 DEF DecideStage, MayDecideStage
    <3> HIDE DEF m
    <3> QED
      BY <2>1, <3>2, <3>3
  <2>5. ASSUME NEW p \in Decider, NEW d \in {"approved", "rejected", "closed"}, DecideTask(p, d)
        PROVE  Stands
    <3>1. list' = StagesSynced(p, d) /\ owner' = owner
      BY <2>5 DEF DecideTask, DecisionRecorded
    <3>2. CASE d # "closed" /\ Len(list.stages) = 1 /\ list.stages[1].status = "open"
      <4>1. DOMAIN list.stages = 1..1
        BY <1>1, <3>2, InvParts
      <4> QED
        BY <3>1, <3>2, <4>1
    <3>3. CASE ~(d # "closed" /\ Len(list.stages) = 1 /\ list.stages[1].status = "open")
      BY <2>2, <3>1, <3>3 DEF StagesSynced
    <3> QED
      BY <3>2, <3>3
  <2>6. ASSUME NEW p \in Manager, NEW q \in Manager, AssignOwner(p, q) PROVE Stands
    <3>1. list' = list /\ owner' = q /\ q \in Person
      BY <2>6, ReviewAssumption DEF AssignOwner, OwnerAssigned
    <3> QED
      BY <3>1
  <2>7. ASSUME \/ \E p \in Acceptor : ExceptTask(p)
               \/ \E p \in Manager, s \in {"recertified", "retired"} : LifecycleTransition(p, s)
               \/ AgeRecertification
               \/ \E p \in Decider, d \in Day : DecideRecertification(p, d)
               \/ RefreshWorkflow
               \/ \E p \in Suspendable : SetUserStatus(p)
               \/ ChangePolicy \/ NextDay
        PROVE  list' = list /\ owner' \in {owner, OwnerEnsured}
    BY <2>7 DEF ExceptTask, LifecycleTransition, AgeRecertification, DecideRecertification,
                RefreshWorkflow, SetUserStatus, ChangePolicy, NextDay
  <2> HIDE DEF Stands
  <2> QED
    BY <1>1, <2>2, <2>3, <2>4, <2>5, <2>6, <2>7 DEF Next
<1>2. Spec => [][Stands]_vars
  <2> HIDE DEF Stands
  <2> QED
    BY <1>1, ReviewInvariant, PTL DEF Spec
<1> QED
  BY <1>2 DEF HumanCallsStand

=============================================================================
