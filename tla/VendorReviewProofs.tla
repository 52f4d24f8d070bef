------------------------- MODULE VendorReviewProofs -------------------------
(***************************************************************************)
(* Proofs about vendor reviews, for any people, roles, policies, evidence  *)
(* and calendar.                                                           *)
(* The second part proves what the policy engine promises of the policy    *)
(* those reviews are held under.                                           *)
(***************************************************************************)
EXTENDS VendorReview, PolicyEngine, FiniteSetTheorems, SequenceTheorems, TLAPS

Stage == [role : Role, status : StageStatus, by : Person \cup {Nobody}]

List == [policy : Nat, mode : {"sequence", "parallel"}, stages : Seq(Stage)]

Vendor == [status : VendorStatus, round : Nat, surface : Surface,
           submitter : Person \cup {Nobody}, reviewed : Nat]

Shape ==
    /\ today \in Nat /\ inForce \in Policy
    /\ vendor \in Vendor /\ list \in List
    /\ refs \in [Reference -> {"none", "current", "superseded", "expired", "withdrawn"}]

\* A review in progress: every decided stage was decided by somebody who may, no two by the
\* same person, and on the surface declared now if that was not edited.
InProgress ==
    \A i \in DOMAIN list.stages :
        LET s == list.stages[i]
        IN  /\ s.by = Nobody <=> s.status \in {"pending", "open"}
            /\ s.by # Nobody =>
                 /\ s.by \in Authority[s.role] \ {vendor.submitter}
                 /\ \A j \in DOMAIN list.stages \ {i} : list.stages[j].by # s.by
                 /\ ~edited => seen[i] = vendor.surface

\* Stages open one after the other, each when all before it are approved.
InTurn ==
    /\ list.mode = "sequence"
    /\ \A i, j \in DOMAIN list.stages :
         i < j /\ list.stages[j].status # "pending" => list.stages[i].status = "approved"

OfPolicy == [i \in DOMAIN list.stages |-> list.stages[i].role] = VendorStages[list.policy]

Reviewed ==
    /\ vendor.status \in {"under_review", "approved"} =>
         OfPolicy /\ InProgress /\ DOMAIN seen = DOMAIN list.stages
    /\ vendor.status = "under_review" => InTurn
    /\ vendor.status = "approved" =>
         AllApproved(list) /\ seen[Len(list.stages)] = vendor.surface

VendorInv == Shape /\ Reviewed /\ ApprovedWithoutExpiredEvidence

-----------------------------------------------------------------------------
(***************************************************************************)
(* Checklists.                                                             *)
(***************************************************************************)

\* materialize_stages: a stage for each role, all undecided.
LEMMA MaterializedList ==
    ASSUME NEW roles \in Seq(Role), NEW policy \in Nat
    PROVE  LET l == Materialized(roles, "sequence", policy)
           IN  /\ l \in List /\ l.policy = policy /\ l.mode = "sequence"
               /\ DOMAIN l.stages = DOMAIN roles
               /\ \A i \in DOMAIN roles :
                    /\ l.stages[i].role = roles[i] /\ l.stages[i].by = Nobody
                    /\ l.stages[i].status = IF i = 1 THEN "open" ELSE "pending"
<1> DEFINE st == [i \in DOMAIN roles |->
                    [role |-> roles[i], by |-> Nobody,
                     status |-> IF "sequence" = "parallel" \/ i = 1 THEN "open" ELSE "pending"]]
<1>1. DOMAIN roles = 1..Len(roles) /\ Len(roles) \in Nat
  BY LenProperties
<1>2. \A i \in 1..Len(roles) : roles[i] \in Role
  BY ElementOfSeq
<1>3. st \in [1..Len(roles) -> Stage]
  BY <1>1, <1>2 DEF Stage, StageStatus
<1>4. st \in Seq(Stage)
  BY <1>1, <1>3, SeqDef
<1>5. Materialized(roles, "sequence", policy) = [policy |-> policy, mode |-> "sequence", stages |-> st]
  BY DEF Materialized
<1>6. /\ DOMAIN st = DOMAIN roles
      /\ \A i \in DOMAIN roles :
           /\ st[i].role = roles[i] /\ st[i].by = Nobody
           /\ st[i].status = IF i = 1 THEN "open" ELSE "pending"
  OBVIOUS
<1> HIDE DEF st
<1>7. [policy |-> policy, mode |-> "sequence", stages |-> st] \in List
  BY <1>4 DEF List
<1> QED
  BY <1>5, <1>6, <1>7

\* apply_stage_decision: the stage gets its decision, and the first one still pending may open.
LEMMA DecidedList ==
    ASSUME NEW l \in List, NEW i \in DOMAIN l.stages, NEW p \in Person,
           NEW decision \in {"approved", "rejected"}
    PROVE  LET m == StageDecided(l, i, decision, p)
           IN  /\ m \in List /\ m.policy = l.policy /\ m.mode = l.mode
               /\ DOMAIN m.stages = DOMAIN l.stages
               /\ m.stages[i].role = l.stages[i].role
               /\ m.stages[i].status = decision /\ m.stages[i].by = p
               /\ \A j \in DOMAIN l.stages \ {i} :
                    /\ m.stages[j].role = l.stages[j].role /\ m.stages[j].by = l.stages[j].by
                    /\ \/ m.stages[j].status = l.stages[j].status
                       \/ /\ l.stages[j].status = "pending" /\ m.stages[j].status = "open"
                          /\ \A k \in 1..(j - 1) : k # i => l.stages[k].status # "pending"
<1> DEFINE s == l.stages
           marked == [l EXCEPT !.stages[i].status = decision, !.stages[i].by = p]
           opens == IF decision = "approved" /\ l.mode = "sequence" THEN NextPending(marked) ELSE {}
           t == marked.stages
           u == [j \in DOMAIN t |-> IF j \in opens THEN [t[j] EXCEPT !.status = "open"] ELSE t[j]]
<1>1. /\ s \in Seq(Stage) /\ DOMAIN s = 1..Len(s) /\ Len(s) \in Nat
      /\ s \in [1..Len(s) -> Stage] /\ l.policy \in Nat
  BY LenProperties DEF List
<1>2. s[i] \in Stage
  BY <1>1
<1>3. t = [s EXCEPT ![i] = [s[i] EXCEPT !.status = decision, !.by = p]]
      /\ marked = [l EXCEPT !.stages = t]
  BY DEF List
<1>4. /\ t \in [1..Len(s) -> Stage]
      /\ t[i].role = s[i].role /\ t[i].status = decision /\ t[i].by = p
      /\ \A j \in DOMAIN s \ {i} : t[j] = s[j]
  <2> DEFINE e == [s[i] EXCEPT !.status = decision, !.by = p]
  <2>1. e \in Stage /\ e.role = s[i].role /\ e.status = decision /\ e.by = p
    <3>1. ASSUME NEW x \in Stage
          PROVE  LET y == [x EXCEPT !.status = decision, !.by = p]
                 IN  y \in Stage /\ y.role = x.role /\ y.status = decision /\ y.by = p
      BY DEF Stage, StageStatus
    <3> QED
      BY <1>2, <3>1
  <2>2. t = [s EXCEPT ![i] = e]
    <3> HIDE DEF marked
    <3> QED
      BY <1>3
  <2> HIDE DEF e, t, s
  <2>3. i \in 1..Len(s)
    BY <1>1 DEF s
  <2> QED
    BY <1>1, <2>1, <2>2, <2>3
<1>5. StageDecided(l, i, decision, p) = [marked EXCEPT !.stages = u]
  BY DEF StageDecided
<1>6. \A j \in opens : /\ j \in DOMAIN t /\ t[j].status = "pending"
                       /\ \A k \in 1..(j - 1) : t[k].status # "pending"
  <2> HIDE DEF marked
  <2>1. opens \subseteq NextPending(marked)
    OBVIOUS
  <2> QED
    BY <2>1 DEF NextPending
<1> HIDE DEF opens
<1>7. u \in [1..Len(s) -> Stage]
  BY <1>4 DEF Stage, StageStatus
<1>8. /\ [marked EXCEPT !.stages = u] = [l EXCEPT !.stages = u]
      /\ [l EXCEPT !.stages = u].stages = u /\ [l EXCEPT !.stages = u].policy = l.policy
      /\ [l EXCEPT !.stages = u].mode = l.mode
  BY <1>3 DEF List
<1>9. [l EXCEPT !.stages = u] \in List
  <2>1. u \in Seq(Stage)
    <3> HIDE DEF u, s
    <3> QED
      BY <1>1, <1>7, SeqDef
  <2>2. l.policy \in Nat /\ l.mode \in {"sequence", "parallel"}
    BY DEF List
  <2> HIDE DEF u
  <2>3. [l EXCEPT !.stages = u] = [policy |-> l.policy, mode |-> l.mode, stages |-> u]
    BY DEF List
  <2> QED
    BY <2>1, <2>2, <2>3 DEF List
<1>10. i \notin opens /\ u[i] = t[i]
  <2>1. t[i].status = decision
    BY <1>4
  <2> QED
    BY <1>1, <1>4, <1>6, <2>1
<1>11. ASSUME NEW j \in DOMAIN s \ {i}
       PROVE  /\ u[j].role = s[j].role /\ u[j].by = s[j].by
              /\ \/ u[j].status = s[j].status
                 \/ /\ s[j].status = "pending" /\ u[j].status = "open"
                    /\ \A k \in 1..(j - 1) : k # i => s[k].status # "pending"
  <2>1. t[j] = s[j] /\ s[j] \in Stage /\ j \in DOMAIN t
    BY <1>1, <1>4
  <2>2. CASE j \in opens
    <3>1. t[j].status = "pending" /\ \A k \in 1..(j - 1) : t[k].status # "pending"
      BY <1>6, <2>2
    <3>2. \A k \in 1..(j - 1) : k # i => s[k].status # "pending"
      <4>1. \A k \in 1..(j - 1) : k \in DOMAIN s
        BY <1>1
      <4> HIDE DEF s, t
      <4> QED
        BY <1>4, <3>1, <4>1
    <3>3. u[j] = [t[j] EXCEPT !.status = "open"]
      BY <2>1, <2>2
    <3>4. u[j].role = t[j].role /\ u[j].by = t[j].by /\ u[j].status = "open"
      <4> HIDE DEF u, t
      <4> QED
        BY <2>1, <3>3 DEF Stage
    <3> QED
      BY <2>1, <3>1, <3>2, <3>4
  <2>3. CASE j \notin opens
    BY <2>1, <2>3
  <2> QED
    BY <2>2, <2>3
<1>12. DOMAIN u = DOMAIN s
  BY <1>1, <1>4
<1> DEFINE m == StageDecided(l, i, decision, p)
<1> HIDE DEF u, marked, t
<1>13. m \in List /\ m.policy = l.policy /\ m.mode = l.mode /\ m.stages = u
  BY <1>5, <1>8, <1>9
<1> HIDE DEF m
<1>14. m.stages[i].role = s[i].role /\ m.stages[i].status = decision /\ m.stages[i].by = p
  BY <1>4, <1>10, <1>13
<1> QED
  BY <1>11, <1>12, <1>13, <1>14 DEF m

-----------------------------------------------------------------------------
(***************************************************************************)
(* The steps.                                                              *)
(***************************************************************************)

\* The policy in force is a version, and its vendor section is a list of roles.
LEMMA InForceType ==
    ASSUME inForce \in Policy
    PROVE  inForce \in Nat /\ VendorStages[inForce] \in Seq(Role)
<1>1. Cardinality(Policy) \in Nat
  BY VendorAssumption, FS_CardinalityType
<1>2. inForce \in 1..Cardinality(Policy)
  BY VendorAssumption
<1>3. inForce \in Nat
  BY <1>1, <1>2
<1>4. VendorStages \in [Policy -> Seq(Role)]
  BY VendorAssumption
<1> QED
  BY <1>3, <1>4

\* POST /api/approval-stages/{id}/decide keeps a review in progress one.
LEMMA DecisionKeepsReview ==
    ASSUME VendorInv, NEW p \in Person, NEW i \in DOMAIN list.stages,
           NEW d \in {"approved", "rejected"}, DecideVendorStage(p, i, d)
    PROVE  Reviewed' /\ ApprovedWithoutExpiredEvidence' /\ vendor' \in Vendor /\ list' \in List
<1> USE DEF VendorInv
<1> DEFINE m == StageDecided(list, i, d, p)
           s == list.stages
           t == m.stages
<1>1. /\ vendor \in Vendor /\ list \in List /\ today \in Nat /\ vendor.status = "under_review"
      /\ s \in Seq(Stage) /\ \A j \in DOMAIN s : s[j] \in Stage
  <2>1. vendor \in Vendor /\ list \in List /\ today \in Nat /\ vendor.status = "under_review"
    BY DEF Shape, DecideVendorStage, Undecided
  <2>2. s \in Seq(Stage)
    BY <2>1 DEF List
  <2> HIDE DEF s
  <2> QED
    BY <2>1, <2>2, LenProperties, ElementOfSeq
<1>2. /\ m \in List /\ m.policy = list.policy /\ m.mode = list.mode
      /\ DOMAIN t = DOMAIN s
      /\ t[i].role = s[i].role /\ t[i].status = d /\ t[i].by = p
      /\ \A j \in DOMAIN s \ {i} :
           /\ t[j].role = s[j].role /\ t[j].by = s[j].by
           /\ \/ t[j].status = s[j].status
              \/ /\ s[j].status = "pending" /\ t[j].status = "open"
                 /\ \A k \in 1..(j - 1) : k # i => s[k].status # "pending"
  BY <1>1, DecidedList
<1>3. /\ s[i].status = "open" /\ p \in Authority[s[i].role] /\ p # vendor.submitter
      /\ \A j \in DOMAIN s \ {i} : s[j].by # p
  BY DEF DecideVendorStage, MayDecideStage, DecidedSibling, Maker
<1>4. OfPolicy /\ InProgress /\ InTurn /\ DOMAIN seen = DOMAIN s
  BY <1>1 DEF Reviewed
<1>5. list' = m /\ vendor' = [vendor EXCEPT !.status = RolledUp(m),
                                !.reviewed = IF RolledUp(m) = "under_review" THEN @ ELSE today]
      /\ (RolledUp(m) = "approved" => NoExpiredEvidence)
      /\ seen' = [seen EXCEPT ![i] = vendor.surface] /\ edited' = edited /\ refs' = refs
  BY DEF DecideVendorStage
<1>6. RolledUp(m) \in {"rejected", "approved", "under_review"}
      /\ (RolledUp(m) = "approved" => AllApproved(m))
      /\ (RolledUp(m) = "under_review" => \A j \in DOMAIN t : t[j].status # "rejected")
  BY DEF RolledUp
<1> HIDE DEF m
<1>7. /\ vendor' \in Vendor /\ vendor'.status = RolledUp(m)
      /\ vendor'.submitter = vendor.submitter /\ vendor'.surface = vendor.surface
  BY <1>1, <1>5, <1>6 DEF Vendor, VendorStatus
<1>8. OfPolicy'
  <2>1. [j \in DOMAIN t |-> t[j].role] = [j \in DOMAIN s |-> s[j].role]
    BY <1>2
  <2> QED
    BY <1>2, <1>4, <1>5, <2>1 DEF OfPolicy
<1>9. InProgress'
  <2> HIDE DEF s, t, VendorInv
  <2>1. p # Nobody
    BY StagesAssumption
  <2>2. ASSUME NEW j \in DOMAIN t
        PROVE  /\ t[j].by = Nobody <=> t[j].status \in {"pending", "open"}
               /\ t[j].by # Nobody =>
                    /\ t[j].by \in Authority[t[j].role] \ {vendor'.submitter}
                    /\ \A k \in DOMAIN t \ {j} : t[k].by # t[j].by
                    /\ ~edited' => seen'[j] = vendor'.surface
    <3>1. j \in DOMAIN s
      BY <1>2
    <3>2. /\ s[j].by = Nobody <=> s[j].status \in {"pending", "open"}
          /\ s[j].by # Nobody =>
               /\ s[j].by \in Authority[s[j].role] \ {vendor.submitter}
               /\ \A k \in DOMAIN s \ {j} : s[k].by # s[j].by
               /\ ~edited => seen[j] = vendor.surface
      BY <1>4, <3>1 DEF InProgress, s
    <3>3. CASE j = i
      <4>1. seen'[i] = vendor.surface
        BY <1>4, <1>5, <3>1, <3>3
      <4> QED
        BY <1>2, <1>3, <1>7, <2>1, <3>3, <4>1
    <3>4. CASE j # i
      <4>1. t[j].role = s[j].role /\ t[j].by = s[j].by
        BY <1>2, <3>1, <3>4
      <4>2. t[j].by = Nobody <=> t[j].status \in {"pending", "open"}
        BY <1>2, <3>1, <3>2, <3>4
      <4>3. \A k \in DOMAIN t \ {j} : t[j].by # Nobody => t[k].by # t[j].by
        BY <1>2, <1>3, <3>1, <3>2, <3>4
      <4>4. seen'[j] = seen[j] /\ edited' = edited
        BY <1>4, <1>5, <3>1, <3>4
      <4> QED
        BY <1>7, <3>2, <4>1, <4>2, <4>3, <4>4
    <3> QED
      BY <3>3, <3>4
  <2> QED
    BY <1>5, <2>2 DEF InProgress, t
<1>10. ApprovedWithoutExpiredEvidence'
  BY <1>5, <1>7 DEF ApprovedWithoutExpiredEvidence, NoExpiredEvidence
<1>11. DOMAIN s = 1..Len(s) /\ DOMAIN t = 1..Len(t) /\ Len(s) \in Nat /\ Len(t) \in Nat
       /\ i \in 1..Len(s) /\ Len(s) = Len(t)
  <2>1. t \in Seq(Stage)
    BY <1>2 DEF List
  <2> HIDE DEF s, t
  <2>2. DOMAIN s = 1..Len(s) /\ DOMAIN t = 1..Len(t) /\ Len(s) \in Nat /\ Len(t) \in Nat
    BY <1>1, <2>1, LenProperties
  <2>3. i \in 1..Len(s) /\ 1..Len(s) = 1..Len(t)
    BY <1>2, <2>2 DEF s
  <2>4. ASSUME NEW a \in Nat, NEW b \in Nat, NEW x \in 1..a, 1..a = 1..b
        PROVE  a = b
    <3>1. a \in 1..b /\ b \in 1..a
      <4>1. a \in 1..a /\ x \in 1..b
        BY <2>4
      <4>2. b \in 1..b
        BY <4>1
      <4> QED
        BY <2>4, <4>1, <4>2
    <3> QED
      BY <3>1
  <2>5. Len(s) = Len(t)
    BY <2>2, <2>3, <2>4
  <2> QED
    BY <2>2, <2>3, <2>5
<1>12. list.mode = "sequence"
       /\ \A j, k \in DOMAIN s : j < k /\ s[k].status # "pending" => s[j].status = "approved"
  BY <1>4 DEF InTurn
<1>13. RolledUp(m) = "under_review" => InTurn'
  <2> SUFFICES ASSUME RolledUp(m) = "under_review", NEW a \in DOMAIN t, NEW b \in DOMAIN t,
                      a < b, t[b].status # "pending"
               PROVE  t[a].status = "approved"
    BY <1>2, <1>5, <1>12 DEF InTurn
  <2> HIDE DEF s, t, VendorInv
  <2>1. d = "approved"
    BY <1>2, <1>6, <1>11
  <2>2. s[a].status = "approved" => t[a].status = "approved"
    BY <1>2, <2>1
  <2>3. ASSUME a # i, b # i, s[b].status = "pending",
               \A k \in 1..(b - 1) : k # i => s[k].status # "pending"
        PROVE  s[a].status = "approved"
    <3>1. i < b
      BY <1>2, <1>3, <1>11, <1>12, <2>3
    <3>2. s[a].status # "pending"
      BY <1>11, <2>3
    <3> QED
      BY <1>2, <1>3, <1>11, <1>12, <2>3, <3>1, <3>2
  <2>4. a # i => s[a].status = "approved"
    BY <1>2, <1>3, <1>12, <2>3
  <2> QED
    BY <1>2, <2>1, <2>2, <2>4
<1>14. RolledUp(m) = "approved" => seen'[Len(m.stages)] = vendor.surface
  <2> SUFFICES ASSUME RolledUp(m) = "approved"
               PROVE  i = Len(t)
    BY <1>4, <1>5, <1>11
  <2>1. \A j \in DOMAIN t : t[j].status = "approved"
    BY <1>6 DEF AllApproved
  <2> HIDE DEF s, t, VendorInv
  <2>2. ASSUME NEW j \in DOMAIN t, i < j
        PROVE  FALSE
    <3>1. j \in DOMAIN s \ {i}
      BY <1>2, <1>11, <2>2
    <3>2. s[j].status = "approved"
      BY <1>2, <2>1, <3>1
    <3> QED
      BY <1>3, <1>11, <1>12, <2>2, <3>1, <3>2
  <2>3. ASSUME NEW n \in Nat, i \in 1..n, ~(i < n)
        PROVE  i = n
    BY <2>3
  <2>4. Len(t) \in DOMAIN t
    BY <1>11
  <2> QED
    BY <1>11, <2>2, <2>3, <2>4
<1>15. DOMAIN seen' = DOMAIN m.stages
  BY <1>2, <1>4, <1>5
<1> QED
  BY <1>2, <1>5, <1>6, <1>7, <1>8, <1>9, <1>10, <1>13, <1>14, <1>15 DEF Reviewed

\* POST /api/vendors/{id}/submit-review starts a round with nobody's decisions in it.
LEMMA SubmitStartsReview ==
    ASSUME VendorInv, NEW p \in Person, SubmitVendorReview(p)
    PROVE  VendorInv'
<1> USE DEF VendorInv
<1> DEFINE roles == VendorStages[inForce]
           m == Materialized(roles, "sequence", inForce)
<1>1. roles \in Seq(Role) /\ inForce \in Nat
  BY InForceType DEF Shape
<1>2. /\ m \in List /\ m.policy = inForce
      /\ DOMAIN m.stages = DOMAIN roles
      /\ \A i \in DOMAIN roles :
           /\ m.stages[i].role = roles[i] /\ m.stages[i].by = Nobody
           /\ m.stages[i].status = IF i = 1 THEN "open" ELSE "pending"
      /\ m.mode = "sequence"
  BY <1>1, MaterializedList
<1>3. /\ list' = m /\ UNCHANGED <<today, inForce, refs>>
      /\ seen' = [i \in DOMAIN roles |-> Nobody]
      /\ vendor' = [vendor EXCEPT !.status = "under_review", !.round = @ + 1, !.submitter = p]
  BY DEF SubmitVendorReview, ReviewSubmitted
<1>4. vendor' \in Vendor /\ vendor'.status = "under_review"
  <2>1. vendor \in Vendor
    BY DEF Shape
  <2>2. vendor' = [vendor EXCEPT !.status = "under_review", !.round = @ + 1, !.submitter = p]
    BY <1>3
  <2> HIDE DEF VendorInv, m, roles
  <2>3. ASSUME NEW v \in Vendor, NEW n \in Nat, NEW who \in Person \cup {Nobody}
        PROVE  LET w == [v EXCEPT !.status = "under_review", !.round = n, !.submitter = who]
               IN  w \in Vendor /\ w.status = "under_review"
    BY DEF Vendor, VendorStatus
  <2>4. vendor.round + 1 \in Nat /\ p \in Person \cup {Nobody}
    BY <2>1 DEF Vendor
  <2> QED
    BY <2>1, <2>2, <2>3, <2>4
<1> HIDE DEF m
<1>5. OfPolicy' /\ InProgress'
  <2>1. [i \in DOMAIN m.stages |-> m.stages[i].role] = roles
    <3>1. roles = [i \in DOMAIN roles |-> roles[i]]
      BY <1>1
    <3> HIDE DEF roles
    <3> QED
      BY <1>2, <3>1
  <2> QED
    BY <1>2, <1>3, <2>1 DEF OfPolicy, InProgress
<1>6. InTurn'
  <2>1. DOMAIN roles = 1..Len(roles) /\ Len(roles) \in Nat
    BY <1>1, LenProperties
  <2> HIDE DEF roles
  <2>2. \A i, j \in DOMAIN m.stages : i < j => m.stages[j].status = "pending"
    BY <1>2, <2>1
  <2> QED
    BY <1>2, <1>3, <2>2 DEF InTurn
<1>7. DOMAIN seen' = DOMAIN m.stages
  BY <1>2, <1>3
<1> QED
  BY <1>2, <1>3, <1>4, <1>5, <1>6, <1>7 DEF Shape, Reviewed, ApprovedWithoutExpiredEvidence

\* Every step keeps the invariant.
LEMMA VendorStep ==
    ASSUME VendorInv, [Next]_vars
    PROVE  VendorInv'
<1> USE DEF VendorInv
<1>0. /\ vendor \in Vendor /\ list \in List /\ today \in Nat /\ inForce \in Policy
      /\ refs \in [Reference -> {"none", "current", "superseded", "expired", "withdrawn"}]
  BY DEF Shape
<1>1. ASSUME UNCHANGED <<today, inForce, refs, list, seen>>, vendor' \in Vendor,
             vendor'.status \in {"under_review", "approved"} =>
               /\ vendor'.status = vendor.status /\ vendor'.submitter = vendor.submitter
               /\ vendor'.status = "approved" => vendor'.surface = vendor.surface
               /\ ~edited' => ~edited /\ vendor'.surface = vendor.surface
      PROVE  VendorInv'
  BY <1>0, <1>1 DEF Shape, Reviewed, InProgress, InTurn, OfPolicy, AllApproved,
     ApprovedWithoutExpiredEvidence, NoExpiredEvidence
<1>2. ASSUME NEW p \in Person, NEW surface \in Surface, CreateVendor(p, surface)
      PROVE  VendorInv'
  <2>1. vendor' = [vendor EXCEPT !.surface = surface,
                     !.status = IF @ = "none" \/ (@ \in {"approved", "recertify_due"}
                                                    /\ surface # vendor.surface)
                                  THEN "draft" ELSE @]
    BY <1>2 DEF CreateVendor, VendorUpserted
  <2>2. /\ vendor' \in Vendor /\ vendor'.submitter = vendor.submitter
        /\ vendor'.status \in {"draft", vendor.status} /\ vendor'.surface = surface
        /\ vendor'.status = "approved" => surface = vendor.surface
    BY <1>0, <2>1 DEF Vendor, VendorStatus
  <2>3. ~edited' => ~edited /\ surface = vendor.surface
    BY <1>2 DEF CreateVendor
  <2> QED
    BY <1>1, <1>2, <2>2, <2>3 DEF CreateVendor
<1>3. ASSUME NEW p \in Person, SubmitVendorReview(p)
      PROVE  VendorInv'
  BY <1>3, SubmitStartsReview
<1>4. ASSUME NEW p \in Person, RetireVendor(p)
      PROVE  VendorInv'
  <2>1. vendor' \in Vendor /\ vendor'.status = "retired"
    BY <1>0, <1>4 DEF RetireVendor, VendorRetired, Vendor, VendorStatus
  <2> QED
    BY <1>1, <1>4, <2>1 DEF RetireVendor
<1>5. ASSUME NEW p \in Person, NEW i \in DOMAIN list.stages, NEW d \in {"approved", "rejected"},
             DecideVendorStage(p, i, d)
      PROVE  VendorInv'
  <2>1. UNCHANGED <<today, inForce, refs>>
    BY <1>5 DEF DecideVendorStage
  <2> QED
    BY <1>0, <1>5, <2>1, DecisionKeepsReview DEF Shape
<1>6. ASSUME NEW p \in Person, NEW e \in Reference,
             RecordVendorEvidence(p, e) \/ WithdrawVendorEvidence(p, e)
      PROVE  VendorInv'
  <2>1. /\ UNCHANGED <<today, inForce, vendor, list, seen, edited>>
        /\ refs' \in [Reference -> {"none", "current", "superseded", "expired", "withdrawn"}]
        /\ \A f \in Reference : refs'[f] = "expired" => refs[f] = "expired"
    BY <1>0, <1>6 DEF RecordVendorEvidence, WithdrawVendorEvidence, ReferenceRecorded,
       ReferenceWithdrawn
  <2> QED
    BY <1>0, <2>1 DEF Shape, Reviewed, InProgress, InTurn, OfPolicy, AllApproved,
       ApprovedWithoutExpiredEvidence, NoExpiredEvidence
<1>7. CASE AgeWrite
  <2>1. UNCHANGED <<today, inForce, list, seen, edited>>
    BY <1>7 DEF AgeWrite
  <2>2. /\ refs' \in [Reference -> {"none", "current", "superseded", "expired", "withdrawn"}]
        /\ Lapsed = {} => \A e \in Reference : refs'[e] = refs[e]
    BY <1>0, <1>7 DEF AgeWrite
  <2>3. /\ vendor' \in Vendor
        /\ \/ vendor' = vendor /\ (vendor.status = "approved" => Lapsed = {})
           \/ vendor'.status = "recertify_due"
    BY <1>0, <1>7 DEF AgeWrite, Vendor, VendorStatus
  <2> QED
    BY <1>0, <2>1, <2>2, <2>3 DEF Shape, Reviewed, InProgress, InTurn, OfPolicy, AllApproved,
       ApprovedWithoutExpiredEvidence, NoExpiredEvidence
<1>8. CASE AgeVendorWrite
  <2>1. /\ vendor' \in Vendor /\ vendor'.status # "approved"
        /\ vendor'.status = "under_review" => vendor' = vendor
    BY <1>0, <1>8 DEF AgeVendorWrite, Vendor, VendorStatus
  <2> QED
    BY <1>1, <1>8, <2>1 DEF AgeVendorWrite
<1>9. CASE ObserveProvider \/ AgeRead \/ AgePosture \/ AgeVendorRead \/ Crash \/ UNCHANGED vars
  BY <1>0, <1>1, <1>9 DEF ObserveProvider, AgeRead, AgePosture, AgeVendorRead, Crash, vars
<1>10. CASE ChangePolicy \/ NextDay
  <2>1. /\ UNCHANGED <<vendor, list, refs, seen, edited>>
        /\ today' \in Nat /\ inForce' \in Policy
    BY <1>0, <1>10 DEF ChangePolicy, NextDay
  <2> QED
    BY <1>0, <2>1 DEF Shape, Reviewed, InProgress, InTurn, OfPolicy, AllApproved,
       ApprovedWithoutExpiredEvidence, NoExpiredEvidence
<1> QED
  BY <1>2, <1>3, <1>4, <1>5, <1>6, <1>7, <1>8, <1>9, <1>10 DEF Next

-----------------------------------------------------------------------------
(***************************************************************************)
(*                              THEOREMS                                   *)
(***************************************************************************)

\* The invariant behind an approval: what the reviewers of a round have decided so far,
\* and that nothing behind an approved vendor has expired.
THEOREM VendorInvariant == Spec => []VendorInv
<1>1. Init => VendorInv
  <2> SUFFICES ASSUME Init
               PROVE  VendorInv
    OBVIOUS
  <2>1. <<>> \in Seq(Role) /\ inForce \in Policy /\ inForce \in Nat
    BY VendorAssumption, EmptySeq DEF Init
  <2>2. list \in List
    BY <2>1, MaterializedList DEF Init
  <2>3. vendor \in Vendor /\ vendor.status = "none"
    <3>1. (CHOOSE x \in Surface : TRUE) \in Surface
      BY VendorAssumption
    <3> QED
      BY <3>1 DEF Init, Vendor, VendorStatus
  <2> QED
    BY <2>1, <2>2, <2>3 DEF Init, VendorInv, Shape, Reviewed, ApprovedWithoutExpiredEvidence
<1>2. VendorInv /\ [Next]_vars => VendorInv'
  BY VendorStep
<1> QED
  BY <1>1, <1>2, PTL DEF Spec

\* decide_approval_stage, upsert_vendor: an approval was given in the current round, stage by
\* stage, by different people with the authority asked for, none of them the submitter; the
\* last of them decided on the surface the vendor still declares, and so did the others
\* unless it was edited while the review ran.
THEOREM ApprovalsCoverVendor == Spec => []ApprovalCoversVendor
<1>1. ASSUME VendorInv
      PROVE  ApprovalCoversVendor
  <2>1. ASSUME vendor.status = "approved"
        PROVE  ProperlyApproved(list, vendor.submitter)
    <3>1. AllApproved(list) /\ InProgress
      BY <1>1, <2>1 DEF VendorInv, Reviewed
    <3> QED
      BY <3>1 DEF AllApproved, InProgress, ProperlyApproved
  <2>2. ASSUME vendor.status = "approved", ~edited, NEW i \in DOMAIN list.stages
        PROVE  seen[i] = vendor.surface
    <3>1. AllApproved(list) /\ InProgress
      BY <1>1, <2>2 DEF VendorInv, Reviewed
    <3>2. list.stages[i].by # Nobody
      BY <3>1, <2>2 DEF AllApproved, InProgress
    <3> QED
      BY <2>2, <3>1, <3>2 DEF InProgress
  <2> QED
    BY <1>1, <2>1, <2>2 DEF VendorInv, Reviewed, OfPolicy, ApprovalCoversVendor
<1> QED
  BY <1>1, VendorInvariant, PTL

\* require_no_expired_evidence against the evidence pass: an approved vendor holds no
\* expired reference, whatever the worker had read when the reviewers decided.
THEOREM ApprovedOnLiveEvidence == Spec => []ApprovedWithoutExpiredEvidence
<1>1. VendorInv => ApprovedWithoutExpiredEvidence
  BY DEF VendorInv
<1> QED
  BY <1>1, VendorInvariant, PTL

-----------------------------------------------------------------------------
(***************************************************************************)
(* The policy that sets the vendor's stages and periods (module            *)
(* PolicyEngine), for any documents, people and roles.                     *)
(***************************************************************************)

\* A set fits into another that has as many elements.
LEMMA FitsByCount ==
    ASSUME NEW A, NEW B, IsFiniteSet(A), IsFiniteSet(B), Cardinality(A) <= Cardinality(B)
    PROVE  \E g \in [A -> B] : \A x, y \in A : g[x] = g[y] => x = y
<1> DEFINE m == Cardinality(A)
           n == Cardinality(B)
<1>1. m \in Nat /\ n \in Nat /\ m <= n
  BY FS_CardinalityType
<1>2. PICK a \in [1..m -> A] : \A x \in A : \E k \in 1..m : a[k] = x
  BY FS_CardinalityType DEF ExistsBijection, Bijection, Surjection
<1>3. PICK b \in [1..n -> B] : \A j, k \in 1..n : b[j] = b[k] => j = k
  BY FS_CardinalityType DEF ExistsBijection, Bijection, Injection, IsInjective
<1> HIDE DEF m, n
<1> DEFINE index(x) == CHOOSE k \in 1..m : a[k] = x
           g == [x \in A |-> b[index(x)]]
<1>4. ASSUME NEW x \in A PROVE index(x) \in 1..m /\ index(x) \in 1..n /\ a[index(x)] = x
  <2>1. index(x) \in 1..m /\ a[index(x)] = x
    BY <1>2
  <2> QED
    BY <1>1, <2>1
<1> HIDE DEF index
<1>5. g \in [A -> B]
  BY <1>3, <1>4
<1>6. ASSUME NEW x \in A, NEW y \in A, g[x] = g[y] PROVE x = y
  BY <1>3, <1>4, <1>6
<1> QED
  BY <1>5, <1>6

\* Every stage of one list, found in a place of its own in another.
Embedded(old, new) ==
    \E f \in [DOMAIN old -> DOMAIN new] :
        /\ \A i, j \in DOMAIN old : f[i] = f[j] => i = j
        /\ \A i \in DOMAIN old : new[f[i]] = old[i]

\* Lists that name each role at least as often embed.
LEMMA EmbeddedByCount ==
    ASSUME NEW old, NEW new, IsFiniteSet(DOMAIN old), IsFiniteSet(DOMAIN new),
           \A i \in DOMAIN old : Times(old[i], old) <= Times(old[i], new)
    PROVE  Embedded(old, new)
<1> DEFINE at(role, stages) == {i \in DOMAIN stages : stages[i] = role}
           fits(g, role) == /\ g \in [at(role, old) -> at(role, new)]
                            /\ \A x, y \in at(role, old) : g[x] = g[y] => x = y
           place(role) == CHOOSE g : fits(g, role)
           f == [i \in DOMAIN old |-> place(old[i])[i]]
<1>1. ASSUME NEW i \in DOMAIN old PROVE fits(place(old[i]), old[i])
  <2>1. at(old[i], old) \subseteq DOMAIN old /\ at(old[i], new) \subseteq DOMAIN new
    OBVIOUS
  <2>2. IsFiniteSet(at(old[i], old)) /\ IsFiniteSet(at(old[i], new))
    BY <2>1, FS_Subset
  <2>3. Cardinality(at(old[i], old)) <= Cardinality(at(old[i], new))
    BY DEF Times
  <2> HIDE DEF at
  <2>4. \E g \in [at(old[i], old) -> at(old[i], new)] :
           \A x, y \in at(old[i], old) : g[x] = g[y] => x = y
    BY <2>2, <2>3, FitsByCount
  <2>5. \E g : fits(g, old[i])
    BY <2>4
  <2> HIDE DEF fits
  <2> QED
    BY <2>5
<1> HIDE DEF place
<1>2. ASSUME NEW i \in DOMAIN old
      PROVE  f[i] \in DOMAIN new /\ new[f[i]] = old[i]
  <2>1. i \in at(old[i], old) /\ f[i] = place(old[i])[i]
    OBVIOUS
  <2>2. f[i] \in at(old[i], new)
    BY <1>1, <2>1
  <2> QED
    BY <2>2
<1>3. ASSUME NEW i \in DOMAIN old, NEW j \in DOMAIN old, f[i] = f[j] PROVE i = j
  <2>1. old[i] = old[j]
    BY <1>2, <1>3
  <2>2. /\ i \in at(old[i], old) /\ j \in at(old[i], old)
        /\ place(old[i])[i] = place(old[i])[j]
    BY <1>3, <2>1
  <2> QED
    BY <1>1, <2>2
<1>4. f \in [DOMAIN old -> DOMAIN new]
  BY <1>2
<1> HIDE DEF f
<1> QED
  BY <1>2, <1>3, <1>4 DEF Embedded

LEMMA EmbeddedReflexive == \A stages : Embedded(stages, stages)
<1> TAKE stages
<1> DEFINE f == [i \in DOMAIN stages |-> i]
<1>1. f \in [DOMAIN stages -> DOMAIN stages] /\ \A i \in DOMAIN stages : f[i] = i
  OBVIOUS
<1> HIDE DEF f
<1> QED
  BY <1>1 DEF Embedded

LEMMA EmbeddedTransitive ==
    ASSUME NEW a, NEW b, NEW c, Embedded(a, b), Embedded(b, c)
    PROVE  Embedded(a, c)
<1>1. PICK f \in [DOMAIN a -> DOMAIN b] :
         /\ \A i, j \in DOMAIN a : f[i] = f[j] => i = j
         /\ \A i \in DOMAIN a : b[f[i]] = a[i]
  BY DEF Embedded
<1>2. PICK g \in [DOMAIN b -> DOMAIN c] :
         /\ \A i, j \in DOMAIN b : g[i] = g[j] => i = j
         /\ \A i \in DOMAIN b : c[g[i]] = b[i]
  BY DEF Embedded
<1> DEFINE h == [i \in DOMAIN a |-> g[f[i]]]
<1>3. /\ h \in [DOMAIN a -> DOMAIN c]
      /\ \A i, j \in DOMAIN a : h[i] = h[j] => i = j
      /\ \A i \in DOMAIN a : c[h[i]] = a[i]
  BY <1>1, <1>2
<1> HIDE DEF h
<1> QED
  BY <1>3 DEF Embedded

-----------------------------------------------------------------------------
(***************************************************************************)
(* What a document amounts to, entry by entry.                             *)
(***************************************************************************)

GateRow == [attested : BOOLEAN, changes : Int, coverage : Int]

GoodList(entry) ==
    IsFiniteSet(DOMAIN entry.stages) /\ IsList(entry.stages) /\ entry.recertify \in Nat

GoodBody(b) ==
    /\ \A t \in Tier : GoodList(TierEntry(b, t))
    /\ GoodList(VendorEntry(b))
    /\ \A e : GateEntry(b, e) \in GateRow
    /\ \A s \in {"window", "stale"} : EvidenceSettings(b)[s] \in Nat

\* An entry asks for no less than another.
Keeps(a, b) ==
    /\ Embedded(a.stages, b.stages)
    /\ a.recertify # Never => b.recertify \in 1..a.recertify

Passes(b, given, t) ==
    \A k \in DOMAIN IntakeFields(b) : t \in IntakeFields(b)[k] => k \in given

\* Document b asks for no less than document a.
AtLeast(a, b) ==
    /\ \A t \in Tier : Keeps(TierEntry(a, t), TierEntry(b, t))
    /\ Keeps(VendorEntry(a), VendorEntry(b))
    /\ \A e \in Environment :
         /\ GateEntry(a, e).attested => GateEntry(b, e).attested
         /\ GateEntry(a, e).coverage <= GateEntry(b, e).coverage
    /\ \A s \in {"window", "stale"} :
         EvidenceSettings(b)[s] <= EvidenceSettings(a)[s]
    /\ \A t \in Tier, given \in SUBSET Field : Passes(b, given, t) => Passes(a, given, t)

\* The document's own entry, else the platform's.
LEMMA TierEntryIs ==
    ASSUME NEW b, NEW t \in Tier
    PROVE  TierEntry(b, t) = IF t \in DOMAIN b.tiers THEN b.tiers[t] ELSE OneReview
  BY DEF TierEntry, Over, DefaultBody

LEMMA VendorEntryIs ==
    ASSUME NEW b
    PROVE  VendorEntry(b) = IF "vendors" \in DOMAIN b.vendors THEN b.vendors["vendors"]
                                   ELSE DefaultBody.vendors["vendors"]
  BY DEF VendorEntry, Over, DefaultBody

LEMMA GateEntryIs ==
    ASSUME NEW b, NEW e
    PROVE  GateEntry(b, e) = IF e \in DOMAIN b.gates THEN b.gates[e]
                                    ELSE IF AnyEnv \in DOMAIN b.gates THEN b.gates[AnyEnv]
                                    ELSE NoGate
<1> DEFINE In(gates) == Over(gates, IF AnyEnv \in DOMAIN gates
                                           THEN [x \in {e} |-> gates[AnyEnv]]
                                           ELSE [x \in {} |-> NoGate])
           platform == DefaultBody.gates
<1>1. DOMAIN platform = {AnyEnv} /\ platform[AnyEnv] = NoGate
  BY DEF DefaultBody, NoGate
<1>2. ASSUME NEW gates
      PROVE  /\ e \in DOMAIN In(gates) <=> e \in DOMAIN gates \/ AnyEnv \in DOMAIN gates
             /\ e \in DOMAIN gates => In(gates)[e] = gates[e]
             /\ e \notin DOMAIN gates /\ AnyEnv \in DOMAIN gates => In(gates)[e] = gates[AnyEnv]
  BY DEF Over
<1>3. e \in DOMAIN In(platform) /\ In(platform)[e] = NoGate
  BY <1>1, <1>2
<1>4. GateEntry(b, e)
        = Over(Over(In(b.gates), In(platform)), [x \in {e} |-> NoGate])[e]
  BY DEF GateEntry
<1> HIDE DEF In, platform
<1>5. GateEntry(b, e)
        = IF e \in DOMAIN In(b.gates) THEN In(b.gates)[e] ELSE In(platform)[e]
  BY <1>3, <1>4 DEF Over
<1> QED
  BY <1>2, <1>3, <1>5

LEMMA EvidenceIs ==
    ASSUME NEW b, NEW s \in {"window", "stale"}
    PROVE  EvidenceSettings(b)[s] =
             IF s \in DOMAIN b.evidence THEN b.evidence[s]
             ELSE IF s = "window" THEN DefaultCoverageWindow ELSE DefaultStaleAfter
  BY DEF EvidenceSettings, Over, DefaultBody

LEMMA FieldsIs ==
    ASSUME NEW b
    PROVE  IntakeFields(b) = IF "fields" \in DOMAIN b.fields THEN b.fields["fields"]
                                    ELSE DefaultBody.fields["fields"]
  BY DEF IntakeFields, Over, DefaultBody

LEMMA NoGateGood == NoGate \in GateRow
  BY DEF NoGate, GateRow

LEMMA ListFinite == \A s : IsList(s) => IsFiniteSet(DOMAIN s)
  BY FS_Interval DEF IsList

LEMMA ReviewerListGood == GoodList(OneReview) /\ GoodList(DefaultBody.vendors["vendors"])
<1>1. /\ OneReview.stages = <<Reviewer>> /\ OneReview.recertify = 0
      /\ DefaultBody.vendors["vendors"].stages = <<Reviewer>>
      /\ DefaultBody.vendors["vendors"].recertify = 365
  BY DEF OneReview, DefaultBody, Never
<1>2. DOMAIN <<Reviewer>> = {1}
  OBVIOUS
<1>3. IsFiniteSet({1}) /\ IsList(<<Reviewer>>)
  <2>1. IsFiniteSet({1})
    BY FS_Singleton
  <2>2. Len(<<Reviewer>>) = 1 /\ 1..1 = {1}
    OBVIOUS
  <2>3. IsList(<<Reviewer>>)
    BY <1>2, <2>2 DEF IsList
  <2> QED
    BY <2>1, <2>3
<1> QED
  BY <1>1, <1>2, <1>3 DEF GoodList

LEMMA DefaultGood == GoodBody(DefaultBody)
<1> DEFINE b == DefaultBody
<1>1. ASSUME NEW t \in Tier PROVE TierEntry(b, t) = OneReview
  BY TierEntryIs DEF DefaultBody
<1>2. VendorEntry(b) = DefaultBody.vendors["vendors"]
  BY VendorEntryIs
<1>3. ASSUME NEW e PROVE GateEntry(b, e) \in GateRow
  <2>1. DOMAIN b.gates = {AnyEnv} /\ b.gates[AnyEnv] = NoGate
    BY DEF DefaultBody, NoGate
  <2> HIDE DEF b
  <2> QED
    BY <2>1, GateEntryIs, NoGateGood
<1>4. ASSUME NEW s \in {"window", "stale"} PROVE EvidenceSettings(b)[s] \in Nat
  <2>1. DOMAIN b.evidence = {}
    BY DEF DefaultBody
  <2> HIDE DEF b
  <2> QED
    BY <2>1, EvidenceIs DEF DefaultCoverageWindow, DefaultStaleAfter
<1> HIDE DEF b
<1>5. GoodBody(b)
  BY <1>1, <1>2, <1>3, <1>4, ReviewerListGood DEF GoodBody
<1> QED
  BY <1>5 DEF b

LEMMA RecertifyNat == \A days : ValidRecertify(days) => days \in Nat
<1> TAKE days
<1>1. Never \in Nat /\ RecertifyDays \subseteq Nat
  BY DEF Never, RecertifyDays
<1> QED
  BY <1>1 DEF ValidRecertify

\* A document that was found valid once is good.
LEMMA ValidGood ==
    ASSUME EngineConstants, NEW b \in Document, NEW g, ValidPolicyBody(b, g)
    PROVE  GoodBody(b)
<1>1. ASSUME NEW t \in Tier PROVE GoodList(TierEntry(b, t))
  <2>1. CASE t \in DOMAIN b.tiers
    <3>0. IsList(b.tiers[t].stages)
      BY <2>1, Zenon DEF EngineConstants
    <3>1. IsFiniteSet(DOMAIN b.tiers[t].stages)
      BY <3>0, ListFinite
    <3>3. ValidRecertify(b.tiers[t].recertify)
      BY <2>1, Zenon DEF ValidPolicyBody, ValidIntake
    <3>2. b.tiers[t].recertify \in Nat
      BY <3>3, RecertifyNat
    <3> QED
      BY <2>1, <3>0, <3>1, <3>2, TierEntryIs DEF GoodList
  <2>2. CASE t \notin DOMAIN b.tiers
    BY <2>2, TierEntryIs, ReviewerListGood
  <2> QED
    BY <2>1, <2>2
<1>2. GoodList(VendorEntry(b))
  <2>1. CASE "vendors" \in DOMAIN b.vendors
    <3>0. IsList(b.vendors["vendors"].stages)
      BY <2>1, Zenon DEF EngineConstants
    <3>1. IsFiniteSet(DOMAIN b.vendors["vendors"].stages)
      BY <3>0, ListFinite
    <3>3. ValidRecertify(b.vendors["vendors"].recertify)
      BY <2>1, Zenon DEF ValidPolicyBody, ValidVendors
    <3>2. b.vendors["vendors"].recertify \in Nat
      BY <3>3, RecertifyNat
    <3> QED
      BY <2>1, <3>0, <3>1, <3>2, VendorEntryIs DEF GoodList
  <2>2. CASE "vendors" \notin DOMAIN b.vendors
    BY <2>2, VendorEntryIs, ReviewerListGood
  <2> QED
    BY <2>1, <2>2
<1>3. ASSUME NEW e PROVE GateEntry(b, e) \in GateRow
  <2>1. \A x \in DOMAIN b.gates : b.gates[x] \in GateRow
    BY DEF EngineConstants, GateRow
  <2> QED
    BY <2>1, GateEntryIs, NoGateGood
<1>4. ASSUME NEW s \in {"window", "stale"} PROVE EvidenceSettings(b)[s] \in Nat
  <2>1. s \in DOMAIN b.evidence => b.evidence[s] \in Nat
    BY DEF ValidPolicyBody, ValidEvidence, CoverageWindowCeiling,
           StaleAfterCeiling
  <2> QED
    BY <2>1, EvidenceIs DEF DefaultCoverageWindow, DefaultStaleAfter
<1> QED
  BY <1>1, <1>2, <1>3, <1>4 DEF GoodBody

-----------------------------------------------------------------------------
(***************************************************************************)
(* Strictness.                                                             *)
(***************************************************************************)

LEMMA KeepsTransitive ==
    ASSUME NEW a, NEW b, NEW c, GoodList(a), GoodList(b), GoodList(c), Keeps(a, b), Keeps(b, c)
    PROVE  Keeps(a, c)
<1>1. Embedded(a.stages, c.stages)
  BY EmbeddedTransitive DEF Keeps
<1>2. ASSUME a.recertify # Never PROVE c.recertify \in 1..a.recertify
  <2>1. /\ a.recertify \in Nat /\ b.recertify \in Nat /\ c.recertify \in Nat
        /\ b.recertify \in 1..a.recertify
        /\ b.recertify # Never => c.recertify \in 1..b.recertify
    BY <1>2 DEF Keeps, GoodList
  <2> QED
    BY <2>1 DEF Never
<1> QED
  BY <1>1, <1>2 DEF Keeps

LEMMA AtLeastTransitive ==
    ASSUME NEW a, NEW b, NEW c, GoodBody(a), GoodBody(b), GoodBody(c),
           AtLeast(a, b), AtLeast(b, c)
    PROVE  AtLeast(a, c)
<1>1. ASSUME NEW t \in Tier PROVE Keeps(TierEntry(a, t), TierEntry(c, t))
  BY KeepsTransitive DEF AtLeast, GoodBody
<1>2. Keeps(VendorEntry(a), VendorEntry(c))
  BY KeepsTransitive DEF AtLeast, GoodBody
<1>3. ASSUME NEW e \in Environment
      PROVE  /\ GateEntry(a, e).attested => GateEntry(c, e).attested
             /\ GateEntry(a, e).coverage <= GateEntry(c, e).coverage
  <2>1. /\ GateEntry(a, e).attested => GateEntry(b, e).attested
        /\ GateEntry(b, e).attested => GateEntry(c, e).attested
        /\ GateEntry(a, e).coverage <= GateEntry(b, e).coverage
        /\ GateEntry(b, e).coverage <= GateEntry(c, e).coverage
    BY DEF AtLeast
  <2>2. /\ GateEntry(a, e).coverage \in Int /\ GateEntry(b, e).coverage \in Int
        /\ GateEntry(c, e).coverage \in Int
    BY DEF GoodBody, GateRow
  <2>3. GateEntry(a, e).coverage <= GateEntry(c, e).coverage
    BY <2>1, <2>2
  <2> QED
    BY <2>1, <2>3
<1>4. ASSUME NEW s \in {"window", "stale"}
      PROVE  EvidenceSettings(c)[s] <= EvidenceSettings(a)[s]
  <2>1. /\ EvidenceSettings(b)[s] <= EvidenceSettings(a)[s]
        /\ EvidenceSettings(c)[s] <= EvidenceSettings(b)[s]
        /\ EvidenceSettings(a)[s] \in Nat /\ EvidenceSettings(b)[s] \in Nat
        /\ EvidenceSettings(c)[s] \in Nat
    BY DEF AtLeast, GoodBody
  <2> QED
    BY <2>1
<1>5. \A t \in Tier, given \in SUBSET Field : Passes(c, given, t) => Passes(a, given, t)
  BY DEF AtLeast
<1> QED
  BY <1>1, <1>2, <1>3, <1>4, <1>5 DEF AtLeast

\* policy_loosening misses nothing.
LEMMA NotLoosenedKeeps ==
    ASSUME NEW a, NEW b, GoodList(a), GoodList(b),
           ~ StagesLoosened(a, b), ~ RecertifyLoosened(a, b)
    PROVE  Keeps(a, b)
<1>1. Embedded(a.stages, b.stages)
  <2>1. ASSUME NEW i \in DOMAIN a.stages
        PROVE  Times(a.stages[i], a.stages) <= Times(a.stages[i], b.stages)
    <3> DEFINE A == {j \in DOMAIN a.stages : a.stages[j] = a.stages[i]}
               B == {j \in DOMAIN b.stages : b.stages[j] = a.stages[i]}
    <3>1. IsFiniteSet(A) /\ IsFiniteSet(B)
      BY FS_Subset DEF GoodList
    <3>2. Cardinality(A) \in Nat /\ Cardinality(B) \in Nat
      BY <3>1, FS_CardinalityType
    <3>3. /\ Times(a.stages[i], a.stages) = Cardinality(A)
          /\ Times(a.stages[i], b.stages) = Cardinality(B)
      BY DEF Times
    <3>4. ~ (Times(a.stages[i], a.stages) > Times(a.stages[i], b.stages))
      BY DEF StagesLoosened
    <3> QED
      BY <3>2, <3>3, <3>4
  <2> QED
    BY <2>1, EmbeddedByCount DEF GoodList
<1>2. ASSUME a.recertify # Never PROVE b.recertify \in 1..a.recertify
  <2>1. ~ (b.recertify = Never \/ b.recertify > a.recertify)
    BY <1>2 DEF RecertifyLoosened
  <2>2. a.recertify \in Nat /\ b.recertify \in Nat
    BY DEF GoodList
  <2> QED
    BY <2>1, <2>2 DEF Never
<1> QED
  BY <1>1, <1>2 DEF Keeps

LEMMA NotLoosened ==
    ASSUME NEW a, NEW b, GoodBody(a), GoodBody(b), ~ PolicyLoosening(a, b)
    PROVE  AtLeast(a, b)
<1> DEFINE named == {AnyEnv} \cup DOMAIN a.gates \cup DOMAIN b.gates
                      \cup DOMAIN DefaultBody.gates
<1>1. /\ \A t \in Tier :
           /\ ~ StagesLoosened(TierEntry(a, t), TierEntry(b, t))
           /\ ~ RecertifyLoosened(TierEntry(a, t), TierEntry(b, t))
      /\ ~ StagesLoosened(VendorEntry(a), VendorEntry(b))
      /\ ~ RecertifyLoosened(VendorEntry(a), VendorEntry(b))
      /\ \A e \in named :
           /\ GateEntry(a, e).attested => GateEntry(b, e).attested
           /\ ~ (GateEntry(b, e).coverage < GateEntry(a, e).coverage)
      /\ \A s \in {"window", "stale"} :
           ~ (EvidenceSettings(b)[s] > EvidenceSettings(a)[s])
      /\ \A k \in DOMAIN IntakeFields(a) :
           /\ k \in DOMAIN IntakeFields(b)
           /\ IntakeFields(a)[k] \subseteq IntakeFields(b)[k]
  BY Zenon DEF PolicyLoosening
<1>2. ASSUME NEW t \in Tier PROVE Keeps(TierEntry(a, t), TierEntry(b, t))
  BY <1>1, NotLoosenedKeeps DEF GoodBody
<1>3. Keeps(VendorEntry(a), VendorEntry(b))
  BY <1>1, NotLoosenedKeeps DEF GoodBody
<1>4. ASSUME NEW e \in Environment
      PROVE  /\ GateEntry(a, e).attested => GateEntry(b, e).attested
             /\ GateEntry(a, e).coverage <= GateEntry(b, e).coverage
  <2>1. PICK x \in named : /\ GateEntry(a, x) = GateEntry(a, e)
                           /\ GateEntry(b, x) = GateEntry(b, e)
    <3>1. CASE e \in named
      BY <3>1
    <3>2. CASE e \notin named
      <4>1. /\ GateEntry(a, AnyEnv) = GateEntry(a, e)
            /\ GateEntry(b, AnyEnv) = GateEntry(b, e)
        BY <3>2, GateEntryIs
      <4> QED
        BY <4>1
    <3> QED
      BY <3>1, <3>2
  <2>2. /\ GateEntry(a, e).attested => GateEntry(b, e).attested
        /\ ~ (GateEntry(b, e).coverage < GateEntry(a, e).coverage)
    BY <1>1, <2>1
  <2>3. GateEntry(a, e).coverage \in Int /\ GateEntry(b, e).coverage \in Int
    BY DEF GoodBody, GateRow
  <2>4. GateEntry(a, e).coverage <= GateEntry(b, e).coverage
    BY <2>2, <2>3
  <2> QED
    BY <2>2, <2>4
<1>5. ASSUME NEW s \in {"window", "stale"}
      PROVE  EvidenceSettings(b)[s] <= EvidenceSettings(a)[s]
  <2>1. /\ EvidenceSettings(a)[s] \in Nat /\ EvidenceSettings(b)[s] \in Nat
        /\ ~ (EvidenceSettings(b)[s] > EvidenceSettings(a)[s])
    BY <1>1 DEF GoodBody
  <2> QED
    BY <2>1
<1>6. \A t \in Tier, given \in SUBSET Field : Passes(b, given, t) => Passes(a, given, t)
  BY <1>1 DEF Passes
<1> QED
  BY <1>2, <1>3, <1>4, <1>5, <1>6 DEF AtLeast

-----------------------------------------------------------------------------
(***************************************************************************)
(* The resolvers read what the comparison of the documents looked at.      *)
(***************************************************************************)

LEMMA ResolvedEntries ==
    ASSUME NEW v, GoodBody(BodyOf(v))
    PROVE  LET b == BodyOf(v) IN
           /\ \A t \in Tier : ResolveTierPolicy(v, t).entry = TierEntry(b, t)
           /\ ResolveVendorPolicy(v).entry = VendorEntry(b)
           /\ \A e : LET gate == ResolveGatePolicy(v, e).entry IN
                     /\ gate.attested = GateEntry(b, e).attested
                     /\ gate.coverage = GateEntry(b, e).coverage
           /\ ResolveEvidencePolicy(v).entry = EvidenceSettings(b)
           /\ ResolveIntakeFields(v) = IntakeFields(b)
<1> DEFINE b == BodyOf(v)
<1>1. BodyOf(0) = DefaultBody
  BY DEF BodyOf
<1>2. ASSUME NEW t \in Tier
      PROVE  ResolveTierPolicy(v, t).entry = TierEntry(b, t)
  <2>1. DefaultBody.tiers[t] = OneReview
    BY DEF DefaultBody
  <2>2. ResolveTierPolicy(v, t).entry
          = BodyOf(IF t \in DOMAIN b.tiers THEN v ELSE 0).tiers[t]
    BY DEF ResolveTierPolicy
  <2> QED
    BY <1>1, <2>1, <2>2, TierEntryIs
<1>3. ResolveVendorPolicy(v).entry = VendorEntry(b)
  <2>1. ResolveVendorPolicy(v).entry
          = BodyOf(IF "vendors" \in DOMAIN b.vendors THEN v ELSE 0).vendors["vendors"]
    BY DEF ResolveVendorPolicy
  <2> QED
    BY <1>1, <2>1, VendorEntryIs
<1>4. ASSUME NEW e
      PROVE  /\ ResolveGatePolicy(v, e).entry.attested = GateEntry(b, e).attested
             /\ ResolveGatePolicy(v, e).entry.coverage = GateEntry(b, e).coverage
  <2> DEFINE key(gates) == IF e \in DOMAIN gates THEN e ELSE AnyEnv
             w == IF key(b.gates) \in DOMAIN b.gates THEN v ELSE 0
             found == BodyOf(w).gates[key(BodyOf(w).gates)]
  <2>1. ResolveGatePolicy(v, e).entry
          = [found EXCEPT !.changes = Min({@, MaterialChangeCeiling})]
    BY DEF ResolveGatePolicy
  <2>2. DOMAIN DefaultBody.gates = {AnyEnv}
        /\ DefaultBody.gates[AnyEnv] = NoGate
    BY DEF DefaultBody, NoGate
  <2>3. found = GateEntry(b, e)
    <3>1. CASE key(b.gates) \in DOMAIN b.gates
      BY <3>1, GateEntryIs
    <3>2. CASE key(b.gates) \notin DOMAIN b.gates
      <4>1. found = NoGate
        BY <1>1, <2>2, <3>2
      <4>2. e \notin DOMAIN b.gates /\ AnyEnv \notin DOMAIN b.gates
        BY <3>2
      <4> QED
        BY <4>1, <4>2, GateEntryIs
    <3> QED
      BY <3>1, <3>2
  <2>4. found \in GateRow
    BY <2>3 DEF GoodBody
  <2> HIDE DEF found
  <2> QED
    BY <2>1, <2>3, <2>4 DEF GateRow
<1>5. ResolveEvidencePolicy(v).entry = EvidenceSettings(b)
  BY DEF ResolveEvidencePolicy
<1>6. ResolveIntakeFields(v) = IntakeFields(b)
  <2>1. ResolveIntakeFields(v)
          = BodyOf(IF "fields" \in DOMAIN b.fields THEN v ELSE 0).fields["fields"]
    BY DEF ResolveIntakeFields
  <2> QED
    BY <1>1, <2>1, FieldsIs
<1> QED
  BY <1>2, <1>3, <1>4, <1>5, <1>6

\* A version whose document asks for no less is not weaker.
LEMMA NotWeaker ==
    ASSUME NEW v, NEW w, GoodBody(BodyOf(v)), GoodBody(BodyOf(w)),
           AtLeast(BodyOf(v), BodyOf(w))
    PROVE  ~ Weaker(v, w)
<1> DEFINE a == BodyOf(v)
           b == BodyOf(w)
           Loses(x, y) ==
              \/ ~ \E f \in Injection(DOMAIN x.stages, DOMAIN y.stages) :
                     \A i \in DOMAIN x.stages : y.stages[f[i]] = x.stages[i]
              \/ x.recertify # Never /\ y.recertify \notin 1..x.recertify
           Accepts(u, given, t) ==
              ValidFieldValues(ResolveIntakeFields(u),
                                      given \cap DOMAIN ResolveIntakeFields(u), t)
<1>1. ASSUME NEW x, NEW y, Keeps(x, y) PROVE ~ Loses(x, y)
  <2>1. PICK f \in [DOMAIN x.stages -> DOMAIN y.stages] :
           /\ \A i, j \in DOMAIN x.stages : f[i] = f[j] => i = j
           /\ \A i \in DOMAIN x.stages : y.stages[f[i]] = x.stages[i]
    BY <1>1 DEF Keeps, Embedded
  <2>2. f \in Injection(DOMAIN x.stages, DOMAIN y.stages)
    BY <2>1 DEF Injection, IsInjective
  <2>3. x.recertify # Never => y.recertify \in 1..x.recertify
    BY <1>1 DEF Keeps
  <2> QED
    BY <2>1, <2>2, <2>3
<1>2. ASSUME NEW t \in Tier
      PROVE  ~ Loses(ResolveTierPolicy(v, t).entry, ResolveTierPolicy(w, t).entry)
  <2>1. Keeps(TierEntry(a, t), TierEntry(b, t))
    BY DEF AtLeast
  <2> HIDE DEF Loses
  <2> QED
    BY <1>1, <2>1, ResolvedEntries
<1>3. ~ Loses(ResolveVendorPolicy(v).entry, ResolveVendorPolicy(w).entry)
  <2>1. Keeps(VendorEntry(a), VendorEntry(b))
    BY DEF AtLeast
  <2> HIDE DEF Loses
  <2> QED
    BY <1>1, <2>1, ResolvedEntries
<1>4. ASSUME NEW e \in Environment
      PROVE  /\ ~ (/\ ResolveGatePolicy(v, e).entry.attested
                   /\ ~ ResolveGatePolicy(w, e).entry.attested)
             /\ ~ (ResolveGatePolicy(w, e).entry.coverage
                     < ResolveGatePolicy(v, e).entry.coverage)
  <2>1. /\ GateEntry(a, e).attested => GateEntry(b, e).attested
        /\ GateEntry(a, e).coverage <= GateEntry(b, e).coverage
    BY DEF AtLeast
  <2>2. GateEntry(a, e).coverage \in Int /\ GateEntry(b, e).coverage \in Int
    BY DEF GoodBody, GateRow
  <2>3. ~ (GateEntry(b, e).coverage < GateEntry(a, e).coverage)
    BY <2>1, <2>2
  <2>4. /\ ResolveGatePolicy(v, e).entry.attested = GateEntry(a, e).attested
        /\ ResolveGatePolicy(w, e).entry.attested = GateEntry(b, e).attested
        /\ ResolveGatePolicy(v, e).entry.coverage = GateEntry(a, e).coverage
        /\ ResolveGatePolicy(w, e).entry.coverage = GateEntry(b, e).coverage
    BY ResolvedEntries
  <2> QED
    BY <2>1, <2>3, <2>4
<1>5. ASSUME NEW s \in {"window", "stale"}
      PROVE  ~ (ResolveEvidencePolicy(w).entry[s] > ResolveEvidencePolicy(v).entry[s])
  <2>1. /\ EvidenceSettings(b)[s] <= EvidenceSettings(a)[s]
        /\ EvidenceSettings(a)[s] \in Nat /\ EvidenceSettings(b)[s] \in Nat
    BY DEF AtLeast, GoodBody
  <2>2. ~ (EvidenceSettings(b)[s] > EvidenceSettings(a)[s])
    BY <2>1
  <2> QED
    BY <2>2, ResolvedEntries
<1>6. ASSUME NEW t \in Tier, NEW given \in SUBSET Field
      PROVE  ~ (Accepts(w, given, t) /\ ~ Accepts(v, given, t))
  <2>1. Passes(b, given, t) => Passes(a, given, t)
    BY DEF AtLeast
  <2>2. /\ ResolveIntakeFields(v) = IntakeFields(a)
        /\ ResolveIntakeFields(w) = IntakeFields(b)
    BY ResolvedEntries
  <2> QED
    BY <2>1, <2>2 DEF Passes, ValidFieldValues
<1>7. Weaker(v, w) <=>
        \/ \E t \in Tier :
             Loses(ResolveTierPolicy(v, t).entry, ResolveTierPolicy(w, t).entry)
        \/ Loses(ResolveVendorPolicy(v).entry, ResolveVendorPolicy(w).entry)
        \/ \E e \in Environment :
             \/ /\ ResolveGatePolicy(v, e).entry.attested
                /\ ~ ResolveGatePolicy(w, e).entry.attested
             \/ ResolveGatePolicy(w, e).entry.coverage
                  < ResolveGatePolicy(v, e).entry.coverage
        \/ \E s \in {"window", "stale"} :
             ResolveEvidencePolicy(w).entry[s] > ResolveEvidencePolicy(v).entry[s]
        \/ \E t \in Tier, given \in SUBSET Field :
             Accepts(w, given, t) /\ ~ Accepts(v, given, t)
  BY Zenon DEF Weaker
<1> HIDE DEF Loses, Accepts
<1> QED
  BY <1>2, <1>3, <1>4, <1>5, <1>6, <1>7, Zenon

-----------------------------------------------------------------------------
(***************************************************************************)
(* The versions put in force, one after the other.                         *)
(***************************************************************************)

VersionRow == [body : Document, author : Account, status : {"draft", "active", "superseded"}]

GoodVersions == \A v \in DOMAIN versions : GoodBody(versions[v].body)

\* At most one version is in force, the one activated last.
LastReigns ==
    ActiveVersion = IF Len(reign) = 0 THEN {} ELSE {reign[Len(reign)].version}

\* The document in force after i activations.
Ruling(i) == BodyOf(Reigned(i))

\* Somebody activated a version another person wrote.
Shared(k) == reign[k].actor # versions[reign[k].version].author

Ratchet ==
    \A j \in 1..Len(reign) : \A i \in 0..(j - 1) :
        AtLeast(Ruling(i), Ruling(j)) \/ \E k \in (i + 1)..j : Shared(k)

EngineInv == EngineTypeOK /\ GoodVersions /\ LastReigns /\ Ratchet

\* A list of these is a list of those, when its elements are.
LEMMA Relisted ==
    ASSUME NEW S, NEW T, NEW s \in Seq(S), \A k \in 1..Len(s) : s[k] \in T
    PROVE  s \in Seq(T)
<1>1. Len(s) \in Nat /\ s \in [1..Len(s) -> S]
  BY LenProperties
<1>2. s = [k \in 1..Len(s) |-> s[k]]
  BY <1>1
<1>3. s \in [1..Len(s) -> T]
  BY <1>2
<1> QED
  BY <1>1, <1>3, SeqDef

LEMMA Seqs ==
    ASSUME EngineTypeOK
    PROVE  /\ versions \in Seq(VersionRow) /\ Len(versions) \in Nat
           /\ DOMAIN versions = 1..Len(versions)
           /\ \A v \in DOMAIN versions : versions[v] \in VersionRow
           /\ Len(reign) \in Nat /\ DOMAIN reign = 1..Len(reign)
           /\ \A k \in 1..Len(reign) : reign[k] \in [version : DOMAIN versions, actor : Account]
<1> DEFINE R == [version : DOMAIN versions, actor : Account]
<1>1. versions \in Seq(VersionRow) /\ reign \in Seq(R)
  BY DEF EngineTypeOK, VersionRow
<1> HIDE DEF R
<1>2. /\ Len(versions) \in Nat /\ DOMAIN versions = 1..Len(versions)
      /\ Len(reign) \in Nat /\ DOMAIN reign = 1..Len(reign)
  BY <1>1, LenProperties
<1>3. /\ \A v \in 1..Len(versions) : versions[v] \in VersionRow
      /\ \A k \in 1..Len(reign) : reign[k] \in R
  BY <1>1, ElementOfSeq
<1> QED
  BY <1>1, <1>2, <1>3 DEF R

LEMMA ReignedGood ==
    ASSUME EngineInv, NEW i \in 0..Len(reign)
    PROVE  /\ Reigned(i) \in {0} \cup DOMAIN versions
           /\ GoodBody(Ruling(i))
<1>1. Reigned(i) \in {0} \cup DOMAIN versions
  <2>1. CASE i = 0
    BY <2>1 DEF Reigned
  <2>2. CASE i # 0
    <3>1. i \in 1..Len(reign)
      BY <2>2, Seqs DEF EngineInv
    <3> QED
      BY <2>2, <3>1, Seqs DEF EngineInv, Reigned
  <2> QED
    BY <2>1, <2>2
<1> QED
  BY <1>1, DefaultGood DEF EngineInv, GoodVersions, Ruling, BodyOf

LEMMA InForceIs ==
    ASSUME EngineInv
    PROVE  InForce = Reigned(Len(reign))
<1> DEFINE last == reign[Len(reign)].version
<1>1. CASE Len(reign) = 0
  BY <1>1 DEF EngineInv, LastReigns, InForce, Reigned
<1>2. CASE Len(reign) # 0
  <2>1. ActiveVersion = {last}
    BY <1>2 DEF EngineInv, LastReigns
  <2>2. InForce = CHOOSE v \in ActiveVersion : TRUE
    BY <2>1 DEF InForce
  <2>3. InForce \in ActiveVersion
    BY <2>1, <2>2
  <2> QED
    BY <1>2, <2>1, <2>3 DEF Reigned
<1> QED
  BY <1>1, <1>2

LEMMA RatchetGives ==
    ASSUME EngineInv
    PROVE  NoLoneLoosening
<1>1. ASSUME NEW j \in 1..Len(reign), NEW i \in 0..(j - 1),
             Weaker(Reigned(i), Reigned(j))
      PROVE  \E k \in (i + 1)..j : Shared(k)
  <2>1. i \in 0..Len(reign) /\ j \in 0..Len(reign)
    BY Seqs DEF EngineInv
  <2>2. GoodBody(Ruling(i)) /\ GoodBody(Ruling(j))
    BY <2>1, ReignedGood
  <2>3. ~ AtLeast(Ruling(i), Ruling(j))
    BY <1>1, <2>2, NotWeaker DEF Ruling
  <2> QED
    BY <2>3 DEF EngineInv, Ratchet
<1> QED
  BY <1>1 DEF NoLoneLoosening, Shared

\* What a step leaves as it was.
LEMMA OldVersions ==
    ASSUME EngineInv, DOMAIN versions \subseteq DOMAIN versions',
           \A v \in DOMAIN versions : /\ versions'[v].body = versions[v].body
                                      /\ versions'[v].author = versions[v].author,
           \A k \in 1..Len(reign) : reign'[k] = reign[k]
    PROVE  /\ \A i \in 0..Len(reign) : Ruling(i)' = Ruling(i)
           /\ \A k \in 1..Len(reign) : Shared(k)' <=> Shared(k)
<1>1. ASSUME NEW i \in 0..Len(reign) PROVE Ruling(i)' = Ruling(i)
  <2>1. Reigned(i)' = Reigned(i)
    <3>1. CASE i = 0
      BY <3>1 DEF Reigned
    <3>2. CASE i # 0
      <4>1. i \in 1..Len(reign)
        BY <3>2, Seqs DEF EngineInv
      <4> QED
        BY <4>1 DEF Reigned
    <3> QED
      BY <3>1, <3>2
  <2>2. Reigned(i) \in {0} \cup DOMAIN versions
    BY ReignedGood
  <2>3. Ruling(i)' = IF Reigned(i) = 0 THEN DefaultBody
                        ELSE versions'[Reigned(i)].body
    BY <2>1 DEF Ruling, BodyOf
  <2> QED
    BY <2>2, <2>3 DEF Ruling, BodyOf
<1>2. ASSUME NEW k \in 1..Len(reign) PROVE Shared(k)' <=> Shared(k)
  <2>1. reign[k].version \in DOMAIN versions /\ reign'[k] = reign[k]
    BY Seqs DEF EngineInv
  <2> QED
    BY <2>1 DEF Shared
<1> QED
  BY <1>1, <1>2

LEMMA RatchetCarried ==
    ASSUME EngineInv, UNCHANGED reign,
           \A i \in 0..Len(reign) : Ruling(i)' = Ruling(i),
           \A k \in 1..Len(reign) : Shared(k)' <=> Shared(k)
    PROVE  Ratchet'
<1>1. ASSUME NEW j \in 1..Len(reign), NEW i \in 0..(j - 1)
      PROVE  AtLeast(Ruling(i)', Ruling(j)') \/ \E k \in (i + 1)..j : Shared(k)'
  <2>1. i \in 0..Len(reign) /\ j \in 0..Len(reign) /\ (i + 1)..j \subseteq 1..Len(reign)
    BY Seqs DEF EngineInv
  <2>2. AtLeast(Ruling(i), Ruling(j)) \/ \E k \in (i + 1)..j : Shared(k)
    BY DEF EngineInv, Ratchet
  <2> QED
    BY <2>1, <2>2
<1> QED
  BY <1>1 DEF Ratchet, AtLeast, Keeps, Embedded, Passes

LEMMA AsideKeepsPolicy ==
    ASSUME EngineInv, UNCHANGED <<versions, reign>>, EngineTypeOK'
    PROVE  EngineInv'
<1>1. GoodVersions' /\ LastReigns'
  BY DEF EngineInv, GoodVersions, LastReigns, ActiveVersion
<1>2. Ratchet'
  <2>1. /\ \A i \in 0..Len(reign) : Ruling(i)' = Ruling(i)
        /\ \A k \in 1..Len(reign) : Shared(k)' <=> Shared(k)
    BY OldVersions
  <2> QED
    BY <2>1, RatchetCarried
<1> QED
  BY <1>1, <1>2 DEF EngineInv

LEMMA EngineStarts ==
    ASSUME EngineConstants, EngineInit
    PROVE  EngineInv
<1>1. versions = <<>> /\ reign = <<>> /\ Len(reign) = 0 /\ DOMAIN versions = {} /\ Len(reign) \in Nat
  BY DEF EngineInit
<1>2. EngineTypeOK
  <2>1. versions \in Seq(VersionRow)
    BY <1>1
  <2>2. reign \in Seq([version : DOMAIN versions, actor : Account])
    BY <1>1
  <2>3. /\ grants \in [OrgRole -> SUBSET Permission] /\ holds \in [Account -> SUBSET OrgRole]
        /\ active \subseteq Account /\ churn \in 0..MaxChurn
    BY DEF EngineInit, EngineConstants
  <2> QED
    BY <2>1, <2>2, <2>3 DEF EngineTypeOK, VersionRow
<1>3. GoodVersions /\ LastReigns
  BY <1>1 DEF GoodVersions, LastReigns, ActiveVersion
<1>4. Ratchet
  BY <1>1 DEF Ratchet
<1> QED
  BY <1>2, <1>3, <1>4 DEF EngineInv

LEMMA DraftKeeps ==
    ASSUME EngineConstants, EngineInv, NEW p \in Account, NEW body \in Document,
           DraftPolicy(p, body)
    PROVE  EngineInv'
<1> DEFINE row == [body |-> body, author |-> p, status |-> "draft"]
           n == Len(versions)
<1>1. /\ versions' = Append(versions, row) /\ UNCHANGED <<reign, grants, holds, active, churn>>
      /\ ValidPolicyBody(body, grants)
  BY DEF DraftPolicy, PolicyDrafted
<1>2. row \in VersionRow
  BY DEF VersionRow
<1>3. versions \in Seq(VersionRow) /\ n \in Nat /\ DOMAIN versions = 1..n
  BY Seqs DEF EngineInv
<1>4. /\ versions' \in Seq(VersionRow) /\ DOMAIN versions' = 1..(n + 1)
      /\ \A v \in 1..n : versions'[v] = versions[v]
      /\ versions'[n + 1] = row
  <2>1. versions' \in Seq(VersionRow) /\ Len(versions') = n + 1
    BY <1>1, <1>2, <1>3, AppendProperties
  <2>2. DOMAIN versions' = 1..(n + 1)
    BY <2>1, LenProperties
  <2> QED
    BY <1>1, <1>2, <1>3, <2>1, <2>2, AppendProperties
<1> HIDE DEF row
<1>5. DOMAIN versions \subseteq DOMAIN versions'
  BY <1>3, <1>4
<1>6. EngineTypeOK'
  <2>1. reign \in Seq([version : DOMAIN versions, actor : Account])
    BY DEF EngineInv, EngineTypeOK
  <2>2. reign \in Seq([version : DOMAIN versions', actor : Account])
    <3>1. \A k \in 1..Len(reign) : reign[k] \in [version : DOMAIN versions', actor : Account]
      BY <1>5, Seqs DEF EngineInv
    <3> QED
      BY <2>1, <3>1, Relisted
  <2> QED
    BY <1>1, <1>4, <2>2 DEF EngineInv, EngineTypeOK, VersionRow
<1>7. GoodVersions'
  <2>1. GoodBody(body)
    BY <1>1, ValidGood
  <2>2. ASSUME NEW v \in DOMAIN versions' PROVE GoodBody(versions'[v].body)
    <3>1. v \in 1..n \/ v = n + 1
      BY <1>3, <1>4
    <3>2. CASE v \in 1..n
      BY <1>3, <1>4, <3>2 DEF EngineInv, GoodVersions
    <3>3. CASE v = n + 1
      BY <1>4, <2>1, <3>3 DEF row
    <3> QED
      BY <3>1, <3>2, <3>3
  <2> QED
    BY <2>2 DEF GoodVersions, GoodBody, GoodList, IsList
<1>8. LastReigns'
  <2>1. \A v \in 1..(n + 1) : versions'[v].status = "active"
                                <=> v \in 1..n /\ versions[v].status = "active"
    <3>1. row.status # "active"
      BY DEF row
    <3>2. \A v \in 1..(n + 1) : v \in 1..n \/ v = n + 1
      BY <1>3
    <3>3. n + 1 \notin 1..n
      BY <1>3
    <3> QED
      BY <1>4, <3>1, <3>2, <3>3
  <2>2. ActiveVersion' = ActiveVersion
    BY <1>3, <1>4, <2>1 DEF ActiveVersion
  <2> QED
    BY <1>1, <2>2 DEF EngineInv, LastReigns
<1>9. Ratchet'
  <2>1. /\ \A i \in 0..Len(reign) : Ruling(i)' = Ruling(i)
        /\ \A k \in 1..Len(reign) : Shared(k)' <=> Shared(k)
    BY <1>1, <1>3, <1>4, <1>5, OldVersions
  <2> QED
    BY <1>1, <2>1, RatchetCarried
<1> QED
  BY <1>6, <1>7, <1>8, <1>9 DEF EngineInv

\* The version activated is the new last one.
LEMMA ActivateKeeps ==
    ASSUME EngineConstants, EngineInv, NEW p \in Account, NEW v \in DOMAIN versions,
           ActivatePolicy(p, v)
    PROVE  EngineInv'
<1>0. PICK n \in Nat : n = Len(reign)
  BY Seqs DEF EngineInv
<1> DEFINE new == [version |-> v, actor |-> p]
           last == Reigned(n)
<1>1. /\ versions' = [w \in DOMAIN versions |->
                        IF w = v THEN [versions[w] EXCEPT !.status = "active"]
                        ELSE IF w = InForce THEN [versions[w] EXCEPT !.status = "superseded"]
                        ELSE versions[w]]
      /\ reign' = Append(reign, new)
      /\ UNCHANGED <<grants, holds, active, churn>>
  BY DEF ActivatePolicy
<1>2. /\ versions[v].status = "draft"
      /\ PolicyLoosening(BodyOf(InForce), versions[v].body)
           => versions[v].author # p
  BY DEF ActivatePolicy, ActivationAllowed
<1>3. InForce = last
  BY <1>0, InForceIs
<1>4. /\ versions \in Seq(VersionRow) /\ DOMAIN versions = 1..Len(versions)
      /\ Len(versions) \in Nat /\ \A w \in DOMAIN versions : versions[w] \in VersionRow
      /\ n \in Nat /\ DOMAIN reign = 1..n
  BY <1>0, Seqs DEF EngineInv
<1>5. ASSUME NEW w \in DOMAIN versions
      PROVE  /\ versions'[w] \in VersionRow
             /\ versions'[w].body = versions[w].body /\ versions'[w].author = versions[w].author
             /\ versions'[w].status = IF w = v THEN "active"
                                      ELSE IF w = last THEN "superseded" ELSE versions[w].status
  BY <1>1, <1>3, <1>4 DEF VersionRow
<1>6. DOMAIN versions' = DOMAIN versions /\ versions' \in Seq(VersionRow)
  <2>1. DOMAIN versions' = DOMAIN versions
    BY <1>1
  <2>2. versions' = [w \in 1..Len(versions) |-> versions'[w]]
    BY <1>1, <1>4, <2>1
  <2>3. versions' \in [1..Len(versions) -> VersionRow]
    BY <1>4, <1>5, <2>2
  <2> QED
    BY <1>4, <2>1, <2>3, SeqDef
<1>7. /\ reign' \in Seq([version : DOMAIN versions, actor : Account]) /\ Len(reign') = n + 1
      /\ \A k \in 1..n : reign'[k] = reign[k]
      /\ reign'[n + 1] = new
  <2> DEFINE R == [version : DOMAIN versions, actor : Account]
  <2>1. reign \in Seq(R)
    BY DEF EngineInv, EngineTypeOK
  <2>2. new \in R
    OBVIOUS
  <2> HIDE DEF R, new
  <2>3. reign' \in Seq(R) /\ Len(reign') = n + 1
    BY <1>0, <1>1, <2>1, <2>2, AppendProperties
  <2>4. /\ \A k \in 1..n : reign'[k] = reign[k]
        /\ reign'[n + 1] = new
    BY <1>0, <1>1, <2>1, <2>2, AppendProperties
  <2> QED
    BY <2>3, <2>4 DEF R
<1>8. EngineTypeOK'
  BY <1>1, <1>6, <1>7 DEF EngineInv, EngineTypeOK, VersionRow
<1>9. GoodVersions'
  <2>1. ASSUME NEW w \in DOMAIN versions PROVE GoodBody(versions'[w].body)
    BY <1>5 DEF EngineInv, GoodVersions
  <2> QED
    BY <1>6, <2>1 DEF GoodVersions, GoodBody, GoodList, IsList
<1>10. LastReigns'
  <2>1. ASSUME NEW w \in DOMAIN versions PROVE versions'[w].status = "active" <=> w = v
    <3>1. versions[w].status = "active" => w = last
      <4>1. w \in ActiveVersion => w = last
        BY <1>0, <1>4 DEF EngineInv, LastReigns, Reigned
      <4> QED
        BY <4>1 DEF ActiveVersion
    <3> QED
      BY <1>5, <3>1
  <2>2. ActiveVersion' = {v}
    BY <1>6, <2>1 DEF ActiveVersion
  <2>3. Len(reign') # 0 /\ reign'[Len(reign')].version = v
    BY <1>4, <1>7
  <2> QED
    BY <2>2, <2>3 DEF LastReigns
<1>11. Ratchet'
  <2>1. /\ \A i \in 0..n : Ruling(i)' = Ruling(i)
        /\ \A k \in 1..n : Shared(k)' <=> Shared(k)
    BY <1>0, <1>5, <1>6, <1>7, OldVersions
  <2>2. Ruling(n + 1)' = versions[v].body
    <3>1. Reigned(n + 1)' = v
      BY <1>4, <1>7 DEF Reigned
    <3>2. v # 0
      BY <1>4
    <3> QED
      BY <1>5, <3>1, <3>2 DEF Ruling, BodyOf
  <2>3. Shared(n + 1)' \/ AtLeast(Ruling(n), versions[v].body)
    <3>1. CASE versions[v].author = p
      <4>1. ~ PolicyLoosening(Ruling(n), versions[v].body)
        BY <1>2, <1>3, <3>1 DEF Ruling
      <4>2. GoodBody(Ruling(n)) /\ GoodBody(versions[v].body)
        BY <1>4, <1>0, ReignedGood DEF EngineInv, GoodVersions
      <4> QED
        BY <4>1, <4>2, NotLoosened
    <3>2. CASE versions[v].author # p
      <4>1. reign'[n + 1].actor = p /\ reign'[n + 1].version = v
        BY <1>7
      <4> QED
        BY <1>5, <3>2, <4>1 DEF Shared
    <3> QED
      BY <3>1, <3>2
  <2>4. ASSUME NEW j \in 1..(n + 1), NEW i \in 0..(j - 1)
        PROVE  AtLeast(Ruling(i)', Ruling(j)') \/ \E k \in (i + 1)..j : Shared(k)'
    <3>1. CASE j \in 1..n
      <4>1. i \in 0..n /\ j \in 0..n /\ (i + 1)..j \subseteq 1..n
        BY <1>4, <3>1
      <4>2. AtLeast(Ruling(i), Ruling(j)) \/ \E k \in (i + 1)..j : Shared(k)
        BY <1>0, <3>1 DEF EngineInv, Ratchet
      <4> QED
        BY <2>1, <4>1, <4>2
    <3>2. CASE j = n + 1 /\ Shared(n + 1)'
      <4>1. n + 1 \in (i + 1)..j
        BY <1>4, <3>2
      <4> QED
        BY <3>2, <4>1
    <3>3. CASE j = n + 1 /\ AtLeast(Ruling(n), versions[v].body)
      <4>1. i \in 0..n
        BY <1>4, <3>3
      <4>2. CASE i = n
        BY <2>1, <2>2, <3>3, <4>1, <4>2
      <4>3. CASE i # n /\ AtLeast(Ruling(i), Ruling(n))
        <5>1. GoodBody(Ruling(i)) /\ GoodBody(Ruling(n)) /\ GoodBody(versions[v].body)
          BY <1>4, <4>1, <1>0, ReignedGood DEF EngineInv, GoodVersions
        <5>2. AtLeast(Ruling(i), versions[v].body)
          BY <3>3, <4>3, <5>1, AtLeastTransitive
        <5> QED
          BY <2>1, <2>2, <3>3, <4>1, <5>2
      <4>4. CASE i # n /\ \E k \in (i + 1)..n : Shared(k)
        <5>1. (i + 1)..n \subseteq 1..n /\ (i + 1)..n \subseteq (i + 1)..j
          BY <1>4, <3>3, <4>1
        <5> QED
          BY <2>1, <4>4, <5>1
      <4>5. i # n => AtLeast(Ruling(i), Ruling(n)) \/ \E k \in (i + 1)..n : Shared(k)
        <5>1. i # n => n \in 1..n /\ i \in 0..(n - 1)
          BY <1>4, <4>1
        <5> QED
          BY <1>0, <5>1 DEF EngineInv, Ratchet
      <4> QED
        BY <4>2, <4>3, <4>4, <4>5
    <3>4. j \in 1..n \/ j = n + 1
      BY <1>4
    <3> QED
      BY <2>3, <3>1, <3>2, <3>3, <3>4
  <2> QED
    BY <1>7, <2>4 DEF Ratchet, AtLeast, Keeps, Embedded, Passes
<1> QED
  BY <1>8, <1>9, <1>10, <1>11 DEF EngineInv

LEMMA PeopleKeep ==
    ASSUME EngineConstants, EngineInv,
           \/ \E g \in Regrants : UpdateRolePermission(g[1], g[2])
           \/ \E p \in Account, h \in Rehires : ChangeOrgRoleAssignment(p, h[1], h[2])
           \/ \E p \in Account, q \in Suspends : UpdateOrgUserStatus(p, q)
           \/ UNCHANGED engineVars
    PROVE  EngineInv'
<1>1. UNCHANGED <<versions, reign>>
  BY DEF UpdateRolePermission, ChangeOrgRoleAssignment,
         UpdateOrgUserStatus, engineVars
<1>2. /\ grants \in [OrgRole -> SUBSET Permission] /\ holds \in [Account -> SUBSET OrgRole]
      /\ active \subseteq Account /\ churn \in 0..MaxChurn /\ MaxChurn \in Nat
  BY DEF EngineInv, EngineTypeOK, EngineConstants
<1>3. /\ grants' \in [OrgRole -> SUBSET Permission] /\ holds' \in [Account -> SUBSET OrgRole]
      /\ active' \subseteq Account /\ churn' \in 0..MaxChurn
  <2>1. ASSUME NEW g \in Regrants, UpdateRolePermission(g[1], g[2])
        PROVE  /\ grants' \in [OrgRole -> SUBSET Permission] /\ churn' \in 0..MaxChurn
               /\ UNCHANGED <<holds, active>>
    <3>1. g[1] \in OrgRole /\ g[2] \in Permission
      BY DEF EngineConstants
    <3>2. churn' \in 0..MaxChurn /\ UNCHANGED <<holds, active>>
      BY <1>2, <2>1 DEF UpdateRolePermission
    <3>3. grants' = [grants EXCEPT ![g[1]] = IF g[2] \in @ THEN @ \ {g[2]} ELSE @ \cup {g[2]}]
      BY <2>1 DEF UpdateRolePermission, RolePermissionSet
    <3> QED
      BY <1>2, <3>1, <3>2, <3>3
  <2>2. ASSUME NEW p \in Account, NEW h \in Rehires, ChangeOrgRoleAssignment(p, h[1], h[2])
        PROVE  /\ holds' \in [Account -> SUBSET OrgRole] /\ churn' \in 0..MaxChurn
               /\ UNCHANGED <<grants, active>>
    <3>1. h[1] \in Account /\ h[2] \in OrgRole
      BY DEF EngineConstants
    <3>2. churn' \in 0..MaxChurn /\ UNCHANGED <<grants, active>>
      BY <1>2, <2>2 DEF ChangeOrgRoleAssignment
    <3>3. holds' = [holds EXCEPT ![h[1]] = IF h[2] \in @ THEN @ \ {h[2]} ELSE @ \cup {h[2]}]
      BY <2>2 DEF ChangeOrgRoleAssignment, RoleAssignmentSet
    <3> QED
      BY <1>2, <3>1, <3>2, <3>3
  <2>3. ASSUME NEW p \in Account, NEW q \in Suspends, UpdateOrgUserStatus(p, q)
        PROVE  active' \subseteq Account /\ churn' \in 0..MaxChurn /\ UNCHANGED <<grants, holds>>
    <3>1. q \in Account
      BY DEF EngineConstants
    <3>2. churn' \in 0..MaxChurn /\ UNCHANGED <<grants, holds>>
      BY <1>2, <2>3 DEF UpdateOrgUserStatus
    <3>3. active' \subseteq active \cup {q}
      BY <2>3 DEF UpdateOrgUserStatus, UserStatusSet
    <3> QED
      BY <1>2, <3>1, <3>2, <3>3
  <2>4. CASE UNCHANGED engineVars
    BY <1>2, <2>4 DEF engineVars
  <2> QED
    BY <1>2, <2>1, <2>2, <2>3, <2>4
<1>4. EngineTypeOK'
  BY <1>1, <1>3 DEF EngineInv, EngineTypeOK
<1> QED
  BY <1>1, <1>4, AsideKeepsPolicy

LEMMA EngineStep ==
    ASSUME EngineConstants, EngineInv, [EngineNext]_engineVars
    PROVE  EngineInv'
<1>1. ASSUME NEW p \in Account, NEW body \in Document, DraftPolicy(p, body)
      PROVE  EngineInv'
  BY <1>1, DraftKeeps
<1>2. ASSUME NEW p \in Account, NEW v \in DOMAIN versions, ActivatePolicy(p, v)
      PROVE  EngineInv'
  BY <1>2, ActivateKeeps
<1> QED
  BY <1>1, <1>2, PeopleKeep DEF EngineNext

\* The types of the policy versions, the roles and the people, in every reachable state
\* (create_policy_draft, activate_policy, set_role_permission, upsert_role_assignment,
\* set_user_status).
THEOREM EngineTypeCorrect == EngineSpec => []EngineTypeOK
<1> EngineConstants
  BY EngineAssumption
<1>1. EngineInit => EngineInv
  BY EngineStarts
<1>2. EngineInv /\ [EngineNext]_engineVars => EngineInv'
  BY EngineStep
<1>3. EngineInv => EngineTypeOK
  BY DEF EngineInv
<1> QED
  BY <1>1, <1>2, <1>3, PTL DEF EngineSpec

\* For every set of documents, people and roles, and whatever is drafted, activated,
\* granted or revoked in between: a policy in force weaker than an earlier one has had
\* a version activated by someone who did not write it (activate_policy's refusal of a
\* loosening by its author, policy_loosening).
THEOREM NobodyLoosensAlone == EngineSpec => []NoLoneLoosening
<1> EngineConstants
  BY EngineAssumption
<1>1. EngineInit => EngineInv
  BY EngineStarts
<1>2. EngineInv /\ [EngineNext]_engineVars => EngineInv'
  BY EngineStep
<1>3. EngineInv => NoLoneLoosening
  BY RatchetGives
<1> QED
  BY <1>1, <1>2, <1>3, PTL DEF EngineSpec

-----------------------------------------------------------------------------
(***************************************************************************)
(* The matching of stages to people (_can_staff).  Place is the solution of *)
(* a recursive equation: it exists and is unique because every call of     *)
(* place has seen one more person.                                         *)
(***************************************************************************)

\* Induction up to a bound, on a set.
LEMMA Climb ==
    ASSUME NEW n \in Nat, NEW S, 0 \in S, \A k \in 1..n : k - 1 \in S => k \in S
    PROVE  \A k \in 0..n : k \in S
<1> DEFINE Bad == {k \in 0..n : k \notin S}
           R == OpToRel(<, Nat)
<1>1. SUFFICES ASSUME Bad # {} PROVE FALSE
  OBVIOUS
<1>2. IsWellFoundedOn(R, Nat)
  BY NatLessThanWellFounded
<1>3. \A x, y \in Nat : x < y => <<x, y>> \in R
  BY DEF OpToRel
<1>4. Bad \subseteq Nat
  OBVIOUS
<1> HIDE DEF R
<1>5. PICK m \in Bad : \A y \in Bad : <<y, m>> \notin R
  <2> HIDE DEF Bad
  <2> QED
    BY <1>1, <1>2, <1>4, WFMin
<1>6. m \in 1..n /\ m - 1 \in 0..n /\ m - 1 < m /\ m - 1 \in Nat
  BY <1>5
<1>7. m - 1 \in S
  BY <1>3, <1>4, <1>5, <1>6
<1> QED
  BY <1>5, <1>6, <1>7


Able(s, i) == EligibleDeciders(s[i])

Slots(s) == [Account -> 0..Len(s)]

Calls(s) == (DOMAIN s) \X Slots(s) \X SUBSET Account

Outcomes(s) == [ok : BOOLEAN, assigned : Slots(s), seen : SUBSET Account]

\* One call of place, with f for the calls it makes.
Fresh(s, c) == Able(s, c[1]) \ c[3]

Tried(s, c) == CHOOSE p \in Fresh(s, c) : TRUE

Displace(s, c) == <<c[2][Tried(s, c)], c[2], c[3] \cup {Tried(s, c)}>>

Moved(f, s, c) ==
    IF c[2][Tried(s, c)] = 0
      THEN [ok |-> TRUE, assigned |-> c[2], seen |-> c[3] \cup {Tried(s, c)}]
      ELSE f[Displace(s, c)]

Retry(f, s, c) == <<c[1], Moved(f, s, c).assigned, Moved(f, s, c).seen>>

Call(f, s, c) ==
    IF Fresh(s, c) = {} THEN [ok |-> FALSE, assigned |-> c[2], seen |-> c[3]]
    ELSE IF Moved(f, s, c).ok THEN [Moved(f, s, c) EXCEPT !.assigned[Tried(s, c)] = c[1]]
    ELSE f[Retry(f, s, c)]

Solves(f, s) == f = [c \in Calls(s) |-> Call(f, s, c)]

\* A call never forgets whom it has seen.
Growing(s) == {f \in [Calls(s) -> Outcomes(s)] : \A c \in Calls(s) : c[3] \subseteq f[c].seen}

Left(c) == Cardinality(Account \ c[3])

LEMMA PlaceIs == \A s : Place(s) = CHOOSE f : Solves(f, s)
  BY Zenon DEF Place, Solves, Call, Retry, Moved, Displace, Tried, Fresh, Able, Calls, Slots

LEMMA AbleAre ==
    ASSUME active \subseteq Account, NEW s, NEW i
    PROVE  Able(s, i) \subseteq active /\ Able(s, i) \subseteq Account
  BY DEF Able, EligibleDeciders

LEMMA FewerLeft ==
    ASSUME IsFiniteSet(Account), NEW p \in Account, NEW A \in SUBSET Account, NEW B \in SUBSET Account,
           p \notin A, p \in B, A \subseteq B
    PROVE  /\ Cardinality(Account \ B) \in Nat /\ Cardinality(Account \ A) \in Nat
           /\ Cardinality(Account \ B) < Cardinality(Account \ A)
<1>1. IsFiniteSet(Account \ A) /\ IsFiniteSet(Account \ B)
  BY FS_Subset
<1>2. Cardinality(Account \ B) \in Nat /\ Cardinality(Account \ A) \in Nat
  BY <1>1, FS_CardinalityType
<1>3. Account \ B \in SUBSET (Account \ A) /\ Account \ A # Account \ B
  OBVIOUS
<1>4. /\ Cardinality(Account \ B) <= Cardinality(Account \ A)
      /\ Cardinality(Account \ B) # Cardinality(Account \ A)
  BY <1>1, <1>3, FS_Subset
<1> QED
  BY <1>2, <1>4

\* The call for the person displaced, and the one that tries another person, have both
\* seen somebody more.
LEMMA CallsDown ==
    ASSUME IsFiniteSet(Account), active \subseteq Account, NEW s, IsList(s),
           NEW f \in Growing(s), NEW c \in Calls(s), Fresh(s, c) # {}
    PROVE  /\ Tried(s, c) \in Able(s, c[1]) /\ Tried(s, c) \in Account /\ Tried(s, c) \notin c[3]
           /\ Moved(f, s, c) \in Outcomes(s)
           /\ c[3] \cup {Tried(s, c)} \subseteq Moved(f, s, c).seen
           /\ c[2][Tried(s, c)] # 0 =>
                Displace(s, c) \in Calls(s) /\ Left(Displace(s, c)) < Left(c)
           /\ Retry(f, s, c) \in Calls(s) /\ Left(Retry(f, s, c)) < Left(c)
           /\ Left(c) \in Nat
<1>0. PICK q : q = Tried(s, c)
  OBVIOUS
<1>1. q \in Able(s, c[1]) /\ q \in Account /\ q \notin c[3]
  BY <1>0, AbleAre DEF Tried, Fresh
<1>2. /\ c[1] \in DOMAIN s /\ c[2] \in Slots(s) /\ c[3] \in SUBSET Account
      /\ DOMAIN s = 1..Len(s) /\ Len(s) \in Nat
  BY DEF Calls, IsList
<1>3. PICK d : d = Displace(s, c)
  OBVIOUS
<1>4. d = <<c[2][q], c[2], c[3] \cup {q}>>
  BY <1>0, <1>3 DEF Displace
<1>5. c[2][q] # 0 => c[2][q] \in DOMAIN s
  BY <1>1, <1>2 DEF Slots
<1>6. c[3] \cup {q} \in SUBSET Account
  BY <1>1, <1>2
<1>7. c[2][q] # 0 => d \in Calls(s)
  BY <1>2, <1>4, <1>5, <1>6 DEF Calls
<1>8. Left(d) < Left(c) /\ Left(c) \in Nat
  <2>1. d[3] = c[3] \cup {q}
    BY <1>4
  <2> QED
    BY <1>1, <1>2, <1>6, <2>1, FewerLeft DEF Left
<1>9. PICK m : m = Moved(f, s, c)
  OBVIOUS
<1>10. m = IF c[2][q] = 0 THEN [ok |-> TRUE, assigned |-> c[2], seen |-> c[3] \cup {q}] ELSE f[d]
  BY <1>0, <1>3, <1>9 DEF Moved
<1>11. m \in Outcomes(s) /\ c[3] \cup {q} \subseteq m.seen
  <2>1. CASE c[2][q] = 0
    BY <1>2, <1>6, <1>10, <2>1 DEF Outcomes
  <2>2. CASE c[2][q] # 0
    <3>1. f[d] \in Outcomes(s) /\ d[3] \subseteq f[d].seen
      BY <1>7, <2>2 DEF Growing
    <3> QED
      BY <1>4, <1>10, <2>2, <3>1
  <2> QED
    BY <2>1, <2>2
<1>12. PICK r : r = Retry(f, s, c)
  OBVIOUS
<1>13. r = <<c[1], m.assigned, m.seen>>
  BY <1>9, <1>12 DEF Retry
<1>14. m.assigned \in Slots(s) /\ m.seen \in SUBSET Account
  BY <1>11 DEF Outcomes
<1>15. r \in Calls(s)
  BY <1>2, <1>13, <1>14 DEF Calls
<1>16. Left(r) < Left(c)
  <2>1. r[3] = m.seen /\ q \in m.seen /\ c[3] \subseteq m.seen
    BY <1>11, <1>13
  <2> QED
    BY <1>1, <1>2, <1>14, <2>1, FewerLeft DEF Left
<1> QED
  BY <1>0, <1>1, <1>3, <1>7, <1>8, <1>9, <1>11, <1>12, <1>15, <1>16

LEMMA CallGrows ==
    ASSUME IsFiniteSet(Account), active \subseteq Account, NEW s, IsList(s),
           NEW f \in Growing(s), NEW c \in Calls(s)
    PROVE  Call(f, s, c) \in Outcomes(s) /\ c[3] \subseteq Call(f, s, c).seen
<1>1. /\ c[1] \in DOMAIN s /\ c[2] \in Slots(s) /\ c[3] \in SUBSET Account
      /\ DOMAIN s = 1..Len(s) /\ Len(s) \in Nat
  BY DEF Calls, IsList
<1>2. CASE Fresh(s, c) = {}
  <2>1. Call(f, s, c) = [ok |-> FALSE, assigned |-> c[2], seen |-> c[3]]
    BY <1>2 DEF Call
  <2> QED
    BY <1>1, <2>1 DEF Outcomes
<1>3. CASE Fresh(s, c) # {}
  <2>1. PICK m, q, r : m = Moved(f, s, c) /\ q = Tried(s, c) /\ r = Retry(f, s, c)
    OBVIOUS
  <2>2. /\ q \in Account /\ m \in Outcomes(s) /\ c[3] \subseteq m.seen
        /\ r \in Calls(s)
    BY <1>3, <2>1, CallsDown
  <2>3. Call(f, s, c) = IF m.ok THEN [m EXCEPT !.assigned[q] = c[1]] ELSE f[r]
    BY <1>3, <2>1 DEF Call
  <2>4. CASE m.ok
    <3>1. c[1] \in 0..Len(s)
      BY <1>1
    <3>2. /\ [m EXCEPT !.assigned[q] = c[1]].seen = m.seen
          /\ [m EXCEPT !.assigned[q] = c[1]] \in Outcomes(s)
      BY <2>2, <3>1 DEF Outcomes, Slots
    <3> QED
      BY <2>2, <2>3, <2>4, <3>2
  <2>5. CASE ~ m.ok
    <3>1. f[r] \in Outcomes(s) /\ r[3] \subseteq f[r].seen
      BY <2>2 DEF Growing
    <3>2. r[3] = m.seen
      BY <2>1 DEF Retry
    <3> QED
      BY <2>2, <2>3, <2>5, <3>1, <3>2
  <2> QED
    BY <2>4, <2>5
<1> QED
  BY <1>2, <1>3

\* What a call comes to depends on the calls that have seen more only.
LEMMA CallAgrees ==
    ASSUME IsFiniteSet(Account), active \subseteq Account, NEW s, IsList(s),
           NEW f \in Growing(s), NEW g, NEW c \in Calls(s),
           \A d \in Calls(s) : Left(d) < Left(c) => g[d] = f[d]
    PROVE  Call(g, s, c) = Call(f, s, c)
<1>1. CASE Fresh(s, c) = {}
  BY <1>1 DEF Call
<1>2. CASE Fresh(s, c) # {}
  <2>1. Moved(g, s, c) = Moved(f, s, c)
    BY <1>2, CallsDown DEF Moved
  <2>2. Retry(g, s, c) = Retry(f, s, c)
    BY <2>1 DEF Retry
  <2>3. g[Retry(f, s, c)] = f[Retry(f, s, c)]
    BY <1>2, CallsDown
  <2> QED
    BY <2>1, <2>2, <2>3 DEF Call
<1> QED
  BY <1>1, <1>2

LEMMA LeftBound ==
    ASSUME IsFiniteSet(Account), NEW s, NEW c \in Calls(s)
    PROVE  Left(c) \in Nat /\ Cardinality(Account) \in Nat /\ Left(c) < Cardinality(Account) + 1
<1>1. Account \ c[3] \in SUBSET Account
  OBVIOUS
<1>2. /\ IsFiniteSet(Account \ c[3]) /\ Cardinality(Account) \in Nat
      /\ Cardinality(Account \ c[3]) <= Cardinality(Account)
  BY <1>1, FS_Subset, FS_CardinalityType
<1>3. Cardinality(Account \ c[3]) \in Nat
  BY <1>2, FS_CardinalityType
<1> QED
  BY <1>2, <1>3 DEF Left

\* Right(f, s, k): f solves the equation where fewer than k people are left to see.
Right(f, s, k) == \A c \in Calls(s) : Left(c) < k => f[c] = Call(f, s, c)

LEMMA PlaceExists ==
    ASSUME IsFiniteSet(Account), active \subseteq Account, NEW s, IsList(s)
    PROVE  \E f \in Growing(s) : Solves(f, s)
<1> DEFINE n == Cardinality(Account) + 1
           S == {k \in 0..n : \E f \in Growing(s) : Right(f, s, k)}
<1>1. n \in Nat /\ \A c \in Calls(s) : Left(c) \in Nat /\ Left(c) < n
  BY LeftBound, FS_CardinalityType
<1> HIDE DEF n
<1>2. 0 \in S
  <2> DEFINE f == [c \in Calls(s) |-> [ok |-> FALSE, assigned |-> c[2], seen |-> c[3]]]
  <2>1. ASSUME NEW c \in Calls(s)
        PROVE  f[c] \in Outcomes(s) /\ c[3] \subseteq f[c].seen
    BY DEF Calls, Outcomes
  <2>2. f \in [Calls(s) -> Outcomes(s)]
    BY <2>1
  <2> HIDE DEF f
  <2>3. f \in Growing(s)
    BY <2>1, <2>2 DEF Growing
  <2>4. Right(f, s, 0)
    BY <1>1 DEF Right
  <2> QED
    BY <1>1, <2>3, <2>4
<1>3. ASSUME NEW k \in 1..n, k - 1 \in S PROVE k \in S
  <2>1. PICK f \in Growing(s) : Right(f, s, k - 1)
    BY <1>3
  <2> DEFINE g == [c \in Calls(s) |-> Call(f, s, c)]
  <2>2. ASSUME NEW c \in Calls(s) PROVE g[c] = Call(f, s, c)
    OBVIOUS
  <2>3. ASSUME NEW c \in Calls(s) PROVE g[c] \in Outcomes(s) /\ c[3] \subseteq g[c].seen
    BY <2>2, CallGrows
  <2>4. g \in [Calls(s) -> Outcomes(s)]
    BY <2>3
  <2> HIDE DEF g
  <2>5. g \in Growing(s)
    BY <2>3, <2>4 DEF Growing
  <2>6. ASSUME NEW c \in Calls(s), Left(c) < k PROVE g[c] = Call(g, s, c)
    <3>1. ASSUME NEW d \in Calls(s), Left(d) < Left(c) PROVE g[d] = f[d]
      <4>1. Left(d) < k - 1
        BY <1>1, <2>6, <3>1
      <4> QED
        BY <2>1, <2>2, <4>1 DEF Right
    <3>2. Call(g, s, c) = Call(f, s, c)
      BY <3>1, CallAgrees
    <3> QED
      BY <2>2, <3>2
  <2>7. Right(g, s, k)
    BY <2>6 DEF Right
  <2> QED
    BY <1>1, <2>5, <2>7
<1> HIDE DEF S
<1>4. n \in S
  BY <1>1, <1>2, <1>3, Climb
<1>5. PICK f \in Growing(s) : Right(f, s, n)
  BY <1>4 DEF S
<1>6. \A c \in Calls(s) : f[c] = Call(f, s, c)
  BY <1>1, <1>5 DEF Right
<1>7. Solves(f, s)
  BY <1>6 DEF Growing, Solves
<1> QED
  BY <1>7

LEMMA PlaceUnique ==
    ASSUME IsFiniteSet(Account), active \subseteq Account, NEW s, IsList(s),
           NEW f \in Growing(s), Solves(f, s), NEW g, Solves(g, s)
    PROVE  g = f
<1> DEFINE n == Cardinality(Account) + 1
           S == {k \in 0..n : \A c \in Calls(s) : Left(c) < k => g[c] = f[c]}
<1>1. n \in Nat /\ \A c \in Calls(s) : Left(c) \in Nat /\ Left(c) < n
  BY LeftBound, FS_CardinalityType
<1> HIDE DEF n
<1>2. \A c \in Calls(s) : g[c] = Call(g, s, c) /\ f[c] = Call(f, s, c)
  BY DEF Solves
<1>3. 0 \in S
  BY <1>1
<1>4. ASSUME NEW k \in 1..n, k - 1 \in S PROVE k \in S
  <2>1. ASSUME NEW c \in Calls(s), Left(c) < k PROVE g[c] = f[c]
    <3>1. ASSUME NEW d \in Calls(s), Left(d) < Left(c) PROVE g[d] = f[d]
      <4>1. Left(d) < k - 1
        BY <1>1, <2>1, <3>1
      <4> QED
        BY <1>4, <4>1
    <3> QED
      BY <1>2, <3>1, CallAgrees
  <2> QED
    BY <1>1, <2>1
<1> HIDE DEF S
<1>5. n \in S
  BY <1>1, <1>3, <1>4, Climb
<1>6. \A c \in Calls(s) : g[c] = f[c]
  BY <1>1, <1>5 DEF S
<1>7. g = [c \in Calls(s) |-> g[c]] /\ f = [c \in Calls(s) |-> f[c]]
  BY DEF Solves
<1> QED
  BY <1>6, <1>7

LEMMA PlaceSolves ==
    ASSUME IsFiniteSet(Account), active \subseteq Account, NEW s, IsList(s)
    PROVE  Place(s) \in Growing(s) /\ Solves(Place(s), s)
<1>1. PICK f \in Growing(s) : Solves(f, s)
  BY PlaceExists
<1>2. Solves(Place(s), s)
  BY <1>1, PlaceIs
<1> QED
  BY <1>1, <1>2, PlaceUnique

\* Whoever is assigned a stage may decide it.
Sound(s, a) == \A p \in Account : a[p] # 0 => p \in Able(s, a[p])

\* What place promises: nothing changes unless it succeeds, nobody already seen is moved,
\* and on success the stage and every stage held before are held.
Fine(s, c, o) ==
    /\ Sound(s, o.assigned)
    /\ ~ o.ok => o.assigned = c[2]
    /\ \A p \in c[3] : o.assigned[p] = c[2][p]
    /\ o.ok => /\ \E q \in Account \ c[3] : o.assigned[q] = c[1]
               /\ \A p \in Account \ c[3] :
                    c[2][p] # 0 => \E q \in Account \ c[3] : o.assigned[q] = c[2][p]

LEMMA CallFine ==
    ASSUME IsFiniteSet(Account), active \subseteq Account, NEW s, IsList(s),
           NEW f \in Growing(s), NEW c \in Calls(s), Sound(s, c[2]),
           \A d \in Calls(s) : Left(d) < Left(c) /\ Sound(s, d[2]) => Fine(s, d, f[d])
    PROVE  Fine(s, c, Call(f, s, c))
<1>1. CASE Fresh(s, c) = {}
  <2>1. Call(f, s, c) = [ok |-> FALSE, assigned |-> c[2], seen |-> c[3]]
    BY <1>1 DEF Call
  <2> QED
    BY <2>1 DEF Fine
<1>2. CASE Fresh(s, c) # {}
  <2>1. PICK m, q, r, d : /\ m = Moved(f, s, c) /\ q = Tried(s, c)
                          /\ r = Retry(f, s, c) /\ d = Displace(s, c)
    OBVIOUS
  <2>2. /\ q \in Able(s, c[1]) /\ q \in Account /\ q \notin c[3]
        /\ m \in Outcomes(s) /\ c[3] \cup {q} \subseteq m.seen
        /\ c[2][q] # 0 => d \in Calls(s) /\ Left(d) < Left(c)
        /\ r \in Calls(s) /\ Left(r) < Left(c)
    BY <1>2, <2>1, CallsDown
  <2>3. /\ d = <<c[2][q], c[2], c[3] \cup {q}>>
        /\ r = <<c[1], m.assigned, m.seen>>
        /\ m = IF c[2][q] = 0 THEN [ok |-> TRUE, assigned |-> c[2], seen |-> c[3] \cup {q}]
               ELSE f[d]
    BY <2>1 DEF Displace, Retry, Moved
  <2>4. Call(f, s, c) = IF m.ok THEN [m EXCEPT !.assigned[q] = c[1]] ELSE f[r]
    BY <1>2, <2>1 DEF Call
  <2>5. c[1] # 0 /\ c[3] \subseteq Account /\ c[2] \in Slots(s) /\ Len(s) \in Nat
    BY DEF Calls, IsList
  <2>6. c[2][q] # 0 => Fine(s, d, m)
    BY <2>2, <2>3
  \* Without the person tried, the others hold what they held, and theirs too.
  <2>7. /\ Sound(s, m.assigned)
        /\ ~ m.ok => m.assigned = c[2]
        /\ \A p \in c[3] : m.assigned[p] = c[2][p]
        /\ m.ok => \A p \in Account \ c[3] : c[2][p] # 0 /\ (p = q => c[2][q] # 0) =>
                     \E x \in Account \ (c[3] \cup {q}) : m.assigned[x] = c[2][p]
    <3>1. CASE c[2][q] = 0
      <4>1. m.assigned = c[2] /\ m.ok
        BY <2>3, <3>1
      <4>2. ASSUME NEW p \in Account \ c[3], c[2][p] # 0
            PROVE  p \in Account \ (c[3] \cup {q}) /\ m.assigned[p] = c[2][p]
        BY <3>1, <4>1, <4>2
      <4> QED
        BY <4>1, <4>2
    <3>2. CASE c[2][q] # 0
      <4>1. d[1] = c[2][q] /\ d[2] = c[2] /\ d[3] = c[3] \cup {q}
        BY <2>3
      <4>2. /\ Sound(s, m.assigned)
            /\ ~ m.ok => m.assigned = c[2]
            /\ \A p \in c[3] \cup {q} : m.assigned[p] = c[2][p]
            /\ m.ok => /\ \E x \in Account \ (c[3] \cup {q}) : m.assigned[x] = c[2][q]
                       /\ \A p \in Account \ (c[3] \cup {q}) :
                            c[2][p] # 0 => \E x \in Account \ (c[3] \cup {q}) : m.assigned[x] = c[2][p]
        BY <2>6, <3>2, <4>1 DEF Fine
      <4> QED
        BY <4>2
    <3> QED
      BY <3>1, <3>2
  <2>8. CASE m.ok
    <3>1. PICK o : o = [m EXCEPT !.assigned[q] = c[1]]
      OBVIOUS
    <3>2. /\ o.ok /\ o.assigned[q] = c[1]
          /\ \A p \in Account : p # q => o.assigned[p] = m.assigned[p]
      BY <2>2, <2>8, <3>1 DEF Outcomes, Slots
    <3>3. Sound(s, o.assigned)
      BY <2>2, <2>7, <3>2 DEF Sound
    <3>4. \A p \in c[3] : o.assigned[p] = c[2][p]
      BY <2>2, <2>5, <2>7, <3>2
    <3>5. q \in Account \ c[3] /\ o.assigned[q] = c[1]
      BY <2>2, <3>2
    <3>6. ASSUME NEW p \in Account \ c[3], c[2][p] # 0
          PROVE  \E x \in Account \ c[3] : o.assigned[x] = c[2][p]
      <4>1. PICK x \in Account \ (c[3] \cup {q}) : m.assigned[x] = c[2][p]
        BY <2>7, <2>8, <3>6
      <4> QED
        BY <3>2, <4>1
    <3> QED
      BY <2>4, <2>8, <3>1, <3>2, <3>3, <3>4, <3>5, <3>6 DEF Fine
  <2>9. CASE ~ m.ok
    <3>1. r[1] = c[1] /\ r[2] = c[2] /\ r[3] = m.seen /\ c[3] \subseteq m.seen /\ m.seen \subseteq Account
      BY <2>2, <2>3, <2>7, <2>9 DEF Outcomes
    <3>2. PICK o : o = f[r]
      OBVIOUS
    <3>3. /\ Sound(s, o.assigned)
          /\ ~ o.ok => o.assigned = c[2]
          /\ \A p \in m.seen : o.assigned[p] = c[2][p]
          /\ o.ok => /\ \E x \in Account \ m.seen : o.assigned[x] = c[1]
                     /\ \A p \in Account \ m.seen :
                          c[2][p] # 0 => \E x \in Account \ m.seen : o.assigned[x] = c[2][p]
      <4>1. Fine(s, r, o)
        BY <2>2, <3>1, <3>2
      <4> QED
        BY <3>1, <4>1 DEF Fine
    <3>4. ASSUME NEW p \in Account \ c[3], c[2][p] # 0, o.ok
          PROVE  \E x \in Account \ c[3] : o.assigned[x] = c[2][p]
      BY <3>1, <3>3, <3>4
    <3>5. o.ok => \E x \in Account \ c[3] : o.assigned[x] = c[1]
      BY <3>1, <3>3
    <3>6. \A p \in c[3] : o.assigned[p] = c[2][p]
      BY <3>1, <3>3
    <3> QED
      BY <2>4, <2>9, <3>2, <3>3, <3>4, <3>5, <3>6 DEF Fine
  <2> QED
    BY <2>8, <2>9
<1> QED
  BY <1>1, <1>2

LEMMA PlaceFine ==
    ASSUME IsFiniteSet(Account), active \subseteq Account, NEW s, IsList(s),
           NEW c \in Calls(s), Sound(s, c[2])
    PROVE  Fine(s, c, Place(s)[c])
<1>0. PICK f : f = Place(s)
  OBVIOUS
<1> DEFINE n == Cardinality(Account) + 1
           S == {k \in 0..n : \A d \in Calls(s) :
                   Left(d) < k /\ Sound(s, d[2]) => Fine(s, d, f[d])}
<1>1. n \in Nat /\ \A d \in Calls(s) : Left(d) \in Nat /\ Left(d) < n
  BY LeftBound, FS_CardinalityType
<1> HIDE DEF n
<1>2. f \in Growing(s) /\ \A d \in Calls(s) : f[d] = Call(f, s, d)
  BY <1>0, PlaceSolves DEF Solves
<1>3. 0 \in S
  BY <1>1
<1>4. ASSUME NEW k \in 1..n, k - 1 \in S PROVE k \in S
  <2>1. ASSUME NEW d \in Calls(s), Left(d) < k, Sound(s, d[2]) PROVE Fine(s, d, f[d])
    <3>1. ASSUME NEW e \in Calls(s), Left(e) < Left(d), Sound(s, e[2]) PROVE Fine(s, e, f[e])
      <4>1. Left(e) < k - 1
        BY <1>1, <2>1, <3>1
      <4> QED
        BY <1>4, <3>1, <4>1
    <3> QED
      BY <1>2, <2>1, <3>1, CallFine
  <2> QED
    BY <1>1, <2>1
<1> HIDE DEF S
<1>5. n \in S
  BY <1>1, <1>3, <1>4, Climb
<1> QED
  BY <1>0, <1>1, <1>5 DEF S

\* The stages placed one after another, with h for the turns before.
Turn(h, s, k) ==
    IF k = 0 THEN [ok |-> TRUE, assigned |-> [p \in Account |-> 0], seen |-> {}]
    ELSE IF h[k - 1].ok THEN Place(s)[<<k, h[k - 1].assigned, {}>>]
    ELSE h[k - 1]

Turns(h, s) == h = [k \in 0..Len(s) |-> Turn(h, s, k)]

LEMMA CanStaffIs == \A s : CanStaff(s) = (CHOOSE h : Turns(h, s))[Len(s)].ok
  BY Zenon DEF CanStaff, Turns, Turn

LEMMA TurnsExist ==
    ASSUME NEW s, NEW n \in Nat, n = Len(s)
    PROVE  \E h : Turns(h, s)
<1> DEFINE Upto(h, m) == h = [k \in 0..n |-> h[k]] /\ \A k \in 0..m : h[k] = Turn(h, s, k)
           S == {m \in 0..n : \E h : Upto(h, m)}
<1>1. 0 \in S
  <2> DEFINE h == [k \in 0..n |-> Turn(<<>>, s, 0)]
  <2>1. h = [k \in 0..n |-> h[k]] /\ h[0] = Turn(h, s, 0)
    BY DEF Turn
  <2> HIDE DEF h
  <2>2. Upto(h, 0)
    BY <2>1
  <2> QED
    BY <2>2
<1>2. ASSUME NEW m \in 1..n, m - 1 \in S PROVE m \in S
  <2>1. PICK h : Upto(h, m - 1)
    BY <1>2
  <2> DEFINE j == [k \in 0..n |-> IF k = m THEN Turn(h, s, m) ELSE h[k]]
  <2>2. j = [k \in 0..n |-> j[k]] /\ j[m] = Turn(h, s, m) /\ \A k \in 0..n : k # m => j[k] = h[k]
    OBVIOUS
  <2> HIDE DEF j
  <2>3. ASSUME NEW k \in 0..m PROVE j[k] = Turn(j, s, k)
    <3>1. k # 0 => k - 1 \in 0..n /\ k - 1 # m
      OBVIOUS
    <3>2. k # 0 => j[k - 1] = h[k - 1]
      BY <2>2, <3>1
    <3>3. Turn(j, s, k) = Turn(h, s, k)
      BY <3>2 DEF Turn
    <3>4. CASE k = m
      BY <2>2, <3>3, <3>4
    <3>5. CASE k # m
      <4>1. k \in 0..(m - 1) /\ k \in 0..n
        BY <3>5
      <4> QED
        BY <2>1, <2>2, <3>3, <3>5, <4>1
    <3> QED
      BY <3>4, <3>5
  <2>4. Upto(j, m)
    BY <2>2, <2>3
  <2> HIDE DEF Upto
  <2> QED
    BY <2>4
<1> HIDE DEF S
<1>3. n \in S
  <2>1. \A m \in 1..n : m - 1 \in S => m \in S
    BY <1>2
  <2>2. \A m \in 0..n : m \in S
    BY <1>1, <2>1, Climb
  <2> QED
    BY <2>2
<1>4. PICK h : Upto(h, n)
  BY <1>3 DEF S
<1>5. h = [k \in 0..n |-> h[k]] /\ \A k \in 0..n : h[k] = Turn(h, s, k)
  BY <1>4
<1>6. h = [k \in 0..n |-> Turn(h, s, k)]
  BY <1>5
<1>7. Turns(h, s)
  BY <1>6, Zenon DEF Turns
<1> QED
  BY <1>7

\* Whoever the stages go to when they can be staffed: one person each, who may decide it.
Staffs(f, s) ==
    /\ f \in [DOMAIN s -> active]
    /\ \A i, j \in DOMAIN s : f[i] = f[j] => i = j
    /\ \A i \in DOMAIN s : f[i] \in Able(s, i)

LEMMA StaffedSoundly ==
    ASSUME IsFiniteSet(Account), active \subseteq Account, NEW s, IsList(s), CanStaff(s)
    PROVE  \E f : Staffs(f, s)
<1>0. PICK n \in Nat : n = Len(s) /\ DOMAIN s = 1..n
  BY DEF IsList
<1>1. PICK h : h = [k \in 0..n |-> Turn(h, s, k)] /\ h[n].ok
  <2>1. PICK h : h = CHOOSE g : Turns(g, s)
    OBVIOUS
  <2>2. Turns(h, s)
    BY <1>0, <2>1, TurnsExist
  <2>3. h = [k \in 0..n |-> Turn(h, s, k)]
    BY <1>0, <2>2, Zenon DEF Turns
  <2>4. h[n].ok
    BY <1>0, <2>1, CanStaffIs, Zenon
  <2> QED
    BY <2>3, <2>4
<1>2. \A k \in 0..n : h[k] = Turn(h, s, k)
  BY <1>1
<1> DEFINE Holds(a, k) == \A i \in 1..k : \E p \in Account : a[p] = i
           Good(k) == /\ h[k] \in Outcomes(s) /\ Sound(s, h[k].assigned)
                      /\ h[k].ok => Holds(h[k].assigned, k)
           S == {k \in 0..n : Good(k)}
<1>3. 0 \in S
  <2>1. h[0] = [ok |-> TRUE, assigned |-> [p \in Account |-> 0], seen |-> {}]
    <3>1. h[0] = Turn(h, s, 0)
      BY <1>2
    <3> QED
      BY <3>1, Zenon DEF Turn
  <2>2. h[0] \in Outcomes(s) /\ Sound(s, h[0].assigned) /\ Holds(h[0].assigned, 0)
    BY <1>0, <2>1 DEF Outcomes, Slots, Sound
  <2> QED
    BY <2>2
<1>4. ASSUME NEW k \in 1..n, k - 1 \in S PROVE k \in S
  <2>1. Good(k - 1)
    BY <1>4
  <2>2. k \in 0..n /\ k # 0
    OBVIOUS
  <2>3. CASE ~ h[k - 1].ok
    <3>1. h[k] = h[k - 1]
      BY <1>2, <2>2, <2>3 DEF Turn
    <3>2. Good(k)
      BY <2>1, <2>3, <3>1
    <3> QED
      BY <2>2, <3>2
  <2>4. CASE h[k - 1].ok
    <3>1. PICK a, c : a = h[k - 1].assigned /\ c = <<k, a, {}>>
      OBVIOUS
    <3>2. h[k] = Place(s)[c]
      BY <1>2, <2>2, <2>4, <3>1 DEF Turn
    <3>3. a \in Slots(s) /\ Sound(s, a) /\ Holds(a, k - 1)
      BY <2>1, <2>4, <3>1 DEF Outcomes
    <3>4. c \in Calls(s) /\ c[1] = k /\ c[2] = a /\ c[3] = {}
      BY <1>0, <3>1, <3>3 DEF Calls
    <3>5. Fine(s, c, h[k])
      BY <3>2, <3>3, <3>4, PlaceFine
    <3>6. h[k] \in Outcomes(s)
      BY <3>2, <3>4, PlaceSolves DEF Growing
    <3>7. ASSUME h[k].ok, NEW i \in 1..k PROVE \E p \in Account : h[k].assigned[p] = i
      <4>1. CASE i = k
        BY <3>4, <3>5, <3>7, <4>1 DEF Fine
      <4>2. CASE i # k
        <5>1. i \in 1..(k - 1) /\ i # 0
          BY <4>2
        <5>2. PICK p \in Account : a[p] = i
          BY <3>3, <5>1
        <5> QED
          BY <3>4, <3>5, <3>7, <5>1, <5>2 DEF Fine
      <4> QED
        BY <4>1, <4>2
    <3>8. Good(k)
      BY <3>5, <3>6, <3>7 DEF Fine
    <3> QED
      BY <2>2, <3>8
  <2> QED
    BY <2>3, <2>4
<1> HIDE DEF S
<1>5. n \in S
  BY <1>3, <1>4, Climb
<1>6. PICK a : a = h[n].assigned
  OBVIOUS
<1>7. Sound(s, a) /\ \A i \in 1..n : \E p \in Account : a[p] = i
  BY <1>1, <1>5, <1>6 DEF S
<1> DEFINE f == [i \in 1..n |-> CHOOSE p \in Account : a[p] = i]
<1>8. ASSUME NEW i \in 1..n PROVE f[i] \in Account /\ a[f[i]] = i
  BY <1>7
<1>9. f = [i \in 1..n |-> f[i]]
  OBVIOUS
<1> HIDE DEF f
<1>10. ASSUME NEW i \in 1..n PROVE f[i] \in Able(s, i) /\ f[i] \in active
  <2>1. f[i] \in Able(s, i)
    BY <1>7, <1>8 DEF Sound
  <2> QED
    BY <2>1, AbleAre
<1>11. Staffs(f, s)
  BY <1>0, <1>8, <1>9, <1>10 DEF Staffs
<1> QED
  BY <1>11

-----------------------------------------------------------------------------
(* What a version put in force asks for.                                    *)

Subject == Tier \cup {"vendors"}

LEMMA SectionsAre ==
    ASSUME NEW b
    PROVE  /\ DOMAIN StageSections(b) = Subject
           /\ \A s \in Tier : StageSections(b)[s] = TierEntry(b, s).stages
           /\ StageSections(b)["vendors"] = VendorEntry(b).stages
<1>1. "vendors" \notin Tier
  BY DEF Tier
<1> QED
  BY <1>1 DEF StageSections, Subject

\* The stages asked for are those of the document in force.
AsksRuling ==
    \A s \in Subject : AskedFor(s) = StageSections(Ruling(Len(reign)))[s]

LEMMA RulingIsAskedFor ==
    ASSUME EngineInv
    PROVE  AsksRuling
<1>1. PICK v : v = InForce
  OBVIOUS
<1>2. PICK b : b = BodyOf(v)
  OBVIOUS
<1>3. Ruling(Len(reign)) = b /\ GoodBody(b)
  <2>1. Len(reign) \in 0..Len(reign)
    BY Seqs DEF EngineInv
  <2> QED
    BY <1>1, <1>2, <2>1, InForceIs, ReignedGood DEF Ruling
<1>4. /\ \A t \in Tier : ResolveTierPolicy(v, t).entry = TierEntry(b, t)
      /\ ResolveVendorPolicy(v).entry = VendorEntry(b)
  BY <1>2, <1>3, ResolvedEntries
<1>5. "vendors" \notin Tier
  BY DEF Tier
<1>6. ASSUME NEW s \in Subject PROVE AskedFor(s) = StageSections(b)[s]
  BY <1>1, <1>4, <1>5, SectionsAre DEF AskedFor, Subject
<1> QED
  BY <1>3, <1>6 DEF AsksRuling

LEMMA SectionsList ==
    ASSUME NEW b, GoodBody(b), NEW s \in Subject
    PROVE  IsList(StageSections(b)[s])
  BY SectionsAre DEF GoodBody, GoodList, Subject

\* One person for every stage.
LEMMA StaffedList ==
    ASSUME EngineConstants, EngineTypeOK, NEW s, IsList(s), CanStaff(s)
    PROVE  \E f \in Injection(DOMAIN s, active) :
             \A i \in DOMAIN s :
               \E r \in holds[f[i]] : r = s[i] \/ grants[s[i]] \subseteq grants[r]
<1>1. IsFiniteSet(Account) /\ active \subseteq Account
  BY DEF EngineConstants, EngineTypeOK
<1>2. PICK f : Staffs(f, s)
  BY <1>1, StaffedSoundly
<1>3. f \in Injection(DOMAIN s, active)
  BY <1>2 DEF Staffs, Injection, IsInjective
<1>4. ASSUME NEW i \in DOMAIN s
      PROVE  \E r \in holds[f[i]] : r = s[i] \/ grants[s[i]] \subseteq grants[r]
  BY <1>2 DEF Staffs, Able, EligibleDeciders
<1> QED
  BY <1>3, <1>4

LEMMA ActivatedRules ==
    ASSUME EngineInv, NEW p \in Account, NEW v \in DOMAIN versions, ActivatePolicy(p, v)
    PROVE  Ruling(Len(reign))' = versions[v].body
<1>0. PICK n \in Nat : n = Len(reign)
  BY Seqs DEF EngineInv
<1>1. /\ versions \in Seq(VersionRow) /\ DOMAIN versions = 1..Len(versions)
      /\ Len(versions) \in Nat /\ \A w \in DOMAIN versions : versions[w] \in VersionRow
  BY Seqs DEF EngineInv
<1>2. reign' = Append(reign, [version |-> v, actor |-> p])
  BY DEF ActivatePolicy
<1>3. Len(reign') = n + 1 /\ reign'[n + 1].version = v
  <2> DEFINE R == [version : DOMAIN versions, actor : Account]
             new == [version |-> v, actor |-> p]
  <2>1. reign \in Seq(R) /\ new \in R /\ new.version = v
    BY DEF EngineInv, EngineTypeOK
  <2> HIDE DEF R, new
  <2>2. reign' = Append(reign, new)
    BY <1>2 DEF new
  <2> QED
    BY <1>0, <2>1, <2>2, AppendProperties
<1>4. versions'[v].body = versions[v].body
  <2>1. versions'[v] = [versions[v] EXCEPT !.status = "active"]
    BY DEF ActivatePolicy
  <2> QED
    BY <1>1, <2>1 DEF VersionRow
<1>5. Reigned(Len(reign))' = v
  BY <1>0, <1>3 DEF Reigned
<1>6. v # 0
  BY <1>1
<1> QED
  BY <1>4, <1>5, <1>6 DEF Ruling, BodyOf

\* Staffed(s): the stages s are asked of the people of this moment, one each.
Staffed(s) ==
    \E f \in Injection(DOMAIN s, active) :
       \A i \in DOMAIN s : \E r \in holds[f[i]] : r = s[i] \/ grants[s[i]] \subseteq grants[r]

LEMMA ActivationStaffs ==
    ASSUME EngineConstants, EngineInv, AsksRuling, AsksRuling',
           NEW p \in Account, NEW v \in DOMAIN versions, ActivatePolicy(p, v),
           NEW s \in Subject
    PROVE  AskedFor(s)' = AskedFor(s) \/ Staffed(AskedFor(s)')
<1>1. PICK old, new : old = Ruling(Len(reign)) /\ new = versions[v].body
  OBVIOUS
<1>2. GoodBody(new)
  BY <1>1 DEF EngineInv, GoodVersions
<1>3. UnstaffedStageChanges(old, new) = {}
  <2>1. BodyOf(InForce) = old
    BY <1>1, InForceIs DEF Ruling
  <2> QED
    BY <1>1, <2>1 DEF ActivatePolicy, ActivationAllowed
<1>4. PICK stages : stages = StageSections(new)[s]
  OBVIOUS
<1>5. AskedFor(s) = StageSections(old)[s]
  BY <1>1 DEF AsksRuling
<1>6. AskedFor(s)' = stages
  <2>1. AskedFor(s)' = StageSections(Ruling(Len(reign))')[s]
    BY DEF AsksRuling
  <2> QED
    BY <1>1, <1>4, <2>1, ActivatedRules
<1>7. stages = StageSections(old)[s] \/ CanStaff(stages)
  BY <1>3, <1>4, SectionsAre DEF UnstaffedStageChanges
<1>8. CanStaff(stages) => Staffed(stages)
  BY <1>2, <1>4, SectionsList, StaffedList DEF EngineInv, Staffed
<1> QED
  BY <1>5, <1>6, <1>7, <1>8

\* For every set of documents, people and roles: a version put in force asks, wherever
\* it changes what was asked for, for stages the people of that moment can decide, one
\* person per stage (activate_policy, unstaffed_stage_changes, _can_staff).
THEOREM PolicyInForceIsStaffed == EngineSpec => StaffedWhenPutInForce
<1> EngineConstants
  BY EngineAssumption
<1> DEFINE A == reign' # reign => ChangesAreStaffed
<1>1. EngineInit => EngineInv
  BY EngineStarts
<1>2. EngineInv /\ [EngineNext]_engineVars => EngineInv'
  BY EngineStep
<1>3. EngineInv => AsksRuling
  BY RulingIsAskedFor
<1>4. EngineInv /\ AsksRuling /\ AsksRuling' /\ [EngineNext]_engineVars => [A]_engineVars
  <2> SUFFICES ASSUME EngineInv, AsksRuling, AsksRuling', [EngineNext]_engineVars,
                      reign' # reign
               PROVE  A
    OBVIOUS
  <2>1. PICK p \in Account, v \in DOMAIN versions : ActivatePolicy(p, v)
    BY DEF EngineNext, engineVars, DraftPolicy, UpdateRolePermission,
           ChangeOrgRoleAssignment, UpdateOrgUserStatus
  <2>2. ASSUME NEW s \in Subject
        PROVE  AskedFor(s)' = AskedFor(s) \/ Staffed(AskedFor(s)')
    BY <2>1, ActivationStaffs
  <2> QED
    BY <2>2, Zenon DEF Subject, Staffed, ChangesAreStaffed
<1> QED
  BY <1>1, <1>2, <1>3, <1>4, PTL DEF EngineSpec, StaffedWhenPutInForce

=============================================================================
