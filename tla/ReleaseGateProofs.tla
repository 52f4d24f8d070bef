------------------------- MODULE ReleaseGateProofs -------------------------
(***************************************************************************)
(* Proofs about the release gate, for every number of folds, checks,       *)
(* events and findings.                                                    *)
(***************************************************************************)
EXTENDS ReleaseGate, FiniteSetTheorems, TLAPS

USE ConstantsAssumption

\* The risks of a set of events are what some event of it raises.
LEMMA RisksOfDef ==
    ASSUME NEW E \in SUBSET Event
    PROVE  /\ RisksOf(E) \subseteq Risk
           /\ \A f \in Risk : f \in RisksOf(E) <=> \E e \in E : f \in Raises[e]
BY DEF RisksOf

\* A fold that assesses its rows gives every finding a status of its table.
LEMMA AssessedStatusType ==
    ASSUME NEW B \in SUBSET Event, NEW E \in SUBSET Event,
           NEW s \in [Finding -> Status]
    PROVE  AssessedStatus(B, E, s) \in [Finding -> Status]
BY DEF AssessedStatus, Recomputed, Status

\* expire_due_exceptions leaves statuses of the tables behind.
LEMMA ExpiredType ==
    ASSUME TypeOK
    PROVE  /\ ExpiredStatus \in [Finding -> Status]
           /\ ExpiredWaiver \in [Finding -> {"none", "active", "lapsed", "expired"}]
BY DEF TypeOK, ExpiredStatus, ExpiredWaiver, Status

\* What the first write of fold_batch_assessments may be over: at most the
\* status of one finding that it writes, read earlier.
LEMMA FirstWritesDef ==
    ASSUME TypeOK, NEW w \in Folder, NEW first \in FirstWrites(w)
    PROVE  /\ first.events \in SUBSET stored
           /\ rows[w] \subseteq stored
           /\ first.events = stored \/ first.events = seenEvents[w]
           /\ \A f \in first.stale :
                \/ f \in Risk /\ f \in RisksOf(first.events)
                \/ f \in Control /\ seen[w][f] = "none"
<1> DEFINE evident == ControlsOf(rows[w])
           unwritten == {f \in Control \ evident : seen[w][f] = "none"}
<1>1. seenEvents[w] \in SUBSET stored /\ rows[w] \subseteq stored /\ stored \subseteq Event
  BY DEF TypeOK
<1>2. CASE \E f \in unwritten : first = [stale |-> {f}, events |-> stored]
  BY <1>1, <1>2
<1>3. CASE first = [stale |-> {}, events |-> stored]
  BY <1>1, <1>3
<1>4. CASE first = [stale |-> {}, events |-> seenEvents[w]]
  BY <1>1, <1>4
<1>5. CASE \E f \in RisksOf(seenEvents[w]) :
             first = [stale |-> {f}, events |-> seenEvents[w]]
  <2>1. RisksOf(seenEvents[w]) \subseteq Risk
    BY <1>1, RisksOfDef
  <2> QED
    BY <1>1, <1>5, <2>1
<1> HIDE DEF evident, unwritten
<1>6. \/ \E f \in unwritten : first = [stale |-> {f}, events |-> stored]
      \/ first = [stale |-> {}, events |-> stored]
      \/ first = [stale |-> {}, events |-> seenEvents[w]]
      \/ \E f \in RisksOf(seenEvents[w]) :
             first = [stale |-> {f}, events |-> seenEvents[w]]
  BY DEF FirstWrites, evident, unwritten
<1> QED
  BY <1>2, <1>3, <1>4, <1>5, <1>6

-----------------------------------------------------------------------------

\* A fresh installation is well-typed.
LEMMA TypeInit == Init => TypeOK
<1> SUFFICES ASSUME Init
             PROVE  TypeOK
  OBVIOUS
<1> USE DEF Init
<1>1. status \in [Finding -> Status] /\ gate \in GateStatus
  BY DEF Status, GateStatus
<1>2. seen \in [Folder -> [Assessed -> Status]] /\ seenGate \in [Folder -> GateStatus]
  BY DEF Status, GateStatus, NothingSeen
<1> QED
  BY <1>1, <1>2 DEF TypeOK

\* Every step of a fold, a person, the clock and a check keeps the types.
LEMMA TypeStep == TypeOK /\ [Next]_vars => TypeOK'
<1> SUFFICES ASSUME TypeOK, [Next]_vars
             PROVE  TypeOK'
  OBVIOUS
<1> USE DEF TypeOK, fold_vars, check_vars, ledger_vars, review_vars, NothingSeen
<1>1. ASSUME NEW e \in Event, Ingest(e)
      PROVE  TypeOK'
  BY <1>1 DEF Ingest
<1>2. ASSUME NEW w \in Folder, Claim(w)
      PROVE  TypeOK'
  BY <1>2 DEF Claim
<1>3. ASSUME NEW w \in Folder, Project(w)
      PROVE  TypeOK'
  BY <1>3 DEF Project
<1>4. ASSUME NEW w \in Folder, Fingerprint(w)
      PROVE  TypeOK'
  BY <1>4, ExpiredType DEF Fingerprint, Status
<1>5. ASSUME NEW w \in Folder, AssessRead(w)
      PROVE  TypeOK'
  BY <1>5 DEF AssessRead, Assessed, Finding
<1>6. ASSUME NEW w \in Folder, AssessWrite(w)
      PROVE  TypeOK'
  <2>1. PICK first \in FirstWrites(w) :
          status' = AssessedStatus(rows[w], first.events,
            [f \in Finding |-> IF f \in first.stale THEN seen[w][f] ELSE status[f]])
    BY <1>6 DEF AssessWrite
  <2>2. /\ first.events \in SUBSET Event /\ rows[w] \in SUBSET Event
        /\ \A f \in first.stale : f \in Assessed
    BY FirstWritesDef DEF Assessed
  <2>3. [f \in Finding |-> IF f \in first.stale THEN seen[w][f] ELSE status[f]]
          \in [Finding -> Status]
    BY <2>2
  <2>4. status' \in [Finding -> Status]
    BY <2>1, <2>2, <2>3, AssessedStatusType
  <2> QED
    BY <1>6, <2>4 DEF AssessWrite, Status
<1>7. ASSUME NEW w \in Folder, GateRead(w)
      PROVE  TypeOK'
  BY <1>7 DEF GateRead
<1>8. ASSUME NEW w \in Folder, GateWrite(w)
      PROVE  TypeOK'
  BY <1>8 DEF GateWrite, RefreshedGate, GateStatus
<1>9. ASSUME NEW w \in Folder, MarkFolded(w)
      PROVE  TypeOK'
  BY <1>9 DEF MarkFolded
<1>10. ASSUME NEW w \in Folder, Abandon(w)
       PROVE  TypeOK'
  BY <1>10 DEF Abandon, Status, GateStatus
<1>11. ASSUME NEW d \in Decisions, Decide(d[1], d[2])
       PROVE  TypeOK'
  <2>1. d \in Finding \X {"accepted", "mitigation_required", "waived"}
    OBVIOUS
  <2>2. d[1] \in Finding /\ d[2] \in Status
    BY <2>1 DEF Status
  <2> QED
    BY <1>11, <2>2 DEF Decide, RefreshedGate, GateStatus
<1>12. ASSUME NEW f \in Finding, CreateException(f) \/ Lapse(f)
       PROVE  TypeOK'
  <2>1. CASE CreateException(f)
    BY <2>1 DEF CreateException, Status
  <2>2. CASE Lapse(f)
    BY <2>2 DEF Lapse
  <2> QED
    BY <1>12, <2>1, <2>2
<1>13. CASE ExpireDueExceptions
  BY <1>13, ExpiredType DEF ExpireDueExceptions
<1>14. CASE Approve \/ Reject
  BY <1>14, ExpiredType DEF Approve, Reject, GateStatus
<1>15. ASSUME NEW c \in Check, CheckStep(c)
       PROVE  TypeOK'
  <2>1. CASE CheckGate(c)
    BY <2>1 DEF CheckGate
  <2>2. CASE CheckRisks(c)
    BY <2>2 DEF CheckRisks, Look
  <2>3. CASE CheckControls(c)
    BY <2>3 DEF CheckControls, CheckCount, Look
  <2>4. CASE CheckChanges(c)
    BY <2>4 DEF CheckChanges, CheckCount, Look
  <2>5. CASE CheckProof(c)
    BY <2>5 DEF CheckProof, CheckCount, Look
  <2>6. CASE CheckPending(c)
    BY <2>6 DEF CheckPending, CheckCount, Look
  <2> QED
    BY <1>15, <2>1, <2>2, <2>3, <2>4, <2>5, <2>6 DEF CheckStep
<1>16. CASE UNCHANGED vars
  BY <1>16 DEF vars
<1> QED
  BY <1>1, <1>2, <1>3, <1>4, <1>5, <1>6, <1>7, <1>8, <1>9, <1>10, <1>11, <1>12,
     <1>13, <1>14, <1>15, <1>16 DEF Next, FoldStep

\* Findings, exceptions and the gate only take statuses of their tables.
THEOREM GateTypeCorrect == Spec => []TypeOK
<1>1. Init => TypeOK
  BY TypeInit
<1>2. TypeOK /\ [Next]_vars => TypeOK'
  BY TypeStep
<1> QED
  BY <1>1, <1>2, PTL DEF Spec

-----------------------------------------------------------------------------
(***************************************************************************)
(* The inductive invariant: what folds, people and checks know of each     *)
(* other while they overlap.                                               *)
(***************************************************************************)

\* An approved gate, also one that a fold has read, and a check past its first
\* read have an approval behind them.
ApprovalInv ==
    /\ gate = "approved" => everApproved
    /\ \A w \in Folder : seenGate[w] = "approved" => everApproved
    /\ \A c \in Check : check[c] # "gate" => everApproved

\* Rows are marked folded only after their assessment committed.
AssessedInv ==
    /\ stored \ pending \subseteq assessed
    /\ \A w \in Folder :
         phase[w] \in {"gates", "gating", "mark"} => rows[w] \subseteq assessed
    /\ \A w \in Folder : phase[w] = "assessing" => rows[w] \subseteq seenEvents[w]

\* A committed projection leaves a row for everything its events raised.
RaisedInv ==
    /\ \A f \in RisksOf(assessed) : status[f] # "none"
    /\ \A f \in ChangesOf(stored \ pending) : status[f] # "none"
    /\ \A w \in Folder : \A f \in ChangesOf(rows[w]) :
         phase[w] \in {"project", "fingerprint"} \/ status[f] # "none"

\* A risk or change is cleared only by a person, also as folds have read it.
DecidedInv ==
    /\ \A f \in Risk \cup Change : status[f] \in {"none", "open"} \/ f \in touched
    /\ \A w \in Folder : \A f \in Risk :
         seen[w][f] \in {"none", "open"} \/ f \in touched

\* What a check has read so far holds for what was folded when it began.
CheckInvOf(c) ==
    /\ settled[c] \subseteq stored \ pending
    /\ check[c] \in {"controls", "changes", "proof", "pending", "eligible"} =>
         RisksOf(settled[c]) \subseteq touched
    /\ check[c] \in {"proof", "pending", "eligible"} =>
         Cardinality(ChangesOf(settled[c]) \ touched) <= MaxOpenChanges
    /\ check[c] = "eligible" => begun[c] \cap pending = {}

CheckInv == \A c \in Check : CheckInvOf(c)

GateInv ==
    TypeOK /\ ApprovalInv /\ AssessedInv /\ RaisedInv /\ DecidedInv /\ CheckInv

Growth ==
    /\ stored \subseteq stored'
    /\ stored \ pending \subseteq stored' \ pending'
    /\ assessed \subseteq assessed'
    /\ touched \subseteq touched'
    /\ everApproved => everApproved'

\* Nothing a person did, and nothing folded, is ever taken back.
LEMMA Grows ==
    ASSUME TypeOK, [Next]_vars
    PROVE  Growth
<1> USE DEF TypeOK, Growth, fold_vars, check_vars, ledger_vars, review_vars
<1>1. ASSUME NEW e \in Event, Ingest(e)
      PROVE  Growth
  BY <1>1 DEF Ingest
<1>2. ASSUME NEW w \in Folder, FoldStep(w) \/ Abandon(w)
      PROVE  Growth
  BY <1>2 DEF FoldStep, Claim, Project, Fingerprint, AssessRead, AssessWrite, GateRead,
     GateWrite, MarkFolded, Abandon
<1>3. ASSUME NEW d \in Decisions, Decide(d[1], d[2])
      PROVE  Growth
  BY <1>3 DEF Decide
<1>4. ASSUME NEW f \in Finding, CreateException(f) \/ Lapse(f)
      PROVE  Growth
  BY <1>4 DEF CreateException, Lapse
<1>5. CASE ExpireDueExceptions \/ Approve \/ Reject
  BY <1>5 DEF ExpireDueExceptions, Approve, Reject
<1>6. ASSUME NEW c \in Check, CheckStep(c)
      PROVE  Growth
  BY <1>6 DEF CheckStep, CheckGate, CheckRisks, CheckControls, CheckChanges,
     CheckProof, CheckPending, CheckCount, Look
<1>7. CASE UNCHANGED vars
  BY <1>7 DEF vars
<1> HIDE DEF TypeOK, Growth, fold_vars, check_vars, ledger_vars, review_vars
<1> QED
  BY <1>1, <1>2, <1>3, <1>4, <1>5, <1>6, <1>7 DEF Next

\* Approvals come from Approve alone: every other writer of the gate copies a
\* status it read.
LEMMA ApprovalStep == TypeOK /\ ApprovalInv /\ [Next]_vars => ApprovalInv'
<1> SUFFICES ASSUME TypeOK, ApprovalInv, [Next]_vars
             PROVE  ApprovalInv'
  OBVIOUS
<1> USE DEF TypeOK, ApprovalInv, fold_vars, check_vars, ledger_vars, review_vars
<1>1. ASSUME NEW e \in Event, Ingest(e)
      PROVE  ApprovalInv'
  BY <1>1 DEF Ingest
<1>2. ASSUME NEW w \in Folder,
             Claim(w) \/ Project(w) \/ Fingerprint(w) \/ AssessRead(w) \/ MarkFolded(w)
      PROVE  ApprovalInv'
  BY <1>2 DEF Claim, Project, Fingerprint, AssessRead, MarkFolded
<1>3. ASSUME NEW w \in Folder, AssessWrite(w)
      PROVE  ApprovalInv'
  BY <1>3 DEF AssessWrite
<1>4. ASSUME NEW w \in Folder, GateRead(w)
      PROVE  ApprovalInv'
  BY <1>4 DEF GateRead
<1>5. ASSUME NEW w \in Folder, GateWrite(w)
      PROVE  ApprovalInv'
  BY <1>5 DEF GateWrite, RefreshedGate
<1>6. ASSUME NEW w \in Folder, Abandon(w)
      PROVE  ApprovalInv'
  BY <1>6 DEF Abandon
<1>7. ASSUME NEW d \in Decisions, Decide(d[1], d[2])
      PROVE  ApprovalInv'
  BY <1>7 DEF Decide, RefreshedGate
<1>8. ASSUME NEW f \in Finding, CreateException(f) \/ Lapse(f)
      PROVE  ApprovalInv'
  BY <1>8 DEF CreateException, Lapse
<1>9. CASE ExpireDueExceptions \/ Approve \/ Reject
  BY <1>9 DEF ExpireDueExceptions, Approve, Reject
<1>10. ASSUME NEW c \in Check, CheckStep(c)
       PROVE  ApprovalInv'
  <2>1. UNCHANGED <<gate, seenGate, everApproved>>
    BY <1>10 DEF CheckStep, CheckGate, CheckRisks, CheckControls, CheckChanges,
       CheckProof, CheckPending, CheckCount, Look
  <2>2. \A d \in Check : check'[d] # "gate" => check[d] # "gate" \/ gate = "approved"
    <3>1. CASE CheckGate(c)
      BY <3>1 DEF CheckGate
    <3>2. CASE ~ CheckGate(c)
      BY <1>10, <3>2 DEF CheckStep, CheckRisks, CheckControls, CheckChanges,
         CheckProof, CheckPending, CheckCount, Look
    <3> QED
      BY <3>1, <3>2
  <2> QED
    BY <2>1, <2>2
<1>11. CASE UNCHANGED vars
  BY <1>11 DEF vars
<1> QED
  BY <1>1, <1>2, <1>3, <1>4, <1>5, <1>6, <1>7, <1>8, <1>9, <1>10, <1>11
     DEF Next, FoldStep

\* The projections of a fold run in order, so what it marks it has assessed.
LEMMA AssessedStep == TypeOK /\ AssessedInv /\ [Next]_vars => AssessedInv'
<1> SUFFICES ASSUME TypeOK, AssessedInv, [Next]_vars
             PROVE  AssessedInv'
  OBVIOUS
<1> USE DEF TypeOK, AssessedInv, fold_vars, check_vars, ledger_vars, review_vars
<1>1. ASSUME NEW e \in Event, Ingest(e)
      PROVE  AssessedInv'
  BY <1>1 DEF Ingest
<1>2. ASSUME NEW w \in Folder, Claim(w) \/ Project(w) \/ Fingerprint(w)
      PROVE  AssessedInv'
  <2>1. CASE Claim(w)
    BY <2>1 DEF Claim
  <2>2. CASE Project(w)
    BY <2>2 DEF Project
  <2>3. CASE Fingerprint(w)
    BY <2>3 DEF Fingerprint
  <2> QED
    BY <1>2, <2>1, <2>2, <2>3
<1>3. ASSUME NEW w \in Folder, AssessRead(w)
      PROVE  AssessedInv'
  BY <1>3 DEF AssessRead
<1>4. ASSUME NEW w \in Folder, AssessWrite(w)
      PROVE  AssessedInv'
  BY <1>4 DEF AssessWrite
<1>5. ASSUME NEW w \in Folder, GateRead(w) \/ GateWrite(w)
      PROVE  AssessedInv'
  <2>1. CASE GateRead(w)
    BY <2>1 DEF GateRead
  <2>2. CASE GateWrite(w)
    BY <2>2 DEF GateWrite
  <2> QED
    BY <1>5, <2>1, <2>2
<1>6. ASSUME NEW w \in Folder, MarkFolded(w) \/ Abandon(w)
      PROVE  AssessedInv'
  <2>1. CASE MarkFolded(w)
    BY <2>1 DEF MarkFolded
  <2>2. CASE Abandon(w)
    BY <2>2 DEF Abandon
  <2> QED
    BY <1>6, <2>1, <2>2
<1>7. CASE UNCHANGED <<ledger_vars, phase, rows, seenEvents>>
  BY <1>7
<1>8. ASSUME NEW d \in Decisions, Decide(d[1], d[2])
      PROVE  UNCHANGED <<ledger_vars, phase, rows, seenEvents>>
  BY <1>8 DEF Decide
<1>9. ASSUME NEW f \in Finding, CreateException(f) \/ Lapse(f)
      PROVE  UNCHANGED <<ledger_vars, phase, rows, seenEvents>>
  BY <1>9 DEF CreateException, Lapse
<1>10. ASSUME ExpireDueExceptions \/ Approve \/ Reject \/ UNCHANGED vars
       PROVE  UNCHANGED <<ledger_vars, phase, rows, seenEvents>>
  BY <1>10 DEF ExpireDueExceptions, Approve, Reject, vars
<1>11. ASSUME NEW c \in Check, CheckStep(c)
       PROVE  UNCHANGED <<ledger_vars, phase, rows, seenEvents>>
  BY <1>11 DEF CheckStep, CheckGate, CheckRisks, CheckControls, CheckChanges,
     CheckProof, CheckPending, CheckCount, Look
<1> QED
  BY <1>1, <1>2, <1>3, <1>4, <1>5, <1>6, <1>7, <1>8, <1>9, <1>10, <1>11
     DEF Next, FoldStep

\* What fold_batch_assessments does to risks and changes: the risks of the events
\* it looked at have a row, with a status it computed or read; nothing else moves.
LEMMA AssessWriteStatus ==
    ASSUME TypeOK, NEW w \in Folder, AssessWrite(w)
    PROVE  \E E \in {stored, seenEvents[w]} :
             /\ \A f \in Change : status'[f] = status[f]
             /\ \A f \in Risk \ RisksOf(E) : status'[f] = status[f]
             /\ \A f \in RisksOf(E) :
                  /\ status'[f] # "none"
                  /\ status'[f] \in {"open", status[f], seen[w][f]}
<1>1. PICK first \in FirstWrites(w) :
        status' = AssessedStatus(rows[w], first.events,
          [f \in Finding |-> IF f \in first.stale THEN seen[w][f] ELSE status[f]])
  BY DEF AssessWrite
<1> DEFINE E == first.events
           was(f) == IF f \in first.stale THEN seen[w][f] ELSE status[f]
<1>2. /\ E \in {stored, seenEvents[w]} /\ E \in SUBSET Event
      /\ rows[w] \in SUBSET Event
      /\ \A f \in first.stale : f \in RisksOf(E) \/ f \in Control
  BY FirstWritesDef DEF TypeOK
<1>3. RisksOf(E) \subseteq Risk /\ ControlsOf(rows[w]) \subseteq Control
  BY DEF RisksOf, ControlsOf
<1>4. \A f \in Finding : status'[f] =
         IF f \in RisksOf(E) THEN Recomputed(was(f), "open")
         ELSE IF f \in ControlsOf(rows[w]) THEN Recomputed(was(f), "passing")
         ELSE IF f \in Control /\ was(f) = "none" THEN "open" ELSE was(f)
  BY <1>1 DEF AssessedStatus
<1> HIDE DEF E
<1>5. \A f \in Change : status'[f] = status[f]
  BY <1>2, <1>3, <1>4 DEF Finding, Assessed
<1>6. \A f \in Risk \ RisksOf(E) : status'[f] = status[f]
  BY <1>2, <1>3, <1>4 DEF Finding, Assessed
<1>7. \A f \in RisksOf(E) : status'[f] # "none" /\ status'[f] \in {"open", status[f], seen[w][f]}
  BY <1>3, <1>4 DEF Finding, Assessed, Recomputed
<1> QED
  BY <1>2, <1>5, <1>6, <1>7

\* The row of a risk or of a change is never removed.
LEMMA StatusKept ==
    ASSUME TypeOK, [Next]_vars
    PROVE  \A f \in Risk \cup Change : status[f] # "none" => status'[f] # "none"
<1> USE DEF fold_vars, check_vars, ledger_vars, review_vars
<1> SUFFICES ASSUME NEW f \in Risk \cup Change, status[f] # "none"
             PROVE  status'[f] # "none"
  OBVIOUS
<1>0. f \in Finding /\ status \in [Finding -> Status]
  BY DEF Finding, Assessed, TypeOK
<1>1. ExpiredStatus[f] # "none"
  BY <1>0 DEF ExpiredStatus
<1>2. ASSUME NEW w \in Folder, Fingerprint(w)
      PROVE  status'[f] # "none"
  BY <1>0, <1>1, <1>2 DEF Fingerprint
<1>3. ASSUME NEW w \in Folder, AssessWrite(w)
      PROVE  status'[f] # "none"
  BY <1>3, AssessWriteStatus
<1>4. ASSUME NEW d \in Decisions, Decide(d[1], d[2])
      PROVE  status'[f] # "none"
  <2>1. d \in Finding \X {"accepted", "mitigation_required", "waived"}
    OBVIOUS
  <2> QED
    BY <1>0, <1>4, <2>1 DEF Decide
<1>5. ASSUME NEW g \in Finding, CreateException(g)
      PROVE  status'[f] # "none"
  BY <1>0, <1>5 DEF CreateException
<1>6. CASE ExpireDueExceptions \/ Approve
  BY <1>1, <1>6 DEF ExpireDueExceptions, Approve
<1>7. CASE UNCHANGED status
  BY <1>7
<1>8. ASSUME NEW w \in Folder,
             \/ Claim(w) \/ Project(w) \/ AssessRead(w) \/ GateRead(w) \/ GateWrite(w)
             \/ MarkFolded(w) \/ Abandon(w)
      PROVE  UNCHANGED status
  BY <1>8 DEF Claim, Project, AssessRead, GateRead, GateWrite, MarkFolded, Abandon
<1>9. ASSUME NEW e \in Event, Ingest(e)
      PROVE  UNCHANGED status
  BY <1>9 DEF Ingest
<1>10. ASSUME NEW g \in Finding, Lapse(g)
       PROVE  UNCHANGED status
  BY <1>10 DEF Lapse
<1>11. ASSUME Reject \/ UNCHANGED vars
       PROVE  UNCHANGED status
  BY <1>11 DEF Reject, vars
<1>12. ASSUME NEW c \in Check, CheckStep(c)
       PROVE  UNCHANGED status
  BY <1>12 DEF CheckStep, CheckGate, CheckRisks, CheckControls, CheckChanges,
     CheckProof, CheckPending, CheckCount, Look
<1> QED
  BY <1>2, <1>3, <1>4, <1>5, <1>6, <1>7, <1>8, <1>9, <1>10, <1>11, <1>12
     DEF Next, FoldStep

\* Which step may extend what is assessed, what is folded, and what a fold holds
\* past its fingerprints.
LEMMA FoldFrame ==
    ASSUME TypeOK, [Next]_vars
    PROVE  /\ assessed' = assessed \/ \E w \in Folder : AssessWrite(w)
           /\ stored' \ pending' = stored \ pending \/ \E w \in Folder : MarkFolded(w)
           /\ \A w \in Folder :
                \/ phase'[w] \in {"project", "fingerprint"}
                \/ Fingerprint(w)
                \/ rows'[w] = {}
                \/ rows'[w] = rows[w] /\ phase[w] \notin {"project", "fingerprint"}
<1> DEFINE Frame == /\ UNCHANGED <<assessed, phase, rows>>
                    /\ stored' \ pending' = stored \ pending
           Moves(w) == \A v \in Folder :
                \/ phase'[v] \in {"project", "fingerprint"}
                \/ v = w /\ (Fingerprint(w) \/ rows'[w] = {})
                \/ rows'[v] = rows[v] /\ phase[v] \notin {"project", "fingerprint"}
<1> USE DEF TypeOK, fold_vars, check_vars, ledger_vars, review_vars
<1>1. ASSUME NEW e \in Event, Ingest(e)
      PROVE  Frame
  BY <1>1 DEF Ingest
<1>2. ASSUME NEW d \in Decisions, Decide(d[1], d[2])
      PROVE  Frame
  BY <1>2 DEF Decide
<1>3. ASSUME NEW f \in Finding, CreateException(f) \/ Lapse(f)
      PROVE  Frame
  BY <1>3 DEF CreateException, Lapse
<1>4. ASSUME ExpireDueExceptions \/ Approve \/ Reject \/ UNCHANGED vars
      PROVE  Frame
  BY <1>4 DEF ExpireDueExceptions, Approve, Reject, vars
<1>5. ASSUME NEW c \in Check, CheckStep(c)
      PROVE  Frame
  BY <1>5 DEF CheckStep, CheckGate, CheckRisks, CheckControls, CheckChanges,
     CheckProof, CheckPending, CheckCount, Look
<1>6. ASSUME NEW w \in Folder, Claim(w) \/ Project(w) \/ Fingerprint(w)
      PROVE  /\ UNCHANGED <<assessed, stored, pending>>
             /\ Moves(w)
  <2>1. CASE Claim(w)
    BY <2>1 DEF Claim
  <2>2. CASE Project(w)
    BY <2>2 DEF Project
  <2>3. CASE Fingerprint(w)
    BY <2>3 DEF Fingerprint
  <2> QED
    BY <1>6, <2>1, <2>2, <2>3
<1>7. ASSUME NEW w \in Folder, AssessRead(w) \/ GateRead(w) \/ GateWrite(w)
      PROVE  /\ UNCHANGED <<assessed, stored, pending>>
             /\ Moves(w)
  <2>1. CASE AssessRead(w)
    BY <2>1 DEF AssessRead
  <2>2. CASE GateRead(w)
    BY <2>2 DEF GateRead
  <2>3. CASE GateWrite(w)
    BY <2>3 DEF GateWrite
  <2> QED
    BY <1>7, <2>1, <2>2, <2>3
<1>8. ASSUME NEW w \in Folder, AssessWrite(w)
      PROVE  /\ UNCHANGED <<stored, pending>>
             /\ Moves(w)
  BY <1>8 DEF AssessWrite
<1>9. ASSUME NEW w \in Folder, MarkFolded(w) \/ Abandon(w)
      PROVE  /\ UNCHANGED assessed
             /\ Abandon(w) => UNCHANGED <<stored, pending>>
             /\ Moves(w)
  BY <1>9 DEF MarkFolded, Abandon
<1>10. CASE \E w \in Folder : FoldStep(w) \/ Abandon(w)
  <2>1. PICK w \in Folder : FoldStep(w) \/ Abandon(w)
    BY <1>10
  <2>2. Moves(w)
    BY <2>1, <1>6, <1>7, <1>8, <1>9 DEF FoldStep
  <2> HIDE DEF TypeOK, fold_vars, check_vars, ledger_vars, review_vars
  <2>3. assessed' = assessed \/ AssessWrite(w)
    BY <2>1, <1>6, <1>7, <1>8, <1>9 DEF FoldStep
  <2>4. stored' \ pending' = stored \ pending \/ MarkFolded(w)
    BY <2>1, <1>6, <1>7, <1>8, <1>9 DEF FoldStep
  <2> QED
    BY <2>2, <2>3, <2>4
<1>11. CASE Frame
  BY <1>11
<1> HIDE DEF Frame, Moves, TypeOK, fold_vars, check_vars, ledger_vars, review_vars
<1> QED
  BY <1>1, <1>2, <1>3, <1>4, <1>5, <1>10, <1>11 DEF Next

\* Whatever a fold assessed or fingerprinted has a row, and keeps it.
LEMMA RaisedStep ==
    TypeOK /\ AssessedInv /\ RaisedInv /\ [Next]_vars => RaisedInv'
<1> SUFFICES ASSUME TypeOK, AssessedInv, RaisedInv, [Next]_vars
             PROVE  RaisedInv'
  OBVIOUS
<1>1. ASSUME NEW f \in RisksOf(assessed')
      PROVE  status'[f] # "none"
  <2>1. f \in Risk
    BY <1>1 DEF RisksOf
  <2>2. CASE f \in RisksOf(assessed)
    BY <2>1, <2>2, StatusKept DEF RaisedInv
  <2>3. CASE \E w \in Folder : AssessWrite(w)
    <3>1. PICK w \in Folder : AssessWrite(w)
      BY <2>3
    <3>2. assessed' = assessed \cup rows[w]
      BY <3>1 DEF AssessWrite
    <3>3. rows[w] \subseteq stored /\ rows[w] \subseteq seenEvents[w]
      BY <3>1 DEF AssessWrite, AssessedInv, TypeOK
    <3>4. CASE \E e \in rows[w] : f \in Raises[e]
      <4>1. f \in RisksOf(stored) /\ f \in RisksOf(seenEvents[w])
        BY <2>1, <3>3, <3>4 DEF RisksOf
      <4> QED
        BY <3>1, <4>1, AssessWriteStatus
    <3> QED
      BY <1>1, <2>1, <2>2, <3>2, <3>4 DEF RisksOf
  <2>4. assessed' = assessed \/ \E w \in Folder : AssessWrite(w)
    BY FoldFrame
  <2> QED
    BY <1>1, <2>2, <2>3, <2>4
<1>2. ASSUME NEW f \in ChangesOf(stored' \ pending')
      PROVE  status'[f] # "none"
  <2>1. f \in Change
    BY <1>2 DEF ChangesOf
  <2>2. CASE f \in ChangesOf(stored \ pending)
    BY <2>1, <2>2, StatusKept DEF RaisedInv
  <2>3. CASE \E w \in Folder : MarkFolded(w)
    <3>1. PICK w \in Folder : MarkFolded(w)
      BY <2>3
    <3>2. stored' \ pending' \subseteq (stored \ pending) \cup rows[w]
      BY <3>1 DEF MarkFolded
    <3>3. CASE f \in ChangesOf(rows[w])
      BY <2>1, <3>1, <3>3, StatusKept DEF RaisedInv, MarkFolded
    <3> QED
      BY <1>2, <2>1, <2>2, <3>2, <3>3 DEF ChangesOf
  <2>4. stored' \ pending' = stored \ pending \/ \E w \in Folder : MarkFolded(w)
    BY FoldFrame
  <2> QED
    BY <1>2, <2>2, <2>3, <2>4
<1>3. ASSUME NEW w \in Folder, NEW f \in ChangesOf(rows'[w]),
             phase'[w] \notin {"project", "fingerprint"}
      PROVE  status'[f] # "none"
  <2>1. f \in Change /\ f \in Finding
    BY <1>3 DEF ChangesOf, Finding
  <2>2. CASE Fingerprint(w)
    BY <1>3, <2>1, <2>2 DEF Fingerprint, ExpiredStatus
  <2>3. CASE rows'[w] = {}
    BY <1>3, <2>3 DEF ChangesOf
  <2>4. CASE rows'[w] = rows[w] /\ phase[w] \notin {"project", "fingerprint"}
    BY <1>3, <2>1, <2>4, StatusKept DEF RaisedInv
  <2> QED
    BY <1>3, <2>2, <2>3, <2>4, FoldFrame
<1> QED
  BY <1>1, <1>2, <1>3 DEF RaisedInv

\* Folds and expiries reopen or keep findings; only people settle them.
LEMMA DecidedStep ==
    TypeOK /\ DecidedInv /\ [Next]_vars => DecidedInv'
<1> SUFFICES ASSUME TypeOK, DecidedInv, [Next]_vars
             PROVE  DecidedInv'
  OBVIOUS
<1> USE DEF fold_vars, check_vars, ledger_vars, review_vars
<1>0. /\ Risk \subseteq Assessed /\ Risk \cup Change \subseteq Finding
      /\ status \in [Finding -> Status] /\ seen \in [Folder -> [Assessed -> Status]]
  BY DEF Finding, Assessed, TypeOK
<1>1. ASSUME NEW f \in Risk \cup Change
      PROVE  ExpiredStatus[f] \in {"none", "open"} \/ f \in touched
  BY <1>0, <1>1 DEF ExpiredStatus, DecidedInv
<1>2. ASSUME NEW w \in Folder, Fingerprint(w)
      PROVE  DecidedInv'
  BY <1>0, <1>1, <1>2 DEF Fingerprint, DecidedInv
<1>3. ASSUME NEW w \in Folder, AssessRead(w)
      PROVE  DecidedInv'
  BY <1>0, <1>3 DEF AssessRead, DecidedInv
<1>4. ASSUME NEW w \in Folder, AssessWrite(w)
      PROVE  DecidedInv'
  <2>1. \A f \in Risk \cup Change : status'[f] \in {"none", "open"} \/ f \in touched
    BY <1>4, AssessWriteStatus DEF DecidedInv
  <2> QED
    BY <1>0, <1>4, <2>1 DEF AssessWrite, DecidedInv, NothingSeen
<1>5. ASSUME NEW w \in Folder, Abandon(w)
      PROVE  DecidedInv'
  BY <1>0, <1>5 DEF Abandon, DecidedInv, NothingSeen
<1>6. ASSUME NEW d \in Decisions, Decide(d[1], d[2])
      PROVE  DecidedInv'
  BY <1>0, <1>6 DEF Decide, DecidedInv
<1>7. ASSUME NEW g \in Finding, CreateException(g)
      PROVE  DecidedInv'
  BY <1>0, <1>7 DEF CreateException, DecidedInv
<1>8. CASE ExpireDueExceptions \/ Approve
  BY <1>1, <1>8 DEF ExpireDueExceptions, Approve, DecidedInv
<1>9. CASE UNCHANGED <<status, seen, touched>>
  BY <1>9 DEF DecidedInv
<1>10. ASSUME NEW w \in Folder,
              Claim(w) \/ Project(w) \/ GateRead(w) \/ GateWrite(w) \/ MarkFolded(w)
       PROVE  UNCHANGED <<status, seen, touched>>
  BY <1>10 DEF Claim, Project, GateRead, GateWrite, MarkFolded
<1>11. ASSUME NEW e \in Event, Ingest(e)
       PROVE  UNCHANGED <<status, seen, touched>>
  BY <1>11 DEF Ingest
<1>12. ASSUME NEW g \in Finding, Lapse(g)
       PROVE  UNCHANGED <<status, seen, touched>>
  BY <1>12 DEF Lapse
<1>13. ASSUME Reject \/ UNCHANGED vars
       PROVE  UNCHANGED <<status, seen, touched>>
  BY <1>13 DEF Reject, vars
<1>14. ASSUME NEW c \in Check, CheckStep(c)
       PROVE  UNCHANGED <<status, seen, touched>>
  BY <1>14 DEF CheckStep, CheckGate, CheckRisks, CheckControls, CheckChanges,
     CheckProof, CheckPending, CheckCount, Look
<1> HIDE DEF fold_vars, check_vars, ledger_vars, review_vars
<1> QED
  BY <1>2, <1>3, <1>4, <1>5, <1>6, <1>7, <1>8, <1>9, <1>10, <1>11, <1>12, <1>13, <1>14
     DEF Next, FoldStep

\* Counting fewer changes never exceeds the policy's maximum.
LEMMA FewerChanges ==
    ASSUME NEW S \in SUBSET Change, NEW T \in SUBSET S, Cardinality(S) <= MaxOpenChanges
    PROVE  Cardinality(T) <= MaxOpenChanges
<1>1. IsFiniteSet(S)
  BY FS_Subset
<1>2. IsFiniteSet(T) /\ Cardinality(T) <= Cardinality(S)
  BY <1>1, FS_Subset
<1>3. Cardinality(S) \in Nat /\ Cardinality(T) \in Nat
  BY <1>1, <1>2, FS_CardinalityType
<1> QED
  BY <1>2, <1>3

\* A check that reads nothing in this step keeps what it established: folded
\* rows stay folded and decisions stay taken.
LEMMA CheckFrame ==
    ASSUME TypeOK, [Next]_vars, NEW c \in Check, CheckInvOf(c),
           check'[c] = check[c], settled'[c] = settled[c], begun'[c] = begun[c]
    PROVE  CheckInvOf(c)'
<1>1. Growth
  BY Grows
<1>2. settled'[c] \subseteq stored' \ pending'
  BY <1>1 DEF Growth, CheckInvOf
<1>3. RisksOf(settled[c]) \subseteq touched => RisksOf(settled'[c]) \subseteq touched'
  BY <1>1 DEF Growth
<1>4. ASSUME Cardinality(ChangesOf(settled[c]) \ touched) <= MaxOpenChanges
      PROVE  Cardinality(ChangesOf(settled'[c]) \ touched') <= MaxOpenChanges
  <2>1. /\ ChangesOf(settled[c]) \ touched \in SUBSET Change
        /\ ChangesOf(settled'[c]) \ touched' \in SUBSET (ChangesOf(settled[c]) \ touched)
    BY <1>1 DEF Growth, ChangesOf
  <2> QED
    BY <1>4, <2>1, FewerChanges
<1>5. begun[c] \cap pending = {} => begun'[c] \cap pending' = {}
  <2>1. begun[c] \subseteq stored
    BY DEF TypeOK
  <2>2. begun[c] \cap pending = {} => begun[c] \subseteq stored \ pending
    BY <2>1
  <2> QED
    BY <1>1, <2>2 DEF Growth
<1> QED
  BY <1>2, <1>3, <1>4, <1>5 DEF CheckInvOf

\* Each read of a check either refuses, which forgets everything, or adds what
\* it read to what the check knows of the rows folded when it began.
LEMMA CheckReads ==
    ASSUME TypeOK, AssessedInv, RaisedInv, DecidedInv,
           NEW c \in Check, CheckInvOf(c), CheckStep(c)
    PROVE  CheckInvOf(c)'
<1> USE DEF ledger_vars, review_vars
<1>1. UNCHANGED <<stored, pending, touched>>
  BY DEF CheckStep, CheckGate, CheckRisks, CheckControls, CheckChanges, CheckProof,
     CheckPending, CheckCount, Look
<1>2. ASSUME check'[c] = "gate", settled'[c] \subseteq stored \ pending
      PROVE  CheckInvOf(c)'
  BY <1>1, <1>2 DEF CheckInvOf
<1>3. check \in [Check -> {"gate", "risks", "controls", "changes", "proof",
                           "pending", "eligible"}]
      /\ settled \in [Check -> SUBSET stored] /\ begun \in [Check -> SUBSET stored]
  BY DEF TypeOK
<1>4. CASE CheckGate(c)
  BY <1>1, <1>3, <1>4 DEF CheckGate, CheckInvOf
<1> DEFINE Went(here, next) == /\ check[c] = here /\ check'[c] = next
                              /\ settled'[c] = settled[c] /\ begun'[c] = begun[c]
<1>5. CASE check'[c] = "gate" /\ settled'[c] = {}
  BY <1>2, <1>5
<1>6. CASE CheckRisks(c)
  <2>1. \/ check'[c] = "gate" /\ settled'[c] = {}
        \/ OpenRisks(status) = {} /\ Went("risks", "controls")
    BY <1>6, <1>3 DEF CheckRisks, Look
  <2>2. ASSUME OpenRisks(status) = {}
        PROVE  RisksOf(settled[c]) \subseteq touched
    <3> SUFFICES ASSUME NEW f \in RisksOf(settled[c])
                 PROVE  f \in touched
      OBVIOUS
    <3>1. f \in RisksOf(assessed) /\ f \in Risk
      BY DEF RisksOf, CheckInvOf, AssessedInv
    <3> QED
      BY <2>2, <3>1 DEF RaisedInv, DecidedInv, OpenRisks
  <2> QED
    BY <1>1, <1>5, <2>1, <2>2 DEF CheckInvOf
<1>7. CASE CheckControls(c)
  <2>1. \/ check'[c] = "gate" /\ settled'[c] = {}
        \/ MissingControls(status) = {} /\ Went("controls", "changes")
    BY <1>7, <1>3 DEF CheckControls, CheckCount, Look
  <2> QED
    BY <1>1, <1>5, <2>1 DEF CheckInvOf
<1>8. CASE CheckChanges(c)
  <2>1. \/ check'[c] = "gate" /\ settled'[c] = {}
        \/ Cardinality(OpenChanges(status)) <= MaxOpenChanges /\ Went("changes", "proof")
    BY <1>8, <1>3 DEF CheckChanges, CheckCount, Look
  <2>2. ASSUME Cardinality(OpenChanges(status)) <= MaxOpenChanges
        PROVE  Cardinality(ChangesOf(settled[c]) \ touched) <= MaxOpenChanges
    <3>1. OpenChanges(status) \in SUBSET Change
      BY DEF OpenChanges
    <3>2. ChangesOf(settled[c]) \ touched \in SUBSET OpenChanges(status)
      <4> SUFFICES ASSUME NEW f \in ChangesOf(settled[c]), f \notin touched
                   PROVE  f \in OpenChanges(status)
        OBVIOUS
      <4>1. f \in ChangesOf(stored \ pending) /\ f \in Change
        BY DEF ChangesOf, CheckInvOf
      <4> QED
        BY <4>1 DEF RaisedInv, DecidedInv, OpenChanges
    <3> QED
      BY <2>2, <3>1, <3>2, FewerChanges
  <2> QED
    BY <1>1, <1>5, <2>1, <2>2 DEF CheckInvOf
<1>9. CASE CheckProof(c)
  <2>1. \/ check'[c] = "gate" /\ settled'[c] = {}
        \/ Proven /\ Went("proof", "pending")
    BY <1>9, <1>3 DEF CheckProof, CheckCount, Look
  <2> QED
    BY <1>1, <1>5, <2>1 DEF CheckInvOf
<1>10. CASE CheckPending(c)
  <2>1. \/ check'[c] = "gate" /\ settled'[c] = {}
        \/ pending = {} /\ Went("pending", "eligible")
    BY <1>10, <1>3 DEF CheckPending, CheckCount, Look
  <2> QED
    BY <1>1, <1>5, <2>1 DEF CheckInvOf
<1> QED
  BY <1>4, <1>6, <1>7, <1>8, <1>9, <1>10 DEF CheckStep

\* Every step keeps what every check knows.
LEMMA CheckInvStep == GateInv /\ [Next]_vars => CheckInv'
<1> SUFFICES ASSUME GateInv, [Next]_vars, NEW c \in Check
             PROVE  CheckInvOf(c)'
  BY DEF CheckInv
<1>1. TypeOK /\ AssessedInv /\ RaisedInv /\ DecidedInv /\ CheckInvOf(c)
  BY DEF GateInv, CheckInv
<1>2. CASE CheckStep(c)
  BY <1>1, <1>2, CheckReads
<1>3. CASE ~ CheckStep(c)
  <2> USE DEF check_vars
  <2>1. ASSUME NEW d \in Check, d # c, CheckStep(d)
        PROVE  check'[c] = check[c] /\ settled'[c] = settled[c] /\ begun'[c] = begun[c]
    <3>1. /\ check' = [check EXCEPT ![d] = check'[d]]
          /\ settled' = [settled EXCEPT ![d] = settled'[d]]
          /\ begun' = [begun EXCEPT ![d] = begun'[d]]
      BY <1>1, <2>1 DEF TypeOK, CheckStep, CheckGate, CheckRisks, CheckControls,
         CheckChanges, CheckProof, CheckPending, CheckCount, Look
    <3> QED
      BY <1>1, <2>1, <3>1 DEF TypeOK
  <2>2. ASSUME NEW w \in Folder, FoldStep(w) \/ Abandon(w)
        PROVE  UNCHANGED check_vars
    BY <2>2 DEF FoldStep, Claim, Project, Fingerprint, AssessRead, AssessWrite,
       GateRead, GateWrite, MarkFolded, Abandon
  <2>3. ASSUME \/ \E e \in Event : Ingest(e)
               \/ \E d \in Decisions : Decide(d[1], d[2])
               \/ \E f \in Finding : CreateException(f) \/ Lapse(f)
               \/ ExpireDueExceptions \/ Approve \/ Reject \/ UNCHANGED vars
        PROVE  UNCHANGED check_vars
    BY <2>3 DEF Ingest, Decide, CreateException, Lapse, ExpireDueExceptions, Approve,
       Reject, vars
  <2>4. check'[c] = check[c] /\ settled'[c] = settled[c] /\ begun'[c] = begun[c]
    BY <1>3, <2>1, <2>2, <2>3 DEF Next
  <2> QED
    BY <1>1, <2>4, CheckFrame
<1> QED
  BY <1>2, <1>3

-----------------------------------------------------------------------------

\* The inductive invariant holds in every reachable state: folds, decisions,
\* expiries and checks, in whatever order they interleave.
THEOREM GateInvariant == Spec => []GateInv
<1>1. Init => GateInv
  <2> SUFFICES ASSUME Init
               PROVE  GateInv
    OBVIOUS
  <2>1. TypeOK
    BY TypeInit
  <2>2. ApprovalInv /\ AssessedInv
    BY DEF Init, ApprovalInv, AssessedInv
  <2>3. RaisedInv
    BY DEF Init, RaisedInv, RisksOf, ChangesOf
  <2>4. DecidedInv
    BY DEF Init, DecidedInv, NothingSeen, Finding, Assessed
  <2>5. CheckInv
    BY DEF Init, CheckInv, CheckInvOf
  <2> QED
    BY <2>1, <2>2, <2>3, <2>4, <2>5 DEF GateInv
<1>2. GateInv /\ [Next]_vars => GateInv'
  BY TypeStep, ApprovalStep, AssessedStep, RaisedStep, DecidedStep, CheckInvStep
     DEF GateInv
<1> QED
  BY <1>1, <1>2, PTL DEF Spec

\* CI is never told to release over telemetry that was stored before it asked and
\* is not folded (find_gate_for_release).
THEOREM EligibleIsFolded == Spec => []EligibleOnlyWhenFolded
<1>1. GateInv => EligibleOnlyWhenFolded
  BY DEF GateInv, CheckInv, CheckInvOf, EligibleOnlyWhenFolded
<1> QED
  BY <1>1, GateInvariant, PTL

\* CI is never told to release while a risk of the folded telemetry, or more
\* changes than the policy allows, have not been decided or waived by anybody.
THEOREM NobodyBypassed == Spec => []UndecidedFindingBlocks
<1>1. GateInv => UndecidedFindingBlocks
  BY DEF GateInv, CheckInv, CheckInvOf, UndecidedFindingBlocks
<1> QED
  BY <1>1, GateInvariant, PTL

\* No fold, refresh or decision on a finding approves a gate
\* (upsert_deployment_gate).
THEOREM ApprovedByAPerson == Spec => []NeverAutoApproved
<1>1. GateInv => NeverAutoApproved
  BY DEF GateInv, ApprovalInv, NeverAutoApproved
<1> QED
  BY <1>1, GateInvariant, PTL
=============================================================================
