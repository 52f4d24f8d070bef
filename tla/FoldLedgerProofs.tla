-------------------------- MODULE FoldLedgerProofs --------------------------
(***************************************************************************)
(* Proofs about the fold ledger, for every number of events, tenants,      *)
(* requests, attempts and faults.  Completeness of a folded row holds on   *)
(* both backends; exactly-once counting, and the refinement of             *)
(* EventProjection, hold where BEGIN IMMEDIATE takes the write lock.       *)
(*                                                                         *)
(* The second half is about what the projections make of the folded rows   *)
(* (module Inventory): its types, the announced incident, the judged tool  *)
(* call, and the exact inventory.                                          *)
(***************************************************************************)
EXTENDS FoldLedger, Inventory, FiniteSetTheorems, SequenceTheorems, TLAPS

USE ConstantsAssumption

(***************************************************************************)
(* The inductive invariant.  Progress records how far the claimed rows of  *)
(* every worker have come, which is what makes mark_folded safe; Exclusive *)
(* says that the rows a Serialized process_events found uncounted are      *)
(* still uncounted when it commits.                                        *)
(***************************************************************************)
ProgressAt(w) ==
    /\ rows[w] \subseteq Stored
    /\ rest[w] \subseteq Stored
    /\ phase[w] = "count" =>
         snap[w] \subseteq rows[w] /\ rows[w] \subseteq counted \cup snap[w]
    /\ phase[w] \in {"project", "assess", "refresh", "mark"} =>
         rows[w] \subseteq counted
    /\ phase[w] \in {"assess", "refresh", "mark"} =>
         rows[w] \subseteq done["project"]
    /\ phase[w] \in {"refresh", "mark"} => rows[w] \subseteq done["assess"]
    /\ phase[w] = "mark" => rows[w] \subseteq done["refresh"]

Progress == \A w \in Worker : ProgressAt(w)

CountedStored == counted \subseteq Stored

CompleteInv == TypeOK /\ Progress /\ CountedStored /\ FoldedIsComplete

Exclusive ==
    \A w \in Worker :
        phase[w] = "count" => writer = w /\ snap[w] \cap counted = {}

OnceInv == CompleteInv /\ Exclusive /\ InventoryExactlyOnce

-----------------------------------------------------------------------------

\* Any set of raw events has a cardinality, so insert_events can number its rows.
LEMMA StoredFinite ==
    ASSUME TypeOK, NEW S \in SUBSET Event
    PROVE  Cardinality(S) \in Nat
BY FS_Subset, FS_CardinalityType

\* Ids handed out by insert_events are positive, so stored rows stay stored.
LEMMA IngestIds ==
    ASSUME TypeOK, NEW w \in Request, NEW t \in Tenant,
           NEW events \in SUBSET Event, Ingest(w, t, events)
    PROVE  /\ id' \in [Event -> Nat]
           /\ Stored' = Stored \cup events
<1> DEFINE new == events \ Stored
           n == Cardinality(Stored)
<1>1. n \in Nat /\ Cardinality(new) \in Nat
  BY StoredFinite DEF Stored
<1>2. PICK ids \in [new -> (n + 1)..(n + Cardinality(new))] :
         id' = [e \in Event |-> IF e \in new THEN ids[e] ELSE id[e]]
  BY DEF Ingest
<1> HIDE DEF new, n
<1>3. \A e \in new : ids[e] \in Nat /\ ids[e] > 0
  BY <1>1, <1>2
<1>4. new = events \ Stored
  BY DEF new
<1>5. id' \in [Event -> Nat]
  BY <1>2, <1>3 DEF TypeOK
<1>6. \A e \in Event : (id'[e] > 0) <=> (id[e] > 0 \/ e \in events)
  BY <1>2, <1>3, <1>4 DEF TypeOK, Stored
<1> QED
  BY <1>5, <1>6 DEF Stored

JobsOK ==
    /\ phase \in [Worker -> Phase]
    /\ tenant \in [Worker -> Tenant]
    /\ batch \in [Worker -> SUBSET Event]
    /\ rows \in [Worker -> SUBSET Event]
    /\ snap \in [Worker -> SUBSET Event]
    /\ rest \in [Worker -> SUBSET Event]
    /\ alone \in [Worker -> BOOLEAN]

\* A worker that finishes a request or a sweep leaves well-typed locals behind.
LEMMA FinishType ==
    ASSUME TypeOK, NEW w \in Worker, Finish(w)
    PROVE  JobsOK'
BY DEF TypeOK, JobsOK, Finish, Goto, Phase

\* A fresh installation is well-typed.
LEMMA TypeInit == Init => TypeOK
BY DEF Init, TypeOK, Phase, Later

\* Every step of a request, of the sweeper and of the environment keeps the types.
LEMMA TypeStep == TypeOK /\ [Next]_vars => TypeOK'
<1> SUFFICES ASSUME TypeOK, [Next]_vars
             PROVE  TypeOK'
  OBVIOUS
<1> USE DEF TypeOK, Phase, Later, rows_vars, derived_vars, job_vars, env_vars,
        Goto, Finish, Reply, Release
<1>1. ASSUME NEW w \in Request, NEW t \in Tenant, NEW events \in SUBSET Event,
             Ingest(w, t, events)
      PROVE  TypeOK'
  <2>1. id' \in [Event -> Nat]
    BY <1>1, IngestIds
  <2> QED
    BY <1>1, <2>1 DEF Ingest, Worker
<1>2. ASSUME NEW w \in Worker, Claim(w)
      PROVE  TypeOK'
  <2>1. Oldest(Claimable(w)) \in SUBSET Event
    BY DEF Oldest, Claimable, Pending, Stored
  <2>2. JobsOK'
    <3>1. CASE Finish(w)
      BY <3>1, FinishType
    <3>2. CASE /\ Goto(w, "begin")
               /\ rows' = [rows EXCEPT ![w] = Oldest(Claimable(w))]
               /\ UNCHANGED <<tenant, batch, snap, rest, alone, acked>>
      BY <2>1, <3>2 DEF JobsOK
    <3> QED
      BY <1>2, <3>1, <3>2 DEF Claim
  <2>3. acked' \in SUBSET Event
    BY <1>2 DEF Claim
  <2> QED
    BY <1>2, <2>2, <2>3 DEF Claim, JobsOK
<1>3. ASSUME NEW w \in Worker, BeginCount(w)
      PROVE  TypeOK'
  BY <1>3 DEF BeginCount
<1>4. ASSUME NEW w \in Worker, CommitCount(w)
      PROVE  TypeOK'
  BY <1>4 DEF CommitCount
<1>5. ASSUME NEW w \in Worker, Project(w)
      PROVE  TypeOK'
  BY <1>5 DEF Project, NextStep
<1>6. ASSUME NEW w \in Worker, MarkFolded(w)
      PROVE  TypeOK'
  BY <1>6 DEF MarkFolded
<1>7. ASSUME NEW w \in Worker, Raise(w), faults' \in Nat
      PROVE  TypeOK'
  BY <1>7 DEF Raise
<1>8. ASSUME NEW w \in Worker, RecordFoldAttempt(w)
      PROVE  TypeOK'
  <2>1. JobsOK'
    BY <1>8, FinishType DEF RecordFoldAttempt, JobsOK
  <2>2. attempts' \in [Event -> 0..MaxAttempts]
    BY <1>8 DEF RecordFoldAttempt
  <2> QED
    BY <1>8, <2>1, <2>2 DEF RecordFoldAttempt, JobsOK
<1>9. ASSUME NEW w \in Worker, Isolate(w)
      PROVE  TypeOK'
  <2>1. JobsOK'
    <3>1. CASE Finish(w)
      BY <3>1, FinishType
    <3>2. ASSUME NEW e \in rest[w],
                 Goto(w, "begin"),
                 rows' = [rows EXCEPT ![w] = {e}],
                 rest' = [rest EXCEPT ![w] = @ \ {e}],
                 alone' = [alone EXCEPT ![w] = TRUE],
                 UNCHANGED <<tenant, batch, snap>>
          PROVE  JobsOK'
      BY <3>2 DEF JobsOK
    <3> QED
      BY <1>9, <3>1, <3>2 DEF Isolate
  <2> QED
    BY <1>9, <2>1 DEF Isolate, JobsOK
<1>10. ASSUME NEW w \in Worker, Crash(w)
       PROVE  TypeOK'
  BY <1>10 DEF Crash
<1>11. CASE StartPass
  BY <1>11 DEF StartPass
<1>12. CASE SweepTenant
  BY <1>12 DEF SweepTenant, Worker
<1>13. CASE DeployFix
  BY <1>13 DEF DeployFix, Poison
<1>14. CASE UNCHANGED vars
  BY <1>14 DEF vars
<1>15. ASSUME NEW w \in Worker, RaisePoison(w) \/ RaiseTransient(w)
       PROVE  TypeOK'
  BY <1>15, <1>7 DEF RaisePoison, RaiseTransient
<1> QED
  BY <1>1, <1>2, <1>3, <1>4, <1>5, <1>6, <1>8, <1>9, <1>10, <1>11, <1>12, <1>13,
     <1>14, <1>15 DEF Next, FoldStep

-----------------------------------------------------------------------------
(***************************************************************************)
(* Completeness: what is stamped folded has been through every projection. *)
(***************************************************************************)

\* No step forgets a stored row, a counted row or an applied projection.
Grows ==
    /\ Stored \subseteq Stored'
    /\ counted \subseteq counted'
    /\ \A s \in Later : done[s] \subseteq done'[s]

\* No step of the ingest path forgets a row, a stamp or a projection.
LEMMA StepGrows == TypeOK /\ [Next]_vars => Grows
<1> SUFFICES ASSUME TypeOK, [Next]_vars
             PROVE  Grows
  OBVIOUS
<1> USE DEF rows_vars, derived_vars
<1>1. ASSUME NEW w \in Request, NEW t \in Tenant, NEW events \in SUBSET Event,
             Ingest(w, t, events)
      PROVE  Grows
  BY <1>1, IngestIds DEF Ingest, Grows
<1>2. ASSUME NEW w \in Worker, CommitCount(w)
      PROVE  Grows
  BY <1>2 DEF CommitCount, Grows, Stored
<1>3. ASSUME NEW w \in Worker, Project(w)
      PROVE  Grows
  BY <1>3 DEF Project, Grows, Stored, TypeOK
<1>4. ASSUME UNCHANGED <<id, counted, done>>
      PROVE  Grows
  BY <1>4 DEF Grows, Stored
<1>5. ASSUME NEW w \in Worker,
             \/ Claim(w) \/ BeginCount(w) \/ MarkFolded(w) \/ RaisePoison(w)
             \/ RaiseTransient(w) \/ RecordFoldAttempt(w) \/ Isolate(w) \/ Crash(w)
      PROVE  UNCHANGED <<id, counted, done>>
  BY <1>5 DEF Claim, BeginCount, MarkFolded, RaisePoison, RaiseTransient, Raise,
     RecordFoldAttempt, Isolate, Crash
<1>6. ASSUME StartPass \/ SweepTenant \/ DeployFix \/ UNCHANGED vars
      PROVE  UNCHANGED <<id, counted, done>>
  BY <1>6 DEF StartPass, SweepTenant, DeployFix, vars
<1> QED
  BY <1>1, <1>2, <1>3, <1>4, <1>5, <1>6 DEF Next, FoldStep

\* A worker that does not move keeps its progress.
LEMMA ProgressFrame ==
    ASSUME Grows, NEW w \in Worker, ProgressAt(w),
           phase'[w] = phase[w], rows'[w] = rows[w], snap'[w] = snap[w],
           rest'[w] = rest[w]
    PROVE  ProgressAt(w)'
BY DEF Grows, ProgressAt, Later

\* The invariant behind FoldedIsComplete is inductive: one step per operation of
\* the ingest path.
LEMMA CompleteStep == CompleteInv /\ [Next]_vars => CompleteInv'
<1> SUFFICES ASSUME CompleteInv, [Next]_vars
             PROVE  CompleteInv'
  OBVIOUS
<1>1. TypeOK /\ TypeOK' /\ Grows
  BY TypeStep, StepGrows DEF CompleteInv
<1>2. ASSUME NEW w \in Worker, ProgressAt(w)',
             \A v \in Worker \ {w} : /\ phase'[v] = phase[v] /\ rows'[v] = rows[v]
                                     /\ snap'[v] = snap[v] /\ rest'[v] = rest[v]
      PROVE  Progress'
  BY <1>1, <1>2, ProgressFrame DEF CompleteInv, Progress
<1>3. ASSUME UNCHANGED <<id, counted, folded, done>>, Progress'
      PROVE  CompleteInv'
  BY <1>1, <1>3 DEF CompleteInv, CountedStored, FoldedIsComplete, Stored
<1>4. ASSUME NEW w \in Worker, Finish(w)
      PROVE  /\ ProgressAt(w)'
             /\ \A v \in Worker \ {w} :
                  /\ phase'[v] = phase[v] /\ rows'[v] = rows[v]
                  /\ snap'[v] = snap[v] /\ rest'[v] = rest[v]
  BY <1>1, <1>4 DEF Finish, Goto, ProgressAt, TypeOK
<1> USE DEF rows_vars, derived_vars, job_vars, Goto
<1>5. ASSUME NEW w \in Request, NEW t \in Tenant, NEW events \in SUBSET Event,
             Ingest(w, t, events)
      PROVE  CompleteInv'
  <2>1. w \in Worker
    BY DEF Worker
  <2>2. ProgressAt(w)'
    BY <1>1, <1>5, <2>1 DEF Ingest, CompleteInv, Progress, ProgressAt, Grows, TypeOK
  <2>3. Progress'
    BY <1>1, <1>2, <1>5, <2>1, <2>2 DEF Ingest, TypeOK
  <2> QED
    BY <1>1, <1>5, <2>3 DEF Ingest, CompleteInv, CountedStored, FoldedIsComplete, Grows
<1>6. ASSUME NEW w \in Worker, Claim(w)
      PROVE  CompleteInv'
  <2>1. Oldest(Claimable(w)) \subseteq Stored
    BY DEF Oldest, Claimable, Pending
  <2>2. CASE Finish(w)
    BY <1>2, <1>3, <1>4, <1>6, <2>2 DEF Claim
  <2>3. CASE /\ Goto(w, "begin")
             /\ rows' = [rows EXCEPT ![w] = Oldest(Claimable(w))]
             /\ UNCHANGED <<tenant, batch, snap, rest, alone, acked>>
    <3>1. ProgressAt(w)'
      BY <1>1, <1>6, <2>1, <2>3 DEF Claim, CompleteInv, Progress, ProgressAt, Grows, TypeOK
    <3>2. Progress'
      BY <1>1, <1>2, <2>3, <3>1 DEF TypeOK
    <3> QED
      BY <1>3, <1>6, <3>2 DEF Claim
  <2> QED
    BY <1>6, <2>2, <2>3 DEF Claim, Reply
<1>7. ASSUME NEW w \in Worker, BeginCount(w)
      PROVE  CompleteInv'
  <2>1. ProgressAt(w)'
    BY <1>1, <1>7 DEF BeginCount, CompleteInv, Progress, ProgressAt, Grows, TypeOK
  <2>2. Progress'
    BY <1>1, <1>2, <1>7, <2>1 DEF BeginCount, TypeOK
  <2> QED
    BY <1>3, <1>7, <2>2 DEF BeginCount
<1>8. ASSUME NEW w \in Worker, CommitCount(w)
      PROVE  CompleteInv'
  <2>1. ProgressAt(w)'
    BY <1>1, <1>8 DEF CommitCount, CompleteInv, Progress, ProgressAt, Grows, TypeOK
  <2>2. Progress'
    BY <1>1, <1>2, <1>8, <2>1 DEF CommitCount, TypeOK
  <2>3. snap[w] \subseteq Stored
    BY <1>8 DEF CommitCount, CompleteInv, Progress, ProgressAt
  <2> QED
    BY <1>1, <1>8, <2>2, <2>3
       DEF CommitCount, CompleteInv, CountedStored, FoldedIsComplete, Stored
<1>9. ASSUME NEW w \in Worker, Project(w)
      PROVE  CompleteInv'
  <2>1. ProgressAt(w)'
    BY <1>1, <1>9 DEF Project, NextStep, Later, CompleteInv, Progress, ProgressAt,
       Grows, TypeOK
  <2>2. Progress'
    BY <1>1, <1>2, <1>9, <2>1 DEF Project, TypeOK
  <2> QED
    BY <1>1, <1>9, <2>2
       DEF Project, CompleteInv, CountedStored, FoldedIsComplete, Stored, Grows
<1>10. ASSUME NEW w \in Worker, MarkFolded(w)
       PROVE  CompleteInv'
  <2>1. ProgressAt(w)' /\ \A v \in Worker \ {w} :
                  /\ phase'[v] = phase[v] /\ rows'[v] = rows[v]
                  /\ snap'[v] = snap[v] /\ rest'[v] = rest[v]
    <3>1. CASE Finish(w)
      BY <1>4, <3>1
    <3>2. CASE Goto(w, "isolate") /\ UNCHANGED job_vars
      BY <1>1, <3>2 DEF CompleteInv, Progress, ProgressAt, Grows, TypeOK
    <3> QED
      BY <1>10, <3>1, <3>2 DEF MarkFolded, Reply
  <2>2. Progress'
    BY <1>2, <2>1
  <2>3. \A e \in rows[w] : e \in counted /\ \A s \in Later : e \in done[s]
    BY <1>10 DEF MarkFolded, CompleteInv, Progress, ProgressAt, Later
  <2> QED
    BY <1>1, <1>10, <2>2, <2>3
       DEF MarkFolded, CompleteInv, CountedStored, FoldedIsComplete, Stored
<1>11. ASSUME NEW w \in Worker, Raise(w)
       PROVE  CompleteInv'
  <2>1. ProgressAt(w)'
    BY <1>1, <1>11 DEF Raise, CompleteInv, Progress, ProgressAt, Grows, TypeOK
  <2>2. Progress'
    BY <1>1, <1>2, <1>11, <2>1 DEF Raise, TypeOK
  <2> QED
    BY <1>3, <1>11, <2>2 DEF Raise
<1>12. ASSUME NEW w \in Worker, RecordFoldAttempt(w)
       PROVE  CompleteInv'
  <2>1. ProgressAt(w)' /\ \A v \in Worker \ {w} :
                  /\ phase'[v] = phase[v] /\ rows'[v] = rows[v]
                  /\ snap'[v] = snap[v] /\ rest'[v] = rest[v]
    <3>1. CASE Finish(w)
      BY <1>4, <3>1
    <3>2. CASE Goto(w, "isolate") /\ UNCHANGED job_vars
      BY <1>1, <3>2 DEF CompleteInv, Progress, ProgressAt, Grows, TypeOK
    <3> QED
      BY <1>12, <3>1, <3>2 DEF RecordFoldAttempt
  <2> QED
    BY <1>2, <1>3, <1>12, <2>1 DEF RecordFoldAttempt
<1>13. ASSUME NEW w \in Worker, Isolate(w)
       PROVE  CompleteInv'
  <2>1. CASE Finish(w)
    BY <1>2, <1>3, <1>4, <1>13, <2>1 DEF Isolate
  <2>2. ASSUME NEW e \in rest[w],
               Goto(w, "begin"),
               rows' = [rows EXCEPT ![w] = {e}],
               rest' = [rest EXCEPT ![w] = @ \ {e}],
               UNCHANGED snap
        PROVE  Progress'
    <3>1. ProgressAt(w)'
      BY <1>1, <2>2 DEF CompleteInv, Progress, ProgressAt, Grows, TypeOK
    <3> QED
      BY <1>1, <1>2, <2>2, <3>1 DEF TypeOK
  <2> QED
    BY <1>3, <1>13, <2>1, <2>2 DEF Isolate
<1>14. ASSUME NEW w \in Worker, Crash(w)
       PROVE  CompleteInv'
  BY <1>2, <1>3, <1>4, <1>14 DEF Crash
<1>15. CASE StartPass \/ DeployFix \/ UNCHANGED vars
  BY <1>1, <1>3, <1>15, ProgressFrame
     DEF StartPass, DeployFix, vars, CompleteInv, Progress
<1>16. CASE SweepTenant
  <2>1. Sweeper \in Worker
    BY DEF Worker
  <2>2. ProgressAt(Sweeper)'
    BY <1>1, <1>16, <2>1 DEF SweepTenant, CompleteInv, Progress, ProgressAt, Grows, TypeOK
  <2>3. Progress'
    BY <1>1, <1>2, <1>16, <2>1, <2>2 DEF SweepTenant, TypeOK
  <2> QED
    BY <1>3, <1>16, <2>3 DEF SweepTenant
<1>17. ASSUME NEW w \in Worker, RaisePoison(w) \/ RaiseTransient(w)
       PROVE  CompleteInv'
  BY <1>11, <1>17 DEF RaisePoison, RaiseTransient
<1> QED
  BY <1>5, <1>6, <1>7, <1>8, <1>9, <1>10, <1>12, <1>13, <1>14, <1>15, <1>16, <1>17
     DEF Next, FoldStep

\* It holds in a fresh installation.
LEMMA CompleteInit == Init => CompleteInv
<1> SUFFICES ASSUME Init
             PROVE  CompleteInv
  OBVIOUS
<1>1. TypeOK
  BY TypeInit
<1>2. Stored = {}
  BY DEF Init, Stored
<1>3. Progress
  BY DEF Init, Progress, ProgressAt
<1> QED
  BY <1>1, <1>2, <1>3 DEF Init, CompleteInv, CountedStored, FoldedIsComplete

\* Every variable of the ingest path keeps its type.
THEOREM TypeCorrect == Spec => []TypeOK
<1>1. Init => TypeOK
  BY TypeInit
<1>2. TypeOK /\ [Next]_vars => TypeOK'
  BY TypeStep
<1> QED
  BY <1>1, <1>2, PTL DEF Spec

\* On both backends a row is stamped folded_at only when the inventory counts
\* it and every later projection has been applied to it.
THEOREM FoldedRowsAreComplete == Spec => []FoldedIsComplete
<1>1. Init => CompleteInv
  BY CompleteInit
<1>2. CompleteInv /\ [Next]_vars => CompleteInv'
  BY CompleteStep
<1>3. CompleteInv => FoldedIsComplete
  BY DEF CompleteInv
<1> QED
  BY <1>1, <1>2, <1>3, PTL DEF Spec

-----------------------------------------------------------------------------
(***************************************************************************)
(* Exactly-once counting, where process_events holds the write lock.       *)
(***************************************************************************)

\* The invariant behind InventoryExactlyOnce is inductive where BEGIN IMMEDIATE
\* takes the write lock.
LEMMA OnceStep ==
    ASSUME Serialized, OnceInv, [Next]_vars
    PROVE  OnceInv'
<1>1. CompleteInv' /\ TypeOK /\ TypeOK'
  BY CompleteStep DEF OnceInv, CompleteInv
<1> USE DEF rows_vars, derived_vars, job_vars, Goto
\* Steps that neither open nor commit process_events.
<1>2. ASSUME UNCHANGED <<counted, inventory>>,
             \A v \in Worker : phase'[v] = "count" =>
                 phase[v] = "count" /\ snap'[v] = snap[v] /\ writer' = writer
      PROVE  OnceInv'
  BY <1>1, <1>2 DEF OnceInv, Exclusive, InventoryExactlyOnce
<1>3. ASSUME NEW w \in Worker, BeginCount(w)
      PROVE  OnceInv'
  <2>1. \A v \in Worker : phase[v] # "count"
    BY <1>3 DEF BeginCount, CanWrite, OnceInv, Exclusive
  <2>2. Exclusive'
    BY <1>1, <1>3, <2>1 DEF BeginCount, Exclusive, TypeOK
  <2> QED
    BY <1>1, <1>3, <2>2 DEF BeginCount, OnceInv, InventoryExactlyOnce
<1>4. ASSUME NEW w \in Worker, CommitCount(w)
      PROVE  OnceInv'
  <2>1. writer = w /\ snap[w] \cap counted = {}
    BY <1>4 DEF CommitCount, OnceInv, Exclusive
  <2>2. \A v \in Worker : phase'[v] # "count"
    BY <1>1, <1>4, <2>1 DEF CommitCount, OnceInv, Exclusive, TypeOK
  <2>3. InventoryExactlyOnce'
    BY <1>1, <1>4, <2>1 DEF CommitCount, OnceInv, InventoryExactlyOnce, TypeOK
  <2> QED
    BY <1>1, <2>2, <2>3 DEF OnceInv, Exclusive
<1>5. ASSUME NEW w \in Request, NEW t \in Tenant, NEW events \in SUBSET Event,
             Ingest(w, t, events)
      PROVE  OnceInv'
  BY <1>1, <1>2, <1>5 DEF Ingest, TypeOK
<1>6. ASSUME NEW w \in Worker,
             \/ Claim(w) \/ Project(w) \/ MarkFolded(w) \/ RecordFoldAttempt(w)
             \/ Isolate(w)
      PROVE  OnceInv'
  <2>1. /\ UNCHANGED <<counted, inventory, writer>>
        /\ \A v \in Worker \ {w} : phase'[v] = phase[v] /\ snap'[v] = snap[v]
    BY <1>1, <1>6 DEF Claim, Project, MarkFolded, RecordFoldAttempt, Isolate, Reply,
       Finish, TypeOK
  <2>2. phase'[w] # "count"
    BY <1>1, <1>6 DEF Claim, Project, MarkFolded, RecordFoldAttempt, Isolate, Reply,
       Finish, NextStep, Later, TypeOK
  <2> QED
    BY <1>2, <2>1, <2>2
<1>7. ASSUME NEW w \in Worker, RaisePoison(w) \/ RaiseTransient(w) \/ Crash(w)
      PROVE  OnceInv'
  <2>1. /\ UNCHANGED <<counted, inventory>>
        /\ Release(w)
        /\ phase'[w] # "count"
        /\ \A v \in Worker \ {w} : phase'[v] = phase[v] /\ snap'[v] = snap[v]
    BY <1>1, <1>7 DEF RaisePoison, RaiseTransient, Raise, Crash, Finish, TypeOK
  <2> QED
    BY <1>2, <2>1 DEF Release, OnceInv, Exclusive
<1>8. CASE StartPass \/ DeployFix \/ UNCHANGED vars
  BY <1>2, <1>8 DEF StartPass, DeployFix, vars
<1>9. CASE SweepTenant
  BY <1>1, <1>2, <1>9 DEF SweepTenant, TypeOK
<1> QED
  BY <1>3, <1>4, <1>5, <1>6, <1>7, <1>8, <1>9 DEF Next, FoldStep

\* It holds in a fresh installation.
LEMMA OnceInit == Init => OnceInv
BY CompleteInit DEF Init, OnceInv, Exclusive, InventoryExactlyOnce

\* Where BEGIN IMMEDIATE takes the write lock, the inventory counts a raw event
\* once when its row is stamped counted_at and never before or again.
THEOREM CountedExactlyOnce == Serialized => (Spec => []InventoryExactlyOnce)
<1> SUFFICES ASSUME Serialized
             PROVE  Spec => []InventoryExactlyOnce
  OBVIOUS
<1>1. Init => OnceInv
  BY OnceInit
<1>2. OnceInv /\ [Next]_vars => OnceInv'
  BY OnceStep
<1>3. OnceInv => InventoryExactlyOnce
  BY DEF OnceInv
<1> QED
  BY <1>1, <1>2, <1>3, PTL DEF Spec

-----------------------------------------------------------------------------
(***************************************************************************)
(* The ledger implements EventProjection.                                  *)
(***************************************************************************)

\* insert_events, the commit of process_events and mark_folded are the three
\* steps of EventProjection; every other step of the ingest path is a stutter.
LEMMA RefinementStep ==
    ASSUME Serialized, OnceInv, [Next]_vars
    PROVE  [Abstract!Next]_<<status, inventory>>
<1>1. TypeOK /\ TypeOK' /\ Progress /\ CountedStored /\ folded \subseteq counted
  BY TypeStep DEF OnceInv, CompleteInv, FoldedIsComplete
<1> USE DEF rows_vars, derived_vars, job_vars, Goto
<1>2. ASSUME NEW w \in Request, NEW t \in Tenant, NEW events \in SUBSET Event,
             Ingest(w, t, events)
      PROVE  Abstract!Next
  <2> DEFINE S == events \ Stored
  <2>1. \A e \in S : status[e] = "absent"
    BY <1>1 DEF status, CountedStored
  <2>2. Stored' = Stored \cup events /\ UNCHANGED <<counted, folded>>
    BY <1>1, <1>2, IngestIds DEF Ingest
  <2>3. status' = [e \in Event |-> IF e \in S THEN "stored" ELSE status[e]]
    BY <1>1, <2>2 DEF status, CountedStored
  <2>4. Abstract!Store(S)
    BY <1>2, <2>1, <2>3 DEF Ingest, Abstract!Store, Abstract!Advance
  <2> QED
    BY <2>4 DEF Abstract!Next
<1>3. ASSUME NEW w \in Worker, CommitCount(w)
      PROVE  Abstract!Next
  <2>1. /\ snap[w] \subseteq Stored /\ snap[w] \cap counted = {}
        /\ snap[w] \in SUBSET Event
    BY <1>1, <1>3
       DEF CommitCount, OnceInv, Exclusive, Progress, ProgressAt, TypeOK
  <2>2. \A e \in snap[w] : status[e] = "stored"
    BY <1>1, <2>1 DEF status, TypeOK
  <2>3. status' = [e \in Event |-> IF e \in snap[w] THEN "counted" ELSE status[e]]
    BY <1>1, <1>3, <2>1 DEF CommitCount, status, Stored
  <2>4. Abstract!Count(snap[w])
    BY <1>3, <2>2, <2>3 DEF CommitCount, Abstract!Count, Abstract!Advance
  <2> QED
    BY <2>1, <2>4 DEF Abstract!Next
<1>4. ASSUME NEW w \in Worker, MarkFolded(w)
      PROVE  Abstract!Next
  <2> DEFINE S == rows[w] \ folded
  <2>1. S \in SUBSET Event /\ S \subseteq counted
    BY <1>1, <1>4 DEF MarkFolded, Progress, ProgressAt, TypeOK
  <2>2. \A e \in S : status[e] = "counted"
    BY <1>1, <2>1 DEF status, TypeOK
  <2>3. status' = [e \in Event |-> IF e \in S THEN "projected" ELSE status[e]]
    BY <1>1, <1>4, <2>1 DEF MarkFolded, status, Stored
  <2>4. Abstract!Complete(S)
    BY <1>4, <2>2, <2>3 DEF MarkFolded, Abstract!Complete, Abstract!Advance
  <2> QED
    BY <2>1, <2>4 DEF Abstract!Next
<1>5. ASSUME UNCHANGED <<id, counted, folded, inventory>>
      PROVE  UNCHANGED <<status, inventory>>
  BY <1>5 DEF status, Stored
<1>6. ASSUME NEW w \in Worker,
             \/ Claim(w) \/ BeginCount(w) \/ Project(w) \/ RaisePoison(w)
             \/ RaiseTransient(w) \/ RecordFoldAttempt(w) \/ Isolate(w) \/ Crash(w)
      PROVE  UNCHANGED <<id, counted, folded, inventory>>
  BY <1>6 DEF Claim, BeginCount, Project, RaisePoison, RaiseTransient, Raise,
     RecordFoldAttempt, Isolate, Crash
<1>7. ASSUME StartPass \/ SweepTenant \/ DeployFix \/ UNCHANGED vars
      PROVE  UNCHANGED <<id, counted, folded, inventory>>
  BY <1>7 DEF StartPass, SweepTenant, DeployFix, vars
<1> QED
  BY <1>2, <1>3, <1>4, <1>5, <1>6, <1>7 DEF Next, FoldStep

\* Where BEGIN IMMEDIATE takes the write lock, the ingest path with its retries,
\* crashes and sweeps implements EventProjection: each event is stored, counted
\* and completed once, in that order.
THEOREM ImplementsEventProjection == Serialized => (Spec => AbstractSpec)
<1> SUFFICES ASSUME Serialized
             PROVE  Spec => AbstractSpec
  OBVIOUS
<1>1. Init => OnceInv /\ Abstract!Init
  BY OnceInit DEF Init, Abstract!Init, status, Stored
<1>2. OnceInv /\ [Next]_vars => OnceInv'
  BY OnceStep
<1>3. OnceInv /\ [Next]_vars => [Abstract!Next]_<<status, inventory>>
  BY RefinementStep
<1> QED
  BY <1>1, <1>2, <1>3, PTL DEF Spec, AbstractSpec, Abstract!Spec

-----------------------------------------------------------------------------
(***************************************************************************)
(* What a 200 means, and who is charged with an attempt.                   *)
(***************************************************************************)

\* No tenant has more pending rows than one claim returns.
BacklogFits == \A t \in Tenant : Cardinality(Pending(t)) <= ClaimLimit

\* How far the batch of a request has come: stored for the tenant it claims
\* for, then claimed or taken care of by somebody else.  Only the sweeper folds
\* row by row, and it carries no batch.
BatchAt(w) ==
    /\ ~alone[w] /\ phase[w] # "isolate"
    /\ phase[w] = "claim" =>
         \A e \in batch[w] : e \in Stored /\ TenantOf[e] = tenant[w]
    /\ phase[w] \in {"begin", "count", "mark"} \cup Later =>
         \A e \in batch[w] :
             e \in rows[w] \/ e \in folded \/ attempts[e] = MaxAttempts

SweepAt ==
    /\ batch[Sweeper] = {}
    /\ alone[Sweeper] => \E e \in Event : rows[Sweeper] = {e}
    /\ phase[Sweeper] = "failed" => alone[Sweeper]
    /\ phase[Sweeper] \in {"idle", "claim"} => ~alone[Sweeper]

\* The invariant behind the charge of an attempt.
ChargeInv == TypeOK /\ SweepAt

\* The invariant behind the answer to a request.
AckInv == ChargeInv /\ (\A w \in Request : BatchAt(w)) /\ AckedIsFolded

\* Where the backlog fits, LIMIT cuts nothing off: a claim returns every row that
\* may be claimed.
LEMMA ClaimIsWhole ==
    ASSUME TypeOK, BacklogFits, NEW t \in Tenant, NEW S \in SUBSET Pending(t)
    PROVE  Oldest(S) = S
<1>1. /\ Pending(t) \subseteq Event /\ IsFiniteSet(Pending(t))
      /\ Cardinality(Pending(t)) \in Nat
  BY FS_Subset, FS_CardinalityType DEF Pending, Stored
<1>2. IsFiniteSet(S) /\ Cardinality(S) \in Nat /\ Cardinality(S) <= ClaimLimit
  BY <1>1, FS_Subset, FS_CardinalityType DEF BacklogFits
<1>3. ASSUME NEW e \in S
      PROVE  Cardinality({f \in S : id[f] < id[e]}) < ClaimLimit
  <2> DEFINE before == {f \in S : id[f] < id[e]}
  <2>1. before \subseteq S \ {e}
    BY <1>1 DEF TypeOK
  <2>2. IsFiniteSet(S \ {e}) /\ Cardinality(S \ {e}) = Cardinality(S) - 1
    BY <1>2, <1>3, FS_RemoveElement
  <2>3. Cardinality(before) \in Nat /\ Cardinality(before) <= Cardinality(S \ {e})
    BY <2>1, <2>2, FS_Subset, FS_CardinalityType
  <2> QED
    BY <1>2, <2>2, <2>3
<1> QED
  BY <1>3 DEF Oldest

\* The sweeper carries no batch, isolates one row at a time and charges only the
\* row it isolated.
LEMMA ChargeStep == ChargeInv /\ [Next]_vars => ChargeInv'
<1> SUFFICES ASSUME ChargeInv, [Next]_vars
             PROVE  ChargeInv'
  OBVIOUS
<1>1. TypeOK /\ TypeOK' /\ Sweeper \in Worker
  BY TypeStep DEF ChargeInv, Worker
<1> USE DEF rows_vars, derived_vars, job_vars, Goto
\* What a step does to somebody else leaves the sweeper's locals alone.
<1>2. ASSUME UNCHANGED <<phase[Sweeper], batch[Sweeper], rows[Sweeper], alone[Sweeper]>>
      PROVE  ChargeInv'
  BY <1>1, <1>2 DEF ChargeInv, SweepAt
<1>3. ASSUME NEW w \in Worker, Finish(w)
      PROVE  ChargeInv'
  BY <1>1, <1>2, <1>3 DEF Finish, ChargeInv, SweepAt, TypeOK
<1>4. ASSUME NEW w \in Worker, phase'[w] \notin {"idle", "claim", "failed"},
             \A v \in Worker \ {w} : phase'[v] = phase[v],
             UNCHANGED <<batch, rows, alone>>
      PROVE  ChargeInv'
  BY <1>1, <1>4 DEF ChargeInv, SweepAt
<1>5. ASSUME NEW w \in Request, NEW t \in Tenant, NEW events \in SUBSET Event,
             Ingest(w, t, events)
      PROVE  ChargeInv'
  BY <1>1, <1>2, <1>5 DEF Ingest, TypeOK, Worker
<1>6. ASSUME NEW w \in Worker, Claim(w)
      PROVE  ChargeInv'
  <2>1. CASE Finish(w)
    BY <1>3, <2>1
  <2>2. CASE /\ phase[w] = "claim" /\ Goto(w, "begin")
             /\ rows' = [rows EXCEPT ![w] = Oldest(Claimable(w))]
             /\ UNCHANGED <<tenant, batch, snap, rest, alone, acked>>
    BY <1>1, <1>2, <2>2 DEF ChargeInv, SweepAt, TypeOK
  <2> QED
    BY <1>6, <2>1, <2>2 DEF Claim, Reply
<1>7. ASSUME NEW w \in Worker, BeginCount(w) \/ CommitCount(w) \/ Project(w)
      PROVE  ChargeInv'
  <2>1. /\ phase'[w] \notin {"idle", "claim", "failed"}
        /\ \A v \in Worker \ {w} : phase'[v] = phase[v]
        /\ UNCHANGED <<batch, rows, alone>>
    BY <1>1, <1>7 DEF BeginCount, CommitCount, Project, NextStep, Later, TypeOK
  <2> QED
    BY <1>4, <2>1
<1>8. ASSUME NEW w \in Worker, MarkFolded(w) \/ RecordFoldAttempt(w)
      PROVE  ChargeInv'
  <2>1. CASE Finish(w)
    BY <1>3, <2>1
  <2>2. CASE Goto(w, "isolate") /\ UNCHANGED job_vars
    BY <1>1, <1>4, <2>2 DEF TypeOK
  <2> QED
    BY <1>8, <2>1, <2>2 DEF MarkFolded, RecordFoldAttempt, Reply
<1>9. ASSUME NEW w \in Worker, Raise(w)
      PROVE  ChargeInv'
  BY <1>1, <1>2, <1>9 DEF Raise, ChargeInv, SweepAt, TypeOK
<1>10. ASSUME NEW w \in Worker, Isolate(w)
       PROVE  ChargeInv'
  <2>1. CASE Finish(w)
    BY <1>3, <2>1
  <2>2. ASSUME NEW e \in rest[w],
               Goto(w, "begin"),
               rows' = [rows EXCEPT ![w] = {e}],
               alone' = [alone EXCEPT ![w] = TRUE],
               UNCHANGED batch
        PROVE  ChargeInv'
    <3>1. e \in Event
      BY <1>1 DEF TypeOK
    <3>2. CASE w = Sweeper
      BY <1>1, <2>2, <3>1, <3>2 DEF ChargeInv, SweepAt, TypeOK
    <3>3. CASE w # Sweeper
      BY <1>1, <1>2, <2>2, <3>3 DEF TypeOK
    <3> QED
      BY <3>2, <3>3
  <2> QED
    BY <1>10, <2>1, <2>2 DEF Isolate
<1>11. ASSUME NEW w \in Worker, Crash(w)
       PROVE  ChargeInv'
  BY <1>3, <1>11 DEF Crash
<1>12. CASE StartPass \/ DeployFix \/ UNCHANGED vars
  BY <1>2, <1>12 DEF StartPass, DeployFix, vars
<1>13. CASE SweepTenant
  BY <1>1, <1>13 DEF SweepTenant, ChargeInv, SweepAt, TypeOK
<1>14. ASSUME NEW w \in Worker, RaisePoison(w) \/ RaiseTransient(w)
       PROVE  ChargeInv'
  BY <1>9, <1>14 DEF RaisePoison, RaiseTransient
<1> QED
  BY <1>5, <1>6, <1>7, <1>8, <1>10, <1>11, <1>12, <1>13, <1>14 DEF Next, FoldStep

\* It holds in a fresh installation.
LEMMA ChargeInit == Init => ChargeInv
BY TypeInit DEF Init, ChargeInv, SweepAt, Worker

\* attempts grow only in record_fold_attempt.
LEMMA ChargedByRecord ==
    ASSUME TypeOK, [Next]_vars, NEW e \in Event, attempts'[e] # attempts[e]
    PROVE  \E w \in Worker : RecordFoldAttempt(w) /\ e \in rows[w] \ folded
<1>1. attempts' # attempts
  OBVIOUS
<1>2. \E w \in Worker : RecordFoldAttempt(w)
  BY <1>1 DEF Next, FoldStep, Ingest, Claim, BeginCount, CommitCount, Project,
     MarkFolded, RaisePoison, RaiseTransient, Raise, Isolate, Crash, StartPass,
     SweepTenant, DeployFix, vars, rows_vars
<1> QED
  BY <1>2 DEF RecordFoldAttempt, TypeOK

\* Only a fold that included a pending row and raised is charged to it, and the
\* sweeper's whole-set attempt to nobody (record_fold_attempt, sweep_tenant).
THEOREM OnlyFailuresAreCharged == Spec => AttemptsOnlyOnFailure
<1>1. Init => ChargeInv
  BY ChargeInit
<1>2. ChargeInv /\ [Next]_vars => ChargeInv'
  BY ChargeStep
<1>3. ASSUME ChargeInv, [Next]_vars, NEW e \in Event, attempts'[e] # attempts[e]
      PROVE  /\ e \notin folded
             /\ \E w \in Worker :
                  /\ phase[w] = "failed"
                  /\ e \in rows[w]
                  /\ w = Sweeper => rows[w] = {e}
  <2>1. PICK w \in Worker : RecordFoldAttempt(w) /\ e \in rows[w] \ folded
    BY <1>3, ChargedByRecord DEF ChargeInv
  <2>2. w = Sweeper => rows[w] = {e}
    BY <1>3, <2>1 DEF RecordFoldAttempt, ChargeInv, SweepAt
  <2> QED
    BY <2>1, <2>2 DEF RecordFoldAttempt
<1>4. ChargeInv /\ [Next]_vars =>
        [\A e \in Event : attempts'[e] # attempts[e] =>
          /\ e \notin folded
          /\ \E w \in Worker :
               /\ phase[w] = "failed"
               /\ e \in rows[w]
               /\ w = Sweeper => rows[w] = {e}]_vars
  BY <1>3
<1> QED
  BY <1>1, <1>2, <1>4, PTL DEF Spec, AttemptsOnlyOnFailure

\* A row that was folded stays folded, and one out of attempts stays so: nothing a
\* step does takes the answer to an acknowledged event back.
Settles ==
    /\ Stored \subseteq Stored' /\ folded \subseteq folded'
    /\ \A e \in Event : attempts[e] = MaxAttempts => attempts'[e] = MaxAttempts

\* Every step of the ingest path only settles more events.
LEMMA StepSettles == TypeOK /\ [Next]_vars => Settles
<1> SUFFICES ASSUME TypeOK, [Next]_vars
             PROVE  Settles
  OBVIOUS
<1>1. Stored \subseteq Stored'
  BY StepGrows DEF Grows
<1>2. folded \subseteq folded'
  BY DEF Next, FoldStep, Ingest, Claim, BeginCount, CommitCount, Project,
     MarkFolded, RaisePoison, RaiseTransient, Raise, RecordFoldAttempt, Isolate,
     Crash, StartPass, SweepTenant, DeployFix, vars, rows_vars
<1>3. ASSUME NEW e \in Event, attempts[e] = MaxAttempts
      PROVE  attempts'[e] = MaxAttempts
  BY <1>3, ChargedByRecord DEF RecordFoldAttempt, TypeOK
<1> QED
  BY <1>1, <1>2, <1>3 DEF Settles

\* A worker that does not move keeps what is known of its batch.
LEMMA BatchFrame ==
    ASSUME Settles, NEW w \in Worker, batch[w] \subseteq Event, BatchAt(w),
           phase'[w] = phase[w], tenant'[w] = tenant[w], batch'[w] = batch[w],
           rows'[w] = rows[w], alone'[w] = alone[w]
    PROVE  BatchAt(w)'
BY DEF Settles, BatchAt

\* The invariant behind AckedIsFolded is inductive as long as the backlog fits:
\* the claim that follows insert_events sees the whole batch, and a reply is sent
\* only from an empty claim or from mark_folded.
LEMMA AckStep ==
    ASSUME BacklogFits, AckInv, [Next]_vars
    PROVE  AckInv'
<1>1. TypeOK /\ TypeOK' /\ SweepAt /\ ChargeInv' /\ Settles
  BY ChargeStep, StepSettles DEF AckInv, ChargeInv
<1>2. \A w \in Request : BatchAt(w) /\ w \in Worker /\ w # Sweeper
  BY DEF AckInv, Worker
<1>3. \A w \in Worker : batch[w] \subseteq Event /\ rows[w] \subseteq Event
  BY <1>1 DEF TypeOK
<1> DEFINE Same(v) == /\ phase'[v] = phase[v] /\ tenant'[v] = tenant[v]
                      /\ batch'[v] = batch[v] /\ rows'[v] = rows[v]
                      /\ alone'[v] = alone[v]
           Settled(e) == e \in folded' \/ attempts'[e] = MaxAttempts
<1>4. ASSUME NEW w \in Worker, w \in Request => BatchAt(w)',
             \A v \in Worker \ {w} : Same(v)
      PROVE  \A v \in Request : BatchAt(v)'
  BY <1>1, <1>2, <1>3, <1>4, BatchFrame
<1>5. ASSUME NEW w \in Worker, acked' = acked \/ acked' = acked \cup batch[w],
             acked' # acked => \A e \in batch[w] : Settled(e)
      PROVE  AckedIsFolded'
  BY <1>1, <1>5 DEF AckInv, AckedIsFolded, Settles, TypeOK
<1>6. ASSUME NEW w \in Worker, w \in Request => BatchAt(w)',
             \A v \in Worker \ {w} : Same(v),
             acked' = acked \/ acked' = acked \cup batch[w],
             acked' # acked => \A e \in batch[w] : Settled(e)
      PROVE  AckInv'
  BY <1>1, <1>4, <1>5, <1>6 DEF AckInv
<1> HIDE DEF Settled
<1> USE DEF rows_vars, derived_vars, job_vars, Goto
<1>7. ASSUME NEW w \in Worker, Finish(w)
      PROVE  (w \in Request => BatchAt(w)') /\ \A v \in Worker \ {w} : Same(v)
  BY <1>1, <1>7 DEF Finish, BatchAt, Later, TypeOK
<1>8. ASSUME NEW w \in Request, NEW t \in Tenant, NEW events \in SUBSET Event,
             Ingest(w, t, events)
      PROVE  AckInv'
  <2>1. Stored' = Stored \cup events
    BY <1>1, <1>8, IngestIds
  <2>2. BatchAt(w)'
    BY <1>1, <1>2, <1>8, <2>1 DEF Ingest, BatchAt, Later, TypeOK
  <2>3. \A v \in Worker \ {w} : Same(v)
    BY <1>1, <1>8 DEF Ingest, TypeOK
  <2> QED
    BY <1>2, <1>6, <1>8, <2>2, <2>3 DEF Ingest
<1>9. ASSUME NEW w \in Worker, Claim(w)
      PROVE  AckInv'
  <2> DEFINE claimed == Oldest(Claimable(w))
  <2>1. claimed = Claimable(w)
    BY <1>1, ClaimIsWhole DEF Claimable, TypeOK
  <2>2. \A e \in batch[w] : e \in claimed \/ e \in folded \/ attempts[e] = MaxAttempts
    <3>1. CASE w = Sweeper
      BY <1>1, <3>1 DEF SweepAt
    <3>2. CASE w \in Request
      <4>1. \A e \in batch[w] : e \in Stored /\ TenantOf[e] = tenant[w]
        BY <1>2, <1>9, <3>2 DEF BatchAt, Claim
      <4>2. \A e \in batch[w] : attempts[e] < MaxAttempts \/ attempts[e] = MaxAttempts
        <5>1. \A e \in Event : attempts[e] \in 0..MaxAttempts
          BY <1>1 DEF TypeOK
        <5>2. batch[w] \subseteq Event
          BY <1>3
        <5> QED
          BY <5>1, <5>2
      <4> QED
        BY <2>1, <4>1, <4>2 DEF Claimable, Pending
    <3> QED
      BY <3>1, <3>2 DEF Worker
  <2> HIDE DEF claimed
  <2>3. CASE Finish(w) /\ UNCHANGED acked
    BY <1>6, <1>7, <2>3
  <2>4. CASE claimed = {} /\ Reply(w)
    <3>1. \A e \in batch[w] : Settled(e)
      BY <1>1, <1>3, <2>2, <2>4 DEF Settles, Settled
    <3> QED
      BY <1>6, <1>7, <2>4, <3>1 DEF Reply
  <2>5. CASE /\ Goto(w, "begin")
             /\ rows' = [rows EXCEPT ![w] = claimed]
             /\ UNCHANGED <<tenant, batch, snap, rest, alone, acked>>
    <3>1. \A v \in Worker \ {w} : Same(v)
      BY <1>1, <2>5 DEF TypeOK
    <3>2. phase'[w] = "begin" /\ rows'[w] = claimed
      BY <1>1, <2>5 DEF TypeOK
    <3>3. w \in Request => BatchAt(w)'
      BY <1>1, <1>2, <1>3, <2>2, <2>5, <3>2 DEF Settles, BatchAt, Later
    <3> QED
      BY <1>6, <2>5, <3>1, <3>3
  <2> QED
    BY <1>9, <2>3, <2>4, <2>5 DEF Claim, claimed
<1>10. ASSUME NEW w \in Worker, BeginCount(w) \/ CommitCount(w) \/ Project(w)
       PROVE  AckInv'
  <2>1. /\ UNCHANGED <<tenant, batch, rows, alone, acked>>
        /\ \A v \in Worker \ {w} : Same(v)
    BY <1>1, <1>10 DEF BeginCount, CommitCount, Project, TypeOK
  <2>2. /\ phase[w] \in {"begin", "count", "mark"} \cup Later
        /\ phase'[w] \in {"begin", "count", "mark"} \cup Later
    BY <1>1, <1>10 DEF BeginCount, CommitCount, Project, NextStep, Later, TypeOK
  <2>3. w \in Request => BatchAt(w)'
    BY <1>1, <1>2, <1>3, <2>1, <2>2 DEF Settles, BatchAt, Later
  <2> QED
    BY <1>6, <2>1, <2>3
<1>11. ASSUME NEW w \in Worker, MarkFolded(w)
       PROVE  AckInv'
  <2>1. CASE alone[w] /\ Goto(w, "isolate") /\ UNCHANGED <<job_vars, acked>>
    <3>1. w \notin Request
      BY <1>2, <2>1 DEF BatchAt
    <3>2. \A v \in Worker \ {w} : Same(v)
      BY <1>1, <2>1 DEF TypeOK
    <3> QED
      BY <1>6, <2>1, <3>1, <3>2
  <2>2. CASE Reply(w)
    <3>1. \A e \in batch[w] : Settled(e)
      <4>1. \A e \in batch[w] : e \in rows[w] \/ e \in folded \/ attempts[e] = MaxAttempts
        BY <1>1, <1>2, <1>11 DEF MarkFolded, BatchAt, SweepAt, Worker
      <4> QED
        BY <1>1, <1>3, <1>11, <4>1 DEF MarkFolded, Settles, Settled
    <3> QED
      BY <1>6, <1>7, <2>2, <3>1 DEF Reply
  <2> QED
    BY <1>11, <2>1, <2>2 DEF MarkFolded
<1>12. ASSUME NEW w \in Worker, Raise(w)
       PROVE  AckInv'
  <2>1. /\ UNCHANGED <<tenant, batch, rows, alone, acked>>
        /\ \A v \in Worker \ {w} : Same(v)
        /\ w # Sweeper => phase'[w] = "failed"
    BY <1>1, <1>12 DEF Raise, TypeOK
  <2>2. w \in Request => BatchAt(w)'
    BY <1>2, <2>1 DEF BatchAt, Later
  <2> QED
    BY <1>6, <2>1, <2>2
<1>13. ASSUME NEW w \in Worker, RecordFoldAttempt(w)
       PROVE  AckInv'
  <2>1. CASE alone[w] /\ Goto(w, "isolate") /\ UNCHANGED job_vars
    <3>1. w \notin Request
      BY <1>2, <2>1 DEF BatchAt
    <3>2. \A v \in Worker \ {w} : Same(v)
      BY <1>1, <2>1 DEF TypeOK
    <3> QED
      BY <1>6, <1>13, <3>1, <3>2 DEF RecordFoldAttempt
  <2>2. CASE Finish(w)
    BY <1>6, <1>7, <1>13, <2>2 DEF RecordFoldAttempt
  <2> QED
    BY <1>13, <2>1, <2>2 DEF RecordFoldAttempt
<1>14. ASSUME NEW w \in Worker, Isolate(w)
       PROVE  AckInv'
  <2>1. w \notin Request
    BY <1>2, <1>14 DEF Isolate, BatchAt
  <2>2. \A v \in Worker \ {w} : Same(v)
    BY <1>1, <1>14 DEF Isolate, Finish, TypeOK
  <2> QED
    BY <1>6, <1>14, <2>1, <2>2 DEF Isolate
<1>15. ASSUME NEW w \in Worker, Crash(w)
       PROVE  AckInv'
  BY <1>6, <1>7, <1>15 DEF Crash
<1>16. ASSUME UNCHANGED <<batch, rows, alone, acked>>,
              \A v \in Request : phase'[v] = phase[v] /\ tenant'[v] = tenant[v]
       PROVE  AckInv'
  <2>1. \A v \in Request : BatchAt(v)'
    BY <1>1, <1>2, <1>3, <1>16, BatchFrame
  <2>2. AckedIsFolded'
    BY <1>1, <1>16 DEF AckInv, AckedIsFolded, Settles, TypeOK
  <2> QED
    BY <1>1, <2>1, <2>2 DEF AckInv
<1>17. CASE StartPass \/ DeployFix \/ UNCHANGED vars
  BY <1>16, <1>17 DEF StartPass, DeployFix, vars
<1>18. CASE SweepTenant
  BY <1>1, <1>2, <1>16, <1>18 DEF SweepTenant, TypeOK
<1>19. ASSUME NEW w \in Worker, RaisePoison(w) \/ RaiseTransient(w)
       PROVE  AckInv'
  BY <1>12, <1>19 DEF RaisePoison, RaiseTransient
<1> QED
  BY <1>8, <1>9, <1>10, <1>11, <1>13, <1>14, <1>15, <1>17, <1>18, <1>19
     DEF Next, FoldStep

\* As long as no tenant's backlog exceeds one claim, every event of a batch that
\* was answered with 200 is folded or was quarantined by earlier failures.
THEOREM AnsweredBatchesAreFolded == Spec /\ []BacklogFits => []AckedIsFolded
<1>1. Init => AckInv
  BY ChargeInit DEF Init, AckInv, BatchAt, AckedIsFolded, Later, Worker
<1>2. BacklogFits /\ AckInv /\ [Next]_vars => AckInv'
  BY AckStep
<1>3. AckInv => AckedIsFolded
  BY DEF AckInv
<1> QED
  BY <1>1, <1>2, <1>3, PTL DEF Spec

-----------------------------------------------------------------------------
(***************************************************************************)
(* What the projections make of the rows (module Inventory), for any       *)
(* folds, events, registrations and failures.  No theorem speaks of both   *)
(* specifications: what the ledger calls rows, counted and folded are sets *)
(* of events, sdkEvents, countedIds and foldedIds are the table and ids.   *)
(***************************************************************************)
HIDE ConstantsAssumption

\* Induction up to a bound, on a set.
LEMMA Climb ==
    ASSUME NEW n \in Nat, NEW S, 0 \in S, \A k \in 1..n : k - 1 \in S => k \in S
    PROVE  \A k \in 0..n : k \in S
<1> DEFINE Bad == {k \in 0..n : k \notin S}
           R == OpToRel(<, Nat)
<1>1. SUFFICES ASSUME Bad # {} PROVE FALSE
  OBVIOUS
<1>2. IsWellFoundedOn(R, Nat)
  BY NatLessThanWellFounded
<1>3. \A x, y \in Nat : x < y => <<x, y>> \in R
  BY DEF OpToRel
<1>4. Bad \subseteq Nat
  OBVIOUS
<1> HIDE DEF R
<1>5. PICK m \in Bad : \A y \in Bad : <<y, m>> \notin R
  <2> HIDE DEF Bad
  <2> QED
    BY <1>1, <1>2, <1>4, WFMin
<1>6. m \in 1..n /\ m - 1 \in 0..n /\ m - 1 < m /\ m - 1 \in Nat
  BY <1>5
<1>7. m - 1 \in S
  BY <1>3, <1>4, <1>5, <1>6
<1> QED
  BY <1>5, <1>6, <1>7

IsWalk(h, n, T, base, g) ==
    /\ h \in [0..n -> T] /\ h[0] = base
    /\ \A k \in 1..n : h[k] = g[<<k, h[k - 1]>>]

\* A value taken along the rows, one at a time, exists for every number of them.
LEMMA WalkExists ==
    ASSUME NEW n \in Nat, NEW T, NEW base \in T, NEW g \in [(1..n) \X T -> T]
    PROVE  \E h : IsWalk(h, n, T, base, g)
<1> DEFINE Up(m, h) == h[0] = base /\ \A k \in 1..m : h[k] = g[<<k, h[k - 1]>>]
           S == {m \in 0..n : \E h \in [0..m -> T] : Up(m, h)}
<1>1. 0 \in S
  <2> DEFINE h == [k \in 0..0 |-> base]
  <2>1. h \in [0..0 -> T] /\ Up(0, h)
    OBVIOUS
  <2> HIDE DEF h, Up
  <2> QED
    BY <2>1
<1>2. ASSUME NEW m \in 1..n, m - 1 \in S PROVE m \in S
  <2>1. PICK h \in [0..(m - 1) -> T] : Up(m - 1, h)
    BY <1>2
  <2> DEFINE j == [k \in 0..m |-> IF k = m THEN g[<<m, h[m - 1]>>] ELSE h[k]]
  <2>2. m - 1 \in 0..(m - 1) /\ h[m - 1] \in T /\ <<m, h[m - 1]>> \in (1..n) \X T
    OBVIOUS
  <2>3. \A k \in 0..m : k # m => k \in 0..(m - 1)
    OBVIOUS
  <2>4. j \in [0..m -> T]
    BY <2>2, <2>3
  <2>5. ASSUME NEW k \in 1..m PROVE j[k] = g[<<k, j[k - 1]>>]
    <3>1. CASE k = m
      <4>1. j[k - 1] = h[m - 1] /\ j[k] = g[<<m, h[m - 1]>>]
        BY <3>1
      <4> QED
        BY <3>1, <4>1
    <3>2. CASE k # m
      <4>1. k \in 1..(m - 1) /\ k - 1 \in 0..m /\ k - 1 # m
        BY <3>2
      <4>2. j[k] = h[k] /\ j[k - 1] = h[k - 1]
        BY <3>2, <4>1
      <4> QED
        BY <2>1, <4>1, <4>2
    <3> QED
      BY <3>1, <3>2
  <2>6. j[0] = base
    BY <2>1
  <2>7. Up(m, j)
    BY <2>5, <2>6
  <2> HIDE DEF j, Up
  <2> QED
    BY <2>4, <2>7
<1> HIDE DEF S
<1>3. n \in S
  BY <1>1, <1>2, Climb
<1> QED
  BY <1>3 DEF S, IsWalk

-----------------------------------------------------------------------------
(* The tables and the jobs, with the columns that TypeOK leaves open.       *)
Tables ==
    [application : Row,
     workflows : [Flow -> Row],
     models : [Provider \cup {None} -> Row],
     providers : [Provider -> Row],
     risks : [BOOLEAN -> [Risk -> SUBSET Trace]],
     controls : [Controlled -> Nat],
     observed : SUBSET Events]

Payload == {None} \cup SUBSET UNION {Labels(e) : e \in Events}

IncidentStatus == {None, "closed"} \cup {e.label : e \in Events}

Registered == {None} \cup AgentRow

JobRow ==
    [at : {"idle", "count", "prompts", "isnew", "incidents", "fingerprint", "compare",
           "upsert", "registry", "posture", "mark"},
     batch : SUBSET (1..Len(sdkEvents)), fresh : BOOLEAN, base : Payload, was : Payload,
     registry : Registered]

Change == Payload \X Payload

LifecycleRow ==
    [fingerprint : Payload, changes : SUBSET Change,
     tasks : SUBSET [change : Change, priority : {"high", "medium"}]]

\* A fold that is past the count works on counted rows.
PastCount == \A f \in Fold : job[f].at \notin {"idle", "count"} => job[f].batch \subseteq countedIds

StoreInv ==
    /\ sdkEvents \in Seq(Events) /\ unsent \subseteq Events
    /\ countedIds \subseteq 1..Len(sdkEvents) /\ foldedIds \subseteq countedIds
    /\ tables \in Tables
    /\ PastCount

TableInv ==
    /\ job \in [Fold -> JobRow]
    /\ incident \in [status : IncidentStatus, announced : Nat]
    /\ lifecycle \in LifecycleRow
    /\ {t.change : t \in lifecycle.tasks} = lifecycle.changes
    /\ registered \in Registered /\ held \subseteq Registered
    /\ findings \subseteq AgentRule

(***************************************************************************)
(* The upserts keep the tables' types.                                     *)
(***************************************************************************)
EventFacts(e) ==
    /\ e.type \in EventType /\ e.tokens \in Nat
    /\ e.named \in BOOLEAN /\ e.error \in BOOLEAN
    /\ e.flow \in Flow /\ e.trace \in Trace
    /\ e.provider \in Provider \cup {None}
    /\ e.type = "incident.event" => e.label # None

LEMMA EventsAreRows ==
    ASSUME InventoryConstants, NEW e \in Events
    PROVE  EventFacts(e)
<1>1. e.type \in EventType /\ e.tokens \in Nat /\ e.named \in BOOLEAN
      /\ e.error \in BOOLEAN /\ (e.type = "incident.event" => e.label # None)
  BY DEF InventoryConstants
<1>2. e.flow \in Flow /\ e.trace \in Trace
  BY DEF Flow, Trace
<1>3. e.provider \in Provider \cup {None}
  BY DEF Provider, Given
<1> QED
  BY <1>1, <1>2, <1>3 DEF EventFacts

LEMMA BumpType ==
    ASSUME NEW e, EventFacts(e), NEW row \in Row
    PROVE  Bump(row, e) \in Row
<1>1. MergeSets(row.providers, e.provider) \in SUBSET Provider
  BY DEF MergeSets, Given, EventFacts, Row
<1>2. One(IsCall(e)) \in Nat /\ One(e.error) \in Nat
  BY DEF One
<1>3. row.calls \in Nat /\ row.errors \in Nat /\ row.tokens \in Nat
  BY DEF Row
<1> QED
  BY <1>1, <1>2, <1>3 DEF Bump, EventFacts, Row

LEMMA SampleType ==
    ASSUME NEW e, EventFacts(e), NEW traces \in SUBSET Trace
    PROVE  Sample(traces, e) \in SUBSET Trace
  BY DEF Sample, OnlyIf, EventFacts

\* One column replaced leaves the others.
Kept(new, old, changed) ==
    /\ changed # "application" => new.application = old.application
    /\ changed # "workflows" => new.workflows = old.workflows
    /\ changed # "models" => new.models = old.models
    /\ changed # "providers" => new.providers = old.providers
    /\ changed # "risks" => new.risks = old.risks
    /\ changed # "controls" => new.controls = old.controls
    /\ changed # "observed" => new.observed = old.observed

LEMMA ApplicationUpsert ==
    ASSUME NEW e, EventFacts(e), NEW inv \in Tables,
           NEW new, new = UpsertApplication(inv, e)
    PROVE  /\ new \in Tables /\ Kept(new, inv, "application")
           /\ new.application =
                IF e.named THEN Bump(inv.application, e) ELSE inv.application
<1>1. Bump(inv.application, e) \in Row
  BY BumpType DEF Tables
<1> QED
  BY <1>1 DEF UpsertApplication, OnlyIf, Tables, Kept

LEMMA WorkflowUpsert ==
    ASSUME NEW e, EventFacts(e), NEW inv \in Tables,
           NEW new, new = UpsertWorkflow(inv, e)
    PROVE  /\ new \in Tables /\ Kept(new, inv, "workflows")
           /\ \A w \in Flow : new.workflows[w] =
                IF w = e.flow /\ (e.flow # None \/ IsCall(e))
                THEN Bump(inv.workflows[w], e) ELSE inv.workflows[w]
<1>1. e.flow \in Flow /\ inv.workflows \in [Flow -> Row]
  BY DEF Tables, EventFacts
<1>2. Bump(inv.workflows[e.flow], e) \in Row
  BY <1>1, BumpType
<1> DEFINE table == [inv.workflows EXCEPT ![e.flow] = Bump(@, e)]
<1>3. table \in [Flow -> Row]
  BY <1>1, <1>2
<1>4. \A w \in Flow :
        table[w] = IF w = e.flow THEN Bump(inv.workflows[w], e) ELSE inv.workflows[w]
  BY <1>1
<1>5. new = IF e.flow # None \/ IsCall(e)
            THEN [inv EXCEPT !.workflows = table] ELSE inv
  BY DEF UpsertWorkflow, OnlyIf
<1> HIDE DEF table
<1> QED
  BY <1>3, <1>4, <1>5 DEF Tables, Kept

LEMMA ModelUpsert ==
    ASSUME NEW e, EventFacts(e), NEW inv \in Tables,
           NEW new, new = UpsertModel(inv, e)
    PROVE  /\ new \in Tables /\ Kept(new, inv, "models")
           /\ \A p \in Provider \cup {None} : new.models[p] =
                IF p = e.provider THEN Bump(inv.models[p], e) ELSE inv.models[p]
<1> DEFINE P == Provider \cup {None}
<1>1. e.provider \in P /\ inv.models \in [P -> Row]
  BY DEF Tables, EventFacts
<1>2. Bump(inv.models[e.provider], e) \in Row
  BY <1>1, BumpType
<1> DEFINE table == [inv.models EXCEPT ![e.provider] = Bump(@, e)]
<1>3. table \in [P -> Row]
  BY <1>1, <1>2
<1>4. \A p \in P :
        table[p] = IF p = e.provider THEN Bump(inv.models[p], e) ELSE inv.models[p]
  BY <1>1
<1>5. new = [inv EXCEPT !.models = table]
  BY DEF UpsertModel
<1> HIDE DEF table
<1> QED
  BY <1>3, <1>4, <1>5 DEF Tables, Kept

LEMMA ProviderUpsert ==
    ASSUME NEW e, EventFacts(e), NEW inv \in Tables,
           NEW new, new = UpsertProvider(inv, e)
    PROVE  /\ new \in Tables /\ Kept(new, inv, "providers")
           /\ \A p \in Provider : new.providers[p] =
                IF p = e.provider THEN Bump(inv.providers[p], e) ELSE inv.providers[p]
<1>1. inv.providers \in [Provider -> Row]
  BY DEF Tables
<1>2. None \notin Provider
  BY DEF Provider, Given
<1> DEFINE table == [inv.providers EXCEPT ![e.provider] = Bump(@, e)]
<1>3. CASE e.provider = None
  <2>1. new = inv
    BY <1>3 DEF UpsertProvider, OnlyIf
  <2> QED
    BY <2>1, <1>2, <1>3 DEF Kept
<1>4. CASE e.provider # None
  <2>1. e.provider \in Provider
    BY <1>4 DEF EventFacts
  <2>2. Bump(inv.providers[e.provider], e) \in Row
    BY <1>1, <2>1, BumpType
  <2>3. table \in [Provider -> Row]
    BY <1>1, <2>1, <2>2
  <2>4. \A p \in Provider : table[p] =
          IF p = e.provider THEN Bump(inv.providers[p], e) ELSE inv.providers[p]
    BY <1>1, <2>1
  <2>5. new = [inv EXCEPT !.providers = table]
    BY <1>4 DEF UpsertProvider, OnlyIf
  <2> HIDE DEF table
  <2> QED
    BY <2>3, <2>4, <2>5 DEF Tables, Kept
<1> QED
  BY <1>3, <1>4

LEMMA RiskUpsert ==
    ASSUME NEW e, EventFacts(e), NEW inv \in Tables, NEW risks,
           NEW new, new = UpsertRisk(inv, risks, e)
    PROVE  /\ new \in Tables /\ Kept(new, inv, "risks")
           /\ \A b \in BOOLEAN, r \in Risk : new.risks[b][r] =
                IF b = e.named /\ r \in risks THEN Sample(inv.risks[b][r], e)
                ELSE inv.risks[b][r]
<1> DEFINE column == [r \in Risk |->
                        IF r \in risks THEN Sample(inv.risks[e.named][r], e)
                        ELSE inv.risks[e.named][r]]
           table == [inv.risks EXCEPT ![e.named] = column]
<1>1. e.named \in BOOLEAN /\ inv.risks \in [BOOLEAN -> [Risk -> SUBSET Trace]]
  BY DEF Tables, EventFacts
<1>2. inv.risks[e.named] \in [Risk -> SUBSET Trace]
  BY <1>1
<1>3. column \in [Risk -> SUBSET Trace]
  <2> SUFFICES ASSUME NEW r \in Risk
      PROVE  (IF r \in risks THEN Sample(inv.risks[e.named][r], e)
              ELSE inv.risks[e.named][r]) \in SUBSET Trace
    OBVIOUS
  <2>1. inv.risks[e.named][r] \in SUBSET Trace
    BY <1>2
  <2> QED
    BY <2>1, SampleType
<1>4. new = [inv EXCEPT !.risks = table]
  BY DEF UpsertRisk, OnlyIf
<1>5. \A r \in Risk : column[r] =
        IF r \in risks THEN Sample(inv.risks[e.named][r], e) ELSE inv.risks[e.named][r]
  OBVIOUS
<1> HIDE DEF column
<1>6. table \in [BOOLEAN -> [Risk -> SUBSET Trace]]
  BY <1>1, <1>3
<1>7. \A b \in BOOLEAN : table[b] = IF b = e.named THEN column ELSE inv.risks[b]
  BY <1>1
<1> HIDE DEF table
<1>8. new \in Tables /\ Kept(new, inv, "risks") /\ new.risks = table
  BY <1>4, <1>6 DEF Tables, Kept
<1> QED
  BY <1>5, <1>7, <1>8

LEMMA ControlUpsert ==
    ASSUME NEW e, EventFacts(e), NEW inv \in Tables,
           NEW new, new = UpsertControl(inv, e)
    PROVE  /\ new \in Tables /\ Kept(new, inv, "controls")
           /\ \A t \in Controlled : new.controls[t] =
                IF t = e.type THEN inv.controls[t] + 1 ELSE inv.controls[t]
  BY DEF UpsertControl, OnlyIf, Tables, Kept

LEMMA ObservedUpsert ==
    ASSUME NEW e \in Events, NEW inv \in Tables,
           NEW new, new = UpsertObservedEvent(inv, e)
    PROVE  /\ new \in Tables /\ Kept(new, inv, "observed")
           /\ new.observed = inv.observed \cup (IF e.type \in Observable THEN {e} ELSE {})
  BY DEF UpsertObservedEvent, OnlyIf, Tables, Kept

\* The risks an event is evidence of.
Raised(e) ==
    {r \in Risk :
        \/ IsCall(e) /\ e.named /\ r \in ModelRisks(e)
        \/ e.type = "guardrail.decision" /\ e.failed /\ r = "guardrail"
        \/ e.type = "eval.result" /\ e.failed /\ r = "evaluation"}

\* The workflow an event belongs to, and the application.
InApplication(e) == e.type \in Runtime /\ e.named
InWorkflow(e, w) == e.flow = w /\ (IsCall(e) \/ (InApplication(e) /\ w # None))

\* What process_event changes, table by table.
LEMMA EventEffect ==
    ASSUME NEW e \in Events, EventFacts(e), NEW inv \in Tables,
           NEW new, new = ProcessEvent(inv, e)
    PROVE  /\ new \in Tables
           /\ new.application =
                IF InApplication(e) THEN Bump(inv.application, e) ELSE inv.application
           /\ \A w \in Flow : new.workflows[w] =
                IF InWorkflow(e, w) THEN Bump(inv.workflows[w], e) ELSE inv.workflows[w]
           /\ \A p \in Provider \cup {None} : new.models[p] =
                IF IsCall(e) /\ p = e.provider
                THEN Bump(inv.models[p], e) ELSE inv.models[p]
           /\ \A p \in Provider : new.providers[p] =
                IF IsCall(e) /\ p = e.provider
                THEN Bump(inv.providers[p], e) ELSE inv.providers[p]
           /\ \A b \in BOOLEAN, r \in Risk : new.risks[b][r] =
                IF b = e.named /\ r \in Raised(e) THEN Sample(inv.risks[b][r], e)
                ELSE inv.risks[b][r]
           /\ \A t \in Controlled : new.controls[t] =
                IF t = e.type THEN inv.controls[t] + 1 ELSE inv.controls[t]
           /\ new.observed = inv.observed \cup (IF e.type \in Observable THEN {e} ELSE {})
<1> DEFINE ran == e.type \in Runtime /\ (IsCall(e) \/ e.named)
           a == UpsertApplication(inv, e)
           w0 == UpsertWorkflow(a, e)
           known == IF ran THEN w0 ELSE inv
           m == UpsertModel(known, e)
           p0 == UpsertProvider(m, e)
           r0 == UpsertRisk(p0, ModelRisks(e), e)
           used == IF IsCall(e) THEN (IF e.named THEN r0 ELSE p0) ELSE known
           o == UpsertObservedEvent(used, e)
           c == UpsertControl(o, e)
           g0 == UpsertRisk(c, {"guardrail"}, e)
           g == IF e.type = "guardrail.decision" /\ e.failed THEN g0 ELSE c
           v0 == UpsertRisk(g, {"evaluation"}, e)
           v == IF e.type = "eval.result" /\ e.failed THEN v0 ELSE g
<1>1. new = v
  BY DEF ProcessEvent, OnlyIf, UpsertModelRisks,
         UpsertGuardrailRisk, UpsertEvalRisk
<1>2. IsCall(e) => e.type \in Runtime
  BY DEF IsCall, Runtime
<1>3. /\ known \in Tables
      /\ known.application =
           IF InApplication(e) THEN Bump(inv.application, e) ELSE inv.application
      /\ \A w \in Flow : known.workflows[w] =
           IF InWorkflow(e, w) THEN Bump(inv.workflows[w], e) ELSE inv.workflows[w]
      /\ known.models = inv.models /\ known.providers = inv.providers
      /\ known.risks = inv.risks /\ known.controls = inv.controls
      /\ known.observed = inv.observed
  <2>1. /\ a \in Tables /\ Kept(a, inv, "application")
        /\ a.application =
             IF e.named THEN Bump(inv.application, e) ELSE inv.application
    BY ApplicationUpsert
  <2> HIDE DEF a
  <2>2. /\ w0 \in Tables /\ Kept(w0, a, "workflows")
        /\ \A w \in Flow : w0.workflows[w] =
             IF w = e.flow /\ (e.flow # None \/ IsCall(e))
             THEN Bump(a.workflows[w], e) ELSE a.workflows[w]
    BY <2>1, WorkflowUpsert
  <2> HIDE DEF w0
  <2>3. CASE ran
    BY <1>2, <2>1, <2>2, <2>3 DEF Kept, InApplication, InWorkflow
  <2>4. CASE ~ran
    BY <1>2, <2>4 DEF InApplication, InWorkflow
  <2> QED
    BY <2>3, <2>4
<1> HIDE DEF known
<1>4. /\ used \in Tables
      /\ used.application = known.application /\ used.workflows = known.workflows
      /\ \A p \in Provider \cup {None} : used.models[p] =
           IF IsCall(e) /\ p = e.provider
           THEN Bump(inv.models[p], e) ELSE inv.models[p]
      /\ \A p \in Provider : used.providers[p] =
           IF IsCall(e) /\ p = e.provider
           THEN Bump(inv.providers[p], e) ELSE inv.providers[p]
      /\ \A b \in BOOLEAN, r \in Risk : used.risks[b][r] =
           IF IsCall(e) /\ e.named /\ b = e.named /\ r \in ModelRisks(e)
           THEN Sample(inv.risks[b][r], e) ELSE inv.risks[b][r]
      /\ used.controls = inv.controls /\ used.observed = inv.observed
  <2>1. /\ m \in Tables /\ Kept(m, known, "models")
        /\ \A p \in Provider \cup {None} : m.models[p] =
             IF p = e.provider THEN Bump(known.models[p], e) ELSE known.models[p]
    BY <1>3, ModelUpsert
  <2> HIDE DEF m
  <2>2. /\ p0 \in Tables /\ Kept(p0, m, "providers")
        /\ \A p \in Provider : p0.providers[p] =
             IF p = e.provider THEN Bump(m.providers[p], e) ELSE m.providers[p]
    BY <2>1, ProviderUpsert
  <2> HIDE DEF p0
  <2>3. /\ r0 \in Tables /\ Kept(r0, p0, "risks")
        /\ \A b \in BOOLEAN, r \in Risk : r0.risks[b][r] =
             IF b = e.named /\ r \in ModelRisks(e)
             THEN Sample(p0.risks[b][r], e) ELSE p0.risks[b][r]
    BY <2>2, RiskUpsert
  <2> HIDE DEF r0
  <2>4. CASE IsCall(e) /\ e.named
    <3>1. used = r0
      BY <2>4
    <3> HIDE DEF used
    <3>2. /\ r0.application = known.application /\ r0.workflows = known.workflows
          /\ r0.models = m.models /\ r0.providers = p0.providers
          /\ r0.controls = inv.controls /\ r0.observed = inv.observed
          /\ m.providers = inv.providers /\ p0.risks = inv.risks /\ known.models = inv.models
      BY <1>3, <2>1, <2>2, <2>3 DEF Kept
    <3>3. \A b \in BOOLEAN, r \in Risk : r0.risks[b][r] =
            IF IsCall(e) /\ e.named /\ b = e.named /\ r \in ModelRisks(e)
            THEN Sample(inv.risks[b][r], e) ELSE inv.risks[b][r]
      BY <2>3, <2>4, <3>2
    <3>4. /\ \A p \in Provider \cup {None} : r0.models[p] =
               IF IsCall(e) /\ p = e.provider
               THEN Bump(inv.models[p], e) ELSE inv.models[p]
          /\ \A p \in Provider : r0.providers[p] =
               IF IsCall(e) /\ p = e.provider
               THEN Bump(inv.providers[p], e) ELSE inv.providers[p]
      BY <2>1, <2>2, <2>4, <3>2
    <3> QED
      BY <2>3, <3>1, <3>2, <3>3, <3>4, Zenon
  <2>5. CASE IsCall(e) /\ ~e.named
    <3>1. used = p0
      BY <2>5
    <3> HIDE DEF used
    <3> QED
      BY <1>3, <2>1, <2>2, <2>5, <3>1 DEF Kept
  <2>6. CASE ~IsCall(e)
    <3>1. used = known
      BY <2>6
    <3> HIDE DEF used
    <3> QED
      BY <1>3, <2>6, <3>1
  <2> QED
    BY <2>4, <2>5, <2>6
<1> HIDE DEF used
<1>5. /\ o \in Tables /\ Kept(o, used, "observed")
      /\ o.observed = used.observed \cup (IF e.type \in Observable THEN {e} ELSE {})
  BY <1>4, ObservedUpsert
<1> HIDE DEF o
<1>6. /\ c \in Tables /\ Kept(c, o, "controls")
      /\ \A t \in Controlled : c.controls[t] =
           IF t = e.type THEN o.controls[t] + 1 ELSE o.controls[t]
  BY <1>5, ControlUpsert
<1> HIDE DEF c
<1>7. /\ g0 \in Tables /\ Kept(g0, c, "risks")
      /\ \A b \in BOOLEAN, r \in Risk : g0.risks[b][r] =
           IF b = e.named /\ r \in {"guardrail"}
           THEN Sample(c.risks[b][r], e) ELSE c.risks[b][r]
  BY <1>6, RiskUpsert
<1> HIDE DEF g0
<1>8. g \in Tables /\ Kept(g, c, "risks")
  BY <1>6, <1>7 DEF Kept
<1>9. /\ v0 \in Tables /\ Kept(v0, g, "risks")
      /\ \A b \in BOOLEAN, r \in Risk : v0.risks[b][r] =
           IF b = e.named /\ r \in {"evaluation"}
           THEN Sample(g.risks[b][r], e) ELSE g.risks[b][r]
  <2> HIDE DEF g
  <2> QED
    BY <1>8, RiskUpsert
<1> HIDE DEF v0
<1>10. v \in Tables /\ Kept(v, c, "risks")
  BY <1>8, <1>9 DEF Kept
<1>11. \A b \in BOOLEAN, r \in Risk : v.risks[b][r] =
         IF b = e.named /\ r \in Raised(e) THEN Sample(inv.risks[b][r], e)
         ELSE inv.risks[b][r]
  <2> SUFFICES ASSUME NEW b \in BOOLEAN, NEW r \in Risk
      PROVE  v.risks[b][r] =
               IF b = e.named /\ r \in Raised(e) THEN Sample(inv.risks[b][r], e)
               ELSE inv.risks[b][r]
    OBVIOUS
  <2>1. c.risks[b][r] = used.risks[b][r]
    BY <1>5, <1>6 DEF Kept
  <2>2. CASE IsCall(e)
    <3>1. v = c /\ (r \in Raised(e) <=> e.named /\ r \in ModelRisks(e))
      BY <2>2 DEF IsCall, Raised
    <3> HIDE DEF v
    <3> QED
      BY <1>4, <2>1, <2>2, <3>1
  <2>3. CASE e.type = "guardrail.decision" /\ e.failed
    <3>1. v = g0 /\ ~IsCall(e) /\ (r \in Raised(e) <=> r = "guardrail")
      BY <2>3 DEF IsCall, Raised
    <3> HIDE DEF v
    <3> QED
      BY <1>4, <1>7, <2>1, <3>1
  <2>4. CASE e.type = "eval.result" /\ e.failed
    <3>1. v = v0 /\ g = c /\ ~IsCall(e) /\ (r \in Raised(e) <=> r = "evaluation")
      BY <2>4 DEF IsCall, Raised
    <3> HIDE DEF v, g
    <3> QED
      BY <1>4, <1>9, <2>1, <3>1
  <2>5. CASE /\ ~IsCall(e) /\ ~(e.type = "guardrail.decision" /\ e.failed)
             /\ ~(e.type = "eval.result" /\ e.failed)
    <3>1. v = c /\ r \notin Raised(e)
      BY <2>5 DEF IsCall, Raised
    <3> HIDE DEF v
    <3> QED
      BY <1>4, <2>1, <2>5, <3>1
  <2> QED
    BY <2>2, <2>3, <2>4, <2>5
<1> HIDE DEF v
<1>12. /\ v.application = known.application /\ v.workflows = known.workflows
       /\ v.models = used.models /\ v.providers = used.providers
       /\ v.observed = o.observed /\ v.controls = c.controls
  BY <1>4, <1>5, <1>6, <1>10 DEF Kept
<1>13. \A t \in Controlled : v.controls[t] =
         IF t = e.type THEN inv.controls[t] + 1 ELSE inv.controls[t]
  BY <1>4, <1>5, <1>6, <1>12 DEF Kept
<1>14. /\ v.application =
            IF InApplication(e) THEN Bump(inv.application, e) ELSE inv.application
       /\ \A w \in Flow : v.workflows[w] =
            IF InWorkflow(e, w) THEN Bump(inv.workflows[w], e) ELSE inv.workflows[w]
       /\ v.observed = inv.observed \cup (IF e.type \in Observable THEN {e} ELSE {})
  BY <1>3, <1>4, <1>5, <1>12
<1>15. /\ \A p \in Provider \cup {None} : v.models[p] =
            IF IsCall(e) /\ p = e.provider
            THEN Bump(inv.models[p], e) ELSE inv.models[p]
       /\ \A p \in Provider : v.providers[p] =
            IF IsCall(e) /\ p = e.provider
            THEN Bump(inv.providers[p], e) ELSE inv.providers[p]
  BY <1>4, <1>12
<1> QED
  BY <1>1, <1>10, <1>11, <1>13, <1>14, <1>15

Follows(a, n, T, base, g) ==
    a[0] = base /\ \A k \in 1..n : a[k - 1] \in T => a[k] = g[<<k, a[k - 1]>>]

\* Whatever goes the same way ends in the same place.
LEMMA WalkUnique ==
    ASSUME NEW n \in Nat, NEW T, NEW base, NEW g, NEW h, IsWalk(h, n, T, base, g),
           NEW a, Follows(a, n, T, base, g)
    PROVE  a[n] = h[n]
<1> DEFINE S == {k \in 0..n : a[k] = h[k]}
<1> USE DEF IsWalk, Follows
<1>1. 0 \in S
  OBVIOUS
<1>2. ASSUME NEW k \in 1..n, k - 1 \in S PROVE k \in S
  <2>1. k - 1 \in 0..n /\ a[k - 1] = h[k - 1] /\ h[k - 1] \in T
    BY <1>2
  <2>2. a[k] = h[k]
    BY <2>1
  <2> QED
    BY <2>2
<1> HIDE DEF S
<1>3. \A k \in 0..n : k \in S
  BY <1>1, <1>2, Climb
<1> QED
  BY <1>3 DEF S

EventsFolded(inv, ids) == InOrder(ProcessEvent, inv, ids)

EventPath(h, n, inv, ids) ==
    /\ h \in [0..n -> Tables]
    /\ h[0] = inv
    /\ \A k \in 1..n : h[k] = IF k \in ids THEN ProcessEvent(h[k - 1], sdkEvents[k])
                               ELSE h[k - 1]
    /\ EventsFolded(inv, ids) = h[n]

\* process_events goes through its rows one by one.
LEMMA EventsWalk ==
    ASSUME InventoryConstants, sdkEvents \in Seq(Events),
           NEW n \in Nat, n = Len(sdkEvents), NEW inv \in Tables, NEW ids
    PROVE  \E h : EventPath(h, n, inv, ids)
<1> DEFINE Turn(k, t) == IF k \in ids THEN ProcessEvent(t, sdkEvents[k]) ELSE t
           g == [p \in (1..n) \X Tables |-> Turn(p[1], p[2])]
           Path(a) == [k \in 0..n |-> IF k = 0 THEN inv
                                      ELSE IF k \in ids
                                           THEN ProcessEvent(a[k - 1], sdkEvents[k])
                                           ELSE a[k - 1]]
           way == CHOOSE a : a = Path(a)
<1>1. \A k \in 1..n : \A t \in Tables : Turn(k, t) \in Tables
  <2> SUFFICES ASSUME NEW k \in 1..n, NEW t \in Tables PROVE Turn(k, t) \in Tables
    OBVIOUS
  <2>1. sdkEvents[k] \in Events
    OBVIOUS
  <2>2. EventFacts(sdkEvents[k])
    BY <2>1, EventsAreRows
  <2>3. ProcessEvent(t, sdkEvents[k]) \in Tables
    BY <2>1, <2>2, EventEffect
  <2> QED
    BY <2>3
<1>2. \A k \in 1..n : \A t \in Tables : g[<<k, t>>] = Turn(k, t)
  OBVIOUS
<1>3. g \in [(1..n) \X Tables -> Tables]
  BY <1>1
<1> HIDE DEF g, Turn
<1>4. PICK h : IsWalk(h, n, Tables, inv, g)
  BY <1>3, WalkExists
<1>i. /\ h \in [0..n -> Tables] /\ h[0] = inv
      /\ \A k \in 1..n : h[k] = g[<<k, h[k - 1]>>]
  BY <1>4 DEF IsWalk
<1>5. \A k \in 1..n : h[k] = Turn(k, h[k - 1])
  <2> SUFFICES ASSUME NEW k \in 1..n PROVE h[k] = Turn(k, h[k - 1])
    OBVIOUS
  <2>0. k - 1 \in 0..n
    OBVIOUS
  <2>1. h[k - 1] \in Tables
    BY <1>i, <2>0, Zenon
  <2>2. h[k] = g[<<k, h[k - 1]>>]
    BY <1>i
  <2>3. g[<<k, h[k - 1]>>] = Turn(k, h[k - 1])
    BY <1>2, <2>1, Zenon
  <2> QED
    BY <2>2, <2>3, Zenon
<1>6. h = Path(h)
  <2>1. \A k \in 0..n : h[k] = Path(h)[k]
    BY <1>i, <1>5 DEF Turn
  <2> QED
    BY <1>i, <2>1
<1>7. way = Path(way)
  <2> HIDE DEF Path
  <2> QED
    BY <1>6
<1>8. way[0] = inv /\ \A k \in 1..n : way[k] = Turn(k, way[k - 1])
  <2> HIDE DEF way
  <2>1. \A k \in 0..n : way[k] = Path(way)[k]
    BY <1>7
  <2> QED
    BY <2>1 DEF Turn
<1>9. EventsFolded(inv, ids) = way[n]
  BY Zenon DEF EventsFolded, InOrder
<1> HIDE DEF way
<1>10. way[n] = h[n]
  <2>1. Follows(way, n, Tables, inv, g)
    BY <1>2, <1>8 DEF Follows
  <2> HIDE DEF Path
  <2> QED
    BY <1>4, <2>1, WalkUnique
<1> QED
  BY <1>i, <1>5, <1>9, <1>10 DEF Turn, EventPath

\* An incident while its reports are taken: one that has no row yet is new to the
\* fold, and one that stands open was announced, before (m times) or by this fold;
\* a row that was there is not lost.
Told(m, was) ==
    {s \in [status : IncidentStatus, fresh : BOOLEAN, told : Nat] :
        /\ s.status = None => s.fresh /\ was = None
        /\ s.status \notin {None, "closed"} => m + s.told > 0}

LEMMA ReportTold ==
    ASSUME InventoryConstants, NEW e \in Events,
           e.type = "incident.event", NEW m \in Nat, NEW was, NEW s \in Told(m, was)
    PROVE  UpsertIncidentEvent(s, e) \in Told(m, was)
<1>1. e.label # None /\ e.label \in IncidentStatus /\ None # "closed"
  BY EventsAreRows DEF EventFacts, IncidentStatus, InventoryConstants
<1>2. s.status \in IncidentStatus /\ s.fresh \in BOOLEAN /\ s.told \in Nat
  BY DEF Told
<1> DEFINE new == IF s.status = "closed" THEN "closed" ELSE e.label
           told == s.told + (IF s.fresh /\ e.label # "closed" THEN 1 ELSE 0)
<1>3. new \in IncidentStatus /\ new # None /\ told \in Nat
  BY <1>1, <1>2 DEF IncidentStatus
<1>4. new # "closed" => m + told > 0
  <2>1. CASE s.status = None
    BY <1>1, <1>2, <2>1 DEF Told
  <2>2. CASE s.status = "closed"
    BY <2>2
  <2>3. CASE s.status \notin {None, "closed"}
    BY <1>2, <2>3 DEF Told
  <2> QED
    BY <2>1, <2>2, <2>3
<1>5. [status |-> new, fresh |-> FALSE, told |-> told] \in Told(m, was)
  <2> HIDE DEF new, told
  <2> QED
    BY <1>3, <1>4 DEF Told
<1>6. UpsertIncidentEvent(s, e) \in {s, [status |-> new, fresh |-> FALSE, told |-> told]}
  BY DEF UpsertIncidentEvent, OnlyIf, One
<1> QED
  BY <1>5, <1>6

ReportsFolded(base, ids) == InOrder(UpsertIncidentEvent, base, ids)

\* process_incident_events takes the reports one by one.
LEMMA IncidentWalk ==
    ASSUME InventoryConstants, sdkEvents \in Seq(Events),
           NEW n \in Nat, n = Len(sdkEvents), NEW m \in Nat, NEW was,
           NEW base \in Told(m, was),
           NEW ids, \A k \in ids : sdkEvents[k].type = "incident.event"
    PROVE  ReportsFolded(base, ids) \in Told(m, was)
<1> DEFINE Turn(k, t) == IF k \in ids THEN UpsertIncidentEvent(t, sdkEvents[k]) ELSE t
           T == Told(m, was)
           g == [p \in (1..n) \X T |-> Turn(p[1], p[2])]
           Path(a) == [k \in 0..n |-> IF k = 0 THEN base
                                      ELSE IF k \in ids
                                           THEN UpsertIncidentEvent(a[k - 1], sdkEvents[k])
                                           ELSE a[k - 1]]
           way == CHOOSE a : a = Path(a)
<1>1. \A k \in 1..n : \A t \in T : Turn(k, t) \in T
  <2> SUFFICES ASSUME NEW k \in 1..n, NEW t \in T PROVE Turn(k, t) \in T
    OBVIOUS
  <2>1. sdkEvents[k] \in Events
    OBVIOUS
  <2>2. k \in ids => UpsertIncidentEvent(t, sdkEvents[k]) \in T
    BY <2>1, ReportTold
  <2> QED
    BY <2>2
<1> HIDE DEF T
<1>2. \A k \in 1..n : \A t \in T : g[<<k, t>>] = Turn(k, t)
  OBVIOUS
<1>3. g \in [(1..n) \X T -> T] /\ base \in T
  BY <1>1 DEF T
<1> HIDE DEF g, Turn
<1>4. PICK h : IsWalk(h, n, T, base, g)
  BY <1>3, WalkExists
<1>i. /\ h \in [0..n -> T] /\ h[0] = base
      /\ \A k \in 1..n : h[k] = g[<<k, h[k - 1]>>]
  BY <1>4 DEF IsWalk
<1>5. \A k \in 1..n : h[k] = Turn(k, h[k - 1])
  <2> SUFFICES ASSUME NEW k \in 1..n PROVE h[k] = Turn(k, h[k - 1])
    OBVIOUS
  <2>0. k - 1 \in 0..n
    OBVIOUS
  <2>1. h[k - 1] \in T
    BY <1>i, <2>0, Zenon
  <2>2. h[k] = g[<<k, h[k - 1]>>]
    BY <1>i
  <2>3. g[<<k, h[k - 1]>>] = Turn(k, h[k - 1])
    BY <1>2, <2>1, Zenon
  <2> QED
    BY <2>2, <2>3, Zenon
<1>6. h = Path(h)
  <2>1. \A k \in 0..n : h[k] = Path(h)[k]
    BY <1>i, <1>5 DEF Turn
  <2> QED
    BY <1>i, <2>1
<1>7. way = Path(way)
  <2> HIDE DEF Path
  <2> QED
    BY <1>6
<1>8. way[0] = base /\ \A k \in 1..n : way[k] = Turn(k, way[k - 1])
  <2> HIDE DEF way
  <2>1. \A k \in 0..n : way[k] = Path(way)[k]
    BY <1>7
  <2> QED
    BY <2>1 DEF Turn
<1>9. ReportsFolded(base, ids) = way[n]
  BY Zenon DEF ReportsFolded, InOrder
<1> HIDE DEF way
<1>10. way[n] = h[n]
  <2>1. Follows(way, n, T, base, g)
    BY <1>2, <1>8 DEF Follows
  <2> HIDE DEF Path
  <2> QED
    BY <1>4, <2>1, WalkUnique
<1> QED
  BY <1>i, <1>9, <1>10 DEF T

-----------------------------------------------------------------------------
(* The types are inductive.                                                 *)
TelemetryInv == StoreInv /\ TableInv

LEMMA TelemetryInit == ASSUME InventoryConstants, InventoryInit PROVE TelemetryInv
<1> USE DEF InventoryInit
<1>1. sdkEvents = <<>> /\ Len(sdkEvents) = 0 /\ sdkEvents \in Seq(Events)
  OBVIOUS
<1>2. unsent \subseteq Events
  BY DEF Events
<1>3. NoRow \in Row
  BY DEF NoRow, Row
<1>4. tables \in Tables
  BY <1>3 DEF Empty, Tables
<1>5. NoJob \in JobRow /\ NoJob.at = "idle"
  BY DEF NoJob, JobRow, Payload, Registered
<1>6. job \in [Fold -> JobRow] /\ PastCount
  BY <1>5 DEF PastCount
<1>7. /\ incident \in [status : IncidentStatus, announced : Nat]
      /\ lifecycle \in LifecycleRow
      /\ {t.change : t \in lifecycle.tasks} = lifecycle.changes
  BY DEF NoIncident, NoLifecycle, IncidentStatus, LifecycleRow, Payload
<1>8. registered \in Registered
  BY DEF Registered, InventoryConstants
<1>9. StoreInv
  BY <1>1, <1>2, <1>4, <1>6 DEF StoreInv
<1>10. TableInv
  BY <1>6, <1>7, <1>8 DEF TableInv
<1> QED
  BY <1>9, <1>10 DEF TelemetryInv

\* What a fold's step leaves alone: it changes one job, and stored rows stay.
JobMoves(f, row) ==
    /\ job' = [job EXCEPT ![f] = row]
    /\ row.at \notin {"idle", "count"} => row.batch \subseteq countedIds'

LEMMA JobKept ==
    ASSUME StoreInv, TableInv, NEW f \in Fold, NEW row \in JobRow, JobMoves(f, row),
           sdkEvents' = sdkEvents, countedIds \subseteq countedIds'
    PROVE  job' \in [Fold -> JobRow'] /\ PastCount'
<1>1. JobRow' = JobRow
  BY DEF JobRow
<1>2. job' \in [Fold -> JobRow]
  BY DEF JobMoves, TableInv
<1>3. PastCount'
  <2> SUFFICES ASSUME NEW g \in Fold, job'[g].at \notin {"idle", "count"}
      PROVE  job'[g].batch \subseteq countedIds'
    BY DEF PastCount
  <2>1. CASE g = f
    BY <2>1 DEF JobMoves, TableInv
  <2>2. CASE g # f
    BY <2>2 DEF JobMoves, TableInv, StoreInv, PastCount
  <2> QED
    BY <2>1, <2>2
<1> QED
  BY <1>1, <1>2, <1>3

\* A step onwards: the job moves and keeps its batch.
LEMMA JobOnward ==
    ASSUME StoreInv, TableInv, NEW f \in Fold, NEW row \in JobRow,
           row.batch = job[f].batch, job[f].batch \subseteq countedIds' \/ row.at = "idle",
           job' = [job EXCEPT ![f] = row],
           sdkEvents' = sdkEvents, countedIds \subseteq countedIds'
    PROVE  job' \in [Fold -> JobRow'] /\ PastCount'
  BY JobKept DEF JobMoves

LEMMA JobIdle ==
    ASSUME StoreInv, TableInv, NEW f \in Fold, job' = [job EXCEPT ![f] = NoJob],
           sdkEvents' = sdkEvents, countedIds \subseteq countedIds'
    PROVE  job' \in [Fold -> JobRow'] /\ PastCount'
<1>1. NoJob \in JobRow /\ NoJob.at = "idle"
  BY DEF NoJob, JobRow, Payload, Registered
<1>2. JobMoves(f, NoJob)
  BY <1>1 DEF JobMoves
<1> QED
  BY <1>1, <1>2, JobKept

\* The store: rows are appended, counted and folded.
LEMMA StoreKept ==
    ASSUME StoreInv, sdkEvents' = sdkEvents, unsent' = unsent, tables' = tables,
           countedIds' = countedIds, foldedIds' = foldedIds, PastCount'
    PROVE  StoreInv'
<1>1. Tables' = Tables
  BY DEF Tables
<1> QED
  BY <1>1 DEF StoreInv

LEMMA TableKept ==
    ASSUME TableInv, job' \in [Fold -> JobRow'], incident' = incident, lifecycle' = lifecycle,
           registered' = registered, held' = held, findings' = findings
    PROVE  TableInv'
  BY DEF TableInv, LifecycleRow, Change, Payload, Registered, IncidentStatus

LEMMA LaterCounted ==
    ASSUME StoreInv, NEW f \in Fold, job[f].at \notin {"idle", "count"}
    PROVE  job[f].batch \subseteq countedIds
  BY DEF StoreInv, PastCount

\* Reports of an incident are of its type.
LEMMA ReportsOfType ==
    ASSUME NEW f \in Fold, NEW t
    PROVE  \A k \in OfType(f, t) : sdkEvents[k].type = t
  BY DEF OfType

LEMMA IngestKeeps ==
    ASSUME InventoryConstants, TelemetryInv, NEW e \in unsent, InsertEvent(e)
    PROVE  TelemetryInv'
<1> USE DEF InsertEvent
<1>1. e \in Events /\ sdkEvents' \in Seq(Events)
      /\ Len(sdkEvents') = Len(sdkEvents) + 1 /\ Len(sdkEvents) \in Nat
  BY DEF TelemetryInv, StoreInv
<1>2. 1..Len(sdkEvents) \subseteq 1..Len(sdkEvents')
  BY <1>1
<1>3. JobRow \subseteq JobRow'
  BY <1>2 DEF JobRow, Payload, Registered
<1>4. job' \in [Fold -> JobRow'] /\ PastCount'
  BY <1>3 DEF TelemetryInv, TableInv, StoreInv, PastCount, agent
<1>5. StoreInv'
  BY <1>1, <1>2, <1>4 DEF TelemetryInv, StoreInv, Tables
<1>6. TableInv'
  BY <1>4, TableKept DEF TelemetryInv, agent
<1> QED
  BY <1>5, <1>6 DEF TelemetryInv

LEMMA ClaimKeeps ==
    ASSUME TelemetryInv, NEW f \in Fold, ClaimUnfolded(f)
    PROVE  TelemetryInv'
<1> USE DEF ClaimUnfolded, state, agent
<1> DEFINE row == [NoJob EXCEPT !.at = "count", !.batch = DOMAIN sdkEvents \ foldedIds]
<1>a. PICK ids : ids = DOMAIN sdkEvents \ foldedIds
  OBVIOUS
<1>b. ids \subseteq 1..Len(sdkEvents)
  BY <1>a DEF TelemetryInv, StoreInv
<1>c. row = [NoJob EXCEPT !.at = "count", !.batch = ids]
  BY <1>a
<1>d. NoJob \in JobRow
  BY DEF NoJob, JobRow, Payload, Registered
<1>1. row \in JobRow /\ row.at = "count"
  BY <1>b, <1>c, <1>d DEF JobRow
<1>2. job' = [job EXCEPT ![f] = row]
  OBVIOUS
<1> HIDE DEF row
<1>3. JobMoves(f, row)
  BY <1>1, <1>2 DEF JobMoves
<1>4. job' \in [Fold -> JobRow'] /\ PastCount'
  BY <1>1, <1>3, JobKept DEF TelemetryInv
<1> QED
  BY <1>4, StoreKept, TableKept DEF TelemetryInv

LEMMA ProcessEventsKeeps ==
    ASSUME InventoryConstants, TelemetryInv, NEW f \in Fold, ProcessEvents(f)
    PROVE  TelemetryInv'
<1> USE DEF agent
<1> DEFINE ids == Uncounted(job[f].batch)
           step == AfterCount(f)
           row == [job[f] EXCEPT !.at = step]
<1>1. /\ tables' = EventsFolded(tables, ids)
      /\ countedIds' = countedIds \cup ids
      /\ job' = [job EXCEPT ![f].at = step]
      /\ sdkEvents' = sdkEvents /\ unsent' = unsent /\ foldedIds' = foldedIds
      /\ incident' = incident /\ lifecycle' = lifecycle
      /\ registered' = registered /\ held' = held /\ findings' = findings
  BY DEF ProcessEvents, GoOn, EventsFolded
<1>2. step \in {"prompts", "isnew", "fingerprint"}
  BY DEF AfterCount, AfterPrompts
<1>3. job[f] \in JobRow /\ ids = job[f].batch \ countedIds /\ job[f].batch \subseteq 1..Len(sdkEvents)
  BY DEF TelemetryInv, TableInv, JobRow, Uncounted
<1> HIDE DEF ids, step
<1>4. row \in JobRow /\ row.batch = job[f].batch
  BY <1>2, <1>3 DEF JobRow
<1>5. tables' \in Tables
  <2>1. PICK n \in Nat : n = Len(sdkEvents)
    BY DEF TelemetryInv, StoreInv
  <2>2. PICK h : EventPath(h, n, tables, ids)
    BY <2>1, EventsWalk DEF TelemetryInv, StoreInv
  <2> QED
    BY <1>1, <2>2 DEF EventPath
<1>6. job' \in [Fold -> JobRow'] /\ PastCount'
  <2>1. job' = [job EXCEPT ![f] = row]
    BY <1>1
  <2>2. job[f].batch \subseteq countedIds'
    BY <1>1, <1>3
  <2> HIDE DEF row
  <2> QED
    BY <1>1, <1>4, <2>1, <2>2, JobOnward DEF TelemetryInv
<1>7. StoreInv'
  BY <1>1, <1>3, <1>5, <1>6 DEF TelemetryInv, StoreInv, Tables
<1> QED
  BY <1>1, <1>6, <1>7, TableKept DEF TelemetryInv

\* A step that only moves a job past the count.
LEMMA MoveKeeps ==
    ASSUME TelemetryInv, NEW f \in Fold, job[f].at \notin {"idle", "count"}, NEW row \in JobRow,
           row.batch = job[f].batch, job' = [job EXCEPT ![f] = row],
           sdkEvents' = sdkEvents, unsent' = unsent, tables' = tables,
           countedIds' = countedIds, foldedIds' = foldedIds,
           incident' = incident, lifecycle' = lifecycle,
           registered' = registered, held' = held, findings' = findings
    PROVE  TelemetryInv'
<1>1. job' \in [Fold -> JobRow'] /\ PastCount'
  BY LaterCounted, JobOnward DEF TelemetryInv
<1> QED
  BY <1>1, StoreKept, TableKept DEF TelemetryInv

LEMMA PromptsKeeps ==
    ASSUME TelemetryInv, NEW f \in Fold, ProcessPromptEvents(f)
    PROVE  TelemetryInv'
<1> DEFINE step == AfterPrompts(f)
           row == [job[f] EXCEPT !.at = step]
<1>1. step \in {"isnew", "fingerprint"}
  BY DEF AfterPrompts
<1>2. job[f] \in JobRow
  BY DEF TelemetryInv, TableInv
<1>3. job[f].at = "prompts" /\ job' = [job EXCEPT ![f].at = step]
  BY DEF ProcessPromptEvents, At, GoOn
<1> HIDE DEF step
<1>4. row \in JobRow /\ row.batch = job[f].batch /\ job' = [job EXCEPT ![f] = row]
  BY <1>1, <1>2, <1>3 DEF JobRow
<1> HIDE DEF row
<1> QED
  BY <1>3, <1>4, MoveKeeps DEF ProcessPromptEvents, state, agent

LEMMA IsNewKeeps ==
    ASSUME TelemetryInv, NEW f \in Fold, IsNew(f)
    PROVE  TelemetryInv'
<1> USE DEF IsNew, At, state, agent
<1> DEFINE fresh == (incident.status = None)
           row == [job[f] EXCEPT !.at = "incidents", !.fresh = fresh]
<1>1. job[f] \in JobRow /\ fresh \in BOOLEAN
  BY DEF TelemetryInv, TableInv
<1>2. job' = [job EXCEPT ![f] = row]
  BY <1>1 DEF TelemetryInv, TableInv
<1> HIDE DEF fresh
<1>3. row \in JobRow /\ row.batch = job[f].batch
  BY <1>1 DEF JobRow
<1> HIDE DEF row
<1> QED
  BY <1>2, <1>3, MoveKeeps

LEMMA IncidentsKeep ==
    ASSUME InventoryConstants, TelemetryInv, NEW f \in Fold,
           ProcessIncidentEvents(f),
           NEW s \in [status : IncidentStatus, fresh : BOOLEAN, told : Nat],
           incident' = [status |-> s.status, announced |-> incident.announced + s.told]
    PROVE  TelemetryInv'
<1> USE DEF state, agent
<1> DEFINE row == [job[f] EXCEPT !.at = "fingerprint"]
<1>1. job[f] \in JobRow
  BY DEF TelemetryInv, TableInv
<1>2. /\ job[f].at = "incidents" /\ job' = [job EXCEPT ![f] = row]
      /\ sdkEvents' = sdkEvents /\ unsent' = unsent /\ tables' = tables
      /\ countedIds' = countedIds /\ foldedIds' = foldedIds /\ lifecycle' = lifecycle
      /\ registered' = registered /\ held' = held /\ findings' = findings
  BY DEF ProcessIncidentEvents, At, GoOn
<1>3. row \in JobRow /\ row.batch = job[f].batch
  BY <1>1 DEF JobRow
<1> HIDE DEF row
<1>4. job' \in [Fold -> JobRow'] /\ PastCount'
  BY <1>2, <1>3, LaterCounted, JobOnward DEF TelemetryInv
<1>5. incident' \in [status : IncidentStatus, announced : Nat]
  BY DEF TelemetryInv, TableInv
<1>6. StoreInv'
  BY <1>2, <1>4, StoreKept DEF TelemetryInv
<1>7. TableInv'
  BY <1>2, <1>4, <1>5
     DEF TelemetryInv, TableInv, LifecycleRow, Change, Payload, Registered, IncidentStatus
<1> QED
  BY <1>6, <1>7 DEF TelemetryInv

LEMMA CloseKeeps ==
    ASSUME TelemetryInv, CloseIncident
    PROVE  TelemetryInv' /\ incident' = [incident EXCEPT !.status = "closed"]
                         /\ incident.status # None /\ UNCHANGED job
<1> USE DEF state, agent
<1>1. /\ incident' = [incident EXCEPT !.status = "closed"] /\ incident.status # None
      /\ UNCHANGED <<state, agent, tables, prompts, lifecycle, findings, job>>
  BY DEF CloseIncident, IncidentStatusSet
<1>2. JobRow' = JobRow /\ PastCount'
  BY <1>1 DEF JobRow, PastCount, TelemetryInv, StoreInv
<1>3. StoreInv'
  BY <1>1, <1>2, StoreKept DEF TelemetryInv
<1>4. incident' \in [status : IncidentStatus, announced : Nat]
  BY <1>1 DEF TelemetryInv, TableInv, IncidentStatus
<1>5. TableInv'
  BY <1>1, <1>2, <1>4
     DEF TelemetryInv, TableInv, LifecycleRow, Change, Payload, Registered, IncidentStatus
<1> QED
  BY <1>1, <1>3, <1>5 DEF TelemetryInv

\* A payload is made of the labels of stored events.
LEMMA PayloadType ==
    ASSUME TelemetryInv, NEW ids \in SUBSET (1..Len(sdkEvents)), NEW stored \in Payload
    PROVE  MergePayload(stored, FingerprintPayload(ScopeOf(ids)))
             \in Payload
<1>1. ScopeOf(ids) \subseteq Events
  BY DEF ScopeOf, TelemetryInv, StoreInv
<1> DEFINE L == UNION {Labels(e) : e \in Events}
           fresh == FingerprintPayload(ScopeOf(ids))
<1>2. fresh \subseteq L
  BY <1>1 DEF FingerprintPayload
<1>3. Payload = {None} \cup SUBSET L
  BY DEF Payload
<1> HIDE DEF L, fresh
<1>4. MergePayload(stored, fresh) \in Payload
  BY <1>2, <1>3 DEF MergePayload
<1> QED
  BY <1>4 DEF fresh

LEMMA ReadFingerprintKeeps ==
    ASSUME TelemetryInv, NEW f \in Fold, ReadFingerprint(f)
    PROVE  TelemetryInv'
<1> USE DEF state, agent
<1> DEFINE base == MergePayload(lifecycle.fingerprint,
                     FingerprintPayload(ScopeOf(job[f].batch)))
           over == [job[f] EXCEPT !.at = "registry"]
           read == [job[f] EXCEPT !.at = "compare", !.base = base]
<1>1. job[f] \in JobRow /\ job \in [Fold -> JobRow] /\ lifecycle.fingerprint \in Payload
  BY DEF TelemetryInv, TableInv, LifecycleRow
<1>2. base \in Payload
  BY <1>1, PayloadType DEF JobRow
<1>3. job[f].at = "fingerprint"
  BY DEF ReadFingerprint, At
<1>4. UNCHANGED <<state, agent, tables, prompts, incident, lifecycle, findings>>
  BY DEF ReadFingerprint
<1>5. \/ job' = [job EXCEPT ![f].at = "registry"]
      \/ job' = [job EXCEPT ![f].at = "compare", ![f].base = base]
  BY DEF ReadFingerprint, GoOn
<1> HIDE DEF base
<1>6. job' = [job EXCEPT ![f] = over] \/ job' = [job EXCEPT ![f] = read]
  BY <1>1, <1>5
<1>7. /\ over \in JobRow /\ over.batch = job[f].batch
      /\ read \in JobRow /\ read.batch = job[f].batch
  BY <1>1, <1>2 DEF JobRow
<1> HIDE DEF over, read
<1> QED
  BY <1>3, <1>4, <1>6, <1>7, MoveKeeps

LEMMA ReadExistingKeeps ==
    ASSUME TelemetryInv, NEW f \in Fold, ReadExisting(f)
    PROVE  TelemetryInv'
<1> USE DEF ReadExisting, At, state, agent
<1> DEFINE row == [job[f] EXCEPT !.at = "upsert", !.was = lifecycle.fingerprint]
<1>1. job[f] \in JobRow /\ job \in [Fold -> JobRow] /\ lifecycle.fingerprint \in Payload
  BY DEF TelemetryInv, TableInv, LifecycleRow
<1>2. job' = [job EXCEPT ![f] = row]
  BY <1>1
<1>3. row \in JobRow /\ row.batch = job[f].batch
  BY <1>1 DEF JobRow
<1> HIDE DEF row
<1> QED
  BY <1>2, <1>3, MoveKeeps

\* The change events and the tasks stay in step.
LEMMA TasksOfChanges ==
    ASSUME NEW table \in LifecycleRow, {t.change : t \in table.tasks} = table.changes,
           NEW was \in Payload, NEW new \in Payload, NEW told,
           told = InsertChangeEvent(table, was, new)
    PROVE  told \in LifecycleRow /\ {t.change : t \in told.tasks} = told.changes
<1> DEFINE change == <<was, new>>
           mid == [table EXCEPT !.changes = @ \cup {change}]
           sev == IF ChangedMaterialFields(was, new) \cap HighRiskFields # {}
                  THEN "High" ELSE "Medium"
           task == [change |-> change, priority |-> IF sev = "High" THEN "high" ELSE "medium"]
           tasks == {t \in table.tasks : t.change # change} \cup {task}
<1>1. told = [mid EXCEPT !.tasks = tasks]
  BY DEF InsertChangeEvent, UpsertReviewTask, LifecycleRow
<1>2. change \in Change /\ task \in [change : Change, priority : {"high", "medium"}]
      /\ task.change = change
  BY DEF Change
<1> HIDE DEF change, sev, task
<1>3. mid \in LifecycleRow /\ mid.changes = table.changes \cup {change} /\ mid.tasks = table.tasks
  BY <1>2 DEF LifecycleRow
<1> HIDE DEF mid
<1>4. tasks \subseteq [change : Change, priority : {"high", "medium"}]
  BY <1>2 DEF LifecycleRow
<1>5. {t.change : t \in tasks} = table.changes \cup {change}
  BY <1>2
<1> HIDE DEF tasks
<1>6. told \in LifecycleRow /\ told.tasks = tasks /\ told.changes = mid.changes
  BY <1>1, <1>3, <1>4 DEF LifecycleRow
<1> QED
  BY <1>3, <1>5, <1>6

LEMMA UpsertFingerprintKeeps ==
    ASSUME TelemetryInv, NEW f \in Fold, UpsertFingerprint(f)
    PROVE  TelemetryInv'
<1> USE DEF state, agent
<1> DEFINE was == job[f].was
           new == job[f].base
           told == IF was # None /\ ChangedMaterialFields(was, new) # {}
                   THEN InsertChangeEvent(lifecycle, was, new) ELSE lifecycle
           row == [job[f] EXCEPT !.at = "registry", !.base = None, !.was = None]
<1>1. job[f] \in JobRow /\ job \in [Fold -> JobRow] /\ lifecycle \in LifecycleRow
      /\ {t.change : t \in lifecycle.tasks} = lifecycle.changes
  BY DEF TelemetryInv, TableInv
<1>2. was \in Payload /\ new \in Payload
  BY <1>1 DEF JobRow
<1>3. /\ job[f].at = "upsert"
      /\ lifecycle' = [told EXCEPT !.fingerprint = new]
      /\ job' = [job EXCEPT ![f] = row]
      /\ UNCHANGED <<state, agent, tables, prompts, incident, findings>>
  BY <1>1 DEF UpsertFingerprint, At
<1> HIDE DEF was, new
<1>4. told \in LifecycleRow /\ {t.change : t \in told.tasks} = told.changes
  BY <1>1, <1>2, TasksOfChanges
<1>5. row \in JobRow /\ row.batch = job[f].batch
  BY <1>1 DEF JobRow, Payload
<1> HIDE DEF told, row
<1>6. lifecycle' \in LifecycleRow /\ {t.change : t \in lifecycle'.tasks} = lifecycle'.changes
  BY <1>2, <1>3, <1>4 DEF LifecycleRow
<1>7. job' \in [Fold -> JobRow'] /\ PastCount'
  BY <1>3, <1>5, LaterCounted, JobOnward DEF TelemetryInv
<1>8. StoreInv'
  BY <1>3, <1>7, StoreKept DEF TelemetryInv
<1>9. TableInv'
  <2>1. LifecycleRow' = LifecycleRow /\ Registered' = Registered /\ IncidentStatus' = IncidentStatus
    BY DEF LifecycleRow, Change, Payload, Registered, IncidentStatus
  <2> QED
    BY <1>3, <1>6, <1>7, <2>1 DEF TelemetryInv, TableInv
<1> QED
  BY <1>8, <1>9 DEF TelemetryInv

LEMMA SetRegisteredKeeps ==
    ASSUME TelemetryInv, NEW r \in AgentRow, SetRegistered(r)
    PROVE  TelemetryInv'
<1> USE DEF SetRegistered, state
<1>1. JobRow' = JobRow /\ PastCount'
  BY DEF JobRow, PastCount, TelemetryInv, StoreInv
<1>2. StoreInv'
  BY <1>1, StoreKept DEF TelemetryInv
<1>3. TableInv'
  BY <1>1 DEF TelemetryInv, TableInv, LifecycleRow, Change, Payload, Registered, IncidentStatus
<1> QED
  BY <1>2, <1>3 DEF TelemetryInv

LEMMA RegistryRows ==
    ASSUME NEW r \in AgentRow
    PROVE  AgentRegistered(r) \in AgentRow
           /\ AgentRetired(r) \in AgentRow
<1> PICK T : T = SUBSET Given({e.label : e \in Events})
  OBVIOUS
<1>1. AgentRow = [active : BOOLEAN, tools : T, trifecta : BOOLEAN,
                            level : AutonomyLevel, checkpoint : BOOLEAN]
  BY DEF AgentRow
<1> QED
  BY <1>1 DEF AgentRegistered, AgentRetired

LEMMA ReadRegistryKeeps ==
    ASSUME TelemetryInv, NEW f \in Fold, ReadRegistry(f)
    PROVE  TelemetryInv'
<1> USE DEF ReadRegistry, At, GoOn, state, agent
<1> DEFINE over == [job[f] EXCEPT !.at = "mark"]
           read == [job[f] EXCEPT !.at = "posture", !.registry = registered]
<1>1. job[f] \in JobRow /\ job \in [Fold -> JobRow] /\ registered \in Registered
  BY DEF TelemetryInv, TableInv
<1>2. job' = [job EXCEPT ![f] = over] \/ job' = [job EXCEPT ![f] = read]
  BY <1>1
<1>3. /\ over \in JobRow /\ over.batch = job[f].batch
      /\ read \in JobRow /\ read.batch = job[f].batch
  BY <1>1 DEF JobRow
<1> HIDE DEF over, read
<1> QED
  BY <1>2, <1>3, MoveKeeps

LEMMA JudgedRules ==
    ASSUME NEW r, NEW tools
    PROVE  Judged(r, tools) \subseteq AgentRule
  BY DEF Judged, AgentRule

LEMMA PostureKeeps ==
    ASSUME TelemetryInv, NEW f \in Fold, RefreshAgentPosture(f)
    PROVE  TelemetryInv'
<1> USE DEF state, agent
<1> DEFINE row == [job[f] EXCEPT !.at = "mark"]
<1>1. job[f] \in JobRow /\ job \in [Fold -> JobRow]
  BY DEF TelemetryInv, TableInv
<1>2. /\ job[f].at = "posture"
      /\ job' = [job EXCEPT ![f] = row]
      /\ UNCHANGED <<state, agent, tables, prompts, incident, lifecycle>>
  BY DEF RefreshAgentPosture, At, GoOn
<1>3. findings' \subseteq AgentRule
  BY JudgedRules DEF RefreshAgentPosture, TelemetryInv, TableInv
<1>4. row \in JobRow /\ row.batch = job[f].batch
  BY <1>1 DEF JobRow
<1> HIDE DEF row
<1>5. job' \in [Fold -> JobRow'] /\ PastCount'
  BY <1>2, <1>4, LaterCounted, JobOnward DEF TelemetryInv
<1>6. StoreInv'
  BY <1>2, <1>5, StoreKept DEF TelemetryInv
<1>7. TableInv'
  <2>1. LifecycleRow' = LifecycleRow /\ Registered' = Registered /\ IncidentStatus' = IncidentStatus
    BY DEF LifecycleRow, Change, Payload, Registered, IncidentStatus
  <2> QED
    BY <1>2, <1>3, <1>5, <2>1 DEF TelemetryInv, TableInv
<1> QED
  BY <1>6, <1>7 DEF TelemetryInv

LEMMA MarkKeeps ==
    ASSUME TelemetryInv, NEW f \in Fold, MarkRowsFolded(f)
    PROVE  TelemetryInv'
<1> USE DEF MarkRowsFolded, At, agent
<1>1. job' \in [Fold -> JobRow'] /\ PastCount'
  BY JobIdle DEF TelemetryInv
<1>2. job[f].batch \subseteq countedIds
  BY LaterCounted DEF TelemetryInv
<1>3. StoreInv'
  BY <1>1, <1>2 DEF TelemetryInv, StoreInv, Tables
<1> QED
  BY <1>1, <1>3, TableKept DEF TelemetryInv

LEMMA FailKeeps ==
    ASSUME TelemetryInv, NEW f \in Fold, Fail(f)
    PROVE  TelemetryInv'
<1> USE DEF Fail, agent
<1>1. job' \in [Fold -> JobRow'] /\ PastCount'
  BY JobIdle DEF TelemetryInv
<1> QED
  BY <1>1, StoreKept, TableKept DEF TelemetryInv

LEMMA StutterKeeps ==
    ASSUME TelemetryInv, UNCHANGED inventoryVars
    PROVE  TelemetryInv'
<1> USE DEF inventoryVars, state, agent
<1>1. JobRow' = JobRow /\ PastCount'
  BY DEF JobRow, PastCount, TelemetryInv, StoreInv
<1>2. job' \in [Fold -> JobRow']
  BY <1>1 DEF TelemetryInv, TableInv
<1> QED
  BY <1>1, <1>2, StoreKept, TableKept DEF TelemetryInv

\* A registration that is made, whoever makes it.
LEMMA RegistrySteps ==
    ASSUME InventoryConstants, TelemetryInv,
           (\E r \in Registration : RegisterAgent(r)) \/ RetireAgent
    PROVE  \E r \in AgentRow : SetRegistered(r)
<1>1. CASE \E r \in Registration : RegisterAgent(r)
  <2>1. PICK r \in Registration : RegisterAgent(r)
    BY <1>1
  <2>2. r \in AgentRow
    BY DEF InventoryConstants
  <2> QED
    BY <2>1, <2>2, RegistryRows DEF RegisterAgent
<1>2. CASE RetireAgent
  <2>1. registered \in AgentRow
    BY <1>2 DEF RetireAgent, TelemetryInv, TableInv, Registered
  <2> QED
    BY <1>2, <2>1, RegistryRows DEF RetireAgent
<1> QED
  BY <1>1, <1>2

\* process_incident_events ends with the incident the reports make of it.
LEMMA IncidentsEffect ==
    ASSUME NEW f \in Fold, ProcessIncidentEvents(f)
    PROVE  \E s : /\ s = ReportsFolded([status |-> incident.status, fresh |-> job[f].fresh, told |-> 0],
                                       OfType(f, "incident.event"))
                  /\ incident' = [status |-> s.status, announced |-> incident.announced + s.told]
  BY DEF ProcessIncidentEvents, ReportsFolded

-----------------------------------------------------------------------------
(* An open incident was announced.  Until its row is written, every fold    *)
(* about to write it has found it new.                                      *)
FoundNew == incident.status = None => \A f \in Fold : job[f].at = "incidents" => job[f].fresh

NewsInv == TelemetryInv /\ FoundNew /\ OpenIncidentAnnounced

\* A step that leaves the incident alone and brings nobody to its reports.
LEMMA NewsKept ==
    ASSUME NewsInv, incident' = incident,
           \A g \in Fold : job'[g].at = "incidents" =>
                             job'[g].fresh = job[g].fresh /\ job[g].at = "incidents"
    PROVE  FoundNew' /\ OpenIncidentAnnounced'
  BY DEF NewsInv, FoundNew, OpenIncidentAnnounced

LEMMA NewsOfMove ==
    ASSUME NewsInv, incident' = incident, NEW f \in Fold, NEW row,
           row.at # "incidents", job' = [job EXCEPT ![f] = row]
    PROVE  FoundNew' /\ OpenIncidentAnnounced'
<1>1. \A g \in Fold : g # f => job'[g] = job[g]
  BY DEF NewsInv, TelemetryInv, TableInv
<1>2. job'[f] = row
  BY DEF NewsInv, TelemetryInv, TableInv
<1> QED
  BY <1>1, <1>2, NewsKept

LEMMA NewsOfGoto ==
    ASSUME NewsInv, incident' = incident, NEW f \in Fold, NEW step,
           step # "incidents", GoOn(f, step)
    PROVE  FoundNew' /\ OpenIncidentAnnounced'
<1> DEFINE row == [job[f] EXCEPT !.at = step]
<1>1. job' = [job EXCEPT ![f] = row] /\ row.at # "incidents"
  BY DEF GoOn, NewsInv, TelemetryInv, TableInv, JobRow
<1> HIDE DEF row
<1> QED
  BY <1>1, NewsOfMove

LEMMA NewsOfIncidents ==
    ASSUME InventoryConstants, NewsInv, NEW f \in Fold,
           ProcessIncidentEvents(f)
    PROVE  NewsInv'
<1>1. job \in [Fold -> JobRow] /\ incident \in [status : IncidentStatus, announced : Nat]
  BY DEF NewsInv, TelemetryInv, TableInv
<1>2. job[f].at = "incidents" /\ job' = [job EXCEPT ![f].at = "fingerprint"]
  BY DEF ProcessIncidentEvents, At, GoOn
<1>3. PICK m \in Nat : m = incident.announced
  BY <1>1
<1>4. PICK base : base = [status |-> incident.status, fresh |-> job[f].fresh, told |-> 0]
  OBVIOUS
<1>w. PICK was : was = incident.status
  OBVIOUS
<1>5. base \in Told(m, was)
  <2>1. job[f].fresh \in BOOLEAN
    BY <1>1 DEF JobRow
  <2>2. incident.status = None => job[f].fresh
    BY <1>2 DEF NewsInv, FoundNew
  <2>3. incident.status \notin {None, "closed"} => m > 0
    BY <1>3 DEF NewsInv, OpenIncidentAnnounced
  <2> QED
    BY <1>1, <1>3, <1>4, <1>w, <2>1, <2>2, <2>3 DEF Told
<1>6. PICK ids : ids = OfType(f, "incident.event")
  OBVIOUS
<1>7. \A k \in ids : sdkEvents[k].type = "incident.event"
  BY <1>6, ReportsOfType
<1>8. sdkEvents \in Seq(Events)
  BY DEF NewsInv, TelemetryInv, StoreInv
<1>9. PICK n \in Nat : n = Len(sdkEvents)
  BY <1>8
<1>10. ReportsFolded(base, ids) \in Told(m, was)
  BY <1>5, <1>7, <1>8, <1>9, IncidentWalk
<1>11. PICK s : /\ s = ReportsFolded(base, ids)
                /\ incident' = [status |-> s.status, announced |-> incident.announced + s.told]
  BY <1>4, <1>6, IncidentsEffect
<1>12. s \in [status : IncidentStatus, fresh : BOOLEAN, told : Nat]
  BY <1>10, <1>11 DEF Told
<1>13. TelemetryInv'
  BY <1>11, <1>12, IncidentsKeep DEF NewsInv
<1>14. OpenIncidentAnnounced'
  BY <1>1, <1>3, <1>10, <1>11 DEF Told, OpenIncidentAnnounced
<1>15. FoundNew'
  <2> SUFFICES ASSUME incident'.status = None, NEW g \in Fold, job'[g].at = "incidents"
      PROVE  job'[g].fresh
    BY DEF FoundNew
  <2>1. s.status = None
    BY <1>11
  <2>2. incident.status = None
    BY <1>10, <1>11, <1>w, <2>1 DEF Told
  <2> QED
    BY <1>1, <1>2, <2>2 DEF NewsInv, FoundNew, JobRow
<1> QED
  BY <1>13, <1>14, <1>15 DEF NewsInv

LEMMA NewsInit == ASSUME InventoryConstants, InventoryInit PROVE NewsInv
<1>1. TelemetryInv
  BY TelemetryInit
<1>2. FoundNew
  BY DEF FoundNew, InventoryInit, NoJob
<1>3. OpenIncidentAnnounced
  BY DEF OpenIncidentAnnounced, InventoryInit, NoIncident
<1> QED
  BY <1>1, <1>2, <1>3 DEF NewsInv

LEMMA NewsFoldStep ==
    ASSUME InventoryConstants, NewsInv, NEW f \in Fold, Projection(f)
    PROVE  NewsInv'
<1> USE DEF state, agent
<1>0. TelemetryInv /\ job \in [Fold -> JobRow]
  BY DEF NewsInv, TelemetryInv, TableInv
<1>1. CASE ClaimUnfolded(f)
  <2>1. FoundNew' /\ OpenIncidentAnnounced'
    <3> DEFINE row == [NoJob EXCEPT !.at = "count", !.batch = DOMAIN sdkEvents \ foldedIds]
    <3>1. job' = [job EXCEPT ![f] = row] /\ incident' = incident
      BY <1>1 DEF ClaimUnfolded
    <3>2. row.at # "incidents"
      BY DEF NoJob
    <3> HIDE DEF row
    <3> QED
      BY <3>1, <3>2, NewsOfMove
  <2> QED
    BY <1>0, <1>1, <2>1, ClaimKeeps DEF NewsInv
<1>2. CASE ProcessEvents(f)
  <2>1. AfterCount(f) # "incidents"
    BY DEF AfterCount, AfterPrompts
  <2>2. GoOn(f, AfterCount(f)) /\ incident' = incident
    BY <1>2 DEF ProcessEvents
  <2>3. FoundNew' /\ OpenIncidentAnnounced'
    BY <2>1, <2>2, NewsOfGoto
  <2> QED
    BY <1>0, <1>2, <2>3, ProcessEventsKeeps DEF NewsInv
<1>3. CASE ProcessPromptEvents(f)
  <2>1. AfterPrompts(f) # "incidents"
    BY DEF AfterPrompts
  <2>2. GoOn(f, AfterPrompts(f)) /\ incident' = incident
    BY <1>3 DEF ProcessPromptEvents
  <2>3. FoundNew' /\ OpenIncidentAnnounced'
    BY <2>1, <2>2, NewsOfGoto
  <2> QED
    BY <1>0, <1>3, <2>3, PromptsKeeps DEF NewsInv
<1>4. CASE IsNew(f)
  <2> DEFINE fresh == (incident.status = None)
             row == [job[f] EXCEPT !.at = "incidents", !.fresh = fresh]
  <2>1. job' = [job EXCEPT ![f] = row] /\ incident' = incident
    BY <1>0, <1>4 DEF IsNew
  <2>2. row.fresh = fresh
    BY <1>0 DEF JobRow
  <2>3. job'[f] = row /\ \A g \in Fold : g # f => job'[g] = job[g]
    BY <1>0, <2>1
  <2>4. FoundNew'
    BY <2>1, <2>2, <2>3 DEF NewsInv, FoundNew
  <2>5. OpenIncidentAnnounced'
    BY <2>1 DEF NewsInv, OpenIncidentAnnounced
  <2> QED
    BY <1>0, <1>4, <2>4, <2>5, IsNewKeeps DEF NewsInv
<1>5. CASE ProcessIncidentEvents(f)
  BY <1>5, NewsOfIncidents
<1>6. CASE ReadFingerprint(f)
  <2> DEFINE base == MergePayload(lifecycle.fingerprint,
                       FingerprintPayload(ScopeOf(job[f].batch)))
             read == [job[f] EXCEPT !.at = "compare", !.base = base]
  <2>1. GoOn(f, "registry") \/ job' = [job EXCEPT ![f].at = "compare", ![f].base = base]
    BY <1>6 DEF ReadFingerprint
  <2>2. incident' = incident
    BY <1>6 DEF ReadFingerprint
  <2> HIDE DEF base
  <2>3. CASE job' = [job EXCEPT ![f].at = "compare", ![f].base = base]
    <3>1. job' = [job EXCEPT ![f] = read] /\ read.at # "incidents"
      BY <1>0, <2>3 DEF JobRow
    <3> HIDE DEF read
    <3> QED
      BY <1>0, <1>6, <2>2, <3>1, NewsOfMove, ReadFingerprintKeeps DEF NewsInv
  <2>4. CASE GoOn(f, "registry")
    BY <1>0, <1>6, <2>2, <2>4, NewsOfGoto, ReadFingerprintKeeps DEF NewsInv
  <2> QED
    BY <2>1, <2>3, <2>4
<1>7. CASE ReadExisting(f)
  <2> DEFINE row == [job[f] EXCEPT !.at = "upsert", !.was = lifecycle.fingerprint]
  <2>1. job' = [job EXCEPT ![f] = row] /\ incident' = incident /\ row.at # "incidents"
    BY <1>0, <1>7 DEF ReadExisting, JobRow
  <2> HIDE DEF row
  <2> QED
    BY <1>0, <1>7, <2>1, NewsOfMove, ReadExistingKeeps DEF NewsInv
<1>8. CASE UpsertFingerprint(f)
  <2> DEFINE row == [job[f] EXCEPT !.at = "registry", !.base = None, !.was = None]
  <2>1. job' = [job EXCEPT ![f] = row] /\ incident' = incident
    BY <1>0, <1>8 DEF UpsertFingerprint
  <2>2. row.at # "incidents"
    BY <1>0 DEF JobRow
  <2> HIDE DEF row
  <2> QED
    BY <1>0, <1>8, <2>1, <2>2, NewsOfMove, UpsertFingerprintKeeps DEF NewsInv
<1>9. CASE ReadRegistry(f)
  <2> DEFINE row == [job[f] EXCEPT !.at = "posture", !.registry = registered]
  <2>1. GoOn(f, "mark") \/ job' = [job EXCEPT ![f] = row]
    BY <1>0, <1>9 DEF ReadRegistry
  <2>2. incident' = incident
    BY <1>9 DEF ReadRegistry
  <2>3. row.at # "incidents"
    BY <1>0 DEF JobRow
  <2> HIDE DEF row
  <2> QED
    BY <1>0, <1>9, <2>1, <2>2, <2>3, NewsOfMove, NewsOfGoto, ReadRegistryKeeps DEF NewsInv
<1>10. CASE RefreshAgentPosture(f)
  <2>1. GoOn(f, "mark") /\ incident' = incident
    BY <1>10 DEF RefreshAgentPosture
  <2> QED
    BY <1>0, <1>10, <2>1, NewsOfGoto, PostureKeeps DEF NewsInv
<1>11. CASE MarkRowsFolded(f) \/ Fail(f)
  <2>1. job' = [job EXCEPT ![f] = NoJob] /\ incident' = incident
    BY <1>11 DEF MarkRowsFolded, Fail
  <2>2. NoJob.at # "incidents"
    BY DEF NoJob
  <2>3. FoundNew' /\ OpenIncidentAnnounced'
    BY <2>1, <2>2, NewsOfMove
  <2> QED
    BY <1>0, <1>11, <2>3, MarkKeeps, FailKeeps DEF NewsInv
<1> QED
  BY <1>1, <1>2, <1>3, <1>4, <1>5, <1>6, <1>7, <1>8, <1>9, <1>10, <1>11 DEF Projection

LEMMA NewsStep ==
    ASSUME InventoryConstants, NewsInv, [InventoryNext]_inventoryVars
    PROVE  NewsInv'
<1>0. TelemetryInv /\ job \in [Fold -> JobRow]
  BY DEF NewsInv, TelemetryInv, TableInv
<1>1. CASE \E e \in unsent : InsertEvent(e)
  <2>1. PICK e \in unsent : InsertEvent(e)
    BY <1>1
  <2>2. TelemetryInv'
    BY <1>0, <2>1, IngestKeeps
  <2>3. incident' = incident /\ job' = job
    BY <2>1 DEF InsertEvent
  <2> QED
    BY <2>2, <2>3, NewsKept DEF NewsInv
<1>2. CASE \E f \in Fold : Projection(f)
  BY <1>2, NewsFoldStep
<1>3. CASE CloseIncident
  <2>1. /\ TelemetryInv' /\ incident' = [incident EXCEPT !.status = "closed"]
        /\ incident.status # None /\ UNCHANGED job
    BY <1>0, <1>3, CloseKeeps
  <2>2. incident'.status = "closed"
    BY <1>0, <2>1 DEF TelemetryInv, TableInv
  <2>3. "closed" # None
    BY DEF InventoryConstants
  <2> QED
    BY <2>1, <2>2, <2>3 DEF NewsInv, FoundNew, OpenIncidentAnnounced
<1>4. CASE (\E r \in Registration : RegisterAgent(r)) \/ RetireAgent
  <2>1. PICK r \in AgentRow : SetRegistered(r)
    BY <1>0, <1>4, RegistrySteps
  <2>2. TelemetryInv'
    BY <1>0, <2>1, SetRegisteredKeeps
  <2>3. incident' = incident /\ job' = job
    BY <2>1 DEF SetRegistered
  <2> QED
    BY <2>2, <2>3, NewsKept DEF NewsInv
<1>5. CASE UNCHANGED inventoryVars
  <2>1. TelemetryInv'
    BY <1>0, <1>5, StutterKeeps
  <2>2. incident' = incident /\ job' = job
    BY <1>5 DEF inventoryVars
  <2> QED
    BY <2>1, <2>2, NewsKept DEF NewsInv
<1> QED
  BY <1>1, <1>2, <1>3, <1>4, <1>5 DEF InventoryNext

LEMMA TelemetryTypes == TelemetryInv => InventoryTypeOK
<1> SUFFICES ASSUME TelemetryInv PROVE InventoryTypeOK
  OBVIOUS
<1>1. /\ countedIds \subseteq DOMAIN sdkEvents /\ foldedIds \subseteq countedIds
      /\ DOMAIN sdkEvents = 1..Len(sdkEvents)
  BY DEF TelemetryInv, StoreInv
<1>2. tables \in Tables
  BY DEF TelemetryInv, StoreInv
<1>3. /\ tables.application \in Row
      /\ tables.workflows \in [Flow -> Row]
      /\ tables.models \in [Provider \cup {None} -> Row]
      /\ tables.providers \in [Provider -> Row]
      /\ tables.risks \in [BOOLEAN -> [Risk -> SUBSET Trace]]
      /\ tables.controls \in [Controlled -> Nat]
      /\ tables.observed \subseteq Events
  BY <1>2 DEF Tables
<1>4. /\ incident.status \in IncidentStatus /\ incident.announced \in Nat
      /\ {t.change : t \in lifecycle.tasks} = lifecycle.changes
      /\ findings \subseteq AgentRule
  BY DEF TelemetryInv, TableInv
<1>5. \A f \in Fold : job[f].batch \subseteq DOMAIN sdkEvents
  BY <1>1 DEF TelemetryInv, TableInv, JobRow
<1> QED
  BY <1>1, <1>3, <1>4, <1>5 DEF InventoryTypeOK, IncidentStatus

\* However many folds overlap and fail, the tables hold rows of their types and a
\* fold works on stored rows (process_events and the projections after it).
THEOREM TelemetryTypeCorrect == InventorySpec => []InventoryTypeOK
<1> InventoryConstants
  BY InventoryAssumption
<1>1. InventoryInit => NewsInv
  BY NewsInit
<1>2. NewsInv /\ [InventoryNext]_inventoryVars => NewsInv'
  BY NewsStep
<1>3. NewsInv => InventoryTypeOK
  BY TelemetryTypes DEF NewsInv
<1> QED
  BY <1>1, <1>2, <1>3, PTL DEF InventorySpec

\* An incident that stands open was announced, whichever of its reports is folded
\* first, by whom and however often: upsert_incident_event looks the row up before
\* its transaction, yet whoever inserts it had found it new.
THEOREM OpenIncidentsAreAnnounced == InventorySpec => []OpenIncidentAnnounced
<1> InventoryConstants
  BY InventoryAssumption
<1>1. InventoryInit => NewsInv
  BY NewsInit
<1>2. NewsInv /\ [InventoryNext]_inventoryVars => NewsInv'
  BY NewsStep
<1>3. NewsInv => OpenIncidentAnnounced
  BY DEF NewsInv
<1> QED
  BY <1>1, <1>2, <1>3, PTL DEF InventorySpec

-----------------------------------------------------------------------------
(* A tool call is judged.  What is counted is observed, the registration a  *)
(* fold judges by was one, and the pairs of a batch are judged before it is *)
(* marked.                                                                  *)
Observes ==
    \A i \in countedIds :
        sdkEvents[i].type \in Observable => sdkEvents[i] \in tables.observed

HeldOnce ==
    /\ registered \in held
    /\ \A f \in Fold : job[f].at = "posture" => job[f].registry \in held

Settled == foldedIds \cup UNION {job[f].batch : f \in {g \in Fold : job[g].at = "mark"}}

Pair(i, j) ==
    /\ sdkEvents[i].type = "agent.run" /\ sdkEvents[j].type = "tool.call"
    /\ sdkEvents[i].trace = sdkEvents[j].trace

PairJudged(j) == \E r \in held : Judged(r, {sdkEvents[j].label}) \subseteq findings

PairsJudged == \A i, j \in Settled : Pair(i, j) => PairJudged(j)

JudgeInv == NewsInv /\ Observes /\ HeldOnce /\ PairsJudged

LEMMA SettledCounted == TelemetryInv => Settled \subseteq countedIds
<1> SUFFICES ASSUME TelemetryInv PROVE Settled \subseteq countedIds
  OBVIOUS
<1>1. \A f \in Fold : job[f].at = "mark" => job[f].batch \subseteq countedIds
  BY DEF TelemetryInv, StoreInv, PastCount
<1>2. foldedIds \subseteq countedIds
  BY DEF TelemetryInv, StoreInv
<1> QED
  BY <1>1, <1>2 DEF Settled

\* More tools, more findings.
LEMMA JudgedMonotone ==
    ASSUME NEW r, NEW few, NEW many, few \subseteq many
    PROVE  Judged(r, few) \subseteq Judged(r, many)
<1>1. CASE r = None \/ ~r.active
  BY <1>1 DEF Judged
<1>2. CASE ~(r = None \/ ~r.active)
  <2>1. many \subseteq r.tools => few \subseteq r.tools
    OBVIOUS
  <2> QED
    BY <1>2, <2>1 DEF Judged
<1> QED
  BY <1>1, <1>2

\* The call of a tool that shares its trace with an observed run is seen.
LEMMA PairIsSeen ==
    ASSUME JudgeInv, NEW i \in countedIds, NEW j \in countedIds, Pair(i, j)
    PROVE  /\ Ran(tables.observed)
           /\ sdkEvents[j].label \in ToolsUsed(tables.observed)
<1>1. sdkEvents[i] \in tables.observed /\ sdkEvents[j] \in tables.observed
  BY DEF JudgeInv, Observes, Pair, Observable
<1>2. Ran(tables.observed)
  BY <1>1 DEF Ran, Pair
<1>3. sdkEvents[j].label \in ToolsUsed(tables.observed)
  <2> DEFINE seen == tables.observed
             runs == {e \in seen : e.type = "agent.run"}
             calls == {e \in seen : e.type = "tool.call" /\ \E r \in runs : r.trace = e.trace}
  <2>1. sdkEvents[i] \in runs
    BY <1>1 DEF Pair
  <2>2. sdkEvents[j] \in calls
    BY <1>1, <2>1 DEF Pair
  <2>3. {e.label : e \in calls} \subseteq ToolsUsed(tables.observed)
    BY DEF ToolsUsed
  <2> HIDE DEF calls
  <2> QED
    BY <2>2, <2>3
<1> QED
  BY <1>2, <1>3

\* refresh_agent_posture judges every pair that is counted.
LEMMA PostureJudges ==
    ASSUME JudgeInv, NEW f \in Fold, RefreshAgentPosture(f),
           NEW i \in countedIds, NEW j \in countedIds, Pair(i, j)
    PROVE  PairJudged(j)'
<1> DEFINE tools == ToolsUsed(tables.observed)
<1>1. Ran(tables.observed) /\ sdkEvents[j].label \in tools
  BY PairIsSeen
<1>2. Judged(job[f].registry, tools) \subseteq findings'
  BY <1>1 DEF RefreshAgentPosture, Activity
<1>3. job[f].registry \in held /\ held' = held /\ sdkEvents' = sdkEvents
  BY DEF RefreshAgentPosture, At, JudgeInv, HeldOnce,
         agent, state
<1> HIDE DEF tools
<1>4. Judged(job[f].registry, {sdkEvents[j].label}) \subseteq findings'
  <2>1. {sdkEvents[j].label} \subseteq tools
    BY <1>1
  <2>2. Judged(job[f].registry, {sdkEvents[j].label})
          \subseteq Judged(job[f].registry, tools)
    BY <2>1, JudgedMonotone
  <2> QED
    BY <1>2, <2>2
<1> QED
  BY <1>3, <1>4 DEF PairJudged

\* A judgement stands: registrations and findings are only added.
LEMMA PairsKept ==
    ASSUME JudgeInv, held \subseteq held', findings \subseteq findings',
           \A i \in countedIds : sdkEvents'[i] = sdkEvents[i],
           Settled' \subseteq Settled
    PROVE  PairsJudged'
<1> SUFFICES ASSUME NEW i \in Settled', NEW j \in Settled', Pair(i, j)' PROVE PairJudged(j)'
  BY DEF PairsJudged
<1>1. i \in Settled /\ j \in Settled /\ i \in countedIds /\ j \in countedIds
  BY SettledCounted DEF JudgeInv, NewsInv
<1>2. Pair(i, j)
  BY <1>1 DEF Pair
<1>3. PairJudged(j)
  BY <1>1, <1>2 DEF JudgeInv, PairsJudged
<1> QED
  BY <1>1, <1>3 DEF PairJudged

\* The pass over the rows observes every one of them and forgets nothing.
LEMMA PassObserves ==
    ASSUME InventoryConstants, sdkEvents \in Seq(Events),
           NEW n \in Nat, n = Len(sdkEvents), NEW inv \in Tables, NEW ids
    PROVE  /\ inv.observed \subseteq EventsFolded(inv, ids).observed
           /\ \A i \in ids \cap 1..n : sdkEvents[i].type \in Observable
                => sdkEvents[i] \in EventsFolded(inv, ids).observed
<1>1. PICK h : EventPath(h, n, inv, ids)
  BY EventsWalk
<1>2. /\ h \in [0..n -> Tables] /\ h[0] = inv /\ EventsFolded(inv, ids) = h[n]
      /\ \A k \in 1..n : h[k] = IF k \in ids
                                THEN ProcessEvent(h[k - 1], sdkEvents[k]) ELSE h[k - 1]
  BY <1>1 DEF EventPath
<1> DEFINE Good(k) == /\ inv.observed \subseteq h[k].observed
                      /\ \A i \in ids \cap 1..k : sdkEvents[i].type \in Observable
                           => sdkEvents[i] \in h[k].observed
           S == {k \in 0..n : Good(k)}
<1>3. 0 \in S
  BY <1>2
<1>4. ASSUME NEW k \in 1..n, k - 1 \in S PROVE k \in S
  <2>1. Good(k - 1) /\ k - 1 \in 0..n /\ h[k - 1] \in Tables /\ sdkEvents[k] \in Events
    BY <1>2, <1>4
  <2>2. \A i \in 1..k : i # k => i \in 1..(k - 1)
    OBVIOUS
  <2>3. CASE k \in ids
    <3>1. EventFacts(sdkEvents[k])
      BY <2>1, EventsAreRows
    <3>2. h[k] = ProcessEvent(h[k - 1], sdkEvents[k])
      BY <1>2, <2>3
    <3>3. h[k].observed = h[k - 1].observed \cup
            (IF sdkEvents[k].type \in Observable THEN {sdkEvents[k]} ELSE {})
      BY <2>1, <3>1, <3>2, EventEffect
    <3>4. Good(k)
      BY <2>1, <2>2, <3>3
    <3> QED
      BY <3>4
  <2>4. CASE k \notin ids
    <3>1. h[k] = h[k - 1]
      BY <1>2, <2>4
    <3>2. Good(k)
      BY <2>1, <2>2, <2>4, <3>1
    <3> QED
      BY <3>2
  <2> QED
    BY <2>3, <2>4
<1> HIDE DEF S
<1>5. \A k \in 0..n : k \in S
  BY <1>3, <1>4, Climb
<1>6. n \in S
  BY <1>5
<1> QED
  BY <1>2, <1>6 DEF S

LEMMA ObservesStep ==
    ASSUME InventoryConstants, JudgeInv, NEW f \in Fold, ProcessEvents(f)
    PROVE  Observes'
<1>1. /\ tables' = EventsFolded(tables, Uncounted(job[f].batch))
      /\ countedIds' = countedIds \cup Uncounted(job[f].batch)
      /\ sdkEvents' = sdkEvents
  BY DEF ProcessEvents, EventsFolded
<1>2. PICK ids : ids = Uncounted(job[f].batch)
  OBVIOUS
<1>3. sdkEvents \in Seq(Events) /\ tables \in Tables /\ ids \subseteq 1..Len(sdkEvents)
  BY <1>2 DEF JudgeInv, NewsInv, TelemetryInv, StoreInv, TableInv, JobRow, Uncounted
<1>4. PICK n \in Nat : n = Len(sdkEvents)
  BY <1>3
<1>5. PICK inv : inv = tables
  OBVIOUS
<1>6. /\ inv.observed \subseteq EventsFolded(inv, ids).observed
      /\ \A i \in ids \cap 1..n : sdkEvents[i].type \in Observable
           => sdkEvents[i] \in EventsFolded(inv, ids).observed
  BY <1>3, <1>4, <1>5, PassObserves
<1>7. tables' = EventsFolded(inv, ids) /\ countedIds' = countedIds \cup ids
  BY <1>1, <1>2, <1>5
<1>8. ids \subseteq 1..n
  BY <1>3, <1>4
<1> QED
  BY <1>1, <1>5, <1>6, <1>7, <1>8 DEF JudgeInv, Observes

\* Where a fold goes, and what it carries there.
Moved(f, row) ==
    /\ job' = [job EXCEPT ![f] = row]
    /\ row.at = "posture" => row.registry = registered
    /\ row.at = "mark" =>
         /\ row.batch = job[f].batch /\ job[f].at \notin {"idle", "count"}
         /\ foldedIds' = foldedIds
         /\ ~Ran(tables.observed) \/ RefreshAgentPosture(f)
    /\ foldedIds' \subseteq foldedIds \cup (IF job[f].at = "mark" THEN job[f].batch ELSE {})

LEMMA FoldMoves ==
    ASSUME TelemetryInv, NEW f \in Fold, Projection(f)
    PROVE  /\ \E row : Moved(f, row)
           /\ registered' = registered /\ held' = held /\ findings \subseteq findings'
           /\ sdkEvents' = sdkEvents
           /\ ProcessEvents(f) \/ (tables' = tables /\ countedIds' = countedIds)
<1> USE DEF state, agent, At, GoOn
<1>0. job \in [Fold -> JobRow] /\ job[f] \in JobRow
  BY DEF TelemetryInv, TableInv
<1> DEFINE Goal == /\ \E row : Moved(f, row)
                   /\ registered' = registered /\ held' = held /\ findings \subseteq findings'
                   /\ sdkEvents' = sdkEvents
                   /\ ProcessEvents(f) \/ (tables' = tables /\ countedIds' = countedIds)
<1>j. ASSUME NEW step PROVE [job EXCEPT ![f].at = step] = [job EXCEPT ![f] = [job[f] EXCEPT !.at = step]]
  OBVIOUS
<1>k. ASSUME NEW step PROVE [job[f] EXCEPT !.at = step].at = step
                            /\ [job[f] EXCEPT !.at = step].batch = job[f].batch
  BY <1>0 DEF JobRow
<1>1. CASE ClaimUnfolded(f)
  <2>1. PICK ids : ids = DOMAIN sdkEvents \ foldedIds
    OBVIOUS
  <2>2. job' = [job EXCEPT ![f] = [NoJob EXCEPT !.at = "count", !.batch = ids]]
    BY <1>1, <2>1 DEF ClaimUnfolded
  <2>3. [NoJob EXCEPT !.at = "count", !.batch = ids].at = "count"
    BY DEF NoJob
  <2>4. Moved(f, [NoJob EXCEPT !.at = "count", !.batch = ids])
    BY <1>1, <2>2, <2>3 DEF Moved, ClaimUnfolded
  <2> QED
    BY <1>1, <2>4 DEF ClaimUnfolded
<1>2. CASE ProcessEvents(f)
  <2>1. PICK step : step = AfterCount(f)
    OBVIOUS
  <2>2. step \in {"prompts", "isnew", "fingerprint"}
    BY <2>1 DEF AfterCount, AfterPrompts
  <2>3. job' = [job EXCEPT ![f].at = step] /\ foldedIds' = foldedIds
    BY <1>2, <2>1 DEF ProcessEvents
  <2>4. Moved(f, [job[f] EXCEPT !.at = step])
    BY <1>j, <1>k, <2>2, <2>3 DEF Moved
  <2> QED
    BY <1>2, <2>4 DEF ProcessEvents
<1>3. CASE ProcessPromptEvents(f)
  <2>1. PICK step : step = AfterPrompts(f)
    OBVIOUS
  <2>2. step \in {"isnew", "fingerprint"}
    BY <2>1 DEF AfterPrompts
  <2>3. job' = [job EXCEPT ![f].at = step] /\ foldedIds' = foldedIds
    BY <1>3, <2>1 DEF ProcessPromptEvents
  <2>4. Moved(f, [job[f] EXCEPT !.at = step])
    BY <1>j, <1>k, <2>2, <2>3 DEF Moved
  <2> QED
    BY <1>3, <2>4 DEF ProcessPromptEvents
<1>4. CASE IsNew(f)
  <2> DEFINE fresh == (incident.status = None)
             row == [job[f] EXCEPT !.at = "incidents", !.fresh = fresh]
  <2>1. job' = [job EXCEPT ![f] = row] /\ row.at = "incidents"
    BY <1>0, <1>4 DEF IsNew, JobRow
  <2> HIDE DEF row
  <2>2. Moved(f, row)
    BY <1>4, <2>1 DEF Moved, IsNew
  <2> QED
    BY <1>4, <2>2 DEF IsNew
<1>5. CASE ProcessIncidentEvents(f)
  <2>1. job' = [job EXCEPT ![f].at = "fingerprint"] /\ foldedIds' = foldedIds
    BY <1>5 DEF ProcessIncidentEvents
  <2>2. Moved(f, [job[f] EXCEPT !.at = "fingerprint"])
    BY <1>j, <1>k, <2>1 DEF Moved
  <2> QED
    BY <1>5, <2>2 DEF ProcessIncidentEvents
<1>6. CASE ReadFingerprint(f)
  <2> DEFINE base == MergePayload(lifecycle.fingerprint,
                       FingerprintPayload(ScopeOf(job[f].batch)))
             read == [job[f] EXCEPT !.at = "compare", !.base = base]
             over == [job[f] EXCEPT !.at = "registry"]
  <2>1. /\ \/ job' = [job EXCEPT ![f].at = "registry"]
           \/ job' = [job EXCEPT ![f].at = "compare", ![f].base = base]
        /\ foldedIds' = foldedIds
    BY <1>6 DEF ReadFingerprint
  <2> HIDE DEF base
  <2>2. job' = [job EXCEPT ![f] = over] \/ job' = [job EXCEPT ![f] = read]
    BY <1>0, <2>1
  <2>3. over.at = "registry" /\ read.at = "compare"
    BY <1>0 DEF JobRow
  <2> HIDE DEF over, read
  <2>4. Moved(f, over) \/ Moved(f, read)
    BY <2>1, <2>2, <2>3 DEF Moved
  <2> QED
    BY <1>6, <2>4 DEF ReadFingerprint
<1>7. CASE ReadExisting(f)
  <2> DEFINE row == [job[f] EXCEPT !.at = "upsert", !.was = lifecycle.fingerprint]
  <2>1. job' = [job EXCEPT ![f] = row] /\ row.at = "upsert"
    BY <1>0, <1>7 DEF ReadExisting, JobRow
  <2> HIDE DEF row
  <2>2. Moved(f, row)
    BY <1>7, <2>1 DEF Moved, ReadExisting
  <2> QED
    BY <1>7, <2>2 DEF ReadExisting
<1>8. CASE UpsertFingerprint(f)
  <2> DEFINE row == [job[f] EXCEPT !.at = "registry", !.base = None, !.was = None]
  <2>1. job' = [job EXCEPT ![f] = row] /\ foldedIds' = foldedIds
    BY <1>0, <1>8 DEF UpsertFingerprint
  <2>2. row.at = "registry"
    BY <1>0 DEF JobRow
  <2> HIDE DEF row
  <2>3. Moved(f, row)
    BY <2>1, <2>2 DEF Moved
  <2> QED
    BY <1>8, <2>3 DEF UpsertFingerprint
<1>9. CASE ReadRegistry(f)
  <2> DEFINE row == [job[f] EXCEPT !.at = "posture", !.registry = registered]
  <2>1. /\ \/ job' = [job EXCEPT ![f].at = "mark"] /\ ~Ran(tables.observed)
           \/ job' = [job EXCEPT ![f] = row]
        /\ foldedIds' = foldedIds /\ job[f].at = "registry"
    BY <1>0, <1>9 DEF ReadRegistry
  <2>2. row.at = "posture" /\ row.registry = registered
    BY <1>0 DEF JobRow
  <2> HIDE DEF row
  <2>3. CASE job' = [job EXCEPT ![f] = row]
    <3>1. Moved(f, row)
      BY <2>1, <2>2, <2>3 DEF Moved
    <3> QED
      BY <1>9, <3>1 DEF ReadRegistry
  <2>4. CASE job' = [job EXCEPT ![f].at = "mark"] /\ ~Ran(tables.observed)
    <3>1. Moved(f, [job[f] EXCEPT !.at = "mark"])
      BY <1>j, <1>k, <2>1, <2>4 DEF Moved
    <3> QED
      BY <1>9, <3>1 DEF ReadRegistry
  <2> QED
    BY <2>1, <2>3, <2>4
<1>10. CASE RefreshAgentPosture(f)
  <2>1. job' = [job EXCEPT ![f].at = "mark"] /\ foldedIds' = foldedIds /\ job[f].at = "posture"
    BY <1>10 DEF RefreshAgentPosture
  <2>2. Moved(f, [job[f] EXCEPT !.at = "mark"])
    BY <1>j, <1>k, <1>10, <2>1 DEF Moved
  <2> QED
    BY <1>10, <2>2 DEF RefreshAgentPosture
<1>11. CASE MarkRowsFolded(f)
  <2>1. NoJob.at = "idle"
    BY DEF NoJob
  <2>2. Moved(f, NoJob)
    BY <1>11, <2>1 DEF Moved, MarkRowsFolded
  <2> QED
    BY <1>11, <2>2 DEF MarkRowsFolded
<1>12. CASE Fail(f)
  <2>1. NoJob.at = "idle"
    BY DEF NoJob
  <2>2. Moved(f, NoJob)
    BY <1>12, <2>1 DEF Moved, Fail
  <2> QED
    BY <1>12, <2>2 DEF Fail
<1> QED
  BY <1>1, <1>2, <1>3, <1>4, <1>5, <1>6, <1>7, <1>8, <1>9, <1>10, <1>11, <1>12
     DEF Projection

LEMMA JudgeFoldStep ==
    ASSUME InventoryConstants, JudgeInv, NEW f \in Fold, Projection(f)
    PROVE  Observes' /\ HeldOnce' /\ PairsJudged'
<1>0. NewsInv /\ TelemetryInv /\ job \in [Fold -> JobRow]
  BY DEF JudgeInv, NewsInv, TelemetryInv, TableInv
<1>1. /\ registered' = registered /\ held' = held /\ findings \subseteq findings'
      /\ sdkEvents' = sdkEvents
      /\ ProcessEvents(f) \/ (tables' = tables /\ countedIds' = countedIds)
  BY <1>0, FoldMoves
<1>2. PICK row : Moved(f, row)
  BY <1>0, FoldMoves
<1>3. job'[f] = row /\ \A g \in Fold : g # f => job'[g] = job[g]
  BY <1>0, <1>2 DEF Moved
<1>4. Observes'
  BY <1>1, ObservesStep DEF JudgeInv, Observes
<1>5. HeldOnce'
  BY <1>1, <1>2, <1>3 DEF JudgeInv, HeldOnce, Moved
<1>6. PairsJudged'
  <2>1. CASE row.at # "mark"
    <3>1. Settled' \subseteq Settled
      <4> SUFFICES ASSUME NEW i \in Settled' PROVE i \in Settled
        OBVIOUS
      <4>1. i \in foldedIds' \/ \E g \in Fold : job'[g].at = "mark" /\ i \in job'[g].batch
        BY DEF Settled
      <4>2. CASE i \in foldedIds'
        BY <1>2, <4>2 DEF Moved, Settled
      <4>3. CASE \E g \in Fold : job'[g].at = "mark" /\ i \in job'[g].batch
        <5>1. PICK g \in Fold : job'[g].at = "mark" /\ i \in job'[g].batch
          BY <4>3
        <5>2. g # f
          BY <1>3, <2>1, <5>1
        <5>3. job[g].at = "mark" /\ i \in job[g].batch
          BY <1>3, <5>1, <5>2
        <5> QED
          BY <5>3 DEF Settled
      <4> QED
        BY <4>1, <4>2, <4>3
    <3> QED
      BY <1>1, <3>1, PairsKept
  <2>2. CASE row.at = "mark"
    <3>1. /\ row.batch = job[f].batch /\ job[f].batch \subseteq countedIds
          /\ foldedIds' = foldedIds
          /\ ~Ran(tables.observed) \/ RefreshAgentPosture(f)
      BY <1>0, <1>2, <2>2, LaterCounted DEF Moved, TelemetryInv
    <3>2. Settled' \subseteq countedIds
      <4> SUFFICES ASSUME NEW i \in Settled' PROVE i \in countedIds
        OBVIOUS
      <4>1. i \in foldedIds \/ \E g \in Fold : job'[g].at = "mark" /\ i \in job'[g].batch
        BY <3>1 DEF Settled
      <4>2. CASE i \in foldedIds
        BY <1>0, <4>2 DEF TelemetryInv, StoreInv
      <4>3. CASE \E g \in Fold : job'[g].at = "mark" /\ i \in job'[g].batch
        <5>1. PICK g \in Fold : job'[g].at = "mark" /\ i \in job'[g].batch
          BY <4>3
        <5>2. CASE g = f
          BY <1>3, <3>1, <5>1, <5>2
        <5>3. CASE g # f
          <6>1. job[g].at = "mark" /\ i \in job[g].batch
            BY <1>3, <5>1, <5>3
          <6> QED
            BY <1>0, <6>1, LaterCounted DEF TelemetryInv
        <5> QED
          BY <5>2, <5>3
      <4> QED
        BY <4>1, <4>2, <4>3
    <3> SUFFICES ASSUME NEW i \in Settled', NEW j \in Settled', Pair(i, j)' PROVE PairJudged(j)'
      BY DEF PairsJudged
    <3>3. i \in countedIds /\ j \in countedIds /\ Pair(i, j)
      BY <1>1, <3>2 DEF Pair
    <3>4. RefreshAgentPosture(f)
      BY <3>1, <3>3, PairIsSeen
    <3> QED
      BY <3>3, <3>4, PostureJudges
  <2> QED
    BY <2>1, <2>2
<1> QED
  BY <1>4, <1>5, <1>6

LEMMA JudgeStep ==
    ASSUME InventoryConstants, JudgeInv, [InventoryNext]_inventoryVars
    PROVE  JudgeInv'
<1>0. NewsInv /\ TelemetryInv /\ NewsInv'
  BY NewsStep DEF JudgeInv, NewsInv
<1>1. CASE \E e \in unsent : InsertEvent(e)
  <2>1. PICK e \in unsent : InsertEvent(e)
    BY <1>1
  <2>2. \A i \in 1..Len(sdkEvents) : sdkEvents'[i] = sdkEvents[i]
    BY <1>0, <2>1 DEF InsertEvent, TelemetryInv, StoreInv
  <2>3. \A i \in countedIds : sdkEvents'[i] = sdkEvents[i]
    BY <1>0, <2>2 DEF TelemetryInv, StoreInv
  <2>4. UNCHANGED <<countedIds, foldedIds, tables, job, registered, held, findings>>
    BY <2>1 DEF InsertEvent, agent
  <2>5. PairsJudged'
    BY <2>3, <2>4, PairsKept DEF Settled
  <2> QED
    BY <1>0, <2>3, <2>4, <2>5 DEF JudgeInv, Observes, HeldOnce
<1>2. CASE \E f \in Fold : Projection(f)
  BY <1>0, <1>2, JudgeFoldStep DEF JudgeInv
<1>3. CASE CloseIncident \/ UNCHANGED inventoryVars
  <2>1. UNCHANGED <<sdkEvents, countedIds, foldedIds, tables, job, registered, held, findings>>
    BY <1>3 DEF CloseIncident, inventoryVars, state, agent
  <2>2. PairsJudged'
    BY <2>1, PairsKept DEF Settled
  <2> QED
    BY <1>0, <2>1, <2>2 DEF JudgeInv, Observes, HeldOnce
<1>4. CASE (\E r \in Registration : RegisterAgent(r)) \/ RetireAgent
  <2>1. PICK r \in AgentRow : SetRegistered(r)
    BY <1>0, <1>4, RegistrySteps
  <2>2. /\ registered' = r /\ held' = held \cup {r}
        /\ UNCHANGED <<sdkEvents, countedIds, foldedIds, tables, job, findings>>
    BY <2>1 DEF SetRegistered, state
  <2>3. PairsJudged'
    BY <2>2, PairsKept DEF Settled
  <2> QED
    BY <1>0, <2>2, <2>3 DEF JudgeInv, Observes, HeldOnce
<1> QED
  BY <1>1, <1>2, <1>3, <1>4 DEF InventoryNext

\* Once a run and a tool call of its trace are folded, by any folds in any order
\* and after any failures, the register holds every finding that some
\* registration the agent has had calls for (refresh_agent_posture reads the
\* registry first, and then everything observed).
THEOREM ToolUseIsAlwaysJudged == InventorySpec => []ToolUseIsJudged
<1> InventoryConstants
  BY InventoryAssumption
<1>1. InventoryInit => JudgeInv
  <2> SUFFICES ASSUME InventoryInit PROVE JudgeInv
    OBVIOUS
  <2>1. NewsInv
    BY NewsInit
  <2>2. countedIds = {} /\ registered \in held /\ foldedIds = {}
    BY DEF InventoryInit
  <2>3. \A f \in Fold : job[f].at = "idle"
    BY DEF InventoryInit, NoJob
  <2>4. Settled = {}
    BY <2>2, <2>3 DEF Settled
  <2> QED
    BY <2>1, <2>2, <2>3, <2>4 DEF JudgeInv, Observes, HeldOnce, PairsJudged
<1>2. JudgeInv /\ [InventoryNext]_inventoryVars => JudgeInv'
  BY JudgeStep
<1>3. JudgeInv => ToolUseIsJudged
  BY DEF JudgeInv, PairsJudged, Settled, Pair, PairJudged, ToolUseIsJudged
<1> QED
  BY <1>1, <1>2, <1>3, PTL DEF InventorySpec

-----------------------------------------------------------------------------
(* The inventory is exact.  What InventoryIsExact says of the state, said   *)
(* of any sequence of rows s and set of counted rows.                       *)
TokensOf(s, ids) ==
    LET after[k \in 0..Len(s)] ==
            IF k = 0 THEN 0 ELSE IF k \in ids THEN after[k - 1] + s[k].tokens ELSE after[k - 1]
    IN  after[Len(s)]

TokenPath(h, n, s, ids) ==
    /\ h \in [0..n -> Nat]
    /\ h[0] = 0
    /\ \A k \in 1..n : h[k] = IF k \in ids THEN h[k - 1] + s[k].tokens ELSE h[k - 1]
    /\ TokensOf(s, ids) = h[n]

LEMMA TokensWalk ==
    ASSUME InventoryConstants, NEW s \in Seq(Events), NEW ids,
           NEW n \in Nat, n = Len(s)
    PROVE  \E h : TokenPath(h, n, s, ids)
<1> DEFINE Turn(k, t) == IF k \in ids THEN t + s[k].tokens ELSE t
           g == [p \in (1..n) \X Nat |-> Turn(p[1], p[2])]
           Path(a) == [k \in 0..n |-> IF k = 0 THEN 0
                                      ELSE IF k \in ids THEN a[k - 1] + s[k].tokens ELSE a[k - 1]]
           way == CHOOSE a : a = Path(a)
<1>1. \A k \in 1..n : \A t \in Nat : Turn(k, t) \in Nat
  <2> SUFFICES ASSUME NEW k \in 1..n, NEW t \in Nat PROVE Turn(k, t) \in Nat
    OBVIOUS
  <2>1. s[k].tokens \in Nat
    BY EventsAreRows DEF EventFacts
  <2> QED
    BY <2>1
<1>2. \A k \in 1..n : \A t \in Nat : g[<<k, t>>] = Turn(k, t)
  OBVIOUS
<1>3. g \in [(1..n) \X Nat -> Nat]
  BY <1>1
<1> HIDE DEF g, Turn
<1>4. PICK h : IsWalk(h, n, Nat, 0, g)
  BY <1>3, WalkExists
<1>i. /\ h \in [0..n -> Nat] /\ h[0] = 0
      /\ \A k \in 1..n : h[k] = g[<<k, h[k - 1]>>]
  BY <1>4 DEF IsWalk
<1>5. \A k \in 1..n : h[k] = Turn(k, h[k - 1])
  <2> SUFFICES ASSUME NEW k \in 1..n PROVE h[k] = Turn(k, h[k - 1])
    OBVIOUS
  <2>0. k - 1 \in 0..n
    OBVIOUS
  <2>1. h[k - 1] \in Nat
    BY <1>i, <2>0, Zenon
  <2>2. h[k] = g[<<k, h[k - 1]>>]
    BY <1>i
  <2>3. g[<<k, h[k - 1]>>] = Turn(k, h[k - 1])
    BY <1>2, <2>1, Zenon
  <2> QED
    BY <2>2, <2>3, Zenon
<1>6. h = Path(h)
  <2>1. \A k \in 0..n : h[k] = Path(h)[k]
    BY <1>i, <1>5 DEF Turn
  <2> QED
    BY <1>i, <2>1
<1>7. way = Path(way)
  <2> HIDE DEF Path
  <2> QED
    BY <1>6
<1>8. way[0] = 0 /\ \A k \in 1..n : way[k] = Turn(k, way[k - 1])
  <2> HIDE DEF way
  <2>1. \A k \in 0..n : way[k] = Path(way)[k]
    BY <1>7
  <2> QED
    BY <2>1 DEF Turn
<1>9. TokensOf(s, ids) = way[n]
  BY Zenon DEF TokensOf
<1> HIDE DEF way
<1>10. way[n] = h[n]
  <2>1. Follows(way, n, Nat, 0, g)
    BY <1>2, <1>8 DEF Follows
  <2> HIDE DEF Path
  <2> QED
    BY <1>4, <2>1, WalkUnique
<1> QED
  BY <1>i, <1>5, <1>9, <1>10 DEF Turn, TokenPath

\* A row that joins the sum adds its tokens.
LEMMA TokensAdd ==
    ASSUME InventoryConstants, NEW s \in Seq(Events),
           NEW n \in Nat, n = Len(s), NEW A, NEW i \in 1..n, i \notin A
    PROVE  TokensOf(s, A \cup {i}) = TokensOf(s, A) + s[i].tokens
<1>1. PICK h : TokenPath(h, n, s, A)
  BY TokensWalk
<1>2. PICK j : TokenPath(j, n, s, A \cup {i})
  BY TokensWalk
<1>3. PICK t \in Nat : t = s[i].tokens
  BY EventsAreRows DEF EventFacts
<1> DEFINE S == {k \in 0..n : j[k] = h[k] + (IF k < i THEN 0 ELSE t)}
<1>4. 0 \in S
  BY <1>1, <1>2 DEF TokenPath
<1>5. ASSUME NEW k \in 1..n, k - 1 \in S PROVE k \in S
  <2>1. j[k - 1] = h[k - 1] + (IF k - 1 < i THEN 0 ELSE t)
    BY <1>5
  <2>a. h[k] = IF k \in A THEN h[k - 1] + s[k].tokens ELSE h[k - 1]
    BY <1>1 DEF TokenPath
  <2>b. j[k] = IF k \in A \cup {i} THEN j[k - 1] + s[k].tokens ELSE j[k - 1]
    BY <1>2, Zenon DEF TokenPath
  <2>c. k - 1 \in 0..n
    OBVIOUS
  <2>d. h[k - 1] \in Nat
    BY <1>1, <2>c DEF TokenPath
  <2>2. /\ h[k] = IF k \in A THEN h[k - 1] + s[k].tokens ELSE h[k - 1]
        /\ j[k] = IF k \in A \cup {i} THEN j[k - 1] + s[k].tokens ELSE j[k - 1]
        /\ h[k - 1] \in Nat /\ k - 1 \in 0..n
    BY <2>a, <2>b, <2>c, <2>d
  <2>3. s[k].tokens \in Nat
    BY EventsAreRows DEF EventFacts
  <2>4. CASE k = i
    BY <1>3, <2>1, <2>2, <2>4
  <2>5. CASE k # i
    BY <2>1, <2>2, <2>3, <2>5
  <2> QED
    BY <2>4, <2>5
<1> HIDE DEF S
<1>6. \A k \in 0..n : k \in S
  BY <1>4, <1>5, Climb
<1>7. j[n] = h[n] + (IF n < i THEN 0 ELSE t)
  BY <1>6 DEF S
<1> QED
  BY <1>1, <1>2, <1>3, <1>7 DEF TokenPath

\* A row that is only stored adds nothing.
LEMMA TokensAppend ==
    ASSUME InventoryConstants, NEW s \in Seq(Events),
           NEW e \in Events, NEW A, A \subseteq 1..Len(s)
    PROVE  TokensOf(Append(s, e), A) = TokensOf(s, A)
<1>1. PICK n \in Nat : n = Len(s)
  OBVIOUS
<1>2. PICK r : r = Append(s, e)
  OBVIOUS
<1>3. /\ r \in Seq(Events) /\ n + 1 = Len(r) /\ n + 1 \in Nat
      /\ \A k \in 1..n : r[k] = s[k]
  BY <1>1, <1>2
<1>4. PICK h : TokenPath(h, n, s, A)
  BY <1>1, TokensWalk
<1>5. PICK j : TokenPath(j, n + 1, r, A)
  BY <1>3, TokensWalk
<1> DEFINE S == {k \in 0..n : j[k] = h[k]}
<1>6. 0 \in S
  BY <1>4, <1>5 DEF TokenPath
<1>7. ASSUME NEW k \in 1..n, k - 1 \in S PROVE k \in S
  <2>1. j[k - 1] = h[k - 1]
    BY <1>7
  <2>2. k \in 1..(n + 1)
    OBVIOUS
  <2>3. /\ h[k] = IF k \in A THEN h[k - 1] + s[k].tokens ELSE h[k - 1]
        /\ j[k] = IF k \in A THEN j[k - 1] + r[k].tokens ELSE j[k - 1]
    BY <1>4, <1>5, <2>2 DEF TokenPath
  <2>4. j[k] = h[k]
    BY <1>3, <2>1, <2>3
  <2> QED
    BY <2>4
<1> HIDE DEF S
<1>8. \A k \in 0..n : k \in S
  BY <1>6, <1>7, Climb
<1>9. j[n] = h[n]
  BY <1>8 DEF S
<1>10. n + 1 \notin A /\ n + 1 \in 1..(n + 1) /\ (n + 1) - 1 = n
  BY <1>1
<1>11. j[n + 1] = j[n]
  BY <1>5, <1>10 DEF TokenPath
<1> QED
  BY <1>2, <1>4, <1>5, <1>9, <1>11 DEF TokenPath

LEMMA NoTokens ==
    ASSUME InventoryConstants
    PROVE  TokensOf(<<>>, {}) = 0
<1>1. <<>> \in Seq(Events) /\ Len(<<>>) = 0
  OBVIOUS
<1>2. PICK h : TokenPath(h, 0, <<>>, {})
  BY <1>1, TokensWalk
<1> QED
  BY <1>2 DEF TokenPath

ExactRow(s, row, ids) ==
    /\ row.calls = Cardinality({i \in ids : IsCall(s[i])})
    /\ row.errors = Cardinality({i \in ids : s[i].error})
    /\ row.tokens = TokensOf(s, ids)
    /\ row.providers = Given({s[i].provider : i \in ids})

Traces(s, ids) == {s[i].trace : i \in ids}

SampledRow(s, sample, ids) ==
    /\ sample \subseteq Traces(s, ids)
    /\ IF SampleCap <= Cardinality(Traces(s, ids)) THEN Cardinality(sample) = SampleCap
       ELSE Cardinality(sample) = Cardinality(Traces(s, ids))

LEMMA RowsFinite ==
    ASSUME NEW n \in Nat, NEW A, A \subseteq 1..n
    PROVE  IsFiniteSet(A)
<1>1. IsFiniteSet(1..n)
  BY FS_Interval
<1> QED
  BY <1>1, FS_Subset

LEMMA TracesFinite ==
    ASSUME NEW s, NEW n \in Nat, NEW A, A \subseteq 1..n
    PROVE  IsFiniteSet(Traces(s, A))
<1> DEFINE X == {s[k].trace : k \in A}
           fun == [k \in A |-> s[k].trace]
<1>1. fun \in [A -> X] /\ \A x \in X : \E k \in A : fun[k] = x
  OBVIOUS
<1> HIDE DEF X, fun
<1>2. fun \in Surjection(A, X)
  BY <1>1 DEF Surjection
<1>3. IsFiniteSet(X)
  BY <1>2, RowsFinite, FS_Surjection
<1> QED
  BY <1>3 DEF X, Traces

\* One row more is counted once where it belongs.
LEMMA RowAdd ==
    ASSUME InventoryConstants, NEW s \in Seq(Events),
           NEW n \in Nat, n = Len(s), NEW A, A \subseteq 1..n, NEW i \in 1..n, i \notin A,
           NEW row \in Row, ExactRow(s, row, A)
    PROVE  ExactRow(s, Bump(row, s[i]), A \cup {i})
<1>1. s[i] \in Events /\ EventFacts(s[i])
  BY EventsAreRows
<1>2. PICK e : e = s[i]
  OBVIOUS
<1> DEFINE new == Bump(row, e)
           calls == {k \in A : IsCall(s[k])}
           errors == {k \in A : s[k].error}
<1>3. IsFiniteSet(calls) /\ IsFiniteSet(errors) /\ i \notin calls /\ i \notin errors
  <2>1. calls \subseteq 1..n /\ errors \subseteq 1..n
    OBVIOUS
  <2> QED
    BY <2>1, RowsFinite
<1>4. /\ Cardinality(calls \cup {i}) = Cardinality(calls) + 1 /\ Cardinality(calls) \in Nat
      /\ Cardinality(errors \cup {i}) = Cardinality(errors) + 1 /\ Cardinality(errors) \in Nat
  BY <1>3, FS_AddElement, FS_CardinalityType
<1>5. {k \in A \cup {i} : IsCall(s[k])} =
        IF IsCall(e) THEN calls \cup {i} ELSE calls
  BY <1>2
<1>6. {k \in A \cup {i} : s[k].error} = IF e.error THEN errors \cup {i} ELSE errors
  BY <1>2
<1>7. row.calls = Cardinality(calls) /\ row.errors = Cardinality(errors)
  BY DEF ExactRow
<1> HIDE DEF calls, errors
<1>8. /\ new.calls = row.calls + One(IsCall(e))
      /\ new.errors = row.errors + One(e.error)
      /\ new.tokens = row.tokens + e.tokens
      /\ new.providers = MergeSets(row.providers, e.provider)
  BY DEF Bump
<1> HIDE DEF new
<1>9. new.calls = Cardinality({k \in A \cup {i} : IsCall(s[k])})
  <2>1. new.calls = Cardinality(IF IsCall(e) THEN calls \cup {i} ELSE calls)
    BY <1>4, <1>7, <1>8 DEF One
  <2> QED
    BY <1>5, <2>1, Zenon
<1>10. new.errors = Cardinality({k \in A \cup {i} : s[k].error})
  <2>1. new.errors = Cardinality(IF e.error THEN errors \cup {i} ELSE errors)
    BY <1>4, <1>7, <1>8 DEF One
  <2> QED
    BY <1>6, <2>1, Zenon
<1>11. new.tokens = TokensOf(s, A \cup {i})
  BY <1>2, <1>8, TokensAdd DEF ExactRow
<1>12. new.providers = Given({s[k].provider : k \in A \cup {i}})
  <2>1. row.providers = Given({s[k].provider : k \in A})
    BY DEF ExactRow
  <2>2. {s[k].provider : k \in A \cup {i}} = {s[k].provider : k \in A} \cup {e.provider}
    BY <1>2
  <2> QED
    BY <1>8, <2>1, <2>2 DEF Given, MergeSets
<1> QED
  BY <1>2, <1>9, <1>10, <1>11, <1>12 DEF ExactRow, new

\* A sample takes a trace as long as there is room.
LEMMA SampleAdd ==
    ASSUME InventoryConstants, NEW s \in Seq(Events),
           NEW n \in Nat, n = Len(s), NEW A, A \subseteq 1..n, NEW i \in 1..n,
           NEW sample, SampledRow(s, sample, A)
    PROVE  SampledRow(s, Sample(sample, s[i]), A \cup {i})
<1> DEFINE T == Traces(s, A)
           U == Traces(s, A \cup {i})
           t == s[i].trace
<1>1. U = T \cup {t}
  BY DEF Traces
<1>2. IsFiniteSet(T)
  BY TracesFinite
<1>3. SampledRow(s, sample, A) => sample \subseteq T
  BY DEF SampledRow
<1>4. IsFiniteSet(sample) /\ IsFiniteSet(U)
      /\ Cardinality(T) \in Nat /\ Cardinality(sample) \in Nat /\ Cardinality(U) \in Nat
      /\ (t \in T => Cardinality(U) = Cardinality(T))
      /\ (t \notin T => Cardinality(U) = Cardinality(T) + 1)
  <2>1. IsFiniteSet(sample)
    BY <1>2, <1>3, FS_Subset
  <2>2. IsFiniteSet(T \cup {t}) /\ (t \notin T => Cardinality(T \cup {t}) = Cardinality(T) + 1)
    BY <1>2, FS_AddElement
  <2>3. t \in T => T \cup {t} = T
    OBVIOUS
  <2> HIDE DEF T, U, t
  <2> QED
    BY <1>1, <1>2, <2>1, <2>2, <2>3, FS_CardinalityType
<1>5. SampleCap \in Nat /\ SampleCap > 0
  BY DEF InventoryConstants
<1>6. Sample(sample, s[i]) = IF Cardinality(sample) < SampleCap THEN sample \cup {t} ELSE sample
  BY DEF Sample, OnlyIf
<1>7. /\ sample \subseteq T
      /\ IF SampleCap <= Cardinality(T) THEN Cardinality(sample) = SampleCap
         ELSE Cardinality(sample) = Cardinality(T)
  BY DEF SampledRow
<1> HIDE DEF T, U, t
<1>8. CASE Cardinality(sample) < SampleCap
  <2>1. Cardinality(sample) = Cardinality(T)
    BY <1>4, <1>5, <1>7, <1>8
  <2>2. sample = T
    BY <1>2, <1>7, <2>1, FS_Subset
  <2>3. Sample(sample, s[i]) = U
    BY <1>1, <1>6, <1>8, <2>2
  <2>4. IF SampleCap <= Cardinality(U) THEN Cardinality(U) = SampleCap
        ELSE Cardinality(U) = Cardinality(U)
    BY <1>4, <1>5, <1>8, <2>1
  <2> QED
    BY <2>3, <2>4 DEF SampledRow, U
<1>9. CASE ~(Cardinality(sample) < SampleCap)
  <2>1. Cardinality(sample) = SampleCap /\ SampleCap <= Cardinality(U)
    BY <1>4, <1>5, <1>7, <1>9
  <2>2. Sample(sample, s[i]) = sample /\ sample \subseteq U
    BY <1>1, <1>6, <1>7, <1>9
  <2> QED
    BY <2>1, <2>2 DEF SampledRow, U
<1> QED
  BY <1>8, <1>9

ExactTables(s, C, inv) ==
    /\ ExactRow(s, inv.application, {i \in C : InApplication(s[i])})
    /\ \A w \in Flow : ExactRow(s, inv.workflows[w], {i \in C : InWorkflow(s[i], w)})
    /\ \A p \in Provider \cup {None} :
         ExactRow(s, inv.models[p], {i \in C : IsCall(s[i]) /\ p = s[i].provider})
    /\ \A p \in Provider : inv.providers[p] = inv.models[p]
    /\ \A t \in Controlled : inv.controls[t] = Cardinality({i \in C : t = s[i].type})
    /\ \A b \in BOOLEAN, r \in Risk :
         SampledRow(s, inv.risks[b][r], {i \in C : b = s[i].named /\ r \in Raised(s[i])})

\* process_event keeps the tables exact, counting one row more.
LEMMA TablesAdd ==
    ASSUME InventoryConstants, NEW s \in Seq(Events),
           NEW n \in Nat, n = Len(s), NEW C, C \subseteq 1..n, NEW i \in 1..n, i \notin C,
           NEW inv \in Tables, ExactTables(s, C, inv)
    PROVE  ExactTables(s, C \cup {i}, ProcessEvent(inv, s[i]))
<1>1. s[i] \in Events /\ EventFacts(s[i])
  BY EventsAreRows
<1>2. PICK e \in Events : e = s[i]
  BY <1>1
<1>3. PICK new : new = ProcessEvent(inv, e)
  OBVIOUS
<1>4. /\ new.application =
           IF InApplication(e) THEN Bump(inv.application, e) ELSE inv.application
      /\ \A w \in Flow : new.workflows[w] =
           IF InWorkflow(e, w) THEN Bump(inv.workflows[w], e) ELSE inv.workflows[w]
      /\ \A p \in Provider \cup {None} : new.models[p] =
           IF IsCall(e) /\ p = e.provider
           THEN Bump(inv.models[p], e) ELSE inv.models[p]
      /\ \A p \in Provider : new.providers[p] =
           IF IsCall(e) /\ p = e.provider
           THEN Bump(inv.providers[p], e) ELSE inv.providers[p]
      /\ \A b \in BOOLEAN, r \in Risk : new.risks[b][r] =
           IF b = e.named /\ r \in Raised(e) THEN Sample(inv.risks[b][r], e)
           ELSE inv.risks[b][r]
      /\ \A t \in Controlled : new.controls[t] =
           IF t = e.type THEN inv.controls[t] + 1 ELSE inv.controls[t]
  BY <1>1, <1>2, <1>3, EventEffect
<1>5. ASSUME NEW row \in Row, NEW B, B \subseteq C, ExactRow(s, row, B)
      PROVE  ExactRow(s, Bump(row, e), B \cup {i})
  <2>1. B \subseteq 1..n /\ i \notin B
    BY <1>5
  <2> QED
    BY <1>2, <1>5, <2>1, RowAdd
<1>6. /\ inv.application \in Row
      /\ \A w \in Flow : inv.workflows[w] \in Row
      /\ \A p \in Provider \cup {None} : inv.models[p] \in Row
      /\ \A t \in Controlled : inv.controls[t] \in Nat
  BY DEF Tables
<1>7. ExactRow(s, new.application, {k \in C \cup {i} : InApplication(s[k])})
  <2> DEFINE B == {k \in C : InApplication(s[k])}
             D == {k \in C \cup {i} : InApplication(s[k])}
  <2>1. ExactRow(s, inv.application, B) /\ B \subseteq C
    BY DEF ExactTables
  <2>2. D = IF InApplication(e) THEN B \cup {i} ELSE B
    BY <1>2
  <2> HIDE DEF B, D
  <2>3. ExactRow(s, Bump(inv.application, e), B \cup {i})
    BY <1>5, <1>6, <2>1
  <2>4. ExactRow(s, new.application, D)
    BY <1>4, <2>1, <2>2, <2>3
  <2> QED
    BY <2>4 DEF D
<1>8. ASSUME NEW w \in Flow
      PROVE  ExactRow(s, new.workflows[w], {k \in C \cup {i} : InWorkflow(s[k], w)})
  <2> DEFINE B == {k \in C : InWorkflow(s[k], w)}
             D == {k \in C \cup {i} : InWorkflow(s[k], w)}
  <2>1. ExactRow(s, inv.workflows[w], B) /\ B \subseteq C
    BY DEF ExactTables
  <2>2. D = IF InWorkflow(e, w) THEN B \cup {i} ELSE B
    BY <1>2
  <2> HIDE DEF B, D
  <2>3. ExactRow(s, Bump(inv.workflows[w], e), B \cup {i})
    BY <1>5, <1>6, <2>1
  <2>4. ExactRow(s, new.workflows[w], D)
    BY <1>4, <2>1, <2>2, <2>3
  <2> QED
    BY <2>4 DEF D
<1>9. ASSUME NEW p \in Provider \cup {None}
      PROVE  ExactRow(s, new.models[p],
                      {k \in C \cup {i} : IsCall(s[k]) /\ p = s[k].provider})
  <2> DEFINE B == {k \in C : IsCall(s[k]) /\ p = s[k].provider}
             D == {k \in C \cup {i} : IsCall(s[k]) /\ p = s[k].provider}
  <2>1. ExactRow(s, inv.models[p], B) /\ B \subseteq C
    BY DEF ExactTables
  <2>2. D = IF IsCall(e) /\ p = e.provider THEN B \cup {i} ELSE B
    BY <1>2
  <2> HIDE DEF B, D
  <2>3. ExactRow(s, Bump(inv.models[p], e), B \cup {i})
    BY <1>5, <1>6, <2>1
  <2>4. ExactRow(s, new.models[p], D)
    BY <1>4, <2>1, <2>2, <2>3
  <2> QED
    BY <2>4 DEF D
<1>10. \A p \in Provider : new.providers[p] = new.models[p]
  BY <1>4 DEF ExactTables
<1>11. ASSUME NEW t \in Controlled
       PROVE  new.controls[t] = Cardinality({k \in C \cup {i} : t = s[k].type})
  <2> DEFINE B == {k \in C : t = s[k].type}
             D == {k \in C \cup {i} : t = s[k].type}
  <2>1. inv.controls[t] = Cardinality(B) /\ B \subseteq 1..n /\ i \notin B
    BY DEF ExactTables
  <2>2. D = IF t = e.type THEN B \cup {i} ELSE B
    BY <1>2
  <2> HIDE DEF B, D
  <2>3. Cardinality(B \cup {i}) = Cardinality(B) + 1
    BY <2>1, RowsFinite, FS_AddElement
  <2>4. new.controls[t] = Cardinality(D)
    BY <1>4, <2>1, <2>2, <2>3
  <2> QED
    BY <2>4 DEF D
<1>12. ASSUME NEW b \in BOOLEAN, NEW r \in Risk
       PROVE  SampledRow(s, new.risks[b][r],
                         {k \in C \cup {i} : b = s[k].named /\ r \in Raised(s[k])})
  <2> DEFINE B == {k \in C : b = s[k].named /\ r \in Raised(s[k])}
             D == {k \in C \cup {i} : b = s[k].named /\ r \in Raised(s[k])}
  <2>1. SampledRow(s, inv.risks[b][r], B) /\ B \subseteq 1..n
    BY DEF ExactTables
  <2>2. D = IF b = e.named /\ r \in Raised(e) THEN B \cup {i} ELSE B
    BY <1>2
  <2> HIDE DEF B, D
  <2>3. SampledRow(s, Sample(inv.risks[b][r], e), B \cup {i})
    BY <1>2, <2>1, SampleAdd
  <2>4. SampledRow(s, new.risks[b][r], D)
    BY <1>4, <2>1, <2>2, <2>3
  <2> QED
    BY <2>4 DEF D
<1>13. ExactTables(s, C \cup {i}, new)
  BY <1>7, <1>8, <1>9, <1>10, <1>11, <1>12 DEF ExactTables
<1> QED
  BY <1>2, <1>3, <1>13

\* The rows of a batch that the pass has taken.
Upto(ids, k) == {i \in ids : i <= k}

LEMMA UptoEnds ==
    ASSUME NEW n \in Nat, NEW ids, ids \subseteq 1..n
    PROVE  Upto(ids, 0) = {} /\ Upto(ids, n) = ids
<1>1. \A i \in ids : i \in Int /\ 1 <= i /\ i <= n
  OBVIOUS
<1>2. \A i \in ids : ~(i <= 0)
  BY <1>1
<1> QED
  BY <1>1, <1>2 DEF Upto

LEMMA UptoStep ==
    ASSUME NEW n \in Nat, NEW ids, ids \subseteq 1..n, NEW k \in 1..n
    PROVE  /\ Upto(ids, k - 1) \subseteq ids /\ k \notin Upto(ids, k - 1)
           /\ \A i : i \in Upto(ids, k) <=> i \in Upto(ids, k - 1) \/ (i = k /\ k \in ids)
<1>1. \A i \in ids : i <= k <=> i = k \/ i <= k - 1
  OBVIOUS
<1>2. ~(k <= k - 1) /\ k <= k
  OBVIOUS
<1> QED
  BY <1>1, <1>2 DEF Upto

LEMMA PassIsExact ==
    ASSUME InventoryConstants, sdkEvents \in Seq(Events),
           NEW n \in Nat, n = Len(sdkEvents), NEW inv \in Tables,
           NEW C, C \subseteq 1..n, NEW ids, ids \subseteq 1..n, ids \cap C = {},
           ExactTables(sdkEvents, C, inv)
    PROVE  ExactTables(sdkEvents, C \cup ids, EventsFolded(inv, ids))
<1>1. PICK h : EventPath(h, n, inv, ids)
  BY EventsWalk
<1>2. /\ h \in [0..n -> Tables] /\ h[0] = inv /\ EventsFolded(inv, ids) = h[n]
      /\ \A k \in 1..n : h[k] = IF k \in ids
                                THEN ProcessEvent(h[k - 1], sdkEvents[k]) ELSE h[k - 1]
  BY <1>1 DEF EventPath
<1>3. PICK s : s = sdkEvents
  OBVIOUS
<1> DEFINE Taken(k) == C \cup Upto(ids, k)
<1>u. Upto(ids, n) = ids /\ Upto(ids, 0) = {}
  BY UptoEnds
<1>a. Taken(0) = C
  BY <1>u
<1>b. Taken(n) = C \cup ids
  BY <1>u
<1>c. ASSUME NEW k \in 1..n
      PROVE  /\ k \in ids => Taken(k) = Taken(k - 1) \cup {k}
             /\ k \notin ids => Taken(k) = Taken(k - 1)
  <2>1. \A i : i \in Upto(ids, k) <=> i \in Upto(ids, k - 1) \/ (i = k /\ k \in ids)
    BY UptoStep
  <2> QED
    BY <2>1
<1>d. ASSUME NEW k \in 1..n
      PROVE  Taken(k - 1) \subseteq 1..n /\ (k \in ids => k \notin Taken(k - 1))
  BY UptoStep
<1> HIDE DEF Taken
<1> DEFINE S == {k \in 0..n : ExactTables(s, Taken(k), h[k])}
<1>4. 0 \in S
  BY <1>2, <1>3, <1>a
<1>5. ASSUME NEW k \in 1..n, k - 1 \in S PROVE k \in S
  <2>1. ExactTables(s, Taken(k - 1), h[k - 1]) /\ k - 1 \in 0..n /\ h[k - 1] \in Tables
    BY <1>2, <1>5
  <2>2. CASE k \in ids
    <3>1. Taken(k) = Taken(k - 1) \cup {k}
      BY <1>c, <2>2
    <3>2. Taken(k - 1) \subseteq 1..n /\ k \notin Taken(k - 1)
      BY <1>d, <2>2
    <3>3. h[k] = ProcessEvent(h[k - 1], s[k])
      BY <1>2, <1>3, <2>2
    <3>4. s \in Seq(Events) /\ n = Len(s)
      BY <1>3
    <3>5. ExactTables(s, Taken(k - 1) \cup {k}, ProcessEvent(h[k - 1], s[k]))
      BY <2>1, <3>2, <3>4, TablesAdd
    <3>6. ExactTables(s, Taken(k), h[k])
      BY <3>1, <3>3, <3>5
    <3> QED
      BY <3>6
  <2>3. CASE k \notin ids
    <3>1. Taken(k) = Taken(k - 1) /\ h[k] = h[k - 1]
      BY <1>2, <1>c, <2>3
    <3>2. ExactTables(s, Taken(k), h[k])
      BY <2>1, <3>1
    <3> QED
      BY <3>2
  <2> QED
    BY <2>2, <2>3
<1> HIDE DEF S
<1>6. \A k \in 0..n : k \in S
  BY <1>4, <1>5, Climb
<1>7. ExactTables(s, Taken(n), h[n])
  BY <1>6 DEF S
<1> QED
  BY <1>2, <1>3, <1>7, <1>b

\* Storing a row leaves what is counted as it is.
LEMMA RowAppend ==
    ASSUME InventoryConstants, NEW s \in Seq(Events),
           NEW e \in Events, NEW A, A \subseteq 1..Len(s), NEW row
    PROVE  ExactRow(Append(s, e), row, A) <=> ExactRow(s, row, A)
<1>1. PICK r : r = Append(s, e)
  OBVIOUS
<1>2. \A k \in A : r[k] = s[k]
  BY <1>1
<1>3. TokensOf(r, A) = TokensOf(s, A)
  BY <1>1, TokensAppend
<1>4. {k \in A : IsCall(r[k])} = {k \in A : IsCall(s[k])}
  BY <1>2
<1>5. {k \in A : r[k].error} = {k \in A : s[k].error}
  BY <1>2
<1>6. {r[k].provider : k \in A} = {s[k].provider : k \in A}
  BY <1>2
<1>7. ExactRow(r, row, A) <=> ExactRow(s, row, A)
  BY <1>3, <1>4, <1>5, <1>6, Zenon DEF ExactRow
<1> QED
  BY <1>1, <1>7

LEMMA TablesAppend ==
    ASSUME InventoryConstants, NEW s \in Seq(Events),
           NEW e \in Events, NEW C, C \subseteq 1..Len(s), NEW inv,
           ExactTables(s, C, inv)
    PROVE  ExactTables(Append(s, e), C, inv)
<1>1. PICK r : r = Append(s, e)
  OBVIOUS
<1>2. \A k \in C : r[k] = s[k]
  BY <1>1
<1>3. ASSUME NEW A, A \subseteq C, NEW row PROVE ExactRow(r, row, A) <=> ExactRow(s, row, A)
  BY <1>1, <1>3, RowAppend
<1>4. {i \in C : InApplication(r[i])} = {i \in C : InApplication(s[i])}
  BY <1>2
<1>5. ASSUME NEW w PROVE {i \in C : InWorkflow(r[i], w)} = {i \in C : InWorkflow(s[i], w)}
  BY <1>2
<1>6. ASSUME NEW p
      PROVE  {i \in C : IsCall(r[i]) /\ p = r[i].provider} =
             {i \in C : IsCall(s[i]) /\ p = s[i].provider}
  BY <1>2
<1>7. ASSUME NEW t PROVE {i \in C : t = r[i].type} = {i \in C : t = s[i].type}
  BY <1>2
<1>9. ASSUME NEW A, A \subseteq C, NEW sample
      PROVE  SampledRow(r, sample, A) <=> SampledRow(s, sample, A)
  <2>1. Traces(r, A) = Traces(s, A)
    BY <1>2, <1>9 DEF Traces
  <2> QED
    BY <2>1, Zenon DEF SampledRow
<1>10. ExactRow(r, inv.application, {i \in C : InApplication(r[i])})
  <2> DEFINE A == {i \in C : InApplication(s[i])}
  <2>1. A \subseteq C /\ ExactRow(s, inv.application, A) /\ {i \in C : InApplication(r[i])} = A
    BY <1>4 DEF ExactTables
  <2> HIDE DEF A
  <2> QED
    BY <1>3, <2>1
<1>11. ASSUME NEW w \in Flow
       PROVE  ExactRow(r, inv.workflows[w], {i \in C : InWorkflow(r[i], w)})
  <2> DEFINE A == {i \in C : InWorkflow(s[i], w)}
  <2>1. A \subseteq C /\ ExactRow(s, inv.workflows[w], A) /\ {i \in C : InWorkflow(r[i], w)} = A
    BY <1>5 DEF ExactTables
  <2> HIDE DEF A
  <2> QED
    BY <1>3, <2>1
<1>12. ASSUME NEW p \in Provider \cup {None}
       PROVE  ExactRow(r, inv.models[p], {i \in C : IsCall(r[i]) /\ p = r[i].provider})
  <2> DEFINE A == {i \in C : IsCall(s[i]) /\ p = s[i].provider}
  <2>1. /\ A \subseteq C /\ ExactRow(s, inv.models[p], A)
        /\ {i \in C : IsCall(r[i]) /\ p = r[i].provider} = A
    BY <1>6 DEF ExactTables
  <2> HIDE DEF A
  <2> QED
    BY <1>3, <2>1
<1>13. ASSUME NEW t \in Controlled
       PROVE  inv.controls[t] = Cardinality({i \in C : t = r[i].type})
  BY <1>7 DEF ExactTables
<1>14. ASSUME NEW b \in BOOLEAN, NEW k \in Risk
       PROVE  SampledRow(r, inv.risks[b][k], {i \in C : b = r[i].named /\ k \in Raised(r[i])})
  <2> DEFINE A == {i \in C : b = s[i].named /\ k \in Raised(s[i])}
  <2>a. {i \in C : b = r[i].named /\ k \in Raised(r[i])} = A
    BY <1>2
  <2>b. SampledRow(s, inv.risks[b][k], A)
    BY Zenon DEF ExactTables
  <2>1. /\ A \subseteq C /\ SampledRow(s, inv.risks[b][k], A)
        /\ {i \in C : b = r[i].named /\ k \in Raised(r[i])} = A
    BY <2>a, <2>b, Zenon
  <2> HIDE DEF A
  <2> QED
    BY <1>9, <2>1
<1>15. \A p \in Provider : inv.providers[p] = inv.models[p]
  BY DEF ExactTables
<1>16. ExactTables(r, C, inv)
  BY <1>10, <1>11, <1>12, <1>13, <1>14, <1>15 DEF ExactTables
<1> QED
  BY <1>1, <1>16

\* The property, from what it says of the rows and the counted ones.
LEMMA ExactFromRow ==
    ASSUME NEW row, NEW ids, ExactRow(sdkEvents, row, ids)
    PROVE  Exact(row, ids)
<1>1. TokensOf(sdkEvents, ids) = InOrder(LAMBDA sum, e : sum + e.tokens, 0, ids)
  BY Zenon DEF TokensOf, InOrder
<1> QED
  BY <1>1, Zenon DEF ExactRow, Exact

LEMMA SampledFromRow ==
    ASSUME InventoryConstants, NEW sample, NEW ids, SampledRow(sdkEvents, sample, ids),
           IsFiniteSet(Traces(sdkEvents, ids))
    PROVE  Sampled(sample, ids)
<1>1. PICK T : T = Traces(sdkEvents, ids)
  OBVIOUS
<1>2. PICK c \in Nat : c = Cardinality(T)
  BY <1>1, FS_CardinalityType
<1>3. SampleCap \in Nat
  BY DEF InventoryConstants
<1>4. Min({SampleCap, c}) = IF SampleCap <= c THEN SampleCap ELSE c
  <2>1. PICK x : x \in {SampleCap, c} /\ \A y \in {SampleCap, c} : x <= y
    BY <1>3
  <2>2. Min({SampleCap, c}) \in {SampleCap, c}
        /\ \A y \in {SampleCap, c} : Min({SampleCap, c}) <= y
    BY <2>1 DEF Min
  <2> QED
    BY <1>3, <2>2
<1>5. sample \subseteq T /\ Cardinality(sample) = IF SampleCap <= c THEN SampleCap ELSE c
  BY <1>1, <1>2 DEF SampledRow
<1>6. T = {sdkEvents[i].trace : i \in ids}
  BY <1>1 DEF Traces
<1>7. sample \subseteq T /\ Cardinality(sample) = Min({SampleCap, Cardinality(T)})
  BY <1>2, <1>4, <1>5
<1> QED
  BY <1>6, <1>7 DEF Sampled

ExactInv == NewsInv /\ ExactTables(sdkEvents, countedIds, tables)

LEMMA ExactImplies ==
    ASSUME InventoryConstants, ExactInv
    PROVE  InventoryIsExact
<1>0. ExactTables(sdkEvents, countedIds, tables) /\ countedIds \subseteq 1..Len(sdkEvents)
      /\ Len(sdkEvents) \in Nat /\ sdkEvents \in Seq(Events)
  BY DEF ExactInv, NewsInv, TelemetryInv, StoreInv
<1>e. \A i \in countedIds : EventFacts(sdkEvents[i])
  BY <1>0, EventsAreRows
<1>1. Exact(tables.application,
        CountedRows(LAMBDA e : e.type \in Runtime /\ e.named))
  <2> DEFINE A == {i \in countedIds : InApplication(sdkEvents[i])}
  <2>1. Exact(tables.application, A)
    BY <1>0, ExactFromRow DEF ExactTables
  <2>2. A = CountedRows(LAMBDA e : e.type \in Runtime /\ e.named)
    BY DEF CountedRows, InApplication
  <2> QED
    BY <2>1, <2>2
<1>2. ASSUME NEW w \in Flow
      PROVE  Exact(tables.workflows[w],
               CountedRows(LAMBDA e :
                 /\ e.flow = w
                 /\ IsCall(e) \/ (e.type \in Runtime /\ e.named /\ w # None)))
  <2> DEFINE A == {i \in countedIds : InWorkflow(sdkEvents[i], w)}
  <2>1. Exact(tables.workflows[w], A)
    BY <1>0, ExactFromRow DEF ExactTables
  <2>2. A = CountedRows(LAMBDA e :
              /\ e.flow = w
              /\ IsCall(e) \/ (e.type \in Runtime /\ e.named /\ w # None))
    BY DEF CountedRows, InWorkflow, InApplication
  <2> QED
    BY <2>1, <2>2
<1>3. ASSUME NEW p \in Provider \cup {None}
      PROVE  Exact(tables.models[p],
               CountedRows(LAMBDA e : IsCall(e) /\ e.provider = p))
  <2> DEFINE A == {i \in countedIds : IsCall(sdkEvents[i]) /\ p = sdkEvents[i].provider}
  <2>1. Exact(tables.models[p], A)
    BY <1>0, ExactFromRow DEF ExactTables
  <2>2. A = CountedRows(LAMBDA e : IsCall(e) /\ e.provider = p)
    BY DEF CountedRows
  <2> QED
    BY <2>1, <2>2
<1>4. \A p \in Provider : tables.providers[p] = tables.models[p]
  BY <1>0 DEF ExactTables
<1>5. ASSUME NEW t \in Controlled
      PROVE  tables.controls[t] =
               Cardinality(CountedRows(LAMBDA e : e.type = t))
  <2> DEFINE A == {i \in countedIds : t = sdkEvents[i].type}
  <2>1. tables.controls[t] = Cardinality(A)
    BY <1>0 DEF ExactTables
  <2>2. A = CountedRows(LAMBDA e : e.type = t)
    BY DEF CountedRows
  <2> HIDE DEF A
  <2> QED
    BY <2>1, <2>2
<1>6. ASSUME NEW b \in BOOLEAN, NEW r \in Risk, NEW A,
             A = {i \in countedIds : b = sdkEvents[i].named /\ r \in Raised(sdkEvents[i])}
      PROVE  Sampled(tables.risks[b][r], A)
  <2>1. SampledRow(sdkEvents, tables.risks[b][r], A)
    BY <1>0, <1>6, Zenon DEF ExactTables
  <2>2. A \subseteq 1..Len(sdkEvents)
    BY <1>0, <1>6
  <2>3. IsFiniteSet(Traces(sdkEvents, A))
    BY <1>0, <2>2, TracesFinite
  <2> QED
    BY <2>1, <2>3, SampledFromRow
<1>7. Sampled(tables.risks[TRUE]["dependency"],
        CountedRows(LAMBDA e : IsCall(e) /\ e.named /\ e.provider # None))
  <2> DEFINE A == {i \in countedIds :
                     TRUE = sdkEvents[i].named /\ "dependency" \in Raised(sdkEvents[i])}
  <2>1. \A i \in countedIds : (TRUE = sdkEvents[i].named /\ "dependency" \in Raised(sdkEvents[i]))
          <=> (IsCall(sdkEvents[i]) /\ sdkEvents[i].named /\ sdkEvents[i].provider # None)
    BY <1>e DEF Raised, ModelRisks, Risk, EventFacts, IsCall
  <2>2. A = CountedRows(LAMBDA e : IsCall(e) /\ e.named /\ e.provider # None)
    BY <2>1 DEF CountedRows
  <2>3. "dependency" \in Risk
    BY DEF Risk
  <2>4. Sampled(tables.risks[TRUE]["dependency"], A)
    BY <1>6, <2>3
  <2> QED
    BY <2>2, <2>4
<1>8. Sampled(tables.risks[TRUE]["volume"],
        CountedRows(LAMBDA e : IsCall(e) /\ e.named /\ e.tokens > Heavy))
  <2> DEFINE A == {i \in countedIds :
                     TRUE = sdkEvents[i].named /\ "volume" \in Raised(sdkEvents[i])}
  <2>1. \A i \in countedIds : (TRUE = sdkEvents[i].named /\ "volume" \in Raised(sdkEvents[i]))
          <=> (IsCall(sdkEvents[i]) /\ sdkEvents[i].named /\ sdkEvents[i].tokens > Heavy)
    BY <1>e DEF Raised, ModelRisks, Risk, EventFacts, IsCall
  <2>2. A = CountedRows(LAMBDA e : IsCall(e) /\ e.named /\ e.tokens > Heavy)
    BY <2>1 DEF CountedRows
  <2>3. "volume" \in Risk
    BY DEF Risk
  <2>4. Sampled(tables.risks[TRUE]["volume"], A)
    BY <1>6, <2>3
  <2> QED
    BY <2>2, <2>4
<1>9. ASSUME NEW b \in BOOLEAN
      PROVE  Sampled(tables.risks[b]["guardrail"],
               CountedRows(LAMBDA e :
                 e.type = "guardrail.decision" /\ e.failed /\ e.named = b))
  <2> DEFINE A == {i \in countedIds :
                     b = sdkEvents[i].named /\ "guardrail" \in Raised(sdkEvents[i])}
  <2>1. \A i \in countedIds : (b = sdkEvents[i].named /\ "guardrail" \in Raised(sdkEvents[i]))
          <=> /\ sdkEvents[i].type = "guardrail.decision"
              /\ sdkEvents[i].failed /\ sdkEvents[i].named = b
    BY <1>e DEF Raised, ModelRisks, Risk, EventFacts, IsCall
  <2>2. A = CountedRows(LAMBDA e :
              e.type = "guardrail.decision" /\ e.failed /\ e.named = b)
    BY <2>1 DEF CountedRows
  <2>3. "guardrail" \in Risk
    BY DEF Risk
  <2>4. Sampled(tables.risks[b]["guardrail"], A)
    BY <1>6, <2>3
  <2> QED
    BY <2>2, <2>4
<1> QED
  BY <1>1, <1>2, <1>3, <1>4, <1>5, <1>7, <1>8, <1>9 DEF InventoryIsExact

LEMMA EmptyIsExact ==
    ASSUME InventoryConstants
    PROVE  ExactTables(<<>>, {}, Empty)
<1>1. Cardinality({}) = 0
  BY FS_EmptySet
<1>2. ExactRow(<<>>, NoRow, {})
  <2>1. /\ NoRow.calls = 0 /\ NoRow.errors = 0
        /\ NoRow.tokens = 0 /\ NoRow.providers = {}
    BY DEF NoRow
  <2>2. TokensOf(<<>>, {}) = 0
    BY NoTokens
  <2>3. ASSUME NEW s, TokensOf(s, {}) = 0 PROVE ExactRow(s, NoRow, {})
    <3>1. /\ {i \in {} : IsCall(s[i])} = {} /\ {i \in {} : s[i].error} = {}
          /\ {s[i].provider : i \in {}} = {}
      OBVIOUS
    <3> QED
      BY <1>1, <2>1, <2>3, <3>1 DEF ExactRow, Given
  <2> QED
    BY <2>2, <2>3
<1>3. ASSUME NEW s PROVE SampledRow(s, {}, {})
  <2>1. Traces(s, {}) = {}
    BY DEF Traces
  <2>2. SampleCap \in Nat /\ SampleCap > 0
    BY DEF InventoryConstants
  <2> QED
    BY <1>1, <2>1, <2>2 DEF SampledRow
<1>4. /\ Empty.application = NoRow
      /\ \A w \in Flow : Empty.workflows[w] = NoRow
      /\ \A p \in Provider \cup {None} : Empty.models[p] = NoRow
      /\ \A p \in Provider : Empty.providers[p] = NoRow
      /\ \A b \in BOOLEAN, r \in Risk : Empty.risks[b][r] = {}
      /\ \A t \in Controlled : Empty.controls[t] = 0
  BY DEF Empty
<1>5. PICK s : s = <<>>
  OBVIOUS
<1>6. /\ {i \in {} : InApplication(s[i])} = {}
      /\ \A w : {i \in {} : InWorkflow(s[i], w)} = {}
      /\ \A p : {i \in {} : IsCall(s[i]) /\ p = s[i].provider} = {}
      /\ \A t : {i \in {} : t = s[i].type} = {}
      /\ \A b, r : {i \in {} : b = s[i].named /\ r \in Raised(s[i])} = {}
  OBVIOUS
<1>7. ExactRow(s, NoRow, {})
  BY <1>2, <1>5
<1>8. ExactTables(s, {}, Empty)
  BY <1>1, <1>3, <1>4, <1>6, <1>7, Zenon DEF ExactTables
<1> QED
  BY <1>5, <1>8

LEMMA ExactStep ==
    ASSUME InventoryConstants, ExactInv, [InventoryNext]_inventoryVars
    PROVE  ExactInv'
<1>0. NewsInv /\ TelemetryInv /\ NewsInv' /\ sdkEvents \in Seq(Events)
      /\ tables \in Tables /\ countedIds \subseteq 1..Len(sdkEvents)
      /\ unsent \subseteq Events
  BY NewsStep DEF ExactInv, NewsInv, TelemetryInv, StoreInv
<1>s. ASSUME UNCHANGED <<sdkEvents, countedIds, tables>> PROVE ExactInv'
  <2>1. ExactTables(sdkEvents', countedIds', tables')
    BY <1>s DEF ExactInv
  <2> QED
    BY <1>0, <2>1 DEF ExactInv
<1>1. CASE \E e \in unsent : InsertEvent(e)
  <2>1. PICK e \in unsent : InsertEvent(e)
    BY <1>1
  <2>2. sdkEvents' = Append(sdkEvents, e) /\ countedIds' = countedIds /\ tables' = tables
        /\ e \in Events
    BY <1>0, <2>1 DEF InsertEvent
  <2>3. ExactTables(Append(sdkEvents, e), countedIds, tables)
    BY <1>0, <2>2, TablesAppend DEF ExactInv
  <2>4. ExactTables(sdkEvents', countedIds', tables')
    BY <2>2, <2>3
  <2> QED
    BY <1>0, <2>4 DEF ExactInv
<1>2. CASE \E f \in Fold : Projection(f)
  <2>1. PICK f \in Fold : Projection(f)
    BY <1>2
  <2>2. CASE ProcessEvents(f)
    <3>1. /\ tables' = EventsFolded(tables, Uncounted(job[f].batch))
          /\ countedIds' = countedIds \cup Uncounted(job[f].batch)
          /\ sdkEvents' = sdkEvents
      BY <2>2 DEF ProcessEvents, EventsFolded
    <3>2. PICK ids : ids = Uncounted(job[f].batch)
      OBVIOUS
    <3>3. ids \subseteq 1..Len(sdkEvents) /\ ids \cap countedIds = {}
      BY <1>0, <3>2 DEF TelemetryInv, TableInv, JobRow, Uncounted
    <3>4. PICK n \in Nat : n = Len(sdkEvents)
      BY <1>0
    <3>5. ExactTables(sdkEvents, countedIds \cup ids, EventsFolded(tables, ids))
      BY <1>0, <3>3, <3>4, PassIsExact DEF ExactInv
    <3>6. ExactTables(sdkEvents', countedIds', tables')
      BY <3>1, <3>2, <3>5
    <3> QED
      BY <1>0, <3>6 DEF ExactInv
  <2>3. CASE ~ProcessEvents(f)
    <3>1. UNCHANGED <<sdkEvents, countedIds, tables>>
      BY <1>0, <2>1, <2>3, FoldMoves
    <3> QED
      BY <1>s, <3>1
  <2> QED
    BY <2>2, <2>3
<1>3. CASE CloseIncident \/ UNCHANGED inventoryVars
  <2>1. UNCHANGED <<sdkEvents, countedIds, tables>>
    BY <1>3 DEF CloseIncident, inventoryVars, state
  <2> QED
    BY <1>s, <2>1
<1>4. CASE (\E r \in Registration : RegisterAgent(r)) \/ RetireAgent
  <2>1. PICK r \in AgentRow : SetRegistered(r)
    BY <1>0, <1>4, RegistrySteps
  <2>2. UNCHANGED <<sdkEvents, countedIds, tables>>
    BY <2>1 DEF SetRegistered, state
  <2> QED
    BY <1>s, <2>2
<1> QED
  BY <1>1, <1>2, <1>3, <1>4 DEF InventoryNext

\* However often the rows are folded, together or apart, and whatever fails, the
\* inventory is what one pass over the counted rows gives (process_events counts
\* the rows that are not stamped and stamps them in one transaction).
THEOREM InventoryIsAlwaysExact == InventorySpec => []InventoryIsExact
<1> InventoryConstants
  BY InventoryAssumption
<1>1. InventoryInit => ExactInv
  <2> SUFFICES ASSUME InventoryInit PROVE ExactInv
    OBVIOUS
  <2>1. sdkEvents = <<>> /\ countedIds = {} /\ tables = Empty
    BY DEF InventoryInit
  <2>2. ExactTables(sdkEvents, countedIds, tables)
    BY <2>1, EmptyIsExact
  <2> QED
    BY <2>2, NewsInit DEF ExactInv
<1>2. ExactInv /\ [InventoryNext]_inventoryVars => ExactInv'
  BY ExactStep
<1>3. ExactInv => InventoryIsExact
  BY ExactImplies
<1> QED
  BY <1>1, <1>2, <1>3, PTL DEF InventorySpec

=============================================================================
