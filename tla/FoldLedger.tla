----------------------------- MODULE FoldLedger -----------------------------
(***************************************************************************)
(* The ingest path of the platform and its durable fold ledger             *)
(* (apps/platform/app: ingestion/routes.py, storage/raw_events.py,         *)
(* storage/fold.py, storage/entities.py, services/fold_sweeper.py).        *)
(*                                                                         *)
(* A request stores a batch of raw events and then folds every pending row *)
(* of its tenant through a pipeline of projections, each of which commits  *)
(* on its own.  A background sweeper folds whatever a failed request or a  *)
(* killed process left behind, row by row when the whole set fails.        *)
(***************************************************************************)
EXTENDS Integers, FiniteSets

CONSTANTS
    Event,        \* raw events, one per (tenant_id, trace_id, span_id)
    Tenant,       \* organizations
    TenantOf,     \* the tenant an event is bound to
    Request,      \* concurrent ingest requests (threadpool threads, replicas)
    Sweeper,      \* the one background sweeper that holds the sweep lock
    NoWorker,     \* nobody holds the write lock
    Serialized,   \* TRUE: BEGIN IMMEDIATE takes the write lock (SQLite);
                  \* FALSE: it is a plain READ COMMITTED BEGIN (Postgres)
    ClaimLimit,   \* NORINTH_FOLD_CLAIM_LIMIT
    MaxAttempts,  \* NORINTH_FOLD_MAX_ATTEMPTS
    PoisonPlan,   \* which events may be unfoldable: where each one raises
    MaxFaults,    \* bound on transient failures and crashes
    EvidenceCap   \* how far evidence_count is followed: 2 tells "again" apart

Worker == Request \cup {Sweeper}

(***************************************************************************)
(* The projections after process_events: "project" is prompts,             *)
(* deployments, incidents, due exceptions and fingerprints; "assess" is    *)
(* fold_batch_assessments; "refresh" is agent and vendor posture, workflow *)
(* state and release gates.                                                *)
(***************************************************************************)
Later == {"project", "assess", "refresh"}

\* Bug: the last projection leads to a step nobody runs.
NextStepUnknown == [project |-> "assess", assess |-> "refresh", refresh |-> "done"]

NextStep == [project |-> "assess", assess |-> "refresh", refresh |-> "mark"]

\* The step an unfoldable event raises in.
Poison == {"none", "claim", "count"} \cup Later

Phase == {"idle", "claim", "begin", "count", "mark", "failed", "isolate"}
           \cup Later

ASSUME ConstantsAssumption ==
    /\ IsFiniteSet(Event)
    /\ TenantOf \in [Event -> Tenant]
    /\ Sweeper \notin Request
    /\ NoWorker \notin Worker
    /\ Serialized \in BOOLEAN
    /\ ClaimLimit \in Nat \ {0}
    /\ MaxAttempts \in Nat \ {0}
    /\ PoisonPlan \subseteq [Event -> Poison]
    /\ MaxFaults \in Nat
    /\ EvidenceCap \in Nat

VARIABLES
    id,         \* sdk_events.id of each event, 0 while it is not stored
    attempts,   \* sdk_events.fold_attempts, saturating at MaxAttempts
    counted,    \* rows with counted_at set
    folded,     \* rows with folded_at set
    inventory,  \* how often the inventory counters include each event
    done,       \* the rows each later projection has been applied to
    evidence,   \* how often control_assessments.evidence_count includes it,
                \* saturating at EvidenceCap
    writer,     \* who is inside the process_events transaction (Serialized)
    phase,      \* where each worker is
    tenant,     \* the tenant it works for
    batch,      \* the events a request carries
    rows,       \* the claimed rows, or the one row being isolated
    snap,       \* the rows process_events found uncounted
    rest,       \* the rows the sweeper still has to isolate
    alone,      \* TRUE while the sweeper folds row by row
    acked,      \* events of the batches answered with 200
    todo,       \* tenants left in the sweeper's current pass
    poison,     \* the step every event raises in, until a fix is deployed
    faults      \* transient failures and crashes so far

rows_vars == <<id, attempts, counted, folded>>
derived_vars == <<inventory, done, evidence>>
env_vars == <<poison, faults>>
job_vars == <<tenant, batch, rows, snap, rest, alone>>
vars == <<rows_vars, derived_vars, writer, phase, job_vars, acked, todo, env_vars>>

\* Every column, every local of a worker and the sweeper's work list keep their
\* types; a worker is always at a step of sweep_tenant or fold_pending.
TypeOK ==
    /\ id \in [Event -> Nat]
    /\ attempts \in [Event -> 0..MaxAttempts]
    /\ counted \in SUBSET Event
    /\ folded \in SUBSET Event
    /\ inventory \in [Event -> Nat]
    /\ done \in [Later -> SUBSET Event]
    /\ evidence \in [Event -> 0..EvidenceCap]
    /\ writer \in Worker \cup {NoWorker}
    /\ phase \in [Worker -> Phase]
    /\ tenant \in [Worker -> Tenant]
    /\ batch \in [Worker -> SUBSET Event]
    /\ rows \in [Worker -> SUBSET Event]
    /\ snap \in [Worker -> SUBSET Event]
    /\ rest \in [Worker -> SUBSET Event]
    /\ alone \in [Worker -> BOOLEAN]
    /\ acked \in SUBSET Event
    /\ todo \in SUBSET Tenant
    /\ poison \in [Event -> Poison]
    /\ faults \in Nat

Stored == {e \in Event : id[e] > 0}

\* Rows with folded_at NULL.
Pending(t) == {e \in Stored \ folded : TenantOf[e] = t}

\* Bug: an off-by-one in the claim limit.
OldestButOne(S) ==
    {e \in S : Cardinality({f \in S : id[f] < id[e]}) < ClaimLimit - 1}

\* ORDER BY id LIMIT :limit
Oldest(S) == {e \in S : Cardinality({f \in S : id[f] < id[e]}) < ClaimLimit}

\* Folding S through a step raises if one of its rows is unfoldable there.
Raises(S, step) == \E e \in S : poison[e] = step

\* A write outside the transaction holding SQLite's write lock waits for it.
CanWrite == writer = NoWorker

Goto(w, p) == phase' = [phase EXCEPT ![w] = p]

\* The worker's local state is gone.
Finish(w) ==
    /\ Goto(w, "idle")
    /\ batch' = [batch EXCEPT ![w] = {}]
    /\ rows' = [rows EXCEPT ![w] = {}]
    /\ snap' = [snap EXCEPT ![w] = {}]
    /\ rest' = [rest EXCEPT ![w] = {}]
    /\ alone' = [alone EXCEPT ![w] = FALSE]
    /\ UNCHANGED tenant

\* The request returns {"accepted": n}; the sweeper carries no batch.
Reply(w) == Finish(w) /\ acked' = acked \cup batch[w]

-----------------------------------------------------------------------------

Init ==
    /\ id = [e \in Event |-> 0]
    /\ attempts = [e \in Event |-> 0]
    /\ counted = {}
    /\ folded = {}
    /\ inventory = [e \in Event |-> 0]
    /\ done = [s \in Later |-> {}]
    /\ evidence = [e \in Event |-> 0]
    /\ writer = NoWorker
    /\ phase = [w \in Worker |-> "idle"]
    /\ tenant \in [Worker -> Tenant]
    /\ batch = [w \in Worker |-> {}]
    /\ rows = [w \in Worker |-> {}]
    /\ snap = [w \in Worker |-> {}]
    /\ rest = [w \in Worker |-> {}]
    /\ alone = [w \in Worker |-> FALSE]
    /\ acked = {}
    /\ todo = {}
    /\ poison \in PoisonPlan
    /\ faults = 0

(***************************************************************************)
(* _ingest up to the commit of insert_events: INSERT OR IGNORE stores the  *)
(* events whose key is new, with ids after every stored id, as pending.    *)
(***************************************************************************)
Ingest(w, t, events) ==
    LET new == events \ Stored
        n   == Cardinality(Stored)
    IN  /\ phase[w] = "idle"
        /\ events # {}
        /\ \A e \in events : TenantOf[e] = t
        /\ CanWrite
        /\ \E ids \in [new -> (n + 1)..(n + Cardinality(new))] :
             /\ \A e, f \in new : e # f => ids[e] # ids[f]
             /\ id' = [e \in Event |-> IF e \in new THEN ids[e] ELSE id[e]]
        /\ Goto(w, "claim")
        /\ tenant' = [tenant EXCEPT ![w] = t]
        /\ batch' = [batch EXCEPT ![w] = events]
        /\ UNCHANGED <<attempts, counted, folded, derived_vars, writer, rows, snap,
                       rest, alone, acked, todo, env_vars>>

\* Bug: the sweeper leaves quarantined rows out too.
ClaimableInBudget(w) ==
    {e \in Pending(tenant[w]) : attempts[e] < MaxAttempts}

(***************************************************************************)
(* claim_unfolded.  The request path leaves out quarantined rows; the      *)
(* sweeper claims them too.  The claim decrypts every row it returns, and  *)
(* a body that does not decrypt raises out of fold_pending or sweep_tenant *)
(* before any row is charged with an attempt.                              *)
(***************************************************************************)
Claimable(w) ==
    {e \in Pending(tenant[w]) : w = Sweeper \/ attempts[e] < MaxAttempts}

Claim(w) ==
    /\ phase[w] = "claim"
    /\ LET claimed == Oldest(Claimable(w))
       IN  \/ /\ Raises(claimed, "claim")
              /\ Finish(w)
              /\ UNCHANGED acked
           \/ /\ claimed = {}
              /\ Reply(w)
           \/ /\ claimed # {}
              /\ ~ Raises(claimed, "claim")
              /\ Goto(w, "begin")
              /\ rows' = [rows EXCEPT ![w] = claimed]
              /\ UNCHANGED <<tenant, batch, snap, rest, alone, acked>>
    /\ UNCHANGED <<rows_vars, derived_vars, writer, todo, env_vars>>

\* Bug: every claimed row is counted, stamped or not.
BeginCountAll(w) ==
    /\ phase[w] = "begin"
    /\ CanWrite
    /\ writer' = IF Serialized THEN w ELSE writer
    /\ Goto(w, "count")
    /\ snap' = [snap EXCEPT ![w] = rows[w]]
    /\ UNCHANGED <<rows_vars, derived_vars, tenant, batch, rows, rest, alone, acked,
                   todo, env_vars>>

(***************************************************************************)
(* process_events: one transaction that reads which rows are uncounted,    *)
(* increments the inventory for them and stamps counted_at.  It is two     *)
(* steps here: the read that follows BEGIN IMMEDIATE, and the commit.      *)
(***************************************************************************)
BeginCount(w) ==
    /\ phase[w] = "begin"
    /\ CanWrite
    /\ writer' = IF Serialized THEN w ELSE writer
    /\ Goto(w, "count")
    /\ snap' = [snap EXCEPT ![w] = rows[w] \ counted]
    /\ UNCHANGED <<rows_vars, derived_vars, tenant, batch, rows, rest, alone, acked,
                   todo, env_vars>>

Release(w) == writer' = IF writer = w THEN NoWorker ELSE writer

\* Bug: the rows are counted and not stamped counted_at.
CommitCountUnstamped(w) ==
    /\ phase[w] = "count"
    /\ ~ Raises(snap[w], "count")
    /\ inventory' = [e \in Event |->
                       inventory[e] + IF e \in snap[w] THEN 1 ELSE 0]
    /\ Release(w)
    /\ Goto(w, "project")
    /\ UNCHANGED <<rows_vars, done, evidence, job_vars, acked, todo, env_vars>>

CommitCount(w) ==
    /\ phase[w] = "count"
    /\ ~ Raises(snap[w], "count")
    /\ inventory' = [e \in Event |->
                       inventory[e] + IF e \in snap[w] THEN 1 ELSE 0]
    /\ counted' = counted \cup snap[w]
    /\ Release(w)
    /\ Goto(w, "project")
    /\ UNCHANGED <<id, attempts, folded, done, evidence, job_vars, acked, todo,
                   env_vars>>

(***************************************************************************)
(* One of the later projections of _fold_rows over the claimed rows.  All  *)
(* are recomputations or keyed upserts but "assess", which adds the rows   *)
(* it is given to evidence_count.                                          *)
(***************************************************************************)
Project(w) ==
    LET s == phase[w]
    IN  /\ s \in Later
        /\ ~ Raises(rows[w], s)
        /\ CanWrite
        /\ done' = [done EXCEPT ![s] = @ \cup rows[w]]
        /\ evidence' = [e \in Event |->
             IF s = "assess" /\ e \in rows[w] /\ evidence[e] < EvidenceCap
               THEN evidence[e] + 1 ELSE evidence[e]]
        /\ Goto(w, NextStep[s])
        /\ UNCHANGED <<rows_vars, inventory, writer, job_vars, acked, todo, env_vars>>

\* Bug: all pending rows of the tenant are marked, not the claimed ones.
MarkTenantFolded(w) ==
    /\ phase[w] = "mark"
    /\ CanWrite
    /\ folded' = folded \cup Pending(tenant[w])
    /\ \/ alone[w] /\ Goto(w, "isolate") /\ UNCHANGED <<job_vars, acked>>
       \/ ~alone[w] /\ Reply(w)
    /\ UNCHANGED <<id, attempts, counted, derived_vars, writer, todo, env_vars>>

(***************************************************************************)
(* mark_folded, then the reply, the next tenant or the next isolated row.  *)
(***************************************************************************)
MarkFolded(w) ==
    /\ phase[w] = "mark"
    /\ CanWrite
    /\ folded' = folded \cup rows[w]
    /\ \/ alone[w] /\ Goto(w, "isolate") /\ UNCHANGED <<job_vars, acked>>
       \/ ~alone[w] /\ Reply(w)
    /\ UNCHANGED <<id, attempts, counted, derived_vars, writer, todo, env_vars>>

\* Bug: a failed whole-set attempt of the sweeper is charged to every row.
RaiseCharging(w) ==
    /\ Release(w)
    /\ Goto(w, "failed")
    /\ snap' = [snap EXCEPT ![w] = {}]
    /\ UNCHANGED <<rows_vars, derived_vars, tenant, batch, rows, rest, alone, acked,
                   todo, poison>>

(***************************************************************************)
(* An exception inside _fold_rows: its transaction rolls back.  Only the   *)
(* sweeper's whole-set attempt is not charged to the rows; it falls back   *)
(* to one row at a time.                                                   *)
(***************************************************************************)
Raise(w) ==
    /\ Release(w)
    /\ snap' = [snap EXCEPT ![w] = {}]
    /\ \/ /\ w = Sweeper /\ ~alone[w]
          /\ Goto(w, "isolate")
          /\ rest' = [rest EXCEPT ![w] = rows[w]]
       \/ /\ w # Sweeper \/ alone[w]
          /\ Goto(w, "failed")
          /\ UNCHANGED rest
    /\ UNCHANGED <<rows_vars, derived_vars, tenant, batch, rows, alone, acked, todo,
                   poison>>

\* A row that no retry can fold raises in its projection.
RaisePoison(w) ==
    /\ \/ /\ phase[w] = "count"
          /\ Raises(snap[w], "count")
       \/ /\ phase[w] \in Later
          /\ CanWrite
          /\ Raises(rows[w], phase[w])
    /\ Raise(w)
    /\ UNCHANGED faults

\* A transient failure of a projection: lock timeout, lost connection.
RaiseTransient(w) ==
    /\ phase[w] \in {"begin", "count"} \cup Later
    /\ faults < MaxFaults
    /\ faults' = faults + 1
    /\ Raise(w)

(***************************************************************************)
(* record_fold_attempt over the rows still pending; the request then       *)
(* re-raises to the client, the sweeper goes on to the next row.           *)
(***************************************************************************)
RecordFoldAttempt(w) ==
    /\ phase[w] = "failed"
    /\ CanWrite
    /\ attempts' = [e \in Event |->
         IF e \in rows[w] \ folded /\ attempts[e] < MaxAttempts
           THEN attempts[e] + 1 ELSE attempts[e]]
    /\ \/ alone[w] /\ Goto(w, "isolate") /\ UNCHANGED job_vars
       \/ ~alone[w] /\ Finish(w)
    /\ UNCHANGED <<id, counted, folded, derived_vars, writer, acked, todo,
                   env_vars>>

(***************************************************************************)
(* The sweeper's loop over the claimed rows, in id order.                  *)
(***************************************************************************)
Isolate(w) ==
    /\ phase[w] = "isolate"
    /\ \/ /\ rest[w] = {}
          /\ Finish(w)
       \/ \E e \in rest[w] :
            /\ \A f \in rest[w] : id[e] <= id[f]
            /\ Goto(w, "begin")
            /\ rows' = [rows EXCEPT ![w] = {e}]
            /\ rest' = [rest EXCEPT ![w] = @ \ {e}]
            /\ alone' = [alone EXCEPT ![w] = TRUE]
            /\ UNCHANGED <<tenant, batch, snap>>
    /\ UNCHANGED <<rows_vars, derived_vars, writer, acked, todo, env_vars>>

(***************************************************************************)
(* A sweeper pass: read the tenants with pending rows, sweep each in turn. *)
(***************************************************************************)
StartPass ==
    /\ phase[Sweeper] = "idle"
    /\ todo = {}
    /\ todo' = {t \in Tenant : Pending(t) # {}}
    /\ UNCHANGED <<rows_vars, derived_vars, writer, phase, job_vars, acked, env_vars>>

SweepTenant ==
    /\ phase[Sweeper] = "idle"
    /\ \E t \in todo :
         /\ todo' = todo \ {t}
         /\ Goto(Sweeper, "claim")
         /\ tenant' = [tenant EXCEPT ![Sweeper] = t]
    /\ UNCHANGED <<rows_vars, derived_vars, writer, batch, rows, snap, rest, alone,
                   acked, env_vars>>

(***************************************************************************)
(* The process dies under a worker, or the bookkeeping after the fold      *)
(* itself fails: an open transaction rolls back, committed steps stay.  A  *)
(* sweep whose bookkeeping fails goes on with the pass; a dead one starts  *)
(* over.                                                                   *)
(***************************************************************************)
Crash(w) ==
    /\ phase[w] # "idle"
    /\ faults < MaxFaults
    /\ faults' = faults + 1
    /\ Release(w)
    /\ Finish(w)
    /\ \/ UNCHANGED todo
       \/ w = Sweeper /\ todo' = {}
    /\ UNCHANGED <<rows_vars, derived_vars, acked, poison>>

\* A fix for the unfoldable events is deployed.
DeployFix ==
    /\ \E e \in Event : poison[e] # "none"
    /\ poison' = [e \in Event |-> "none"]
    /\ UNCHANGED <<rows_vars, derived_vars, writer, phase, job_vars, acked, todo,
                   faults>>

FoldStep(w) ==
    \/ Claim(w)
    \/ BeginCount(w)
    \/ CommitCount(w)
    \/ Project(w)
    \/ RaisePoison(w)
    \/ RecordFoldAttempt(w)
    \/ MarkFolded(w)
    \/ Isolate(w)

Next ==
    \/ \E w \in Request, t \in Tenant, events \in SUBSET Event :
         Ingest(w, t, events)
    \/ \E w \in Worker : FoldStep(w)
    \/ \E w \in Worker : RaiseTransient(w) \/ Crash(w)
    \/ StartPass
    \/ SweepTenant
    \/ DeployFix

Spec == Init /\ [][Next]_vars

(***************************************************************************)
(* Threads that are running keep running, and the sweeper's loop comes     *)
(* round again.  Clients need not send, retry or be patient.               *)
(***************************************************************************)
Fairness ==
    /\ \A w \in Worker : WF_vars(FoldStep(w))
    /\ WF_vars(StartPass)
    /\ WF_vars(SweepTenant)

FairSpec == Spec /\ Fairness
-----------------------------------------------------------------------------
(***************************************************************************)
(*                              PROPERTIES                                 *)
(***************************************************************************)

\* The inventory counters (model_calls, tokens, errors) include a raw event
\* once if its row is stamped counted_at and not at all otherwise, whatever
\* folds of the same row overlap, fail, crash and are retried
\* (process_events, entities.py).
InventoryExactlyOnce ==
    \A e \in Event : inventory[e] = IF e \in counted THEN 1 ELSE 0

\* A row leaves the pending set only when the inventory counts it and every
\* later projection has seen it: no interleaving of mark_folded with a failed
\* or crashed fold loses evidence (fold_pending, sweep_tenant).
FoldedIsComplete ==
    \A e \in folded : e \in counted /\ \A s \in Later : e \in done[s]

\* A batch answered with 200 is projected: each of its events is folded, or was
\* quarantined by earlier failures, whatever other folds of the tenant did
\* meanwhile (_ingest; for a claim limit no backlog exceeds).
AckedIsFolded ==
    \A e \in acked : e \in folded \/ attempts[e] = MaxAttempts

\* A row is charged with an attempt only by a fold that really included it and
\* raised, and the sweeper's whole-set attempt charges nobody: attempts grow
\* only in record_fold_attempt, on pending rows.
AttemptsOnlyOnFailure ==
    [][\A e \in Event : attempts'[e] # attempts[e] =>
          /\ e \notin folded
          /\ \E w \in Worker :
               /\ phase[w] = "failed"
               /\ e \in rows[w]
               /\ w = Sweeper => rows[w] = {e}]_vars

\* Every stored event that can be folded is folded in the end, also when its
\* request failed or was killed, when its client never retries, and when an
\* unfoldable row keeps failing beside it (the sweeper's promise).
FoldableRowsFold ==
    \A e \in Event :
        (e \in Stored /\ poison[e] = "none") ~> (e \in folded)

\* "every other step is idempotent ... re-running this after a later step
\* failed reproduces the same derived state without double counting"
\* (_fold_rows, fold.py): an event is in a control's evidence_count once.
EvidenceOnce ==
    \A e \in Event : evidence[e] <= 1

(***************************************************************************)
(* What the ledger promises: EventProjection, under this mapping.          *)
(***************************************************************************)
status ==
    [e \in Event |->
       IF e \in folded THEN "projected"
       ELSE IF e \in counted THEN "counted"
       ELSE IF e \in Stored THEN "stored" ELSE "absent"]

Abstract == INSTANCE EventProjection
              WITH status <- status, inventory <- inventory

AbstractSpec == Abstract!Spec
=============================================================================
