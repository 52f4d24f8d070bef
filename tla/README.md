# Norinth: a verification project

TLA+ models of the Norinth platform (`apps/platform/app`), the properties TLC
checks on small instances of them, and the theorems TLAPS proves about them for
every instance. `PROJECT.json` maps every definition to the lines it models and
lists the runs, the mutants, the hazards, the findings and the theorems.

To check a run: `tlc -config MCFoldLedger.cfg MCFoldLedger`. To check a proof:
`tlapm FoldLedgerProofs.tla`.

## 1. The system

Norinth is a governance platform for AI applications. An SDK sends telemetry;
the platform stores it, derives an inventory, risks, controls and material
changes from it, lets people decide on them, and answers CI when it asks
whether a version may be released. Policies an organization writes decide who
has to approve what. Every governance change is recorded in a tamper-evident log. The platform
runs on SQLite or on Postgres, with several request threads, several replicas, and background workers.

| Part | State | Operations | Interaction |
|---|---|---|---|
| Ingest and fold ledger (`ingestion/routes.py`, `storage/raw_events.py`, `storage/fold.py`, `services/fold_sweeper.py`) | `sdk_events`: id, `counted_at`, `folded_at`, `fold_attempts` | `insert_events`, `claim_unfolded`, `fold_pending`, `mark_folded`, `record_fold_attempt`, `sweep_tenant` | calls every projection in turn; the sweeper shares the rows with the requests |
| Inventory (`storage/entities.py`) | counters per application, model, agent | `process_events` | one transaction with the `counted_at` stamp |
| Governance assessments (`storage/governance_policy.py`) | rules, controls, `control_assessments`, `risk_findings`, `control_evidence_traces` | `fold_batch_assessments`, the full recompute, `upsert_risk_rule`, `control_coverage` | reads raw events, writes findings people decide on; coverage is read by gates |
| Lifecycle fingerprints (`storage/lifecycle.py`) | fingerprints, `change_events` | `fold_batch_fingerprints` | changes block release gates |
| Release gates (`storage/deployments.py`) | versions, gates | `refresh_deployment_gates`, approve, reject, `find_gate_for_release` | reads findings, changes, evals and the ledger |
| Decisions and exceptions (`storage/workflow.py`) | decisions, exceptions, owners, review queue | `record_decision`, `create_exception`, `expire_due_exceptions` | writes the status of findings, refreshes gates |
| Audit chain and journal (`storage/audit.py`, `storage/audit_checkpoint.py`) | hash-chained rows; signed heads in a file | `record_audit`, `append_checkpoint`, verification, startup validation, reconciliation | every handler appends through the unit of work |
| Unit of work (`storage/unit_of_work.py`, `storage/db.py`) | the open transaction and its callbacks | begin, commit, rollback, journal write | lock order: file lock, then database |
| Policies (`storage/policy_engine.py`, `api/policy.py`) | versions of a policy document, roles, permissions | draft, activate, change roles and accounts | decide the stages of every review and what gates demand |
| Approval stages and reviews (`storage/policy_engine.py`, `intake.py`, `workflow.py`) | stages, use cases, review tasks, owners | submit, decide a stage or a task, waive, route, escalate, recertify, retire | the refresh runs on every ingest |
| Vendors (`storage/policy_engine.py`, `vendor_evidence.py`) | vendors, rounds, dated references | submit, edit, decide, record, withdraw, age | the maintenance worker ages them |
| SDK delivery (`packages/python-sdk/norinth_logger`) | queue, spool directory | enqueue, flush, retry, spool, claim, fork, exit | at-least-once delivery to ingest |
| Notifications (`storage/notifications.py`, `services/notifications.py`) | outbox rows, webhooks | emit, claim, deliver, mark, back off | concurrent workers with stale-claim takeover |
| Sign-in (`api/auth.py`, `storage/login_attempts.py`, `storage/mfa.py`) | attempts, password, second factor, challenges, sessions, invites | login, verify, enable, disable, reset | every storage call is a transaction of its own |
| Incidents, agents, prompts | their rows | upserts of telemetry, registry changes | steps of the fold |
| Maintenance and retention | due dates, old rows | one pass of each job | expires exceptions, ages reviews, vendors and references, deletes telemetry |
| Portable import, identity federation, keys, migrations, reports, dashboard | | | see `PROJECT.json` for why each is or is not modelled |

What is hard in it:

- Folds of the same rows overlap: a request folds *every* pending row of its
  tenant, so two requests, or a request and the sweeper, work on the same row.
  Each projection commits on its own, and a fold may fail or die between them.
- On SQLite a connection reads outside any transaction until its first write,
  so most `SELECT ... then INSERT` code writes over what it read earlier. On
  Postgres `BEGIN IMMEDIATE` becomes a plain `READ COMMITTED` transaction.
- The audit log and its journal are two stores that cannot commit together.
  Crashes, torn writes and restores leave them apart, and verification must
  tell that from tampering.
- CI asks about a gate while telemetry, reviewers and expiries move it.
- The fold judges a batch by counts and by what is in the batch; the full
  recompute looks at all history. The two have to agree whatever the order.
- A review outlives the policy it was opened under, the surface it was opened
  for, the accounts of its reviewers and the evidence behind it.
- SDK processes share a spool, replicas share an outbox, and both take work over
  from a peer that may only be slow.
- Sign-in handlers check, guess and record in separate transactions.

What makes it correct: an event is counted once and never lost; a change and its
record go together; history covered by a checkpoint cannot disappear unnoticed,
and a crash is not mistaken for its disappearance; nobody is told to release
over evidence that no person has dealt with; nobody approves or weakens alone
what takes two; what was handed to the SDK or to the outbox is delivered or
accounted for.

## 2. Modules

| Module | What it is |
|---|---|
| `EventProjection` | abstract: an event goes absent, stored, counted, projected, and the inventory changes once |
| `FoldLedger` | the ingest path, the sweeper, crashes, unfoldable rows; implements `EventProjection` |
| `FoldLedgerProofs` | its theorems, and those of `Inventory` |
| `AuditChain` | unit of work, audit log, checkpoint journal, dumps and restores |
| `AuditChainProofs` | its theorems |
| `ReleaseGate` | one version's gate between folds, reviewers, the clock and CI |
| `ReleaseGateProofs` | its theorems |
| `Inventory` | what the projections of a fold write: counters, incidents, prompts, fingerprints, agent findings |
| `Assessments` | rules, controls, coverage: the fold's judgement beside the full recompute |
| `AssessmentsProofs` | its theorems |
| `PolicyDocument` | the policy document: validation, resolution, what loosens it (no state) |
| `PolicyEngine` | versions drafted and activated while roles and accounts change; extends `PolicyDocument` |
| `ApprovalStages` | a checklist of stages: who may decide one, how it rolls up (no state) |
| `VendorReview` | one vendor; extends `ApprovalStages` |
| `VendorReviewProofs` | its theorems, and those of `PolicyEngine` |
| `ReviewWork` | one use case and its review task; extends `ApprovalStages` |
| `ReviewWorkProofs` | its theorems |
| `SdkDelivery` | queue, worker, spool of several processes |
| `SdkDeliveryProofs` | its theorems, and those of `Outbox` |
| `Outbox` | the notification outbox |
| `SignIn` | one local account |
| `SignInProofs` | its theorems |
| `MC...` | the instances |

A proof module extends the components it is about, which is why the names of
`Inventory`, `PolicyEngine` and `Outbox` differ from those of `FoldLedger`,
`VendorReview` and `SdkDelivery` (`InventorySpec` beside `Spec`, `sdkEvents` beside
`rows`); the two halves of such a module share lemmas, no theorem.

Definitions marked *Bug* in a comment are wrong versions of the definition below
them. No specification uses them; they are substituted one at a time to see that
each property notices (the mutants of `PROJECT.json`).

### FoldLedger

A worker is a request or the sweeper; `phase` is where it is in `fold_pending` or
`sweep_tenant`. One action is one commit, or one read outside a transaction:

| Action | Code |
|---|---|
| `Ingest` | `insert_events`: the new events of a batch get ids and are pending |
| `Claim` | `claim_unfolded`: the oldest `ClaimLimit` pending rows; requests skip quarantined ones |
| `BeginCount`, `CommitCount` | `process_events`: read `counted_at`, then count and stamp; on SQLite the write lock is held between them |
| `Project` | a group of the later projections of `_fold_rows` |
| `MarkFolded`, `Finish` | stamp `folded_at`; a request answers 200 |
| `RaisePoison`, `RaiseTransient`, `RecordFoldAttempt`, `Isolate` | a fold raises: a request charges its rows, the sweeper retries them one by one and charges only the failing row |
| `StartPass`, `SweepTenant` | the sweeper's loop over tenants |
| `Crash`, `DeployFix` | a worker dies; a fixed release can fold the row that could not be folded |

The later projections are three groups (before, at and after
`fold_batch_assessments`): these are the places the properties tell apart. The
sweep lock makes the sweeper one worker. `evidence` follows
`evidence_count`, saturating, because a repeated fold adds to it.
`AckedIsFolded` is stated for a backlog within the claim limit, as the default
of 10000 intends: a request that leaves more than that behind answers 200 all
the same.

### AuditChain

A `Handler` runs in a unit of work; a `Clerk` is a background job that commits
its change and audits it afterwards. A hash is a fresh number, because a row hash
covers the row and its predecessor. The database and whether a journal is
configured are chosen in `Init`. The file may end whole, in a partial line, in a
line without newline (which `read_checkpoints` accepts and `latest_checkpoint`
refuses) or in two records glued together. `anchored` and `everAnchored` are
history: what checkpoints covered. `Verdict` is what `verify_audit_chain` says,
and a process starts only when `validate_audit_at_startup` lets it. Checkpoints
are taken to be younger than the 24 hours after which a journal is stale.

### ReleaseGate

SQLite only, one application and version. Handlers are one step, since a unit of
work holds the write lock. A fold is eight steps: claim, project, expire and
fingerprint, read and write assessments, read and write the gate, mark. The
assessment may write its *first* row over a status it read before its
transaction began (`FirstWrites`); so may the gate refresh. A gate check is six
reads in the order of `find_gate_for_release`; reads after the first blocker do
not change the answer, so the check starts over there.

Risk rules look at all stored events and are monotone here; the rules
themselves, the ones that look for something *missing* among them, observe mode
and coverage are in `Assessments`. Left out are segregation of duties, replayed
decisions, several versions of an application, and Postgres. Each departure of
telemetry from the baseline fingerprint is a change of its own, while in the
code departures of one batch share a `change_event`: with `MaxOpenChanges = 0`
the two agree. The gate check itself expires no exceptions; only folds, the
maintenance pass, listings and approvals do, and so it is in the model.

### Inventory

A fold claims every row not yet folded and runs its projections in the order of
`_fold_rows`, each a step (`Projection`): `process_events` is one transaction that
counts the rows nobody has counted; the later ones repeat on every refold.
`tables` holds counters, samples and control counts, `incident` and
`lifecycle` the rows of those tables, `findings` the agent rules raised.
Operators register and retire the agent and close the incident between folds.
What an event carries is a record; labels stand for names. A projection walks the
rows of its batch in the order of their ids (`InOrder`), which the capped samples
depend on.

### Assessments

`AssessRead` is what `fold_batch_assessments` reads before its first write,
`AssessWrite` the rest; as in `ReleaseGate`, the first row written may be over
something that changed since (`Known`). `FoldedSignals` translates the rules as
the fold evaluates them, from aggregates of columns, and `RecomputedSignals` as
the full recompute does, from events: they differ in the rows they look at, in
the comparison with the time of retirement (text with and without suffix) and in
where SDK health comes from. The application is registered by any runtime event
that names it (`Registers`), never by an evaluation; until then a fold assesses
nothing. `Coverage`, `Stale` and `Undercovered` are read by a
person or a gate on any day. An event is *complete* when it carries what the
default controls require. Decisions of people are in `ReleaseGate`; trace lists
shown with a finding are left out, as are the caps on them. The agent and vendor
signals of the rule table are in `Inventory` and `VendorReview`.

### PolicyDocument and PolicyEngine

A document is a record of partial sections; a missing section or key falls back
to the platform's default, which is what makes "weaker" hard to see key by key.
`PolicyLoosening` follows `policy_loosening`; the property compares instead what
the resolvers hand out. Stage lists are compared by how often a role occurs in
them (`Times`). `UnstaffedStageChanges` follows the augmenting paths of
`_can_staff`: `Place` is its inner function, recursive on the stage to staff, the
people assigned so far and the people already seen. All handlers are `@atomic`, one step. `reign` is history: who
activated which version.

### ApprovalStages, VendorReview, ReviewWork

A checklist is a sequence of stages with role, status and decider, in sequence or
in parallel. `VendorReview` has rounds, surfaces (what the vendor is approved
for), references with expiry days, and the worker's two passes, the one over the
evidence in three steps and the one over recertifications in two, which may be
interrupted. `seen` and `edited` are history: the surface the decider of each
stage saw, and whether it was edited since the review began; the permission
`require_decision` asks a vendor's deciders for is left out, which admits more of
them. `ReviewWork` has the intake answers that set the tier, stages,
direct decisions on the task (one that differs in its rationale alone is another
decision), exceptions, owners, the queue refresh with its
notifications (`heard`, `told`, `raised` are what people were sent),
recertification and retirement. A day stands for a timestamp.

### SdkDelivery

Each process has a host thread and a worker; a step is one system call or one
answer of the platform. `spool` is a set of files, a claimed one renamed. Forks
inherit the queue, an exit runs the two final flushes, a crash loses memory
(`died` is history), and a write to the spool may fail, which counts the batch as
dropped (`SpoolFails`). One byte an event stands for the size of the spool. A flush
empties the queue in one step (`CollectInto`): the code takes events one by one, but
the worker and the final flush never share a queue out. A `.json.tmp` left by a
process that died before renaming it counts as on disk in `EventsAccounted`, as it
does in `_spool_size`, although no flush reads it again.

### Outbox

Rows move from pending to delivering to sent, failed or skipped. `hand[t]` is the
set of rows a thread claimed, taken in the order of their ids (`Foremost`). Backoff and staleness of a claim are flags time sets. A test
request delivers under the same worker id as its process's loop. An attempt that
ends in an error may have been accepted by the receiver all the same (`Unanswered`).

### SignIn

No handler is atomic: each storage call is a transaction of its own, and requests
interleave between them. A few neighbouring calls are one step, because nothing in
the model tells the states between them apart; the module's header lists them.
Subjects of the throttle are the account, the source address and the disabling of
the second factor. `owed` is history: the lockouts of a subject that began, less
those an audit row `auth.lockout` names; a login carries what it still has to report
(`crossed`), `mfa_disable` reports nothing. Thresholds are at least 2: at 1 the
first failure inserts a row that is not locked. Time is the end of a window, a lock
or a challenge. Which of several staged secrets a code belongs to is not told apart.
Left out: a process that dies in the middle of a handler, a suspended
organization, the organization-wide requirement of a second factor, federated
accounts.

## 3. Runs

Passing runs:

| Run | Instance | Shows |
|---|---|---|
| `fold` | 2 events of one tenant, a request and the sweeper, at most one fault, no unfoldable row or one that fails first or last; 390,000 states | `InventoryExactlyOnce`, `FoldedIsComplete`, `AckedIsFolded`, `AttemptsOnlyOnFailure`, `FoldableRowsFold` and the refinement `AbstractSpec` |
| `audit` | a handler and a clerk, both databases, with and without journal, 4 rows, units of up to 2 rows, 2 dumps, a reconciliation, one fault; 2.8 million states | `ChainNeverForks`, `UnitIsAtomic`, `VerdictIsSound`, `NoFalseAlarm`, `CurrentIsComplete`, `CheckpointsInOrder`, `AppendsExtendAnchored` |
| `gate` | 2 folds, 2 events, a risk, a control and a change, one check at a time; 1.7 million states | `EligibleOnlyWhenFolded`, `UndecidedFindingBlocks`, `NeverAutoApproved` |
| `inventory` | 2 folds, workloads of 2 or 3 events, one failure, one registry change; 144,000 states | `InventoryIsExact`, `OpenIncidentAnnounced`, `ToolUseIsJudged` |
| `assessments` | 2 folds, workloads of 2 events in any batches, one failure, one change of rules, controls or intake; 240,000 states | `NothingLeftToRaise`, `CoverageIsExact` |
| `policy` | 3 people, 3 documents, 3 versions, one change of staff; 61,000 states | `NoLoneLoosening`, `StaffedWhenPutInForce` |
| `vendor` | 3 people, 2 policies, 2 rounds, 2 days, 2 references; 621,000 states | `ApprovalCoversVendor`, `ApprovedWithoutExpiredEvidence`, `LapseIsNoticed` |
| `reviews` | 3 people, 2 policies, 2 tiers, 2 direct decisions, 2 days; 2.0 million states | `StagedApproval`, `SubmitterKnowsOutcome`, `QueueIsAnnounced`, `HumanCallsStand` |
| `delivery` | 2 processes, 2 events, one of them unserializable, an outage, a crash, write errors; 100,000 states | `EventsAccounted`, `SpoolOutlives`, `SpooledIsResent` |
| `outbox` | 2 processes, 3 threads, one row at a time, 3 attempts, a crash, an outage; 315,000 states | `OutcomeIsTrue`, `EventuallySettled` |
| `signin` | 2 requests in flight, 5 in all, 2 passwords, a recovery code; 2.2 million states | `GuessesBounded`, `LockoutReportedOnce`, `UsedOnce` |

`fold` and `gate` also check their module's `TypeOK`; the other modules' are
proved, or are part of the invariants proved (section 4).

Why the bounds are enough: in the ledger two workers and two rows give every
overlap of claim, count and mark on one row beside an innocent row, and
`MaxAttempts = 2` separates a charged row from a quarantined one. In the audit
run two writers are what a fork needs, and 4 rows are one unit before the dump,
one after it, a restore and an append on top. In the gate run the release event
makes the version approvable and the incident then overturns it; two folds
suffice because a stale write needs one fold that reads and one that commits, and
so it is in the inventory and the assessments, where each workload pairs the
events whose order or batch matters (a run and its tool call, an incident opened,
closed and reopened, evidence before and after registration, two times of one
trace). Three policy versions are what weakening in two steps takes, two people
may write them and the third staffs a stage. Two rounds and two days let a
reference lapse under an approval and a renewal race the pass. In the spool, one
batch on disk and another in memory compete for a file; that a spool is too full is
not reached with one event to spool, only the theorem covers it. One
outbox row and three attempts separate a late mark from a final one. Two requests
in flight are what a check and a guess need, and five in all reach every value
`GuessesBounded` allows, on the throttle as on the challenge: an account may be
enrolled from the start. Folds and requests are interchangeable, hence the symmetry in `gate`,
`inventory`, `assessments` and `signin`; no liveness is checked there.

Deadlock is checked in the ledger and the gate. The other runs allow it: with a
journal that verification refuses, a stopped installation really stays down;
elsewhere the bounds end every behaviour.

Fairness, and what justifies it:

- `FoldLedger`: a running worker takes its steps, the sweeper starts its passes
  and visits the tenants of a pass. Threads are scheduled, and the sweeper loops
  for ever and catches what a pass raises.
- `VendorReview`: the maintenance loop runs both its passes, and the evidence pass's
  write, once it can happen again and again, is not stopped in the middle of every
  pass.
- `SdkDelivery`: a worker that lives takes its steps, and files grow old. Nothing
  is assumed of the platform or of a process's survival: the property asks for
  both.
- `Outbox`: delivery threads of a process that is up keep running, sends time
  out, backoff and claims run out. A killed process need not come back.

Nothing is assumed of clients, people, or of crashes and outages beyond their
bounds.

One run shows the code departing from what it says of itself, with a finding in
`PROJECT.json`: `reviews_overruled` (`ApprovedByStageRole`). After a person with
the role of a single stage has rejected it, a direct decision by somebody without
that role approves the use case.

Further counterexamples, most with a configuration of their own; TLC finds each within
seconds or minutes:

| Configuration (module) | Violated | What happens |
|---|---|---|
| `MCFoldPostgres` (`MCFoldLedger`) | `InventoryExactlyOnce` | without SQLite's lock two folds of a row both count it |
| `MCFoldRefold` (`MCFoldLedger`) | `EvidenceOnce` | a repeated fold adds its events to `evidence_count` again |
| `MCFoldUndecryptable` (`MCFoldLedger`) | `FoldableRowsFold` | a row that does not decrypt stops every fold of its tenant |
| `MCAuditEmptyRestore` (`MCAuditChain`) | `NoFalseAlarm` | after reconciling an empty log, `count - 1` indexes the last row and a crash looks like tampering |
| `MCAuditLoneAppend` (`MCAuditChain`) | `ChangeHasRecord` | a background job dies between its change and its record |
| `MCGateDecision` (`MCReleaseGate`) | `GateDecisionIsTerminal` | a refresh writes back the gate status it read before the decision |
| `MCGateMirage` (`MCReleaseGate`) | `NotOnACleanMirage` | a check reads clean evidence, a fold commits, the check finds nothing pending |
| `MCGateEvidence` (`MCReleaseGate`) | `EvidenceKeepsControl` | a fold without evidence writes *missing* over a passing assessment |
| `MCAssessRecompute` (`MCAssessments`) | `FoldIsFixedPoint` | evidence folded before a runtime event registered the application, and health reports naming no application, are never assessed; the full recompute assesses them |
| `MCAssessPromotion` (`MCAssessments`) | `PromotedIsOpen` | a fold that read a rule before its promotion writes *observed* over the finding just opened |
| `MCInventoryHistory` (`MCInventory`) | `FingerprintIsHistory` | overlapping folds, or events before registration, leave a fingerprint that is not the union over history |
| `MCVendorFalseAlarm` (`MCVendorReview`) | `DueForCause` | a pass flips a vendor on a reference that was renewed, or on an approval that was replaced, after it was read |
| `MCVendorReview`, with this invariant instead (`MCVendorReview`) | `EveryStageSawSurface` | an edit of the surface while the review runs keeps the stages already approved, whose deciders saw another one |
| `MCSdkDoubleSend` (`MCSdkDelivery`) | `SentByOne` | a claim keeps the age of its file: an old file is taken over at once and sent by two |
| `MCOutbox`, with this invariant instead (`MCOutbox`) | `OneDeliverer` | a batch that takes longer than the stale limit is delivered by two replicas |
| `MCSignIn`, with this invariant instead (`MCSignIn`) | `EveryLockoutReported` | `mfa_disable` throws away what `register_failure` answers: its lockouts leave no row `auth.lockout`, although the caller is to record the lockout "exactly once" (`login_attempts.py:83-84`) |

## 4. Proofs

All proofs hold for any number of workers, tenants, events, people and findings,
under the named assumptions on the constants (types; finite sets where the code
counts; names that do not coincide). Each inductive invariant was first checked
by TLC on the instance of its component's run. Where an invariant bounds data,
the proofs use a `Shape` without the bounds of the instance, so that they do not
rest on them.

**FoldLedgerProofs** (`ConstantsAssumption`):

- `TypeCorrect`: `Spec => []TypeOK`.
- `FoldedRowsAreComplete`: `Spec => []FoldedIsComplete`, on both databases. Not
  inductive alone: a row is marked by the worker that claimed it, so the
  invariant adds `Progress` (the rows of a worker are counted, and projected by
  every step, that its phase has passed) and `CountedStored`. `Grows` says that
  nothing done is undone, which carries `Progress` over the steps of the others.
- `CountedExactlyOnce`: `Serialized => (Spec => []InventoryExactlyOnce)`. Adds
  `Exclusive`: only the holder of the write lock is between its read of
  `counted_at` and its commit, and what it read is still uncounted.
- `ImplementsEventProjection`: `Serialized => (Spec => AbstractSpec)`. Every
  step maps to `Store`, `Count`, `Complete` or a stutter of `EventProjection`.
- `OnlyFailuresAreCharged`: `Spec => AttemptsOnlyOnFailure`. Needs `SweepAt`: a
  sweep that has failed was isolating one row.
- `AnsweredBatchesAreFolded`: `Spec /\ []BacklogFits => []AckedIsFolded`. The
  batch of a request is stored for the tenant it claims for, then claimed, folded
  by somebody else or out of attempts (`BatchAt`). `BacklogFits` (no tenant has
  more pending rows than `NORINTH_FOLD_CLAIM_LIMIT`) is needed: rows beyond the
  limit are answered with 200 and left to the next fold.

`Serialized` is what SQLite gives and Postgres does not; `MCFoldPostgres.cfg`
shows that it is needed.

**ReleaseGateProofs** (`ConstantsAssumption`):

- `GateTypeCorrect`: `Spec => []TypeOK`.
- `GateInvariant`: `Spec => []GateInv`, with the parts `ApprovalInv` (an approved
  gate, also one a fold has read and will write back, has an approval behind
  it), `AssessedInv` (what is folded, or about to be marked, is assessed),
  `RaisedInv` (what assessed or fingerprinted events raised has a row),
  `DecidedInv` (a risk or change that is neither absent nor open was touched by
  a person, also in a stale read) and `CheckInv` (what a check has read so far
  holds for the rows folded when it began). `Growth` and `StatusKept` carry
  `CheckInv` over the steps taken between its reads.
- `EligibleIsFolded`, `NobodyBypassed`, `ApprovedByAPerson`: the three safety
  properties of the gate run, as consequences of `GateInv`.

**AuditChainProofs** (`ConstantsAssumption`): every property of the audit run.
`AuditInv` has the parts `Locks` (who holds the database and the file lock),
`Chained` (the log, the log as a transaction sees it, and every dump is linked),
`Atomic`, `Histories`, `Journal` and `Heads` (what a committed writer will still
append continues the log). The central one is `Histories`: the hash sequences
that exist anywhere, committed, in a transaction, in a dump or behind the last
checkpoint, form a tree, in which a hash determines its position and everything
before it. That is why one count and one hash can speak for a whole history
(`VerdictIsSoundAlways`, `CurrentIsCompleteAlways`), and it survives restores of
old dumps because a new row takes a hash nobody has used. `ChainNeverForksAlways`,
`UnitIsAtomicAlways`, `CheckpointsInOrderAlways` and the action property
`AppendsExtendAnchoredAlways` follow. `NoFalseAlarmAlways` assumes
`RestoreFloor # 0`, that a dump restored holds an audit row; without it the
property is false (`MCAuditEmptyRestore.cfg`).

**SignInProofs** (`SignInAssumption`; a recovery code is not called *invite*):

- `SecretsUsedOnce`: `Spec => []UsedOnce`, from `Spent`: a secret that can still
  be used has not been.
- `LockoutsReportedOnce` and `GuessesAreBounded`, assuming `LockNoShorter` (the
  lockout lasts at least as long as the counting window, as by default). For the
  first, a lock comes into force exactly with the failure that crosses the threshold
  (`CrossingBegins`), and `Carried` says which requests still owe a subject its row
  (`Owing`). A bound
  on the failures is not inductive; `ThrottleAt` and `Challenged` add to it the
  requests that passed the throttle, or hold the challenge, and may yet fail:
  once a subject is locked nobody joins them, and every failure takes one away.

**VendorReviewProofs** (`VendorAssumption`: finitely many policies, one in force
from the start, some surface to declare): `VendorInv` says of a review in progress
what the property says of a finished one (every decided stage by somebody who may,
no two by the same person, each on the surface declared now unless it was edited
since), that the stages of a sequence are decided in turn (`InTurn`, so that the last
decider is the one who completes it), and includes `ApprovedWithoutExpiredEvidence`, since
an approval and the evidence pass each rely on the other's check. Conclusions:
`ApprovalsCoverVendor`, `ApprovedOnLiveEvidence`.

**ReviewWorkProofs** (`ReviewAssumption`; nobody is called *none*): `ReviewInv`
adds to the properties that task, use case and checklist open together
(`OpenedTogether`) and that every decision on the checklist is by somebody who may
(`DecidedByThoseWhoMay`). Conclusions: `SeveralStagesAllApprove`,
`SubmitterHearsOutcome`, `QueueAlwaysAnnounced` and the action property
`HumanCallsAlwaysStand`.

**SdkDeliveryProofs** (the assumption of `SdkDelivery`): every step of every
thread is a `Handover`: an event leaves memory only for the spool, the platform,
the drop counter or the losses of a dead process, and a file leaves the spool only
for a delivery, a refusal or another name. `EventsAlwaysAccounted` and the action
property `SpoolAlwaysOutlives` follow.

**AssessmentsProofs** (`ConstantsAssumption`):

- `NoFindingMissed`: `Spec => []NothingLeftToRaise`. A fold judges by rules and
  aggregates it read, and others write in between, so the invariant says who
  answers for a row: a row that left the pending set, or is about to, or was read
  under a configuration that has changed, is `Settled`: it has its findings, or a
  fold under the current configuration is still to come (`Waiting`) and every such
  fold under way has read the row (`Read`). `FoldRaisesWitnessed` is the agreement of
  the two judges: whatever part of the history a fold reads, its aggregates raise
  every signal that one of those events is a witness of in all of it.
- `CoverageAlwaysExact`: `Spec => []CoverageIsExact`, from `Latest` (the time on
  record for a control and a trace is the latest of its evidence) and
  `RoundedBelow` (rounding never hides a shortfall).

**FoldLedgerProofs, of `Inventory`** (`InventoryAssumption`: events are well
formed, an incident report has a status, samples hold at least one entry):

- `TelemetryTypeCorrect`: `TelemetryInv` adds to the types that a fold past its
  count works on counted rows (`PastCount`).
- `OpenIncidentsAreAnnounced`: as long as the incident has no row, every fold about
  to write it has found it new (`FoundNew`); so whichever fold writes first also
  announces it.
- `ToolUseIsAlwaysJudged`: counted tool calls and runs are on record (`Observes`),
  a registry read before the posture step was in force once (`HeldOnce`), and a run
  and a tool call that are folded, or in a fold about to mark them, have been judged
  together (`PairsJudged`).
- `InventoryIsAlwaysExact`: the tables are what one pass over all counted rows gives,
  although they were written by folds of arbitrary batches in arbitrary order. The
  pass is a recursive function over the rows; the walk lemmas show that it exists, is
  unique, and that adding the rows of a batch to exact tables keeps them exact
  (`ExactTables`).

**VendorReviewProofs, of `PolicyEngine`** (`EngineAssumption`: finitely many people,
stages are lists, documents have the shape validation lets through):

- `EngineTypeCorrect`, `NobodyLoosensAlone`: `EngineInv` says that at most one version
  is in force, the last one activated (`LastReigns`), and that between any two policies
  in force, not only neighbours, the later is at least as strict everywhere or somebody
  activated another person's version (`Ratchet`). A document in which
  `policy_loosening` finds nothing is `AtLeast` as strict as the one before, `AtLeast`
  is transitive and agrees with what the resolvers hand out: were it not transitive,
  two harmless steps could add up to a loosening.
- `PolicyInForceIsStaffed`: the action property `StaffedWhenPutInForce`. The recursion
  of `place` is solved because each call has seen one more person; a call changes
  nothing unless it succeeds, moves nobody already seen, and on success the new stage
  and every stage held before are held by different people (`Fine`). So an answer of
  yes from `_can_staff` is always backed by a real assignment.

**SdkDeliveryProofs, of `Outbox`** (`OutboxAssumption`):

- `NoticesTypeCorrect`, `OutcomesAreTrue`: a claim read an attempt count that may be
  outdated when its result is written. `NoticeInv` says that the count in hand is below
  the limit and no higher than the refusals that happened (`InHand`), and that a result
  in hand is of a delivery that took place (`Tentative`); so a late mark can at worst
  understate the attempts, never give up early or report a delivery nobody took.

Induction over data, where it was needed (rows, the seen people of `place`), is done
without the library's induction theorems: a least counterexample exists among the
naturals, and the step excludes it (`Climb` and its like).

The SMT encoding of tlapm 1.4.5 states, in every obligation that mentions `Len` or
`Seq`, that the domain of *any* value is `1..Len` of it, which is wrong for functions
on other domains. All proofs were therefore also run with that axiom weakened to its
sound half (a value with domain `1..n` has length `n`); they hold either way.

**Only model-checked**, and why:

- Liveness (`FoldableRowsFold`, `LapseIsNoticed`, `SpooledIsResent`,
  `EventuallySettled`): fairness is out of the prover's reach.
- Not stated at all is the converse for `_can_staff`, that it misses no assignment that
  exists (the theorem of augmenting paths): a wrong *no* refuses an activation, it puts
  no unstaffed policy in force.

## 5. Plan

1. Several exceptions on one finding, and expiry racing a fold that writes back
   what it read; the gate on Postgres.
2. `SdkDelivery` composed with `FoldLedger` into end-to-end delivery.
3. Completeness of `_can_staff`.

## 6. Not modelled

- Retention and the purge of a tenant: lists of deletions by date or tenant.
- Portable import and export, accounts from identity providers (SSO, SAML, SCIM),
  ingestion and attestation keys: single statements around cryptography or
  protocol libraries.
- Validation of ingested events and signatures: they change no state.
- Payload redaction and monkey-patching in the SDK, its command line, migrations,
  read-only reports and the dashboard: string handling, libraries or queries, with
  no state of their own that steps of several actors could spoil.
