----------------------------- MODULE Inventory -----------------------------
(***************************************************************************)
(* What the projections make of the rows they fold, for the telemetry of   *)
(* one application (storage/entities.py, prompts.py, incidents.py,         *)
(* lifecycle.py, agents.py, in the order storage/fold.py runs them).       *)
(*                                                                         *)
(* Folds overlap: a request claims every row not yet folded, the rows      *)
(* another one is working on included, and every projection commits on its *)
(* own.  process_events is one transaction; a projection that reads before *)
(* it writes reads outside its transaction.  FoldLedger has the ledger     *)
(* itself; the assessments and gates that follow are in ReleaseGate.       *)
(***************************************************************************)
EXTENDS Naturals, Sequences, SequencesExt, FiniteSets, FiniteSetsExt

CONSTANTS
    Fold,           \* threads and processes that fold
    Workload,       \* the sets of events the application may send
    None,           \* an attribute the event does not carry
    SampleCap,      \* _RISK_EVIDENCE_CAP
    Heavy,          \* more tokens than this in a call are a high volume
    Registration,   \* what an operator may register for the agent
    UseCases,       \* the application's intake records: level and status
    MaxFailures,    \* bound: folds that fail or are killed
    MaxRegistry     \* bound: changes of the registry

Runtime == {"model.call", "agent.run", "tool.call", "retrieval.call",
            "guardrail.decision", "trace.completed", "sdk.health"}

Observable == {"retrieval.call", "tool.call", "guardrail.decision", "eval.result",
               "agent.run"}

\* A control counts the events of the one type that is its evidence.
Controlled == Observable \cup {"model.call", "trace.completed", "sdk.health"}

EventType == Runtime \cup {"eval.result", "prompt.event", "incident.event"}

Risk == {"dependency", "failures", "volume", "sensitive", "guardrail", "evaluation"}

Events == UNION Workload
Given(S) == S \ {None}
Provider == Given({e.provider : e \in Events})
Flow == {e.flow : e \in Events}      \* None: the span name a model call falls back to
Trace == {e.trace : e \in Events}

AutonomyLevel == 0..4

\* A row of agent_registry; the three traits that make up the trifecta are one.
AgentRow == [active : BOOLEAN, tools : SUBSET Given({e.label : e \in Events}),
             trifecta : BOOLEAN, level : AutonomyLevel, checkpoint : BOOLEAN]

AgentRule == {"SHADOW", "TOOL", "TRIFECTA", "AUTONOMY", "INTAKE"}

\* A report of an incident has a status: the event's, if it does not name one.
InventoryConstants ==
    /\ None # "closed"
    /\ \A e \in Events : /\ e.type \in EventType /\ e.tokens \in Nat
                         /\ e.named \in BOOLEAN /\ e.error \in BOOLEAN
                         /\ e.type = "incident.event" => e.label # None
    /\ Registration \subseteq AgentRow
    /\ \A u \in UseCases : u.autonomy \in 0..2
    /\ SampleCap \in Nat \ {0} /\ MaxFailures \in Nat /\ MaxRegistry \in Nat

ASSUME InventoryAssumption == InventoryConstants

VARIABLES
    unsent,       \* events still to come
    sdkEvents,    \* sdk_events, by id
    countedIds,   \* ids with counted_at set
    foldedIds,    \* ids with folded_at set
    tables,       \* the governance_* tables
    prompts,      \* prompt_templates.current_version and prompt_versions
    incident,     \* the incident's row, and its incident.opened notifications
    lifecycle,    \* the application's fingerprint, change_events and review_tasks
    registered,   \* the agent's row in agent_registry
    held,         \* every row that it has been
    findings,     \* agent findings of the risk register
    job,          \* where each fold is, and what it has read
    failures, registrations

state == <<unsent, sdkEvents, countedIds, foldedIds, failures>>
agent == <<registered, held, registrations>>
inventoryVars == <<state, agent, tables, prompts, incident, lifecycle, findings, job>>

-----------------------------------------------------------------------------
(* The inventory.                                                           *)

\* One shape for the application, workflow, model and provider rows; the columns a
\* table does not have follow the others.
Row == [seen : BOOLEAN, calls : Nat, errors : Nat, tokens : Nat, providers : SUBSET Provider]

NoRow == [seen |-> FALSE, calls |-> 0, errors |-> 0, tokens |-> 0, providers |-> {}]

Empty == [application |-> NoRow,
          workflows |-> [w \in Flow |-> NoRow],
          models |-> [p \in Provider \cup {None} |-> NoRow],
          providers |-> [p \in Provider |-> NoRow],
          risks |-> [named \in BOOLEAN |-> [r \in Risk |-> {}]],
          controls |-> [t \in Controlled |-> 0],
          observed |-> {}]

Ran(seen) == \E e \in seen : e.type = "agent.run"
IsCall(e) == e.type = "model.call"
One(b) == IF b THEN 1 ELSE 0
OnlyIf(b, new, old) == IF b THEN new ELSE old

MergeSets(old, value) == old \cup Given({value})

\* INSERT ... ON CONFLICT DO UPDATE SET calls = calls + excluded.calls, ...
Bump(row, e) ==
    [seen |-> TRUE, calls |-> row.calls + One(IsCall(e)),
     errors |-> row.errors + One(e.error), tokens |-> row.tokens + e.tokens,
     providers |-> MergeSets(row.providers, e.provider)]

UpsertApplication(inv, e) ==
    OnlyIf(e.named, [inv EXCEPT !.application = Bump(@, e)], inv)

UpsertWorkflow(inv, e) ==
    OnlyIf(e.flow # None \/ IsCall(e), [inv EXCEPT !.workflows[e.flow] = Bump(@, e)], inv)

UpsertModel(inv, e) == [inv EXCEPT !.models[e.provider] = Bump(@, e)]

UpsertProvider(inv, e) ==
    OnlyIf(e.provider # None, [inv EXCEPT !.providers[e.provider] = Bump(@, e)], inv)

\* The evidence is a sample of the traces: a full one is left as it is.
Sample(traces, e) == OnlyIf(Cardinality(traces) < SampleCap, traces \cup {e.trace}, traces)

\* Kept under the application's name, or "unknown".
UpsertRisk(inv, risks, e) ==
    [inv EXCEPT !.risks[e.named] =
        [r \in Risk |-> OnlyIf(r \in risks, Sample(@[r], e), @[r])]]

ModelRisks(e) ==
    {r \in Risk : \/ r = "dependency" /\ e.provider # None
                  \/ r = "failures" /\ e.error
                  \/ r = "volume" /\ e.tokens > Heavy
                  \/ r = "sensitive" /\ e.sensitive}

UpsertModelRisks(inv, e) == OnlyIf(e.named, UpsertRisk(inv, ModelRisks(e), e), inv)

UpsertGuardrailRisk(inv, e) ==
    OnlyIf(e.type = "guardrail.decision" /\ e.failed, UpsertRisk(inv, {"guardrail"}, e), inv)

UpsertEvalRisk(inv, e) ==
    OnlyIf(e.type = "eval.result" /\ e.failed, UpsertRisk(inv, {"evaluation"}, e), inv)

UpsertControl(inv, e) ==
    OnlyIf(e.type \in Controlled, [inv EXCEPT !.controls[e.type] = @ + 1], inv)

\* INSERT OR REPLACE, keyed by type, trace, span and name.
UpsertObservedEvent(inv, e) ==
    OnlyIf(e.type \in Observable, [inv EXCEPT !.observed = @ \cup {e}], inv)

ProcessEvent(inv, e) ==
    LET ran   == e.type \in Runtime /\ (IsCall(e) \/ e.named)
        known == OnlyIf(ran, UpsertWorkflow(UpsertApplication(inv, e), e), inv)
        used  == OnlyIf(IsCall(e),
                   UpsertModelRisks(UpsertProvider(UpsertModel(known, e), e), e), known)
    IN  UpsertEvalRisk(UpsertGuardrailRisk(
          UpsertControl(UpsertObservedEvent(used, e), e), e), e)

-----------------------------------------------------------------------------

NoJob == [at |-> "idle", batch |-> {}, fresh |-> FALSE, base |-> None, was |-> None,
          registry |-> None]

NoIncident == [status |-> None, announced |-> 0]

NoLifecycle == [fingerprint |-> None, changes |-> {}, tasks |-> {}]

InventoryInit ==
    /\ unsent \in Workload
    /\ sdkEvents = <<>>
    /\ countedIds = {} /\ foldedIds = {}
    /\ tables = Empty
    /\ prompts = [current |-> None, versions |-> {}]
    /\ incident = NoIncident
    /\ lifecycle = NoLifecycle
    /\ registered \in {None} \cup (IF Ran(unsent) THEN Registration ELSE {})
    /\ held = {registered}
    /\ findings = {}
    /\ job = [f \in Fold |-> NoJob]
    /\ failures = 0 /\ registrations = 0

\* insert_events, in whatever order the events arrive.
InsertEvent(e) ==
    /\ e \in unsent
    /\ unsent' = unsent \ {e}
    /\ sdkEvents' = Append(sdkEvents, e)
    /\ UNCHANGED <<countedIds, foldedIds, failures, agent, tables, prompts, incident,
                   lifecycle, findings, job>>

At(f, step) == job[f].at = step
GoOn(f, step) == job' = [job EXCEPT ![f].at = step]

\* A projection takes its rows one by one, in the order of their ids.
InOrder(Step(_, _), base, ids) ==
    LET after[k \in 0..Len(sdkEvents)] ==
            IF k = 0 THEN base
            ELSE IF k \in ids THEN Step(after[k - 1], sdkEvents[k]) ELSE after[k - 1]
    IN  after[Len(sdkEvents)]

OfType(f, t) == {i \in job[f].batch : sdkEvents[i].type = t}

\* _fold_rows: a projection with no event of its type in the batch does nothing.
AfterPrompts(f) == IF OfType(f, "incident.event") = {} THEN "fingerprint" ELSE "isnew"
AfterCount(f) == IF OfType(f, "prompt.event") = {} THEN AfterPrompts(f) ELSE "prompts"

ClaimUnfolded(f) ==
    LET pending == DOMAIN sdkEvents \ foldedIds
    IN  /\ At(f, "idle")
        /\ pending # {}
        /\ job' = [job EXCEPT ![f] = [NoJob EXCEPT !.at = "count", !.batch = pending]]
        /\ UNCHANGED <<state, agent, tables, prompts, incident, lifecycle, findings>>

\* Bug: the rows another fold has stamped are counted again.
UncountedAll(ids) == ids

\* SELECT id ... WHERE counted_at IS NULL AND id IN (...)
Uncounted(ids) == ids \ countedIds

\* process_events: BEGIN IMMEDIATE, the uncounted rows, the stamp, COMMIT.
ProcessEvents(f) ==
    LET ids == Uncounted(job[f].batch)
    IN  /\ At(f, "count")
        /\ tables' = InOrder(ProcessEvent, tables, ids)
        /\ countedIds' = countedIds \cup ids
        /\ GoOn(f, AfterCount(f))
        /\ UNCHANGED <<unsent, sdkEvents, foldedIds, failures, agent, prompts, incident,
                       lifecycle, findings>>

\* An event that names no application and workflow is passed over.
Scoped(e) == e.named /\ e.flow # None

UpsertPromptEvent(table, e) ==
    OnlyIf(Scoped(e), [current |-> e.label, versions |-> table.versions \cup {e.label}], table)

ProcessPromptEvents(f) ==
    /\ At(f, "prompts")
    /\ prompts' = InOrder(UpsertPromptEvent, prompts, OfType(f, "prompt.event"))
    /\ GoOn(f, AfterPrompts(f))
    /\ UNCHANGED <<state, agent, tables, incident, lifecycle,
                   findings>>

-----------------------------------------------------------------------------
(* Incidents.                                                               *)

\* The lookup before the first INSERT is outside the transaction it begins.
IsNew(f) ==
    /\ At(f, "isnew")
    /\ job' = [job EXCEPT ![f].at = "incidents", ![f].fresh = incident.status = None]
    /\ UNCHANGED <<state, agent, tables, prompts, incident, lifecycle, findings>>

\* Bug: the report overwrites the status of a closed incident.
UpsertIncidentReopens(s, e) ==
    OnlyIf(Scoped(e),
      [status |-> e.label, fresh |-> FALSE, told |-> s.told + One(s.fresh /\ e.label # "closed")],
      s)

\* A closed incident stays closed; a new one that is not closed is announced in
\* the transaction that inserts it.
UpsertIncidentEvent(s, e) ==
    OnlyIf(Scoped(e),
      [status |-> IF s.status = "closed" THEN "closed" ELSE e.label, fresh |-> FALSE,
       told |-> s.told + One(s.fresh /\ e.label # "closed")],
      s)

ProcessIncidentEvents(f) ==
    LET s == InOrder(UpsertIncidentEvent,
                     [status |-> incident.status, fresh |-> job[f].fresh, told |-> 0],
                     OfType(f, "incident.event"))
    IN  /\ At(f, "incidents")
        /\ incident' = [status |-> s.status, announced |-> incident.announced + s.told]
        /\ GoOn(f, "fingerprint")
        /\ UNCHANGED <<state, agent, tables, prompts, lifecycle, findings>>

\* set_incident_status finds the incident or refuses.
IncidentStatusSet(status) ==
    /\ incident.status # None
    /\ incident' = [incident EXCEPT !.status = status]

\* The route: one @atomic transaction.
CloseIncident ==
    /\ IncidentStatusSet("closed")
    /\ UNCHANGED <<state, agent, tables, prompts, lifecycle, findings, job>>

-----------------------------------------------------------------------------
(* Lifecycle fingerprints.                                                  *)

FieldOf == [t \in {"agent.run", "tool.call", "retrieval.call", "guardrail.decision",
                   "eval.result"} |->
              CASE t = "agent.run" -> "agents"
                [] t = "tool.call" -> "tools"
                [] t = "retrieval.call" -> "retrievers"
                [] t = "guardrail.decision" -> "guardrails"
                [] t = "eval.result" -> "evals"]

\* The labels an event adds to the payload; a label is a field and a value.
Labels(e) ==
    (IF e.type \in DOMAIN FieldOf /\ e.label # None THEN {<<FieldOf[e.type], e.label>>} ELSE {})
      \cup (IF e.provider # None THEN {<<"providers", e.provider>>} ELSE {})
      \cup (IF IsCall(e) /\ e.provider # None THEN {<<"models", e.provider>>} ELSE {})
      \cup (IF e.flow # None THEN {<<"workflows", e.flow>>} ELSE {})

FingerprintPayload(events) == UNION {Labels(e) : e \in events}

\* events_by_app_scope: only the events that name the application.
ScopeOf(ids) == {e \in {sdkEvents[i] : i \in ids} : e.named}

ListApplicationEvents == ScopeOf(DOMAIN sdkEvents)

\* refresh_lifecycle_state: the payload recomputed from the whole history.
Recomputed == FingerprintPayload(ListApplicationEvents)

MergePayload(stored, fresh) == IF stored = None THEN fresh ELSE stored \cup fresh

\* The application has a row, which only runtime telemetry gives it.
ApplicationIsRegistered == tables.application.seen

\* fold_batch_fingerprints up to the merge.  An application that is not in the
\* inventory, or has no event in the batch, is passed over.
ReadFingerprint(f) ==
    LET batch == ScopeOf(job[f].batch)
        fresh == FingerprintPayload(batch)
        base  == MergePayload(lifecycle.fingerprint, fresh)
    IN  /\ At(f, "fingerprint")
        /\ \/ /\ ~ApplicationIsRegistered \/ batch = {}
              /\ GoOn(f, "registry")
           \/ /\ ApplicationIsRegistered /\ batch # {}
              /\ job' = [job EXCEPT ![f].at = "compare", ![f].base = base]
        /\ UNCHANGED <<state, agent, tables, prompts, incident, lifecycle, findings>>

\* upsert_fingerprint reads the row once more, still outside a transaction.
ReadExisting(f) ==
    /\ At(f, "compare")
    /\ job' = [job EXCEPT ![f].at = "upsert", ![f].was = lifecycle.fingerprint]
    /\ UNCHANGED <<state, agent, tables, prompts, incident, lifecycle, findings>>

ChangedMaterialFields(was, new) == {label[1] : label \in (was \ new) \cup (new \ was)}

HighRiskFields == {"guardrails", "models", "providers", "tools"}

\* ON CONFLICT the task keeps its status.
UpsertReviewTask(table, change, severity) ==
    [table EXCEPT !.tasks = {t \in @ : t.change # change} \cup
       {[change |-> change, priority |-> IF severity = "High" THEN "high" ELSE "medium"]}]

\* INSERT OR IGNORE, keyed by the hashes of both payloads.
InsertChangeEvent(table, was, new) ==
    LET severity == IF ChangedMaterialFields(was, new) \cap HighRiskFields # {}
                    THEN "High" ELSE "Medium"
    IN  UpsertReviewTask([table EXCEPT !.changes = @ \cup {<<was, new>>}],
                         <<was, new>>, severity)

\* Its change event and the new payload are written in one transaction.
UpsertFingerprint(f) ==
    LET was  == job[f].was
        new  == job[f].base
        told == IF was # None /\ ChangedMaterialFields(was, new) # {}
                THEN InsertChangeEvent(lifecycle, was, new) ELSE lifecycle
    IN  /\ At(f, "upsert")
        /\ lifecycle' = [told EXCEPT !.fingerprint = new]
        /\ job' = [job EXCEPT ![f] = [@ EXCEPT !.at = "registry", !.base = None, !.was = None]]
        /\ UNCHANGED <<state, agent, tables, prompts, incident, findings>>

-----------------------------------------------------------------------------
(* Agents.                                                                  *)

\* The intake's scale, and the band of it an autonomy level falls in.
IntakeIndex(level) == IF level = 0 THEN 0 ELSE IF level \in 1..2 THEN 1 ELSE 2

\* The most autonomous level the application's live intakes declare.
DeclaredIntakeAutonomy ==
    LET live == {u.autonomy : u \in {v \in UseCases : v.status \notin {"retired", "rejected"}}}
    IN  IF live = {} THEN None ELSE Max(live)

\* What the registration r says of an agent that ran and used these tools.
Judged(r, tools) ==
    IF r = None \/ ~r.active
    THEN {"SHADOW"}
    ELSE (IF tools \subseteq r.tools THEN {} ELSE {"TOOL"})
           \cup (IF r.trifecta /\ ~r.checkpoint THEN {"TRIFECTA"} ELSE {})
           \cup (IF r.level >= 3 /\ ~r.checkpoint THEN {"AUTONOMY"} ELSE {})
           \cup (IF /\ DeclaredIntakeAutonomy # None
                    /\ IntakeIndex(r.level) > DeclaredIntakeAutonomy
                 THEN {"INTAKE"} ELSE {})

\* The registry is of interest where the agent runs.
SetRegistered(r) ==
    /\ registrations < MaxRegistry
    /\ Ran(unsent \cup Range(sdkEvents))
    /\ r # registered
    /\ registered' = r
    /\ held' = held \cup {r}
    /\ registrations' = registrations + 1
    /\ UNCHANGED <<state, tables, prompts, incident, lifecycle,
                   findings, job>>

\* register_agent makes a retired agent active again.
AgentRegistered(r) == [r EXCEPT !.active = TRUE]

RegisterAgent(r) == SetRegistered(AgentRegistered(r))

AgentRetired(r) == [r EXCEPT !.active = FALSE]

RetireAgent == registered # None /\ SetRegistered(AgentRetired(registered))

\* refresh_agent_posture passes over a tenant without agent runs;
\* compute_agent_posture reads the registry first, on a connection of its own.
ReadRegistry(f) ==
    /\ At(f, "registry")
    /\ \/ ~Ran(tables.observed) /\ GoOn(f, "mark")
       \/ /\ Ran(tables.observed)
          /\ job' = [job EXCEPT ![f].at = "posture", ![f].registry = registered]
    /\ UNCHANGED <<state, agent, tables, prompts, incident, lifecycle, findings>>

\* Bug: only the activity of the fold's own batch is looked at.
ActivityOfBatch(f) == tables.observed \cap {sdkEvents[i] : i \in job[f].batch}

\* _observed_agent_activity reads the whole table.
Activity(f) == tables.observed

\* A tool call is the agent's when it shares a trace with one of its runs; a run
\* may also list the tools of its steps.
ToolsUsed(seen) ==
    LET runs  == {e \in seen : e.type = "agent.run"}
        calls == {e \in seen : e.type = "tool.call" /\ \E r \in runs : r.trace = e.trace}
    IN  {e.label : e \in calls} \cup UNION {r.steps : r \in runs}

\* refresh_agent_posture.  Findings are only ever added, so the read of the
\* activity and the write that follows are one step.
RefreshAgentPosture(f) ==
    LET seen == Activity(f)
    IN  /\ At(f, "posture")
        /\ findings' = findings \cup
             (IF Ran(seen) THEN Judged(job[f].registry, ToolsUsed(seen)) ELSE {})
        /\ GoOn(f, "mark")
        /\ UNCHANGED <<state, agent, tables, prompts, incident, lifecycle>>

MarkRowsFolded(f) ==
    /\ At(f, "mark")
    /\ foldedIds' = foldedIds \cup job[f].batch
    /\ job' = [job EXCEPT ![f] = NoJob]
    /\ UNCHANGED <<unsent, sdkEvents, countedIds, failures, agent, tables, prompts, incident,
                   lifecycle, findings>>

\* A projection raises, or the process is killed: the rows stay pending.
Fail(f) ==
    /\ ~At(f, "idle")
    /\ failures < MaxFailures
    /\ failures' = failures + 1
    /\ job' = [job EXCEPT ![f] = NoJob]
    /\ UNCHANGED <<unsent, sdkEvents, countedIds, foldedIds, agent, tables, prompts, incident,
                   lifecycle, findings>>

Projection(f) ==
    \/ ClaimUnfolded(f) \/ ProcessEvents(f) \/ ProcessPromptEvents(f)
    \/ IsNew(f) \/ ProcessIncidentEvents(f)
    \/ ReadFingerprint(f) \/ ReadExisting(f) \/ UpsertFingerprint(f)
    \/ ReadRegistry(f) \/ RefreshAgentPosture(f)
    \/ MarkRowsFolded(f) \/ Fail(f)

InventoryNext ==
    \/ \E e \in unsent : InsertEvent(e)
    \/ \E f \in Fold : Projection(f)
    \/ CloseIncident
    \/ \E r \in Registration : RegisterAgent(r)
    \/ RetireAgent

InventorySpec == InventoryInit /\ [][InventoryNext]_inventoryVars

-----------------------------------------------------------------------------
(* Properties.                                                              *)

\* The tables hold rows of their types, and a fold works on stored rows.
InventoryTypeOK ==
    /\ countedIds \subseteq DOMAIN sdkEvents /\ foldedIds \subseteq countedIds
    /\ tables.application \in Row
    /\ tables.workflows \in [Flow -> Row]
    /\ tables.models \in [Provider \cup {None} -> Row]
    /\ tables.providers \in [Provider -> Row]
    /\ tables.risks \in [BOOLEAN -> [Risk -> SUBSET Trace]]
    /\ tables.controls \in [Controlled -> Nat]
    /\ tables.observed \subseteq Events
    /\ incident.status \in {None, "closed"} \cup {e.label : e \in Events}
    /\ incident.announced \in Nat
    /\ {t.change : t \in lifecycle.tasks} = lifecycle.changes
    /\ findings \subseteq AgentRule
    /\ \A f \in Fold : job[f].batch \subseteq DOMAIN sdkEvents

CountedRows(Test(_)) == {i \in countedIds : Test(sdkEvents[i])}

Exact(row, ids) ==
    /\ row.calls = Cardinality({i \in ids : IsCall(sdkEvents[i])})
    /\ row.errors = Cardinality({i \in ids : sdkEvents[i].error})
    /\ row.tokens = InOrder(LAMBDA sum, e : sum + e.tokens, 0, ids)
    /\ row.providers = Given({sdkEvents[i].provider : i \in ids})

Sampled(sample, ids) ==
    LET traces == {sdkEvents[i].trace : i \in ids}
    IN  sample \subseteq traces /\ Cardinality(sample) = Min({SampleCap, Cardinality(traces)})

\* However often rows are folded, together or apart, the inventory is what one
\* pass over the counted rows gives: each call, error and token once in the
\* application, workflow, model and provider it belongs to, each evidence event
\* once in its control, and a full sample of traces behind each risk
\* (process_events and its upserts).
InventoryIsExact ==
    /\ Exact(tables.application,
             CountedRows(LAMBDA e : e.type \in Runtime /\ e.named))
    /\ \A w \in Flow : Exact(tables.workflows[w],
         CountedRows(LAMBDA e : /\ e.flow = w
                                /\ IsCall(e) \/ (e.type \in Runtime /\ e.named /\ w # None)))
    /\ \A p \in Provider \cup {None} :
         Exact(tables.models[p], CountedRows(LAMBDA e : IsCall(e) /\ e.provider = p))
    /\ \A p \in Provider : tables.providers[p] = tables.models[p]
    /\ \A t \in Controlled :
         tables.controls[t] = Cardinality(CountedRows(LAMBDA e : e.type = t))
    /\ Sampled(tables.risks[TRUE]["dependency"],
               CountedRows(LAMBDA e : IsCall(e) /\ e.named /\ e.provider # None))
    /\ Sampled(tables.risks[TRUE]["volume"],
               CountedRows(LAMBDA e : IsCall(e) /\ e.named /\ e.tokens > Heavy))
    /\ \A b \in BOOLEAN : Sampled(tables.risks[b]["guardrail"],
         CountedRows(LAMBDA e : e.type = "guardrail.decision" /\ e.failed /\ e.named = b))

\* An incident that stands open was announced to the people who have to act on
\* it, whichever of its reports was folded first, by whom, and however often
\* (upsert_incident_event: is_new, the CASE on a closed status, emit).
OpenIncidentAnnounced == incident.status \notin {None, "closed"} => incident.announced > 0

\* Once a run and a tool call of its trace are both folded, in one batch or in
\* two, the risk register holds every finding that some registration the agent
\* has had calls for: a tool call that comes without its run is judged by the
\* fold of the run, whoever fails in between (refresh_agent_posture).
ToolUseIsJudged ==
    \A i, j \in foldedIds :
        sdkEvents[i].type = "agent.run" /\ sdkEvents[j].type = "tool.call"
            /\ sdkEvents[i].trace = sdkEvents[j].trace
          => \E r \in held : Judged(r, {sdkEvents[j].label}) \subseteq findings

\* fold_batch_fingerprints: "union(stored payload, payload(batch)) equals what a
\* full recompute over all history would produce", once everything is folded.
FingerprintIsHistory ==
    tables.application.seen /\ foldedIds = DOMAIN sdkEvents => lifecycle.fingerprint = Recomputed
=============================================================================
