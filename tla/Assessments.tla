---------------------------- MODULE Assessments ----------------------------
(***************************************************************************)
(* What telemetry says of one registered application: the risk rules that  *)
(* raise findings, the controls evidence arrives for, and how much of the  *)
(* recent traffic that evidence covers (storage/governance_policy.py).     *)
(*                                                                         *)
(* A fold judges its batch incrementally (fold_batch_assessments); the     *)
(* full recompute over all history (refresh_governance_assessments) is the *)
(* reference it has to agree with.  A configuration handler is one unit of *)
(* work, hence one step.  The fold reads the tenant's rules and controls,  *)
(* and the statuses and aggregates it needs, outside any transaction until *)
(* its first write, as in ReleaseGate.  Decisions on findings and controls *)
(* are modelled there too; here every status is a computed one.            *)
(*                                                                         *)
(* Times are days; the text of an event's time carries a UTC suffix, the   *)
(* time of a database row does not.  Trace lists stay under their caps.    *)
(***************************************************************************)
EXTENDS Integers, FiniteSets

CONSTANTS
    Fold,          \* workers folding the tenant's pending rows
    Workload,      \* bound: the sets of events a behaviour may ingest
    Control,       \* bound: the controls looked at
    Own,           \* rule ids of the tenant that no built-in rule has
    Requests,      \* bound: risk rules the tenant configures, as <<id, rule>>
    Definitions,   \* bound: definitions the tenant gives its controls, as <<id, control>>
    UseCases,      \* intake records of the application
    None,
    WindowDays, StaleDays, \* evidence settings of the policy
    MinCoverage,   \* the minimum a release gate asks for, in tenths of a percent
    MaxDay, MaxChanges, MaxFaults \* bounds

\* SUPPORTED_RISK_SIGNALS, without those of the agent and vendor registries.
Signal == {"provider_dependency", "missing_guardrail", "missing_eval", "failed_eval",
           "missing_agent_run", "operational_errors", "retired_system_telemetry",
           "evidence_delivery_not_durable"}

\* DEFAULT_RISK_RULES: one enforced rule for each signal, named after it here.
DefaultRules == [s \in Signal |-> [signal |-> s, mode |-> "enforce"]]

\* DEFAULT_CONTROLS.  Every one of them requires fields of its evidence; two are
\* measured against the model calls, the others against their own evidence types.
DefaultControls ==
    LET Asks(type, basis) == [types |-> {type}, required |-> TRUE, basis |-> basis]
    IN  [inventory |-> Asks("model.call", None),
         logging   |-> Asks("trace.completed", "model.call"),
         data      |-> Asks("model.call", None),
         retrieval |-> Asks("retrieval.call", None),
         tool      |-> Asks("tool.call", None),
         guardrail |-> Asks("guardrail.decision", "model.call"),
         eval      |-> Asks("eval.result", None),
         agent     |-> Asks("agent.run", None),
         health    |-> Asks("sdk.health", None)]

RuleId == Signal \cup Own

Day == 1..MaxDay

Events == UNION Workload

ASSUME ConstantsAssumption ==
    /\ Own \cap Signal = {}
    /\ Control \subseteq DOMAIN DefaultControls
    /\ \A r \in Requests : r[1] \in RuleId /\ r[2].signal \in Signal
                             /\ r[2].mode \in {"observe", "enforce"}
    /\ \A d \in Definitions : d[1] \in Control
    /\ IsFiniteSet(Events) /\ \A e \in Events : e.day \in Day
    /\ {WindowDays, StaleDays, MinCoverage, MaxDay, MaxChanges, MaxFaults} \subseteq Nat

VARIABLES
    workload,   \* the events of this behaviour
    stored,     \* events in sdk_events
    pending,    \* those with folded_at NULL
    registered, \* the application is in governance_applications
    rules,      \* risk_rules rows of the tenant, None where it has none
    controls,   \* control_library rows of the tenant
    intake,     \* ai_use_cases of the application: status and updated_at
    finding,    \* status of each rule's finding, "none" while it has no row
    assessment, \* status of each control's assessment
    lastSeen,   \* control_evidence_traces: last_seen of each control and trace
    fold,       \* what each worker is doing, and what it read
    changes,    \* configuration changes so far
    faults,     \* folds that failed so far
    judged,     \* history: changes known to the latest committed fold
    credited    \* history: events assessed, with the controls they were evidence for

config_vars == <<rules, controls, intake, changes>>
result_vars == <<finding, assessment, lastSeen, judged, credited>>
vars == <<workload, stored, pending, registered, config_vars, result_vars,
          fold, faults>>

Trace == {e.trace : e \in Events}

Idle == [phase |-> "idle", batch |-> {}]

\* Rows are those of their tables; what a fold holds was stored, and what is on
\* record of evidence came from assessed events.
TypeOK ==
    /\ workload \in Workload /\ stored \subseteq workload /\ pending \subseteq stored
    /\ \A r \in RuleId : rules[r] = None \/ \E q \in Requests : rules[r] = q[2]
    /\ finding \in [RuleId -> {"none", "observed", "open"}]
    /\ assessment \in [Control -> {"none", "passing", "missing"}]
    /\ lastSeen \in [Control -> [Trace -> 0..MaxDay]]
    /\ \A w \in Fold : fold[w].batch \subseteq stored
    /\ changes \in 0..MaxChanges /\ judged \in 0..changes /\ faults \in 0..MaxFaults
    /\ credited \subseteq stored \X Control

\* A tenant without rules of its own, or one that has begun to observe one.
Init ==
    /\ workload \in Workload
    /\ stored = {} /\ pending = {} /\ registered = FALSE
    /\ rules \in {[r \in RuleId |-> None]} \cup
         {[r \in RuleId |-> IF r = q[1] THEN q[2] ELSE None] :
            q \in {x \in Requests : x[2].mode = "observe"}}
    /\ controls = [c \in Control |-> None]
    /\ intake = [u \in UseCases |-> [status |-> "approved", at |-> 0]]
    /\ finding = [r \in RuleId |-> "none"]
    /\ assessment = [c \in Control |-> "none"]
    /\ lastSeen = [c \in Control |-> [t \in Trace |-> 0]]
    /\ fold = [w \in Fold |-> Idle]
    /\ changes = 0 /\ faults = 0 /\ judged = 0 /\ credited = {}

-----------------------------------------------------------------------------
(***************************************************************************)
(* The tenant's library: platform defaults, overlaid with its own rows.    *)
(***************************************************************************)
RuleOf(r) ==
    IF rules[r] # None THEN rules[r]
    ELSE IF r \in Signal THEN DefaultRules[r] ELSE None

ListRiskRules == [r \in {id \in RuleId : RuleOf(id) # None} |-> RuleOf(r)]

ListControlLibrary ==
    [c \in Control |-> IF controls[c] # None THEN controls[c] ELSE DefaultControls[c]]

\* event_satisfies_required_fields: every value a control may require is there.
SatisfiesRequired(e, control) == control.required => e.complete

Qualifies(e, control) == e.type \in control.types /\ SatisfiesRequired(e, control)

Evidence(events, control) == {e \in events : Qualifies(e, control)}

\* _retired_since: no record of the application outranks a retirement.
RetiredSince ==
    LET retired == {u \in UseCases : intake[u].status = "retired"}
    IN  IF \/ retired = {}
           \/ \E u \in UseCases : intake[u].status \in {"submitted", "approved", "recertified"}
          THEN None
          ELSE CHOOSE d \in {intake[u].at : u \in retired} :
                 \A u \in retired : intake[u].at <= d

(***************************************************************************)
(* The reference: assess_risk_rules and assess_controls over the events    *)
(* list_application_events reads.                                          *)
(***************************************************************************)
ApplicationEvents(events) == {e \in events : e.named \/ e.type = "sdk.health"}

Of(events, type) == {e \in events : e.type = type}

Failures(events) == {e \in events : e.error /\ e.type # "eval.result"}

UndurableHealth(events) == {e \in Of(events, "sdk.health") : e.undurable}

RecomputedSignals(events, since) ==
    {s \in Signal :
      \/ s = "provider_dependency" /\ \E e \in Of(events, "model.call") : e.provider
      \/ /\ s = "missing_guardrail"
         /\ Of(events, "model.call") # {} /\ Of(events, "guardrail.decision") = {}
      \/ /\ s = "missing_eval"
         /\ Of(events, "model.call") # {} /\ Of(events, "eval.result") = {}
      \/ s = "failed_eval" /\ \E e \in Of(events, "eval.result") : e.error
      \/ /\ s = "missing_agent_run"
         /\ Of(events, "agent.run") = {}
         /\ Of(events, "tool.call") # {} \/ \E e \in events : e.agentic
      \/ s = "operational_errors" /\ Failures(events) # {}
      \/ s = "retired_system_telemetry" /\ since # None /\ \E e \in events : e.day > since
      \/ s = "evidence_delivery_not_durable" /\ UndurableHealth(events) # {}}

RecomputedControl(events, control) ==
    IF Evidence(events, control) # {} THEN "passing" ELSE "missing"

(***************************************************************************)
(* The fold: risk rules from the aggregates of the application's rows, and *)
(* from the batch for what is not in a column; controls from the batch.    *)
(***************************************************************************)

\* Bug: the aggregates are those of the batch.
AppEventStatsOfBatch(events, batch) ==
    [count |-> [t \in {e.type : e \in batch} |-> Cardinality(Of(batch, t))],
     errors |-> [t \in {e.type : e \in batch} |-> Cardinality({e \in Of(batch, t) : e.error})],
     providers |-> \E e \in Of(batch, "model.call") : e.provider,
     agentic |-> \E e \in batch : e.agentic]

\* _app_event_stats, over every stored row of the application.
AppEventStats(events, batch) ==
    LET rows == {e \in events : e.named}
        types == {e.type : e \in rows}
    IN  [count |-> [t \in types |-> Cardinality(Of(rows, t))],
         errors |-> [t \in types |-> Cardinality({e \in Of(rows, t) : e.error})],
         providers |-> \E e \in Of(rows, "model.call") : e.provider,
         agentic |-> \E e \in rows : e.agentic]

\* _count_after: the text of an event at the boundary is longer than the boundary.
CountAfter(events, since) == Cardinality({e \in events : e.named /\ e.day >= since})

FoldedSignals(events, since, batch) ==
    LET stats == AppEventStats(events, batch)
        Seen(t) == t \in DOMAIN stats.count
    IN  {s \in Signal :
          \/ s = "provider_dependency" /\ stats.providers
          \/ s = "missing_guardrail" /\ Seen("model.call") /\ ~Seen("guardrail.decision")
          \/ s = "missing_eval" /\ Seen("model.call") /\ ~Seen("eval.result")
          \/ s = "failed_eval" /\ Seen("eval.result") /\ stats.errors["eval.result"] > 0
          \/ /\ s = "missing_agent_run" /\ ~Seen("agent.run")
             /\ Seen("tool.call") \/ stats.agentic
          \/ /\ s = "operational_errors"
             /\ \E t \in DOMAIN stats.errors \ {"eval.result"} : stats.errors[t] > 0
          \/ s = "retired_system_telemetry" /\ since # None /\ CountAfter(events, since) > 0
          \/ s = "evidence_delivery_not_durable" /\ UndurableHealth(batch) # {}}

\* write_rule_finding, for the rules the fold read.
WriteRuleFindings(library, signals) ==
    [r \in RuleId |->
       IF r \in DOMAIN library /\ library[r].signal \in signals
         THEN IF library[r].mode = "observe" THEN "observed" ELSE "open"
         ELSE finding[r]]

DayMax(a, b) == IF a > b THEN a ELSE b

\* Bug: the latest report wins, whatever its time.
RecordControlEvidenceAnyway(library, batch) ==
    [c \in Control |-> [t \in Trace |->
       LET days == {e.day : e \in {x \in Evidence(batch, library[c]) : x.trace = t}}
       IN  IF days = {} THEN lastSeen[c][t]
           ELSE CHOOSE d \in days : \A x \in days : x <= d]]

\* record_control_evidence: one row for each trace, with its latest time.
RecordControlEvidence(library, batch) ==
    [c \in Control |-> [t \in Trace |->
       LET days == {e.day : e \in {x \in Evidence(batch, library[c]) : x.trace = t}}
       IN  IF days = {} THEN lastSeen[c][t]
           ELSE DayMax(lastSeen[c][t], CHOOSE d \in days : \A x \in days : x <= d)]]

\* _fold_controls, where known is what it reads of the existing assessments.
FoldControls(library, batch, known) ==
    [c \in Control |->
       IF Evidence(batch, library[c]) # {} THEN "passing"
       ELSE IF known[c] = "none" THEN "missing" ELSE assessment[c]]

-----------------------------------------------------------------------------
(***************************************************************************)
(* Telemetry and its fold.                                                 *)
(***************************************************************************)
Ingest(events) ==
    /\ events # {} /\ events \subseteq workload \ stored
    /\ stored' = stored \cup events
    /\ pending' = pending \cup events
    /\ UNCHANGED <<workload, registered, config_vars, result_vars, fold, faults>>

\* RUNTIME_EVENT_TYPES: what shows that the application ran.
RuntimeTypes == {"model.call", "agent.run", "tool.call", "retrieval.call",
                 "guardrail.decision", "trace.completed", "sdk.health"}

\* process_event, upsert_application: any such event that names the application
\* puts it in the inventory; an evaluation does not.
Registers(e) == e.type \in RuntimeTypes /\ e.named

\* The worker claims the pending rows and process_events registers the application.
\* One step: a fold that still finds it unregistered claimed its rows earlier, and
\* they are in this batch too.
Claim(w) ==
    /\ fold[w].phase = "idle" /\ pending # {}
    /\ fold' = [fold EXCEPT ![w] = [phase |-> "claimed", batch |-> pending]]
    /\ registered' = (registered \/ \E e \in pending : Registers(e))
    /\ UNCHANGED <<workload, stored, pending, config_vars, result_vars, faults>>

\* fold_batch_assessments, up to its first write.  events_by_app_scope leaves out
\* what names no application.
AssessRead(w) ==
    LET named == {e \in fold[w].batch : e.named}
    IN  /\ fold[w].phase = "claimed"
        /\ fold' = [fold EXCEPT ![w] =
             IF registered /\ named # {}
               THEN [phase |-> "assessing", batch |-> @.batch, named |-> named,
                     rules |-> ListRiskRules, controls |-> ListControlLibrary,
                     known |-> assessment, events |-> stored, since |-> RetiredSince,
                     changes |-> changes]
               ELSE [phase |-> "mark", batch |-> @.batch]]
        /\ UNCHANGED <<workload, stored, pending, registered, config_vars,
                       result_vars, faults>>

\* What the fold knows at its first write: a control written on evidence, or one
\* it read no assessment of, which may have one by then; everything read after
\* that write is current.  If it writes no control, the aggregates are old too.
Known(w) ==
    LET f == fold[w]
        evident == {c \in Control : Evidence(f.named, f.controls[c]) # {}}
        fresh   == {c \in Control \ evident : f.known[c] = "none"}
        Current(c0) == [known  |-> [c \in Control |->
                                      IF c = c0 THEN "none" ELSE assessment[c]],
                        events |-> stored, since |-> RetiredSince]
    IN  {Current(c0) : c0 \in fresh}
          \cup {Current(None) : c \in evident}
          \cup IF evident \cup fresh # {} THEN {}
               ELSE {[known |-> f.known, events |-> f.events, since |-> f.since]}

AssessWrite(w) ==
    LET f == fold[w]
    IN  /\ f.phase = "assessing"
        /\ \E k \in Known(w) :
             /\ assessment' = FoldControls(f.controls, f.named, k.known)
             /\ finding' = WriteRuleFindings(f.rules,
                             FoldedSignals(k.events, k.since, f.named))
        /\ lastSeen' = RecordControlEvidence(f.controls, f.named)
        /\ judged' = DayMax(judged, f.changes)
        /\ credited' = credited \cup
             {k \in f.named \X Control : Qualifies(k[1], f.controls[k[2]])}
        /\ fold' = [fold EXCEPT ![w] = [phase |-> "mark", batch |-> f.batch]]
        /\ UNCHANGED <<workload, stored, pending, registered, config_vars, faults>>

MarkFolded(w) ==
    /\ fold[w].phase = "mark"
    /\ pending' = pending \ fold[w].batch
    /\ fold' = [fold EXCEPT ![w] = Idle]
    /\ UNCHANGED <<workload, stored, registered, config_vars, result_vars, faults>>

\* Some step of the fold raises, or the process dies: its rows stay pending.
Abandon(w) ==
    /\ fold[w].phase # "idle" /\ faults < MaxFaults
    /\ faults' = faults + 1
    /\ fold' = [fold EXCEPT ![w] = Idle]
    /\ UNCHANGED <<workload, stored, pending, registered, config_vars, result_vars>>

-----------------------------------------------------------------------------
(***************************************************************************)
(* Configuration.                                                          *)
(***************************************************************************)

\* upsert_risk_rule: built-in rules always enforce, an enforced rule does not go
\* back to observe mode, and a promotion opens what was observed.
UpsertRiskRule(r, rule) ==
    LET previous == IF rules[r] = None THEN None ELSE rules[r].mode
    IN  /\ ~(rule.mode = "observe" /\ r \in Signal)
        /\ ~(previous = "enforce" /\ rule.mode = "observe")
        /\ rules' = [rules EXCEPT ![r] = rule]
        /\ finding' = [finding EXCEPT ![r] =
             IF previous = "observe" /\ rule.mode = "enforce" /\ @ = "observed"
               THEN "open" ELSE @]

ConfigureRiskRule ==
    /\ changes < MaxChanges
    /\ \E q \in Requests : rules[q[1]] # q[2] /\ UpsertRiskRule(q[1], q[2])
    /\ changes' = changes + 1
    /\ UNCHANGED <<workload, stored, pending, registered, controls, intake,
                   assessment, lastSeen, judged, credited, fold, faults>>

\* upsert_control_definition: what was judged under the old definition stays.
ConfigureControl ==
    /\ changes < MaxChanges
    /\ \E d \in Definitions :
         controls[d[1]] # d[2] /\ controls' = [controls EXCEPT ![d[1]] = d[2]]
    /\ changes' = changes + 1
    /\ UNCHANGED <<workload, stored, pending, registered, rules, intake,
                   result_vars, fold, faults>>

\* An intake record is retired, or submitted again, on some day (see ReviewWork).
ChangeUseCase(u, day) ==
    /\ changes < MaxChanges
    /\ intake' = [intake EXCEPT ![u] =
         [status |-> IF @.status = "retired" THEN "submitted" ELSE "retired", at |-> day]]
    /\ changes' = changes + 1
    /\ UNCHANGED <<workload, stored, pending, registered, rules, controls,
                   result_vars, fold, faults>>

Next ==
    \/ \E events \in SUBSET workload : Ingest(events)
    \/ \E w \in Fold : Claim(w) \/ AssessRead(w) \/ AssessWrite(w) \/ MarkFolded(w)
                         \/ Abandon(w)
    \/ ConfigureRiskRule
    \/ ConfigureControl
    \/ \E u \in UseCases, day \in Day : ChangeUseCase(u, day)

Spec == Init /\ [][Next]_vars

-----------------------------------------------------------------------------
(***************************************************************************)
(* control_coverage: how much of the traffic of the window the evidence    *)
(* covers, and whether the evidence is stale, to a reader on the day now.  *)
(* The share is in tenths of a percent, None without traffic.              *)
(***************************************************************************)
BasisTypes(control) == IF control.basis # None THEN {control.basis} ELSE control.types

BasisTraces(control, now) ==
    {e.trace : e \in {x \in stored : /\ x.named /\ x.type \in BasisTypes(control)
                                     /\ x.day >= now - WindowDays}}

CoveredTraces(c, control, now) == {t \in BasisTraces(control, now) : lastSeen[c][t] > 0}

\* round(): to the nearest tenth, a tie to the even one.
Rounded(part, whole) ==
    LET tenths == (1000 * part) \div whole
        rest   == 2 * ((1000 * part) % whole)
    IN  IF whole = 0 THEN None
        ELSE IF rest > whole \/ (rest = whole /\ tenths % 2 = 1) THEN tenths + 1
        ELSE tenths

Stale(c, now) == \A t \in Trace : lastSeen[c][t] = 0 \/ lastSeen[c][t] < now - StaleDays

\* with_coverage: the coverage block of an assessment.
Coverage(c, now) ==
    LET control == ListControlLibrary[c]
    IN  [pct   |-> Rounded(Cardinality(CoveredTraces(c, control, now)),
                           Cardinality(BasisTraces(control, now))),
         stale |-> Stale(c, now)]

\* count_undercovered_controls, what a release gate counts against the minimum.
Undercovered(now) ==
    {c \in Control : /\ assessment[c] = "passing"
                     /\ Coverage(c, now).pct # None /\ Coverage(c, now).pct < MinCoverage}

-----------------------------------------------------------------------------
Quiet == pending = {} /\ \A w \in Fold : fold[w].phase = "idle"

\* What the reference makes of the application's own events.
OwnEvents == {e \in stored : e.named}

(***************************************************************************)
(* The fold reads counts instead of history and still misses no finding:   *)
(* once every row of a registered application is folded, and a fold has    *)
(* known the current rules and intake records, assess_risk_rules over all  *)
(* its events would raise nothing that has no finding yet, whatever was    *)
(* folded twice, late, together or out of order.  Left out is the one rule *)
(* that is not read from columns (see FoldIsFixedPoint).                   *)
(***************************************************************************)
NothingLeftToRaise ==
    Quiet /\ registered /\ judged = changes =>
      \A r \in DOMAIN ListRiskRules :
        /\ ListRiskRules[r].signal # "evidence_delivery_not_durable"
        /\ ListRiskRules[r].signal \in RecomputedSignals(OwnEvents, RetiredSince)
        => finding[r] # "none"

Credit(c) == {k \in credited : k[2] = c}

(***************************************************************************)
(* Coverage is exact: a trace of recent traffic counts as covered exactly  *)
(* when an assessed event of it was evidence for the control, once however *)
(* often it was folded; evidence is stale exactly when the latest of it is *)
(* old, in whatever order it arrived; and a gate counts a control as short *)
(* only if it passes and misses the minimum on those numbers.              *)
(***************************************************************************)
CoverageIsExact ==
    \A c \in Control, now \in Day :
      LET basis   == BasisTraces(ListControlLibrary[c], now)
          covered == {t \in basis : \E k \in Credit(c) : k[1].trace = t}
      IN  /\ Coverage(c, now).pct = Rounded(Cardinality(covered), Cardinality(basis))
          /\ Coverage(c, now).stale <=> \A k \in Credit(c) : k[1].day < now - StaleDays
          /\ c \in Undercovered(now) =>
               Cardinality(covered) * 1000 < MinCoverage * Cardinality(basis)

(***************************************************************************)
(* The full recompute over all history agrees with the folded state        *)
(* (tests/test_ingest_bounded_recompute.py).  It does not: an evaluation   *)
(* folded before the first runtime event registered the application, and   *)
(* health reports that name no application, are never assessed.            *)
(***************************************************************************)
FoldIsFixedPoint ==
    Quiet /\ registered /\ changes = 0 =>
      /\ \A c \in Control :
           assessment[c] = RecomputedControl(ApplicationEvents(stored), DefaultControls[c])
      /\ \A s \in RecomputedSignals(ApplicationEvents(stored), RetiredSince) :
           finding[s] # "none"

(***************************************************************************)
(* Promoting a rule opens its observed findings at once: no finding is     *)
(* merely observed while its rule enforces (upsert_risk_rule).  A fold     *)
(* that read the rule before the promotion writes observed over open.      *)
(***************************************************************************)
PromotedIsOpen ==
    \A r \in RuleId : finding[r] = "observed" => RuleOf(r).mode = "observe"
=============================================================================
