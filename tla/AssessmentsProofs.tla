-------------------------- MODULE AssessmentsProofs --------------------------
(***************************************************************************)
(* Proofs about the assessments, for every set of workloads, rules,        *)
(* controls, use cases, folds, changes and faults: an incremental fold     *)
(* misses no finding the full recompute would raise, and the coverage it   *)
(* reports is exact.                                                       *)
(***************************************************************************)
EXTENDS Assessments, FiniteSetTheorems, WellFoundedInduction, TLAPS

USE ConstantsAssumption

(***************************************************************************)
(* The inductive invariant.  The hard part is that a fold judges rows by   *)
(* the aggregates and the rules it read, which others may have changed by  *)
(* the time it writes: Accounted says who answers for each row until then. *)
(***************************************************************************)
\* Why a recompute over the application's events would raise a signal: an event
\* of the right kind, and for three of them the absence of another kind.
Witness(s, e) ==
    \/ s = "provider_dependency" /\ e.type = "model.call" /\ e.provider
    \/ /\ s = "missing_guardrail" /\ e.type = "model.call"
       /\ Of(OwnEvents, "guardrail.decision") = {}
    \/ /\ s = "missing_eval" /\ e.type = "model.call"
       /\ Of(OwnEvents, "eval.result") = {}
    \/ s = "failed_eval" /\ e.type = "eval.result" /\ e.error
    \/ /\ s = "missing_agent_run" /\ (e.type = "tool.call" \/ e.agentic)
       /\ Of(OwnEvents, "agent.run") = {}
    \/ s = "operational_errors" /\ e.error /\ e.type # "eval.result"
    \/ s = "retired_system_telemetry" /\ RetiredSince # None /\ e.day > RetiredSince

\* Every rule this event speaks for has its finding.
Found(e) ==
    \A r \in DOMAIN ListRiskRules :
        Witness(ListRiskRules[r].signal, e) => finding[r] # "none"

Assessing(w) == fold[w].phase = "assessing"

\* A fold that knows the current configuration has read the event with it.
Read(e) ==
    \A w \in Fold : Assessing(w) /\ fold[w].changes = changes => e \in fold[w].events

\* A fold of the current configuration is still to come: none has been committed
\* since the last change, or none at all, and then the event that registered
\* the application is not folded yet.
Waiting ==
    \/ judged # changes
    \/ /\ changes = 0
       /\ \/ ~registered
          \/ \E e \in pending :
               /\ Registers(e)
               /\ \A w \in Fold : fold[w].phase = "mark" => e \notin fold[w].batch

Settled(e) == Found(e) \/ (Waiting /\ Read(e))

Shape ==
    /\ workload \in Workload /\ stored \subseteq Events /\ pending \subseteq stored
    /\ \A u \in UseCases : intake[u].at \in 0..MaxDay
    /\ DOMAIN intake = UseCases
    /\ finding \in [RuleId -> {"none", "observed", "open"}]
    /\ lastSeen \in [Control -> [Trace -> Nat]]
    /\ credited \subseteq stored \X Control
    /\ changes \in Nat /\ judged \in 0..changes
    /\ DOMAIN fold = Fold

\* What a fold holds: rows that are stored, and what it read of them.
JobAt(w) ==
    /\ fold[w].phase \in {"idle", "claimed", "assessing", "mark"}
    /\ fold[w].batch \subseteq stored
    /\ Assessing(w) =>
         /\ registered
         /\ fold[w].named = {e \in fold[w].batch : e.named}
         /\ fold[w].batch \subseteq fold[w].events /\ fold[w].events \subseteq stored
         /\ fold[w].changes \in 0..changes
         /\ fold[w].changes = changes =>
              fold[w].rules = ListRiskRules /\ fold[w].since = RetiredSince

Jobs == \A w \in Fold : JobAt(w)

Unregistered ==
    ~registered =>
        /\ judged = 0
        /\ \A w \in Fold :
             /\ ~Assessing(w)
             /\ \A e \in fold[w].batch : ~Registers(e)

\* A row that left the pending set, or is about to, is settled; so is every row a
\* fold read under a configuration that has changed since.
Accounted ==
    /\ \A e \in OwnEvents : e \in pending \/ Settled(e)
    /\ \A w \in Fold :
         /\ fold[w].phase = "mark" => \A e \in fold[w].batch : e.named => Settled(e)
         /\ Assessing(w) /\ fold[w].changes # changes =>
              \A e \in fold[w].events : e.named => Settled(e)

\* The time on record for a control and a trace is the latest of its evidence.
Latest ==
    \A c \in Control, t \in Trace :
        /\ \A k \in Credit(c) : k[1].trace = t => k[1].day <= lastSeen[c][t]
        /\ lastSeen[c][t] > 0 =>
             \E k \in Credit(c) : k[1].trace = t /\ k[1].day = lastSeen[c][t]

AssessInv == Shape /\ Jobs /\ Unregistered /\ Accounted /\ Latest

-----------------------------------------------------------------------------
(***************************************************************************)
(* Lemmas about the operators.                                             *)
(***************************************************************************)

\* There is a latest among days on record.
LEMMA LatestExists ==
    ASSUME NEW D \in SUBSET (0..MaxDay), D # {}
    PROVE  \E d \in D : \A x \in D : x <= d
<1> DEFINE T == {MaxDay - d : d \in D}
           R == OpToRel(<, Nat)
<1>1. T \subseteq Nat /\ T # {}
  <2>1. \A d \in D : d \in Nat /\ d <= MaxDay
    OBVIOUS
  <2>2. \A d \in D : MaxDay - d \in Nat
    BY <2>1
  <2> QED
    BY <2>2
<1>2. IsWellFoundedOn(R, Nat)
  BY NatLessThanWellFounded
<1>3. \A x, y \in Nat : x < y => <<x, y>> \in R
  BY DEF OpToRel
<1> HIDE DEF R
<1>4. PICK x \in T : \A y \in T : <<y, x>> \notin R
  <2> HIDE DEF T
  <2> QED
    BY <1>1, <1>2, WFMin
<1>5. \A y \in T : ~(y < x)
  BY <1>1, <1>3, <1>4
<1>6. PICK d \in D : x = MaxDay - d
  OBVIOUS
<1>7. ASSUME NEW z \in D
      PROVE  z <= d
  <2>1. MaxDay - z \in T
    OBVIOUS
  <2>2. ~(MaxDay - z < MaxDay - d)
    BY <1>5, <1>6, <2>1
  <2>3. z \in Int /\ d \in Int /\ MaxDay \in Int
    OBVIOUS
  <2> HIDE DEF T
  <2> QED
    BY <2>2, <2>3
<1> QED
  BY <1>7

\* The boundary a retirement sets is a day.
LEMMA RetiredSinceIsDay ==
    ASSUME Shape, RetiredSince # None
    PROVE  RetiredSince \in 0..MaxDay
<1> DEFINE retired == {u \in UseCases : intake[u].status = "retired"}
           D == {intake[u].at : u \in retired}
<1>1. RetiredSince = CHOOSE d \in D : \A u \in retired : intake[u].at <= d
  BY DEF RetiredSince
<1>2. D # {} /\ D \in SUBSET (0..MaxDay)
  <2>1. retired # {}
    BY DEF RetiredSince
  <2>2. \A u \in retired : intake[u].at \in 0..MaxDay
    BY DEF Shape
  <2> HIDE DEF retired
  <2> QED
    BY <2>1, <2>2
<1>3. \E d \in D : \A u \in retired : intake[u].at <= d
  <2>1. PICK d \in D : \A x \in D : x <= d
    BY <1>2, LatestExists
  <2> QED
    BY <2>1
<1> HIDE DEF D, retired
<1>4. RetiredSince \in D
  BY <1>1, <1>3
<1> QED
  BY <1>2, <1>4

\* A count over stored rows is positive when there is one to count.
LEMMA CountsWhatIsThere ==
    ASSUME NEW S \in SUBSET Events, NEW e \in S
    PROVE  Cardinality(S) \in Nat /\ Cardinality(S) > 0
BY FS_Subset, FS_EmptySet, FS_CardinalityType

\* The aggregates of a fold tell what history tells: whatever stored rows S the
\* fold reads, it raises every signal that one of them is a witness of.
LEMMA FoldRaisesWitnessed ==
    ASSUME Shape, NEW S \in SUBSET stored, NEW e \in S, e.named, NEW s,
           Witness(s, e), NEW batch
    PROVE  s \in FoldedSignals(S, RetiredSince, batch)
<1> DEFINE rows == {x \in S : x.named}
           types == {x.type : x \in rows}
           stats == AppEventStats(S, batch)
<1>1. S \subseteq Events /\ e \in Events /\ e \in rows /\ e.type \in types
  BY DEF Shape
<1>2. /\ DOMAIN stats.count = types /\ DOMAIN stats.errors = types
      /\ \A t \in types : stats.errors[t] = Cardinality({x \in Of(rows, t) : x.error})
      /\ stats.providers <=> \E x \in Of(rows, "model.call") : x.provider
      /\ stats.agentic <=> \E x \in rows : x.agentic
  BY DEF AppEventStats
<1>3. rows \subseteq OwnEvents
  BY DEF OwnEvents
<1>4. \A t : Of(OwnEvents, t) = {} => t \notin types
  BY <1>3 DEF Of
<1>5. e.error => stats.errors[e.type] > 0
  <2>1. ASSUME e.error
        PROVE  stats.errors[e.type] > 0
    <3> DEFINE E == {x \in Of(rows, e.type) : x.error}
    <3>1. E \in SUBSET Events /\ e \in E
      BY <1>1, <2>1 DEF Of
    <3> HIDE DEF E
    <3>2. Cardinality(E) > 0
      BY <3>1, CountsWhatIsThere
    <3> QED
      BY <1>1, <1>2, <3>2 DEF E
  <2> QED
    BY <2>1
<1>6. RetiredSince # None /\ e.day > RetiredSince => CountAfter(S, RetiredSince) > 0
  <2>1. ASSUME RetiredSince # None, e.day > RetiredSince
        PROVE  CountAfter(S, RetiredSince) > 0
    <3> DEFINE E == {x \in S : x.named /\ x.day >= RetiredSince}
    <3>1. RetiredSince \in Int /\ e.day \in Int
      BY <1>1, <2>1, RetiredSinceIsDay DEF Day
    <3>2. E \in SUBSET Events /\ e \in E
      BY <1>1, <2>1, <3>1
    <3> HIDE DEF E
    <3>3. Cardinality(E) > 0
      BY <3>2, CountsWhatIsThere
    <3> QED
      BY <3>3 DEF E, CountAfter
  <2> QED
    BY <2>1
<1>7. (e.type = "model.call" /\ e.provider => stats.providers)
        /\ (e.agentic => stats.agentic)
  BY <1>1, <1>2 DEF Of
<1> HIDE DEF stats, types, rows
<1>8. s \in Signal
  BY DEF Witness, Signal
<1> QED
  BY <1>1, <1>2, <1>4, <1>5, <1>6, <1>7, <1>8 DEF Witness, FoldedSignals, stats

\* record_control_evidence keeps the latest of what it had and what the batch
\* brings, whatever the order of arrival.
LEMMA RecordsLatest ==
    ASSUME Shape, NEW c \in Control, NEW t \in Trace, NEW library,
           NEW batch \in SUBSET Events
    PROVE  LET new == RecordControlEvidence(library, batch)[c][t]
               evident == {e \in Evidence(batch, library[c]) : e.trace = t}
           IN  /\ new \in Nat /\ new >= lastSeen[c][t]
               /\ \A e \in evident : e.day <= new
               /\ new = lastSeen[c][t] \/ \E e \in evident : e.day = new
<1> DEFINE evident == {x \in Evidence(batch, library[c]) : x.trace = t}
           days == {e.day : e \in evident}
           last == lastSeen[c][t]
           top == CHOOSE d \in days : \A x \in days : x <= d
           new == RecordControlEvidence(library, batch)[c][t]
<1>1. last \in Nat
  BY DEF Shape
<1>2. new = IF days = {} THEN last ELSE DayMax(last, top)
  BY DEF RecordControlEvidence
<1>3. evident \subseteq Events
  BY DEF Evidence
<1>4. \A e \in evident : e.day \in days /\ e.day \in 0..MaxDay
  BY <1>3 DEF Day
<1>5. days \in SUBSET (0..MaxDay)
  BY <1>4
<1>6. \A d \in days : \E e \in evident : e.day = d
  OBVIOUS
<1> HIDE DEF evident, last, new
<1>7. CASE days = {}
  <2>1. evident = {}
    BY <1>4, <1>7
  <2> QED
    BY <1>1, <1>2, <1>7, <2>1 DEF evident, last, new
<1>8. CASE days # {}
  <2>1. \E d \in days : \A x \in days : x <= d
    <3> HIDE DEF days
    <3> QED
      BY <1>5, <1>8, LatestExists
  <2>2. top \in days /\ \A x \in days : x <= top
    <3> HIDE DEF days
    <3> QED
      BY <2>1
  <2> HIDE DEF days, top
  <2>3. top \in Nat
    BY <1>5, <2>2
  <2>4. new \in Nat /\ new >= last /\ new >= top /\ new \in {last, top}
    BY <1>1, <1>2, <1>8, <2>3 DEF DayMax
  <2>5. \A e \in evident : e.day <= new
    BY <1>4, <2>2, <2>3, <2>4
  <2>6. new = last \/ \E e \in evident : e.day = new
    BY <1>6, <2>2, <2>4
  <2> QED
    BY <2>4, <2>5, <2>6 DEF evident, last, new
<1> QED
  BY <1>7, <1>8

\* Rounding to tenths of a percent never hides a shortfall: a share that rounds
\* below the minimum is below it.
LEMMA RoundedBelow ==
    ASSUME NEW p \in Nat, NEW n \in Nat, NEW m \in Nat,
           Rounded(p, n) # None, Rounded(p, n) < m
    PROVE  p * 1000 < m * n
<1> DEFINE y == 1000 * p
           q == y \div n
<1>1. n \in Nat /\ n > 0 /\ y \in Nat /\ q \in Int
  BY DEF Rounded
<1>2. Rounded(p, n) \in {q, q + 1}
  BY <1>1 DEF Rounded
<1>3. y < n * (q + 1)
  <2> HIDE DEF y
  <2> QED
    BY <1>1
<1>4. q + 1 <= m
  <2> HIDE DEF q
  <2> QED
    BY <1>1, <1>2
<1>5. n * (q + 1) <= n * m
  <2> HIDE DEF q
  <2> QED
    BY <1>1, <1>4
<1>6. y < n * m
  <2> HIDE DEF y, q
  <2> QED
    BY <1>1, <1>3, <1>5
<1> QED
  BY <1>6

\* The traffic of a window has finitely many traces.
LEMMA BasisIsFinite ==
    ASSUME Shape, NEW control, NEW now
    PROVE  /\ IsFiniteSet(BasisTraces(control, now))
           /\ BasisTraces(control, now) \subseteq Trace
<1> DEFINE X == {x \in stored : /\ x.named /\ x.type \in BasisTypes(control)
                                /\ x.day >= now - WindowDays}
           B == {e.trace : e \in X}
           f == [e \in X |-> e.trace]
<1>1. B = BasisTraces(control, now)
  BY DEF BasisTraces
<1>2. X \subseteq Events
  BY DEF Shape
<1>3. IsFiniteSet(X)
  BY <1>2, FS_Subset
<1> HIDE DEF X
<1>4. f \in Surjection(X, B)
  BY DEF Surjection
<1>5. IsFiniteSet(B)
  <2> HIDE DEF f, B
  <2> QED
    BY <1>3, <1>4, FS_Surjection
<1>6. B \subseteq Trace
  BY <1>2 DEF Trace
<1> QED
  BY <1>1, <1>5, <1>6

\* The coverage a reader sees follows from the times on record.
LEMMA LatestIsExact ==
    ASSUME Shape, Latest
    PROVE  CoverageIsExact
<1> SUFFICES ASSUME NEW c \in Control, NEW now \in Day
             PROVE  LET basis   == BasisTraces(ListControlLibrary[c], now)
                        covered == {t \in basis : \E k \in Credit(c) : k[1].trace = t}
                    IN  /\ Coverage(c, now).pct =
                             Rounded(Cardinality(covered), Cardinality(basis))
                        /\ Coverage(c, now).stale <=>
                             \A k \in Credit(c) : k[1].day < now - StaleDays
                        /\ c \in Undercovered(now) =>
                             Cardinality(covered) * 1000 < MinCoverage * Cardinality(basis)
  BY DEF CoverageIsExact
<1> DEFINE control == ListControlLibrary[c]
           basis   == BasisTraces(control, now)
           covered == {t \in basis : \E k \in Credit(c) : k[1].trace = t}
<1>1. \A k \in Credit(c) : k[1].trace \in Trace /\ k[1].day \in Nat /\ k[1].day > 0
  BY DEF Credit, Shape, Trace, Day
<1>2. basis \subseteq Trace /\ IsFiniteSet(basis)
  BY BasisIsFinite
<1>3. \A t \in Trace : lastSeen[c][t] \in Nat
  BY DEF Shape
<1>4. \A t \in Trace : lastSeen[c][t] > 0 <=> \E k \in Credit(c) : k[1].trace = t
  BY <1>1, <1>3 DEF Latest
<1>5. CoveredTraces(c, control, now) = covered
  BY <1>2, <1>4 DEF CoveredTraces
<1>6. Coverage(c, now).pct = Rounded(Cardinality(covered), Cardinality(basis))
  BY <1>5 DEF Coverage
<1>7. Coverage(c, now).stale <=> \A k \in Credit(c) : k[1].day < now - StaleDays
  <2> DEFINE limit == now - StaleDays
  <2>1. limit \in Int
    BY DEF Day
  <2>2. Coverage(c, now).stale <=>
          \A t \in Trace : lastSeen[c][t] = 0 \/ lastSeen[c][t] < limit
    BY DEF Coverage, Stale
  <2> HIDE DEF limit
  <2>3. ASSUME \A t \in Trace : lastSeen[c][t] = 0 \/ lastSeen[c][t] < limit,
               NEW k \in Credit(c)
        PROVE  k[1].day < limit
    <3>1. k[1].day <= lastSeen[c][k[1].trace] /\ k[1].trace \in Trace
      BY <1>1 DEF Latest
    <3> QED
      BY <1>1, <1>3, <2>1, <2>3, <3>1
  <2>4. ASSUME \A k \in Credit(c) : k[1].day < limit,
               NEW t \in Trace, lastSeen[c][t] # 0
        PROVE  lastSeen[c][t] < limit
    <3>1. lastSeen[c][t] > 0
      BY <1>3, <2>4
    <3> QED
      BY <2>4, <3>1 DEF Latest
  <2> QED
    BY <2>2, <2>3, <2>4 DEF limit
<1>8. ASSUME c \in Undercovered(now)
      PROVE  Cardinality(covered) * 1000 < MinCoverage * Cardinality(basis)
  <2>1. Coverage(c, now).pct # None /\ Coverage(c, now).pct < MinCoverage
    BY <1>8 DEF Undercovered
  <2>2. covered \in SUBSET basis
    OBVIOUS
  <2> HIDE DEF covered, basis
  <2>3. Cardinality(covered) \in Nat /\ Cardinality(basis) \in Nat /\ MinCoverage \in Nat
    BY <1>2, <2>2, FS_Subset, FS_CardinalityType
  <2> QED
    BY <1>6, <2>1, <2>3, RoundedBelow
<1> QED
  BY <1>6, <1>7, <1>8

\* What the recompute raises has a witness among the application's events.
LEMMA RaisedHasWitness ==
    ASSUME NEW s \in RecomputedSignals(OwnEvents, RetiredSince),
           s # "evidence_delivery_not_durable"
    PROVE  \E e \in OwnEvents : Witness(s, e)
BY DEF RecomputedSignals, Witness, Of, Failures

\* Once everything is quiet nobody is waited for: every event has its findings.
LEMMA SettledIsRaised ==
    ASSUME AssessInv
    PROVE  NothingLeftToRaise
<1> SUFFICES ASSUME Quiet, registered, judged = changes, NEW r \in DOMAIN ListRiskRules,
                    ListRiskRules[r].signal # "evidence_delivery_not_durable",
                    ListRiskRules[r].signal \in RecomputedSignals(OwnEvents, RetiredSince)
             PROVE  finding[r] # "none"
  BY DEF NothingLeftToRaise
<1>1. PICK e \in OwnEvents : Witness(ListRiskRules[r].signal, e)
  BY RaisedHasWitness
<1>2. ~Waiting /\ pending = {}
  BY DEF Waiting, Quiet
<1>3. Found(e)
  BY <1>2 DEF AssessInv, Accounted, Settled
<1> QED
  BY <1>1, <1>3 DEF Found

-----------------------------------------------------------------------------
(***************************************************************************)
(* The invariant is inductive.                                             *)
(***************************************************************************)

\* A fresh tenant satisfies it.
LEMMA AssessInit == Init => AssessInv
<1> SUFFICES ASSUME Init
             PROVE  AssessInv
  OBVIOUS
<1>1. Shape
  <2>1. \A u \in UseCases : intake[u].at \in 0..MaxDay
    BY DEF Init
  <2>2. lastSeen \in [Control -> [Trace -> Nat]]
    BY DEF Init
  <2>3. DOMAIN intake = UseCases /\ DOMAIN fold = Fold
    BY DEF Init
  <2>4. finding \in [RuleId -> {"none", "observed", "open"}]
    BY DEF Init
  <2>5. /\ stored = {} /\ pending = {} /\ registered = FALSE /\ credited = {}
        /\ changes = 0 /\ judged = 0 /\ workload \in Workload
    BY DEF Init
  <2> QED
    BY <2>1, <2>2, <2>3, <2>4, <2>5 DEF Shape
<1>2. \A w \in Fold : fold[w].phase = "idle" /\ fold[w].batch = {}
  BY DEF Init, Idle
<1>3. Jobs /\ Unregistered
  BY <1>2 DEF Init, Jobs, JobAt, Unregistered, Assessing
<1>4. Accounted
  BY <1>2 DEF Init, Accounted, OwnEvents, Assessing
<1>5. Latest
  BY DEF Init, Latest, Credit
<1> QED
  BY <1>1, <1>3, <1>4, <1>5 DEF AssessInv

\* Configuration reads of a fold are those of the state it is in.
ConfigSame == UNCHANGED <<rules, intake, changes>>

\* The library and the retirement only change with the configuration.
LEMMA ConfigFrame ==
    ASSUME ConfigSame
    PROVE  ListRiskRules' = ListRiskRules /\ RetiredSince' = RetiredSince
BY DEF ConfigSame, ListRiskRules, RuleOf, RetiredSince

\* A finding that has a row keeps one.
FindingsStay == \A r \in RuleId : finding[r] # "none" => finding'[r] # "none"

\* As the store grows a signal loses witnesses at most, and findings stay: an event
\* that has its findings keeps them as long as the configuration does not change.
LEMMA FoundStays ==
    ASSUME ConfigSame, FindingsStay, stored \subseteq stored', NEW e, Found(e)
    PROVE  Found(e)'
<1>1. ListRiskRules' = ListRiskRules /\ RetiredSince' = RetiredSince
  BY ConfigFrame
<1>2. OwnEvents \subseteq OwnEvents'
  BY DEF OwnEvents
<1>3. \A s : Witness(s, e)' => Witness(s, e)
  BY <1>1, <1>2 DEF Witness, Of
<1>4. DOMAIN ListRiskRules \subseteq RuleId
  BY DEF ListRiskRules
<1> QED
  BY <1>1, <1>3, <1>4 DEF Found, FindingsStay

\* A step of the configuration settles everything: the next fold to know of it is
\* still to come, and will read every row stored by then.
LEMMA ChangeSettles ==
    ASSUME Shape, Jobs, changes' = changes + 1, UNCHANGED <<fold, judged>>, NEW e
    PROVE  Settled(e)'
<1>1. judged' # changes'
  BY DEF Shape
<1>2. \A w \in Fold : Assessing(w) => fold[w].changes # changes'
  BY DEF Shape, Jobs, JobAt
<1>3. Waiting' /\ Read(e)'
  BY <1>1, <1>2 DEF Waiting, Read, Assessing
<1> QED
  BY <1>3 DEF Settled

\* Nor does anything else take back that an event is settled, unless nobody is
\* waited for any more.
LEMMA SettledStays ==
    ASSUME ConfigSame, FindingsStay, stored \subseteq stored', Waiting => Waiting',
           NEW e, Settled(e), Read(e) => Read(e)'
    PROVE  Settled(e)'
BY FoundStays DEF Settled

\* A fold that does not move still holds stored rows and current knowledge.
LEMMA JobFrame ==
    ASSUME ConfigSame, stored \subseteq stored', registered => registered',
           NEW v, JobAt(v), fold'[v] = fold[v]
    PROVE  JobAt(v)'
BY ConfigFrame DEF ConfigSame, JobAt, Assessing

\* insert_events: new rows are pending, and no witness is gained by old ones.
LEMMA IngestStep ==
    ASSUME AssessInv, NEW events \in SUBSET workload, Ingest(events)
    PROVE  AssessInv'
<1>1. /\ stored \subseteq stored' /\ pending \subseteq pending' /\ ConfigSame
      /\ stored' = stored \cup events /\ pending' = pending \cup events
      /\ events \subseteq Events
      /\ UNCHANGED <<workload, registered, finding, lastSeen, credited, judged, fold>>
  BY DEF Ingest, config_vars, result_vars, ConfigSame, Events, AssessInv, Shape
<1>2. Shape'
  BY <1>1 DEF AssessInv, Shape, ConfigSame
<1>3. Jobs'
  BY <1>1, JobFrame DEF AssessInv, Jobs
<1>4. Unregistered'
  BY <1>1 DEF AssessInv, Unregistered, Assessing
<1>5. FindingsStay /\ (Waiting => Waiting')
  BY <1>1 DEF FindingsStay, Waiting, ConfigSame
<1>6. \A e : Read(e) => Read(e)'
  BY <1>1 DEF Read, Assessing, ConfigSame
<1>7. \A e : Settled(e) => Settled(e)'
  BY <1>1, <1>5, <1>6, SettledStays
<1>8. \A e \in OwnEvents' : e \in OwnEvents \/ e \in pending'
  BY <1>1 DEF OwnEvents
<1>9. Accounted'
  BY <1>1, <1>7, <1>8 DEF AssessInv, Accounted, Assessing, ConfigSame
<1>10. Latest'
  BY <1>1 DEF AssessInv, Latest, Credit
<1> QED
  BY <1>2, <1>3, <1>4, <1>9, <1>10 DEF AssessInv

\* The claim and process_events: the event that registers the application is
\* pending, and in nobody's hands before.
LEMMA ClaimStep ==
    ASSUME AssessInv, NEW w \in Fold, Claim(w)
    PROVE  AssessInv'
<1>1. /\ ConfigSame
      /\ UNCHANGED <<workload, stored, pending, finding, lastSeen, credited, judged>>
  BY DEF Claim, config_vars, result_vars, ConfigSame
<1>2. /\ fold'[w].phase = "claimed" /\ fold'[w].batch = pending
      /\ \A v \in Fold \ {w} : fold'[v] = fold[v]
      /\ DOMAIN fold' = Fold
  BY DEF Claim, AssessInv, Shape
<1>3. /\ registered => registered'
      /\ registered' => registered \/ \E e \in pending : Registers(e)
      /\ ~registered' => \A e \in pending : ~Registers(e)
  BY DEF Claim
<1>4. Shape'
  BY <1>1, <1>2 DEF AssessInv, Shape, ConfigSame
<1>5. Jobs'
  <2>1. JobAt(w)'
    BY <1>1, <1>2 DEF AssessInv, Shape, JobAt, Assessing
  <2>2. \A v \in Fold \ {w} : JobAt(v)'
    BY <1>1, <1>2, <1>3, JobFrame DEF AssessInv, Jobs
  <2> QED
    BY <2>1, <2>2 DEF Jobs
<1>6. Unregistered'
  BY <1>1, <1>2, <1>3 DEF AssessInv, Unregistered, Assessing
<1>7. FindingsStay
  BY <1>1 DEF FindingsStay
<1>8. Waiting => Waiting'
  <2>1. CASE judged # changes
    BY <1>1, <2>1 DEF Waiting, ConfigSame
  <2>2. CASE changes = 0 /\ ~registered
    BY <1>1, <1>2, <1>3, <2>2 DEF Waiting, ConfigSame, AssessInv, Unregistered
  <2>3. CASE changes = 0 /\ \E e \in pending :
               /\ Registers(e)
               /\ \A v \in Fold : fold[v].phase = "mark" => e \notin fold[v].batch
    BY <1>1, <1>2, <2>3 DEF Waiting, ConfigSame
  <2> QED
    BY <2>1, <2>2, <2>3 DEF Waiting
<1>9. \A e : Read(e) => Read(e)'
  BY <1>1, <1>2 DEF Read, Assessing, ConfigSame
<1>10. \A e : Settled(e) => Settled(e)'
  BY <1>1, <1>7, <1>8, <1>9, SettledStays
<1>11. Accounted'
  BY <1>1, <1>2, <1>10 DEF AssessInv, Accounted, OwnEvents, Assessing, ConfigSame
<1>12. Latest'
  BY <1>1 DEF AssessInv, Latest, Credit
<1> QED
  BY <1>4, <1>5, <1>6, <1>11, <1>12 DEF AssessInv

\* A fold that fails or dies leaves its rows as they are.
LEMMA AbandonStep ==
    ASSUME AssessInv, NEW w \in Fold, Abandon(w)
    PROVE  AssessInv'
<1>1. /\ ConfigSame
      /\ UNCHANGED <<workload, stored, pending, registered, finding, lastSeen, credited,
                     judged>>
  BY DEF Abandon, config_vars, result_vars, ConfigSame
<1>2. /\ fold'[w].phase = "idle" /\ fold'[w].batch = {}
      /\ \A v \in Fold \ {w} : fold'[v] = fold[v]
      /\ DOMAIN fold' = Fold
  BY DEF Abandon, AssessInv, Shape, Idle
<1>3. Shape'
  BY <1>1, <1>2 DEF AssessInv, Shape, ConfigSame
<1>4. Jobs'
  <2>1. JobAt(w)'
    BY <1>2 DEF JobAt, Assessing
  <2>2. \A v \in Fold \ {w} : JobAt(v)'
    BY <1>1, <1>2, JobFrame DEF AssessInv, Jobs
  <2> QED
    BY <2>1, <2>2 DEF Jobs
<1>5. Unregistered'
  BY <1>1, <1>2 DEF AssessInv, Unregistered, Assessing
<1>6. FindingsStay /\ (Waiting => Waiting') /\ \A e : Read(e) => Read(e)'
  BY <1>1, <1>2 DEF FindingsStay, Waiting, Read, Assessing, ConfigSame
<1>7. \A e : Settled(e) => Settled(e)'
  BY <1>1, <1>6, SettledStays
<1>8. Accounted'
  BY <1>1, <1>2, <1>7 DEF AssessInv, Accounted, OwnEvents, Assessing, ConfigSame
<1>9. Latest'
  BY <1>1 DEF AssessInv, Latest, Credit
<1> QED
  BY <1>3, <1>4, <1>5, <1>8, <1>9 DEF AssessInv

\* mark_folded: what leaves the pending set is settled.
LEMMA MarkStep ==
    ASSUME AssessInv, NEW w \in Fold, MarkFolded(w)
    PROVE  AssessInv'
<1>1. /\ ConfigSame /\ pending' = pending \ fold[w].batch /\ fold[w].phase = "mark"
      /\ UNCHANGED <<workload, stored, registered, finding, lastSeen, credited, judged>>
  BY DEF MarkFolded, config_vars, result_vars, ConfigSame
<1>2. /\ fold'[w].phase = "idle" /\ fold'[w].batch = {}
      /\ \A v \in Fold \ {w} : fold'[v] = fold[v]
      /\ DOMAIN fold' = Fold
  BY DEF MarkFolded, AssessInv, Shape, Idle
<1>3. Shape'
  BY <1>1, <1>2 DEF AssessInv, Shape, ConfigSame
<1>4. Jobs'
  <2>1. JobAt(w)'
    BY <1>2 DEF JobAt, Assessing
  <2>2. \A v \in Fold \ {w} : JobAt(v)'
    BY <1>1, <1>2, JobFrame DEF AssessInv, Jobs
  <2> QED
    BY <2>1, <2>2 DEF Jobs
<1>5. Unregistered'
  BY <1>1, <1>2 DEF AssessInv, Unregistered, Assessing
<1>6. FindingsStay /\ (Waiting => Waiting') /\ \A e : Read(e) => Read(e)'
  BY <1>1, <1>2 DEF FindingsStay, Waiting, Read, Assessing, ConfigSame
<1>7. \A e : Settled(e) => Settled(e)'
  BY <1>1, <1>6, SettledStays
<1>8. \A e \in fold[w].batch : e.named => Settled(e)
  BY <1>1 DEF AssessInv, Accounted
<1>9. Accounted'
  BY <1>1, <1>2, <1>7, <1>8 DEF AssessInv, Accounted, OwnEvents, Assessing, ConfigSame
<1>10. Latest'
  BY <1>1 DEF AssessInv, Latest, Credit
<1> QED
  BY <1>3, <1>4, <1>5, <1>9, <1>10 DEF AssessInv

\* fold_batch_assessments up to its first write.  A fold that has something to
\* assess now knows every stored row; one that has not, because the application is
\* not registered, leaves its rows to the fold that registers it.
LEMMA ReadStep ==
    ASSUME AssessInv, NEW w \in Fold, AssessRead(w)
    PROVE  AssessInv'
<1> DEFINE named == {e \in fold[w].batch : e.named}
<1>1. /\ ConfigSame /\ fold[w].phase = "claimed"
      /\ UNCHANGED <<workload, stored, pending, registered, finding, lastSeen, credited,
                     judged>>
  BY DEF AssessRead, config_vars, result_vars, ConfigSame
<1>2. /\ \A v \in Fold \ {w} : fold'[v] = fold[v]
      /\ DOMAIN fold' = Fold
  BY DEF AssessRead, AssessInv, Shape
<1>3. Shape'
  BY <1>1, <1>2 DEF AssessInv, Shape, ConfigSame
<1>4. \A v \in Fold \ {w} : JobAt(v)'
  BY <1>1, <1>2, JobFrame DEF AssessInv, Jobs
<1>5. FindingsStay /\ Latest'
  BY <1>1 DEF FindingsStay, AssessInv, Latest, Credit
<1>6. fold[w].batch \subseteq stored /\ pending \subseteq stored
  BY DEF AssessInv, Jobs, JobAt, Shape
<1>7. CASE registered /\ named # {}
  <2>1. fold'[w] = [phase |-> "assessing", batch |-> fold[w].batch, named |-> named,
                    rules |-> ListRiskRules, controls |-> ListControlLibrary,
                    known |-> assessment, events |-> stored, since |-> RetiredSince,
                    changes |-> changes]
    BY <1>7 DEF AssessRead, AssessInv, Shape
  <2>2. /\ fold'[w].phase = "assessing" /\ fold'[w].batch = fold[w].batch
        /\ fold'[w].named = named /\ fold'[w].events = stored
        /\ fold'[w].changes = changes /\ fold'[w].rules = ListRiskRules
        /\ fold'[w].since = RetiredSince
    BY <2>1
  <2>3. JobAt(w)'
    BY <1>1, <1>6, <1>7, <2>2, ConfigFrame DEF JobAt, Assessing, ConfigSame, AssessInv, Shape
  <2>4. Jobs' /\ Unregistered'
    BY <1>1, <1>4, <1>7, <2>3 DEF Jobs, Unregistered
  <2>5. Waiting => Waiting'
    BY <1>1, <1>2, <2>2 DEF Waiting, ConfigSame
  <2>6. \A e \in stored : Read(e) => Read(e)'
    BY <1>1, <1>2, <2>2 DEF Read, Assessing, ConfigSame
  <2>7. \A e \in stored : Settled(e) => Settled(e)'
    BY <1>1, <1>5, <2>5, <2>6, SettledStays
  <2>8. \A v \in Fold : fold[v].batch \subseteq stored /\ (Assessing(v) => fold[v].events \subseteq stored)
    BY DEF AssessInv, Jobs, JobAt
  <2>9. Accounted'
    BY <1>1, <1>2, <1>6, <2>2, <2>7, <2>8
       DEF AssessInv, Accounted, OwnEvents, Assessing, ConfigSame
  <2> QED
    BY <1>3, <1>5, <2>4, <2>9 DEF AssessInv
<1>8. CASE ~(registered /\ named # {})
  <2>1. fold'[w] = [phase |-> "mark", batch |-> fold[w].batch]
    BY <1>8 DEF AssessRead, AssessInv, Shape
  <2>2. fold'[w].phase = "mark" /\ fold'[w].batch = fold[w].batch
    BY <2>1
  <2>3. Jobs'
    BY <1>1, <1>4, <1>6, <2>2 DEF Jobs, JobAt, Assessing
  <2>4. Unregistered'
    BY <1>1, <1>2, <2>2 DEF AssessInv, Unregistered, Assessing
  <2>5. Waiting => Waiting'
    <3>1. CASE judged # changes
      BY <1>1, <3>1 DEF Waiting, ConfigSame
    <3>2. CASE changes = 0 /\ ~registered
      BY <1>1, <3>2 DEF Waiting, ConfigSame
    <3>3. CASE registered
      <4>1. named = {}
        BY <1>8, <3>3
      <4> QED
        BY <1>1, <1>2, <2>2, <3>3, <4>1 DEF Waiting, Registers, ConfigSame
    <3> QED
      BY <3>1, <3>2, <3>3 DEF Waiting
  <2>6. \A e : Read(e) => Read(e)'
    BY <1>1, <1>2, <2>2 DEF Read, Assessing, ConfigSame
  <2>7. \A e : Settled(e) => Settled(e)'
    BY <1>1, <1>5, <2>5, <2>6, SettledStays
  <2>8. \A e \in fold[w].batch : e.named => Settled(e)
    <3>1. CASE registered
      BY <1>8, <3>1
    <3>2. CASE ~registered
      <4>1. Waiting
        BY <3>2 DEF AssessInv, Unregistered, Waiting
      <4>2. \A e : Read(e)
        BY <3>2 DEF AssessInv, Unregistered, Read
      <4> QED
        BY <4>1, <4>2 DEF Settled
    <3> QED
      BY <3>1, <3>2
  <2>9. Accounted'
    BY <1>1, <1>2, <2>2, <2>7, <2>8 DEF AssessInv, Accounted, OwnEvents, Assessing, ConfigSame
  <2> QED
    BY <1>3, <1>5, <2>3, <2>4, <2>9 DEF AssessInv
<1> QED
  BY <1>7, <1>8

\* What a fold knows at its first write covers what it read, and no more than is
\* stored; under a configuration it knows, it judges retirement as it stands.
LEMMA KnownCoversRead ==
    ASSUME AssessInv, NEW w \in Fold, Assessing(w), NEW k \in Known(w)
    PROVE  /\ fold[w].events \subseteq k.events /\ k.events \subseteq stored
           /\ fold[w].changes = changes => k.since = RetiredSince
<1>1. /\ fold[w].events \subseteq stored
      /\ fold[w].changes = changes => fold[w].since = RetiredSince
  BY DEF AssessInv, Jobs, JobAt
<1>2. \/ k.events = stored /\ k.since = RetiredSince
      \/ k.events = fold[w].events /\ k.since = fold[w].since
  BY DEF Known
<1> QED
  BY <1>1, <1>2

\* The first write of a fold.  One that knows the current configuration leaves no
\* event it read without its findings, and everybody waited for it; one that does
\* not, holds rows that somebody else answers for.
LEMMA WriteStep ==
    ASSUME AssessInv, NEW w \in Fold, AssessWrite(w)
    PROVE  AssessInv'
<1> DEFINE f == fold[w]
<1>1. /\ ConfigSame /\ Assessing(w)
      /\ UNCHANGED <<workload, stored, pending, registered>>
      /\ judged' = DayMax(judged, f.changes)
      /\ lastSeen' = RecordControlEvidence(f.controls, f.named)
      /\ credited' = credited \cup
           {k \in f.named \X Control : Qualifies(k[1], f.controls[k[2]])}
  BY DEF AssessWrite, config_vars, ConfigSame, Assessing
<1>2. /\ fold'[w].phase = "mark" /\ fold'[w].batch = f.batch
      /\ \A v \in Fold \ {w} : fold'[v] = fold[v]
      /\ DOMAIN fold' = Fold
  BY DEF AssessWrite, AssessInv, Shape
<1>3. PICK k \in Known(w) :
        finding' = WriteRuleFindings(f.rules, FoldedSignals(k.events, k.since, f.named))
  BY DEF AssessWrite
<1>4. /\ registered /\ f.named = {e \in f.batch : e.named}
      /\ f.batch \subseteq f.events /\ f.events \subseteq stored
      /\ f.changes \in 0..changes
      /\ f.changes = changes => f.rules = ListRiskRules
  BY <1>1 DEF AssessInv, Jobs, JobAt
<1>5. changes \in Nat /\ judged \in 0..changes /\ stored \subseteq Events
  BY DEF AssessInv, Shape
<1>6. f.named \subseteq stored /\ f.named \in SUBSET Events
  BY <1>4, <1>5
<1>7. judged' \in 0..changes
  BY <1>1, <1>4, <1>5 DEF DayMax
<1>8. FindingsStay /\ finding' \in [RuleId -> {"none", "observed", "open"}]
  BY <1>3 DEF WriteRuleFindings, FindingsStay, AssessInv, Shape
<1>9. Shape'
  <2>1. lastSeen' \in [Control -> [Trace -> Nat]]
    <3>1. \A c \in Control, t \in Trace :
            RecordControlEvidence(f.controls, f.named)[c][t] \in Nat
      BY <1>6, RecordsLatest DEF AssessInv
    <3> QED
      BY <1>1, <3>1 DEF RecordControlEvidence
  <2>2. credited' \subseteq stored' \X Control
    BY <1>1, <1>6 DEF AssessInv, Shape
  <2> QED
    BY <1>1, <1>2, <1>7, <1>8, <2>1, <2>2 DEF AssessInv, Shape, ConfigSame
<1>10. Jobs'
  <2>1. JobAt(w)'
    BY <1>1, <1>2, <1>4 DEF JobAt, Assessing
  <2>2. \A v \in Fold \ {w} : JobAt(v)'
    BY <1>1, <1>2, JobFrame DEF AssessInv, Jobs
  <2> QED
    BY <2>1, <2>2 DEF Jobs
<1>11. Unregistered'
  BY <1>1, <1>4 DEF Unregistered
<1>12. Latest'
  <2> SUFFICES ASSUME NEW c \in Control, NEW t \in Trace
               PROVE  /\ \A x \in Credit(c)' : x[1].trace = t => x[1].day <= lastSeen'[c][t]
                      /\ lastSeen'[c][t] > 0 =>
                           \E x \in Credit(c)' : x[1].trace = t /\ x[1].day = lastSeen'[c][t]
    BY DEF Latest
  <2> DEFINE new == lastSeen'[c][t]
             evident == {e \in Evidence(f.named, f.controls[c]) : e.trace = t}
  <2>1. /\ new \in Nat /\ new >= lastSeen[c][t]
        /\ \A e \in evident : e.day <= new
        /\ new = lastSeen[c][t] \/ \E e \in evident : e.day = new
    BY <1>1, <1>6, RecordsLatest DEF AssessInv
  <2>2. lastSeen[c][t] \in Nat
    BY DEF AssessInv, Shape
  <2>3. /\ \A x \in Credit(c) : x[1].trace = t => x[1].day <= lastSeen[c][t]
        /\ lastSeen[c][t] > 0 =>
             \E x \in Credit(c) : x[1].trace = t /\ x[1].day = lastSeen[c][t]
    BY DEF AssessInv, Latest
  <2>4. \A x \in Credit(c) : x[1].day \in Nat
    BY DEF Credit, AssessInv, Shape, Day
  <2>5. Credit(c) \subseteq Credit(c)'
    BY <1>1 DEF Credit
  <2>6. \A x \in Credit(c)' : x \in Credit(c) \/ (x[1].trace = t => x[1] \in evident)
    BY <1>1 DEF Credit, Evidence
  <2>7. \A e \in evident : <<e, c>> \in Credit(c)'
    BY <1>1 DEF Credit, Evidence
  <2>8. \A e \in evident : e.trace = t
    OBVIOUS
  <2> HIDE DEF new, evident
  <2>9. \A x \in Credit(c)' : x[1].trace = t => x[1].day <= new
    BY <2>1, <2>2, <2>3, <2>4, <2>6
  <2>10. ASSUME new > 0
         PROVE  \E x \in Credit(c)' : x[1].trace = t /\ x[1].day = new
    <3>1. CASE new = lastSeen[c][t]
      BY <2>3, <2>5, <2>10, <3>1
    <3>2. ASSUME NEW e \in evident, e.day = new
          PROVE  \E x \in Credit(c)' : x[1].trace = t /\ x[1].day = new
      BY <2>7, <2>8, <3>2
    <3> QED
      BY <2>1, <3>1, <3>2
  <2> QED
    BY <2>9, <2>10 DEF new
<1>13. Accounted'
  <2>1. CASE f.changes = changes
    <3>1. ASSUME NEW e \in f.events, e.named
          PROVE  Found(e)'
      <4>1. ListRiskRules' = ListRiskRules /\ RetiredSince' = RetiredSince
        BY <1>1, ConfigFrame
      <4>2. /\ e \in k.events /\ k.events \in SUBSET stored /\ k.since = RetiredSince
            /\ f.rules = ListRiskRules
        BY <1>1, <1>4, <2>1, KnownCoversRead
      <4>3. \A s : Witness(s, e) => s \in FoldedSignals(k.events, k.since, f.named)
        BY <3>1, <4>2, FoldRaisesWitnessed DEF AssessInv
      <4>4. \A s : Witness(s, e)' => Witness(s, e)
        BY <1>1, <4>1 DEF Witness, OwnEvents, Of
      <4>5. DOMAIN ListRiskRules \subseteq RuleId
        BY DEF ListRiskRules
      <4>6. \A r \in DOMAIN ListRiskRules :
              ListRiskRules[r].signal \in FoldedSignals(k.events, k.since, f.named)
                => finding'[r] # "none"
        BY <1>3, <4>2, <4>5 DEF WriteRuleFindings
      <4> QED
        BY <4>1, <4>3, <4>4, <4>6 DEF Found
    <3>2. ASSUME NEW e, e.named, Settled(e)
          PROVE  Found(e)'
      <4>1. CASE Found(e)
        BY <1>1, <1>8, <4>1, FoundStays
      <4>2. CASE Read(e)
        BY <1>1, <2>1, <3>1, <3>2, <4>2 DEF Read
      <4> QED
        BY <3>2, <4>1, <4>2 DEF Settled
    <3>3. \A e : Found(e)' => Settled(e)'
      BY DEF Settled
    <3> QED
      BY <1>1, <1>2, <1>4, <3>1, <3>2, <3>3
         DEF AssessInv, Accounted, OwnEvents, Assessing, ConfigSame
  <2>2. CASE f.changes # changes
    <3>1. changes # 0 /\ (judged # changes => judged' # changes)
      BY <1>1, <1>4, <1>5, <2>2 DEF DayMax
    <3>2. Waiting => Waiting'
      BY <1>1, <3>1 DEF Waiting, ConfigSame
    <3>3. \A e : Read(e) => Read(e)'
      BY <1>1, <1>2 DEF Read, Assessing, ConfigSame
    <3>4. \A e : Settled(e) => Settled(e)'
      BY <1>1, <1>8, <3>2, <3>3, SettledStays
    <3>5. \A e \in f.events : e.named => Settled(e)
      BY <1>1, <2>2 DEF AssessInv, Accounted
    <3> QED
      BY <1>1, <1>2, <1>4, <3>4, <3>5
         DEF AssessInv, Accounted, OwnEvents, Assessing, ConfigSame
  <2> QED
    BY <2>1, <2>2
<1> QED
  BY <1>9, <1>10, <1>11, <1>12, <1>13 DEF AssessInv

\* A change of a rule, a control or an intake record: every row is settled until
\* somebody folds with it in mind.
LEMMA ConfigureStep ==
    ASSUME AssessInv,
           changes' = changes + 1,
           UNCHANGED <<workload, stored, pending, registered, lastSeen, credited, judged,
                       fold>>,
           finding' \in [RuleId -> {"none", "observed", "open"}],
           DOMAIN intake' = UseCases,
           \A u \in UseCases : intake'[u].at \in 0..MaxDay
    PROVE  AssessInv'
<1>1. \A e : Settled(e)'
  BY ChangeSettles DEF AssessInv
<1>2. changes \in Nat /\ judged \in 0..changes
  BY DEF AssessInv, Shape
<1>3. Shape'
  BY <1>2 DEF AssessInv, Shape
<1>4. Jobs'
  <2>1. \A w \in Fold : JobAt(w)
    BY DEF AssessInv, Jobs
  <2>2. \A n \in 0..changes : n \in 0..(changes + 1) /\ n # changes + 1
    BY <1>2
  <2> QED
    BY <2>1, <2>2 DEF Jobs, JobAt, Assessing
<1>5. Unregistered' /\ Latest'
  BY DEF AssessInv, Unregistered, Assessing, Latest, Credit
<1>6. Accounted'
  BY <1>1 DEF Accounted
<1> QED
  BY <1>3, <1>4, <1>5, <1>6 DEF AssessInv

\* Every step of a fold, of ingest and of the configuration keeps the invariant.
LEMMA AssessStep == AssessInv /\ [Next]_vars => AssessInv'
<1> SUFFICES ASSUME AssessInv, [Next]_vars
             PROVE  AssessInv'
  OBVIOUS
<1>1. ASSUME NEW events \in SUBSET workload, Ingest(events)
      PROVE  AssessInv'
  BY <1>1, IngestStep
<1>2. ASSUME NEW w \in Fold,
             Claim(w) \/ AssessRead(w) \/ AssessWrite(w) \/ MarkFolded(w) \/ Abandon(w)
      PROVE  AssessInv'
  BY <1>2, ClaimStep, ReadStep, WriteStep, MarkStep, AbandonStep
<1>3. /\ finding \in [RuleId -> {"none", "observed", "open"}]
      /\ DOMAIN intake = UseCases /\ \A u \in UseCases : intake[u].at \in 0..MaxDay
  BY DEF AssessInv, Shape
<1>4. CASE ConfigureRiskRule
  <2>1. finding' \in [RuleId -> {"none", "observed", "open"}]
    BY <1>3, <1>4 DEF ConfigureRiskRule, UpsertRiskRule
  <2> QED
    BY <1>3, <1>4, <2>1, ConfigureStep DEF ConfigureRiskRule
<1>5. CASE ConfigureControl
  BY <1>3, <1>5, ConfigureStep DEF ConfigureControl, result_vars
<1>6. ASSUME NEW u \in UseCases, NEW day \in Day, ChangeUseCase(u, day)
      PROVE  AssessInv'
  <2>1. DOMAIN intake' = UseCases /\ \A v \in UseCases : intake'[v].at \in 0..MaxDay
    BY <1>3, <1>6 DEF ChangeUseCase, Day
  <2> QED
    BY <1>3, <1>6, <2>1, ConfigureStep DEF ChangeUseCase, result_vars
<1>7. CASE UNCHANGED vars
  <2>1. /\ ConfigSame
        /\ UNCHANGED <<workload, stored, pending, registered, finding, lastSeen,
                       credited, judged, fold>>
    BY <1>7 DEF vars, config_vars, result_vars, ConfigSame
  <2>2. Shape' /\ Unregistered' /\ Latest'
    BY <2>1 DEF AssessInv, Shape, Unregistered, Assessing, Latest, Credit, ConfigSame
  <2>3. Jobs'
    BY <2>1, JobFrame DEF AssessInv, Jobs
  <2>4. FindingsStay /\ (Waiting => Waiting') /\ \A e : Read(e) => Read(e)'
    BY <2>1 DEF FindingsStay, Waiting, Read, Assessing, ConfigSame
  <2>5. \A e : Settled(e) => Settled(e)'
    BY <2>1, <2>4, SettledStays
  <2>6. Accounted'
    BY <2>1, <2>5 DEF AssessInv, Accounted, OwnEvents, Assessing, ConfigSame
  <2> QED
    BY <2>2, <2>3, <2>6 DEF AssessInv
<1> QED
  BY <1>1, <1>2, <1>4, <1>5, <1>6, <1>7 DEF Next

\* The accounts of who answers for each row, and the latest time on record of each
\* control's evidence, hold throughout.
THEOREM AssessInvariant == Spec => []AssessInv
<1>1. Init => AssessInv
  BY AssessInit
<1>2. AssessInv /\ [Next]_vars => AssessInv'
  BY AssessStep
<1> QED
  BY <1>1, <1>2, PTL DEF Spec

\* An incremental fold misses nothing: once every row of a registered application
\* is folded, by whatever overlapping, failed and repeated folds, and one of them
\* knew the current rules, the recompute over all history would raise no rule that
\* has no finding yet (fold_batch_assessments, assess_risk_rules).
THEOREM NoFindingMissed == Spec => []NothingLeftToRaise
<1>1. AssessInv => NothingLeftToRaise
  BY SettledIsRaised
<1> QED
  BY <1>1, AssessInvariant, PTL

\* Coverage, staleness and the controls a gate counts as short are exactly what the
\* assessed evidence says (record_control_evidence, control_coverage).
THEOREM CoverageAlwaysExact == Spec => []CoverageIsExact
<1>1. AssessInv => CoverageIsExact
  BY LatestIsExact DEF AssessInv
<1> QED
  BY <1>1, AssessInvariant, PTL

=============================================================================
