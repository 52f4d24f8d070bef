--------------------------- MODULE PolicyDocument ---------------------------
(***************************************************************************)
(* The governance policy document: how it is validated, how the resolvers  *)
(* read it over the platform default, and when one document loosens        *)
(* another (apps/platform/app/storage/policy_engine.py).                   *)
(*                                                                         *)
(* A section a document may leave out is a function whose domain holds the *)
(* keys it declares, so "the document's entry, else the default's" is      *)
(* body.section @@ DefaultBody.section.  A period that is not set is       *)
(* Never.  Labels, JSON shapes and unknown keys are left out.              *)
(***************************************************************************)
EXTENDS Integers, Sequences, SequencesExt, FiniteSets

CONSTANTS
    OrgRole,       \* roles of role_permissions
    Reviewer,      \* governance_reviewer, the role of the shipped default
    Permission,    \* permissions a role can hold
    Decide,        \* review.decide, which every stage role must hold
    Environment,   \* environments a gate can be for
    AnyEnv,        \* the document key '*'
    Field          \* keys of custom intake fields

Tier == {"limited", "elevated", "high"}

Never == 0

MaxStagesPerSubject == 10
MaxIntakeFields == 20
RecertifyDays == 30..3650
MaterialChangeCeiling == 0
CoverageWindowCeiling == 30
StaleAfterCeiling == 90
DefaultCoverageWindow == 7
DefaultStaleAfter == 30

OneReview == [stages |-> <<Reviewer>>, mode |-> "sequence", recertify |-> Never]

DefaultBody ==
    [tiers    |-> [t \in Tier |-> OneReview],
     fields   |-> [s \in {"fields"} |-> [k \in {} |-> {}]],
     gates    |-> [e \in {AnyEnv} |-> [attested |-> FALSE, changes |-> 0, coverage |-> 0]],
     vendors  |-> [s \in {"vendors"} |-> [stages |-> <<Reviewer>>, recertify |-> 365]],
     evidence |-> [s \in {} |-> 0]]

-----------------------------------------------------------------------------
(* Validation against the permissions each role holds.                     *)

ValidStages(stages, grants) ==
    /\ stages # <<>> /\ Len(stages) <= MaxStagesPerSubject
    /\ \A i \in DOMAIN stages : stages[i] \in OrgRole /\ Decide \in grants[stages[i]]

ValidRecertify(days) == days = Never \/ days \in RecertifyDays

ValidFields(fields) ==
    /\ Cardinality(DOMAIN fields) <= MaxIntakeFields
    /\ \A k \in DOMAIN fields : k \in Field /\ fields[k] \subseteq Tier

ValidIntake(body, grants) ==
    /\ \A t \in DOMAIN body.tiers :
         /\ t \in Tier
         /\ ValidStages(body.tiers[t].stages, grants)
         /\ body.tiers[t].mode \in {"sequence", "parallel"}
         /\ ValidRecertify(body.tiers[t].recertify)
    /\ \A s \in DOMAIN body.fields : ValidFields(body.fields[s])

ValidGates(gates) ==
    \A e \in DOMAIN gates :
        /\ gates[e].coverage \in 0..100
        /\ gates[e].changes \in 0..MaterialChangeCeiling

ValidVendors(vendors, grants) ==
    \A s \in DOMAIN vendors :
        ValidStages(vendors[s].stages, grants) /\ ValidRecertify(vendors[s].recertify)

ValidEvidence(evidence) ==
    \A s \in DOMAIN evidence :
        evidence[s] \in 1..(IF s = "window" THEN CoverageWindowCeiling ELSE StaleAfterCeiling)

ValidPolicyBody(body, grants) ==
    /\ ValidIntake(body, grants)
    /\ ValidGates(body.gates)
    /\ ValidVendors(body.vendors, grants)
    /\ ValidEvidence(body.evidence)

-----------------------------------------------------------------------------
(* What a document resolves to, with the platform default behind it.       *)

Over(f, g) == [x \in DOMAIN f \cup DOMAIN g |-> IF x \in DOMAIN f THEN f[x] ELSE g[x]]

TierEntry(body, tier) ==
    Over(Over(body.tiers, DefaultBody.tiers), [t \in Tier |-> OneReview])[tier]

VendorEntry(body) == Over(body.vendors, DefaultBody.vendors)["vendors"]

NoGate == [attested |-> FALSE, changes |-> 0, coverage |-> 0]

GateEntry(body, env) ==
    LET InDocument(gates) == Over(gates, IF AnyEnv \in DOMAIN gates
                                           THEN [e \in {env} |-> gates[AnyEnv]]
                                           ELSE [e \in {} |-> NoGate])
    IN  Over(Over(InDocument(body.gates), InDocument(DefaultBody.gates)),
             [e \in {env} |-> NoGate])[env]

EvidenceSettings(body) ==
    Over(Over(body.evidence, DefaultBody.evidence),
         [s \in {"window", "stale"} |->
             IF s = "window" THEN DefaultCoverageWindow ELSE DefaultStaleAfter])

IntakeFields(body) == Over(body.fields, DefaultBody.fields)["fields"]

\* The values submitted for the declared fields, as the set of keys given a
\* well-typed value.
ValidFieldValues(fields, given, tier) ==
    /\ given \subseteq DOMAIN fields
    /\ \A k \in DOMAIN fields : tier \in fields[k] => k \in given

-----------------------------------------------------------------------------
(* When a new document is less strict than the one in force.               *)

\* Taking every old role in turn out of the list of new roles fails where the
\* old stages name a role more often than the new ones do.
Times(role, stages) == Cardinality({i \in DOMAIN stages : stages[i] = role})

StagesLoosened(old, new) ==
    \E i \in DOMAIN old.stages :
        Times(old.stages[i], old.stages) > Times(old.stages[i], new.stages)

RecertifyLoosened(old, new) ==
    old.recertify # Never /\ (new.recertify = Never \/ new.recertify > old.recertify)

\* As PolicyLoosening, comparing only the environments the old document names.
LooseningOldKeys(old, new) ==
    \/ \E t \in Tier : \/ StagesLoosened(TierEntry(old, t), TierEntry(new, t))
                       \/ RecertifyLoosened(TierEntry(old, t), TierEntry(new, t))
    \/ StagesLoosened(VendorEntry(old), VendorEntry(new))
    \/ RecertifyLoosened(VendorEntry(old), VendorEntry(new))
    \/ \E e \in DOMAIN old.gates :
         \/ GateEntry(old, e).attested /\ ~GateEntry(new, e).attested
         \/ GateEntry(new, e).coverage < GateEntry(old, e).coverage
    \/ \E s \in {"window", "stale"} : EvidenceSettings(new)[s] > EvidenceSettings(old)[s]
    \/ \E k \in DOMAIN IntakeFields(old) : k \notin DOMAIN IntakeFields(new)

PolicyLoosening(old, new) ==
    LET environments == {AnyEnv} \cup DOMAIN old.gates \cup DOMAIN new.gates
                          \cup DOMAIN DefaultBody.gates
    IN
    \/ \E t \in Tier : \/ StagesLoosened(TierEntry(old, t), TierEntry(new, t))
                       \/ RecertifyLoosened(TierEntry(old, t), TierEntry(new, t))
    \/ StagesLoosened(VendorEntry(old), VendorEntry(new))
    \/ RecertifyLoosened(VendorEntry(old), VendorEntry(new))
    \/ \E e \in environments :
         \/ GateEntry(old, e).attested /\ ~GateEntry(new, e).attested
         \/ GateEntry(new, e).coverage < GateEntry(old, e).coverage
    \/ \E s \in {"window", "stale"} : EvidenceSettings(new)[s] > EvidenceSettings(old)[s]
    \/ \E k \in DOMAIN IntakeFields(old) :
         \/ k \notin DOMAIN IntakeFields(new)
         \/ ~(IntakeFields(old)[k] \subseteq IntakeFields(new)[k])

=============================================================================
