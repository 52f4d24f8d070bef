---------------------------- MODULE PolicyEngine ----------------------------
(***************************************************************************)
(* The policy versions of one organization: drafting a document, putting a *)
(* version in force, and the people whose roles decide what it asks for    *)
(* (apps/platform/app/storage/policy_engine.py, api/policy.py).            *)
(*                                                                         *)
(* Every action is an @atomic route handler, one step.  Role permissions   *)
(* are the platform administrator's to change; role assignments and        *)
(* account status are changed by the organization's own administrators     *)
(* (api/admin.py, services/authorization.py).                              *)
(***************************************************************************)
EXTENDS PolicyDocument, Functions

CONSTANTS
    Account,       \* accounts of the organization
    ConfigWrite,   \* the permissions config.write, role.assign and user.manage
    RoleAssign,
    UserManage,
    AdministrationRoles,   \* roles that administer, and roles that decide:
    DecisionRoles,         \* nobody may hold one of each
    Document,      \* policy documents people may submit
    Staff,         \* role assignments at the start
    RoleGrants,    \* role_permissions at the start
    Regrants,      \* bound: role permissions an administrator may flip
    Rehires,       \* bound: role assignments that may be flipped
    Suspends,      \* bound: accounts that may be suspended
    MaxVersions,   \* bound: policy versions drafted
    MaxChurn       \* bound: changes of staff, status or permissions

IsList(s) == Len(s) \in Nat /\ DOMAIN s = 1..Len(s)

\* A document's stages are lists, and a gate in it has its settings, as
\* the shape of its JSON says; what they are set to, validation decides.
EngineConstants ==
    /\ Reviewer \in OrgRole /\ {Decide, ConfigWrite, RoleAssign, UserManage} \subseteq Permission
    /\ AdministrationRoles \cup DecisionRoles \subseteq OrgRole
    /\ RoleGrants \in [OrgRole -> SUBSET Permission]
    /\ Staff \in [Account -> SUBSET OrgRole]
    /\ Regrants \subseteq OrgRole \X Permission /\ Rehires \subseteq Account \X OrgRole
    /\ Suspends \subseteq Account
    /\ MaxVersions \in Nat /\ MaxChurn \in Nat
    /\ IsFiniteSet(Account)
    /\ \A body \in Document :
        /\ \A t \in DOMAIN body.tiers : IsList(body.tiers[t].stages)
        /\ \A s \in DOMAIN body.vendors : IsList(body.vendors[s].stages)
        /\ \A e \in DOMAIN body.gates :
             body.gates[e] \in [attested : BOOLEAN, changes : Int, coverage : Int]

ASSUME EngineAssumption == EngineConstants

VARIABLES
    versions,   \* governance_policies of the organization, by version
    reign,      \* the activations so far: which version, by whom
    grants,     \* role_permissions
    holds,      \* active role_assignments of each person
    active,     \* people whose account is active
    churn       \* changes of staff, status or permissions so far

engineVars == <<versions, reign, grants, holds, active, churn>>

EngineTypeOK ==
    /\ versions \in Seq([body : Document, author : Account,
                         status : {"draft", "active", "superseded"}])
    /\ reign \in Seq([version : DOMAIN versions, actor : Account])
    /\ grants \in [OrgRole -> SUBSET Permission]
    /\ holds \in [Account -> SUBSET OrgRole]
    /\ active \subseteq Account
    /\ churn \in 0..MaxChurn

-----------------------------------------------------------------------------
\* actor_permissions: over all active assignments.
Permissions(p) == UNION {grants[r] : r \in holds[p]}

\* require_permission: the account must be active as well.
Permitted(p, perm) == p \in active /\ perm \in Permissions(p)

\* A role carries a stage's authority when it is the stage's role or holds at
\* least that role's permissions.
EligibleDeciders(role) ==
    {p \in active : \E r \in holds[p] : r = role \/ grants[role] \subseteq grants[r]}

\* Placing a stage along augmenting paths: what comes of a stage, the stage each
\* person is assigned (0: none) and the people seen so far.
Place(stages) ==
    LET place[c \in (DOMAIN stages) \X [Account -> 0..Len(stages)] \X SUBSET Account] ==
            LET stage  == c[1]  assigned == c[2]  seen == c[3]
                fresh  == EligibleDeciders(stages[stage]) \ seen
                person == CHOOSE p \in fresh : TRUE
                found  == seen \cup {person}
                moved  == IF assigned[person] = 0
                            THEN [ok |-> TRUE, assigned |-> assigned, seen |-> found]
                            ELSE place[<<assigned[person], assigned, found>>]
            IN  IF fresh = {} THEN [ok |-> FALSE, assigned |-> assigned, seen |-> seen]
                ELSE IF moved.ok THEN [moved EXCEPT !.assigned[person] = stage]
                ELSE place[<<stage, moved.assigned, moved.seen>>]
    IN  place

\* Whether each stage can go to a different eligible person: a matching of stages
\* to people, one more stage placed in each turn.
CanStaff(stages) ==
    LET placed[k \in 0..Len(stages)] ==
            IF k = 0 THEN [ok |-> TRUE, assigned |-> [p \in Account |-> 0], seen |-> {}]
            ELSE IF placed[k - 1].ok THEN Place(stages)[<<k, placed[k - 1].assigned, {}>>]
            ELSE placed[k - 1]
    IN  placed[Len(stages)].ok

StageSections(body) ==
    [s \in Tier \cup {"vendors"} |->
        IF s = "vendors" THEN VendorEntry(body).stages ELSE TierEntry(body, s).stages]

\* As UnstaffedStageChanges, with every stage checked on its own.
UnstaffedOneByOne(old, new) ==
    {s \in DOMAIN StageSections(new) :
        /\ StageSections(new)[s] # StageSections(old)[s]
        /\ \E i \in DOMAIN StageSections(new)[s] :
              EligibleDeciders(StageSections(new)[s][i]) = {}}

\* The stage lists the new document changes that nobody could decide.
UnstaffedStageChanges(old, new) ==
    {s \in DOMAIN StageSections(new) :
        /\ StageSections(new)[s] # StageSections(old)[s]
        /\ ~CanStaff(StageSections(new)[s])}

ActiveVersion == {v \in DOMAIN versions : versions[v].status = "active"}

\* The version in force; 0 is the platform default.
InForce == IF ActiveVersion = {} THEN 0 ELSE CHOOSE v \in ActiveVersion : TRUE

BodyOf(v) == IF v = 0 THEN DefaultBody ELSE versions[v].body

\* The resolvers: what version v in force amounts to, and the version whose
\* document supplied the entry.
ResolveTierPolicy(v, tier) ==
    LET w == IF tier \in DOMAIN BodyOf(v).tiers THEN v ELSE 0
    IN  [entry |-> BodyOf(w).tiers[tier], version |-> w]

ResolveVendorPolicy(v) ==
    LET w == IF "vendors" \in DOMAIN BodyOf(v).vendors THEN v ELSE 0
    IN  [entry |-> BodyOf(w).vendors["vendors"], version |-> w]

\* The environment's own entry, then the document's '*', then the default's.
ResolveGatePolicy(v, env) ==
    LET Gates(w) == BodyOf(w).gates
        Key(w)   == IF env \in DOMAIN Gates(w) THEN env ELSE AnyEnv
        w        == IF Key(v) \in DOMAIN Gates(v) THEN v ELSE 0
        Capped(entry) == [entry EXCEPT !.changes = Min({@, MaterialChangeCeiling})]
    IN  [entry |-> Capped(Gates(w)[Key(w)]), version |-> w]

ResolveEvidencePolicy(v) == [entry |-> EvidenceSettings(BodyOf(v)), version |-> v]

ResolveIntakeFields(v) ==
    LET w == IF "fields" \in DOMAIN BodyOf(v).fields THEN v ELSE 0
    IN  BodyOf(w).fields["fields"]

\* The stage roles a review submitted now would get.
AskedFor(s) ==
    IF s = "vendors" THEN ResolveVendorPolicy(InForce).entry.stages
    ELSE ResolveTierPolicy(InForce, s).entry.stages

-----------------------------------------------------------------------------
EngineInit ==
    /\ versions = <<>> /\ reign = <<>>
    /\ grants = RoleGrants /\ holds = Staff /\ active = Account
    /\ churn = 0

\* create_policy_draft: the next version number.
PolicyDrafted(p, body) ==
    Append(versions, [body |-> body, author |-> p, status |-> "draft"])

\* POST /api/governance-policy/draft
DraftPolicy(p, body) ==
    /\ Len(versions) < MaxVersions
    /\ Permitted(p, ConfigWrite)
    /\ ValidPolicyBody(body, grants)
    /\ versions' = PolicyDrafted(p, body)
    /\ UNCHANGED <<reign, grants, holds, active, churn>>

\* activate_policy: the checks of one version, in the code's order.
ActivationAllowed(p, v) ==
    LET previous == BodyOf(InForce)
        target   == versions[v].body
    IN  /\ versions[v].status = "draft"
        /\ ValidPolicyBody(target, grants)
        /\ PolicyLoosening(previous, target) => versions[v].author # p
        /\ UnstaffedStageChanges(previous, target) = {}

\* POST /api/governance-policy/versions/{version}/activate.
ActivatePolicy(p, v) ==
    /\ Permitted(p, ConfigWrite)
    /\ ActivationAllowed(p, v)
    /\ versions' = [w \in DOMAIN versions |->
                      IF w = v THEN [versions[w] EXCEPT !.status = "active"]
                      ELSE IF w = InForce THEN [versions[w] EXCEPT !.status = "superseded"]
                      ELSE versions[w]]
    /\ reign' = Append(reign, [version |-> v, actor |-> p])
    /\ UNCHANGED <<grants, holds, active, churn>>

\* set_role_permission, upsert_role_assignment, set_user_status, each flipping
\* what it finds.
RolePermissionSet(role, perm) ==
    [grants EXCEPT ![role] = IF perm \in @ THEN @ \ {perm} ELSE @ \cup {perm}]

RoleAssignmentSet(q, role) ==
    [holds EXCEPT ![q] = IF role \in @ THEN @ \ {role} ELSE @ \cup {role}]

UserStatusSet(q) == IF q \in active THEN active \ {q} ELSE active \cup {q}

\* would_violate_role_separation
ViolatesRoleSeparation(roles) ==
    roles \cap AdministrationRoles # {} /\ roles \cap DecisionRoles # {}

\* POST /api/admin/role-permissions: the platform administrator redefines a role.
UpdateRolePermission(role, perm) ==
    /\ churn < MaxChurn /\ churn' = churn + 1
    /\ grants' = RolePermissionSet(role, perm)
    /\ UNCHANGED <<versions, reign, holds, active>>

\* POST /api/org/role-assignments: never one's own.
ChangeOrgRoleAssignment(p, q, role) ==
    /\ churn < MaxChurn /\ churn' = churn + 1
    /\ Permitted(p, RoleAssign)
    /\ q # p
    /\ ~ViolatesRoleSeparation(RoleAssignmentSet(q, role)[q])
    /\ holds' = RoleAssignmentSet(q, role)
    /\ UNCHANGED <<versions, reign, grants, active>>

\* POST /api/org/users/{user_ref}/status: never one's own.
UpdateOrgUserStatus(p, q) ==
    /\ churn < MaxChurn /\ churn' = churn + 1
    /\ Permitted(p, UserManage)
    /\ q # p
    /\ active' = UserStatusSet(q)
    /\ UNCHANGED <<versions, reign, grants, holds>>

EngineNext ==
    \/ \E p \in Account, body \in Document : DraftPolicy(p, body)
    \/ \E p \in Account, v \in DOMAIN versions : ActivatePolicy(p, v)
    \/ \E g \in Regrants : UpdateRolePermission(g[1], g[2])
    \/ \E p \in Account, h \in Rehires : ChangeOrgRoleAssignment(p, h[1], h[2])
    \/ \E p \in Account, q \in Suspends : UpdateOrgUserStatus(p, q)

EngineSpec == EngineInit /\ [][EngineNext]_engineVars

-----------------------------------------------------------------------------
\* Strictness as the resolvers apply it, environment by environment, without
\* looking at which keys the documents of versions v and w spell out.
Weaker(v, w) ==
    LET LosesStage(a, b) ==
            ~\E f \in Injection(DOMAIN a.stages, DOMAIN b.stages) :
                \A i \in DOMAIN a.stages : b.stages[f[i]] = a.stages[i]
        LosesRecertification(a, b) ==
            a.recertify # Never /\ b.recertify \notin 1..a.recertify
        LosesEither(a, b) == LosesStage(a, b) \/ LosesRecertification(a, b)
        Gate(u, e) == ResolveGatePolicy(u, e).entry
        Evidence(u) == ResolveEvidencePolicy(u).entry
        Accepts(u, given, t) ==
            LET fields == ResolveIntakeFields(u)
            IN  ValidFieldValues(fields, given \cap DOMAIN fields, t)
    IN
    \/ \E t \in Tier : LosesEither(ResolveTierPolicy(v, t).entry, ResolveTierPolicy(w, t).entry)
    \/ LosesEither(ResolveVendorPolicy(v).entry, ResolveVendorPolicy(w).entry)
    \/ \E e \in Environment : \/ Gate(v, e).attested /\ ~Gate(w, e).attested
                              \/ Gate(w, e).coverage < Gate(v, e).coverage
    \/ \E s \in {"window", "stale"} : Evidence(w)[s] > Evidence(v)[s]
    \/ \E t \in Tier, given \in SUBSET Field : Accepts(w, given, t) /\ ~Accepts(v, given, t)

\* The version in force after the first i activations.
Reigned(i) == IF i = 0 THEN 0 ELSE reign[i].version

\* No one person weakens what the organization's policy asks for, however many
\* versions they draft and activate and in whatever order: between two policies
\* in force, the later weaker in any tier, environment or field, somebody
\* activated a version another person wrote (policy_loosening, activate_policy).
NoLoneLoosening ==
    \A j \in 1..Len(reign) : \A i \in 0..(j - 1) :
        Weaker(Reigned(i), Reigned(j)) =>
            \E k \in (i + 1)..j : reign[k].actor # versions[reign[k].version].author

\* Every list of stages that this step changes can be decided, one person per
\* stage, by the people of this moment.
ChangesAreStaffed ==
    \A s \in Tier \cup {"vendors"} :
        \/ AskedFor(s)' = AskedFor(s)
        \/ \E f \in Injection(DOMAIN AskedFor(s)', active) :
             \A i \in DOMAIN AskedFor(s)' :
               \E r \in holds[f[i]] :
                  r = AskedFor(s)'[i] \/ grants[AskedFor(s)'[i]] \subseteq grants[r]

\* A step that puts a version in force leaves every stage list that changes
\* for the reviews submitted from then on decidable by the people of that
\* moment, one person per stage: the augmenting paths of _can_staff invent no
\* matching, and the comparison of the documents misses no change.
StaffedWhenPutInForce == [][reign' # reign => ChangesAreStaffed]_engineVars

=============================================================================
