SPECIFICATION EngineSpec
CONSTANTS
    ann = ann
    bob = bob
    cat = cat
    orgadmin = orgadmin
    gadmin = gadmin
    riskowner = riskowner
    reviewer = reviewer
    viewer = viewer
    decide = decide
    accept = accept
    write = write
    assign = assign
    manage = manage
    prod = prod
    anyenv = anyenv
    purpose = purpose
    OrgRole = {orgadmin, gadmin, riskowner, reviewer, viewer}
    Reviewer = reviewer
    Permission = {decide, accept, write, assign, manage}
    Decide = decide
    ConfigWrite = write
    RoleAssign = assign
    UserManage = manage
    AdministrationRoles = {orgadmin}
    DecisionRoles = {gadmin, riskowner, reviewer}
    Environment = {prod, other}
    AnyEnv = anyenv
    Field = {purpose}
    Account = {ann, bob, cat}
    Document <- Documents
    Staff <- StaffAtStart
    RoleGrants <- GrantsAtStart
    Regrants <- RegrantsChecked
    Rehires <- RehiresChecked
    Suspends = {cat}
    MaxVersions = 3
    MaxChurn = 1
INVARIANTS
    NoLoneLoosening
PROPERTIES
    StaffedWhenPutInForce
CHECK_DEADLOCK FALSE
