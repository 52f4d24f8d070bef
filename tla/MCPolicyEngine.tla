--------------------------- MODULE MCPolicyEngine ---------------------------
(***************************************************************************)
(* A small organization: an administrator, a governance administrator and  *)
(* a reviewer; the first two write configuration, the last two decide.     *)
(***************************************************************************)
EXTENDS PolicyEngine

CONSTANTS ann, bob, cat, orgadmin, gadmin, riskowner, reviewer, viewer,
          decide, accept, write, assign, manage, prod, anyenv, purpose

GrantsAtStart ==
    [r \in OrgRole |-> CASE r = orgadmin  -> {write, assign, manage}
                      [] r = gadmin    -> {decide, accept, write}
                      [] r = riskowner -> {decide, accept}
                      [] r = reviewer  -> {decide}
                      [] r = viewer    -> {}]

StaffAtStart ==
    [p \in Account |-> CASE p = ann -> {orgadmin}
                        [] p = bob -> {gadmin}
                        [] p = cat -> {reviewer}]

None == [x \in {} |-> 0]

Nothing == [tiers |-> None, fields |-> None, gates |-> None, vendors |-> None,
            evidence |-> None]

Stages(list) == [stages |-> list, mode |-> "sequence", recertify |-> Never]

Gate(attested, coverage) == [attested |-> attested, changes |-> 0, coverage |-> coverage]

\* Strict: two stages for the high tier, attested evals everywhere, a field.
Strict == [Nothing EXCEPT
    !.tiers = [t \in {"high"} |-> Stages(<<reviewer, riskowner>>)],
    !.gates = [e \in {anyenv} |-> Gate(TRUE, 50)],
    !.fields = [s \in {"fields"} |-> [k \in {purpose} |-> {"high"}]]]

\* The same, with an exemption for one environment.
Exempt == [Strict EXCEPT !.gates = [e \in {anyenv, prod} |-> Gate(e = anyenv, 50)]]

\* One stage of a role that may not decide reviews unless it is granted that;
\* two stages for vendors, recertified twice a year, and fresher evidence.
Lenient == [Nothing EXCEPT
    !.tiers = [t \in {"high"} |-> Stages(<<viewer>>)],
    !.vendors = [s \in {"vendors"} |-> [stages |-> <<riskowner, reviewer>>, recertify |-> 180]],
    !.evidence = [s \in {"stale"} |-> 10]]

Documents == {Strict, Exempt, Lenient}

RegrantsChecked == {<<viewer, decide>>}

\* The second would make an administrator of someone who decides.
RehiresChecked == {<<cat, gadmin>>, <<bob, orgadmin>>}
=============================================================================
