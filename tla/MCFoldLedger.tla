---------------------------- MODULE MCFoldLedger ----------------------------
(***************************************************************************)
(* Small instances of the ingest path and its fold ledger.                 *)
(***************************************************************************)
EXTENDS FoldLedger

CONSTANTS e1, e2, t1

\* Every event belongs to one tenant.
OneTenant == [e \in Event |-> t1]

PoisonOnly(e, step) == [f \in Event |-> IF f = e THEN step ELSE "none"]

\* Nothing is unfoldable, or e2 raises while it is counted, or e2 raises in
\* the last projection, when everything before it has committed.
PoisonPlans ==
    {PoisonOnly(e2, "none"), PoisonOnly(e2, "count"), PoisonOnly(e2, "refresh")}

\* The stored body of e2 does not decrypt.
UndecryptablePlan == {PoisonOnly(e2, "claim")}

NoPoisonPlan == {PoisonOnly(e2, "none")}
=============================================================================
