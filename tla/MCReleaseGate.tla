--------------------------- MODULE MCReleaseGate ---------------------------
(***************************************************************************)
(* Small instances of the release gate.                                    *)
(***************************************************************************)
EXTENDS ReleaseGate, TLC

CONSTANTS release, incident, risk, control, change, w1, w2

\* The release event deploys the version, proves it and satisfies the control;
\* the incident event is evidence of a risk and of a material change.
RaisesOf == (release :> {}) @@ (incident :> (Risk \cup Change))

ClearsOf == (release :> Control) @@ (incident :> {})

\* The risk can be sent back for mitigation, the change accepted; the risk is
\* cleared by an exception.
DecisionsTaken == {<<risk, "mitigation_required">>, <<change, "accepted">>}

FolderSymmetry == Permutations(Folder)
=============================================================================
