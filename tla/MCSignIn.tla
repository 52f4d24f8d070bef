------------------------------ MODULE MCSignIn ------------------------------
(* Two requests at a time, two passwords, low thresholds.                   *)
EXTENDS SignIn, TLC

CONSTANTS r1, r2

MCRequest == {r1, r2}
Requests == Permutations(MCRequest)

MCThreshold == [s \in Subject |-> IF s = "source" THEN 3 ELSE 2]
=============================================================================
