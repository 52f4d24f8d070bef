--------------------------- MODULE MCVendorReview ---------------------------
(***************************************************************************)
(* A small instance of the vendor registry: three people, two policies.    *)
(***************************************************************************)
EXTENDS VendorReview

CONSTANTS ann, bob, cat, reviewer, riskowner, narrow, wide, dpa

AssignedTo == [p \in Person |-> IF p = bob THEN {reviewer} ELSE {riskowner}]

GrantsOf == [r \in Role |-> IF r = reviewer THEN {"review.decide"}
                            ELSE {"review.decide", "risk.accept"}]

StagesOf == [q \in Policy |-> IF q = 1 THEN <<reviewer>> ELSE <<reviewer, riskowner>>]

RecertifyOf == [q \in Policy |-> IF q = 1 THEN 1 ELSE 0]
=============================================================================
