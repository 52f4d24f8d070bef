---------------------------- MODULE MCReviewWork ----------------------------
(***************************************************************************)
(* A small instance of one use case's review: two policies, the second     *)
(* asking for two stages in the high tier.                                 *)
(***************************************************************************)
EXTENDS ReviewWork

CONSTANTS sam, ann, cat, reviewer, riskowner

AssignedTo == [p \in Person |-> IF p = cat THEN {riskowner} ELSE {reviewer}]

GrantsOf == [r \in Role |-> IF r = reviewer THEN {"review.decide"}
                            ELSE {"review.decide", "risk.accept"}]

\* A supervised system on confidential data, and one on restricted data.
AnswersGiven == [sensitivity : {2, 3}, autonomy : {1}, individuals : {FALSE}]

HoldersOf == [r \in Role |-> IF r = reviewer THEN <<ann, sam>> ELSE <<cat>>]

\* Version 1 asks for the risk owner alone.
StagesOf ==
    [q \in Policy |-> [t \in Tier |->
        IF q = 1 THEN <<riskowner>>
        ELSE IF t = "high" THEN <<reviewer, riskowner>> ELSE <<reviewer>>]]

ModeOf == [q \in Policy |-> [t \in Tier |-> IF t = "high" THEN "parallel" ELSE "sequence"]]

RecertifyOf == [q \in Policy |-> [t \in Tier |-> IF q = 2 THEN 1 ELSE 0]]
=============================================================================
