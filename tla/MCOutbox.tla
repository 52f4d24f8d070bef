------------------------------ MODULE MCOutbox ------------------------------
(* Two replicas, the first one also serving a webhook test; one event     *)
(* goes to an account, the other to a webhook.                              *)
EXTENDS Outbox

CONSTANTS loop1, request1, loop2, p1, p2, approved, lapsed, ann, hook

MCThread == {loop1, request1, loop2}
MCRequests == {request1}
MCProcOf == [t \in MCThread |-> IF t = loop2 THEN p2 ELSE p1]
MCToUsers == [e \in {approved, lapsed} |-> IF e = approved THEN {ann} ELSE {}]
MCSubscribed == [h \in {hook} |-> {lapsed}]
=============================================================================
