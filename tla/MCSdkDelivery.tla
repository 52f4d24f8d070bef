--------------------------- MODULE MCSdkDelivery ---------------------------
(***************************************************************************)
(* Two processes, two events, one of which does not serialize.             *)
(***************************************************************************)
EXTENDS SdkDelivery

CONSTANTS parent, child, e1, e2
=============================================================================
