---------------------------- MODULE MCAuditChain ----------------------------
(***************************************************************************)
(* Small instances of the audit chain and its checkpoint journal.          *)
(***************************************************************************)
EXTENDS AuditChain
=============================================================================
