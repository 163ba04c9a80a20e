---------------------------- MODULE MCAuditTrail ----------------------------
(* The audit trail on a small instance: two recording threads and a ring of *)
(* two entries.                                                             *)
EXTENDS AuditTrail
=============================================================================
