---------------------------- MODULE MCAuditOutbox ----------------------------
(* Instances of AuditOutbox for TLC.                                       *)
EXTENDS AuditOutbox
=============================================================================
