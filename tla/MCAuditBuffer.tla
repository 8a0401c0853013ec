--------------------------- MODULE MCAuditBuffer ---------------------------
(* AuditBuffer for TLC. *)
EXTENDS AuditBuffer, TLC

============================================================================
