---------------------------- MODULE MCAuditFiles ----------------------------
(* AuditFiles for TLC: sessions are interchangeable. *)
EXTENDS AuditFiles, TLC

Symmetry == Permutations(Session)

=============================================================================
