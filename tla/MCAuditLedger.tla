--------------------------- MODULE MCAuditLedger ---------------------------
(* Small instances of AuditLedger for TLC. *)
EXTENDS AuditLedger, TLC

Symmetry == Permutations(Instance)
=============================================================================
