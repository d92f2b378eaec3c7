----------------------------- MODULE MCAuditNode -----------------------------
(* Small instances of AuditNode for TLC.                                    *)
EXTENDS AuditNodeInvariant, TLC

RequestSymmetry == Permutations(Requests)
=============================================================================
