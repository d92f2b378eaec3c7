--------------------------- MODULE MCPerformAudit ---------------------------
(* Small instances of PerformAudit for TLC: requests are model values, and  *)
(* are not declared symmetric, because the run checks liveness.             *)
EXTENDS PerformAudit
=============================================================================
