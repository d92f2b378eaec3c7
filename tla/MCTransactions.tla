--------------------------- MODULE MCTransactions ---------------------------
(* Small instances of NodeTransactions for TLC: main and the thread that    *)
(* claims rewards, which wait for receipts, and one that does not.          *)
EXTENDS NodeTransactions
=============================================================================
