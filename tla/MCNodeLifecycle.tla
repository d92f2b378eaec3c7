-------------------------- MODULE MCNodeLifecycle --------------------------
(* Small instances of NodeLifecycle for TLC: the threads are model values,  *)
(* and are not declared symmetric, because the runs check liveness.         *)
EXTENDS NodeLifecycle
=============================================================================
