---------------------------- MODULE MCRWSpinlock ----------------------------
(* RWSpinlock with four threads. *)
EXTENDS RWSpinlock

CONSTANTS t1, t2, t3, t4

MCThreads == {t1, t2, t3, t4}
=============================================================================
