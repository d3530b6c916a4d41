-------------------------- MODULE MCLoggerManager --------------------------
(* LoggerManager with a few threads and names. *)
EXTENDS LoggerManager

CONSTANTS t1, t2, t3, root, a, b

MCThreeThreads == {t1, t2, t3}
MCNames        == {root, a, b}
=============================================================================
