--------------------------- MODULE MCDay6Session ---------------------------
(* Values for TLC: the constants of the cfgs. A buffer of three bytes is   *)
(* written in up to three pieces; seven bytes fill it more than twice.     *)
EXTENDS Day6Session
=============================================================================
