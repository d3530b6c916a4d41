---------------------------- MODULE MCDay6Server ----------------------------
(* Values for TLC, in the cfg: three clients against two sockets, so that  *)
(* one of them finds the server full; two Sessions are connected at most   *)
(* and a third accepts.                                                    *)
EXTENDS Day6Server
=============================================================================
