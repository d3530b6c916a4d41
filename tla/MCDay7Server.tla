---------------------------- MODULE MCDay7Server ----------------------------
(* Values for TLC: one socket and three Sessions, for the connection, for  *)
(* the next accept and for the one after it; three clients, one more than  *)
(* the socket and the backlog can hold while one of them leaves.           *)
EXTENDS Day7Server
=============================================================================
