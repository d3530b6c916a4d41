--------------------------- MODULE MCDay4Server ---------------------------
(* Four clients for two descriptors and three threads: one that sends more *)
(* than the buffer holds, one that sends a byte and two silent ones.       *)
EXTENDS Day4Server, TLC

CONSTANTS c1, c2, c3, c4

MCClients == {c1, c2, c3, c4}
MCMaxSent == c1 :> 3 @@ c2 :> 1 @@ c3 :> 0 @@ c4 :> 0
=============================================================================
