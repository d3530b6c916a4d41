--------------------------- MODULE MCDay7Session ---------------------------
(* Small instances of Day7Session. *)
EXTENDS Day7Session

(* Too short, exact and too long for a node of one or two bytes. *)
MCHeapInts == {0, 1, 3}
=============================================================================
