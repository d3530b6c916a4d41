---------------------------- MODULE SessionLife ----------------------------
(***************************************************************************)
(* The life of a day7 Session as its server sees it: the operations whose  *)
(* handlers hold the Session. It is born for an accept, lives on reads and *)
(* writes, each started by the handler of another, and is gone once none   *)
(* is left. Day7Session is shown to live so, and Day7Server to treat each  *)
(* of its Sessions so.                                                     *)
(***************************************************************************)

VARIABLE ops   (* the operations that hold the Session *)

Unborn == {}
Fresh  == {"accept"}

Init == ops \in {Unborn, Fresh}

(* startAccept makes a Session. *)
Create == ops = {} /\ ops' = Fresh

(* The accept succeeds and the Session starts, or the accept is over.      *)
Start  == ops = Fresh /\ ops' = {"read"}
Refuse == ops = Fresh /\ ops' = {}

(* A read arms the next one and may start a write beside it, or fails.     *)
Read      == "read" \in ops /\ ops' \in {ops, ops \cup {"write"}}
ReadFails == "read" \in ops /\ ops' = ops \ {"read"}

(* A write starts the next one or leaves none behind.                      *)
Write == "write" \in ops /\ ops' \in {ops, ops \ {"write"}}

Next == Create \/ Start \/ Refuse \/ Read \/ ReadFails \/ Write

Spec == Init /\ [][Next]_ops
=============================================================================
