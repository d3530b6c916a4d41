---------------------------- MODULE SessionTurns ----------------------------
(***************************************************************************)
(* The life of a day6 Session as its server sees it: a raw pointer that    *)
(* the handler of one operation owns at a time. Reads and writes take      *)
(* turns; the handler of an operation that failed deletes the Session.     *)
(***************************************************************************)

VARIABLE ops   (* the operations whose handlers have the pointer *)

Init == ops \in {{}, {"accept"}}

Create == ops = {} /\ ops' = {"accept"}
Delete == ops # {} /\ ops' = {}
Start  == ops = {"accept"} /\ ops' = {"read"}
Read   == ops = {"read"} /\ ops' = {"write"}
Write  == ops = {"write"} /\ ops' = {"read"}

Spec == Init /\ [][Create \/ Delete \/ Start \/ Read \/ Write]_ops
=============================================================================
