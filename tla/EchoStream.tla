----------------------------- MODULE EchoStream -----------------------------
(***************************************************************************)
(* What an echo service promises one peer: it takes bytes of the peer's    *)
(* stream 1, 2, 3, ..., at most Max at once, gives them back in order, and *)
(* takes no more before it has given back all it took.                     *)
(***************************************************************************)
EXTENDS Integers, Sequences

CONSTANT Max

VARIABLES in, out   (* how many bytes it took, the bytes it gave back *)

Init == in = 0 /\ out = <<>>

Take ==
  /\ Len(out) = in
  /\ in' \in (in + 1)..(in + Max)
  /\ UNCHANGED out

Give ==
  /\ \E n \in (Len(out) + 1)..in : out' = [i \in 1..n |-> i]
  /\ UNCHANGED in

Spec == Init /\ [][Take \/ Give]_<<in, out>>
=============================================================================
