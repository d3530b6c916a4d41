--------------------------- MODULE LoggerRegistry ---------------------------
(***************************************************************************)
(* What LoggerManager promises its callers: a name has one logger, which   *)
(* is registered once, and which every getLogger of that name gives.       *)
(***************************************************************************)
EXTENDS Integers

CONSTANTS Names, RootName

RootLogger == 1
Absent     == -1

VARIABLES
  registry,   (* registry[n]: the logger of the name, or Absent *)
  given       (* the <<name, logger>> that getLogger has given  *)

Init ==
  /\ registry = [n \in Names |-> IF n = RootName THEN RootLogger ELSE Absent]
  /\ given = {}

Register(n) ==
  /\ registry[n] = Absent
  /\ registry'[n] \in Nat \ {registry[m] : m \in Names}
  /\ registry' = [registry EXCEPT ![n] = registry'[n]]
  /\ given' = given

Give(n) ==
  /\ registry[n] # Absent
  /\ given' = given \cup {<<n, registry[n]>>}
  /\ registry' = registry

Next == \E n \in Names : Register(n) \/ Give(n)

Spec == Init /\ [][Next]_<<registry, given>>
=============================================================================
