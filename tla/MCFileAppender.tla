--------------------------- MODULE MCFileAppender ---------------------------
(* Every pattern of at most three characters, and of four that begin with  *)
(* two percent signs. The characters are one of each kind.                 *)
EXTENDS FileAppender, TLC

MCPatterns ==
  UNION {[1..k -> Chars] : k \in 0..3}
    \cup {p \in [1..4 -> Chars] : p[1] = Percent /\ p[2] = Percent}

Symmetry == Permutations(Threads)
=============================================================================
