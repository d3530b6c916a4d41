------------------------- MODULE FileAppenderProofs -------------------------
(***************************************************************************)
(* Theorems about LogPattern, for every pattern of any length, and about   *)
(* FileAppender, for any number of threads and calls, any formatters,      *)
(* every interval and any changes of the directory.                        *)
(*                                                                         *)
(* The parser recurs on a pattern, and its meaning is defined by functions *)
(* that recur on a number. SizeInduction and Recursion, which rest on the  *)
(* least member of a set of numbers, give induction without an operator as *)
(* a parameter.                                                            *)
(***************************************************************************)
EXTENDS FileAppender, SequenceTheorems, WellFoundedInduction, TLAPS

-----------------------------------------------------------------------------
(* Induction and recursion.                                                *)

(* Every nonempty set of numbers has a least member.                       *)
LEMMA Least ==
  ASSUME NEW I \in SUBSET Nat, I # {}
  PROVE  \E k \in I : \A m \in I : k <= m
  <1> DEFINE Less == {ss \in Nat \X Nat : ss[1] < ss[2]}
  <1>1. IsWellFoundedOn(Less, Nat)
    BY NatLessThanWellFounded DEF OpToRel
  <1>2. I \subseteq Nat
    OBVIOUS
  <1> HIDE DEF Less
  <1>3. PICK k \in I : \A m \in I : ~ (<<m, k>> \in Less)
    BY <1>1, <1>2, WFMin
  <1>4. \A m \in I : ~(m < k)
    BY <1>3 DEF Less
  <1> QED BY <1>4

(* Induction over the size of things: a set that has everything of which   *)
(* it has all that is smaller has everything.                              *)
Inductive(G, U, rank) ==
  \A p \in U : (\A q \in U : rank[q] < rank[p] => q \in G) => p \in G

LEMMA SizeInduction ==
  ASSUME NEW U, NEW rank \in [U -> Nat], NEW G, Inductive(G, U, rank)
  PROVE  \A p \in U : p \in G
  <1> SUFFICES ASSUME NEW p \in U, p \notin G PROVE FALSE
    OBVIOUS
  <1> DEFINE I == {rank[q] : q \in U \ G}
  <1>1. I \in SUBSET Nat /\ I # {}
    OBVIOUS
  <1> HIDE DEF I
  <1>2. PICK k \in I : \A m \in I : k <= m
    BY <1>1, Least
  <1>3. PICK q \in U \ G : k = rank[q]
    BY <1>2 DEF I
  <1>4. ASSUME NEW r \in U, rank[r] < rank[q] PROVE r \in G
    <2>1. CASE r \notin G
      <3>1. rank[r] \in I
        BY <2>1 DEF I
      <3>2. rank[q] <= rank[r] /\ rank[q] \in Nat /\ rank[r] \in Nat
        BY <1>2, <1>3, <3>1
      <3> QED BY <1>4, <3>2
    <2> QED BY <2>1
  <1> QED BY <1>3, <1>4 DEF Inductive

(* A definition that recurs on one smaller argument defines a function. Up *)
(* to every size there is one that obeys it, and these agree.              *)
Recurs(S, T, size, next, stop, base, comb) ==
  /\ size \in [S -> Nat] /\ next \in [S -> S]
  /\ base \in [S -> T] /\ comb \in [S -> [T -> T]]
  /\ \A p \in S \ stop : size[next[p]] < size[p]

LEMMA Recursion ==
  ASSUME NEW S, NEW T, NEW size, NEW next, NEW stop, NEW base, NEW comb,
         Recurs(S, T, size, next, stop, base, comb)
  PROVE  \E f \in [S -> T] :
           \A p \in S : f[p] = IF p \in stop THEN base[p] ELSE comb[p][f[next[p]]]
  <1> USE DEF Recurs
  <1> DEFINE Body(f, p) == IF p \in stop THEN base[p] ELSE comb[p][f[next[p]]]
             Obeys(f, k) == \A p \in S : size[p] < k => f[p] = Body(f, p)
             Reached == {k \in Nat : \E f \in [S -> T] : Obeys(f, k)}
  <1>1. ASSUME NEW f \in [S -> T], NEW p \in S PROVE Body(f, p) \in T
    OBVIOUS
  <1>2. ASSUME NEW k \in Nat, \A m \in Nat : m < k => m \in Reached PROVE k \in Reached
    <2>1. CASE k = 0
      <3>1. Obeys(base, k)
        BY <2>1
      <3> QED BY <3>1
    <2>2. CASE k # 0
      <3>1. k - 1 \in Nat /\ k - 1 < k
        BY <2>2
      <3>2. PICK f \in [S -> T] : Obeys(f, k - 1)
        BY <1>2, <3>1
      <3> DEFINE g == [p \in S |-> Body(f, p)]
      <3>3. g \in [S -> T]
        BY <1>1
      <3>4. ASSUME NEW p \in S, size[p] < k PROVE g[p] = Body(g, p)
        <4>1. CASE p \in stop
          BY <4>1
        <4>2. CASE p \notin stop
          <5>1. next[p] \in S /\ size[next[p]] \in Nat /\ size[p] \in Nat /\ size[next[p]] < size[p]
            BY <4>2
          <5>2. size[next[p]] < k - 1
            BY <3>4, <5>1
          <5>3. f[next[p]] = Body(f, next[p])
            BY <3>2, <5>1, <5>2
          <5>4. g[next[p]] = f[next[p]]
            BY <5>1, <5>3
          <5> HIDE DEF g
          <5>5. g[p] = Body(f, p)
            BY DEF g
          <5> QED BY <4>2, <5>4, <5>5
        <4> QED BY <4>1, <4>2
      <3> HIDE DEF g
      <3> QED BY <3>3, <3>4
    <2> QED BY <2>1, <2>2
  <1>3. \A k \in Nat : k \in Reached
    <2> DEFINE id == [k \in Nat |-> k]
    <2>1. id \in [Nat -> Nat] /\ \A k \in Nat : id[k] = k
      OBVIOUS
    <2> HIDE DEF id, Reached
    <2>2. Inductive(Reached, Nat, id)
      BY <1>2, <2>1 DEF Inductive
    <2> QED BY <2>1, <2>2, SizeInduction
  <1>4. ASSUME NEW f \in [S -> T], NEW g \in [S -> T], NEW k \in Nat, NEW m \in Nat,
               Obeys(f, k), Obeys(g, m)
        PROVE  \A p \in S : size[p] < k /\ size[p] < m => f[p] = g[p]
    <2> DEFINE H == {p \in S : size[p] < k /\ size[p] < m => f[p] = g[p]}
    <2>1. ASSUME NEW p \in S, \A q \in S : size[q] < size[p] => q \in H PROVE p \in H
      <3> SUFFICES ASSUME size[p] < k, size[p] < m PROVE f[p] = g[p]
        OBVIOUS
      <3>1. f[p] = Body(f, p) /\ g[p] = Body(g, p)
        BY <1>4
      <3>2. CASE p \in stop
        BY <3>1, <3>2
      <3>3. CASE p \notin stop
        <4>1. next[p] \in S /\ size[next[p]] \in Nat /\ size[p] \in Nat /\ size[next[p]] < size[p]
          BY <3>3
        <4>2. size[next[p]] < k /\ size[next[p]] < m
          BY <4>1
        <4>3. f[next[p]] = g[next[p]]
          BY <2>1, <4>1, <4>2
        <4> QED BY <3>1, <4>3
      <3> QED BY <3>2, <3>3
    <2> HIDE DEF H
    <2>2. Inductive(H, S, size)
      BY <2>1 DEF Inductive
    <2>3. \A p \in S : p \in H
      BY <2>2, SizeInduction
    <2> QED BY <2>3 DEF H
  <1> DEFINE F(k) == CHOOSE f \in [S -> T] : Obeys(f, k)
  <1>5. ASSUME NEW k \in Nat PROVE F(k) \in [S -> T] /\ Obeys(F(k), k)
    <2>1. \E f \in [S -> T] : Obeys(f, k)
      BY <1>3
    <2> HIDE DEF Obeys
    <2> QED BY <2>1
  <1> DEFINE h == [p \in S |-> F(size[p] + 1)[p]]
  <1> HIDE DEF F
  <1>6. h \in [S -> T]
    BY <1>5
  <1>7. ASSUME NEW p \in S PROVE h[p] = Body(h, p)
    <2>1. size[p] \in Nat /\ size[p] + 1 \in Nat /\ size[p] < size[p] + 1
      OBVIOUS
    <2>2. h[p] = Body(F(size[p] + 1), p)
      BY <1>5, <2>1
    <2>3. CASE p \in stop
      BY <2>2, <2>3
    <2>4. CASE p \notin stop
      <3>1. next[p] \in S /\ size[next[p]] \in Nat /\ size[next[p]] < size[p]
        BY <2>4
      <3>2. size[next[p]] + 1 \in Nat /\ size[next[p]] < size[next[p]] + 1 /\ size[next[p]] < size[p] + 1
        BY <2>1, <3>1
      <3> HIDE DEF Obeys
      <3>3. F(size[next[p]] + 1)[next[p]] = F(size[p] + 1)[next[p]]
        <4>0. PICK k \in Nat, m \in Nat : k = size[next[p]] + 1 /\ m = size[p] + 1
          BY <2>1, <3>2
        <4>1. PICK f \in [S -> T] : f = F(k) /\ Obeys(f, k)
          BY <1>5
        <4>2. PICK g \in [S -> T] : g = F(m) /\ Obeys(g, m)
          BY <1>5
        <4>3. \A q \in S : size[q] < k /\ size[q] < m => f[q] = g[q]
          BY <1>4, <4>1, <4>2
        <4>4. f[next[p]] = g[next[p]]
          BY <3>1, <3>2, <4>0, <4>3
        <4> QED BY <4>0, <4>1, <4>2, <4>4
      <3> QED BY <2>2, <2>4, <3>1, <3>3
    <2> QED BY <2>3, <2>4
  <1> HIDE DEF h
  <1> QED BY <1>6, <1>7

-----------------------------------------------------------------------------
(* The recursive functions of LogPattern are what their equations say.     *)

LEMMA UptoIs ==
  ASSUME NEW T, NEW texts \in Seq(Seq(T))
  PROVE  /\ Upto(texts) \in [0..Len(texts) -> Seq(T)]
         /\ Upto(texts)[0] = <<>>
         /\ \A k \in 1..Len(texts) : Upto(texts)[k] = Upto(texts)[k - 1] \o texts[k]
  <1> DEFINE S == 0..Len(texts)
             size == [k \in S |-> k]
             next == [k \in S |-> IF k = 0 THEN 0 ELSE k - 1]
             base == [k \in S |-> <<>>]
             comb == [k \in S |-> [s \in Seq(T) |-> IF k = 0 THEN s ELSE s \o texts[k]]]
             Body(f) == [k \in S |-> IF k = 0 THEN <<>> ELSE f[k - 1] \o texts[k]]
  <1>1. Len(texts) \in Nat /\ \A k \in 1..Len(texts) : texts[k] \in Seq(T)
    BY LenProperties
  <1>2. size \in [S -> Nat] /\ next \in [S -> S] /\ {0} \in SUBSET S
    BY <1>1
  <1>3. base \in [S -> Seq(T)]
    BY EmptySeq
  <1>4. comb \in [S -> [Seq(T) -> Seq(T)]]
    <2>1. ASSUME NEW k \in S, NEW s \in Seq(T), k # 0 PROVE s \o texts[k] \in Seq(T)
      BY <1>1, <2>1, ConcatProperties
    <2> QED BY <2>1
  <1>5. \A k \in S \ {0} : size[next[k]] < size[k]
    BY <1>1
  <1>6. PICK f \in [S -> Seq(T)] :
          \A k \in S : f[k] = IF k \in {0} THEN base[k] ELSE comb[k][f[next[k]]]
    <2> HIDE DEF S, size, next, base, comb
    <2>1. Recurs(S, Seq(T), size, next, {0}, base, comb)
      BY <1>2, <1>3, <1>4, <1>5 DEF Recurs
    <2> QED BY <2>1, Recursion
  <1>7. f = Body(f)
    <2>1. ASSUME NEW k \in S PROVE f[k] = IF k = 0 THEN <<>> ELSE f[k - 1] \o texts[k]
      <3>1. CASE k = 0
        BY <1>6, <3>1
      <3>2. CASE k # 0
        <4>1. k - 1 \in S /\ next[k] = k - 1
          BY <1>1, <3>2
        <4>3. f[k - 1] \in Seq(T)
          <5> HIDE DEF S
          <5> QED BY <4>1
        <4>2. comb[k][f[k - 1]] = f[k - 1] \o texts[k]
          BY <3>2, <4>3
        <4> HIDE DEF comb, next, S
        <4> QED BY <1>6, <3>2, <4>1, <4>2
      <3> QED BY <3>1, <3>2
    <2> QED BY <2>1
  <1>8. Upto(texts) = Body(Upto(texts))
    BY <1>7, Zenon DEF Upto
  <1>9. ASSUME NEW k \in S
        PROVE  k \in {m \in S : Upto(texts)[m] \in Seq(T)}
    <2> DEFINE Good == {m \in S : Upto(texts)[m] \in Seq(T)}
    <2>1. ASSUME NEW m \in S, \A q \in S : size[q] < size[m] => q \in Good PROVE m \in Good
      <3>1. CASE m = 0
        BY <1>8, <3>1, EmptySeq
      <3>2. CASE m # 0
        <4>1. m - 1 \in S /\ m - 1 \in Good
          BY <1>1, <2>1, <3>2
        <4>2. Upto(texts)[m] = Upto(texts)[m - 1] \o texts[m]
          BY <1>8, <3>2
        <4>3. m \in 1..Len(texts) /\ Upto(texts)[m - 1] \in Seq(T)
          BY <1>1, <3>2, <4>1
        <4>4. Upto(texts)[m - 1] \o texts[m] \in Seq(T)
          BY <1>1, <4>3, ConcatProperties
        <4> QED BY <4>2, <4>4
      <3> QED BY <3>1, <3>2
    <2> HIDE DEF Good
    <2>2. Inductive(Good, S, size)
      BY <2>1 DEF Inductive
    <2>3. \A m \in S : m \in Good
      <3> HIDE DEF S, size
      <3> QED BY <1>2, <2>2, SizeInduction
    <2> QED BY <2>3 DEF Good
  <1>10. Upto(texts) \in [S -> Seq(T)]
    <2> HIDE DEF S
    <2> QED BY <1>8, <1>9
  <1>11. Upto(texts)[0] = <<>>
    BY <1>1, <1>8
  <1>12. \A k \in 1..Len(texts) : Upto(texts)[k] = Upto(texts)[k - 1] \o texts[k]
    <2> SUFFICES ASSUME NEW k \in 1..Len(texts) PROVE Upto(texts)[k] = Upto(texts)[k - 1] \o texts[k]
      OBVIOUS
    <2>1. k \in S /\ k # 0
      BY <1>1
    <2> HIDE DEF S
    <2> QED BY <1>8, <2>1
  <1> QED BY <1>10, <1>11, <1>12

LEMMA BeginsIs ==
  ASSUME NEW p \in Seq(Chars)
  PROVE  /\ \A k \in 0..Len(p) : Begins(p)[k] \in BOOLEAN
         /\ Begins(p)[0] = FALSE
         /\ \A k \in 1..Len(p) :
              Begins(p)[k] <=> k < Len(p) /\ p[k] = Percent /\ ~Begins(p)[k - 1]
  <1> DEFINE S == 0..Len(p)
             size == [k \in S |-> k]
             next == [k \in S |-> IF k = 0 THEN 0 ELSE k - 1]
             base == [k \in S |-> FALSE]
             comb == [k \in S |-> [b \in BOOLEAN |-> k > 0 /\ k < Len(p) /\ p[k] = Percent /\ ~b]]
             Body(f) == [k \in S |-> k > 0 /\ k < Len(p) /\ p[k] = Percent /\ ~f[k - 1]]
  <1>1. Len(p) \in Nat
    BY LenProperties
  <1>2. size \in [S -> Nat] /\ next \in [S -> S] /\ {0} \in SUBSET S
    BY <1>1
  <1>3. base \in [S -> BOOLEAN] /\ comb \in [S -> [BOOLEAN -> BOOLEAN]]
    OBVIOUS
  <1>5. \A k \in S \ {0} : size[next[k]] < size[k]
    BY <1>1
  <1>6. PICK f \in [S -> BOOLEAN] :
          \A k \in S : f[k] = IF k \in {0} THEN base[k] ELSE comb[k][f[next[k]]]
    <2> HIDE DEF S, size, next, base, comb
    <2>1. Recurs(S, BOOLEAN, size, next, {0}, base, comb)
      BY <1>2, <1>3, <1>5 DEF Recurs
    <2> QED BY <2>1, Recursion
  <1>7. f = Body(f)
    <2>1. ASSUME NEW k \in S PROVE f[k] = (k > 0 /\ k < Len(p) /\ p[k] = Percent /\ ~f[k - 1])
      <3>1. CASE k = 0
        <4>1. f[k] = FALSE
          BY <1>6, <3>1
        <4> QED BY <3>1, <4>1
      <3>2. CASE k # 0
        <4>1. k - 1 \in S /\ next[k] = k - 1 /\ f[k - 1] \in BOOLEAN
          BY <1>1, <3>2
        <4>2. comb[k][f[k - 1]] = (k > 0 /\ k < Len(p) /\ p[k] = Percent /\ ~f[k - 1])
          BY <4>1, Zenon
        <4> HIDE DEF comb, next, S
        <4> QED BY <1>6, <3>2, <4>1, <4>2
      <3> QED BY <3>1, <3>2
    <2> QED BY <2>1, Zenon
  <1>8. Begins(p) = Body(Begins(p))
    BY <1>7, Zenon DEF Begins
  <1>9. \A k \in S : Begins(p)[k] = (k > 0 /\ k < Len(p) /\ p[k] = Percent /\ ~Begins(p)[k - 1])
    BY <1>8, Zenon
  <1>10. 0 \in S /\ ~(0 > 0) /\ \A k \in 1..Len(p) : k \in S /\ k > 0
    BY <1>1
  <1> HIDE DEF S
  <1>11. \A k \in S : Begins(p)[k] \in BOOLEAN
    BY <1>9, Zenon
  <1>12. Begins(p)[0] = FALSE
    BY <1>9, <1>10, Zenon
  <1>13. \A k \in 1..Len(p) : Begins(p)[k] <=> k < Len(p) /\ p[k] = Percent /\ ~Begins(p)[k - 1]
    BY <1>9, <1>10, Zenon
  <1> QED BY <1>11, <1>12, <1>13, Zenon DEF S

LEMMA FindIs ==
  ASSUME NEW p \in Seq(Chars)
  PROVE  /\ find(p) \in 0..Len(p)
         /\ find(p) = 0 => \A k \in 1..Len(p) : p[k] # Percent
         /\ find(p) # 0 => /\ p[find(p)] = Percent
                           /\ \A k \in 1..(find(p) - 1) : p[k] # Percent
  <1>1. Len(p) \in Nat /\ DOMAIN p = 1..Len(p)
    BY LenProperties
  <1>2. CASE \E k \in DOMAIN p : p[k] = Percent
    <2> DEFINE I == {k \in DOMAIN p : p[k] = Percent}
    <2>1. I \in SUBSET Nat /\ I # {}
      BY <1>1, <1>2
    <2> HIDE DEF I
    <2>2. PICK k \in I : \A m \in I : k <= m
      BY <2>1, Least
    <2>3. k \in 1..Len(p) /\ p[k] = Percent
      BY <1>1 DEF I
    <2>4. ASSUME NEW m \in 1..(k - 1) PROVE p[m] # Percent
      <3>1. m \in 1..Len(p) /\ ~(k <= m)
        BY <1>1, <2>3
      <3> QED BY <1>1, <2>2, <3>1 DEF I
    <2>5. \E i \in DOMAIN p : p[i] = Percent /\ \A j \in 1..(i - 1) : p[j] # Percent
      BY <1>1, <2>3, <2>4
    <2>6. /\ find(p) \in DOMAIN p /\ p[find(p)] = Percent
          /\ \A j \in 1..(find(p) - 1) : p[j] # Percent
      BY <1>2, <2>5, Zenon DEF find
    <2> QED BY <1>1, <2>6
  <1>3. CASE ~\E k \in DOMAIN p : p[k] = Percent
    BY <1>1, <1>3 DEF find
  <1> QED BY <1>2, <1>3

-----------------------------------------------------------------------------
(* What a round of init does.                                              *)

LogItem == [type : {0, 1}, str : Seq(Chars)]

Last(p)  == find(p) \in {0, Len(p)}
Whole(p) == IF p = <<>> THEN <<>> ELSE <<Literal(p)>>
First(p) == IF p[find(p) + 1] \in Letters
              THEN Append(before(p, find(p)), Directive(p[find(p) + 1]))
              ELSE <<Literal(SubSeq(p, 1, find(p)))>>
Rest(p)  == SubSeq(p, find(p) + 2, Len(p))

LEMMA RoundIs ==
  ASSUME NEW p \in Seq(Chars), ~Last(p)
  PROVE  /\ find(p) \in Nat /\ find(p) >= 1 /\ find(p) < Len(p) /\ Len(p) \in Nat
         /\ p[find(p)] = Percent /\ p[find(p) + 1] \in Chars
         /\ \A k \in 1..(find(p) - 1) : p[k] # Percent
         /\ First(p) \in Seq(LogItem)
         /\ Rest(p) \in Seq(Chars) /\ Len(Rest(p)) = Len(p) - find(p) - 1
         /\ \A k \in 1..Len(Rest(p)) : Rest(p)[k] = p[find(p) + 1 + k]
  <1> DEFINE pos == find(p)
  <1>1. Len(p) \in Nat /\ \A k \in 1..Len(p) : p[k] \in Chars
    BY LenProperties
  <1>2. /\ pos \in Nat /\ pos >= 1 /\ pos < Len(p)
        /\ p[pos] = Percent /\ \A k \in 1..(pos - 1) : p[k] # Percent
    BY <1>1, FindIs DEF Last
  <1> HIDE DEF pos
  <1>3. pos + 1 \in 1..Len(p) /\ p[pos + 1] \in Chars
    BY <1>1, <1>2
  <1>4. SubSeq(p, 1, pos) \in Seq(Chars) /\ SubSeq(p, 1, pos - 1) \in Seq(Chars)
    <2>1. \A k \in 1..pos : p[k] \in Chars
      BY <1>1, <1>2
    <2>2. \A k \in 1..(pos - 1) : p[k] \in Chars
      BY <1>1, <1>2
    <2>3. 1 \in Int /\ pos \in Int /\ pos - 1 \in Int
      BY <1>2
    <2> QED BY <2>1, <2>2, <2>3, SubSeqProperties
  <1>5. before(p, pos) \in Seq(LogItem)
    <2>1. Literal(SubSeq(p, 1, pos - 1)) \in LogItem
      BY <1>4 DEF Literal, LogItem
    <2> QED BY <2>1, EmptySeq DEF before
  <1>6. <<p[pos + 1]>> \in Seq(Chars)
    BY <1>3
  <1>7. Directive(p[pos + 1]) \in LogItem /\ Literal(SubSeq(p, 1, pos)) \in LogItem
    BY <1>4, <1>6 DEF Directive, Literal, LogItem
  <1>8. First(p) \in Seq(LogItem)
    BY <1>5, <1>7, AppendProperties DEF First, pos
  <1>9. /\ Rest(p) \in Seq(Chars) /\ Len(Rest(p)) = Len(p) - pos - 1
        /\ \A k \in 1..Len(Rest(p)) : Rest(p)[k] = p[pos + 1 + k]
    <2>1. Rest(p) = SubSeq(p, pos + 2, Len(p))
      BY DEF Rest, pos
    <2>2. \A k \in (pos + 2)..Len(p) : p[k] \in Chars
      BY <1>1, <1>2
    <2>3. /\ Rest(p) \in Seq(Chars)
          /\ Len(Rest(p)) = IF pos + 2 <= Len(p) THEN Len(p) - (pos + 2) + 1 ELSE 0
          /\ \A k \in 1..(Len(p) - (pos + 2) + 1) : Rest(p)[k] = p[(pos + 2) + k - 1]
      <3>1. pos + 2 \in Int /\ Len(p) \in Int
        BY <1>1, <1>2
      <3> QED BY <2>1, <2>2, <3>1, SubSeqProperties
    <2>4. Len(Rest(p)) = Len(p) - pos - 1
      BY <1>1, <1>2, <2>3
    <2>5. ASSUME NEW k \in 1..Len(Rest(p)) PROVE Rest(p)[k] = p[pos + 1 + k]
      <3>1. k \in 1..(Len(p) - (pos + 2) + 1) /\ (pos + 2) + k - 1 = pos + 1 + k
        BY <1>1, <1>2, <2>4
      <3> QED BY <2>3, <3>1
    <2> QED BY <2>3, <2>4, <2>5
  <1> QED BY <1>1, <1>2, <1>3, <1>8, <1>9 DEF pos

LEMMA WholeIs == ASSUME NEW p \in Seq(Chars) PROVE Whole(p) \in Seq(LogItem)
  <1>1. Literal(p) \in LogItem
    BY DEF Literal, LogItem
  <1> QED BY <1>1, EmptySeq DEF Whole

(* init makes items of the first round and of what is left.                *)
LEMMA MatchIs ==
  /\ \A p \in Seq(Chars) : matchItem[p] \in Seq(LogItem)
  /\ \A p \in Seq(Chars) :
       matchItem[p] = IF Last(p) THEN Whole(p) ELSE First(p) \o matchItem[Rest(p)]
  <1> DEFINE S == Seq(Chars)
             T == Seq(LogItem)
             size == [p \in S |-> Len(p)]
             next == [p \in S |-> IF Last(p) THEN p ELSE Rest(p)]
             stop == {p \in S : Last(p)}
             base == [p \in S |-> Whole(p)]
             comb == [p \in S |-> [m \in T |-> IF Last(p) THEN m ELSE First(p) \o m]]
             Body(f) == [q \in Seq(Chars) |->
               LET pos == find(q) IN
               IF q = <<>> THEN <<>>
               ELSE IF pos \in {0, Len(q)} THEN <<Literal(q)>>
               ELSE (IF q[pos + 1] \in Letters
                       THEN Append(before(q, pos), Directive(q[pos + 1]))
                       ELSE <<Literal(SubSeq(q, 1, pos))>>)
                    \o f[SubSeq(q, pos + 2, Len(q))]]
             Rounds(f) == [p \in S |-> IF Last(p) THEN Whole(p) ELSE First(p) \o f[Rest(p)]]
  <1>1. ASSUME NEW f PROVE Body(f) = Rounds(f)
    <2>1. ASSUME NEW p \in S PROVE Body(f)[p] = Rounds(f)[p]
      <3>1. CASE p = <<>>
        <4>1. Last(p)
          <5>1. p \in Seq(Chars) /\ Len(p) = 0
            BY <3>1, EmptySeq
          <5>2. find(p) \in 0..Len(p)
            BY <5>1, FindIs
          <5>3. find(p) = 0
            BY <5>1, <5>2
          <5> QED BY <5>3 DEF Last
        <4> QED BY <3>1, <4>1 DEF Whole
      <3>2. CASE p # <<>>
        BY <3>2 DEF Last, Whole, First, Rest
      <3> QED BY <3>1, <3>2
    <2> QED BY <2>1, Zenon
  <1>2. size \in [S -> Nat]
    BY LenProperties
  <1>3. next \in [S -> S] /\ base \in [S -> T]
    BY RoundIs, WholeIs
  <1>4. comb \in [S -> [T -> T]]
    <2>1. ASSUME NEW p \in S, NEW m \in T, ~Last(p) PROVE First(p) \o m \in T
      BY <2>1, RoundIs, ConcatProperties
    <2> QED BY <2>1
  <1>5. \A p \in S \ stop : size[next[p]] < size[p]
    <2> SUFFICES ASSUME NEW p \in S, ~Last(p) PROVE size[next[p]] < size[p]
      OBVIOUS
    <2>1. Len(Rest(p)) < Len(p) /\ Rest(p) \in S /\ next[p] = Rest(p)
      BY RoundIs
    <2> QED BY <2>1
  <1>6. PICK f \in [S -> T] : \A p \in S : f[p] = IF p \in stop THEN base[p] ELSE comb[p][f[next[p]]]
    <2> HIDE DEF S, T, size, next, stop, base, comb
    <2>1. Recurs(S, T, size, next, stop, base, comb)
      BY <1>2, <1>3, <1>4, <1>5 DEF Recurs
    <2> QED BY <2>1, Recursion
  <1>7. f = Rounds(f)
    <2>1. ASSUME NEW p \in S PROVE f[p] = IF Last(p) THEN Whole(p) ELSE First(p) \o f[Rest(p)]
      <3>1. CASE Last(p)
        BY <1>6, <3>1
      <3>2. CASE ~Last(p)
        <4>1. Rest(p) \in S /\ next[p] = Rest(p) /\ p \notin stop
          BY <3>2, RoundIs
        <4>2. f[Rest(p)] \in T
          <5> HIDE DEF S, T
          <5> QED BY <4>1
        <4>3. comb[p][f[Rest(p)]] = First(p) \o f[Rest(p)]
          BY <3>2, <4>2
        <4> HIDE DEF comb, next, stop, base, S, T
        <4> QED BY <1>6, <3>2, <4>1, <4>3
      <3> QED BY <3>1, <3>2
    <2> QED BY <2>1, Zenon
  <1>8. f = Body(f)
    BY <1>1, <1>7
  <1>9. matchItem = Body(matchItem)
    BY <1>8, Zenon DEF matchItem
  <1>10. matchItem = Rounds(matchItem)
    BY <1>1, <1>9
  <1>11. \A p \in S : matchItem[p] = IF Last(p) THEN Whole(p) ELSE First(p) \o matchItem[Rest(p)]
    BY <1>10, Zenon
  <1>12. \A p \in S : matchItem[p] \in T
    <2> DEFINE Good == {p \in S : matchItem[p] \in T}
    <2>1. ASSUME NEW p \in S, \A q \in S : size[q] < size[p] => q \in Good PROVE p \in Good
      <3>1. CASE Last(p)
        BY <1>11, <3>1, WholeIs
      <3>2. CASE ~Last(p)
        <4>1. Rest(p) \in S /\ size[Rest(p)] < size[p] /\ First(p) \in T
          BY <3>2, RoundIs
        <4>2. matchItem[Rest(p)] \in T
          BY <2>1, <4>1
        <4>3. First(p) \o matchItem[Rest(p)] \in T
          BY <4>1, <4>2, ConcatProperties
        <4> QED BY <1>11, <3>2, <4>3
      <3> QED BY <3>1, <3>2
    <2> HIDE DEF Good
    <2>2. Inductive(Good, S, size)
      BY <2>1 DEF Inductive
    <2>3. \A p \in S : p \in Good
      <3> HIDE DEF S, size
      <3> QED BY <1>2, <2>2, SizeInduction
    <2> QED BY <2>3 DEF Good
  <1> QED BY <1>11, <1>12

-----------------------------------------------------------------------------
(* Texts put together.                                                     *)

(* What holds of 0, and of k + 1 when of k, holds up to any number.        *)
LEMMA Counting ==
  ASSUME NEW m \in Nat, NEW G, 0 \in G, \A k \in 0..(m - 1) : k \in G => k + 1 \in G
  PROVE  \A k \in 0..m : k \in G
  <1> DEFINE size == [k \in 0..m |-> k]
  <1>1. size \in [0..m -> Nat]
    OBVIOUS
  <1>2. ASSUME NEW k \in 0..m, \A q \in 0..m : size[q] < size[k] => q \in G PROVE k \in G
    <2>1. CASE k = 0
      BY <2>1
    <2>2. CASE k # 0
      <3>1. k - 1 \in 0..(m - 1) /\ k - 1 \in 0..m /\ size[k - 1] < size[k] /\ (k - 1) + 1 = k
        BY <2>2
      <3>2. k - 1 \in G
        BY <1>2, <3>1
      <3>3. (k - 1) + 1 \in G
        BY <3>1, <3>2
      <3> QED BY <3>1, <3>3
    <2> QED BY <2>1, <2>2
  <1> HIDE DEF size
  <1>3. Inductive(G, 0..m, size)
    BY <1>2 DEF Inductive
  <1> QED BY <1>1, <1>3, SizeInduction

LEMMA JoinedIs ==
  ASSUME NEW T
  PROVE  /\ Joined(<<>>) = <<>>
         /\ \A s \in Seq(T) : Joined(<<s>>) = s
         /\ \A ss \in Seq(Seq(T)) : Joined(ss) \in Seq(T)
  <1>1. Joined(<<>>) = <<>>
    <2>1. <<>> \in Seq(Seq(T)) /\ Len(<<>>) = 0
      BY EmptySeq
    <2> QED BY <2>1, UptoIs DEF Joined
  <1>2. ASSUME NEW s \in Seq(T) PROVE Joined(<<s>>) = s
    <2>1. <<s>> \in Seq(Seq(T)) /\ Len(<<s>>) = 1 /\ <<s>>[1] = s
      OBVIOUS
    <2>2. Upto(<<s>>)[0] = <<>> /\ \A k \in 1..1 : Upto(<<s>>)[k] = Upto(<<s>>)[k - 1] \o <<s>>[k]
      BY <2>1, UptoIs
    <2>3. Upto(<<s>>)[1] = <<>> \o s
      <3>1. 1 \in 1..1 /\ 1 - 1 = 0
        OBVIOUS
      <3>2. Upto(<<s>>)[1] = Upto(<<s>>)[0] \o <<s>>[1]
        BY <2>2, <3>1
      <3> QED BY <2>1, <2>2, <3>2
    <2>4. <<>> \o s = s
      BY ConcatEmptySeq
    <2> QED BY <2>1, <2>3, <2>4 DEF Joined
  <1>3. ASSUME NEW ss \in Seq(Seq(T)) PROVE Joined(ss) \in Seq(T)
    <2>1. Len(ss) \in 0..Len(ss)
      BY LenProperties
    <2>2. Upto(ss) \in [0..Len(ss) -> Seq(T)]
      BY UptoIs
    <2> QED BY <2>1, <2>2 DEF Joined
  <1> QED BY <1>1, <1>2, <1>3

LEMMA JoinedConcat ==
  ASSUME NEW T, NEW a \in Seq(Seq(T)), NEW b \in Seq(Seq(T))
  PROVE  Joined(a \o b) = Joined(a) \o Joined(b)
  <1> DEFINE ab == a \o b
  <1>1. Len(a) \in Nat /\ Len(b) \in Nat
    BY LenProperties
  <1>2. /\ ab \in Seq(Seq(T)) /\ Len(ab) = Len(a) + Len(b)
        /\ \A k \in 1..Len(a) : ab[k] = a[k]
        /\ \A k \in 1..Len(b) : ab[Len(a) + k] = b[k]
    <2>1. /\ ab \in Seq(Seq(T)) /\ Len(ab) = Len(a) + Len(b)
          /\ \A k \in 1..(Len(a) + Len(b)) : ab[k] = IF k <= Len(a) THEN a[k] ELSE b[k - Len(a)]
      BY ConcatProperties
    <2> HIDE DEF ab
    <2>2. ASSUME NEW k \in 1..Len(b) PROVE ab[Len(a) + k] = b[k]
      <3>1. Len(a) + k \in 1..(Len(a) + Len(b)) /\ ~(Len(a) + k <= Len(a)) /\ (Len(a) + k) - Len(a) = k
        BY <1>1
      <3> QED BY <2>1, <3>1
    <2> QED BY <1>1, <2>1, <2>2
  <1> HIDE DEF ab
  <1>3. /\ Upto(ab)[0] = <<>> /\ Upto(a)[0] = <<>> /\ Upto(b)[0] = <<>>
        /\ \A k \in 1..Len(ab) : Upto(ab)[k] = Upto(ab)[k - 1] \o ab[k]
        /\ \A k \in 1..Len(a) : Upto(a)[k] = Upto(a)[k - 1] \o a[k]
        /\ \A k \in 1..Len(b) : Upto(b)[k] = Upto(b)[k - 1] \o b[k]
        /\ \A k \in 0..Len(a) : Upto(a)[k] \in Seq(T)
        /\ \A k \in 0..Len(b) : Upto(b)[k] \in Seq(T)
    BY <1>2, UptoIs
  <1>4. \A k \in 0..Len(a) : Upto(ab)[k] = Upto(a)[k]
    <2> DEFINE G == {k \in 0..Len(a) : Upto(ab)[k] = Upto(a)[k]}
    <2>1. 0 \in G
      BY <1>1, <1>3
    <2>2. ASSUME NEW k \in 0..(Len(a) - 1), k \in G PROVE k + 1 \in G
      <3>1. k + 1 \in 1..Len(a) /\ k + 1 \in 1..Len(ab) /\ k + 1 \in 0..Len(a) /\ (k + 1) - 1 = k
        BY <1>1, <1>2
      <3>2. Upto(ab)[k + 1] = Upto(ab)[k] \o a[k + 1] /\ Upto(a)[k + 1] = Upto(a)[k] \o a[k + 1]
        BY <1>2, <1>3, <3>1
      <3> QED BY <2>2, <3>1, <3>2
    <2> HIDE DEF G
    <2>3. \A k \in 0..Len(a) : k \in G
      BY <1>1, <2>1, <2>2, Counting
    <2> QED BY <2>3 DEF G
  <1>5. \A k \in 0..Len(b) : Upto(ab)[Len(a) + k] = Joined(a) \o Upto(b)[k]
    <2> DEFINE G == {k \in 0..Len(b) : Upto(ab)[Len(a) + k] = Joined(a) \o Upto(b)[k]}
    <2>0. Joined(a) \in Seq(T) /\ Joined(a) = Upto(a)[Len(a)]
      BY JoinedIs DEF Joined
    <2>1. 0 \in G
      <3>1. Upto(ab)[Len(a)] = Joined(a) /\ Len(a) + 0 = Len(a)
        BY <1>1, <1>4, <2>0
      <3>2. Joined(a) \o <<>> = Joined(a)
        BY <2>0, ConcatEmptySeq
      <3>3. Upto(ab)[Len(a) + 0] = Joined(a) \o Upto(b)[0]
        BY <1>3, <3>1, <3>2
      <3>4. 0 \in 0..Len(b)
        BY <1>1
      <3> QED BY <3>3, <3>4
    <2>2. ASSUME NEW k \in 0..(Len(b) - 1), k \in G PROVE k + 1 \in G
      <3>1. /\ k + 1 \in 1..Len(b) /\ k + 1 \in 0..Len(b) /\ (k + 1) - 1 = k /\ k \in 0..Len(b)
            /\ Len(a) + (k + 1) \in 1..Len(ab) /\ (Len(a) + (k + 1)) - 1 = Len(a) + k
        BY <1>1, <1>2
      <3>2. Upto(ab)[Len(a) + (k + 1)] = Upto(ab)[Len(a) + k] \o b[k + 1]
        BY <1>2, <1>3, <3>1
      <3>3. Upto(b)[k + 1] = Upto(b)[k] \o b[k + 1]
        BY <1>3, <3>1
      <3>4. Upto(b)[k] \in Seq(T) /\ b[k + 1] \in Seq(T)
        BY <1>3, <3>1, ElementOfSeq
      <3>5. (Joined(a) \o Upto(b)[k]) \o b[k + 1] = Joined(a) \o (Upto(b)[k] \o b[k + 1])
        <4>1. PICK x \in Seq(T), y \in Seq(T), z \in Seq(T) :
                x = Joined(a) /\ y = Upto(b)[k] /\ z = b[k + 1]
          BY <2>0, <3>4
        <4>2. (x \o y) \o z = x \o (y \o z)
          OBVIOUS
        <4> QED BY <4>1, <4>2
      <3> QED BY <2>2, <3>1, <3>2, <3>3, <3>5
    <2> HIDE DEF G
    <2>3. \A k \in 0..Len(b) : k \in G
      BY <1>1, <2>1, <2>2, Counting
    <2> QED BY <2>3 DEF G
  <1>6. Joined(ab) = Upto(ab)[Len(a) + Len(b)] /\ Joined(b) = Upto(b)[Len(b)] /\ Len(b) \in 0..Len(b)
    BY <1>1, <1>2 DEF Joined
  <1> QED BY <1>5, <1>6 DEF ab

(* Characters put together one by one.                                     *)
LEMMA JoinedSingles ==
  ASSUME NEW T, NEW s \in Seq(T)
  PROVE  /\ [k \in 1..Len(s) |-> <<s[k]>>] \in Seq(Seq(T))
         /\ Joined([k \in 1..Len(s) |-> <<s[k]>>]) = s
  <1> DEFINE ss == [k \in 1..Len(s) |-> <<s[k]>>]
             G == {k \in 0..Len(s) : Upto(ss)[k] \in Seq(T) /\ Len(Upto(ss)[k]) = k
                                     /\ \A i \in 1..k : Upto(ss)[k][i] = s[i]}
  <1>1. Len(s) \in Nat /\ \A k \in 1..Len(s) : s[k] \in T
    BY LenProperties
  <1>2. ss \in Seq(Seq(T)) /\ Len(ss) = Len(s) /\ \A k \in 1..Len(s) : ss[k] = <<s[k]>>
    <2>1. \A k \in 1..Len(s) : <<s[k]>> \in Seq(T)
      BY <1>1
    <2> QED BY <1>1, <2>1
  <1> HIDE DEF ss
  <1>3. Upto(ss)[0] = <<>> /\ \A k \in 1..Len(s) : Upto(ss)[k] = Upto(ss)[k - 1] \o <<s[k]>>
    BY <1>2, UptoIs
  <1>4. 0 \in G
    <2>1. Upto(ss)[0] \in Seq(T) /\ Len(Upto(ss)[0]) = 0
      BY <1>3, EmptySeq
    <2>2. 0 \in 0..Len(s) /\ ~\E i \in 1..0 : TRUE
      BY <1>1
    <2> QED BY <2>1, <2>2
  <1>5. ASSUME NEW k \in 0..(Len(s) - 1), k \in G PROVE k + 1 \in G
    <2>1. k + 1 \in 1..Len(s) /\ (k + 1) - 1 = k /\ k + 1 \in 0..Len(s) /\ k \in Nat
      BY <1>1
    <2> DEFINE u == Upto(ss)[k]
               v == Upto(ss)[k + 1]
    <2>2. v = u \o <<s[k + 1]>>
      BY <1>3, <2>1
    <2>3. u \in Seq(T) /\ Len(u) = k /\ \A i \in 1..k : u[i] = s[i]
      BY <1>5
    <2>4. <<s[k + 1]>> \in Seq(T) /\ Len(<<s[k + 1]>>) = 1 /\ <<s[k + 1]>>[1] = s[k + 1]
      BY <1>1, <2>1
    <2> HIDE DEF u, v
    <2>5. /\ v \in Seq(T) /\ Len(v) = k + 1
          /\ \A i \in 1..(k + 1) : v[i] = IF i <= k THEN u[i] ELSE <<s[k + 1]>>[i - k]
      BY <2>2, <2>3, <2>4, ConcatProperties
    <2>6. \A i \in 1..(k + 1) : v[i] = s[i]
      <3> SUFFICES ASSUME NEW i \in 1..(k + 1) PROVE v[i] = s[i]
        OBVIOUS
      <3>1. CASE i <= k
        BY <2>1, <2>3, <2>5, <3>1
      <3>2. CASE ~(i <= k)
        <4>1. i = k + 1 /\ i - k = 1
          BY <2>1, <3>2
        <4> QED BY <2>4, <2>5, <3>2, <4>1
      <3> QED BY <3>1, <3>2
    <2> QED BY <2>1, <2>5, <2>6 DEF v
  <1> HIDE DEF G
  <1>6. \A k \in 0..Len(s) : k \in G
    BY <1>1, <1>4, <1>5, Counting
  <1>7. Len(s) \in 0..Len(s)
    BY <1>1
  <1>8. Joined(ss) \in Seq(T) /\ Len(Joined(ss)) = Len(s) /\ \A i \in 1..Len(s) : Joined(ss)[i] = s[i]
    BY <1>2, <1>6, <1>7 DEF G, Joined
  <1>9. Joined(ss) = s
    BY <1>8, SeqEqual
  <1> QED BY <1>2, <1>9 DEF ss

-----------------------------------------------------------------------------
(* The parser is right: a round takes a pair and what is before it off the *)
(* pattern, of which the rest means what it means alone.                   *)

Text == Chars \cup {Error}

MeansSeq(p) == [k \in 1..Len(p) |-> Means(p, k)]
Pair(c)     == IF c \notin Letters THEN <<Percent>> ELSE IF c \in Known THEN <<c>> ELSE <<Error, c>>
Before(p)   == SubSeq(p, 1, find(p) - 1)

LEMMA PairIs == ASSUME NEW c \in Chars PROVE Pair(c) \in Seq(Text)
  <1>1. c \in Text /\ Percent \in Text /\ Error \in Text
    BY DEF Text, Chars
  <1> QED BY <1>1 DEF Pair

LEMMA MeansAre ==
  ASSUME NEW p \in Seq(Chars)
  PROVE  MeansSeq(p) \in Seq(Seq(Text)) /\ Len(MeansSeq(p)) = Len(p)
  <1>1. Len(p) \in Nat /\ \A k \in 1..Len(p) : p[k] \in Chars
    BY LenProperties
  <1>2. ASSUME NEW k \in 1..Len(p) PROVE Means(p, k) \in Seq(Text)
    <2>1. p[k] \in Text /\ Error \in Text
      BY <1>1 DEF Text
    <2>2. CASE Begins(p)[k - 1] \/ ~Begins(p)[k]
      BY <2>1, <2>2, EmptySeq DEF Means
    <2>3. CASE Begins(p)[k]
      <3>1. k < Len(p)
        BY <2>3, BeginsIs
      <3>2. k + 1 \in 1..Len(p)
        BY <1>1, <3>1
      <3>3. p[k + 1] \in Text
        BY <1>1, <3>2 DEF Text
      <3> QED BY <2>1, <3>3, EmptySeq DEF Means
    <2> QED BY <2>2, <2>3
  <1> QED BY <1>1, <1>2 DEF MeansSeq

LEMMA MeaningWhole ==
  ASSUME NEW p \in Seq(Chars), Last(p)
  PROVE  Meaning(p) = p
  <1>1. Len(p) \in Nat
    BY LenProperties
  <1>2. ASSUME NEW k \in 0..Len(p) PROVE ~Begins(p)[k]
    <2>1. CASE k = 0
      BY <2>1, BeginsIs
    <2>2. CASE k # 0
      <3>1. k \in 1..Len(p)
        BY <1>1, <2>2
      <3>2. k < Len(p) => p[k] # Percent
        <4>1. CASE find(p) = 0
          BY <3>1, <4>1, FindIs
        <4>2. CASE find(p) # 0
          <5>1. find(p) = Len(p)
            BY <4>2 DEF Last
          <5>2. k < Len(p) => k \in 1..(find(p) - 1)
            BY <1>1, <3>1, <5>1
          <5> QED BY <4>2, <5>2, FindIs
        <4> QED BY <4>1, <4>2
      <3> QED BY <3>1, <3>2, BeginsIs
    <2> QED BY <2>1, <2>2
  <1>3. ASSUME NEW k \in 1..Len(p) PROVE Means(p, k) = <<p[k]>>
    <2>1. k \in 0..Len(p) /\ k - 1 \in 0..Len(p)
      BY <1>1
    <2> QED BY <1>2, <2>1 DEF Means
  <1>4. [k \in 1..Len(p) |-> Means(p, k)] = [k \in 1..Len(p) |-> <<p[k]>>]
    BY <1>3
  <1> QED BY <1>4, JoinedSingles DEF Meaning

LEMMA BeforeIs ==
  ASSUME NEW p \in Seq(Chars), ~Last(p)
  PROVE  /\ Before(p) \in Seq(Chars) /\ Len(Before(p)) = find(p) - 1
         /\ \A k \in 1..(find(p) - 1) : Before(p)[k] = p[k]
  <1>1. find(p) \in Nat /\ find(p) >= 1 /\ find(p) < Len(p) /\ Len(p) \in Nat
    BY RoundIs
  <1>2. PICK m \in Nat : m = find(p) - 1
    BY <1>1
  <1>3. \A k \in 1..m : p[k] \in Chars
    BY <1>1, <1>2, LenProperties
  <1>4. /\ SubSeq(p, 1, m) \in Seq(Chars)
        /\ Len(SubSeq(p, 1, m)) = IF 1 <= m THEN m - 1 + 1 ELSE 0
        /\ \A k \in 1..(m - 1 + 1) : SubSeq(p, 1, m)[k] = p[1 + k - 1]
    <2>1. 1 \in Int /\ m \in Int
      OBVIOUS
    <2> QED BY <1>3, <2>1, SubSeqProperties
  <1>5. Len(SubSeq(p, 1, m)) = m
    BY <1>4
  <1>6. \A k \in 1..m : SubSeq(p, 1, m)[k] = p[k]
    <2> SUFFICES ASSUME NEW k \in 1..m PROVE SubSeq(p, 1, m)[k] = p[k]
      OBVIOUS
    <2>1. k \in 1..(m - 1 + 1) /\ 1 + k - 1 = k
      OBVIOUS
    <2> QED BY <1>4, <2>1
  <1> QED BY <1>2, <1>4, <1>5, <1>6 DEF Before

LEMMA MeansRound ==
  ASSUME NEW p \in Seq(Chars), ~Last(p)
  PROVE  LET pos == find(p) IN
         /\ \A k \in 1..(pos - 1) : Means(p, k) = <<p[k]>>
         /\ Means(p, pos) = Pair(p[pos + 1])
         /\ Means(p, pos + 1) = <<>>
         /\ \A k \in 1..Len(Rest(p)) : Means(p, pos + 1 + k) = Means(Rest(p), k)
  <1> DEFINE pos == find(p)
             r == Rest(p)
  <1>1. /\ pos \in Nat /\ pos >= 1 /\ pos < Len(p) /\ Len(p) \in Nat
        /\ p[pos] = Percent /\ p[pos + 1] \in Chars
        /\ \A k \in 1..(pos - 1) : p[k] # Percent
        /\ r \in Seq(Chars) /\ Len(r) = Len(p) - pos - 1
        /\ \A k \in 1..Len(r) : r[k] = p[pos + 1 + k]
    BY RoundIs
  <1> HIDE DEF pos, r
  <1>2. Len(r) \in Nat
    BY <1>1, LenProperties
  <1>3. /\ Begins(p)[0] = FALSE
        /\ \A k \in 1..Len(p) : Begins(p)[k] <=> k < Len(p) /\ p[k] = Percent /\ ~Begins(p)[k - 1]
        /\ Begins(r)[0] = FALSE
        /\ \A k \in 1..Len(r) : Begins(r)[k] <=> k < Len(r) /\ r[k] = Percent /\ ~Begins(r)[k - 1]
    BY <1>1, BeginsIs
  <1>4. ASSUME NEW k \in 0..(pos - 1) PROVE ~Begins(p)[k]
    <2>1. CASE k = 0
      BY <1>3, <2>1
    <2>2. CASE k # 0
      <3>1. k \in 1..(pos - 1) /\ k \in 1..Len(p)
        BY <1>1, <2>2
      <3> QED BY <1>1, <1>3, <3>1
    <2> QED BY <2>1, <2>2
  <1>5. Begins(p)[pos]
    <2>1. pos \in 1..Len(p) /\ pos - 1 \in 0..(pos - 1)
      BY <1>1
    <2> QED BY <1>1, <1>3, <1>4, <2>1
  <1>6. ~Begins(p)[pos + 1]
    <2>1. pos + 1 \in 1..Len(p) /\ (pos + 1) - 1 = pos
      BY <1>1
    <2>2. ~Begins(p)[(pos + 1) - 1] => FALSE
      BY <1>5, <2>1
    <2> QED BY <1>3, <2>1, <2>2
  <1>7. \A k \in 0..Len(r) : Begins(p)[pos + 1 + k] <=> Begins(r)[k]
    <2> DEFINE G == {k \in 0..Len(r) : Begins(p)[pos + 1 + k] <=> Begins(r)[k]}
    <2>1. 0 \in G
      <3>1. pos + 1 + 0 = pos + 1 /\ 0 \in 0..Len(r)
        BY <1>1, <1>2
      <3> QED BY <1>3, <1>6, <3>1
    <2>2. ASSUME NEW k \in 0..(Len(r) - 1), k \in G PROVE k + 1 \in G
      <3>1. /\ k + 1 \in 1..Len(r) /\ k + 1 \in 0..Len(r) /\ (k + 1) - 1 = k
            /\ pos + 1 + (k + 1) \in 1..Len(p) /\ (pos + 1 + (k + 1)) - 1 = pos + 1 + k
            /\ pos + 1 + (k + 1) < Len(p) <=> k + 1 < Len(r)
        BY <1>1, <1>2
      <3>2. Begins(p)[pos + 1 + k] <=> Begins(r)[k]
        BY <2>2
      <3>3. r[k + 1] = p[pos + 1 + (k + 1)]
        BY <1>1, <3>1
      <3>4. Begins(p)[pos + 1 + (k + 1)] <=> Begins(r)[k + 1]
        BY <1>3, <3>1, <3>2, <3>3
      <3> QED BY <3>1, <3>4
    <2> HIDE DEF G
    <2>3. \A k \in 0..Len(r) : k \in G
      BY <1>2, <2>1, <2>2, Counting
    <2> QED BY <2>3 DEF G
  <1>8. ASSUME NEW k \in 1..(pos - 1) PROVE Means(p, k) = <<p[k]>>
    <2>1. k \in 0..(pos - 1) /\ k - 1 \in 0..(pos - 1)
      BY <1>1
    <2> QED BY <1>4, <2>1 DEF Means
  <1>9. Means(p, pos) = Pair(p[pos + 1])
    <2>1. pos - 1 \in 0..(pos - 1)
      BY <1>1
    <2> QED BY <1>1, <1>4, <1>5, <2>1 DEF Means, Pair
  <1>10. Means(p, pos + 1) = <<>>
    <2>1. (pos + 1) - 1 = pos
      BY <1>1
    <2> QED BY <1>5, <2>1 DEF Means
  <1>11. ASSUME NEW k \in 1..Len(r) PROVE Means(p, pos + 1 + k) = Means(r, k)
    <2>1. /\ k \in 0..Len(r) /\ k - 1 \in 0..Len(r)
          /\ (pos + 1 + k) - 1 = pos + 1 + (k - 1) /\ (pos + 1 + k) + 1 = pos + 1 + (k + 1)
      BY <1>1, <1>2
    <2>2. /\ Begins(p)[pos + 1 + k] <=> Begins(r)[k]
          /\ Begins(p)[(pos + 1 + k) - 1] <=> Begins(r)[k - 1]
      BY <1>7, <2>1
    <2>3. p[pos + 1 + k] = r[k]
      BY <1>1
    <2>4. Begins(r)[k] => p[(pos + 1 + k) + 1] = r[k + 1]
      <3>1. Begins(r)[k] => k + 1 \in 1..Len(r)
        BY <1>2, <1>3
      <3> QED BY <1>1, <2>1, <3>1
    <2> QED BY <2>2, <2>3, <2>4 DEF Means
  <1> QED BY <1>8, <1>9, <1>10, <1>11 DEF pos, r

LEMMA MeaningRound ==
  ASSUME NEW p \in Seq(Chars), ~Last(p)
  PROVE  Meaning(p) = Before(p) \o (Pair(p[find(p) + 1]) \o Meaning(Rest(p)))
  <1> DEFINE pos == find(p)
             b == Before(p)
             r == Rest(p)
             w == Pair(p[pos + 1])
             ones == [k \in 1..Len(b) |-> <<b[k]>>]
             pair == <<w, <<>>>>
  <1>1. /\ pos \in Nat /\ pos >= 1 /\ pos < Len(p) /\ Len(p) \in Nat /\ p[pos + 1] \in Chars
        /\ r \in Seq(Chars) /\ Len(r) = Len(p) - pos - 1 /\ Len(r) \in Nat
    BY RoundIs, LenProperties
  <1>2. /\ b \in Seq(Chars) /\ b \in Seq(Text) /\ Len(b) = pos - 1
        /\ \A k \in 1..(pos - 1) : b[k] = p[k]
    <2>1. Chars \subseteq Text
      BY DEF Text
    <2>2. b \in Seq(Chars) /\ Len(b) = pos - 1 /\ \A k \in 1..(pos - 1) : b[k] = p[k]
      BY BeforeIs
    <2> HIDE DEF b
    <2>3. b \in Seq(Text)
      BY <2>1, <2>2
    <2> QED BY <2>2, <2>3
  <1>3. w \in Seq(Text)
    BY <1>1, PairIs
  <1>4. /\ \A k \in 1..(pos - 1) : Means(p, k) = <<p[k]>>
        /\ Means(p, pos) = w /\ Means(p, pos + 1) = <<>>
        /\ \A k \in 1..Len(r) : Means(p, pos + 1 + k) = Means(r, k)
    BY MeansRound
  <1>5. /\ MeansSeq(p) \in Seq(Seq(Text)) /\ Len(MeansSeq(p)) = Len(p)
        /\ MeansSeq(r) \in Seq(Seq(Text)) /\ Len(MeansSeq(r)) = Len(r)
        /\ \A k \in 1..Len(p) : MeansSeq(p)[k] = Means(p, k)
        /\ \A k \in 1..Len(r) : MeansSeq(r)[k] = Means(r, k)
    <2>1. /\ MeansSeq(p) \in Seq(Seq(Text)) /\ Len(MeansSeq(p)) = Len(p)
          /\ MeansSeq(r) \in Seq(Seq(Text)) /\ Len(MeansSeq(r)) = Len(r)
      BY <1>1, MeansAre
    <2> QED BY <2>1 DEF MeansSeq
  <1> HIDE DEF pos, b, r, w
  <1>6. /\ ones \in Seq(Seq(Text)) /\ Len(ones) = pos - 1 /\ Joined(ones) = b
        /\ \A k \in 1..(pos - 1) : ones[k] = <<p[k]>>
    <2>1. ones \in Seq(Seq(Text)) /\ Joined(ones) = b
      BY <1>2, JoinedSingles
    <2>2. Len(ones) = pos - 1 /\ \A k \in 1..(pos - 1) : ones[k] = <<p[k]>>
      BY <1>1, <1>2
    <2> QED BY <2>1, <2>2
  <1>7. /\ pair \in Seq(Seq(Text)) /\ Len(pair) = 2 /\ pair[1] = w /\ pair[2] = <<>>
        /\ Joined(pair) = w
    <2>1. <<>> \in Seq(Text) /\ <<w>> \in Seq(Seq(Text)) /\ <<<<>>>> \in Seq(Seq(Text))
      BY <1>3, EmptySeq
    <2>2. pair = <<w>> \o <<<<>>>>
      OBVIOUS
    <2>3. Joined(pair) = Joined(<<w>>) \o Joined(<<<<>>>>)
      BY <2>1, <2>2, JoinedConcat
    <2>4. Joined(<<w>>) = w /\ Joined(<<<<>>>>) = <<>>
      BY <1>3, <2>1, JoinedIs
    <2>5. w \o <<>> = w
      BY <1>3, ConcatEmptySeq
    <2>6. pair \in Seq(Seq(Text))
      BY <2>1, <2>2, ConcatProperties
    <2>7. Len(pair) = 2 /\ pair[1] = w /\ pair[2] = <<>>
      OBVIOUS
    <2> HIDE DEF pair
    <2> QED BY <2>3, <2>4, <2>5, <2>6, <2>7
  <1> HIDE DEF ones, pair
  <1> DEFINE tail == pair \o MeansSeq(r)
             all == ones \o tail
  <1>8. /\ tail \in Seq(Seq(Text)) /\ Len(tail) = 2 + Len(r)
        /\ \A k \in 1..(2 + Len(r)) : tail[k] = IF k <= 2 THEN pair[k] ELSE MeansSeq(r)[k - 2]
    <2>1. /\ tail \in Seq(Seq(Text)) /\ Len(tail) = Len(pair) + Len(MeansSeq(r))
          /\ \A k \in 1..(Len(pair) + Len(MeansSeq(r))) :
               tail[k] = IF k <= Len(pair) THEN pair[k] ELSE MeansSeq(r)[k - Len(pair)]
      <3>1. pair \in Seq(Seq(Text)) /\ MeansSeq(r) \in Seq(Seq(Text))
        BY <1>5, <1>7
      <3> QED BY <3>1, ConcatProperties
    <2> HIDE DEF tail
    <2> QED BY <1>5, <1>7, <2>1
  <1> HIDE DEF tail
  <1>9. /\ all \in Seq(Seq(Text)) /\ Len(all) = (pos - 1) + (2 + Len(r))
        /\ \A k \in 1..((pos - 1) + (2 + Len(r))) :
             all[k] = IF k <= pos - 1 THEN ones[k] ELSE tail[k - (pos - 1)]
    <2>1. /\ all \in Seq(Seq(Text)) /\ Len(all) = Len(ones) + Len(tail)
          /\ \A k \in 1..(Len(ones) + Len(tail)) :
               all[k] = IF k <= Len(ones) THEN ones[k] ELSE tail[k - Len(ones)]
      BY <1>6, <1>8, ConcatProperties
    <2> HIDE DEF all
    <2> QED BY <1>6, <1>8, <2>1
  <1> HIDE DEF all
  <1>10. ASSUME NEW k \in 1..Len(p) PROVE all[k] = MeansSeq(p)[k]
    <2>0. k \in 1..((pos - 1) + (2 + Len(r))) /\ MeansSeq(p)[k] = Means(p, k)
      BY <1>1, <1>5
    <2>1. CASE k <= pos - 1
      <3>1. k \in 1..(pos - 1)
        BY <1>1, <2>1
      <3> QED BY <1>4, <1>6, <1>9, <2>0, <2>1, <3>1
    <2>2. CASE k = pos
      <3>1. ~(k <= pos - 1) /\ k - (pos - 1) = 1 /\ 1 \in 1..(2 + Len(r)) /\ 1 <= 2
        BY <1>1, <2>2
      <3> QED BY <1>4, <1>7, <1>8, <1>9, <2>0, <2>2, <3>1
    <2>3. CASE k = pos + 1
      <3>1. ~(k <= pos - 1) /\ k - (pos - 1) = 2 /\ 2 \in 1..(2 + Len(r)) /\ 2 <= 2
        BY <1>1, <2>3
      <3> QED BY <1>4, <1>7, <1>8, <1>9, <2>0, <2>3, <3>1
    <2>4. CASE k > pos + 1
      <3>1. PICK i \in 1..Len(r) : k = pos + 1 + i
        <4>1. k - (pos + 1) \in 1..Len(r) /\ k = pos + 1 + (k - (pos + 1))
          BY <1>1, <2>4
        <4> QED BY <4>1
      <3>2. /\ ~(k <= pos - 1) /\ k - (pos - 1) = 2 + i /\ 2 + i \in 1..(2 + Len(r))
            /\ ~(2 + i <= 2) /\ (2 + i) - 2 = i
        BY <1>1, <3>1
      <3>3. all[k] = MeansSeq(r)[i]
        BY <1>8, <1>9, <2>0, <3>2
      <3> QED BY <1>4, <1>5, <2>0, <3>1, <3>3
    <2> QED BY <1>1, <2>1, <2>2, <2>3, <2>4
  <1>11. all = MeansSeq(p)
    <2>1. Len(all) = Len(MeansSeq(p)) /\ Len(all) = Len(p)
      BY <1>1, <1>5, <1>9
    <2> QED BY <1>5, <1>9, <1>10, <2>1, SeqEqual
  <1>12. Joined(all) = Joined(ones) \o Joined(tail) /\ Joined(tail) = Joined(pair) \o Joined(MeansSeq(r))
    BY <1>5, <1>6, <1>7, <1>8, JoinedConcat DEF all, tail
  <1>13. Meaning(p) = Joined(MeansSeq(p)) /\ Meaning(r) = Joined(MeansSeq(r))
    BY DEF Meaning, MeansSeq
  <1>14. Meaning(p) = b \o (w \o Meaning(r))
    BY <1>6, <1>7, <1>11, <1>12, <1>13
  <1> QED BY <1>14 DEF b, w, r, pos

(* The texts of some items.                                                *)
Texts(m) == [k \in DOMAIN m |-> Written(m[k])]

LEMMA WrittenIs == ASSUME NEW x \in LogItem PROVE Written(x) \in Seq(Text)
  <1>1. x.type \in {0, 1} /\ x.str \in Seq(Chars) /\ Chars \subseteq Text /\ Error \in Text
    BY DEF LogItem, Text
  <1>2. x.str \in Seq(Text)
    BY <1>1
  <1>3. CASE x.type = 1 /\ x.str[1] \in Unknown
    <2>1. x.str[1] \in Text
      BY <1>3 DEF Text, Chars, Letters
    <2> QED BY <1>1, <1>3, <2>1 DEF Written
  <1>4. CASE ~(x.type = 1 /\ x.str[1] \in Unknown)
    BY <1>2, <1>4 DEF Written
  <1> QED BY <1>3, <1>4

LEMMA TextsAre ==
  /\ \A m \in Seq(LogItem) : Texts(m) \in Seq(Seq(Text))
  /\ \A l, m \in Seq(LogItem) : Texts(l \o m) = Texts(l) \o Texts(m)
  <1>1. ASSUME NEW m \in Seq(LogItem)
        PROVE  /\ Texts(m) \in Seq(Seq(Text)) /\ Len(Texts(m)) = Len(m)
               /\ \A k \in 1..Len(m) : Texts(m)[k] = Written(m[k])
    <2>1. Len(m) \in Nat /\ DOMAIN m = 1..Len(m) /\ \A k \in 1..Len(m) : m[k] \in LogItem
      BY LenProperties
    <2>2. \A k \in 1..Len(m) : Written(m[k]) \in Seq(Text)
      BY <2>1, WrittenIs
    <2> QED BY <2>1, <2>2 DEF Texts
  <1>2. ASSUME NEW l \in Seq(LogItem), NEW m \in Seq(LogItem) PROVE Texts(l \o m) = Texts(l) \o Texts(m)
    <2> DEFINE lm == l \o m
               tt == Texts(l) \o Texts(m)
    <2>0. Len(l) \in Nat /\ Len(m) \in Nat
      BY LenProperties
    <2>1. /\ lm \in Seq(LogItem) /\ Len(lm) = Len(l) + Len(m)
          /\ \A k \in 1..(Len(l) + Len(m)) : lm[k] = IF k <= Len(l) THEN l[k] ELSE m[k - Len(l)]
      BY ConcatProperties
    <2>2. /\ Texts(l) \in Seq(Seq(Text)) /\ Len(Texts(l)) = Len(l)
          /\ Texts(m) \in Seq(Seq(Text)) /\ Len(Texts(m)) = Len(m)
          /\ \A k \in 1..Len(l) : Texts(l)[k] = Written(l[k])
          /\ \A k \in 1..Len(m) : Texts(m)[k] = Written(m[k])
      BY <1>1
    <2>3. /\ tt \in Seq(Seq(Text)) /\ Len(tt) = Len(Texts(l)) + Len(Texts(m))
          /\ \A k \in 1..(Len(Texts(l)) + Len(Texts(m))) :
               tt[k] = IF k <= Len(Texts(l)) THEN Texts(l)[k] ELSE Texts(m)[k - Len(Texts(l))]
      <3>1. Texts(l) \in Seq(Seq(Text)) /\ Texts(m) \in Seq(Seq(Text))
        BY <2>2
      <3> QED BY <3>1, ConcatProperties
    <2> HIDE DEF lm, tt
    <2>4. /\ Texts(lm) \in Seq(Seq(Text)) /\ Len(Texts(lm)) = Len(l) + Len(m)
          /\ \A k \in 1..(Len(l) + Len(m)) : Texts(lm)[k] = Written(lm[k])
      BY <1>1, <2>1
    <2>5. ASSUME NEW k \in 1..(Len(l) + Len(m)) PROVE Texts(lm)[k] = tt[k]
      <3>1. CASE k <= Len(l)
        <4>1. k \in 1..Len(l)
          BY <2>0, <3>1
        <4> QED BY <2>1, <2>2, <2>3, <2>4, <3>1, <4>1
      <3>2. CASE ~(k <= Len(l))
        <4>1. k - Len(l) \in 1..Len(m)
          BY <2>0, <3>2
        <4> QED BY <2>1, <2>2, <2>3, <2>4, <3>2, <4>1
      <3> QED BY <3>1, <3>2
    <2>6. Texts(lm) = tt
      <3>1. Len(Texts(lm)) = Len(tt)
        BY <2>2, <2>3, <2>4
      <3> QED BY <2>3, <2>4, <2>5, <3>1, SeqEqual
    <2> QED BY <2>6 DEF lm, tt
  <1> QED BY <1>1, <1>2

LEMMA LiteralIs ==
  ASSUME NEW s \in Seq(Chars)
  PROVE  <<Literal(s)>> \in Seq(LogItem) /\ Texts(<<Literal(s)>>) = <<s>> /\ s \in Seq(Text)
  <1>1. Literal(s) \in LogItem /\ Literal(s).type = 0 /\ Literal(s).str = s
    BY DEF Literal, LogItem
  <1>2. Written(Literal(s)) = s
    BY <1>1 DEF Written
  <1>3. Texts(<<Literal(s)>>) = <<Written(Literal(s))>>
    BY DEF Texts
  <1>4. Chars \subseteq Text
    BY DEF Text
  <1>5. s \in Seq(Text)
    BY <1>4
  <1> QED BY <1>1, <1>2, <1>3, <1>5

LEMMA DirectiveIs ==
  ASSUME NEW c \in Letters
  PROVE  <<Directive(c)>> \in Seq(LogItem) /\ Texts(<<Directive(c)>>) = <<Pair(c)>>
  <1>1. <<c>> \in Seq(Chars) /\ <<c>>[1] = c
    BY DEF Chars
  <1>2. Directive(c) \in LogItem /\ Directive(c).type = 1 /\ Directive(c).str = <<c>>
    BY <1>1 DEF Directive, LogItem
  <1>3. c \in Unknown <=> c \notin Known
    BY PatternAssumption DEF Letters
  <1>4. Written(Directive(c)) = Pair(c)
    BY <1>1, <1>2, <1>3 DEF Written, Pair
  <1>5. Texts(<<Directive(c)>>) = <<Written(Directive(c))>>
    BY DEF Texts
  <1> QED BY <1>2, <1>4, <1>5

(* A round's items say what was before the pair, and the pair.             *)
LEMMA FirstSays ==
  ASSUME NEW p \in Seq(Chars), ~Last(p)
  PROVE  Joined(Texts(First(p))) = Before(p) \o Pair(p[find(p) + 1])
  <1> DEFINE pos == find(p)
             c == p[pos + 1]
  <1>1. /\ pos \in Nat /\ pos >= 1 /\ pos < Len(p) /\ Len(p) \in Nat
        /\ p[pos] = Percent /\ c \in Chars
    BY RoundIs
  <1>2. /\ Before(p) \in Seq(Chars) /\ Len(Before(p)) = pos - 1
        /\ \A k \in 1..(pos - 1) : Before(p)[k] = p[k]
    BY BeforeIs
  <1>3. Pair(c) \in Seq(Text)
    BY <1>1, PairIs
  <1>4. Before(p) = SubSeq(p, 1, pos - 1)
    BY DEF Before
  <1>5. First(p) = IF c \in Letters THEN Append(before(p, pos), Directive(c))
                   ELSE <<Literal(SubSeq(p, 1, pos))>>
    BY DEF First
  <1> HIDE DEF pos, c
  <1>6. CASE c \in Letters
    <2>1. /\ before(p, pos) \in Seq(LogItem) /\ Texts(before(p, pos)) \in Seq(Seq(Text))
          /\ Joined(Texts(before(p, pos))) = Before(p)
      <3>1. CASE pos = 1
        <4>1. before(p, pos) = <<>> /\ Texts(<<>>) = <<>>
          BY <3>1 DEF before, Texts
        <4>2. Before(p) = <<>>
          BY <1>2, <3>1, EmptySeq
        <4>3. Joined(<<>>) = <<>>
          BY JoinedIs
        <4> QED BY <4>1, <4>2, <4>3, EmptySeq
      <3>2. CASE pos # 1
        <4>1. before(p, pos) = <<Literal(Before(p))>>
          BY <1>4, <3>2 DEF before
        <4>2. /\ <<Literal(Before(p))>> \in Seq(LogItem) /\ Texts(<<Literal(Before(p))>>) = <<Before(p)>>
              /\ Before(p) \in Seq(Text)
          BY <1>2, LiteralIs
        <4>3. Joined(<<Before(p)>>) = Before(p)
          BY <4>2, JoinedIs
        <4>4. <<Before(p)>> \in Seq(Seq(Text))
          BY <4>2
        <4> QED BY <4>1, <4>2, <4>3, <4>4
      <3> QED BY <3>1, <3>2
    <2>2. <<Directive(c)>> \in Seq(LogItem) /\ Texts(<<Directive(c)>>) = <<Pair(c)>>
      BY <1>6, DirectiveIs
    <2>3. First(p) = before(p, pos) \o <<Directive(c)>>
      <3>1. Directive(c) \in LogItem
        BY <2>2, ElementOfSeq
      <3>2. Append(before(p, pos), Directive(c)) = before(p, pos) \o <<Directive(c)>>
        BY <2>1, <3>1, AppendIsConcat
      <3> QED BY <1>5, <1>6, <3>2
    <2>4. Texts(First(p)) = Texts(before(p, pos)) \o <<Pair(c)>>
      BY <2>1, <2>2, <2>3, TextsAre
    <2>5. <<Pair(c)>> \in Seq(Seq(Text)) /\ Joined(<<Pair(c)>>) = Pair(c)
      BY <1>3, JoinedIs
    <2>6. Joined(Texts(First(p))) = Joined(Texts(before(p, pos))) \o Joined(<<Pair(c)>>)
      BY <2>1, <2>4, <2>5, JoinedConcat
    <2>7. Joined(Texts(First(p))) = Before(p) \o Pair(c)
      BY <2>1, <2>5, <2>6
    <2> QED BY <2>7 DEF pos, c
  <1>7. CASE c \notin Letters
    <2>1. Pair(c) = <<Percent>>
      BY <1>7 DEF Pair
    <2>2. /\ SubSeq(p, 1, pos) \in Seq(Chars) /\ Len(SubSeq(p, 1, pos)) = pos
          /\ \A k \in 1..pos : SubSeq(p, 1, pos)[k] = p[k]
      <3>1. \A k \in 1..pos : p[k] \in Chars
        BY <1>1, LenProperties
      <3>2. 1 \in Int /\ pos \in Int
        BY <1>1
      <3>3. /\ SubSeq(p, 1, pos) \in Seq(Chars)
            /\ Len(SubSeq(p, 1, pos)) = IF 1 <= pos THEN pos - 1 + 1 ELSE 0
            /\ \A k \in 1..(pos - 1 + 1) : SubSeq(p, 1, pos)[k] = p[1 + k - 1]
        BY <3>1, <3>2, SubSeqProperties
      <3>4. Len(SubSeq(p, 1, pos)) = pos
        BY <1>1, <3>3
      <3>5. ASSUME NEW k \in 1..pos PROVE SubSeq(p, 1, pos)[k] = p[k]
        <4>1. k \in 1..(pos - 1 + 1) /\ 1 + k - 1 = k
          BY <1>1
        <4> QED BY <3>3, <4>1
      <3> QED BY <3>3, <3>4, <3>5
    <2>3. SubSeq(p, 1, pos) = Before(p) \o <<Percent>>
      <3> DEFINE bp == Before(p) \o <<Percent>>
      <3>1. <<Percent>> \in Seq(Chars) /\ Len(<<Percent>>) = 1 /\ <<Percent>>[1] = Percent
        BY DEF Chars
      <3>2. /\ bp \in Seq(Chars) /\ Len(bp) = Len(Before(p)) + 1
            /\ \A k \in 1..(Len(Before(p)) + 1) :
                 bp[k] = IF k <= Len(Before(p)) THEN Before(p)[k] ELSE <<Percent>>[k - Len(Before(p))]
        BY <1>2, <3>1, ConcatProperties
      <3> HIDE DEF bp
      <3>3. Len(bp) = pos
        BY <1>1, <1>2, <3>2
      <3>4. ASSUME NEW k \in 1..pos PROVE SubSeq(p, 1, pos)[k] = bp[k]
        <4>0. k \in 1..(Len(Before(p)) + 1)
          BY <1>1, <1>2
        <4>1. CASE k <= pos - 1
          <5>1. k \in 1..(pos - 1)
            BY <1>1, <4>1
          <5> QED BY <1>2, <2>2, <3>2, <4>0, <4>1, <5>1
        <4>2. CASE ~(k <= pos - 1)
          <5>1. k = pos /\ k - (pos - 1) = 1
            BY <1>1, <4>2
          <5> QED BY <1>1, <1>2, <2>2, <3>1, <3>2, <4>0, <4>2, <5>1
        <4> QED BY <4>1, <4>2
      <3>5. SubSeq(p, 1, pos) = bp
        BY <2>2, <3>2, <3>3, <3>4, SeqEqual
      <3> QED BY <3>5 DEF bp
    <2>4. First(p) = <<Literal(SubSeq(p, 1, pos))>>
      BY <1>5, <1>7
    <2>5. Texts(First(p)) = <<SubSeq(p, 1, pos)>> /\ SubSeq(p, 1, pos) \in Seq(Text)
      BY <2>2, <2>4, LiteralIs
    <2>6. Joined(Texts(First(p))) = SubSeq(p, 1, pos)
      BY <2>5, JoinedIs
    <2> QED BY <2>1, <2>3, <2>6 DEF pos, c
  <1> QED BY <1>6, <1>7

(* Where an error is written, and which items write one.                   *)
Says(s) == \E k \in DOMAIN s : s[k] = Error
Bad(m)  == \E k \in DOMAIN m : m[k].type = 1 /\ m[k].str[1] \in Unknown

LEMMA SaysConcat ==
  ASSUME NEW s \in Seq(Text), NEW u \in Seq(Text)
  PROVE  Says(s \o u) <=> Says(s) \/ Says(u)
  <1> DEFINE su == s \o u
  <1>0. Len(s) \in Nat /\ Len(u) \in Nat /\ DOMAIN s = 1..Len(s) /\ DOMAIN u = 1..Len(u)
    BY LenProperties
  <1>1. /\ su \in Seq(Text) /\ Len(su) = Len(s) + Len(u)
        /\ \A k \in 1..(Len(s) + Len(u)) : su[k] = IF k <= Len(s) THEN s[k] ELSE u[k - Len(s)]
    BY ConcatProperties
  <1> HIDE DEF su
  <1>2. DOMAIN su = 1..(Len(s) + Len(u))
    BY <1>1, LenProperties
  <1>3. ASSUME Says(su) PROVE Says(s) \/ Says(u)
    <2>1. PICK k \in 1..(Len(s) + Len(u)) : su[k] = Error
      BY <1>2, <1>3 DEF Says
    <2>2. CASE k <= Len(s)
      <3>1. k \in 1..Len(s) /\ s[k] = Error
        BY <1>0, <1>1, <2>1, <2>2
      <3> QED BY <1>0, <3>1 DEF Says
    <2>3. CASE ~(k <= Len(s))
      <3>1. k - Len(s) \in 1..Len(u) /\ u[k - Len(s)] = Error
        BY <1>0, <1>1, <2>1, <2>3
      <3> QED BY <1>0, <3>1 DEF Says
    <2> QED BY <2>2, <2>3
  <1>4. ASSUME Says(s) PROVE Says(su)
    <2>1. PICK k \in 1..Len(s) : s[k] = Error
      BY <1>0, <1>4 DEF Says
    <2>2. k \in 1..(Len(s) + Len(u)) /\ k <= Len(s)
      BY <1>0
    <2>3. su[k] = Error
      BY <1>1, <2>1, <2>2
    <2> QED BY <1>2, <2>2, <2>3 DEF Says
  <1>5. ASSUME Says(u) PROVE Says(su)
    <2>1. PICK k \in 1..Len(u) : u[k] = Error
      BY <1>0, <1>5 DEF Says
    <2>2. Len(s) + k \in 1..(Len(s) + Len(u)) /\ ~(Len(s) + k <= Len(s)) /\ (Len(s) + k) - Len(s) = k
      BY <1>0
    <2>3. su[Len(s) + k] = Error
      BY <1>1, <2>1, <2>2
    <2> QED BY <1>2, <2>2, <2>3 DEF Says
  <1> QED BY <1>3, <1>4, <1>5 DEF su

LEMMA BadConcat ==
  ASSUME NEW l \in Seq(LogItem), NEW m \in Seq(LogItem)
  PROVE  Bad(l \o m) <=> Bad(l) \/ Bad(m)
  <1> DEFINE lm == l \o m
             Is(x) == x.type = 1 /\ x.str[1] \in Unknown
  <1>0. Len(l) \in Nat /\ Len(m) \in Nat /\ DOMAIN l = 1..Len(l) /\ DOMAIN m = 1..Len(m)
    BY LenProperties
  <1>1. /\ lm \in Seq(LogItem) /\ Len(lm) = Len(l) + Len(m)
        /\ \A k \in 1..(Len(l) + Len(m)) : lm[k] = IF k <= Len(l) THEN l[k] ELSE m[k - Len(l)]
    BY ConcatProperties
  <1> HIDE DEF lm
  <1>2. DOMAIN lm = 1..(Len(l) + Len(m))
    BY <1>1, LenProperties
  <1>3. ASSUME Bad(lm) PROVE Bad(l) \/ Bad(m)
    <2>1. PICK k \in 1..(Len(l) + Len(m)) : Is(lm[k])
      BY <1>2, <1>3 DEF Bad
    <2>2. CASE k <= Len(l)
      <3>1. k \in 1..Len(l) /\ Is(l[k])
        BY <1>0, <1>1, <2>1, <2>2
      <3> QED BY <1>0, <3>1 DEF Bad
    <2>3. CASE ~(k <= Len(l))
      <3>1. k - Len(l) \in 1..Len(m) /\ Is(m[k - Len(l)])
        BY <1>0, <1>1, <2>1, <2>3
      <3> QED BY <1>0, <3>1 DEF Bad
    <2> QED BY <2>2, <2>3
  <1>4. ASSUME Bad(l) PROVE Bad(lm)
    <2>1. PICK k \in 1..Len(l) : Is(l[k])
      BY <1>0, <1>4 DEF Bad
    <2>2. k \in 1..(Len(l) + Len(m)) /\ k <= Len(l)
      BY <1>0
    <2>3. lm[k] = l[k]
      BY <1>1, <2>2
    <2> QED BY <1>2, <2>1, <2>2, <2>3 DEF Bad
  <1>5. ASSUME Bad(m) PROVE Bad(lm)
    <2>1. PICK k \in 1..Len(m) : Is(m[k])
      BY <1>0, <1>5 DEF Bad
    <2>2. Len(l) + k \in 1..(Len(l) + Len(m)) /\ ~(Len(l) + k <= Len(l)) /\ (Len(l) + k) - Len(l) = k
      BY <1>0
    <2>3. lm[Len(l) + k] = m[k]
      BY <1>1, <2>2
    <2> QED BY <1>2, <2>1, <2>2, <2>3 DEF Bad
  <1> QED BY <1>3, <1>4, <1>5 DEF lm

LEMMA NoErrorIn == ASSUME NEW s \in Seq(Chars) PROVE s \in Seq(Text) /\ ~Says(s)
  <1>1. DOMAIN s = 1..Len(s) /\ \A k \in 1..Len(s) : s[k] \in Chars
    BY LenProperties
  <1>2. ~Says(s)
    BY <1>1, PatternAssumption DEF Says
  <1> QED BY <1>2, LiteralIs

LEMMA GoodLiteral == ASSUME NEW s PROVE ~Bad(<<Literal(s)>>)
  <1>1. DOMAIN <<Literal(s)>> = {1} /\ <<Literal(s)>>[1] = Literal(s) /\ Literal(s).type = 0
    BY DEF Literal
  <1> QED BY <1>1 DEF Bad

LEMMA PairSays == ASSUME NEW c \in Chars PROVE Says(Pair(c)) <=> c \in Unknown
  <1>1. c # Error /\ Percent # Error
    BY PatternAssumption DEF Chars
  <1>2. CASE c \in Unknown
    <2>1. Pair(c) = <<Error, c>>
      BY <1>2, PatternAssumption DEF Pair, Letters
    <2>2. 1 \in DOMAIN <<Error, c>> /\ <<Error, c>>[1] = Error
      OBVIOUS
    <2>3. Says(<<Error, c>>)
      BY <2>2, Zenon DEF Says
    <2> QED BY <1>2, <2>1, <2>3
  <1>3. CASE c \notin Unknown
    <2>1. PICK d \in {c, Percent} : Pair(c) = <<d>>
      BY <1>3 DEF Pair, Letters
    <2>2. DOMAIN <<d>> = {1} /\ <<d>>[1] = d
      OBVIOUS
    <2> QED BY <1>1, <1>3, <2>1, <2>2 DEF Says
  <1> QED BY <1>2, <1>3

(* A round makes an item of an unknown letter just if that ends the pair.  *)
LEMMA FirstBad ==
  ASSUME NEW p \in Seq(Chars), ~Last(p)
  PROVE  Bad(First(p)) <=> p[find(p) + 1] \in Unknown
  <1> DEFINE pos == find(p)
             c == p[pos + 1]
  <1>1. First(p) = IF c \in Letters THEN Append(before(p, pos), Directive(c))
                   ELSE <<Literal(SubSeq(p, 1, pos))>>
    BY DEF First
  <1>2. Before(p) \in Seq(Chars) /\ Before(p) = SubSeq(p, 1, pos - 1)
    BY BeforeIs DEF Before
  <1> HIDE DEF pos, c
  <1>3. CASE c \in Letters
    <2>1. before(p, pos) \in Seq(LogItem) /\ ~Bad(before(p, pos))
      <3>1. CASE pos = 1
        <4>1. before(p, pos) = <<>> /\ DOMAIN <<>> = {}
          BY <3>1 DEF before
        <4> QED BY <4>1, EmptySeq DEF Bad
      <3>2. CASE pos # 1
        <4>1. before(p, pos) = <<Literal(Before(p))>>
          BY <1>2, <3>2 DEF before
        <4> QED BY <1>2, <4>1, LiteralIs, GoodLiteral
      <3> QED BY <3>1, <3>2
    <2>2. <<Directive(c)>> \in Seq(LogItem)
      BY <1>3, DirectiveIs
    <2>3. Bad(<<Directive(c)>>) <=> c \in Unknown
      <3>1. /\ DOMAIN <<Directive(c)>> = {1} /\ <<Directive(c)>>[1] = Directive(c)
            /\ Directive(c).type = 1 /\ Directive(c).str = <<c>> /\ <<c>>[1] = c
        BY DEF Directive
      <3> QED BY <3>1 DEF Bad
    <2>4. First(p) = before(p, pos) \o <<Directive(c)>>
      <3>1. Directive(c) \in LogItem
        BY <2>2, ElementOfSeq
      <3>2. Append(before(p, pos), Directive(c)) = before(p, pos) \o <<Directive(c)>>
        BY <2>1, <3>1, AppendIsConcat
      <3> QED BY <1>1, <1>3, <3>2
    <2>5. Bad(First(p)) <=> Bad(before(p, pos)) \/ Bad(<<Directive(c)>>)
      BY <2>1, <2>2, <2>4, BadConcat
    <2>6. Bad(First(p)) <=> c \in Unknown
      BY <2>1, <2>3, <2>5
    <2> QED BY <2>6 DEF c, pos
  <1>4. CASE c \notin Letters
    <2>1. ~Bad(First(p))
      BY <1>1, <1>4, GoodLiteral
    <2>2. c \notin Unknown
      BY <1>4 DEF Letters
    <2> QED BY <2>1, <2>2 DEF c, pos
  <1> QED BY <1>3, <1>4

LEMMA Parsed ==
  ASSUME NEW p \in Seq(Chars)
  PROVE  /\ items(p) \in Seq(Seq(Text)) /\ Joined(items(p)) = Meaning(p)
         /\ Meaning(p) \in Seq(Text)
         /\ isError(p) <=> Says(Meaning(p))
  <1> DEFINE U == Seq(Chars)
             size == [q \in U |-> Len(q)]
             G == {q \in U : /\ Joined(Texts(matchItem[q])) = Meaning(q)
                             /\ Bad(matchItem[q]) <=> Says(Meaning(q))}
  <1>1. size \in [U -> Nat]
    BY LenProperties
  <1>2. ASSUME NEW q \in U PROVE Meaning(q) \in Seq(Text)
    <2>1. MeansSeq(q) \in Seq(Seq(Text))
      BY MeansAre
    <2>2. Meaning(q) = Joined(MeansSeq(q))
      BY DEF Meaning, MeansSeq
    <2> QED BY <2>1, <2>2, JoinedIs
  <1>3. ASSUME NEW q \in U, \A r \in U : size[r] < size[q] => r \in G PROVE q \in G
    <2>1. CASE Last(q)
      <3>1. Meaning(q) = q /\ matchItem[q] = Whole(q)
        BY <2>1, MeaningWhole, MatchIs
      <3>2. ~Says(q) /\ q \in Seq(Text)
        BY NoErrorIn
      <3>3. Joined(Texts(Whole(q))) = q /\ ~Bad(Whole(q))
        <4>1. CASE q = <<>>
          <5>1. Whole(q) = <<>> /\ Texts(<<>>) = <<>> /\ DOMAIN <<>> = {}
            BY <4>1 DEF Whole, Texts
          <5> QED BY <4>1, <5>1, JoinedIs DEF Bad
        <4>2. CASE q # <<>>
          <5>1. Whole(q) = <<Literal(q)>>
            BY <4>2 DEF Whole
          <5>2. Texts(<<Literal(q)>>) = <<q>> /\ Joined(<<q>>) = q
            BY <3>2, LiteralIs, JoinedIs
          <5> QED BY <5>1, <5>2, GoodLiteral
        <4> QED BY <4>1, <4>2
      <3> HIDE DEF U, size
      <3> QED BY <1>3, <3>1, <3>2, <3>3
    <2>2. CASE ~Last(q)
      <3> DEFINE r == Rest(q)
                 c == q[find(q) + 1]
      <3>1. r \in U /\ Len(r) < Len(q) /\ First(q) \in Seq(LogItem) /\ c \in Chars
        BY <2>2, RoundIs
      <3>2. matchItem[q] = First(q) \o matchItem[r] /\ matchItem[r] \in Seq(LogItem)
        BY <2>2, <3>1, MatchIs
      <3>3. Meaning(q) = Before(q) \o (Pair(c) \o Meaning(r))
        BY <2>2, MeaningRound
      <3>4. Joined(Texts(First(q))) = Before(q) \o Pair(c)
        BY <2>2, FirstSays
      <3>5. Bad(First(q)) <=> c \in Unknown
        BY <2>2, FirstBad
      <3>6. Before(q) \in Seq(Text) /\ ~Says(Before(q))
        BY <2>2, BeforeIs, NoErrorIn
      <3>7. Pair(c) \in Seq(Text) /\ (Says(Pair(c)) <=> c \in Unknown)
        BY <3>1, PairIs, PairSays
      <3>8. r \in G
        BY <1>3, <3>1
      <3> HIDE DEF r, c
      <3>9. /\ Joined(Texts(matchItem[r])) = Meaning(r) /\ Meaning(r) \in Seq(Text)
            /\ Bad(matchItem[r]) <=> Says(Meaning(r))
        BY <1>2, <3>1, <3>8
      <3>10. Joined(Texts(matchItem[q])) = Meaning(q)
        <4>1. Texts(matchItem[q]) = Texts(First(q)) \o Texts(matchItem[r])
          BY <3>1, <3>2, TextsAre
        <4>2. Texts(First(q)) \in Seq(Seq(Text)) /\ Texts(matchItem[r]) \in Seq(Seq(Text))
          BY <3>1, <3>2, TextsAre
        <4>0. Joined(Texts(First(q)) \o Texts(matchItem[r]))
                = Joined(Texts(First(q))) \o Joined(Texts(matchItem[r]))
          BY <4>2, JoinedConcat
        <4>3. Joined(Texts(matchItem[q])) = (Before(q) \o Pair(c)) \o Meaning(r)
          BY <3>4, <3>9, <4>0, <4>1
        <4>4. (Before(q) \o Pair(c)) \o Meaning(r) = Before(q) \o (Pair(c) \o Meaning(r))
          <5>1. PICK x \in Seq(Text), y \in Seq(Text), z \in Seq(Text) :
                  x = Before(q) /\ y = Pair(c) /\ z = Meaning(r)
            BY <3>6, <3>7, <3>9
          <5>2. (x \o y) \o z = x \o (y \o z)
            OBVIOUS
          <5> QED BY <5>1, <5>2
        <4> QED BY <3>3, <4>3, <4>4
      <3>11. Bad(matchItem[q]) <=> Bad(First(q)) \/ Bad(matchItem[r])
        BY <3>1, <3>2, BadConcat
      <3>12. Pair(c) \o Meaning(r) \in Seq(Text)
        BY <3>7, <3>9, ConcatProperties
      <3>13. Says(Pair(c) \o Meaning(r)) <=> Says(Pair(c)) \/ Says(Meaning(r))
        BY <3>7, <3>9, SaysConcat
      <3>14. Says(Before(q) \o (Pair(c) \o Meaning(r)))
               <=> Says(Before(q)) \/ Says(Pair(c) \o Meaning(r))
        BY <3>6, <3>12, SaysConcat
      <3>15. Bad(matchItem[q]) <=> Says(Meaning(q))
        BY <3>3, <3>5, <3>6, <3>7, <3>9, <3>11, <3>13, <3>14
      <3> QED BY <3>10, <3>15
    <2> QED BY <2>1, <2>2
  <1> HIDE DEF G
  <1>4. Inductive(G, U, size)
    BY <1>3 DEF Inductive
  <1>5. p \in G
    <2> HIDE DEF U, size
    <2>1. \A q \in U : q \in G
      BY <1>1, <1>4, SizeInduction
    <2> QED BY <2>1 DEF U
  <1>6. items(p) = Texts(matchItem[p]) /\ (isError(p) <=> Bad(matchItem[p]))
    BY DEF items, Texts, isError, Bad
  <1>7. items(p) \in Seq(Seq(Text))
    BY <1>6, MatchIs, TextsAre
  <1> QED BY <1>2, <1>5, <1>6, <1>7 DEF G

(* For every pattern: what its items write in turn is its meaning, and     *)
(* isError tells whether that has an error in it.                          *)
THEOREM ParserRight ==
  \A p \in Seq(Chars) :
    /\ Joined(items(p)) = Meaning(p)
    /\ isError(p) <=> \E k \in DOMAIN Meaning(p) : Meaning(p)[k] = Error
  BY Parsed DEF Says

-----------------------------------------------------------------------------
(* The appender.                                                           *)

LEMMA Bounds == Interval \in Nat \ {0} /\ MaxTime \in Nat /\ Interval <= MaxTime
  BY FileAssumption DEF FileAssumption

USE Bounds

(* lastTime_ never runs ahead of the last reopening, though it is set      *)
(* later and without the lock, by threads in any order.                    *)
LastTimeBehind ==
  /\ lastTime_ <= attempt /\ attempt <= clock /\ clock <= MaxTime
  /\ \A t \in Threads : now[t] <= clock
  /\ \A t \in Threads : pc[t] = "set" => now[t] <= attempt
  /\ \A t \in Threads : pc[t] \in {"lock", "format"} => now[t] < attempt + Interval

(* The file was last found shut at a time when it could not be opened, and *)
(* it could not until usable.                                              *)
ShutBefore ==
  /\ ~Usable(disk) => usable = MaxTime + 1
  /\ stream = "shut" => attempt <= usable

AppenderInv == TypeOK /\ LastTimeBehind /\ ShutBefore

LEMMA InitAppenderInv == Init => AppenderInv
  BY DEF Init, AppenderInv, TypeOK, LastTimeBehind, ShutBefore, Usable

(* What a reopening does, whoever asks for it.                             *)
LEMMA ReopensKeeps ==
  ASSUME AppenderInv, Reopens
  PROVE  /\ attempt' = clock /\ attempt <= attempt'
         /\ stream' \in {"open", "shut", "bad"}
         /\ disk' \in {"fine", "nodir", "refused", "noparent"}
         /\ ~Usable(disk') => usable = MaxTime + 1
         /\ stream' = "shut" => attempt' <= usable
  <1>1. CASE stream = "bad"
    BY <1>1 DEF Reopens, AppenderInv, TypeOK, LastTimeBehind, ShutBefore
  <1>2. CASE stream # "bad"
    BY <1>2 DEF Reopens, OpenForWrite, Usable, AppenderInv, TypeOK, LastTimeBehind, ShutBefore
  <1> QED BY <1>1, <1>2

LEMMA NextAppenderInv == AppenderInv /\ [Next]_vars => AppenderInv'
  <1> SUFFICES ASSUME AppenderInv, [Next]_vars
               PROVE  AppenderInv'
    OBVIOUS
  <1> USE DEF AppenderInv, TypeOK, LastTimeBehind, ShutBefore, Goes, Returns, file, world
  <1>1. CASE UNCHANGED vars
    BY <1>1 DEF vars
  <1>2. ASSUME NEW t \in Threads, log(t) \/ reopen(t)
        PROVE  AppenderInv'
    <2>1. CASE log(t)
      BY <2>1 DEF log, Calls
    <2>2. CASE reopen(t)
      BY <2>2 DEF reopen, Calls
    <2> QED BY <1>2, <2>1, <2>2
  <1>3. ASSUME NEW t \in Threads, Test(t)
        PROVE  AppenderInv'
    BY <1>3 DEF Test
  <1>4. ASSUME NEW t \in Threads, Reopen(t)
        PROVE  AppenderInv'
    BY <1>4, ReopensKeeps DEF Reopen
  <1>5. ASSUME NEW t \in Threads, ReopenThrows(t)
        PROVE  AppenderInv'
    BY <1>5 DEF ReopenThrows
  <1>6. ASSUME NEW t \in Threads, SetLastTime(t)
        PROVE  AppenderInv'
    BY <1>6 DEF SetLastTime
  <1>7. ASSUME NEW t \in Threads, Lock(t)
        PROVE  AppenderInv'
    BY <1>7 DEF Lock
  <1>8. ASSUME NEW t \in Threads, Item(t)
        PROVE  AppenderInv'
    BY <1>8 DEF Item
  <1>9. ASSUME NEW t \in Threads, Unlock(t)
        PROVE  AppenderInv'
    BY <1>9 DEF Unlock
  <1>10. ASSUME NEW t \in Threads, OnlyReopen(t)
        PROVE  AppenderInv'
    <2>1. CASE Reopens
      BY <1>10, <2>1, ReopensKeeps DEF OnlyReopen
    <2>2. CASE ~Reopens
      BY <1>10, <2>2 DEF OnlyReopen, OpenThrows, Usable
    <2> QED BY <2>1, <2>2
  <1>11. CASE Tick
    BY <1>11 DEF Tick
  <1>12. CASE DiskChanges
    BY <1>12 DEF DiskChanges, Usable
  <1> QED BY <1>1, <1>2, <1>3, <1>4, <1>5, <1>6, <1>7, <1>8, <1>9, <1>10, <1>11, <1>12
          DEF Next, Continues

LEMMA AppenderInvariant == Spec => []AppenderInv
  BY InitAppenderInv, NextAppenderInv, PTL DEF Spec

(* The variables keep their types.                                         *)
THEOREM TypeCorrect == Spec => []TypeOK
  <1>1. AppenderInv => TypeOK
    BY DEF AppenderInv
  <1> QED BY <1>1, AppenderInvariant, PTL

(* No event goes to a file that was last reopened Interval before it.      *)
THEOREM AlwaysFresh == Spec => []FreshFile
  <1>1. AppenderInv => FreshFile
    BY DEF AppenderInv, TypeOK, LastTimeBehind, FreshFile
  <1> QED BY <1>1, AppenderInvariant, PTL

(* No event is dropped for a file that could not be opened, once it could  *)
(* be for as long as Interval.                                             *)
THEOREM AlwaysHeals == Spec => []Heals
  <1>1. AppenderInv => Heals
    BY DEF AppenderInv, TypeOK, LastTimeBehind, ShutBefore, Heals
  <1> QED BY <1>1, AppenderInvariant, PTL

-----------------------------------------------------------------------------
(* The lines.                                                              *)

(* While an event is formatted, its thread holds the lock and the line is  *)
(* the event so far; otherwise there is none, unless the stream has failed.*)
LineSoFar ==
  /\ stream = "open" /\ mutex = Nobody => line = <<>>
  /\ \A t \in Threads :
       /\ pc[t] = "format" <=> mutex = t
       /\ pc[t] # "format" => n[t] = 1
       /\ pc[t] = "format" => n[t] <= Len(items(pattern)) + 1
       /\ pc[t] = "format" /\ stream = "open" => line = By(t, Upto(items(pattern))[n[t] - 1])

LEMMA ByConcat ==
  ASSUME NEW t, NEW s \in Seq(Text), NEW u \in Seq(Text)
  PROVE  By(t, s) \o By(t, u) = By(t, s \o u)
  <1> DEFINE T == {t} \X Text
             su == s \o u
             both == By(t, s) \o By(t, u)
  <1>0. Len(s) \in Nat /\ Len(u) \in Nat
    BY LenProperties
  <1>1. ASSUME NEW x \in Seq(Text)
        PROVE  /\ By(t, x) \in Seq(T) /\ Len(By(t, x)) = Len(x)
               /\ \A k \in 1..Len(x) : By(t, x)[k] = <<t, x[k]>>
    <2>1. Len(x) \in Nat /\ DOMAIN x = 1..Len(x) /\ \A k \in 1..Len(x) : x[k] \in Text
      BY LenProperties
    <2> QED BY <2>1 DEF By
  <1>2. /\ su \in Seq(Text) /\ Len(su) = Len(s) + Len(u)
        /\ \A k \in 1..(Len(s) + Len(u)) : su[k] = IF k <= Len(s) THEN s[k] ELSE u[k - Len(s)]
    BY ConcatProperties
  <1>3. /\ By(t, s) \in Seq(T) /\ Len(By(t, s)) = Len(s)
        /\ By(t, u) \in Seq(T) /\ Len(By(t, u)) = Len(u)
        /\ \A k \in 1..Len(s) : By(t, s)[k] = <<t, s[k]>>
        /\ \A k \in 1..Len(u) : By(t, u)[k] = <<t, u[k]>>
    BY <1>1
  <1> HIDE DEF T
  <1>4. /\ both \in Seq(T) /\ Len(both) = Len(By(t, s)) + Len(By(t, u))
        /\ \A k \in 1..(Len(By(t, s)) + Len(By(t, u))) :
             both[k] = IF k <= Len(By(t, s)) THEN By(t, s)[k] ELSE By(t, u)[k - Len(By(t, s))]
    <2>1. By(t, s) \in Seq(T) /\ By(t, u) \in Seq(T)
      BY <1>3
    <2> QED BY <2>1, ConcatProperties
  <1> HIDE DEF su, both
  <1>5. /\ By(t, su) \in Seq(T) /\ Len(By(t, su)) = Len(s) + Len(u)
        /\ \A k \in 1..(Len(s) + Len(u)) : By(t, su)[k] = <<t, su[k]>>
    BY <1>1, <1>2
  <1>6. ASSUME NEW k \in 1..(Len(s) + Len(u)) PROVE both[k] = By(t, su)[k]
    <2>1. CASE k <= Len(s)
      <3>1. k \in 1..Len(s)
        BY <1>0, <2>1
      <3> QED BY <1>2, <1>3, <1>4, <1>5, <2>1, <3>1
    <2>2. CASE ~(k <= Len(s))
      <3>1. k - Len(s) \in 1..Len(u)
        BY <1>0, <2>2
      <3> QED BY <1>2, <1>3, <1>4, <1>5, <2>2, <3>1
    <2> QED BY <2>1, <2>2
  <1>7. both = By(t, su)
    <2>1. Len(both) = Len(By(t, su)) /\ Len(both) = Len(s) + Len(u)
      BY <1>3, <1>4, <1>5
    <2> QED BY <1>4, <1>5, <1>6, <2>1, SeqEqual
  <1> QED BY <1>7 DEF both, su

(* The items of the formatter in use, and what they have said so far.      *)
LEMMA ItemsInUse ==
  ASSUME TypeOK
  PROVE  LET texts == items(pattern) IN
         /\ pattern \in Seq(Chars) /\ Len(texts) \in Nat
         /\ Upto(texts)[0] = <<>>
         /\ \A k \in 0..Len(texts) : Upto(texts)[k] \in Seq(Text)
         /\ \A k \in 1..Len(texts) :
              texts[k] \in Seq(Text) /\ Upto(texts)[k] = Upto(texts)[k - 1] \o texts[k]
  <1>1. pattern \in Seq(Chars)
    BY FileAssumption, EmptySeq DEF FileAssumption, TypeOK
  <1>2. PICK texts \in Seq(Seq(Text)) : texts = items(pattern)
    BY <1>1, Parsed
  <1>3. Len(texts) \in Nat /\ \A k \in 1..Len(texts) : texts[k] \in Seq(Text)
    BY LenProperties
  <1>4. /\ Upto(texts) \in [0..Len(texts) -> Seq(Text)] /\ Upto(texts)[0] = <<>>
        /\ \A k \in 1..Len(texts) : Upto(texts)[k] = Upto(texts)[k - 1] \o texts[k]
    BY UptoIs
  <1> QED BY <1>1, <1>2, <1>3, <1>4

LEMMA NothingSaid == \A t : By(t, <<>>) = <<>>
  BY DEF By

LEMMA InitLine == Init => LineSoFar
  BY FileAssumption DEF Init, LineSoFar

LEMMA ReopensLine ==
  ASSUME LineSoFar, Reopens, TypeOK, UNCHANGED <<pattern, mutex, n>>,
         NEW t \in Threads, pc[t] # "format",
         pc' \in {[pc EXCEPT ![t] = place] : place \in {"idle", "set"}}
  PROVE  LineSoFar'
  <1>1. mutex = Nobody /\ Nobody \notin Threads /\ \A u \in Threads : pc[u] # "format"
    BY FileAssumption DEF LineSoFar, Reopens
  <1>2. \A u \in Threads : pc'[u] # "format" /\ n[u] = 1
    BY <1>1 DEF LineSoFar, TypeOK
  <1>3. stream' = "open" => line' = <<>>
    BY <1>1 DEF LineSoFar, Reopens, OpenForWrite
  <1> QED BY <1>1, <1>2, <1>3 DEF LineSoFar

LEMMA NextLine == AppenderInv /\ LineSoFar /\ [Next]_vars => LineSoFar'
  <1> SUFFICES ASSUME TypeOK, LineSoFar, [Next]_vars
               PROVE  LineSoFar'
    BY DEF AppenderInv
  <1> USE DEF Goes, Returns, file, world
  <1>0. Nobody \notin Threads
    BY FileAssumption
  <1>1. CASE UNCHANGED vars
    BY <1>1 DEF vars, LineSoFar
  <1>2. ASSUME NEW t \in Threads, log(t) \/ reopen(t)
        PROVE  LineSoFar'
    <2>1. PICK place \in {"test", "reopening"} : Calls(t, place)
      BY <1>2 DEF log, reopen
    <2>2. /\ pc[t] = "idle" /\ pc' = [pc EXCEPT ![t] = place]
          /\ UNCHANGED <<pattern, stream, line, mutex, n>>
      BY <2>1 DEF Calls
    <2>3. \A u \in Threads : pc'[u] = "format" <=> pc[u] = "format"
      BY <2>2 DEF TypeOK
    <2> QED BY <2>2, <2>3 DEF LineSoFar
  <1>3. ASSUME NEW t \in Threads, Test(t) \/ SetLastTime(t)
        PROVE  LineSoFar'
    <2>1. PICK place \in {"reopen", "lock"} :
            /\ pc[t] \in {"test", "set"} /\ pc' = [pc EXCEPT ![t] = place]
            /\ UNCHANGED <<pattern, stream, line, mutex, n>>
      BY <1>3 DEF Test, SetLastTime
    <2>2. \A u \in Threads : pc'[u] = "format" <=> pc[u] = "format"
      BY <2>1 DEF TypeOK
    <2> QED BY <2>1, <2>2 DEF LineSoFar
  <1>4. ASSUME NEW t \in Threads, Reopen(t)
        PROVE  LineSoFar'
    BY <1>4, ReopensLine DEF Reopen
  <1>5. ASSUME NEW t \in Threads, ReopenThrows(t)
        PROVE  LineSoFar'
    BY <1>5 DEF ReopenThrows, LineSoFar
  <1>6. ASSUME NEW t \in Threads, Lock(t)
        PROVE  LineSoFar'
    <2>1. /\ mutex = Nobody /\ mutex' = t /\ pc' = [pc EXCEPT ![t] = "format"]
          /\ pattern' \in Patterns /\ UNCHANGED <<stream, line, n>>
      BY <1>6 DEF Lock
    <2>2. \A u \in Threads : /\ pc[u] # "format" /\ n[u] = 1
                             /\ pc'[u] = "format" <=> u = t
      BY <1>0, <2>1 DEF LineSoFar, TypeOK
    <2>4. Len(items(pattern')) \in Nat /\ Upto(items(pattern'))[0] = <<>>
      <3>1. pattern' \in Seq(Chars)
        BY <2>1, FileAssumption
      <3>2. items(pattern') \in Seq(Seq(Text))
        BY <3>1, Parsed
      <3> QED BY <3>2, UptoIs, LenProperties
    <2>5. stream = "open" => line = By(t, Upto(items(pattern'))[n[t] - 1])
      <3>1. n[t] - 1 = 0
        BY <2>2
      <3> QED BY <2>1, <2>4, <3>1, NothingSaid DEF LineSoFar
    <2>6. n[t] <= Len(items(pattern')) + 1
      BY <2>2, <2>4
    <2> QED BY <1>0, <2>1, <2>2, <2>5, <2>6 DEF LineSoFar
  <1>7. ASSUME NEW t \in Threads, Item(t)
        PROVE  LineSoFar'
    <2>1. /\ pc[t] = "format" /\ n[t] <= Len(items(pattern))
          /\ n' = [n EXCEPT ![t] = n[t] + 1]
          /\ UNCHANGED <<pattern, mutex, pc>>
          /\ \/ stream = "open" /\ line' = line \o By(t, items(pattern)[n[t]]) /\ stream' = stream
             \/ stream' # "open"
      BY <1>7 DEF Item
    <2>2. n[t] \in Nat \ {0} /\ n'[t] = n[t] + 1 /\ \A u \in Threads : u # t => n'[u] = n[u]
      BY <2>1 DEF TypeOK
    <2>3. mutex = t /\ \A u \in Threads : pc[u] = "format" => u = t
      BY <2>1 DEF LineSoFar
    <2>4. n'[t] <= Len(items(pattern)) + 1 /\ n'[t] - 1 = n[t] /\ Len(items(pattern)) \in Nat
      BY <2>1, <2>2, ItemsInUse
    <2>5. ASSUME stream' = "open" PROVE line' = By(t, Upto(items(pattern))[n[t]])
      <3>1. stream = "open" /\ line' = line \o By(t, items(pattern)[n[t]])
        BY <2>1, <2>5
      <3>2. line = By(t, Upto(items(pattern))[n[t] - 1])
        BY <2>1, <3>1 DEF LineSoFar
      <3>3. n[t] \in 1..Len(items(pattern)) /\ n[t] - 1 \in 0..Len(items(pattern))
        BY <2>1, <2>2, <2>4
      <3>4. PICK s \in Seq(Text), u \in Seq(Text) :
              /\ s = Upto(items(pattern))[n[t] - 1] /\ u = items(pattern)[n[t]]
              /\ Upto(items(pattern))[n[t]] = s \o u
        BY <3>3, ItemsInUse
      <3>5. By(t, s) \o By(t, u) = By(t, s \o u)
        BY ByConcat
      <3> QED BY <3>1, <3>2, <3>4, <3>5
    <2> QED BY <1>0, <2>1, <2>2, <2>3, <2>4, <2>5 DEF LineSoFar
  <1>8. ASSUME NEW t \in Threads, Unlock(t)
        PROVE  LineSoFar'
    <2>1. /\ pc[t] = "format" /\ mutex' = Nobody /\ line' = IF stream = "open" THEN <<>> ELSE line
          /\ stream' = stream /\ pc' = [pc EXCEPT ![t] = "idle"] /\ n' = [n EXCEPT ![t] = 1]
      BY <1>8 DEF Unlock
    <2>2. \A u \in Threads : u # t => pc[u] # "format" /\ n[u] = 1
      BY <2>1 DEF LineSoFar
    <2>3. \A u \in Threads : pc'[u] # "format" /\ n'[u] = 1
      BY <2>1, <2>2 DEF TypeOK
    <2> QED BY <1>0, <2>1, <2>3 DEF LineSoFar
  <1>9. ASSUME NEW t \in Threads, OnlyReopen(t)
        PROVE  LineSoFar'
    <2>1. CASE Reopens
      BY <1>9, <2>1, ReopensLine DEF OnlyReopen
    <2>2. CASE ~Reopens
      <3>1. /\ pc[t] = "reopening" /\ mutex = Nobody /\ stream' = "shut"
            /\ pc' = [pc EXCEPT ![t] = "idle"] /\ UNCHANGED <<pattern, mutex, n>>
        BY <1>9, <2>2 DEF OnlyReopen
      <3>2. \A u \in Threads : pc'[u] # "format" /\ n[u] = 1
        BY <1>0, <3>1 DEF LineSoFar, TypeOK
      <3> QED BY <1>0, <3>1, <3>2 DEF LineSoFar
    <2> QED BY <2>1, <2>2
  <1>10. CASE Tick \/ DiskChanges
    BY <1>10 DEF Tick, DiskChanges, LineSoFar
  <1> QED BY <1>1, <1>2, <1>3, <1>4, <1>5, <1>6, <1>7, <1>8, <1>9, <1>10 DEF Next, Continues

LEMMA LineInvariant == Spec => []LineSoFar
  BY InitLine, NextLine, AppenderInvariant, PTL DEF Spec

(* Every line of the file is one thread's event, whole, and says what the  *)
(* pattern means, however threads log and reopen.                          *)
THEOREM LinesAlwaysWhole == Spec => []LinesWhole
  <1>1. ASSUME TypeOK, LineSoFar PROVE LinesWhole
    <2> SUFFICES ASSUME NEW t \in Threads, pc[t] = "format", n[t] > Len(items(pattern))
                 PROVE  /\ stream = "open" => line = By(t, Meaning(pattern))
                        /\ isError(pattern) <=>
                             \E k \in DOMAIN Meaning(pattern) : Meaning(pattern)[k] = Error
      BY DEF LinesWhole
    <2>1. n[t] - 1 = Len(items(pattern)) /\ pattern \in Seq(Chars)
      <3>1. n[t] \in Nat /\ n[t] <= Len(items(pattern)) + 1 /\ Len(items(pattern)) \in Nat
        BY <1>1, ItemsInUse DEF LineSoFar, TypeOK
      <3> QED BY <1>1, <3>1, ItemsInUse
    <2>2. stream = "open" => line = By(t, Joined(items(pattern)))
      BY <1>1, <2>1 DEF LineSoFar, Joined
    <2> QED BY <2>1, <2>2, ParserRight
  <1>2. AppenderInv /\ LineSoFar => LinesWhole
    BY <1>1 DEF AppenderInv
  <1> QED BY <1>2, AppenderInvariant, LineInvariant, PTL
=============================================================================
