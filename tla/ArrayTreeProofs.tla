--------------------------- MODULE ArrayTreeProofs ---------------------------
(***************************************************************************)
(* Proofs about ArrayTree, for every fan-out, chunk capacity and length of *)
(* array: GC_arrayAllocate reserves exactly the chunks that                *)
(* create_array_tree takes, UM_Array_offset finds each element where a     *)
(* flat array has it, and UM_walk_array_leafs meets the leaves in order.   *)
(*                                                                         *)
(* The invariant has two parts.  Counts: made[k] nodes of height k exist,  *)
(* and the chunks left are those that the heights still need.  When the    *)
(* innermost loop would go on although its height is full, every height    *)
(* below is full because its nodes have all their children, and every      *)
(* height above because its last node has a child, so no chunk is left and *)
(* the loop has ended (RoomAtTop).  Shape: row[k] lists the nodes of       *)
(* height k in the order in which they were made; child j of node x is the *)
(* one with the number (x - 1) * Fan + j of the height below.  So the      *)
(* slice of elements below a node has the number of the node, and each     *)
(* step of the descent goes from one slice to its part (ChildHasElement).  *)
(***************************************************************************)
EXTENDS ArrayTree, SumLemmas, SequenceTheorems, WellFoundedInduction, TLAPS

USE ArrayTreeAssumption DEF ArrayTreeAssumption

-----------------------------------------------------------------------------
(* Induction and recursion, with sets and functions for what the library's *)
(* theorems want operators for.                                            *)

\* A set of numbers with 0 and the successor of each of its members has them all.
LEMMA NatSetInduction ==
  ASSUME NEW P, 0 \in P, \A n \in Nat : n \in P => n + 1 \in P
  PROVE  \A n \in Nat : n \in P
<1>1. SUFFICES ASSUME Nat \ P # {} PROVE FALSE
  OBVIOUS
<1>2. IsWellFoundedOn({p \in Nat \X Nat : p[1] < p[2]}, Nat)
  BY NatLessThanWellFounded DEF OpToRel
<1>3. PICK n \in Nat \ P : \A m \in Nat \ P : <<m, n>> \notin {p \in Nat \X Nat : p[1] < p[2]}
  <2>1. Nat \ P \subseteq Nat
    OBVIOUS
  <2> QED BY <1>1, <1>2, <2>1, WFMin
<1>4. n # 0 /\ n - 1 \in Nat
  BY <1>3
<1>5. n - 1 \in P
  <2>1. <<n - 1, n>> \in {p \in Nat \X Nat : p[1] < p[2]}
    BY <1>3, <1>4
  <2> QED BY <1>3, <1>4, <2>1
<1>6. (n - 1) + 1 = n
  BY <1>3
<1> QED BY <1>3, <1>4, <1>5, <1>6

\* g starts with v and goes on by step.
Recurs(g, D, V, v, step) ==
  g \in [D -> V] /\ g[0] = v /\ \A n \in D : n # 0 => g[n] = step[n - 1][g[n - 1]]

\* A function can be defined by its first value and the step from each value
\* to the next.
LEMMA Recursion ==
  ASSUME NEW V, NEW v \in V, NEW step \in [Nat -> [V -> V]]
  PROVE  \E g : Recurs(g, Nat, V, v, step)
<1> DEFINE Upto(n, g) == /\ g \in [0 .. n -> V] /\ g[0] = v
                         /\ \A i \in 0 .. n - 1 : g[i + 1] = step[i][g[i]]
           P == {n \in Nat : \E g : Upto(n, g)}
           U == {i \in Nat : \A m, n \in Nat : \A f, g :
                   i <= m /\ i <= n /\ Upto(m, f) /\ Upto(n, g) => f[i] = g[i]}
<1>1. \A n \in Nat : n \in P
  <2>1. 0 \in P
    <3> DEFINE g == [i \in 0 .. 0 |-> v]
    <3>1. Upto(0, g)
      OBVIOUS
    <3> QED BY <3>1
  <2>2. ASSUME NEW n \in Nat, n \in P PROVE n + 1 \in P
    <3>1. PICK g : Upto(n, g)
      BY <2>2
    <3> DEFINE h == [i \in 0 .. n + 1 |-> IF i = n + 1 THEN step[n][g[n]] ELSE g[i]]
    <3>2. g[n] \in V /\ step[n][g[n]] \in V
      BY <3>1
    <3>3. h \in [0 .. n + 1 -> V] /\ h[0] = v
      BY <3>1, <3>2
    <3>4. \A i \in 0 .. (n + 1) - 1 : h[i + 1] = step[i][h[i]]
      BY <3>1
    <3>5. Upto(n + 1, h)
      BY <3>3, <3>4
    <3> HIDE DEF Upto, h
    <3> QED BY <3>5
  <2> HIDE DEF P
  <2> QED BY <2>1, <2>2, NatSetInduction
<1>2. \A i \in Nat : i \in U
  <2>1. 0 \in U
    OBVIOUS
  <2>2. ASSUME NEW i \in Nat, i \in U PROVE i + 1 \in U
    <3>1. ASSUME NEW m \in Nat, NEW n \in Nat, NEW f, NEW g, i + 1 <= m, i + 1 <= n, Upto(m, f), Upto(n, g)
          PROVE  f[i + 1] = g[i + 1]
      <4>1. f[i] = g[i]
        <5>1. i <= m /\ i <= n
          BY <3>1
        <5> HIDE DEF Upto
        <5> QED BY <2>2, <3>1, <5>1
      <4>2. i \in 0 .. m - 1 /\ i \in 0 .. n - 1
        BY <3>1
      <4> QED BY <3>1, <4>1, <4>2
    <3> HIDE DEF Upto
    <3> QED BY <3>1
  <2> HIDE DEF U
  <2> QED BY <2>1, <2>2, NatSetInduction
<1> DEFINE F == [n \in Nat |-> CHOOSE g : Upto(n, g)]
           G == [n \in Nat |-> F[n][n]]
<1>3. \A n \in Nat : Upto(n, F[n])
  <2> HIDE DEF Upto
  <2> SUFFICES ASSUME NEW n \in Nat PROVE Upto(n, F[n])
    OBVIOUS
  <2>1. \E g : Upto(n, g)
    BY <1>1
  <2> QED BY <2>1
<1>4. ASSUME NEW n \in Nat PROVE F[n][n] \in V /\ F[0][0] = v
  <2>1. Upto(n, F[n]) /\ Upto(0, F[0])
    BY <1>3
  <2> HIDE DEF F
  <2> QED BY <2>1
<1>5. G \in [Nat -> V] /\ G[0] = v
  <2> HIDE DEF F
  <2> QED BY <1>4
<1>6. ASSUME NEW n \in Nat PROVE G[n + 1] = step[n][G[n]]
  <2>1. Upto(n + 1, F[n + 1]) /\ Upto(n, F[n])
    <3> HIDE DEF Upto, F
    <3> QED BY <1>3
  <2>2. F[n + 1][n] = F[n][n]
    <3> HIDE DEF Upto, F
    <3> QED BY <1>2, <2>1
  <2> HIDE DEF F
  <2>3. F[n + 1][n + 1] = step[n][F[n + 1][n]]
    BY <2>1
  <2> QED BY <2>2, <2>3
<1>7. ASSUME NEW n \in Nat, n # 0 PROVE G[n] = step[n - 1][G[n - 1]]
  <2>1. n - 1 \in Nat /\ (n - 1) + 1 = n
    BY <1>7
  <2> HIDE DEF G
  <2> QED BY <1>6, <2>1
<1> HIDE DEF G
<1> QED BY <1>5, <1>7 DEF Recurs

-----------------------------------------------------------------------------
(* The sizes of a tree.                                                    *)

\* Nodes that point to a others, Fan to each: the least number that is enough.
LEMMA CeilDivFacts ==
  ASSUME NEW a \in Nat
  PROVE  /\ CeilDiv(a, Fan) \in Nat
         /\ \A b \in Nat : CeilDiv(a, Fan) <= b <=> a <= Fan * b
<1> DEFINE q == (a + Fan - 1) \div Fan
<1>1. q \in Nat
  OBVIOUS
<1>2. a + Fan - 1 = (Fan * q) + ((a + Fan - 1) % Fan) /\ (a + Fan - 1) % Fan \in 0 .. Fan - 1
  OBVIOUS
<1>3. a <= Fan * q /\ Fan * q < a + Fan
  BY <1>1, <1>2
<1> QED BY <1>1, <1>3 DEF CeilDiv

\* ipow is the power: a positive number, Fan times as much for the next exponent.
LEMMA PowFacts ==
  /\ Pow \in [Nat -> Nat \ {0}] /\ Pow[0] = 1
  /\ \A n \in Nat : Pow[n + 1] = Fan * Pow[n]
<1> DEFINE step == [n \in Nat |-> [x \in Nat \ {0} |-> Fan * x]]
<1>1. step \in [Nat -> [Nat \ {0} -> Nat \ {0}]]
  OBVIOUS
<1>2. PICK g : Recurs(g, Nat, Nat \ {0}, 1, step)
  <2>1. 1 \in Nat \ {0}
    OBVIOUS
  <2> HIDE DEF step
  <2> QED BY <1>1, <2>1, Recursion, Zenon
<1>3. \A n \in Nat : n # 0 => n - 1 \in Nat /\ (n - 1) + 1 = n
  OBVIOUS
<1>4. \A n \in Nat : g[n] = IF n = 0 THEN 1 ELSE Fan * g[n - 1]
  BY <1>2, <1>3 DEF Recurs
<1>5. g = [n \in Nat |-> IF n = 0 THEN 1 ELSE Fan * g[n - 1]]
  BY <1>2, <1>4 DEF Recurs
<1>6. Pow = [n \in Nat |-> IF n = 0 THEN 1 ELSE Fan * Pow[n - 1]]
  BY <1>5 DEF Pow
<1>7. Pow[0] = 1 /\ \A n \in Nat : Pow[n + 1] = Fan * Pow[n]
  BY <1>6
<1> DEFINE P == {n \in Nat : Pow[n] \in Nat \ {0}}
<1>8. 0 \in P /\ \A n \in Nat : n \in P => n + 1 \in P
  BY <1>7
<1>9. \A n \in Nat : n \in P
  <2> HIDE DEF P
  <2> QED BY <1>8, NatSetInduction
<1>10. Pow \in [Nat -> Nat \ {0}]
  BY <1>6, <1>9
<1> QED BY <1>7, <1>10

\* The same between bounds: a function of the numbers up to h.
LEMMA BoundedRecursion ==
  ASSUME NEW V, NEW v \in V, NEW step \in [Nat -> [V -> V]], NEW h \in Nat
  PROVE  \E g : Recurs(g, 0 .. h, V, v, step)
<1>1. PICK f : Recurs(f, Nat, V, v, step)
  BY Recursion
<1> DEFINE g == [n \in 0 .. h |-> f[n]]
<1>2. g \in [0 .. h -> V] /\ g[0] = v
  BY <1>1 DEF Recurs
<1>3. ASSUME NEW n \in 0 .. h, n # 0 PROVE g[n] = step[n - 1][g[n - 1]]
  <2>1. n - 1 \in Nat /\ n - 1 \in 0 .. h
    BY <1>3
  <2>2. f[n] = step[n - 1][f[n - 1]]
    BY <1>1, <1>3 DEF Recurs
  <2> QED BY <2>1, <2>2
<1> HIDE DEF g
<1> QED BY <1>2, <1>3 DEF Recurs

\* Level starts with the leaves and goes up by CeilDiv.
LEMMA LevelFacts ==
  ASSUME NEW leaves \in Nat, NEW height \in Nat
  PROVE  /\ Level(leaves, height) \in [0 .. height -> Nat] /\ Level(leaves, height)[0] = leaves
         /\ \A k \in 0 .. height - 1 :
              Level(leaves, height)[k + 1] = CeilDiv(Level(leaves, height)[k], Fan)
<1> DEFINE step == [n \in Nat |-> [x \in Nat |-> CeilDiv(x, Fan)]]
           L == Level(leaves, height)
<1>1. step \in [Nat -> [Nat -> Nat]]
  BY CeilDivFacts
<1>2. PICK g : Recurs(g, 0 .. height, Nat, leaves, step)
  <2> HIDE DEF step
  <2> QED BY <1>1, BoundedRecursion
<1>3. \A n \in 0 .. height : n # 0 => n - 1 \in 0 .. height /\ n - 1 \in Nat
  OBVIOUS
<1>4. g = [h \in 0 .. height |-> IF h = 0 THEN leaves ELSE CeilDiv(g[h - 1], Fan)]
  BY <1>2, <1>3 DEF Recurs
<1>5. L = [h \in 0 .. height |-> IF h = 0 THEN leaves ELSE CeilDiv(L[h - 1], Fan)]
  BY <1>4 DEF Level
<1> HIDE DEF L
<1>6. L[0] = leaves
  BY <1>5
<1>7. ASSUME NEW k \in 0 .. height - 1 PROVE L[k + 1] = CeilDiv(L[k], Fan)
  <2>1. k + 1 \in 0 .. height /\ k + 1 # 0 /\ (k + 1) - 1 = k
    OBVIOUS
  <2> QED BY <1>5, <2>1
<1> DEFINE P == {n \in Nat : n <= height => L[n] \in Nat}
<1>8. 0 \in P /\ \A n \in Nat : n \in P => n + 1 \in P
  <2>1. 0 \in P
    BY <1>6
  <2>2. ASSUME NEW n \in Nat, n \in P, n + 1 <= height PROVE L[n + 1] \in Nat
    BY <1>7, <2>2, CeilDivFacts
  <2> QED BY <2>1, <2>2
<1>9. \A n \in Nat : n \in P
  <2> HIDE DEF P
  <2> QED BY <1>8, NatSetInduction
<1>10. L \in [0 .. height -> Nat]
  BY <1>5, <1>9
<1> QED BY <1>6, <1>7, <1>10 DEF L

\* Fan ^ k times m leaves is all that m nodes of height k can have below them.
LEMMA LevelBound ==
  ASSUME NEW leaves \in Nat, NEW height \in Nat
  PROVE  \A k \in 0 .. height : \A m \in Nat :
           Level(leaves, height)[k] <= m <=> leaves <= m * Pow[k]
<1> DEFINE L == Level(leaves, height)
           P == {k \in Nat : k <= height => \A m \in Nat : L[k] <= m <=> leaves <= m * Pow[k]}
<1>0. L \in [0 .. height -> Nat] /\ L[0] = leaves
      /\ \A k \in 0 .. height - 1 : L[k + 1] = CeilDiv(L[k], Fan)
  BY LevelFacts
<1> HIDE DEF L
<1>1. 0 \in P
  <2>1. L[0] = leaves /\ Pow[0] = 1
    BY <1>0, PowFacts
  <2>2. \A m \in Nat : m * 1 = m
    OBVIOUS
  <2> QED BY <2>1, <2>2
<1>2. ASSUME NEW k \in Nat, k \in P, k + 1 <= height, NEW m \in Nat
      PROVE  L[k + 1] <= m <=> leaves <= m * Pow[k + 1]
  <2>1. L[k] \in Nat /\ L[k + 1] = CeilDiv(L[k], Fan) /\ k <= height
    BY <1>0, <1>2
  <2>2. L[k + 1] <= m <=> L[k] <= Fan * m
    BY <2>1, CeilDivFacts
  <2>3. Fan * m \in Nat
    OBVIOUS
  <2>4. L[k] <= Fan * m <=> leaves <= (Fan * m) * Pow[k]
    BY <1>2, <2>1, <2>3
  <2>5. Pow[k] \in Nat /\ Pow[k + 1] = Fan * Pow[k]
    BY PowFacts
  <2>6. \A x \in Nat : (Fan * m) * x = m * (Fan * x)
    OBVIOUS
  <2> QED BY <2>2, <2>4, <2>5, <2>6
<1>3. \A k \in Nat : k \in P
  <2>1. \A k \in Nat : k \in P => k + 1 \in P
    BY <1>2
  <2> HIDE DEF P
  <2> QED BY <1>1, <2>1, NatSetInduction
<1> QED BY <1>3 DEF L

\* So that some power is at least the number of leaves.
LEMMA PowGrows == \A n \in Nat : n < Pow[n]
<1> DEFINE P == {n \in Nat : n < Pow[n]}
<1>1. 0 \in P
  <2>1. Pow[0] = 1
    BY PowFacts
  <2> QED BY <2>1
<1>2. ASSUME NEW n \in Nat, n \in P PROVE n + 1 \in P
  <2>1. Pow[n + 1] = Fan * Pow[n] /\ Pow[n] \in Nat /\ n < Pow[n]
    BY <1>2, PowFacts
  <2>2. \A x \in Nat : n < x => n + 1 < Fan * x
    <3> SUFFICES ASSUME NEW x \in Nat, n < x PROVE n + 1 < Fan * x
      OBVIOUS
    <3>1. Fan * x >= 2 * x
      OBVIOUS
    <3> QED BY <3>1
  <2> QED BY <2>1, <2>2
<1> HIDE DEF P
<1>3. \A n \in Nat : n \in P
  BY <1>1, <1>2, NatSetInduction
<1> QED BY <1>3 DEF P

\* The tree is high enough for the leaves, whichever way the logarithm is
\* rounded; and an array of one chunk has no tree.
LEMMA HeightFacts ==
  ASSUME NEW leaves \in Nat, NEW h \in Heights(leaves)
  PROVE  h \in Nat /\ leaves <= Pow[h] /\ (h = 0 <=> leaves <= 1)
<1>1. CASE leaves = 0
  BY <1>1, PowFacts DEF Heights
<1>2. CASE leaves # 0
  <2> DEFINE Fits(e) == Pow[e] >= leaves /\ (e = 0 \/ Pow[e - 1] < leaves)
             exact == CHOOSE e \in 0 .. leaves : Fits(e)
             P == {n \in Nat : n <= leaves => Pow[n] < leaves}
  <2>1. \E e \in 0 .. leaves : Fits(e)
    <3>1. SUFFICES ASSUME \A e \in 0 .. leaves : ~Fits(e) PROVE FALSE
      OBVIOUS
    <3>2. 0 \in P
      BY <3>1, PowFacts
    <3>3. ASSUME NEW n \in Nat, n \in P PROVE n + 1 \in P
      <4>1. n + 1 <= leaves => ~Fits(n + 1)
        BY <3>1
      <4>2. Pow[n + 1] \in Nat /\ (n + 1) - 1 = n
        BY PowFacts
      <4> QED BY <3>3, <4>1, <4>2
    <3>4. leaves \in P
      <4> HIDE DEF P
      <4> QED BY <3>2, <3>3, NatSetInduction
    <3> QED BY <3>4, PowGrows, PowFacts
  <2>2. exact \in 0 .. leaves /\ Fits(exact)
    <3> HIDE DEF Fits
    <3> QED BY <2>1
  <2>3. h = exact \/ (h = exact + 1 /\ exact > 1)
    BY <1>2 DEF Heights
  <2> HIDE DEF exact
  <2>4. h \in Nat /\ leaves <= Pow[h]
    <3>1. CASE h = exact
      BY <2>2, <3>1
    <3>2. CASE h = exact + 1
      <4>1. Pow[h] = Fan * Pow[exact] /\ Pow[exact] \in Nat /\ leaves <= Pow[exact]
        BY <2>2, <3>2, PowFacts
      <4>2. \A x \in Nat : Fan * x >= x
        OBVIOUS
      <4> QED BY <2>2, <3>2, <4>1, <4>2
    <3> QED BY <2>3, <3>1, <3>2
  <2>5. h = 0 <=> leaves <= 1
    <3>1. CASE exact = 0
      BY <2>2, <2>3, <3>1, PowFacts
    <3>2. CASE exact # 0
      <4>1. exact - 1 \in Nat /\ Pow[exact - 1] < leaves /\ Pow[exact - 1] \in Nat \ {0}
        BY <2>2, <3>2, PowFacts
      <4> QED BY <2>2, <2>3, <3>2, <4>1
    <3> QED BY <3>1, <3>2
  <2> QED BY <2>4, <2>5
<1> QED BY <1>1, <1>2

\* The quantities h sum up to n over D.
HasSum(h, D, n) == \E f : Sums(f, h, D) /\ f[D] = n

\* SumZero in these terms.
LEMMA HasSumZero ==
  ASSUME NEW D, NEW h, \A t \in D : h[t] = 0
  PROVE  HasSum(h, D, 0)
BY SumZero DEF HasSum

\* SumUpdate in these terms.
LEMMA HasSumUpdate ==
  ASSUME NEW D, NEW h, NEW n, HasSum(h, D, n), NEW t \in D, h[t] \in Nat,
         NEW h2 \in [D -> Nat], \A u \in D \ {t} : h2[u] = h[u]
  PROVE  HasSum(h2, D, n - h[t] + h2[t])
<1>1. PICK f : Sums(f, h, D) /\ f[D] = n
  BY DEF HasSum
<1>2. PICK g : Sums(g, h2, D) /\ g[D] = f[D] - h[t] + h2[t]
  BY <1>1, SumUpdate
<1> QED BY <1>1, <1>2 DEF HasSum

\* A sum is no less than any of its terms.
LEMMA HasSumBound ==
  ASSUME NEW D, NEW h, NEW n, HasSum(h, D, n), NEW t \in D, h[t] \in Nat
  PROVE  n \in Nat /\ h[t] <= n
BY SumBound DEF HasSum

\* A sum of no terms above zero is zero.
LEMMA HasSumNone ==
  ASSUME NEW D, IsFiniteSet(D), NEW h, NEW n, HasSum(h, D, n), \A t \in D : h[t] = 0
  PROVE  n = 0
BY SumNone DEF HasSum

\* The sum over a range of heights.
LEMMA SumUpTo ==
  ASSUME NEW n \in Nat, NEW q \in [0 .. n -> Nat], NEW t \in [0 .. n -> Nat],
         t[0] = q[0], \A k \in 0 .. n : k # 0 => t[k] = t[k - 1] + q[k]
  PROVE  HasSum(q, 0 .. n, t[n])
<1> DEFINE D == 0 .. n
           cut(m) == [k \in D |-> IF k <= m THEN q[k] ELSE 0]
           zero == [k \in D |-> 0]
           P == {m \in Nat : m <= n => HasSum(cut(m), D, t[m])}
<1>1. \A m \in Nat : cut(m) \in [D -> Nat]
  OBVIOUS
<1>2. HasSum(zero, D, 0)
  BY HasSumZero
<1>3. 0 \in P
  <2>1. cut(0) \in [D -> Nat] /\ zero[0] = 0 /\ cut(0)[0] = q[0] /\ 0 \in D /\ q[0] \in Nat
        /\ \A u \in D \ {0} : cut(0)[u] = zero[u]
    OBVIOUS
  <2>2. zero[0] \in Nat
    BY <2>1
  <2> HIDE DEF D, cut, zero
  <2>3. HasSum(cut(0), D, 0 - zero[0] + cut(0)[0])
    BY <1>2, <2>1, <2>2, HasSumUpdate
  <2>4. 0 - zero[0] + cut(0)[0] = t[0]
    BY <2>1
  <2> QED BY <2>3, <2>4
<1>4. ASSUME NEW m \in Nat, m \in P PROVE m + 1 \in P
  <2>1. SUFFICES ASSUME m + 1 <= n PROVE HasSum(cut(m + 1), D, t[m + 1])
    OBVIOUS
  <2>2. HasSum(cut(m), D, t[m])
    BY <1>4, <2>1
  <2>3. /\ cut(m + 1) \in [D -> Nat] /\ cut(m)[m + 1] = 0 /\ cut(m + 1)[m + 1] = q[m + 1]
        /\ m + 1 \in D /\ q[m + 1] \in Nat /\ \A u \in D \ {m + 1} : cut(m + 1)[u] = cut(m)[u]
    BY <2>1
  <2>4. t[m + 1] = t[m] + q[m + 1] /\ t[m] \in Nat
    <3>1. m + 1 # 0 /\ (m + 1) - 1 = m /\ m \in D
      BY <2>1
    <3> QED BY <2>3, <3>1
  <2>5. cut(m)[m + 1] \in Nat
    BY <2>3
  <2> HIDE DEF D, cut
  <2>6. HasSum(cut(m + 1), D, t[m] - cut(m)[m + 1] + cut(m + 1)[m + 1])
    BY <2>2, <2>3, <2>5, HasSumUpdate
  <2>7. t[m] - cut(m)[m + 1] + cut(m + 1)[m + 1] = t[m + 1]
    BY <2>3, <2>4
  <2> QED BY <2>6, <2>7
<1>5. n \in P
  <2> HIDE DEF P
  <2> QED BY <1>3, <1>4, NatSetInduction
<1>6. cut(n) = q
  OBVIOUS
<1> QED BY <1>5, <1>6

\* numChunks is the sum of what the tree needs at each height.
LEMMA ChunkSum ==
  ASSUME NEW leaves \in Nat \ {0}, NEW height \in Nat
  PROVE  /\ HasSum(Level(leaves, height), 0 .. height, NumChunks(leaves, height))
         /\ NumChunks(leaves, height) \in Nat
<1> DEFINE L == Level(leaves, height)
           step == [n \in Nat |-> [x \in Nat |-> x + (IF n + 1 \in 0 .. height THEN L[n + 1] ELSE 0)]]
           total == CHOOSE total : total = [h \in 0 .. height |-> IF h = 0 THEN leaves ELSE total[h - 1] + L[h]]
<1>0. L \in [0 .. height -> Nat] /\ L[0] = leaves
  BY LevelFacts
<1> HIDE DEF L
<1>1. step \in [Nat -> [Nat -> Nat]]
  BY <1>0
<1>2. PICK g : Recurs(g, 0 .. height, Nat, leaves, step)
  <2> HIDE DEF step
  <2> QED BY <1>1, BoundedRecursion
<1>3. g \in [0 .. height -> Nat] /\ g[0] = leaves
  BY <1>2 DEF Recurs
<1>4. ASSUME NEW n \in 0 .. height, n # 0 PROVE g[n] = g[n - 1] + L[n]
  <2>1. n - 1 \in Nat /\ n - 1 \in 0 .. height /\ (n - 1) + 1 = n
    BY <1>4
  <2>2. g[n] = step[n - 1][g[n - 1]]
    BY <1>2, <1>4 DEF Recurs
  <2>3. g[n - 1] \in Nat
    BY <1>3, <2>1
  <2> QED BY <2>1, <2>2, <2>3
<1>5. g = [h \in 0 .. height |-> IF h = 0 THEN leaves ELSE g[h - 1] + L[h]]
  BY <1>3, <1>4
<1>6. total = [h \in 0 .. height |-> IF h = 0 THEN leaves ELSE total[h - 1] + L[h]]
  BY <1>5
<1>7. NumChunks(leaves, height) = IF total[height] = 0 THEN 1 ELSE total[height]
  BY DEF NumChunks, L
<1> HIDE DEF total
<1>8. total[0] = leaves /\ \A k \in 0 .. height : k # 0 => total[k] = total[k - 1] + L[k]
  BY <1>6
<1> DEFINE P == {n \in Nat : n <= height => total[n] \in Nat /\ total[n] >= leaves}
<1>9. \A n \in Nat : n \in P
  <2>1. 0 \in P
    BY <1>8
  <2>2. ASSUME NEW n \in Nat, n \in P PROVE n + 1 \in P
    <3>1. n + 1 <= height => total[n + 1] = total[n] + L[n + 1] /\ L[n + 1] \in Nat
      <4>1. n + 1 # 0 /\ (n + 1) - 1 = n
        OBVIOUS
      <4> QED BY <1>0, <1>8, <4>1
    <3> QED BY <2>2, <3>1
  <2> HIDE DEF P
  <2> QED BY <2>1, <2>2, NatSetInduction
<1>10. total \in [0 .. height -> Nat]
  BY <1>6, <1>9
<1>11. total[height] \in Nat /\ total[height] >= leaves
  BY <1>9
<1>12. HasSum(L, 0 .. height, total[height])
  BY <1>0, <1>8, <1>10, SumUpTo
<1> QED BY <1>7, <1>11, <1>12 DEF L

-----------------------------------------------------------------------------
(* The inductive invariant.                                                *)

\* The leaves of the tree; an array of no elements has one all the same.
TreeLeaves == IF NumLeaves(numElements) = 0 THEN 1 ELSE NumLeaves(numElements)

Ranks == 0 .. treeHeight
Need  == Level(TreeLeaves, treeHeight)

Typed ==
  /\ numElements \in 0 .. MaxElements /\ treeHeight \in Heights(NumLeaves(numElements))
  /\ chunks \in Nat /\ popped \in Nat \ {0}
  /\ pointers \in Seq(Seq(Nat)) /\ Len(pointers) = popped
  /\ isLeaf \in Seq(BOOLEAN) /\ Len(isLeaf) = popped
  /\ next_chunk \in Seq(Nat) /\ Len(next_chunk) = popped
  /\ calls \in Seq([node : Nat, height : Nat, i : Nat])

\* What create_array_tree has in hand: nodes made one after the other, each
\* with as many pointers as its loop has counted, on a path from the root.
Path ==
  /\ Len(calls) <= treeHeight /\ done = (calls = <<>>)
  /\ \A s \in 1 .. Len(calls) :
       /\ calls[s].node \in 1 .. popped
       /\ calls[s].height = treeHeight - Len(calls) + s - 1
       /\ calls[s].i = Len(pointers[calls[s].node])
       /\ calls[s].height = 0 => calls[s].i = 0
       /\ \A u \in 1 .. Len(calls) : s < u => calls[u].node < calls[s].node

\* The links go to nodes made later.
Links ==
  /\ \A c \in 1 .. popped : /\ Len(pointers[c]) <= Fan
                            /\ \A j \in 1 .. Len(pointers[c]) : pointers[c][j] \in c + 1 .. popped
                            /\ next_chunk[c] \in 0 .. popped

\* The nodes still to be made.
Left(made) == [k \in Ranks |-> Need[k] - made[k]]

\* The nodes made at each height so far, of those that the tree needs.  While
\* there are chunks left, the nodes below the innermost call have all their
\* children; those of the calls have as many as their loops have counted.
Counts(made) ==
  /\ made \in [Ranks -> Nat] /\ made[treeHeight] = 1
  /\ \A k \in Ranks : made[k] <= Need[k]
  /\ \A s \in 1 .. Len(calls) :
       /\ made[calls[s].height + 1] >= 1
       /\ made[calls[s].height] = (made[calls[s].height + 1] - 1) * Fan + calls[s].i
       /\ s > 1 => calls[s].i >= 1
  /\ chunks > 0 => \A k \in 0 .. treeHeight - Len(calls) - 1 : made[k] = Fan * made[k + 1]
  /\ HasSum(Left(made), Ranks, chunks)
  /\ Cardinality({d \in 1 .. popped : isLeaf[d]}) = made[0]

\* The j-th child of the n-th node of a height, counted among those of its own.
Child(n, j) == (n - 1) * Fan + j

\* The chunks of the nodes of each height, in the order in which they are made:
\* the leaves are those of height 0.
Placed(made, row) ==
  /\ row \in [Ranks -> [Nat -> Nat]] /\ row[treeHeight][1] = 1
  /\ \A k \in Ranks : \A x \in 1 .. made[k] : row[k][x] \in 1 .. popped /\ (isLeaf[row[k][x]] <=> k = 0)

\* Each node points to its children as far as they are made.
Children(made, row) ==
  \A k \in 1 .. treeHeight : \A x \in 1 .. made[k] : \A j \in 1 .. Fan :
    Child(x, j) <= made[k - 1] => /\ j <= Len(pointers[row[k][x]])
                                  /\ pointers[row[k][x]][j] = row[k - 1][Child(x, j)]

\* create_array_tree has the last node of each height in hand.
InHand(made, row) ==
  \A s \in 1 .. Len(calls) : calls[s].node = row[calls[s].height + 1][made[calls[s].height + 1]]

\* The leaves are in order, and those under the first node of height 2 are
\* linked one to the next; the last of them to none.
Ordered(made, row) ==
  \A x \in 1 .. made[0] :
    /\ LeafNumber(row[0][x]) = x
    /\ x <= Fan * Fan => next_chunk[row[0][x]] = IF x = made[0] \/ x = Fan * Fan THEN 0 ELSE row[0][x + 1]

Shape(made, row) ==
  Placed(made, row) /\ Children(made, row) /\ InHand(made, row) /\ Ordered(made, row)

TreeInv == Typed /\ Path /\ Links /\ \E made, row : Counts(made) /\ Shape(made, row)

-----------------------------------------------------------------------------
(* Counting.                                                               *)

\* What the tree needs at each height: one root, and at least a node anywhere.
LEMMA NeedFacts ==
  ASSUME numElements \in Nat, treeHeight \in Heights(NumLeaves(numElements))
  PROVE  /\ treeHeight \in Nat /\ TreeLeaves \in Nat \ {0}
         /\ Need \in [Ranks -> Nat \ {0}] /\ Need[treeHeight] = 1 /\ Need[0] = TreeLeaves
         /\ \A k \in 0 .. treeHeight - 1 : Need[k + 1] = CeilDiv(Need[k], Fan)
         /\ NumLeaves(numElements) \in Nat
<1>1. NumLeaves(numElements) \in Nat /\ TreeLeaves \in Nat \ {0}
  BY DEF NumLeaves, TreeLeaves
<1>2. treeHeight \in Nat /\ NumLeaves(numElements) <= Pow[treeHeight]
  BY <1>1, HeightFacts
<1>3. Pow[treeHeight] \in Nat \ {0} /\ TreeLeaves <= Pow[treeHeight]
  BY <1>1, <1>2, PowFacts DEF TreeLeaves
<1>4. /\ Need \in [Ranks -> Nat] /\ Need[0] = TreeLeaves
      /\ \A k \in 0 .. treeHeight - 1 : Need[k + 1] = CeilDiv(Need[k], Fan)
  BY <1>1, <1>2, LevelFacts DEF Need, Ranks
<1>5. \A k \in Ranks : \A m \in Nat : Need[k] <= m <=> TreeLeaves <= m * Pow[k]
  BY <1>1, <1>2, LevelBound DEF Need, Ranks
<1>6. \A k \in Ranks : Need[k] # 0
  <2> SUFFICES ASSUME NEW k \in Ranks, Need[k] = 0 PROVE FALSE
    OBVIOUS
  <2>1. Need[k] <= 0 <=> TreeLeaves <= 0 * Pow[k]
    BY <1>5
  <2>2. Pow[k] \in Nat
    BY <1>2, PowFacts DEF Ranks
  <2>3. \A x \in Nat : 0 * x = 0
    OBVIOUS
  <2> QED BY <1>1, <2>1, <2>2, <2>3
<1>7. Need[treeHeight] <= 1
  <2>1. treeHeight \in Ranks
    BY <1>2 DEF Ranks
  <2>2. Need[treeHeight] <= 1 <=> TreeLeaves <= 1 * Pow[treeHeight]
    BY <1>5, <2>1
  <2>3. \A x \in Nat : 1 * x = x
    OBVIOUS
  <2> QED BY <1>3, <2>2, <2>3
<1>8. treeHeight \in Ranks /\ Need[treeHeight] \in Nat
  BY <1>2, <1>4 DEF Ranks
<1>9. Need \in [Ranks -> Nat \ {0}]
  BY <1>4, <1>6
<1>10. Need[treeHeight] = 1
  BY <1>6, <1>7, <1>8
<1> QED BY <1>1, <1>2, <1>4, <1>9, <1>10

\* A nodes, Fan to each parent but the last, have B parents if that has any.
LEMMA Parents ==
  ASSUME NEW a \in Nat, NEW b \in Nat \ {0}, NEW i \in 0 .. Fan, a = (b - 1) * Fan + i
  PROVE  CeilDiv(a, Fan) = IF i = 0 THEN b - 1 ELSE b
<1>1. CeilDiv(a, Fan) \in Nat /\ \A x \in Nat : CeilDiv(a, Fan) <= x <=> a <= Fan * x
  BY CeilDivFacts
<1>2. b - 1 \in Nat /\ (b - 1) * Fan = Fan * (b - 1) /\ Fan * b = (Fan * (b - 1)) + Fan
  OBVIOUS
<1>3. CASE i = 0
  <2>1. CeilDiv(a, Fan) <= b - 1
    BY <1>1, <1>2, <1>3
  <2>2. ASSUME b - 1 > 0, CeilDiv(a, Fan) <= b - 2 PROVE FALSE
    <3>1. b - 2 \in Nat /\ Fan * (b - 1) = (Fan * (b - 2)) + Fan
      BY <2>2
    <3>2. a <= Fan * (b - 2)
      BY <1>1, <2>2, <3>1
    <3> QED BY <1>2, <1>3, <3>1, <3>2
  <2> QED BY <1>1, <1>3, <2>1, <2>2
<1>4. CASE i # 0
  <2>1. CeilDiv(a, Fan) <= b
    BY <1>1, <1>2
  <2>2. ~(CeilDiv(a, Fan) <= b - 1)
    BY <1>1, <1>2, <1>4
  <2> QED BY <1>1, <1>4, <2>1, <2>2
<1> QED BY <1>3, <1>4

\* The innermost call is the lowest and the others follow upwards.
LEMMA CallFacts ==
  ASSUME Typed, Path, Links
  PROVE  /\ treeHeight \in Nat /\ Len(calls) \in 0 .. treeHeight
         /\ \A s \in 1 .. Len(calls) : /\ calls[s] \in [node : Nat, height : Nat, i : Nat]
                                       /\ calls[s].height = treeHeight - Len(calls) + s - 1
                                       /\ calls[s].node \in 1 .. popped
                                       /\ calls[s].i \in 0 .. Fan
<1>1. treeHeight \in Nat
  BY NeedFacts DEF Typed
<1>2. Len(calls) \in 0 .. treeHeight
  BY <1>1, LenProperties DEF Typed, Path
<1>3. ASSUME NEW s \in 1 .. Len(calls)
      PROVE  calls[s] \in [node : Nat, height : Nat, i : Nat]
  BY ElementOfSeq DEF Typed
<1>4. ASSUME NEW s \in 1 .. Len(calls)
      PROVE  /\ calls[s].height = treeHeight - Len(calls) + s - 1
             /\ calls[s].node \in 1 .. popped
             /\ calls[s].i \in 0 .. Fan
  <2>1. /\ calls[s].height = treeHeight - Len(calls) + s - 1
        /\ calls[s].node \in 1 .. popped
        /\ calls[s].i = Len(pointers[calls[s].node])
    BY DEF Path
  <2>2. Len(pointers[calls[s].node]) <= Fan
    BY <2>1 DEF Links
  <2>3. calls[s].i \in Nat
    BY <1>3
  <2> QED BY <2>1, <2>2, <2>3
<1> QED BY <1>1, <1>2, <1>3, <1>4

\* The innermost call.
LEMMA TopFacts ==
  ASSUME Typed, Path, Links, calls # <<>>
  PROVE  /\ treeHeight \in Nat /\ Len(calls) \in 1 .. treeHeight /\ 1 \in 1 .. Len(calls)
         /\ calls[1].height = treeHeight - Len(calls)
         /\ calls[1].height \in Ranks /\ calls[1].height + 1 \in Ranks
         /\ calls[1].height \in 0 .. treeHeight - 1
         /\ calls[1] \in [node : Nat, height : Nat, i : Nat] /\ Top = calls[1]
<1>1. Len(calls) # 0
  BY EmptySeq DEF Typed
<1>2. treeHeight \in Nat /\ Len(calls) \in 1 .. treeHeight /\ 1 \in 1 .. Len(calls)
  BY <1>1, CallFacts
<1>3. calls[1].height = treeHeight - Len(calls) /\ calls[1] \in [node : Nat, height : Nat, i : Nat]
  <2>1. treeHeight - Len(calls) + 1 - 1 = treeHeight - Len(calls)
    BY <1>2
  <2> QED BY <1>2, <2>1, CallFacts
<1>4. Top = calls[1]
  BY HeadTailProperties DEF Top, Typed
<1> QED BY <1>2, <1>3, <1>4 DEF Ranks

\* From a full height on, every height above that of the innermost call is full.
LEMMA FullAbove ==
  ASSUME Typed, Path, Links, NEW made, Counts(made),
         NEW r \in Ranks, made[r] = Need[r],
         \A s \in 1 .. Len(calls) : calls[s].height = r => calls[s].i >= 1,
         r >= treeHeight - Len(calls)
  PROVE  \A k \in Ranks : k >= r => made[k] = Need[k]
<1> DEFINE P == {n \in Nat : r + n <= treeHeight => made[r + n] = Need[r + n]}
<1>1. treeHeight \in Nat /\ Len(calls) \in 0 .. treeHeight /\ r \in 0 .. treeHeight
  BY CallFacts DEF Ranks
<1>2. 0 \in P
  BY <1>1
<1>3. ASSUME NEW n \in Nat, n \in P PROVE n + 1 \in P
  <2>1. SUFFICES ASSUME r + (n + 1) <= treeHeight PROVE made[r + (n + 1)] = Need[r + (n + 1)]
    OBVIOUS
  <2> DEFINE k == r + n
             s == k - treeHeight + Len(calls) + 1
  <2>2. /\ k \in 0 .. treeHeight - 1 /\ k \in Ranks /\ k + 1 \in Ranks /\ r + (n + 1) = k + 1
        /\ s \in 1 .. Len(calls) /\ treeHeight - Len(calls) + s - 1 = k /\ (n = 0 => k = r)
        /\ (n > 0 => s > 1)
    BY <1>1, <2>1 DEF Ranks
  <2>3. made[r + n] = Need[r + n]
    BY <1>1, <1>3, <2>1
  <2>10. made[k] = Need[k]
    BY <2>3
  <2> HIDE DEF k, s
  <2>4. calls[s].height = k /\ calls[s].i \in 0 .. Fan
    BY <2>2, CallFacts
  <2>5. calls[s].i >= 1
    BY <2>2, <2>4 DEF Counts
  <2>6. made[k + 1] >= 1 /\ made[k] = (made[k + 1] - 1) * Fan + calls[s].i
    BY <2>2, <2>4 DEF Counts
  <2>7. made[k] \in Nat /\ made[k + 1] \in Nat \ {0}
    BY <2>2, <2>6 DEF Counts
  <2>8. CeilDiv(made[k], Fan) = made[k + 1]
    BY <2>4, <2>5, <2>6, <2>7, Parents
  <2>9. Need[k + 1] = CeilDiv(Need[k], Fan)
    BY <2>2, NeedFacts DEF Typed
  <2> QED BY <2>2, <2>8, <2>9, <2>10
<1>4. \A n \in Nat : n \in P
  <2> HIDE DEF P
  <2> QED BY <1>2, <1>3, NatSetInduction
<1> QED
  <2> SUFFICES ASSUME NEW k \in Ranks, k >= r PROVE made[k] = Need[k]
    OBVIOUS
  <2>1. k - r \in Nat /\ r + (k - r) = k /\ k <= treeHeight
    BY <1>1 DEF Ranks
  <2> QED BY <1>4, <2>1

\* When the height of the innermost call is full and chunks are left, so is
\* every height below it.
LEMMA FullBelow ==
  ASSUME Typed, Path, Links, NEW made, Counts(made), chunks > 0,
         made[treeHeight - Len(calls)] = Need[treeHeight - Len(calls)]
  PROVE  \A k \in Ranks : k <= treeHeight - Len(calls) => made[k] = Need[k]
<1> DEFINE t == treeHeight - Len(calls)
           P == {n \in Nat : n <= t => made[t - n] = Need[t - n]}
<1>1. treeHeight \in Nat /\ t \in 0 .. treeHeight
  BY CallFacts
<1>2. 0 \in P
  BY <1>1
<1>3. ASSUME NEW n \in Nat, n \in P PROVE n + 1 \in P
  <2>1. SUFFICES ASSUME n + 1 <= t PROVE made[t - (n + 1)] = Need[t - (n + 1)]
    OBVIOUS
  <2> DEFINE k == t - (n + 1)
  <2>2. k \in 0 .. t - 1 /\ k \in Ranks /\ k + 1 = t - n /\ k + 1 \in Ranks /\ k \in 0 .. treeHeight - 1
    BY <1>1, <2>1 DEF Ranks
  <2>3. made[k + 1] = Need[k + 1]
    <3>1. made[t - n] = Need[t - n]
      BY <1>1, <1>3, <2>1
    <3> HIDE DEF k, t
    <3> QED BY <2>2, <3>1
  <2>4. made[k] = Fan * made[k + 1]
    BY <2>2 DEF Counts
  <2> HIDE DEF k
  <2>5. Need[k + 1] = CeilDiv(Need[k], Fan)
    BY <2>2, NeedFacts DEF Typed
  <2>6. Need[k] \in Nat /\ Need[k + 1] \in Nat /\ made[k] \in Nat /\ made[k] <= Need[k]
    BY <2>2, NeedFacts DEF Typed, Counts
  <2>7. Need[k] <= Fan * Need[k + 1]
    <3>1. CeilDiv(Need[k], Fan) <= Need[k + 1] <=> Need[k] <= Fan * Need[k + 1]
      BY <2>6, CeilDivFacts
    <3> QED BY <2>5, <2>6, <3>1
  <2>8. made[k] = Need[k]
    BY <2>3, <2>4, <2>6, <2>7
  <2> QED BY <2>8 DEF k
<1>4. \A n \in Nat : n \in P
  <2> HIDE DEF P
  <2> QED BY <1>2, <1>3, NatSetInduction
<1> QED
  <2> SUFFICES ASSUME NEW k \in Ranks, k <= t PROVE made[k] = Need[k]
    OBVIOUS
  <2>1. t - k \in Nat /\ t - (t - k) = k /\ t - k <= t
    BY <1>1 DEF Ranks
  <2> QED BY <1>4, <2>1

\* Every height is full if and only if no chunk is left.
LEMMA FullMeansEmpty ==
  ASSUME Typed, NEW made, Counts(made)
  PROVE  (\A k \in Ranks : made[k] = Need[k]) <=> chunks = 0
<1> DEFINE h == Left(made)
<1>1. ASSUME NEW k \in Ranks PROVE made[k] \in Nat /\ Need[k] \in Nat /\ h[k] \in Nat /\ h[k] = Need[k] - made[k]
  <2>1. made[k] \in Nat /\ made[k] <= Need[k] /\ Need[k] \in Nat /\ h[k] = Need[k] - made[k]
    BY NeedFacts DEF Typed, Counts, Left
  <2> HIDE DEF h
  <2> QED BY <2>1
<1>2. HasSum(h, Ranks, chunks) /\ treeHeight \in Nat /\ chunks \in Nat
  BY NeedFacts DEF Counts, Typed
<1> HIDE DEF h
<1>3. ASSUME \A k \in Ranks : made[k] = Need[k] PROVE chunks = 0
  <2>1. IsFiniteSet(Ranks)
    BY <1>2, FS_Interval DEF Ranks
  <2>2. \A k \in Ranks : h[k] = 0
    BY <1>1, <1>3
  <2> QED BY <1>2, <2>1, <2>2, HasSumNone
<1>4. ASSUME chunks = 0, NEW k \in Ranks PROVE made[k] = Need[k]
  <2>1. h[k] <= chunks
    BY <1>1, <1>2, HasSumBound
  <2> QED BY <1>1, <1>4, <2>1
<1> QED BY <1>3, <1>4

\* While the loop of the innermost call has not filled its node and chunks are
\* left, the tree needs another node at that height.
LEMMA RoomAtTop ==
  ASSUME Typed, Path, Links, NEW made, Counts(made), calls # <<>>, chunks > 0,
         calls[1].i < Fan
  PROVE  made[calls[1].height] < Need[calls[1].height]
<1> DEFINE t == treeHeight - Len(calls)
<1>1. /\ treeHeight \in Nat /\ Len(calls) \in 1 .. treeHeight /\ 1 \in 1 .. Len(calls)
      /\ calls[1].height = t /\ t \in Ranks /\ t + 1 \in Ranks /\ t \in 0 .. treeHeight - 1
  BY TopFacts
<1>2. calls[1].i \in 0 .. Fan /\ \A s \in 2 .. Len(calls) : calls[s].height # t
  <2>1. calls[1].i \in 0 .. Fan
    BY <1>1, CallFacts
  <2>2. ASSUME NEW s \in 2 .. Len(calls) PROVE calls[s].height # t
    <3>1. s \in 1 .. Len(calls) /\ treeHeight - Len(calls) + s - 1 # t
      BY <1>1
    <3>2. calls[s].height = treeHeight - Len(calls) + s - 1
      BY <3>1, CallFacts
    <3> QED BY <3>1, <3>2
  <2> QED BY <2>1, <2>2
<1>3. SUFFICES ASSUME made[t] = Need[t] PROVE FALSE
  <2>1. made[t] \in Nat /\ Need[t] \in Nat /\ made[t] <= Need[t]
    BY <1>1, NeedFacts DEF Typed, Counts
  <2> HIDE DEF t
  <2> QED BY <1>1, <2>1
<1>4. \A k \in Ranks : k <= t => made[k] = Need[k]
  BY <1>3, FullBelow
<1>5. /\ made[t + 1] >= 1 /\ made[t] = (made[t + 1] - 1) * Fan + calls[1].i
      /\ made[t] \in Nat /\ made[t + 1] \in Nat
  BY <1>1 DEF Counts
<1>6. Need[t + 1] = CeilDiv(made[t], Fan) /\ made[t + 1] <= Need[t + 1]
  BY <1>1, <1>3, NeedFacts DEF Typed, Counts
<1> HIDE DEF t
<1>7. CeilDiv(made[t], Fan) = IF calls[1].i = 0 THEN made[t + 1] - 1 ELSE made[t + 1]
  BY <1>2, <1>5, Parents
<1>8. calls[1].i >= 1
  BY <1>2, <1>5, <1>6, <1>7
<1>9. \A s \in 1 .. Len(calls) : calls[s].height = t => calls[s].i >= 1
  BY <1>2, <1>8
<1>10. \A k \in Ranks : k >= t => made[k] = Need[k]
  <2>1. t >= treeHeight - Len(calls)
    BY <1>1 DEF t
  <2> QED BY <1>1, <1>3, <1>9, <2>1, FullAbove
<1>11. \A k \in Ranks : made[k] = Need[k]
  BY <1>1, <1>4, <1>10 DEF Ranks
<1> QED BY <1>11, FullMeansEmpty

\* A call never finds the list empty.
LEMMA NeverEmpty ==
  ASSUME Typed, Path, Links, NEW made, Counts(made), calls # <<>>, calls[1].i = 0
  PROVE  chunks > 0
<1> DEFINE t == treeHeight - Len(calls)
<1>1. /\ treeHeight \in Nat /\ Len(calls) \in 1 .. treeHeight /\ 1 \in 1 .. Len(calls)
      /\ calls[1].height = t /\ t \in Ranks /\ t + 1 \in Ranks /\ t \in 0 .. treeHeight - 1
  BY TopFacts
<1>2. SUFFICES ASSUME chunks = 0 PROVE FALSE
  BY DEF Typed
<1>3. made[t] = Need[t] /\ made[t + 1] = Need[t + 1]
  BY <1>1, <1>2, FullMeansEmpty
<1>4. /\ made[t + 1] >= 1 /\ made[t] = (made[t + 1] - 1) * Fan + 0
      /\ made[t] \in Nat /\ made[t + 1] \in Nat
  BY <1>1 DEF Counts
<1>5. Need[t + 1] = CeilDiv(made[t], Fan)
  BY <1>1, <1>3, NeedFacts DEF Typed
<1> HIDE DEF t
<1>6. CeilDiv(made[t], Fan) = made[t + 1] - 1
  BY <1>4, Parents
<1> QED BY <1>3, <1>4, <1>5, <1>6

\* A node whose children are leaves gets all of them that are left, or Fan.
LEMMA RoomForLeaves ==
  ASSUME Typed, Path, Links, NEW made, Counts(made), calls # <<>>, calls[1].height = 0
  PROVE  \/ chunks >= Fan /\ made[0] + Fan <= Need[0]
         \/ chunks < Fan /\ made[0] + chunks = Need[0]
<1>1. /\ treeHeight \in Nat /\ Len(calls) \in 1 .. treeHeight /\ 1 \in 1 .. Len(calls)
      /\ treeHeight - Len(calls) = 0 /\ 0 \in Ranks /\ 1 \in Ranks /\ 0 \in 0 .. treeHeight - 1
  BY TopFacts DEF Ranks
<1>2. calls[1].i = 0
  BY <1>1 DEF Path
<1>3. /\ made[1] >= 1 /\ made[0] = (made[1] - 1) * Fan + 0
      /\ made[0] \in Nat /\ made[1] \in Nat
  <2>1. 0 + 1 = 1
    OBVIOUS
  <2> QED BY <1>1, <1>2, <2>1 DEF Counts
<1>4. made[0] <= Need[0] /\ made[1] <= Need[1] /\ Need[0] \in Nat /\ Need[1] \in Nat /\ Need[1] = CeilDiv(Need[0], Fan)
  <2>1. 0 + 1 = 1
    OBVIOUS
  <2> QED BY <1>1, <2>1, NeedFacts DEF Counts, Typed
<1> DEFINE h == Left(made)
<1>5. ASSUME NEW k \in Ranks PROVE made[k] \in Nat /\ Need[k] \in Nat /\ h[k] \in Nat /\ h[k] = Need[k] - made[k]
  <2>1. made[k] \in Nat /\ made[k] <= Need[k] /\ Need[k] \in Nat /\ h[k] = Need[k] - made[k]
    BY NeedFacts DEF Typed, Counts, Left
  <2> HIDE DEF h
  <2> QED BY <2>1
<1>6. HasSum(h, Ranks, chunks) /\ chunks \in Nat
  BY DEF Counts, Typed
<1> HIDE DEF h
<1>7. Need[0] - made[0] <= chunks
  BY <1>1, <1>5, <1>6, HasSumBound
<1>8. CASE made[0] + Fan <= Need[0]
  BY <1>3, <1>4, <1>6, <1>7, <1>8
<1>9. CASE made[0] + Fan > Need[0]
  <2>1. Need[1] = made[1]
    <3>1. Need[0] <= Fan * made[1]
      BY <1>3, <1>4, <1>9
    <3>2. CeilDiv(Need[0], Fan) <= made[1] <=> Need[0] <= Fan * made[1]
      BY <1>3, <1>4, CeilDivFacts
    <3> QED BY <1>3, <1>4, <3>1, <3>2
  <2>2. \A k \in Ranks : k >= 1 => made[k] = Need[k]
    <3>1. \A s \in 1 .. Len(calls) : calls[s].height = 1 => calls[s].i >= 1
      <4> SUFFICES ASSUME NEW s \in 1 .. Len(calls), calls[s].height = 1 PROVE calls[s].i >= 1
        OBVIOUS
      <4>1. s > 1
        BY <1>1, CallFacts
      <4> QED BY <4>1 DEF Counts
    <3>2. 1 >= treeHeight - Len(calls)
      BY <1>1
    <3> QED BY <1>1, <2>1, <3>1, <3>2, FullAbove
  <2> DEFINE z == [k \in Ranks |-> 0]
  <2>3. z \in [Ranks -> Nat] /\ z[0] = 0 /\ \A k \in Ranks : z[k] = 0
    BY <1>1
  <2>4. \A k \in Ranks \ {0} : z[k] = h[k]
    BY <1>5, <2>2, <2>3 DEF Ranks
  <2>5. IsFiniteSet(Ranks)
    BY <1>1, FS_Interval DEF Ranks
  <2> HIDE DEF z
  <2>6. HasSum(z, Ranks, chunks - h[0] + z[0])
    BY <1>1, <1>5, <1>6, <2>3, <2>4, HasSumUpdate
  <2>7. chunks - h[0] + z[0] = 0
    BY <2>3, <2>5, <2>6, HasSumNone
  <2>8. h[0] = Need[0] - made[0]
    BY <1>1, <1>5
  <2>9. chunks = Need[0] - made[0]
    <3>1. chunks - (Need[0] - made[0]) + 0 = 0
      BY <2>3, <2>7, <2>8
    <3>2. chunks \in Nat /\ Need[0] \in Nat /\ made[0] \in Nat
      BY <1>3, <1>4, <1>6
    <3>3. \A x, y, z0 \in Nat : x - (y - z0) + 0 = 0 => x = y - z0
      OBVIOUS
    <3> QED BY <3>1, <3>2, <3>3
  <2>10. chunks < Fan
    <3>1. chunks \in Nat /\ Need[0] \in Nat /\ made[0] \in Nat
      BY <1>3, <1>4, <1>6
    <3> QED BY <1>9, <2>9, <3>1
  <2>11. made[0] + chunks = Need[0]
    <3>1. Need[0] \in Nat /\ made[0] \in Nat
      BY <1>3, <1>4
    <3> QED BY <2>9, <3>1
  <2> QED BY <2>10, <2>11
<1> QED BY <1>3, <1>4, <1>8, <1>9

\* m has n nodes more than made at height r, and has as much to make as there
\* are chunks when n fewer are left.
More(made, m, r, n) ==
  /\ m \in [Ranks -> Nat] /\ m[treeHeight] = 1 /\ r \in Ranks
  /\ \A k \in Ranks : m[k] <= Need[k]
  /\ m[r] = made[r] + n /\ \A k \in Ranks : k # r => m[k] = made[k]
  /\ HasSum(Left(m), Ranks, chunks - n)

\* There can be as many where there is room for them.
LEMMA CountMore ==
  ASSUME Typed, NEW made, Counts(made), NEW r \in 0 .. treeHeight - 1, NEW n \in Nat,
         made[r] + n <= Need[r]
  PROVE  \E m : More(made, m, r, n)
<1> DEFINE m == [made EXCEPT ![r] = @ + n]
<1> DEFINE h == Left(made)
           h2 == Left(m)
<1>1. treeHeight \in Nat /\ r \in Ranks /\ treeHeight \in Ranks /\ r # treeHeight
  BY NeedFacts DEF Typed, Ranks
<1>2. \A k \in Ranks : made[k] \in Nat /\ Need[k] \in Nat /\ made[k] <= Need[k]
  <2>1. Need \in [Ranks -> Nat \ {0}]
    BY NeedFacts DEF Typed
  <2>2. made \in [Ranks -> Nat] /\ \A k \in Ranks : made[k] <= Need[k]
    BY DEF Counts
  <2> QED BY <2>1, <2>2
<1>3. made \in [Ranks -> Nat] /\ made[treeHeight] = 1 /\ HasSum(h, Ranks, chunks) /\ chunks \in Nat
  BY DEF Counts, Typed
<1>4. m \in [Ranks -> Nat] /\ m[r] = made[r] + n /\ \A k \in Ranks : k # r => m[k] = made[k]
  BY <1>1, <1>2, <1>3
<1>5. \A k \in Ranks : m[k] <= Need[k]
  BY <1>2, <1>4
<1>6. \A k \in Ranks : h[k] = Need[k] - made[k] /\ h2[k] = Need[k] - m[k]
  BY DEF Left
<1>7. \A k \in Ranks : m[k] \in Nat
  BY <1>4
<1>8. h2 \in [Ranks -> Nat]
  BY <1>2, <1>5, <1>7 DEF Left
<1> HIDE DEF h, h2, m
<1>9. h[r] \in Nat /\ \A k \in Ranks \ {r} : h2[k] = h[k]
  BY <1>1, <1>2, <1>4, <1>6
<1>10. HasSum(h2, Ranks, chunks - h[r] + h2[r])
  BY <1>1, <1>3, <1>8, <1>9, HasSumUpdate
<1>11. chunks - h[r] + h2[r] = chunks - n
  BY <1>1, <1>2, <1>3, <1>4, <1>6
<1>12. HasSum(h2, Ranks, chunks - n)
  BY <1>10, <1>11
<1>13. More(made, m, r, n)
  BY <1>1, <1>3, <1>4, <1>5, <1>12 DEF h2, More
<1> QED BY <1>13

-----------------------------------------------------------------------------
(* Sequences.                                                              *)

\* A function on 1 .. k is a sequence of length k.
LEMMA FunIsSeq ==
  ASSUME NEW S, NEW k \in Nat, NEW f \in [1 .. k -> S]
  PROVE  f \in Seq(S) /\ Len(f) = k
OBVIOUS

\* What a sequence is after k elements have been put behind it.
LEMMA Grown ==
  ASSUME NEW S, NEW s \in Seq(S), NEW n, Len(s) = n, NEW k \in Nat, NEW f \in [1 .. k -> S]
  PROVE  /\ s \o f \in Seq(S) /\ Len(s \o f) = n + k
         /\ \A c \in 1 .. n : (s \o f)[c] = s[c]
         /\ \A c \in n + 1 .. n + k : c - n \in 1 .. k /\ (s \o f)[c] = f[c - n]
<1>1. f \in Seq(S) /\ Len(f) = k
  BY FunIsSeq
<1>2. n \in Nat
  BY LenProperties
<1>3. /\ s \o f \in Seq(S) /\ Len(s \o f) = Len(s) + Len(f)
      /\ \A c \in 1 .. Len(s) + Len(f) : (s \o f)[c] = IF c <= Len(s) THEN s[c] ELSE f[c - Len(s)]
  BY <1>1, ConcatProperties
<1>4. /\ s \o f \in Seq(S) /\ Len(s \o f) = n + k
      /\ \A c \in 1 .. n + k : (s \o f)[c] = IF c <= n THEN s[c] ELSE f[c - n]
  BY <1>1, <1>3
<1> QED BY <1>2, <1>4

\* The calls that are left when the innermost one returns.
LEMMA Returned ==
  ASSUME Typed, calls # <<>>
  PROVE  /\ Tail(calls) \in Seq([node : Nat, height : Nat, i : Nat])
         /\ Len(Tail(calls)) = Len(calls) - 1
         /\ \A s \in 1 .. Len(calls) - 1 : Tail(calls)[s] = calls[s + 1]
BY HeadTailProperties DEF Typed

-----------------------------------------------------------------------------
(* The steps.                                                              *)

\* The leaves that a node gets.
NewLeaves == IF chunks < Fan THEN chunks ELSE Fan

\* The leaves that a node gets: as many as fit or are left, and not more than
\* the tree needs.
LEMMA LeavesFacts ==
  ASSUME Typed, Path, Links, NEW made, Counts(made), MakeLeaves
  PROVE  /\ treeHeight \in Nat /\ Len(calls) \in 1 .. treeHeight /\ 1 \in 1 .. Len(calls)
         /\ treeHeight = Len(calls) /\ 0 \in Ranks /\ 1 \in Ranks /\ 0 \in 0 .. treeHeight - 1
         /\ calls # <<>> /\ calls[1].height = 0 /\ calls[1].i = 0 /\ Top = calls[1]
         /\ calls[1].node \in 1 .. popped
         /\ chunks > 0 /\ chunks \in Nat /\ popped \in Nat \ {0}
         /\ NewLeaves \in 1 .. Fan /\ NewLeaves <= chunks /\ NewLeaves \in Nat
         /\ made[0] + NewLeaves <= Need[0] /\ made[0] \in Nat
         /\ (chunks - NewLeaves > 0 => NewLeaves = Fan)
<1> DEFINE k    == NewLeaves
           node == calls[1].node
<1>1. Typed /\ Path /\ Links
  OBVIOUS
<1>2. Counts(made)
  OBVIOUS
<1>3. calls # <<>> /\ Top.height = 0
  BY DEF MakeLeaves
<1>4. /\ treeHeight \in Nat /\ Len(calls) \in 1 .. treeHeight /\ 1 \in 1 .. Len(calls)
      /\ treeHeight = Len(calls) /\ 0 \in Ranks /\ 1 \in Ranks /\ 0 \in 0 .. treeHeight - 1
      /\ calls[1].height = 0 /\ Top = calls[1] /\ calls[1].i = 0
      /\ node \in 1 .. popped
  <2>1. /\ treeHeight \in Nat /\ Len(calls) \in 1 .. treeHeight /\ 1 \in 1 .. Len(calls)
        /\ calls[1].height = treeHeight - Len(calls) /\ Top = calls[1]
    BY <1>1, <1>3, TopFacts
  <2>2. calls[1].height = 0 /\ calls[1].i = 0 /\ node \in 1 .. popped
    BY <1>3, <2>1, <1>1 DEF Path
  <2> QED BY <2>1, <2>2 DEF Ranks
<1>5. chunks > 0 /\ chunks \in Nat /\ popped \in Nat \ {0}
  BY <1>1, <1>2, <1>3, <1>4, NeverEmpty DEF Typed
<1>6. /\ k \in 1 .. Fan /\ k <= chunks /\ made[0] + k <= Need[0] /\ made[0] \in Nat
      /\ chunks - k > 0 => k = Fan
      /\ k \in Nat
  <2>1. \/ chunks >= Fan /\ made[0] + Fan <= Need[0]
        \/ chunks < Fan /\ made[0] + chunks = Need[0]
    BY <1>1, <1>2, <1>3, <1>4, RoomForLeaves
  <2>2. made[0] \in Nat /\ Need[0] \in Nat
    BY <1>1, <1>2, <1>4, NeedFacts DEF Typed, Counts
  <2> QED BY <1>5, <2>1, <2>2 DEF NewLeaves
<1> QED BY <1>3, <1>4, <1>5, <1>6

\* What MakeLeaves does: the node gets its leaves, which are linked one to the
\* next, and the elder sibling's last leaf, if there is one, to the first.
LEMMA LeavesEffect ==
  ASSUME Typed, Path, Links, NEW made, Counts(made), MakeLeaves
  PROVE  /\ pointers' \in Seq(Seq(Nat)) /\ Len(pointers') = popped + NewLeaves
         /\ Len(pointers'[calls[1].node]) = NewLeaves
         /\ \A j \in 1 .. NewLeaves : pointers'[calls[1].node][j] = popped + j
         /\ \A c \in 1 .. popped : c # calls[1].node => pointers'[c] = pointers[c]
         /\ \A c \in popped + 1 .. popped + NewLeaves : pointers'[c] = <<>>
         /\ isLeaf' \in Seq(BOOLEAN) /\ Len(isLeaf') = popped + NewLeaves
         /\ \A c \in 1 .. popped : isLeaf'[c] = isLeaf[c]
         /\ \A c \in popped + 1 .. popped + NewLeaves : isLeaf'[c]
         /\ next_chunk' \in Seq(Nat) /\ Len(next_chunk') = popped + NewLeaves
         /\ \A c \in 1 .. popped + NewLeaves : next_chunk'[c] \in 0 .. popped + NewLeaves
         /\ \A c \in 1 .. popped :
              next_chunk'[c] = IF c = LinkFrom(calls[1].node, 0) THEN popped + 1 ELSE next_chunk[c]
         /\ \A j \in 1 .. NewLeaves : next_chunk'[popped + j] = IF j = NewLeaves THEN 0 ELSE popped + j + 1
         /\ calls' \in Seq([node : Nat, height : Nat, i : Nat]) /\ Len(calls') = Len(calls) - 1
         /\ \A s \in 1 .. Len(calls) - 1 : calls'[s] = calls[s + 1] /\ s + 1 \in 1 .. Len(calls)
         /\ popped' = popped + NewLeaves /\ chunks' = chunks - NewLeaves /\ done' = (calls' = <<>>)
         /\ popped + NewLeaves \in Nat \ {0} /\ chunks - NewLeaves \in Nat
         /\ treeHeight' = treeHeight /\ numElements' = numElements /\ Ranks' = Ranks /\ Need' = Need
<1> DEFINE k    == NewLeaves
           node == calls[1].node
           new  == [j \in 1 .. k |-> popped + j]
           none == [j \in 1 .. k |-> <<>>]
           yes == [j \in 1 .. k |-> TRUE]
           link == [j \in 1 .. k |-> IF j = k THEN 0 ELSE popped + j + 1]
           from == LinkFrom(node, 0)
           old  == IF from = 0 THEN next_chunk ELSE [next_chunk EXCEPT ![from] = popped + 1]
           more == [pointers EXCEPT ![node] = new]
<1>1. Typed /\ Path /\ Links
  OBVIOUS
<1>4. /\ treeHeight \in Nat /\ Len(calls) \in 1 .. treeHeight /\ calls # <<>>
      /\ Top.node = node /\ node \in 1 .. popped /\ Top.height = 0
  BY LeavesFacts
<1>3. /\ pointers' = [pointers EXCEPT ![Top.node] = new] \o none
      /\ isLeaf' = isLeaf \o yes /\ next_chunk' = old \o link
      /\ popped' = popped + k /\ chunks' = chunks - k
      /\ calls' = Tail(calls) /\ done' = (Tail(calls) = <<>>)
      /\ numElements' = numElements /\ treeHeight' = treeHeight
  BY <1>4 DEF MakeLeaves, NewLeaves
<1>5. chunks > 0 /\ chunks \in Nat /\ popped \in Nat \ {0}
  BY LeavesFacts
<1>6. k \in 1 .. Fan /\ k <= chunks /\ k \in Nat
  BY LeavesFacts
<1>7. /\ new \in [1 .. k -> Nat] /\ none \in [1 .. k -> Seq(Nat)] /\ yes \in [1 .. k -> BOOLEAN]
      /\ link \in [1 .. k -> Nat]
      /\ \A j \in 1 .. k : new[j] = popped + j /\ none[j] = <<>> /\ yes[j]
      /\ \A j \in 1 .. k : /\ link[j] \in 0 .. popped + k
                           /\ link[j] = IF j = k THEN 0 ELSE popped + j + 1
  BY <1>5, <1>6
<1>8. new \in Seq(Nat) /\ Len(new) = k
  BY <1>6, <1>7, FunIsSeq
<1> HIDE DEF new, none, yes, link
<1>9. /\ more \in Seq(Seq(Nat)) /\ Len(more) = popped
      /\ \A c \in 1 .. popped : more[c] = IF c = node THEN new ELSE pointers[c]
  <2>1. pointers \in Seq(Seq(Nat)) /\ Len(pointers) = popped
    BY <1>1 DEF Typed
  <2> QED BY <1>4, <1>8, <2>1, ExceptSeq
<1>10. /\ pointers' \in Seq(Seq(Nat)) /\ Len(pointers') = popped + k
       /\ \A c \in 1 .. popped : pointers'[c] = IF c = node THEN new ELSE pointers[c]
       /\ \A c \in popped + 1 .. popped + k : pointers'[c] = <<>>
  <2>1. pointers' = more \o none
    BY <1>3, <1>4
  <2> HIDE DEF more
  <2>2. /\ more \o none \in Seq(Seq(Nat)) /\ Len(more \o none) = popped + k
        /\ \A c \in 1 .. popped : (more \o none)[c] = more[c]
        /\ \A c \in popped + 1 .. popped + k : c - popped \in 1 .. k /\ (more \o none)[c] = none[c - popped]
    <3> DEFINE B == Seq(Nat)
    <3>1. more \in Seq(B) /\ Len(more) = popped
      BY <1>9
    <3>2. none \in [1 .. k -> B] /\ k \in Nat
      BY <1>6, <1>7
    <3> HIDE DEF B, none, k
    <3>3. /\ more \o none \in Seq(B) /\ Len(more \o none) = popped + k
          /\ \A c \in 1 .. popped : (more \o none)[c] = more[c]
          /\ \A c \in popped + 1 .. popped + k : c - popped \in 1 .. k /\ (more \o none)[c] = none[c - popped]
      BY <3>1, <3>2, Grown
    <3> QED BY <3>3 DEF B, none, k
  <2>3. \A c \in popped + 1 .. popped + k : (more \o none)[c] = <<>>
    BY <1>7, <2>2
  <2>4. \A c \in 1 .. popped : (more \o none)[c] = IF c = node THEN new ELSE pointers[c]
    BY <1>9, <2>2
  <2> QED BY <2>1, <2>2, <2>3, <2>4
<1>11. /\ isLeaf' \in Seq(BOOLEAN) /\ Len(isLeaf') = popped + k
       /\ \A c \in 1 .. popped : isLeaf'[c] = isLeaf[c]
       /\ \A c \in popped + 1 .. popped + k : isLeaf'[c]
  <2>1. isLeaf \in Seq(BOOLEAN) /\ Len(isLeaf) = popped
    BY <1>1 DEF Typed
  <2>2. /\ isLeaf \o yes \in Seq(BOOLEAN) /\ Len(isLeaf \o yes) = popped + k
        /\ \A c \in 1 .. popped : (isLeaf \o yes)[c] = isLeaf[c]
        /\ \A c \in popped + 1 .. popped + k : c - popped \in 1 .. k /\ (isLeaf \o yes)[c] = yes[c - popped]
    <3> DEFINE B == BOOLEAN
    <3>1. yes \in [1 .. k -> B] /\ k \in Nat /\ isLeaf \in Seq(B) /\ Len(isLeaf) = popped
      BY <1>6, <1>7, <2>1
    <3> HIDE DEF B
    <3>2. /\ isLeaf \o yes \in Seq(B) /\ Len(isLeaf \o yes) = popped + k
          /\ \A c \in 1 .. popped : (isLeaf \o yes)[c] = isLeaf[c]
          /\ \A c \in popped + 1 .. popped + k : c - popped \in 1 .. k /\ (isLeaf \o yes)[c] = yes[c - popped]
      BY <3>1, Grown
    <3> QED BY <3>2 DEF B
  <2> QED BY <1>3, <1>7, <2>2
<1>12. /\ next_chunk' \in Seq(Nat) /\ Len(next_chunk') = popped + k
       /\ \A c \in 1 .. popped + k : next_chunk'[c] \in 0 .. popped + k
       /\ \A c \in 1 .. popped : next_chunk'[c] = IF c = from THEN popped + 1 ELSE next_chunk[c]
       /\ \A j \in 1 .. k : next_chunk'[popped + j] = IF j = k THEN 0 ELSE popped + j + 1
  <2> HIDE DEF from
  <2>1. next_chunk \in Seq(Nat) /\ Len(next_chunk) = popped /\ next_chunk \in [1 .. popped -> Nat]
        /\ \A c \in 1 .. popped : next_chunk[c] \in 0 .. popped
    BY <1>1, LenProperties DEF Typed, Links
  <2>2. /\ old \in [1 .. popped -> Nat]
        /\ \A c \in 1 .. popped : old[c] \in 0 .. popped + k
        /\ \A c \in 1 .. popped : old[c] = IF c = from THEN popped + 1 ELSE next_chunk[c]
    <3>1. CASE from = 0
      BY <1>5, <1>6, <2>1, <3>1
    <3>2. CASE from # 0
      <4> DEFINE linked == [next_chunk EXCEPT ![from] = popped + 1]
      <4>1. \A c \in 1 .. popped : linked[c] = (IF c = from THEN popped + 1 ELSE next_chunk[c])
        BY <2>1
      <4>2. \A c \in 1 .. popped : linked[c] \in 0 .. popped + k
        BY <1>5, <1>6, <2>1, <4>1
      <4>3. linked \in [1 .. popped -> Nat]
        <5>1. popped + 1 \in Nat /\ next_chunk \in [1 .. popped -> Nat]
          BY <1>5, <2>1
        <5> HIDE DEF from
        <5> QED BY <5>1
      <4> QED BY <3>2, <4>1, <4>2, <4>3
    <3> QED BY <3>1, <3>2
  <2>3. old \in Seq(Nat) /\ Len(old) = popped
    <3>1. old \in [1 .. popped -> Nat] /\ popped \in Nat
      BY <1>5, <2>2
    <3> HIDE DEF old
    <3> QED BY <3>1, FunIsSeq
  <2> HIDE DEF old
  <2>4. /\ old \o link \in Seq(Nat) /\ Len(old \o link) = popped + k
        /\ \A c \in 1 .. popped : (old \o link)[c] = old[c]
        /\ \A c \in popped + 1 .. popped + k : c - popped \in 1 .. k /\ (old \o link)[c] = link[c - popped]
    <3> DEFINE B == Nat
    <3>1. link \in [1 .. k -> B] /\ k \in Nat /\ old \in Seq(B) /\ Len(old) = popped
      BY <1>6, <1>7, <2>3
    <3> HIDE DEF B, link, k
    <3>2. /\ old \o link \in Seq(B) /\ Len(old \o link) = popped + k
          /\ \A c \in 1 .. popped : (old \o link)[c] = old[c]
          /\ \A c \in popped + 1 .. popped + k : c - popped \in 1 .. k /\ (old \o link)[c] = link[c - popped]
      BY <3>1, Grown
    <3> QED BY <3>2 DEF B, link, k
  <2>6. \A c \in 1 .. popped + k : c \in 1 .. popped \/ c \in popped + 1 .. popped + k
    BY <1>5, <1>6
  <2>7. \A c \in popped + 1 .. popped + k : (old \o link)[c] \in 0 .. popped + k
    BY <1>7, <2>4
  <2>8. next_chunk' = old \o link
    BY <1>3
  <2>9. ASSUME NEW j \in 1 .. k PROVE (old \o link)[popped + j] = IF j = k THEN 0 ELSE popped + j + 1
    <3>1. popped + j \in popped + 1 .. popped + k /\ (popped + j) - popped = j
      BY <1>5, <1>6
    <3>2. (old \o link)[popped + j] = link[j]
      BY <2>4, <3>1
    <3> QED BY <1>7, <3>2
  <2>10. \A c \in 1 .. popped : (old \o link)[c] = IF c = from THEN popped + 1 ELSE next_chunk[c]
    BY <2>2, <2>4
  <2> QED BY <2>2, <2>4, <2>6, <2>7, <2>8, <2>9, <2>10
<1> HIDE DEF more, old, from
<1>13. /\ calls' \in Seq([node : Nat, height : Nat, i : Nat]) /\ Len(calls') = Len(calls) - 1
       /\ \A s \in 1 .. Len(calls) - 1 : calls'[s] = calls[s + 1] /\ s + 1 \in 1 .. Len(calls)
  <2>1. \A s \in 1 .. Len(calls) - 1 : s + 1 \in 1 .. Len(calls)
    BY <1>4
  <2> QED BY <1>1, <1>3, <1>4, <2>1, Returned
<1>14. popped' = popped + k /\ chunks' = chunks - k /\ popped + k \in Nat \ {0} /\ chunks - k \in Nat
       /\ treeHeight' = treeHeight /\ numElements' = numElements /\ Ranks' = Ranks /\ Need' = Need
  BY <1>3, <1>5, <1>6 DEF Ranks, Need, TreeLeaves
<1>15. Len(pointers'[node]) = k /\ \A j \in 1 .. k : pointers'[node][j] = popped + j
  BY <1>4, <1>7, <1>8, <1>10
<1>16. \A c \in 1 .. popped : c # node => pointers'[c] = pointers[c]
  BY <1>10
<1>17. \A c \in popped + 1 .. popped + k : pointers'[c] = <<>>
  BY <1>10
<1>18. /\ pointers' \in Seq(Seq(Nat)) /\ Len(pointers') = popped + k
       /\ done' = (calls' = <<>>)
  BY <1>3, <1>10
<1> QED BY <1>11, <1>12, <1>13, <1>14, <1>15, <1>16, <1>17, <1>18 DEF from

\* A set of leaves is made and the innermost call returns: the counts.
LEMMA LeavesCount ==
  ASSUME Typed, Path, Links, NEW made, Counts(made), MakeLeaves
  PROVE  Typed' /\ Path' /\ Links' /\ \E m : More(made, m, 0, NewLeaves) /\ Counts(m)'
<1> DEFINE k    == NewLeaves
           node == calls[1].node
<1>1. Typed /\ Path /\ Links
  OBVIOUS
<1>2. Counts(made)
  OBVIOUS
<1>4. /\ treeHeight \in Nat /\ Len(calls) \in 1 .. treeHeight /\ 1 \in 1 .. Len(calls)
      /\ treeHeight = Len(calls) /\ 0 \in Ranks /\ 1 \in Ranks /\ 0 \in 0 .. treeHeight - 1
      /\ calls[1].height = 0 /\ calls[1].i = 0 /\ node \in 1 .. popped
  BY LeavesFacts
<1>5. chunks > 0 /\ chunks \in Nat /\ popped \in Nat \ {0}
  BY LeavesFacts
<1>6. /\ k \in 1 .. Fan /\ k <= chunks /\ made[0] + k <= Need[0] /\ made[0] \in Nat
      /\ chunks - k > 0 => k = Fan
      /\ k \in Nat
  BY LeavesFacts
<1>8. Len(pointers'[node]) = k /\ \A j \in 1 .. k : pointers'[node][j] = popped + j
  BY LeavesEffect
<1>10. /\ pointers' \in Seq(Seq(Nat)) /\ Len(pointers') = popped + k
       /\ \A c \in 1 .. popped : c # node => pointers'[c] = pointers[c]
       /\ \A c \in popped + 1 .. popped + k : pointers'[c] = <<>>
  BY LeavesEffect
<1>11. /\ isLeaf' \in Seq(BOOLEAN) /\ Len(isLeaf') = popped + k
       /\ \A c \in 1 .. popped : isLeaf'[c] = isLeaf[c]
       /\ \A c \in popped + 1 .. popped + k : isLeaf'[c]
  BY LeavesEffect
<1>12. /\ next_chunk' \in Seq(Nat) /\ Len(next_chunk') = popped + k
       /\ \A c \in 1 .. popped + k : next_chunk'[c] \in 0 .. popped + k
  BY LeavesEffect
<1>13. /\ calls' \in Seq([node : Nat, height : Nat, i : Nat]) /\ Len(calls') = Len(calls) - 1
       /\ \A s \in 1 .. Len(calls) - 1 : calls'[s] = calls[s + 1] /\ s + 1 \in 1 .. Len(calls)
  BY LeavesEffect
<1>14. popped' = popped + k /\ chunks' = chunks - k /\ popped + k \in Nat \ {0} /\ chunks - k \in Nat
       /\ treeHeight' = treeHeight /\ numElements' = numElements /\ Ranks' = Ranks /\ Need' = Need
       /\ done' = (calls' = <<>>)
  BY LeavesEffect
<1>15. Typed'
  <2>1. numElements \in 0 .. MaxElements /\ treeHeight \in Heights(NumLeaves(numElements))
    BY <1>1 DEF Typed
  <2> QED BY <1>10, <1>11, <1>12, <1>13, <1>14, <2>1 DEF Typed
<1>16. Path'
  <2>1. Len(calls') <= treeHeight' /\ done' = (calls' = <<>>)
    BY <1>4, <1>13, <1>14
  <2>2. ASSUME NEW s \in 1 .. Len(calls')
        PROVE  /\ calls'[s].node \in 1 .. popped'
               /\ calls'[s].height = treeHeight' - Len(calls') + s - 1
               /\ calls'[s].i = Len(pointers'[calls'[s].node])
               /\ calls'[s].height = 0 => calls'[s].i = 0
               /\ \A u \in 1 .. Len(calls') : s < u => calls'[u].node < calls'[s].node
    <3>1. s \in 1 .. Len(calls) - 1 /\ s + 1 \in 1 .. Len(calls) /\ calls'[s] = calls[s + 1] /\ s \in Nat
      <4>1. s \in 1 .. Len(calls) - 1
        BY <1>13
      <4>2. calls'[s] = calls[s + 1] /\ s + 1 \in 1 .. Len(calls)
        BY <1>13, <4>1
      <4> QED BY <4>1, <4>2
    <3>2. /\ calls[s + 1].node \in 1 .. popped
          /\ calls[s + 1].height = treeHeight - Len(calls) + (s + 1) - 1
          /\ calls[s + 1].i = Len(pointers[calls[s + 1].node])
          /\ calls[s + 1].height = 0 => calls[s + 1].i = 0
      BY <1>1, <3>1 DEF Path
    <3>3. calls[s + 1].node < node
      BY <1>1, <1>4, <3>1 DEF Path
    <3>4. pointers'[calls[s + 1].node] = pointers[calls[s + 1].node]
      <4>1. calls[s + 1].node # node
        BY <1>4, <3>2, <3>3
      <4> HIDE DEF node
      <4> QED BY <1>10, <3>2, <4>1
    <3>5. ASSUME NEW u \in 1 .. Len(calls'), s < u PROVE calls'[u].node < calls'[s].node
      <4>0. u \in 1 .. Len(calls) - 1
        BY <1>13
      <4>1. u + 1 \in 1 .. Len(calls) /\ calls'[u] = calls[u + 1] /\ s + 1 < u + 1
        BY <1>13, <3>5, <3>1, <4>0
      <4> QED BY <1>1, <3>1, <4>1 DEF Path
    <3>6. calls'[s].node \in 1 .. popped'
      BY <1>5, <1>6, <1>14, <3>1, <3>2
    <3>7. calls'[s].height = treeHeight' - Len(calls') + s - 1
      <4>1. treeHeight - Len(calls) + (s + 1) - 1 = treeHeight - (Len(calls) - 1) + s - 1
        BY <1>4, <3>1
      <4> QED BY <1>13, <1>14, <3>1, <3>2, <4>1
    <3> QED BY <3>1, <3>2, <3>4, <3>5, <3>6, <3>7
  <2> QED BY <2>1, <2>2 DEF Path
<1>17. Links'
  <2>1. ASSUME NEW c \in 1 .. popped'
        PROVE  /\ Len(pointers'[c]) <= Fan
               /\ \A j \in 1 .. Len(pointers'[c]) : pointers'[c][j] \in c + 1 .. popped'
               /\ next_chunk'[c] \in 0 .. popped'
    <3>1. next_chunk'[c] \in 0 .. popped' /\ c \in Nat /\ c \in 1 .. popped + k
      BY <1>5, <1>6, <1>12, <1>14
    <3>2. CASE c = node
      <4>1. c <= popped
        BY <1>4, <3>2
      <4>2. \A j \in 1 .. k : popped + j \in c + 1 .. popped + k
        BY <1>5, <1>6, <3>1, <4>1
      <4>3. Len(pointers'[c]) = k /\ \A j \in 1 .. k : pointers'[c][j] = popped + j
        BY <1>8, <3>2
      <4> HIDE DEF node
      <4> QED BY <1>6, <1>14, <3>1, <4>2, <4>3
    <3>3. CASE c # node /\ c \in 1 .. popped
      <4>1. pointers'[c] = pointers[c]
        BY <1>10, <3>3
      <4>2. /\ Len(pointers[c]) <= Fan
            /\ \A j \in 1 .. Len(pointers[c]) : pointers[c][j] \in c + 1 .. popped
        BY <1>1, <3>3 DEF Links
      <4>3. \A x \in c + 1 .. popped : x \in c + 1 .. popped + k
        BY <1>5, <1>6, <3>1
      <4> QED BY <1>14, <3>1, <4>1, <4>2, <4>3
    <3>4. CASE c \in popped + 1 .. popped + k
      <4>1. pointers'[c] = <<>>
        BY <1>10, <3>4
      <4>2. Len(<<>>) = 0
        BY EmptySeq
      <4> QED BY <3>1, <4>1, <4>2
    <3>5. c \in 1 .. popped \/ c \in popped + 1 .. popped + k
      BY <1>5, <1>6, <3>1
    <3>6. c = node \/ (c # node /\ c \in 1 .. popped) \/ c \in popped + 1 .. popped + k
      BY <3>5
    <3> HIDE DEF node
    <3> QED BY <3>2, <3>3, <3>4, <3>6, Zenon
  <2> QED BY <2>1 DEF Links
<1>18. PICK m : More(made, m, 0, k)
  <2>1. Typed /\ Counts(made)
    BY <1>1, <1>2
  <2>2. 0 \in 0 .. treeHeight - 1 /\ k \in Nat /\ made[0] + k <= Need[0]
    BY <1>4, <1>6
  <2> QED BY <2>1, <2>2, CountMore
<1>19. /\ m \in [Ranks -> Nat] /\ m[treeHeight] = 1
       /\ \A r \in Ranks : m[r] <= Need[r]
       /\ m[0] = made[0] + k /\ \A r \in Ranks : r # 0 => m[r] = made[r]
       /\ HasSum(Left(m), Ranks, chunks - k)
  BY <1>18 DEF More
<1>20. Counts(m)'
  <2>1. ASSUME NEW s \in 1 .. Len(calls')
        PROVE  /\ m[calls'[s].height + 1] >= 1
               /\ m[calls'[s].height] = (m[calls'[s].height + 1] - 1) * Fan + calls'[s].i
               /\ s > 1 => calls'[s].i >= 1
    <3>1. s + 1 \in 1 .. Len(calls) /\ calls'[s] = calls[s + 1] /\ s + 1 > 1 /\ s \in Nat /\ s >= 1 /\ s < Len(calls)
      <4>1. s \in 1 .. Len(calls) - 1
        BY <1>13
      <4>2. calls'[s] = calls[s + 1] /\ s + 1 \in 1 .. Len(calls)
        BY <1>13, <4>1
      <4>3. Len(calls) \in Nat
        BY <1>4
      <4> QED BY <4>1, <4>2, <4>3
    <3>2. calls[s + 1].height = treeHeight - Len(calls) + (s + 1) - 1
      BY <1>1, <3>1 DEF Path
    <3>3. /\ calls[s + 1].height \in Ranks /\ calls[s + 1].height # 0
          /\ calls[s + 1].height + 1 \in Ranks /\ calls[s + 1].height + 1 # 0
      BY <1>4, <3>1, <3>2 DEF Ranks
    <3>4. /\ made[calls[s + 1].height + 1] >= 1
          /\ made[calls[s + 1].height] = (made[calls[s + 1].height + 1] - 1) * Fan + calls[s + 1].i
          /\ calls[s + 1].i >= 1
      BY <1>2, <3>1 DEF Counts
    <3> QED BY <1>19, <3>1, <3>3, <3>4
  <2>2. ASSUME chunks' > 0, NEW r \in 0 .. treeHeight' - Len(calls') - 1 PROVE m[r] = Fan * m[r + 1]
    <3>1. r = 0 /\ r + 1 = 1 /\ k = Fan
      BY <1>4, <1>6, <1>13, <1>14, <2>2
    <3>2. made[0] = (made[1] - 1) * Fan + 0 /\ made[1] \in Nat
      <4>1. 0 + 1 = 1
        OBVIOUS
      <4> QED BY <1>2, <1>4, <4>1 DEF Counts
    <3>3. m[0] = made[0] + Fan /\ m[1] = made[1]
      BY <1>4, <1>19, <3>1
    <3>4. \A x \in Nat : ((x - 1) * Fan + 0) + Fan = Fan * x
      OBVIOUS
    <3> QED BY <3>1, <3>2, <3>3, <3>4
  <2>3. Cardinality({d \in 1 .. popped' : isLeaf'[d]}) = m[0]
    <3>1. {d \in 1 .. popped' : isLeaf'[d]} = {d \in 1 .. popped : isLeaf[d]} \cup (popped + 1 .. popped + k)
      <4>1. \A d : d \in 1 .. popped + k <=> d \in 1 .. popped \/ d \in popped + 1 .. popped + k
        BY <1>5, <1>6
      <4> QED BY <1>11, <1>14, <4>1
    <3>2. IsFiniteSet({d \in 1 .. popped : isLeaf[d]})
      <4>1. IsFiniteSet(1 .. popped)
        BY <1>5, FS_Interval
      <4> QED BY <4>1, FS_Subset
    <3>3. IsFiniteSet(popped + 1 .. popped + k) /\ Cardinality(popped + 1 .. popped + k) = k
      <4>1. popped + 1 \in Int /\ popped + k \in Int /\ ~(popped + 1 > popped + k)
            /\ (popped + k) - (popped + 1) + 1 = k
        BY <1>5, <1>6
      <4> QED BY <4>1, FS_Interval
    <3>4. {d \in 1 .. popped : isLeaf[d]} \cap (popped + 1 .. popped + k) = {}
      BY <1>5, <1>6
    <3>5. Cardinality({}) = 0
      BY FS_EmptySet
    <3>6. Cardinality({d \in 1 .. popped : isLeaf[d]}) = made[0]
      BY <1>2 DEF Counts
    <3>7. Cardinality({d \in 1 .. popped : isLeaf[d]} \cup (popped + 1 .. popped + k)) = made[0] + k - 0
      <4> DEFINE A == {d \in 1 .. popped : isLeaf[d]}
                 B == popped + 1 .. popped + k
      <4>1. IsFiniteSet(A) /\ IsFiniteSet(B)
        BY <3>2, <3>3
      <4>2. Cardinality(A) = made[0] /\ Cardinality(B) = k /\ Cardinality(A \cap B) = 0
        BY <3>3, <3>4, <3>5, <3>6
      <4> HIDE DEF A, B
      <4>3. Cardinality(A \cup B) = Cardinality(A) + Cardinality(B) - Cardinality(A \cap B)
        BY <4>1, FS_Union
      <4>4. Cardinality(A \cup B) = made[0] + k - 0
        BY <4>2, <4>3
      <4> QED BY <4>4 DEF A, B
    <3>8. made[0] + k - 0 = made[0] + k
      BY <1>6
    <3> QED BY <1>19, <3>1, <3>7, <3>8
  <2>4. Left(m)' = Left(m)
    BY <1>14 DEF Left
  <2> QED BY <1>14, <1>19, <2>1, <2>2, <2>3, <2>4 DEF Counts
<1> QED BY <1>15, <1>16, <1>17, <1>18, <1>20

\* What a sequence is after an element has been put behind it.
LEMMA Appended ==
  ASSUME NEW S, NEW s \in Seq(S), NEW n, Len(s) = n, NEW e \in S
  PROVE  /\ Append(s, e) \in Seq(S) /\ Len(Append(s, e)) = n + 1
         /\ \A c \in 1 .. n : Append(s, e)[c] = s[c]
         /\ Append(s, e)[n + 1] = e
BY AppendProperties

\* What a sequence is after two elements have taken the place of the first.
LEMMA Pushed ==
  ASSUME NEW S, NEW s \in Seq(S), s # <<>>, NEW a \in S, NEW b \in S
  PROVE  /\ <<a, b>> \o Tail(s) \in Seq(S) /\ Len(<<a, b>> \o Tail(s)) = Len(s) + 1
         /\ (<<a, b>> \o Tail(s))[1] = a /\ (<<a, b>> \o Tail(s))[2] = b
         /\ \A x \in 2 .. Len(s) : (<<a, b>> \o Tail(s))[x + 1] = s[x]
<1>1. /\ Tail(s) \in Seq(S) /\ Len(Tail(s)) = Len(s) - 1
      /\ \A x \in 1 .. Len(s) - 1 : Tail(s)[x] = s[x + 1]
  BY HeadTailProperties
<1>2. Len(s) \in Nat \ {0}
  BY EmptySeq
<1>3. <<a, b>> \in Seq(S) /\ Len(<<a, b>>) = 2 /\ <<a, b>>[1] = a /\ <<a, b>>[2] = b
  OBVIOUS
<1> DEFINE p == <<a, b>>
           q == Tail(s)
<1>4. p \in Seq(S) /\ q \in Seq(S) /\ Len(p) = 2 /\ Len(q) = Len(s) - 1
  BY <1>1, <1>3
<1>5. p[1] = a /\ p[2] = b /\ \A x \in 1 .. Len(s) - 1 : q[x] = s[x + 1]
  BY <1>1, <1>3
<1> HIDE DEF p, q
<1>6. /\ p \o q \in Seq(S) /\ Len(p \o q) = Len(p) + Len(q)
      /\ \A x \in 1 .. Len(p) + Len(q) : (p \o q)[x] = IF x <= Len(p) THEN p[x] ELSE q[x - Len(p)]
  BY <1>4, ConcatProperties
<1>7. Len(p \o q) = Len(s) + 1 /\ (p \o q)[1] = a /\ (p \o q)[2] = b
  BY <1>2, <1>4, <1>5, <1>6
<1>8. ASSUME NEW x \in 2 .. Len(s) PROVE (p \o q)[x + 1] = s[x]
  <2>1. x + 1 \in 1 .. Len(p) + Len(q) /\ ~(x + 1 <= 2) /\ (x + 1) - 2 = x - 1
        /\ x - 1 \in 1 .. Len(s) - 1 /\ (x - 1) + 1 = x
    BY <1>2, <1>4
  <2>2. (p \o q)[x + 1] = q[x - 1]
    BY <1>4, <1>6, <2>1
  <2> QED BY <1>5, <2>1, <2>2
<1> QED BY <1>6, <1>7, <1>8 DEF p, q

\* The innermost call makes an internal node only where the tree needs one.
LEMMA InternalFacts ==
  ASSUME Typed, Path, Links, NEW made, Counts(made), MakeInternal
  PROVE  /\ treeHeight \in Nat /\ Len(calls) \in 1 .. treeHeight /\ 1 \in 1 .. Len(calls)
         /\ calls[1].height = treeHeight - Len(calls) /\ calls[1].height \in 1 .. treeHeight - 1
         /\ calls[1].height \in Ranks /\ calls[1].height + 1 \in Ranks
         /\ calls # <<>> /\ calls[1] \in [node : Nat, height : Nat, i : Nat] /\ Top = calls[1]
         /\ calls[1].i \in 0 .. Fan - 1 /\ calls[1].node \in 1 .. popped
         /\ calls[1].i = Len(pointers[calls[1].node])
         /\ chunks > 0 /\ chunks \in Nat /\ popped \in Nat \ {0}
         /\ made[calls[1].height] \in Nat /\ Need[calls[1].height] \in Nat
         /\ made[calls[1].height] < Need[calls[1].height]
<1> DEFINE node  == calls[1].node
           t     == calls[1].height
           Call  == [node : Nat, height : Nat, i : Nat]
<1>1. Typed /\ Path /\ Links
  OBVIOUS
<1>2. Counts(made)
  OBVIOUS
<1>3. calls # <<>> /\ Top.height > 0 /\ Top.i < Fan /\ chunks > 0
  BY DEF MakeInternal
<1>4. /\ treeHeight \in Nat /\ Len(calls) \in 1 .. treeHeight /\ 1 \in 1 .. Len(calls)
      /\ t = treeHeight - Len(calls) /\ t \in 1 .. treeHeight - 1 /\ t \in Ranks /\ t + 1 \in Ranks
      /\ calls[1] \in Call /\ Top = calls[1] /\ calls[1].i \in 0 .. Fan - 1
      /\ node \in 1 .. popped /\ calls[1].i = Len(pointers[node])
  <2>1. /\ treeHeight \in Nat /\ Len(calls) \in 1 .. treeHeight /\ 1 \in 1 .. Len(calls)
        /\ t = treeHeight - Len(calls) /\ Top = calls[1]
        /\ t \in Ranks /\ t + 1 \in Ranks /\ t \in 0 .. treeHeight - 1 /\ calls[1] \in Call
    BY <1>1, <1>3, TopFacts
  <2>2. calls[1].i \in 0 .. Fan /\ node \in 1 .. popped /\ calls[1].i = Len(pointers[node])
    BY <1>1, <2>1, CallFacts DEF Path
  <2>3. t \in 1 .. treeHeight - 1
    BY <1>3, <2>1
  <2>4. calls[1].i \in 0 .. Fan - 1
    <3>1. calls[1].i < Fan
      BY <1>3, <2>1
    <3> QED BY <2>2, <3>1
  <2> QED BY <2>1, <2>2, <2>3, <2>4
<1>5. chunks \in Nat /\ popped \in Nat \ {0}
  BY <1>1 DEF Typed
<1>6. made[t] \in Nat /\ Need[t] \in Nat /\ made[t] < Need[t]
  <2>1. calls[1].i < Fan
    BY <1>4
  <2>2. made[t] < Need[t]
    BY <1>1, <1>2, <1>3, <2>1, RoomAtTop
  <2>3. made[t] \in Nat /\ Need[t] \in Nat
    BY <1>1, <1>2, <1>4, NeedFacts DEF Typed, Counts
  <2> QED BY <2>2, <2>3
<1> QED BY <1>3, <1>4, <1>5, <1>6

\* What MakeInternal does: the node gets one more child, without children as
\* yet, and create_array_tree is called for that.
LEMMA InternalEffect ==
  ASSUME Typed, Path, Links, NEW made, Counts(made), MakeInternal
  PROVE  /\ pointers' \in Seq(Seq(Nat)) /\ Len(pointers') = popped + 1
         /\ Len(pointers'[calls[1].node]) = calls[1].i + 1
         /\ \A j \in 1 .. calls[1].i : pointers'[calls[1].node][j] = pointers[calls[1].node][j]
         /\ pointers'[calls[1].node][calls[1].i + 1] = popped + 1
         /\ \A c \in 1 .. popped : c # calls[1].node => pointers'[c] = pointers[c]
         /\ pointers'[popped + 1] = <<>>
         /\ isLeaf' \in Seq(BOOLEAN) /\ Len(isLeaf') = popped + 1
         /\ \A c \in 1 .. popped : isLeaf'[c] = isLeaf[c]
         /\ ~isLeaf'[popped + 1]
         /\ next_chunk' \in Seq(Nat) /\ Len(next_chunk') = popped + 1
         /\ \A c \in 1 .. popped : next_chunk'[c] = next_chunk[c]
         /\ next_chunk'[popped + 1] = 0
         /\ calls' \in Seq([node : Nat, height : Nat, i : Nat]) /\ Len(calls') = Len(calls) + 1
         /\ calls'[1].node = popped + 1 /\ calls'[1].height = calls[1].height - 1 /\ calls'[1].i = 0
         /\ calls'[2].node = calls[1].node /\ calls'[2].height = calls[1].height
         /\ calls'[2].i = calls[1].i + 1
         /\ \A s \in 2 .. Len(calls) : calls'[s + 1] = calls[s]
         /\ popped' = popped + 1 /\ chunks' = chunks - 1 /\ done' = done
         /\ popped + 1 \in Nat \ {0} /\ chunks - 1 \in Nat
         /\ treeHeight' = treeHeight /\ numElements' = numElements /\ Ranks' = Ranks /\ Need' = Need
<1> DEFINE node  == calls[1].node
           t     == calls[1].height
           child == [node |-> popped + 1, height |-> Top.height - 1, i |-> 0]
           loop  == [Top EXCEPT !.i = @ + 1]
           grown == Append(pointers[node], popped + 1)
           more  == [pointers EXCEPT ![node] = grown]
           Call  == [node : Nat, height : Nat, i : Nat]
<1>1. Typed /\ Path /\ Links
  OBVIOUS
<1>3. /\ pointers' = Append([pointers EXCEPT ![Top.node] = Append(pointers[Top.node], popped + 1)], <<>>)
      /\ isLeaf' = Append(isLeaf, FALSE) /\ next_chunk' = Append(next_chunk, 0)
      /\ popped' = popped + 1 /\ chunks' = chunks - 1
      /\ calls' = <<child, loop>> \o Tail(calls) /\ done' = done
      /\ numElements' = numElements /\ treeHeight' = treeHeight
  BY DEF MakeInternal
<1>4. /\ calls # <<>> /\ calls[1] \in Call /\ Top = calls[1]
      /\ node \in 1 .. popped /\ calls[1].i = Len(pointers[node])
  BY InternalFacts
<1>4a. treeHeight \in Nat /\ Len(calls) \in 1 .. treeHeight
  BY InternalFacts
<1>4b. t = treeHeight - Len(calls) /\ t \in 1 .. treeHeight - 1
  BY InternalFacts
<1>4d. calls[1].i \in 0 .. Fan - 1 /\ calls[1].i \in Nat
  <2>1. calls[1].i \in 0 .. Fan - 1
    BY InternalFacts
  <2> QED BY <2>1
<1> HIDE DEF node, t
<1>5. chunks \in Nat /\ popped \in Nat \ {0} /\ chunks > 0
  BY InternalFacts
<1>6. /\ grown \in Seq(Nat) /\ Len(grown) = calls[1].i + 1
      /\ \A j \in 1 .. calls[1].i : grown[j] = pointers[node][j]
      /\ grown[calls[1].i + 1] = popped + 1
  <2>1. pointers[node] \in Seq(Nat) /\ popped + 1 \in Nat
    <3>1. pointers \in Seq(Seq(Nat)) /\ node \in 1 .. Len(pointers)
      BY <1>1, <1>4 DEF Typed
    <3> HIDE DEF node
    <3>2. pointers[node] \in Seq(Nat)
      BY <3>1, ElementOfSeq
    <3> QED BY <1>5, <3>2
  <2> QED BY <1>4, <2>1, Appended
<1> HIDE DEF grown
<1>7. /\ more \in Seq(Seq(Nat)) /\ Len(more) = popped
      /\ \A c \in 1 .. popped : more[c] = IF c = node THEN grown ELSE pointers[c]
  <2>1. pointers \in Seq(Seq(Nat)) /\ Len(pointers) = popped
    BY <1>1 DEF Typed
  <2> QED BY <1>4, <1>6, <2>1, ExceptSeq
<1>8. /\ pointers' \in Seq(Seq(Nat)) /\ Len(pointers') = popped + 1
      /\ \A c \in 1 .. popped : pointers'[c] = IF c = node THEN grown ELSE pointers[c]
      /\ pointers'[popped + 1] = <<>>
  <2>1. pointers' = Append(more, <<>>)
    BY <1>3, <1>4 DEF grown, node
  <2>2. <<>> \in Seq(Nat)
    BY EmptySeq
  <2> HIDE DEF more
  <2>3. /\ Append(more, <<>>) \in Seq(Seq(Nat)) /\ Len(Append(more, <<>>)) = popped + 1
        /\ \A c \in 1 .. popped : Append(more, <<>>)[c] = more[c]
        /\ Append(more, <<>>)[popped + 1] = <<>>
    BY <1>7, <2>2, Appended
  <2> QED BY <1>7, <2>1, <2>3
<1>9. /\ isLeaf' \in Seq(BOOLEAN) /\ Len(isLeaf') = popped + 1
      /\ \A c \in 1 .. popped : isLeaf'[c] = isLeaf[c]
      /\ ~isLeaf'[popped + 1]
  <2> DEFINE B == BOOLEAN
             no == FALSE
  <2>1. isLeaf \in Seq(B) /\ Len(isLeaf) = popped /\ no \in B /\ isLeaf' = Append(isLeaf, no)
    BY <1>1, <1>3 DEF Typed
  <2> HIDE DEF B, no
  <2>2. /\ Append(isLeaf, no) \in Seq(B) /\ Len(Append(isLeaf, no)) = popped + 1
        /\ \A c \in 1 .. popped : Append(isLeaf, no)[c] = isLeaf[c]
        /\ Append(isLeaf, no)[popped + 1] = no
    BY <2>1, Appended
  <2> QED BY <2>1, <2>2 DEF B, no
<1>10. /\ next_chunk' \in Seq(Nat) /\ Len(next_chunk') = popped + 1
       /\ \A c \in 1 .. popped : next_chunk'[c] = next_chunk[c]
       /\ next_chunk'[popped + 1] = 0
  <2>1. next_chunk \in Seq(Nat) /\ Len(next_chunk) = popped /\ 0 \in Nat
    BY <1>1 DEF Typed
  <2>2. /\ Append(next_chunk, 0) \in Seq(Nat) /\ Len(Append(next_chunk, 0)) = popped + 1
        /\ \A c \in 1 .. popped : Append(next_chunk, 0)[c] = next_chunk[c]
        /\ Append(next_chunk, 0)[popped + 1] = 0
    BY <2>1, Appended
  <2> QED BY <1>3, <2>2
<1>11. /\ child \in Call /\ child.node = popped + 1 /\ child.height = t - 1 /\ child.i = 0
       /\ loop \in Call /\ loop.node = node /\ loop.height = t /\ loop.i = calls[1].i + 1
  <2>1. child \in Call /\ child.node = popped + 1 /\ child.height = t - 1 /\ child.i = 0
    <3>1. popped + 1 \in Nat /\ t - 1 \in Nat
      BY <1>4a, <1>4b, <1>5
    <3>2. Top.height = t
      BY <1>4 DEF t
    <3> QED BY <3>1, <3>2
  <2>2. loop \in Call /\ loop.node = node /\ loop.height = t /\ loop.i = calls[1].i + 1
    <3>1. loop = [calls[1] EXCEPT !.i = calls[1].i + 1]
      BY <1>4
    <3>2. calls[1] \in Call /\ calls[1].i + 1 \in Nat
      BY <1>4, <1>4d
    <3> HIDE DEF loop
    <3> QED BY <3>1, <3>2 DEF node, t
  <2> QED BY <2>1, <2>2
<1> HIDE DEF more, child, loop
<1>12. /\ calls' \in Seq(Call) /\ Len(calls') = Len(calls) + 1
       /\ calls'[1] = child /\ calls'[2] = loop
       /\ \A s \in 2 .. Len(calls) : calls'[s + 1] = calls[s]
  <2>1. calls \in Seq(Call)
    BY <1>1 DEF Typed
  <2> HIDE DEF Call
  <2>2. /\ <<child, loop>> \o Tail(calls) \in Seq(Call)
        /\ Len(<<child, loop>> \o Tail(calls)) = Len(calls) + 1
        /\ (<<child, loop>> \o Tail(calls))[1] = child /\ (<<child, loop>> \o Tail(calls))[2] = loop
        /\ \A x \in 2 .. Len(calls) : (<<child, loop>> \o Tail(calls))[x + 1] = calls[x]
    BY <1>4, <1>11, <2>1, Pushed
  <2> QED BY <1>3, <2>2
<1>13. popped' = popped + 1 /\ chunks' = chunks - 1 /\ popped + 1 \in Nat \ {0} /\ chunks - 1 \in Nat
       /\ treeHeight' = treeHeight /\ numElements' = numElements /\ Ranks' = Ranks /\ Need' = Need
  BY <1>3, <1>5 DEF Ranks, Need, TreeLeaves
<1>14. /\ Len(pointers'[node]) = calls[1].i + 1
       /\ \A j \in 1 .. calls[1].i : pointers'[node][j] = pointers[node][j]
       /\ pointers'[node][calls[1].i + 1] = popped + 1
       /\ \A c \in 1 .. popped : c # node => pointers'[c] = pointers[c]
  BY <1>4, <1>6, <1>8
<1>15. /\ calls'[1].node = popped + 1 /\ calls'[1].height = t - 1 /\ calls'[1].i = 0
       /\ calls'[2].node = node /\ calls'[2].height = t /\ calls'[2].i = calls[1].i + 1
  BY <1>11, <1>12
<1>16. done' = done
  BY <1>3
<1> HIDE DEF Call
<1> QED BY <1>8, <1>9, <1>10, <1>12, <1>13, <1>14, <1>15, <1>16 DEF node, t, Call

\* An internal node is made and create_array_tree is called for it: the counts.
LEMMA InternalCount ==
  ASSUME Typed, Path, Links, NEW made, Counts(made), MakeInternal
  PROVE  Typed' /\ Path' /\ Links' /\ \E m : More(made, m, calls[1].height, 1) /\ Counts(m)'
<1> DEFINE node  == calls[1].node
           t     == calls[1].height
<1>1. Typed /\ Path /\ Links
  OBVIOUS
<1>2. Counts(made)
  OBVIOUS
<1>3. calls # <<>> /\ chunks > 0
  BY InternalFacts
<1>4. /\ treeHeight \in Nat /\ Len(calls) \in 1 .. treeHeight /\ 1 \in 1 .. Len(calls)
      /\ t = treeHeight - Len(calls) /\ t \in 1 .. treeHeight - 1 /\ t \in Ranks /\ t + 1 \in Ranks
      /\ calls[1].i \in 0 .. Fan - 1 /\ node \in 1 .. popped /\ calls[1].i = Len(pointers[node])
  BY InternalFacts
<1>4a. treeHeight \in Nat /\ Len(calls) \in 1 .. treeHeight
  BY <1>4
<1>4b. t = treeHeight - Len(calls) /\ t \in 1 .. treeHeight - 1 /\ t \in Ranks /\ t + 1 \in Ranks
  BY <1>4
<1>4c. node \in 1 .. popped /\ node \in Nat
  BY <1>4
<1>4d. calls[1].i \in 0 .. Fan - 1 /\ calls[1].i \in Nat
  BY <1>4
<1> HIDE DEF node, t
<1>18. made[t] \in Nat /\ Need[t] \in Nat /\ made[t] < Need[t]
  BY InternalFacts DEF t
<1>5. chunks \in Nat /\ popped \in Nat \ {0}
  BY InternalFacts
<1>6. /\ Len(pointers'[node]) = calls[1].i + 1
      /\ \A j \in 1 .. calls[1].i : pointers'[node][j] = pointers[node][j]
      /\ pointers'[node][calls[1].i + 1] = popped + 1
  BY InternalEffect DEF node
<1>8. /\ pointers' \in Seq(Seq(Nat)) /\ Len(pointers') = popped + 1
      /\ \A c \in 1 .. popped : c # node => pointers'[c] = pointers[c]
      /\ pointers'[popped + 1] = <<>>
  BY InternalEffect DEF node
<1>9. /\ isLeaf' \in Seq(BOOLEAN) /\ Len(isLeaf') = popped + 1
      /\ \A c \in 1 .. popped : isLeaf'[c] = isLeaf[c]
      /\ ~isLeaf'[popped + 1]
  BY InternalEffect
<1>10. /\ next_chunk' \in Seq(Nat) /\ Len(next_chunk') = popped + 1
       /\ \A c \in 1 .. popped : next_chunk'[c] = next_chunk[c]
       /\ next_chunk'[popped + 1] = 0
  BY InternalEffect
<1>11. /\ calls'[1].node = popped + 1 /\ calls'[1].height = t - 1 /\ calls'[1].i = 0
       /\ calls'[2].node = node /\ calls'[2].height = t /\ calls'[2].i = calls[1].i + 1
  BY InternalEffect DEF node, t
<1>12. /\ calls' \in Seq([node : Nat, height : Nat, i : Nat]) /\ Len(calls') = Len(calls) + 1
       /\ \A s \in 2 .. Len(calls) : calls'[s + 1] = calls[s]
  BY InternalEffect
<1>13. popped' = popped + 1 /\ chunks' = chunks - 1 /\ popped + 1 \in Nat \ {0} /\ chunks - 1 \in Nat
       /\ treeHeight' = treeHeight /\ numElements' = numElements /\ Ranks' = Ranks /\ Need' = Need
       /\ done' = done
  BY InternalEffect
<1>14. Typed'
  <2>1. numElements \in 0 .. MaxElements /\ treeHeight \in Heights(NumLeaves(numElements))
    BY <1>1 DEF Typed
  <2> QED BY <1>8, <1>9, <1>10, <1>12, <1>13, <2>1 DEF Typed
\* The calls of the next state: the new one, the loop that made it, the others.
<1>15. ASSUME NEW s \in 1 .. Len(calls')
       PROVE  s = 1 \/ s = 2 \/ (s - 1 \in 2 .. Len(calls) /\ calls'[s] = calls[s - 1])
  <2>1. s \in 1 .. Len(calls) + 1
    BY <1>12
  <2>2. s > 2 => s - 1 \in 2 .. Len(calls) /\ (s - 1) + 1 = s
    BY <1>4a, <2>1
  <2>3. s > 2 => calls'[(s - 1) + 1] = calls[s - 1]
    BY <1>12, <2>2
  <2>4. s = 1 \/ s = 2 \/ s > 2
    BY <1>4a, <2>1
  <2> QED BY <2>2, <2>3, <2>4
<1>16. Path'
  <2>1. Len(calls') <= treeHeight' /\ done' = (calls' = <<>>)
    <3>1. Len(calls') <= treeHeight'
      BY <1>4, <1>12, <1>13
    <3>2. calls' # <<>>
      <4>1. Len(calls') # 0
        BY <1>4, <1>12
      <4> QED BY <4>1, EmptySeq
    <3> QED BY <1>1, <1>3, <1>13, <3>1, <3>2 DEF Path
  <2>2. ASSUME NEW s \in 1 .. Len(calls')
        PROVE  /\ calls'[s].node \in 1 .. popped'
               /\ calls'[s].height = treeHeight' - Len(calls') + s - 1
               /\ calls'[s].i = Len(pointers'[calls'[s].node])
               /\ calls'[s].height = 0 => calls'[s].i = 0
    <3>1. CASE s = 1
      <4>1. Len(<<>>) = 0
        BY EmptySeq
      <4>2. calls'[s].node = popped + 1 /\ calls'[s].height = t - 1 /\ calls'[s].i = 0
        BY <1>11, <1>12, <3>1
      <4>3. t - 1 = treeHeight - (Len(calls) + 1) + 1 - 1
        BY <1>4a, <1>4b
      <4>4. popped + 1 \in 1 .. popped' /\ pointers'[popped + 1] = <<>>
        BY <1>5, <1>8, <1>13
      <4>5. treeHeight' - Len(calls') + s - 1 = treeHeight - (Len(calls) + 1) + 1 - 1
        BY <1>12, <1>13, <3>1
      <4> QED BY <4>1, <4>2, <4>3, <4>4, <4>5
    <3>2. CASE s = 2
      <4>1. calls'[s].height = treeHeight' - Len(calls') + s - 1 /\ t # 0
        <5>1. calls'[s].height = t
          BY <1>11, <1>12, <3>2
        <5>2. t = treeHeight - (Len(calls) + 1) + 2 - 1 /\ t # 0
          BY <1>4a, <1>4b
        <5> QED BY <1>12, <1>13, <3>2, <5>1, <5>2
      <4>2. node \in 1 .. popped'
        BY <1>4c, <1>5, <1>13
      <4>3. calls'[s].node = node /\ calls'[s].i = calls[1].i + 1 /\ calls'[s].height = t
        BY <1>11, <1>12, <3>2
      <4> QED BY <1>6, <4>1, <4>2, <4>3
    <3>3. CASE s - 1 \in 2 .. Len(calls) /\ calls'[s] = calls[s - 1]
      <4>1. s - 1 \in 1 .. Len(calls) /\ 1 < s - 1 /\ 1 \in 1 .. Len(calls)
        BY <1>4a, <3>3
      <4>2. /\ calls[s - 1].node \in 1 .. popped
            /\ calls[s - 1].height = treeHeight - Len(calls) + (s - 1) - 1
            /\ calls[s - 1].i = Len(pointers[calls[s - 1].node])
            /\ calls[s - 1].height = 0 => calls[s - 1].i = 0
            /\ calls[s - 1].node < node
        BY <1>1, <4>1 DEF Path, node
      <4>3. pointers'[calls[s - 1].node] = pointers[calls[s - 1].node] /\ calls[s - 1].node \in 1 .. popped + 1
        <5>1. calls[s - 1].node # node
          BY <1>4c, <4>2
        <5>2. calls[s - 1].node \in 1 .. popped + 1
          BY <1>5, <4>2
        <5> QED BY <1>8, <4>2, <5>1, <5>2
      <4>4. treeHeight - Len(calls) + (s - 1) - 1 = treeHeight - (Len(calls) + 1) + s - 1
        BY <1>4a
      <4> QED BY <1>12, <1>13, <3>3, <4>2, <4>3, <4>4
    <3> QED BY <1>15, <3>1, <3>2, <3>3
  <2>3. ASSUME NEW s \in 1 .. Len(calls'), NEW u \in 1 .. Len(calls'), s < u
        PROVE  calls'[u].node < calls'[s].node
    <3>1. u = 2 \/ (u - 1 \in 2 .. Len(calls) /\ calls'[u] = calls[u - 1])
      BY <1>15, <2>3
    <3>2. calls'[u].node <= node
      <4>1. CASE u = 2
        <5>1. calls'[u].node = node
          BY <1>11, <1>12, <4>1
        <5> QED BY <1>4c, <5>1
      <4>2. CASE u - 1 \in 2 .. Len(calls) /\ calls'[u] = calls[u - 1]
        <5>1. u - 1 \in 1 .. Len(calls) /\ 1 < u - 1 /\ 1 \in 1 .. Len(calls)
          BY <1>4a, <4>2
        <5>2. calls[u - 1].node < node /\ calls[u - 1].node \in 1 .. popped
          BY <1>1, <5>1 DEF Path, node
        <5> QED BY <1>4c, <1>5, <4>2, <5>2
      <4> QED BY <3>1, <4>1, <4>2
    <3>3. CASE s = 1
      <4>1. calls'[u].node \in 1 .. popped'
        BY <2>2
      <4>2. calls'[s].node = popped + 1 /\ node \in 1 .. popped /\ calls'[u].node \in Nat
        <5>1. calls'[s].node = popped + 1
          BY <1>11, <1>12, <3>3
        <5>2. calls'[u].node \in Nat
          BY <1>5, <1>13, <4>1
        <5> QED BY <1>4c, <5>1, <5>2
      <4> QED BY <1>5, <3>2, <4>2
    <3>4. CASE s = 2
      <4>1. u - 1 \in 1 .. Len(calls) /\ 1 < u - 1 /\ calls'[u] = calls[u - 1] /\ 1 \in 1 .. Len(calls)
        BY <1>4a, <2>3, <3>1, <3>4
      <4>2. calls[u - 1].node < node
        BY <1>1, <4>1 DEF Path, node
      <4> QED BY <1>11, <1>12, <3>4, <4>1, <4>2
    <3>5. CASE s - 1 \in 2 .. Len(calls) /\ calls'[s] = calls[s - 1]
      <4>1. s - 1 \in 1 .. Len(calls) /\ u - 1 \in 1 .. Len(calls) /\ s - 1 < u - 1 /\ calls'[u] = calls[u - 1]
        BY <1>4a, <2>3, <3>1, <3>5
      <4> QED BY <1>1, <3>5, <4>1 DEF Path
    <3> QED BY <1>15, <3>3, <3>4, <3>5
  <2> QED BY <2>1, <2>2, <2>3 DEF Path
<1>17. Links'
  <2>1. ASSUME NEW c \in 1 .. popped'
        PROVE  /\ Len(pointers'[c]) <= Fan
               /\ \A j \in 1 .. Len(pointers'[c]) : pointers'[c][j] \in c + 1 .. popped'
               /\ next_chunk'[c] \in 0 .. popped'
    <3>1. c \in Nat /\ (c \in 1 .. popped \/ c = popped + 1)
      BY <1>5, <1>13
    <3>2. ASSUME c \in 1 .. popped
          PROVE  /\ Len(pointers[c]) <= Fan
                 /\ \A j \in 1 .. Len(pointers[c]) : pointers[c][j] \in c + 1 .. popped
                 /\ next_chunk[c] \in 0 .. popped
      BY <1>1, <3>2 DEF Links
    <3>3. ASSUME c \in 1 .. popped PROVE next_chunk'[c] \in 0 .. popped'
      BY <1>5, <1>10, <1>13, <3>2, <3>3
    <3>4. CASE c \in 1 .. popped /\ c = node
      <4>1. popped + 1 \in c + 1 .. popped'
        BY <1>5, <1>13, <3>4
      <4>2. Len(pointers'[c]) <= Fan
        BY <1>4d, <1>6, <3>4
      <4>3. ASSUME NEW j \in 1 .. Len(pointers'[c]) PROVE pointers'[c][j] \in c + 1 .. popped'
        <5>1. j \in 1 .. calls[1].i \/ j = calls[1].i + 1
          BY <1>4d, <1>6, <3>4
        <5>2. CASE j \in 1 .. calls[1].i
          <6>1. j \in 1 .. Len(pointers[c])
            BY <1>4, <3>4, <5>2 DEF node
          <6>2. pointers[c][j] \in c + 1 .. popped /\ pointers'[c][j] = pointers[c][j]
            BY <1>6, <3>2, <3>4, <5>2, <6>1
          <6> QED BY <1>5, <1>13, <3>1, <6>2
        <5>3. CASE j = calls[1].i + 1
          BY <1>6, <3>4, <4>1, <5>3
        <5> QED BY <5>1, <5>2, <5>3
      <4> QED BY <3>3, <3>4, <4>1, <4>2, <4>3
    <3>5. CASE c \in 1 .. popped /\ c # node
      <4>1. pointers'[c] = pointers[c]
        BY <1>8, <3>5
      <4>2. \A x \in c + 1 .. popped : x \in c + 1 .. popped'
        BY <1>5, <1>13, <3>1
      <4> QED BY <3>2, <3>3, <3>5, <4>1, <4>2
    <3>6. CASE c = popped + 1
      <4>1. pointers'[c] = <<>> /\ next_chunk'[c] = 0 /\ 0 \in 0 .. popped'
        BY <1>5, <1>8, <1>10, <1>13, <3>6
      <4>2. Len(<<>>) = 0
        BY EmptySeq
      <4> QED BY <4>1, <4>2
    <3> QED BY <3>1, <3>4, <3>5, <3>6
  <2> QED BY <2>1 DEF Links
<1>19. PICK m : More(made, m, t, 1)
  <2>1. Typed /\ Counts(made)
    BY <1>1, <1>2
  <2>2. t \in 0 .. treeHeight - 1 /\ 1 \in Nat /\ made[t] + 1 <= Need[t]
    BY <1>4b, <1>18
  <2> QED BY <2>1, <2>2, CountMore
<1>20. /\ m \in [Ranks -> Nat] /\ m[treeHeight] = 1
       /\ \A r \in Ranks : m[r] <= Need[r]
       /\ m[t] = made[t] + 1 /\ \A r \in Ranks : r # t => m[r] = made[r]
       /\ HasSum(Left(m), Ranks, chunks - 1)
  BY <1>19 DEF More
<1>21. Counts(m)'
  <2>1. ASSUME NEW s \in 1 .. Len(calls')
        PROVE  /\ m[calls'[s].height + 1] >= 1
               /\ m[calls'[s].height] = (m[calls'[s].height + 1] - 1) * Fan + calls'[s].i
               /\ s > 1 => calls'[s].i >= 1
    <3>1. CASE s = 1
      <4>1. calls'[s].height = t - 1 /\ calls'[s].i = 0
        BY <1>11, <1>12, <3>1
      <4>2. t - 1 \in Ranks /\ t - 1 # t /\ (t - 1) + 1 = t /\ t - 1 \in 0 .. treeHeight - Len(calls) - 1
        BY <1>4 DEF Ranks
      <4>3. made[t - 1] = Fan * made[t]
        <5>1. made[t - 1] = Fan * made[(t - 1) + 1]
          BY <1>2, <1>3, <4>2 DEF Counts
        <5> QED BY <4>2, <5>1
      <4>4. m[t - 1] = Fan * made[t] /\ m[t] = made[t] + 1
        BY <1>20, <4>2, <4>3
      <4>5. \A x \in Nat : Fan * x = ((x + 1) - 1) * Fan + 0
        OBVIOUS
      <4>6. m[t - 1] = (m[t] - 1) * Fan + 0 /\ m[t] >= 1
        BY <1>18, <4>4, <4>5
      <4>7. calls'[s].height + 1 = t
        BY <4>1, <4>2
      <4> QED BY <3>1, <4>1, <4>6, <4>7
    <3>2. CASE s = 2
      <4>1. calls'[s].height = t /\ calls'[s].i = calls[1].i + 1
        BY <1>11, <1>12, <3>2
      <4>2. /\ made[t + 1] >= 1
            /\ made[t] = (made[t + 1] - 1) * Fan + calls[1].i
        BY <1>2, <1>4 DEF Counts, t
      <4>3. m[t + 1] = made[t + 1] /\ m[t] = made[t] + 1 /\ made[t + 1] \in Nat
        <5>1. t + 1 # t
          BY <1>4
        <5> QED BY <1>2, <1>4, <1>20, <5>1 DEF Counts
      <4>4. PICK p \in Int : p = (made[t + 1] - 1) * Fan
        BY <4>3
      <4>5. calls[1].i \in Nat /\ calls[1].i + 1 >= 1 /\ (p + calls[1].i) + 1 = p + (calls[1].i + 1)
        <5>1. calls[1].i \in Nat
          BY <1>4
        <5>2. \A x \in Nat : x + 1 >= 1 /\ (p + x) + 1 = p + (x + 1)
          OBVIOUS
        <5> QED BY <5>1, <5>2
      <4>6. m[t] = (m[t + 1] - 1) * Fan + (calls[1].i + 1)
        BY <4>2, <4>3, <4>4, <4>5
      <4> QED BY <4>1, <4>2, <4>3, <4>5, <4>6
    <3>3. CASE s - 1 \in 2 .. Len(calls) /\ calls'[s] = calls[s - 1]
      <4>1. s - 1 \in 1 .. Len(calls) /\ s - 1 > 1
        BY <1>4a, <3>3
      <4>2. calls[s - 1].height = treeHeight - Len(calls) + (s - 1) - 1
        BY <1>1, <4>1 DEF Path
      <4>3. /\ calls[s - 1].height \in Ranks /\ calls[s - 1].height # t
            /\ calls[s - 1].height + 1 \in Ranks /\ calls[s - 1].height + 1 # t
        <5>1. calls[s - 1].height \in t + 1 .. treeHeight - 1
          BY <1>4a, <1>4b, <4>1, <4>2
        <5>2. \A x \in t + 1 .. treeHeight - 1 :
                x \in 0 .. treeHeight /\ x # t /\ x + 1 \in 0 .. treeHeight /\ x + 1 # t
          BY <1>4a, <1>4b
        <5> QED BY <5>1, <5>2 DEF Ranks
      <4>4. /\ made[calls[s - 1].height + 1] >= 1
            /\ made[calls[s - 1].height] = (made[calls[s - 1].height + 1] - 1) * Fan + calls[s - 1].i
            /\ calls[s - 1].i >= 1
        BY <1>2, <4>1 DEF Counts
      <4> QED BY <1>20, <3>3, <4>3, <4>4
    <3> QED BY <1>15, <3>1, <3>2, <3>3
  <2>2. ASSUME NEW r \in 0 .. treeHeight' - Len(calls') - 1 PROVE m[r] = Fan * m[r + 1]
    <3>1. /\ r \in 0 .. treeHeight - Len(calls) - 1 /\ r \in Ranks /\ r + 1 \in Ranks
          /\ r # t /\ r + 1 # t
      <4>1. r \in 0 .. treeHeight - (Len(calls) + 1) - 1
        BY <1>12, <1>13
      <4> QED BY <1>4a, <1>4b, <4>1 DEF Ranks
    <3>2. made[r] = Fan * made[r + 1]
      BY <1>2, <1>3, <3>1 DEF Counts
    <3> QED BY <1>20, <3>1, <3>2
  <2>3. Cardinality({d \in 1 .. popped' : isLeaf'[d]}) = m[0]
    <3>1. {d \in 1 .. popped' : isLeaf'[d]} = {d \in 1 .. popped : isLeaf[d]}
      <4>1. \A d : d \in 1 .. popped + 1 <=> d \in 1 .. popped \/ d = popped + 1
        BY <1>5
      <4> QED BY <1>9, <1>13, <4>1
    <3>2. 0 \in Ranks /\ 0 # t
      BY <1>4 DEF Ranks
    <3> QED BY <1>2, <1>20, <3>1, <3>2 DEF Counts
  <2>4. Left(m)' = Left(m)
    BY <1>13 DEF Left
  <2> QED BY <1>13, <1>20, <2>1, <2>2, <2>3, <2>4 DEF Counts
<1> QED BY <1>14, <1>16, <1>17, <1>19, <1>21 DEF t

\* A tree of height 0 is one chunk.
LEMMA ChunksOfOne == NumChunks(0, 0) = 1 /\ NumChunks(1, 0) = 1
<1> SUFFICES ASSUME NEW leaves \in {0, 1} PROVE NumChunks(leaves, 0) = 1
  OBVIOUS
<1> DEFINE total == CHOOSE total : total = [h \in 0 .. 0 |-> IF h = 0 THEN leaves ELSE total[h - 1] + Level(leaves, 0)[h]]
           g == [h \in 0 .. 0 |-> leaves]
<1>1. g = [h \in 0 .. 0 |-> IF h = 0 THEN leaves ELSE g[h - 1] + Level(leaves, 0)[h]]
  OBVIOUS
<1>2. total = [h \in 0 .. 0 |-> IF h = 0 THEN leaves ELSE total[h - 1] + Level(leaves, 0)[h]]
  <2> HIDE DEF g
  <2> QED BY <1>1
<1>3. NumChunks(leaves, 0) = IF total[0] = 0 THEN 1 ELSE total[0]
  BY DEF NumChunks
<1> HIDE DEF total
<1>4. total[0] = leaves
  BY <1>2
<1> QED BY <1>3, <1>4

\* Elements need a leaf.
LEMMA SomeLeaves == ASSUME NEW n \in Nat, n > 0 PROVE NumLeaves(n) # 0
<1>1. n = (PerChunk * (n \div PerChunk)) + (n % PerChunk) /\ n \div PerChunk \in Nat /\ n % PerChunk \in Nat
  OBVIOUS
<1>2. ASSUME n \div PerChunk = 0 PROVE n % PerChunk # 0
  BY <1>1, <1>2
<1> QED BY <1>1, <1>2 DEF NumLeaves

\* A call whose loop is over returns to the one that made it: the counts.
LEMMA ReturnCount ==
  ASSUME Typed, Path, Links, NEW made, Counts(made), Return
  PROVE  Typed' /\ Path' /\ Links' /\ Counts(made)'
<1> DEFINE t    == calls[1].height
           Call == [node : Nat, height : Nat, i : Nat]
<1>1. Typed /\ Path /\ Links
  OBVIOUS
<1>2. Counts(made)
  OBVIOUS
<1>3. /\ calls # <<>> /\ Top.height > 0 /\ (Top.i = Fan \/ chunks = 0)
      /\ calls' = Tail(calls) /\ done' = (Tail(calls) = <<>>)
      /\ numElements' = numElements /\ treeHeight' = treeHeight /\ chunks' = chunks /\ popped' = popped
      /\ pointers' = pointers /\ isLeaf' = isLeaf /\ next_chunk' = next_chunk
  BY DEF Return
<1>4. /\ treeHeight \in Nat /\ Len(calls) \in 1 .. treeHeight /\ 1 \in 1 .. Len(calls)
      /\ t = treeHeight - Len(calls) /\ Top = calls[1]
      /\ t \in Ranks /\ t + 1 \in Ranks /\ t \in 0 .. treeHeight - 1
  BY <1>1, <1>3, TopFacts
<1>5. /\ calls' \in Seq(Call) /\ Len(calls') = Len(calls) - 1
      /\ \A s \in 1 .. Len(calls) - 1 : calls'[s] = calls[s + 1]
  BY <1>1, <1>3, Returned
<1>6. Ranks' = Ranks /\ Need' = Need
  BY <1>3 DEF Ranks, Need, TreeLeaves
<1>7. ASSUME NEW s \in 1 .. Len(calls')
      PROVE  s + 1 \in 1 .. Len(calls) /\ s + 1 > 1 /\ calls'[s] = calls[s + 1] /\ s \in Nat
  <2>1. s \in 1 .. Len(calls) - 1
    BY <1>5
  <2> QED BY <1>4, <1>5, <2>1
<1>8. Typed'
  BY <1>1, <1>3, <1>5 DEF Typed
<1>9. Path'
  <2>1. Len(calls') <= treeHeight' /\ done' = (calls' = <<>>)
    BY <1>3, <1>4, <1>5
  <2>2. ASSUME NEW s \in 1 .. Len(calls')
        PROVE  /\ calls'[s].node \in 1 .. popped'
               /\ calls'[s].height = treeHeight' - Len(calls') + s - 1
               /\ calls'[s].i = Len(pointers'[calls'[s].node])
               /\ calls'[s].height = 0 => calls'[s].i = 0
    <3>1. s + 1 \in 1 .. Len(calls) /\ calls'[s] = calls[s + 1] /\ s \in Nat
      BY <1>7
    <3>2. /\ calls[s + 1].node \in 1 .. popped
          /\ calls[s + 1].height = treeHeight - Len(calls) + (s + 1) - 1
          /\ calls[s + 1].i = Len(pointers[calls[s + 1].node])
          /\ calls[s + 1].height = 0 => calls[s + 1].i = 0
      BY <1>1, <3>1 DEF Path
    <3>3. treeHeight - Len(calls) + (s + 1) - 1 = treeHeight - (Len(calls) - 1) + s - 1
      BY <1>4, <3>1
    <3> QED BY <1>3, <1>5, <3>1, <3>2, <3>3
  <2>3. ASSUME NEW s \in 1 .. Len(calls'), NEW u \in 1 .. Len(calls'), s < u
        PROVE  calls'[u].node < calls'[s].node
    <3>1. /\ s + 1 \in 1 .. Len(calls) /\ calls'[s] = calls[s + 1] /\ s \in Nat
          /\ u + 1 \in 1 .. Len(calls) /\ calls'[u] = calls[u + 1] /\ u \in Nat
      BY <1>7
    <3>2. s + 1 < u + 1
      BY <2>3, <3>1
    <3> QED BY <1>1, <3>1, <3>2 DEF Path
  <2> QED BY <2>1, <2>2, <2>3 DEF Path
<1>10. Links'
  BY <1>1, <1>3 DEF Links
<1>11. Counts(made)'
  <2>1. ASSUME NEW s \in 1 .. Len(calls')
        PROVE  /\ made[calls'[s].height + 1] >= 1
               /\ made[calls'[s].height] = (made[calls'[s].height + 1] - 1) * Fan + calls'[s].i
               /\ s > 1 => calls'[s].i >= 1
    BY <1>2, <1>7 DEF Counts
  <2>2. ASSUME chunks' > 0, NEW r \in 0 .. treeHeight' - Len(calls') - 1
        PROVE  made[r] = Fan * made[r + 1]
    <3>1. r \in 0 .. treeHeight - Len(calls) - 1 \/ r = t
      <4>1. r \in 0 .. treeHeight - (Len(calls) - 1) - 1
        BY <1>3, <1>5, <2>2
      <4> QED BY <1>4, <4>1
    <3>2. CASE r \in 0 .. treeHeight - Len(calls) - 1
      BY <1>2, <1>3, <2>2, <3>2 DEF Counts
    <3>3. CASE r = t
      <4>1. calls[1].i = Fan
        BY <1>3, <1>4, <2>2
      <4>2. made[t] = (made[t + 1] - 1) * Fan + Fan /\ made[t + 1] \in Nat
        BY <1>2, <1>4, <4>1 DEF Counts
      <4>3. \A x \in Nat : (x - 1) * Fan + Fan = Fan * x
        OBVIOUS
      <4> HIDE DEF t
      <4> QED BY <3>3, <4>2, <4>3
    <3> QED BY <3>1, <3>2, <3>3
  <2>3. Left(made)' = Left(made)
    BY <1>6 DEF Left
  <2>4. /\ made \in [Ranks' -> Nat] /\ made[treeHeight'] = 1
        /\ \A k \in Ranks' : made[k] <= Need'[k]
        /\ HasSum(Left(made)', Ranks', chunks')
        /\ Cardinality({d \in 1 .. popped' : isLeaf'[d]}) = made[0]
    <3>1. /\ made \in [Ranks -> Nat] /\ made[treeHeight] = 1
          /\ \A k \in Ranks : made[k] <= Need[k]
          /\ HasSum(Left(made), Ranks, chunks)
          /\ Cardinality({d \in 1 .. popped : isLeaf[d]}) = made[0]
      BY <1>2 DEF Counts
    <3> QED BY <1>3, <1>6, <2>3, <3>1
  <2> QED BY <2>1, <2>2, <2>4 DEF Counts
<1> QED BY <1>8, <1>9, <1>10, <1>11

-----------------------------------------------------------------------------
(* The shape of the tree.                                                  *)

\* Children are numbered through the nodes of a height, Fan to each.
LEMMA ChildFacts ==
  ASSUME NEW x \in Nat \ {0}, NEW j \in 1 .. Fan
  PROVE  /\ Child(x, j) \in Nat \ {0}
         /\ \A y \in Nat : IF y < x THEN y * Fan < Child(x, j) ELSE Child(x, j) <= y * Fan
         /\ \A y \in Nat \ {0} : \A i \in 1 .. Fan : Child(y, i) = Child(x, j) => y = x /\ i = j
<1> DEFINE c(y, i) == (y - 1) * Fan + i
<1>1. \A y, z \in Nat : y <= z => y * Fan <= z * Fan
  <2> SUFFICES ASSUME NEW y \in Nat, NEW d \in Nat PROVE y * Fan <= (y + d) * Fan
    <3>1. \A y, z \in Nat : y <= z => z - y \in Nat /\ y + (z - y) = z
      OBVIOUS
    <3> QED BY <3>1
  <2> QED OBVIOUS
<1>2. ASSUME NEW y \in Nat \ {0}, NEW i \in 1 .. Fan, NEW z \in Nat
      PROVE  c(y, i) \in Nat \ {0} /\ (IF z < y THEN z * Fan < c(y, i) ELSE c(y, i) <= z * Fan)
  <2>1. y - 1 \in Nat /\ (y - 1) * Fan \in Nat /\ ((y - 1) * Fan) + Fan = y * Fan
        /\ z * Fan \in Nat /\ y * Fan \in Nat
    OBVIOUS
  <2>2. z < y => z * Fan <= (y - 1) * Fan
    BY <1>1, <2>1
  <2>3. ~(z < y) => y * Fan <= z * Fan
    BY <1>1
  <2> QED BY <2>1, <2>2, <2>3
<1> HIDE DEF c
<1>3. ASSUME NEW y \in Nat \ {0}, NEW i \in 1 .. Fan, c(y, i) = c(x, j) PROVE y = x /\ i = j
  <2>1. ~(y < x)
    <3>1. SUFFICES ASSUME y < x PROVE FALSE
      OBVIOUS
    <3>2. c(y, i) \in Nat /\ c(y, i) <= y * Fan /\ y * Fan < c(x, j) /\ y * Fan \in Nat
      BY <1>2, <3>1
    <3> QED BY <1>3, <3>2
  <2>2. ~(x < y)
    <3>1. SUFFICES ASSUME x < y PROVE FALSE
      OBVIOUS
    <3>2. c(x, j) \in Nat /\ c(x, j) <= x * Fan /\ x * Fan < c(y, i) /\ x * Fan \in Nat
      BY <1>2, <3>1
    <3> QED BY <1>3, <3>2
  <2>3. y = x
    BY <2>1, <2>2
  <2>4. (x - 1) * Fan \in Nat /\ ((x - 1) * Fan) + i = ((x - 1) * Fan) + j
    BY <1>3, <2>3 DEF c
  <2> QED BY <2>3, <2>4
<1>4. \A y, i : Child(y, i) = c(y, i)
  BY DEF Child, c
<1>5. /\ c(x, j) \in Nat \ {0}
      /\ \A y \in Nat : IF y < x THEN y * Fan < c(x, j) ELSE c(x, j) <= y * Fan
  BY <1>2
<1> QED BY <1>3, <1>4, <1>5

\* The rows r have the next n chunks more than row at height k.
RowMore(made, row, r, k, n) ==
  /\ r \in [Ranks -> [Nat -> Nat]]
  /\ \A q \in Ranks : q # k => r[q] = row[q]
  /\ \A x \in 1 .. made[k] : r[k][x] = row[k][x]
  /\ \A j \in 1 .. n : r[k][made[k] + j] = popped + j

\* There are such rows.
LEMMA RowCanGrow ==
  ASSUME NEW made, made \in [Ranks -> Nat], NEW row, row \in [Ranks -> [Nat -> Nat]],
         NEW k \in Ranks, NEW n \in Nat, popped \in Nat
  PROVE  \E r : RowMore(made, row, r, k, n)
<1> DEFINE a == made[k]
           new == [x \in Nat |-> IF x <= a THEN row[k][x] ELSE popped + (x - a)]
           r == [row EXCEPT ![k] = new]
<1>1. a \in Nat /\ row[k] \in [Nat -> Nat]
  OBVIOUS
<1> HIDE DEF a
<1>2. new \in [Nat -> Nat] /\ (\A x \in 1 .. a : new[x] = row[k][x])
      /\ (\A j \in 1 .. n : new[a + j] = popped + j)
  <2>1. \A x \in Nat : x > a => popped + (x - a) \in Nat
    BY <1>1
  <2>2. new \in [Nat -> Nat]
    BY <1>1, <2>1
  <2>3. \A x \in 1 .. a : new[x] = row[k][x]
    BY <1>1
  <2>4. \A j \in 1 .. n : a + j \in Nat /\ ~(a + j <= a) /\ (a + j) - a = j
    BY <1>1
  <2> QED BY <2>2, <2>3, <2>4
<1> HIDE DEF new
<1>3. r \in [Ranks -> [Nat -> Nat]] /\ r[k] = new /\ \A q \in Ranks : q # k => r[q] = row[q]
  BY <1>2
<1> HIDE DEF r
<1>4. RowMore(made, row, r, k, n)
  BY <1>2, <1>3 DEF RowMore, a
<1> QED BY <1>4

\* A node is one of those there were or one of the new.
LEMMA RowCases ==
  ASSUME NEW made, made \in [Ranks -> Nat], NEW row, NEW r, NEW m, NEW k, NEW n \in Nat,
         More(made, m, k, n), RowMore(made, row, r, k, n), NEW q \in Ranks, NEW x \in 1 .. m[q]
  PROVE  \/ x \in 1 .. made[q] /\ r[q][x] = row[q][x]
         \/ q = k /\ x - made[k] \in 1 .. n /\ r[q][x] = popped + (x - made[k])
<1>1. /\ m[k] = made[k] + n /\ k \in Ranks /\ \A p \in Ranks : p # k => m[p] = made[p]
      /\ made[k] \in Nat /\ made[q] \in Nat
  BY DEF More
<1>2. CASE q # k
  BY <1>1, <1>2 DEF RowMore
<1>3. CASE q = k /\ x <= made[k]
  <2>1. x \in 1 .. made[k]
    BY <1>1, <1>3
  <2> QED BY <1>3, <2>1 DEF RowMore
<1>4. CASE q = k /\ ~(x <= made[k])
  <2>1. x - made[k] \in 1 .. n /\ made[k] + (x - made[k]) = x
    BY <1>1, <1>4
  <2> QED BY <1>4, <2>1 DEF RowMore
<1> QED BY <1>2, <1>3, <1>4

\* The nodes that there were keep their places.
LEMMA RowKept ==
  ASSUME NEW made, NEW row, NEW r, NEW k, NEW n,
         RowMore(made, row, r, k, n), NEW q \in Ranks, NEW x \in 1 .. made[q]
  PROVE  r[q][x] = row[q][x]
BY DEF RowMore

\* The new nodes are placed in their row; at height 0 they are leaves.
LEMMA PlacedStep ==
  ASSUME NEW made, made \in [Ranks -> Nat], NEW row, NEW r, NEW m, NEW k, NEW n \in Nat,
         More(made, m, k, n), RowMore(made, row, r, k, n), Placed(made, row),
         popped \in Nat, treeHeight \in Nat, k # treeHeight, made[treeHeight] = 1,
         Ranks' = Ranks, treeHeight' = treeHeight, popped' = popped + n,
         \A c \in 1 .. popped : isLeaf'[c] = isLeaf[c],
         \A c \in popped + 1 .. popped + n : isLeaf'[c] <=> k = 0
  PROVE  Placed(m, r)'
<1>1. r \in [Ranks -> [Nat -> Nat]]
  BY DEF RowMore
<1>2. r[treeHeight][1] = 1
  <2>1. treeHeight \in Ranks
    BY DEF Ranks
  <2> QED BY <2>1 DEF RowMore, Placed
<1>3. ASSUME NEW q \in Ranks, NEW x \in 1 .. m[q]
      PROVE  r[q][x] \in 1 .. popped + n /\ (isLeaf'[r[q][x]] <=> q = 0)
  <2>1. CASE x \in 1 .. made[q] /\ r[q][x] = row[q][x]
    <3>1. row[q][x] \in 1 .. popped /\ (isLeaf[row[q][x]] <=> q = 0)
      BY <2>1 DEF Placed
    <3>2. row[q][x] \in 1 .. popped + n
      BY <3>1
    <3> QED BY <2>1, <3>1, <3>2
  <2>2. CASE q = k /\ x - made[k] \in 1 .. n /\ r[q][x] = popped + (x - made[k])
    <3>1. \A j \in 1 .. n : popped + j \in 1 .. popped + n /\ popped + j \in popped + 1 .. popped + n
      OBVIOUS
    <3> QED BY <2>2, <3>1
  <2> QED BY <2>1, <2>2, RowCases
<1> QED BY <1>1, <1>2, <1>3 DEF Placed

\* The leaves that there were keep their numbers.
LEMMA NumbersKept ==
  ASSUME popped \in Nat, \A c \in 1 .. popped : isLeaf'[c] = isLeaf[c], NEW c \in 1 .. popped
  PROVE  LeafNumber(c)' = LeafNumber(c)
<1>1. {d \in 1 .. c : isLeaf'[d]} = {d \in 1 .. c : isLeaf[d]}
  <2>1. \A d \in 1 .. c : d \in 1 .. popped
    OBVIOUS
  <2> QED BY <2>1
<1> QED BY <1>1 DEF LeafNumber

\* An internal node is made: the shape.
LEMMA InternalShape ==
  ASSUME Typed, Path, Links, NEW made, Counts(made), NEW row, Shape(made, row), MakeInternal,
         NEW m, More(made, m, calls[1].height, 1)
  PROVE  \E r : Shape(m, r)'
<1> DEFINE node == calls[1].node
           t    == calls[1].height
           i    == calls[1].i
<1>1. /\ treeHeight \in Nat /\ Len(calls) \in 1 .. treeHeight /\ 1 \in 1 .. Len(calls)
      /\ t = treeHeight - Len(calls) /\ t \in 1 .. treeHeight - 1 /\ t \in Ranks /\ t + 1 \in Ranks
      /\ i \in 0 .. Fan - 1 /\ node \in 1 .. popped /\ i = Len(pointers[node])
      /\ chunks > 0 /\ popped \in Nat \ {0}
  BY InternalFacts
<1>2. /\ Len(pointers'[node]) = i + 1
      /\ \A j \in 1 .. i : pointers'[node][j] = pointers[node][j]
      /\ pointers'[node][i + 1] = popped + 1
      /\ \A c \in 1 .. popped : c # node => pointers'[c] = pointers[c]
  BY InternalEffect
<1>3. /\ \A c \in 1 .. popped : isLeaf'[c] = isLeaf[c] /\ next_chunk'[c] = next_chunk[c]
      /\ ~isLeaf'[popped + 1]
  BY InternalEffect
<1>4. /\ Len(calls') = Len(calls) + 1
      /\ calls'[1].node = popped + 1 /\ calls'[1].height = t - 1
      /\ calls'[2].node = node /\ calls'[2].height = t
      /\ \A s \in 2 .. Len(calls) : calls'[s + 1] = calls[s]
      /\ popped' = popped + 1 /\ treeHeight' = treeHeight /\ Ranks' = Ranks
  BY InternalEffect
<1>5. More(made, m, t, 1)
  OBVIOUS
<1>6. InHand(made, row) /\ Placed(made, row) /\ Children(made, row) /\ Ordered(made, row)
  BY DEF Shape
<1>7. /\ node = row[t + 1][made[t + 1]]
      /\ made[t + 1] >= 1 /\ made[t] = (made[t + 1] - 1) * Fan + i
  BY <1>1, <1>6 DEF InHand, Counts
<1>8. made \in [Ranks -> Nat] /\ made[treeHeight] = 1 /\ (\A k \in Ranks : made[k] \in Nat)
  BY DEF Counts
<1>9. made[t - 1] = Fan * made[t]
  <2>1. t - 1 \in 0 .. treeHeight - Len(calls) - 1 /\ (t - 1) + 1 = t
    BY <1>1
  <2>2. made[t - 1] = Fan * made[(t - 1) + 1]
    BY <1>1, <2>1 DEF Counts
  <2> QED BY <2>1, <2>2
<1> HIDE DEF node, t, i
<1>10. PICK r : RowMore(made, row, r, t, 1)
  <2>1. row \in [Ranks -> [Nat -> Nat]] /\ popped \in Nat /\ 1 \in Nat
    BY <1>1, <1>6 DEF Placed
  <2> QED BY <1>1, <1>8, <2>1, RowCanGrow
<1>11. /\ m[t] = made[t] + 1 /\ \A q \in Ranks : q # t => m[q] = made[q]
       /\ r[t][made[t] + 1] = popped + 1 /\ \A q \in Ranks : q # t => r[q] = row[q]
  BY <1>5, <1>10 DEF More, RowMore
<1>12. Placed(m, r)'
  <2>1. \A c \in popped + 1 .. popped + 1 : isLeaf'[c] <=> t = 0
    BY <1>1, <1>3
  <2>2. popped \in Nat /\ t # treeHeight /\ 1 \in Nat
    BY <1>1
  <2> QED BY <1>1, <1>3, <1>4, <1>5, <1>6, <1>8, <1>10, <2>1, <2>2, PlacedStep
\* What a node points to stays.
<1>13. ASSUME NEW c \in 1 .. popped, NEW j \in 1 .. Fan, j <= Len(pointers[c])
       PROVE  j <= Len(pointers'[c]) /\ pointers'[c][j] = pointers[c][j]
  <2>1. CASE c = node
    <3>1. j \in 1 .. i /\ j <= i + 1
      BY <1>1, <1>13, <2>1
    <3> QED BY <1>2, <2>1, <3>1
  <2>2. CASE c # node
    BY <1>2, <1>13, <2>2
  <2> QED BY <2>1, <2>2
<1>14. Children(m, r)'
  <2>1. ASSUME NEW k \in 1 .. treeHeight, NEW x \in 1 .. m[k], NEW j \in 1 .. Fan, Child(x, j) <= m[k - 1]
        PROVE  j <= Len(pointers'[r[k][x]]) /\ pointers'[r[k][x]][j] = r[k - 1][Child(x, j)]
    <3>0. treeHeight \in Nat /\ made \in [Ranks -> Nat]
      BY <1>1, <1>8
    <3>1. k \in Ranks /\ k - 1 \in Ranks /\ k - 1 # k /\ made[k] \in Nat /\ made[k - 1] \in Nat
      BY <3>0 DEF Ranks
    <3>2. x \in Nat \ {0} /\ Child(x, j) \in Nat \ {0}
      <4>1. x \in Nat \ {0}
        BY <3>1
      <4> QED BY <4>1, ChildFacts
    <3>3. CASE x \in 1 .. made[k] /\ Child(x, j) <= made[k - 1]
      <4>1. /\ j <= Len(pointers[row[k][x]]) /\ row[k][x] \in 1 .. popped
            /\ pointers[row[k][x]][j] = row[k - 1][Child(x, j)]
        <5>1. row[k][x] \in 1 .. popped
          BY <1>6, <3>1, <3>3 DEF Placed
        <5>2. j <= Len(pointers[row[k][x]]) /\ pointers[row[k][x]][j] = row[k - 1][Child(x, j)]
          BY <1>6, <3>3 DEF Children
        <5> QED BY <5>1, <5>2
      <4>2. r[k][x] = row[k][x]
        BY <1>10, <3>1, <3>3, RowKept
      <4>3. r[k - 1][Child(x, j)] = row[k - 1][Child(x, j)]
        <5>1. Child(x, j) \in 1 .. made[k - 1]
          BY <3>1, <3>2, <3>3
        <5> QED BY <1>10, <3>1, <5>1, RowKept
      <4> QED BY <1>13, <4>1, <4>2, <4>3
    \* The new child is the next one of the node in hand.
    <3>4. CASE ~(Child(x, j) <= made[k - 1])
      <4>1. k - 1 = t /\ k = t + 1 /\ Child(x, j) = made[t] + 1
        <5>1. k - 1 = t
          BY <1>11, <2>1, <3>1, <3>4
        <5>2. Child(x, j) = made[t] + 1
          BY <1>11, <2>1, <3>1, <3>2, <3>4, <5>1
        <5> QED BY <1>1, <5>1, <5>2
      <4>2. Child(made[t + 1], i + 1) = made[t] + 1
        <5>1. PICK p \in Int : p = (made[t + 1] - 1) * Fan
          BY <1>1, <1>8
        <5>2. (p + i) + 1 = p + (i + 1)
          BY <1>1
        <5> QED BY <1>7, <5>1, <5>2 DEF Child
      <4>3. x = made[t + 1] /\ j = i + 1
        <5>1. made[t + 1] \in Nat \ {0}
          <6>1. made[t + 1] \in Nat
            BY <1>1, <1>8
          <6> QED BY <1>7, <6>1
        <5>2. i + 1 \in 1 .. Fan
          BY <1>1
        <5>3. \A y \in Nat \ {0} : \A e \in 1 .. Fan : Child(y, e) = Child(x, j) => y = x /\ e = j
          BY <3>2, ChildFacts
        <5>4. Child(made[t + 1], i + 1) = Child(x, j)
          BY <4>1, <4>2
        <5> QED BY <5>1, <5>2, <5>3, <5>4
      <4>4. r[k][x] = node
        <5>1. t + 1 # t
          BY <1>1
        <5> QED BY <1>1, <1>7, <1>11, <4>1, <4>3, <5>1
      <4>5. j <= i + 1
        BY <1>1, <4>3
      <4> QED BY <1>2, <1>11, <4>1, <4>3, <4>4, <4>5
    \* The new node has no children yet.
    <3>5. CASE ~(x \in 1 .. made[k])
      <4>1. k = t /\ x = made[t] + 1
        <5>1. k = t
          BY <1>11, <3>1, <3>5
        <5>2. x \in 1 .. made[t] + 1
          BY <1>11, <5>1
        <5> QED BY <3>1, <3>5, <5>1, <5>2
      <4>2. made[t] * Fan < Child(x, j)
        <5>1. made[t] \in Nat /\ made[t] < x
          BY <3>1, <4>1
        <5> QED BY <3>2, <5>1, ChildFacts
      <4>3. m[k - 1] = made[t] * Fan
        <5>1. m[k - 1] = made[t - 1]
          BY <1>11, <3>1, <4>1
        <5>2. \A y \in Nat : Fan * y = y * Fan
          OBVIOUS
        <5> QED BY <1>9, <3>1, <4>1, <5>1, <5>2
      <4>4. made[t] * Fan \in Nat
        BY <3>1, <4>1
      <4> QED BY <2>1, <3>2, <4>2, <4>3, <4>4
    <3> QED BY <3>3, <3>4, <3>5
  <2> QED BY <1>4, <2>1 DEF Children
<1>15. InHand(m, r)'
  <2>1. ASSUME NEW s \in 1 .. Len(calls')
        PROVE  calls'[s].node = r[calls'[s].height + 1][m[calls'[s].height + 1]]
    <3>0. s \in Nat /\ Len(calls) \in Nat
      BY <1>1, <1>4
    <3>1. CASE s = 1
      <4>1. (t - 1) + 1 = t
        BY <1>1
      <4>2. calls'[s].node = popped + 1 /\ calls'[s].height + 1 = t
        BY <1>4, <3>1, <4>1
      <4> QED BY <1>11, <4>2
    <3>2. CASE s = 2
      <4>1. t + 1 # t
        BY <1>1
      <4>2. calls'[s].node = node /\ calls'[s].height + 1 = t + 1
        BY <1>4, <3>2
      <4>3. r[t + 1] = row[t + 1] /\ m[t + 1] = made[t + 1]
        BY <1>1, <1>11, <4>1
      <4> QED BY <1>7, <4>2, <4>3
    <3>3. CASE s > 2
      <4>1. s - 1 \in 2 .. Len(calls) /\ s - 1 \in 1 .. Len(calls) /\ (s - 1) + 1 = s
        BY <1>4, <3>0, <3>3
      <4>2. calls'[s] = calls[s - 1]
        BY <1>4, <4>1
      <4>3. calls[s - 1].height = treeHeight - Len(calls) + (s - 1) - 1
        BY <4>1 DEF Path
      <4>4. calls[s - 1].height + 1 \in Ranks /\ calls[s - 1].height + 1 # t
        BY <1>1, <3>0, <4>1, <4>3 DEF Ranks
      <4>5. calls[s - 1].node = row[calls[s - 1].height + 1][made[calls[s - 1].height + 1]]
        BY <1>6, <4>1 DEF InHand
      <4> QED BY <1>11, <4>2, <4>4, <4>5
    <3>4. s = 1 \/ s = 2 \/ s > 2
      BY <3>0
    <3> QED BY <3>1, <3>2, <3>3, <3>4
  <2> QED BY <2>1 DEF InHand
<1>16. Ordered(m, r)'
  <2>1. 0 \in Ranks /\ 0 # t
    BY <1>1 DEF Ranks
  <2>2. ASSUME NEW x \in 1 .. m[0]
        PROVE  /\ LeafNumber(r[0][x])' = x
               /\ x <= Fan * Fan =>
                    next_chunk'[r[0][x]] = IF x = m[0] \/ x = Fan * Fan THEN 0 ELSE r[0][x + 1]
    <3>1. x \in 1 .. made[0] /\ m[0] = made[0] /\ r[0] = row[0]
      BY <1>11, <2>1
    <3>2. row[0][x] \in 1 .. popped
      BY <1>6, <2>1, <3>1 DEF Placed
    <3>3. /\ LeafNumber(row[0][x]) = x
          /\ x <= Fan * Fan =>
               next_chunk[row[0][x]] = IF x = made[0] \/ x = Fan * Fan THEN 0 ELSE row[0][x + 1]
      BY <1>6, <3>1 DEF Ordered
    <3>4. LeafNumber(row[0][x])' = LeafNumber(row[0][x])
      <4>1. popped \in Nat /\ \A c \in 1 .. popped : isLeaf'[c] = isLeaf[c]
        BY <1>1, <1>3
      <4> QED BY <3>2, <4>1, NumbersKept
    <3>5. LeafNumber(r[0][x])' = x
      BY <3>1, <3>3, <3>4
    <3> QED BY <1>3, <3>1, <3>2, <3>3, <3>5
  <2> QED BY <2>2 DEF Ordered
<1>17. Shape(m, r)'
  BY <1>12, <1>14, <1>15, <1>16 DEF Shape
<1> QED BY <1>17

\* The link from an elder sibling is made from the last leaf there is.  Under
\* the first node of height 2 there is one except for the first leaf of all;
\* from its last leaf there is none.
LEMMA LinkFacts ==
  ASSUME Typed, Path, Links, NEW made, Counts(made), NEW row, Shape(made, row), MakeLeaves
  PROVE  /\ \/ LinkFrom(calls[1].node, 0) = 0
            \/ made[0] >= 1 /\ LinkFrom(calls[1].node, 0) = row[0][made[0]]
         /\ made[0] \in 1 .. (Fan * Fan) - 1 => LinkFrom(calls[1].node, 0) # 0
         /\ made[0] = Fan * Fan => LinkFrom(calls[1].node, 0) = 0
         /\ made[1] \in Nat \ {0} /\ made[0] = (made[1] - 1) * Fan
<1> DEFINE from == LinkFrom(calls[1].node, 0)
           b == made[1]
           e == calls[2].i
<1>1. /\ treeHeight \in Nat /\ Len(calls) \in 1 .. treeHeight /\ 1 \in 1 .. Len(calls)
      /\ treeHeight = Len(calls) /\ 0 \in Ranks /\ 1 \in Ranks /\ calls[1].height = 0 /\ calls[1].i = 0
  BY LeavesFacts
<1>2. Placed(made, row) /\ Children(made, row) /\ InHand(made, row)
  BY DEF Shape
<1>3. b \in Nat \ {0} /\ made[0] = (b - 1) * Fan /\ made[0] \in Nat
  <2>1. b \in Nat /\ made[0] \in Nat
    BY <1>1 DEF Counts
  <2>2. b >= 1 /\ made[0] = ((b - 1) * Fan) + 0
    <3>1. 0 + 1 = 1
      OBVIOUS
    <3> QED BY <1>1, <3>1 DEF Counts
  <2> QED BY <2>1, <2>2
<1>4. CASE Len(calls) = 1
  <2>1. from = 0
    BY <1>4 DEF LinkFrom
  <2>2. b = 1 /\ made[0] = 0
    <3>1. b = 1
      BY <1>1, <1>4 DEF Counts
    <3> QED BY <1>3, <3>1
  <2> QED BY <1>3, <2>1, <2>2
<1>5. CASE Len(calls) > 1
  <2>1. 2 \in 1 .. Len(calls) /\ 2 \in Ranks /\ calls[2].height = 1 /\ e \in 0 .. Fan
    <3>1. 2 \in 1 .. Len(calls) /\ 2 \in Ranks /\ treeHeight - Len(calls) + 2 - 1 = 1
      BY <1>1, <1>5 DEF Ranks
    <3> QED BY <3>1, CallFacts
  <2>2. e >= 1 /\ made[2] \in Nat \ {0} /\ b = Child(made[2], e)
    <3>1. made[2] \in Nat
      BY <2>1 DEF Counts
    <3>2. 1 + 1 = 2 /\ 2 > 1
      OBVIOUS
    <3>3. e >= 1 /\ made[2] >= 1 /\ b = ((made[2] - 1) * Fan) + e
      BY <2>1, <3>2 DEF Counts
    <3> QED BY <3>1, <3>3 DEF Child
  <2>3. e \in 1 .. Fan
    BY <2>1, <2>2
  <2>4. from = IF e > 1 THEN LastLeaf(pointers[calls[2].node][e - 1]) ELSE 0
    BY <1>5 DEF LinkFrom
  \* The elder sibling has Fan leaves, the last of all so far.
  <2>5. ASSUME e > 1 PROVE made[0] >= 1 /\ from = row[0][made[0]] /\ from # 0
    <3>1. calls[2].node = row[2][made[2]]
      BY <1>2, <2>1 DEF InHand
    <3>2. e - 1 \in 1 .. Fan /\ Child(made[2], e - 1) = b - 1 /\ b - 1 \in Nat \ {0}
      <4>1. e - 1 \in 1 .. Fan
        BY <2>3, <2>5
      <4>2. PICK p \in Int : p = (made[2] - 1) * Fan
        BY <2>2
      <4>3. p + (e - 1) = (p + e) - 1
        BY <2>3
      <4>4. Child(made[2], e - 1) = b - 1
        BY <2>2, <4>2, <4>3 DEF Child
      <4>5. Child(made[2], e - 1) \in Nat \ {0}
        <5>1. \A y \in Nat \ {0} : \A z \in 1 .. Fan : Child(y, z) \in Nat \ {0}
          BY ChildFacts
        <5>2. made[2] \in Nat \ {0}
          BY <2>2
        <5> QED BY <4>1, <5>1, <5>2, Zenon
      <4> QED BY <4>1, <4>4, <4>5
    <3>3. pointers[calls[2].node][e - 1] = row[1][b - 1]
      <4>1. 2 \in 1 .. treeHeight /\ 2 - 1 = 1 /\ made[2] \in 1 .. made[2]
        BY <1>1, <1>5, <2>2
      <4>2. Child(made[2], e - 1) <= made[2 - 1]
        BY <1>3, <3>2, <4>1
      <4>3. pointers[row[2][made[2]]][e - 1] = row[2 - 1][Child(made[2], e - 1)]
        BY <1>2, <3>2, <4>1, <4>2 DEF Children
      <4> QED BY <3>1, <3>2, <4>1, <4>3
    <3>4. Child(b - 1, Fan) = made[0] /\ Fan \in 1 .. Fan
      <4>1. PICK c \in Nat : c = b - 1
        BY <3>2
      <4>2. ((c - 1) * Fan) + Fan = c * Fan
        OBVIOUS
      <4> QED BY <1>3, <4>1, <4>2 DEF Child
    <3> DEFINE c == row[1][b - 1]
    <3>5. c \in 1 .. popped /\ Fan <= Len(pointers[c]) /\ pointers[c][Fan] = row[0][made[0]]
      <4>1. b - 1 \in 1 .. b /\ 1 \in 1 .. treeHeight /\ 1 - 1 = 0
        BY <1>1, <1>3, <3>2
      <4>2. c \in 1 .. popped
        BY <1>1, <1>2, <4>1 DEF Placed
      <4>3. Child(b - 1, Fan) <= made[1 - 1]
        BY <1>3, <3>4, <4>1
      <4>4. Fan <= Len(pointers[c]) /\ pointers[c][Fan] = row[1 - 1][Child(b - 1, Fan)]
        BY <1>2, <3>4, <4>1, <4>3 DEF Children
      <4> QED BY <3>4, <4>1, <4>2, <4>4
    <3> HIDE DEF c
    <3>6. Len(pointers[c]) = Fan
      <4>1. Len(pointers[c]) <= Fan
        BY <3>5 DEF Links
      <4>2. Len(pointers[c]) \in Nat
        <5>1. pointers \in Seq(Seq(Nat)) /\ c \in 1 .. Len(pointers)
          BY <3>5 DEF Typed
        <5>2. pointers[c] \in Seq(Nat)
          BY <5>1, ElementOfSeq
        <5> QED BY <5>2, LenProperties
      <4> QED BY <3>5, <4>1, <4>2
    <3>7. from = row[0][made[0]]
      BY <2>4, <2>5, <3>3, <3>5, <3>6 DEF LastLeaf, c
    <3>8. made[0] >= 1
      <4>1. Child(b - 1, Fan) \in Nat \ {0}
        BY <3>2, <3>4, ChildFacts
      <4> QED BY <3>4, <4>1
    <3>9. row[0][made[0]] \in 1 .. popped
      <4>1. made[0] \in 1 .. made[0]
        BY <1>3, <3>8
      <4> QED BY <1>1, <1>2, <4>1 DEF Placed
    <3> QED BY <3>7, <3>8, <3>9
  <2>6. ASSUME made[0] \in 1 .. (Fan * Fan) - 1 PROVE e > 1
    <3>1. b \in 2 .. Fan
      <4>1. ~(b = 1)
        BY <1>3, <2>6
      <4>2. ~(b - 1 >= Fan)
        <5>1. SUFFICES ASSUME b - 1 >= Fan PROVE FALSE
          OBVIOUS
        <5>2. \A d \in Nat : (Fan + d) * Fan >= Fan * Fan
          OBVIOUS
        <5>3. (b - 1) - Fan \in Nat /\ Fan + ((b - 1) - Fan) = b - 1
          BY <1>3, <5>1
        <5>4. (b - 1) * Fan >= Fan * Fan
          BY <5>2, <5>3
        <5>5. Fan * Fan \in Nat
          OBVIOUS
        <5> QED BY <1>3, <2>6, <5>4, <5>5
      <4> QED BY <1>3, <4>1, <4>2
    <3>2. Child(1, b) = b
      BY <1>3 DEF Child
    <3>3. made[2] = 1 /\ e = b
      <4>1. \A y \in Nat \ {0} : \A j \in 1 .. Fan : Child(y, j) = Child(1, b) => y = 1 /\ j = b
        <5>1. 1 \in Nat \ {0} /\ b \in 1 .. Fan
          BY <3>1
        <5> QED BY <5>1, ChildFacts
      <4> QED BY <2>2, <2>3, <3>2, <4>1
    <3> QED BY <3>1, <3>3
  <2>7. ASSUME made[0] = Fan * Fan PROVE ~(e > 1)
    <3>1. b = Fan + 1
      <4>1. \A d \in Nat \ {0} : (Fan + d) * Fan # Fan * Fan
        OBVIOUS
      <4>2. \A d \in 1 .. Fan : (Fan - d) * Fan # Fan * Fan
        OBVIOUS
      <4>3. b - 1 > Fan => (b - 1) - Fan \in Nat \ {0} /\ Fan + ((b - 1) - Fan) = b - 1
        BY <1>3
      <4>4. b - 1 < Fan => Fan - (b - 1) \in 1 .. Fan /\ Fan - (Fan - (b - 1)) = b - 1
        BY <1>3
      <4>5. ~(b - 1 > Fan)
        BY <1>3, <2>7, <4>1, <4>3
      <4>6. ~(b - 1 < Fan)
        BY <1>3, <2>7, <4>2, <4>4
      <4> QED BY <1>3, <4>5, <4>6
    <3>2. Child(2, 1) = b
      BY <3>1 DEF Child
    <3>3. made[2] = 2 /\ e = 1
      <4>1. \A y \in Nat \ {0} : \A j \in 1 .. Fan : Child(y, j) = Child(2, 1) => y = 2 /\ j = 1
        <5>1. 2 \in Nat \ {0} /\ 1 \in 1 .. Fan
          OBVIOUS
        <5> QED BY <5>1, ChildFacts
      <4> QED BY <2>2, <2>3, <3>2, <4>1
    <3> QED BY <3>3
  <2>8. ~(e > 1) => from = 0
    BY <2>4
  <2> HIDE DEF from, e, b
  <2> QED BY <1>3, <2>5, <2>6, <2>7, <2>8 DEF from, b
<1>6. Len(calls) = 1 \/ Len(calls) > 1
  BY <1>1
<1> QED BY <1>4, <1>5, <1>6

\* A set of leaves is made: the shape.
LEMMA LeavesShape ==
  ASSUME Typed, Path, Links, NEW made, Counts(made), NEW row, Shape(made, row), MakeLeaves,
         NEW m, More(made, m, 0, NewLeaves)
  PROVE  \E r : Shape(m, r)'
<1> DEFINE node == calls[1].node
           k    == NewLeaves
           from == LinkFrom(node, 0)
           a    == made[0]
<1>1. /\ treeHeight \in Nat /\ Len(calls) \in 1 .. treeHeight /\ 1 \in 1 .. Len(calls)
      /\ treeHeight = Len(calls) /\ 0 \in Ranks /\ 1 \in Ranks
      /\ calls[1].height = 0 /\ calls[1].i = 0 /\ node \in 1 .. popped
      /\ popped \in Nat \ {0} /\ k \in 1 .. Fan /\ a \in Nat
  BY LeavesFacts
<1>2. /\ Len(pointers'[node]) = k
      /\ \A j \in 1 .. k : pointers'[node][j] = popped + j
      /\ \A c \in 1 .. popped : c # node => pointers'[c] = pointers[c]
  BY LeavesEffect
<1>3. /\ \A c \in 1 .. popped : isLeaf'[c] = isLeaf[c]
      /\ \A c \in popped + 1 .. popped + k : isLeaf'[c]
  BY LeavesEffect
<1>4. /\ \A c \in 1 .. popped : next_chunk'[c] = IF c = from THEN popped + 1 ELSE next_chunk[c]
      /\ \A j \in 1 .. k : next_chunk'[popped + j] = IF j = k THEN 0 ELSE popped + j + 1
  BY LeavesEffect
<1>5. /\ Len(calls') = Len(calls) - 1
      /\ \A s \in 1 .. Len(calls) - 1 : calls'[s] = calls[s + 1] /\ s + 1 \in 1 .. Len(calls)
      /\ popped' = popped + k /\ treeHeight' = treeHeight /\ Ranks' = Ranks
  BY LeavesEffect
<1>6. InHand(made, row) /\ Placed(made, row) /\ Children(made, row) /\ Ordered(made, row)
  BY DEF Shape
<1>7. /\ from = 0 \/ (a >= 1 /\ from = row[0][a])
      /\ a \in 1 .. (Fan * Fan) - 1 => from # 0
      /\ a = Fan * Fan => from = 0
      /\ made[1] \in Nat \ {0} /\ a = (made[1] - 1) * Fan
  BY LinkFacts
<1>8. node = row[1][made[1]] /\ Len(pointers[node]) = 0
  <2>1. 0 + 1 = 1
    OBVIOUS
  <2>2. node = row[1][made[1]]
    BY <1>1, <1>6, <2>1 DEF InHand
  <2>3. Len(pointers[node]) = 0
    BY <1>1 DEF Path
  <2> QED BY <2>2, <2>3
<1>9. made \in [Ranks -> Nat] /\ made[treeHeight] = 1 /\ (\A q \in Ranks : made[q] \in Nat)
      /\ Cardinality({d \in 1 .. popped : isLeaf[d]}) = a
  BY DEF Counts
<1>10. More(made, m, 0, k)
  OBVIOUS
<1> HIDE DEF node, k, from
<1>11. PICK r : RowMore(made, row, r, 0, k)
  <2>1. row \in [Ranks -> [Nat -> Nat]]
    BY <1>6 DEF Placed
  <2>2. popped \in Nat /\ k \in Nat
    BY <1>1
  <2> QED BY <1>1, <1>9, <2>1, <2>2, RowCanGrow
<1>12. /\ m[0] = a + k /\ \A q \in Ranks : q # 0 => m[q] = made[q]
       /\ \A j \in 1 .. k : r[0][a + j] = popped + j
       /\ \A q \in Ranks : q # 0 => r[q] = row[q]
       /\ \A x \in 1 .. a : r[0][x] = row[0][x]
  BY <1>10, <1>11 DEF More, RowMore
<1>13. Placed(m, r)'
  <2>1. \A c \in popped + 1 .. popped + k : isLeaf'[c] <=> 0 = 0
    BY <1>3
  <2>2. popped \in Nat /\ 0 # treeHeight /\ k \in Nat
    BY <1>1
  <2> QED BY <1>1, <1>3, <1>5, <1>6, <1>9, <1>10, <1>11, <2>1, <2>2, PlacedStep
\* What other nodes point to stays.
<1>14. ASSUME NEW c \in 1 .. popped, NEW j \in 1 .. Fan, j <= Len(pointers[c])
       PROVE  j <= Len(pointers'[c]) /\ pointers'[c][j] = pointers[c][j]
  <2>1. c # node
    BY <1>8, <1>14
  <2> QED BY <1>2, <1>14, <2>1
<1>15. Children(m, r)'
  <2>1. ASSUME NEW q \in 1 .. treeHeight, NEW x \in 1 .. m[q], NEW j \in 1 .. Fan, Child(x, j) <= m[q - 1]
        PROVE  j <= Len(pointers'[r[q][x]]) /\ pointers'[r[q][x]][j] = r[q - 1][Child(x, j)]
    <3>1. q \in Ranks /\ q - 1 \in Ranks /\ q # 0 /\ made[q] \in Nat /\ made[q - 1] \in Nat
      BY <1>1, <1>9 DEF Ranks
    <3>2. x \in 1 .. made[q] /\ x \in Nat \ {0} /\ r[q] = row[q]
      <4>1. m[q] = made[q] /\ r[q] = row[q]
        BY <1>12, <3>1
      <4> QED BY <3>1, <4>1
    <3>3. Child(x, j) \in Nat \ {0}
      BY <3>2, ChildFacts
    <3>4. CASE Child(x, j) <= made[q - 1]
      <4>1. row[q][x] \in 1 .. popped
        BY <1>6, <3>1, <3>2 DEF Placed
      <4>2. j <= Len(pointers[row[q][x]]) /\ pointers[row[q][x]][j] = row[q - 1][Child(x, j)]
        BY <1>6, <3>2, <3>4 DEF Children
      <4>3. r[q - 1][Child(x, j)] = row[q - 1][Child(x, j)]
        <5>1. Child(x, j) \in 1 .. made[q - 1]
          BY <3>1, <3>3, <3>4
        <5> QED BY <1>11, <3>1, <5>1, RowKept
      <4> QED BY <1>14, <3>2, <4>1, <4>2, <4>3
    \* A new leaf is under the node in hand.
    <3>5. CASE ~(Child(x, j) <= made[q - 1])
      <4>1. q - 1 = 0 /\ q = 1
        <5>1. q - 1 = 0
          BY <1>12, <2>1, <3>1, <3>5
        <5> QED BY <5>1
      <4>2. Child(x, j) > a /\ Child(x, j) <= a + k
        BY <1>12, <2>1, <3>1, <3>3, <3>5, <4>1
      <4>3. x = made[1]
        <5>1. x <= made[1]
          BY <3>1, <3>2, <4>1
        <5>2. ~(x <= made[1] - 1)
          <6>1. made[1] - 1 \in Nat
            BY <1>7
          <6>2. \A y \in Nat : IF y < x THEN y * Fan < Child(x, j) ELSE Child(x, j) <= y * Fan
            BY <3>2, ChildFacts
          <6>3. IF made[1] - 1 < x THEN (made[1] - 1) * Fan < Child(x, j) ELSE Child(x, j) <= (made[1] - 1) * Fan
            BY <6>1, <6>2
          <6> QED BY <1>1, <1>7, <3>2, <3>3, <4>2, <6>1, <6>3
        <5> QED BY <1>7, <3>2, <5>1, <5>2
      <4>4. Child(x, j) = a + j
        BY <1>7, <4>3 DEF Child
      <4>5. j \in 1 .. k
        BY <1>1, <4>2, <4>4
      <4>6. r[q][x] = node
        BY <1>8, <3>2, <4>1, <4>3
      <4>7. r[q - 1][Child(x, j)] = popped + j
        BY <1>12, <4>1, <4>4, <4>5
      <4>8. j <= k
        BY <4>5
      <4> QED BY <1>2, <4>5, <4>6, <4>7, <4>8
    <3> QED BY <3>4, <3>5
  <2> QED BY <1>5, <2>1 DEF Children
<1>16. InHand(m, r)'
  <2>1. ASSUME NEW s \in 1 .. Len(calls')
        PROVE  calls'[s].node = r[calls'[s].height + 1][m[calls'[s].height + 1]]
    <3>1. s \in 1 .. Len(calls) - 1
      BY <1>5
    <3>2. calls'[s] = calls[s + 1] /\ s + 1 \in 1 .. Len(calls)
      BY <1>5, <3>1
    <3>3. calls[s + 1].height = treeHeight - Len(calls) + (s + 1) - 1
      BY <3>2 DEF Path
    <3>4. calls[s + 1].height + 1 \in Ranks /\ calls[s + 1].height + 1 # 0
      BY <1>1, <3>1, <3>3 DEF Ranks
    <3>5. calls[s + 1].node = row[calls[s + 1].height + 1][made[calls[s + 1].height + 1]]
      BY <1>6, <3>2 DEF InHand
    <3> QED BY <1>12, <3>2, <3>4, <3>5
  <2> QED BY <2>1 DEF InHand
\* The numbers of the leaves.
<1>17. ASSUME NEW x \in 1 .. a
       PROVE  /\ row[0][x] \in 1 .. popped /\ LeafNumber(row[0][x]) = x
              /\ r[0][x] = row[0][x] /\ LeafNumber(r[0][x])' = x
  <2>1. row[0][x] \in 1 .. popped
    BY <1>1, <1>6 DEF Placed
  <2>2. LeafNumber(row[0][x]) = x /\ r[0][x] = row[0][x]
    BY <1>6, <1>12 DEF Ordered
  <2>3. LeafNumber(row[0][x])' = LeafNumber(row[0][x])
    <3>1. popped \in Nat
      BY <1>1
    <3> QED BY <1>3, <2>1, <3>1, NumbersKept
  <2> QED BY <2>1, <2>2, <2>3
<1>18. ASSUME NEW j \in 1 .. k PROVE r[0][a + j] = popped + j /\ LeafNumber(r[0][a + j])' = a + j
  <2>1. r[0][a + j] = popped + j
    BY <1>12
  <2>2. Cardinality({d \in 1 .. popped + j : isLeaf'[d]}) = a + j
    <3> DEFINE A == {d \in 1 .. popped : isLeaf[d]}
               B == popped + 1 .. popped + j
    <3>1. {d \in 1 .. popped + j : isLeaf'[d]} = A \cup B
      <4>1. \A d : d \in 1 .. popped + j <=> d \in 1 .. popped \/ d \in popped + 1 .. popped + j
        BY <1>1
      <4>2. \A d \in popped + 1 .. popped + j : d \in popped + 1 .. popped + k
        BY <1>1
      <4> QED BY <1>3, <4>1, <4>2
    <3>2. IsFiniteSet(A)
      <4>1. IsFiniteSet(1 .. popped)
        BY <1>1, FS_Interval
      <4> QED BY <4>1, FS_Subset
    <3>3. IsFiniteSet(B) /\ Cardinality(B) = j
      <4>1. popped + 1 \in Int /\ popped + j \in Int /\ ~(popped + 1 > popped + j)
            /\ (popped + j) - (popped + 1) + 1 = j
        BY <1>1
      <4> QED BY <4>1, FS_Interval
    <3>4. A \cap B = {} /\ Cardinality(A) = a
      BY <1>1, <1>9
    <3> HIDE DEF A, B
    <3>5. Cardinality(A \cup B) = Cardinality(A) + Cardinality(B) - Cardinality(A \cap B)
      BY <3>2, <3>3, FS_Union
    <3>6. Cardinality(A \cap B) = 0
      BY <3>4, FS_EmptySet
    <3>7. a + j - 0 = a + j
      BY <1>1
    <3> QED BY <3>1, <3>3, <3>4, <3>5, <3>6, <3>7
  <2> QED BY <2>1, <2>2 DEF LeafNumber
<1> HIDE DEF a
<1>19. Fan * Fan \in Nat /\ \A y \in Nat : y <= a => y # a + k
  BY <1>1
<1>20. Ordered(m, r)'
  <2>1. ASSUME NEW x \in 1 .. m[0]
        PROVE  /\ LeafNumber(r[0][x])' = x
               /\ x <= Fan * Fan =>
                    next_chunk'[r[0][x]] = IF x = m[0] \/ x = Fan * Fan THEN 0 ELSE r[0][x + 1]
    <3>1. CASE x \in 1 .. a /\ x # a
      <4>1. x + 1 \in 1 .. a /\ x # m[0] /\ x \in 1 .. a /\ a \in 1 .. a
        BY <1>1, <1>12, <3>1
      <4>2. x <= Fan * Fan => next_chunk[row[0][x]] = IF x = Fan * Fan THEN 0 ELSE row[0][x + 1]
        BY <1>6, <3>1 DEF Ordered, a
      <4>3. row[0][x] # from
        <5>1. LeafNumber(row[0][x]) = x /\ row[0][x] \in 1 .. popped /\ LeafNumber(row[0][a]) = a
          BY <1>17, <4>1
        <5> QED BY <1>1, <1>7, <3>1, <5>1
      <4>4. next_chunk'[r[0][x]] = next_chunk[row[0][x]] /\ LeafNumber(r[0][x])' = x
        BY <1>4, <1>17, <4>1, <4>3
      <4>5. r[0][x + 1] = row[0][x + 1]
        BY <1>17, <4>1
      <4> QED BY <4>1, <4>2, <4>4, <4>5
    \* The last leaf so far.
    <3>2. CASE x \in 1 .. a /\ x = a
      <4>1. x # m[0] /\ row[0][x] \in 1 .. popped /\ r[0][x] = row[0][x] /\ LeafNumber(r[0][x])' = x
        BY <1>12, <1>17, <1>19, <1>1, <3>2
      <4>2. x <= Fan * Fan => next_chunk[row[0][x]] = 0
        BY <1>6, <3>2 DEF Ordered, a
      <4>3. CASE x = Fan * Fan
        <5>1. from = 0 /\ row[0][x] # from
          BY <1>1, <1>7, <3>2, <4>1, <4>3 DEF a
        <5>2. next_chunk'[row[0][x]] = next_chunk[row[0][x]]
          BY <1>4, <4>1, <5>1
        <5>3. x <= Fan * Fan
          BY <1>1, <3>2, <4>3
        <5> QED BY <4>1, <4>2, <4>3, <5>2, <5>3
      <4>4. CASE x # Fan * Fan /\ x <= Fan * Fan
        <5>1. a \in 1 .. (Fan * Fan) - 1
          BY <1>1, <1>19, <3>2, <4>4
        <5>2. from = row[0][x]
          BY <1>7, <3>2, <5>1 DEF a
        <5>3. next_chunk'[row[0][x]] = popped + 1
          BY <1>4, <4>1, <5>2
        <5>4. r[0][x + 1] = popped + 1
          <6>1. 1 \in 1 .. k
            BY <1>1
          <6> QED BY <1>18, <3>2, <6>1 DEF a
        <5> QED BY <4>1, <4>4, <5>3, <5>4
      <4>5. CASE ~(x <= Fan * Fan)
        BY <4>1, <4>5
      <4> QED BY <4>3, <4>4, <4>5
    <3>3. CASE ~(x \in 1 .. a)
      <4>1. PICK j \in 1 .. k : x = a + j
        <5>1. x - a \in 1 .. k /\ x = a + (x - a)
          BY <1>1, <1>12, <3>3 DEF a
        <5> QED BY <5>1
      <4>2. r[0][x] = popped + j /\ LeafNumber(r[0][x])' = x
        BY <1>18, <4>1 DEF a
      <4>3. next_chunk'[r[0][x]] = IF j = k THEN 0 ELSE popped + j + 1
        BY <1>4, <4>2
      <4>4. x = m[0] <=> j = k
        <5>1. m[0] = a + k
          BY <1>12 DEF a
        <5> QED BY <1>1, <4>1, <5>1
      <4>5. ASSUME j # k PROVE x # Fan * Fan /\ r[0][x + 1] = popped + j + 1
        <5>1. j + 1 \in 1 .. k /\ a + (j + 1) = x + 1 /\ popped + (j + 1) = popped + j + 1 /\ j \in 1 .. Fan /\ j < Fan
          BY <1>1, <4>1, <4>5
        <5>2. r[0][x + 1] = popped + j + 1
          <6>1. r[0][a + (j + 1)] = popped + (j + 1)
            BY <1>18, <5>1 DEF a
          <6> QED BY <5>1, <6>1
        <5>3. x # Fan * Fan
          <6>1. Child(made[1], j) = x
            BY <1>7, <4>1 DEF Child, a
          <6>2. Child(Fan, Fan) = Fan * Fan /\ Fan \in Nat \ {0} /\ Fan \in 1 .. Fan
            <7>1. ((Fan - 1) * Fan) + Fan = Fan * Fan
              OBVIOUS
            <7> QED BY <7>1 DEF Child
          <6>3. \A y \in Nat \ {0} : \A e \in 1 .. Fan : Child(y, e) = Child(Fan, Fan) => y = Fan /\ e = Fan
            BY <6>2, ChildFacts
          <6> QED BY <1>7, <5>1, <6>1, <6>2, <6>3
        <5> QED BY <5>2, <5>3
      <4> QED BY <4>2, <4>3, <4>4, <4>5
    <3> QED BY <3>1, <3>2, <3>3
  <2> QED BY <2>1 DEF Ordered
<1>21. Shape(m, r)'
  BY <1>13, <1>15, <1>16, <1>20 DEF Shape
<1> QED BY <1>21

\* The innermost call returns: the shape.
LEMMA ReturnShape ==
  ASSUME Typed, Path, Links, NEW made, Counts(made), NEW row, Shape(made, row), Return
  PROVE  Shape(made, row)'
<1>1. /\ calls # <<>> /\ calls' = Tail(calls) /\ treeHeight' = treeHeight /\ popped' = popped
      /\ pointers' = pointers /\ isLeaf' = isLeaf /\ next_chunk' = next_chunk
  BY DEF Return
<1>2. Ranks' = Ranks
  BY <1>1 DEF Ranks
<1>3. InHand(made, row)'
  <2>1. Len(calls) \in Nat /\ Len(calls') = Len(calls) - 1
        /\ \A s \in 1 .. Len(calls) - 1 : calls'[s] = calls[s + 1]
    BY <1>1, Returned, CallFacts
  <2>2. ASSUME NEW s \in 1 .. Len(calls')
        PROVE  calls'[s].node = row[calls'[s].height + 1][made[calls'[s].height + 1]]
    <3>1. s + 1 \in 1 .. Len(calls) /\ calls'[s] = calls[s + 1]
      BY <2>1
    <3> QED BY <3>1 DEF Shape, InHand
  <2> QED BY <2>2 DEF InHand
<1>4. Placed(made, row)' /\ Children(made, row)'
  <2>1. Placed(made, row) /\ Children(made, row)
    BY DEF Shape
  <2>2. Placed(made, row)'
    BY <1>1, <1>2, <2>1, Zenon DEF Placed
  <2>3. Children(made, row)'
    BY <1>1, <2>1, Zenon DEF Children
  <2> QED BY <2>2, <2>3
<1>5. Ordered(made, row)'
  <2>1. \A c : LeafNumber(c)' = LeafNumber(c)
    BY <1>1 DEF LeafNumber
  <2> QED BY <1>1, <2>1 DEF Shape, Ordered
<1> QED BY <1>3, <1>4, <1>5 DEF Shape

\* A set of leaves keeps the invariant.
LEMMA LeavesStep == ASSUME TreeInv, MakeLeaves PROVE TreeInv'
<1>1. Typed /\ Path /\ Links
  BY DEF TreeInv
<1>2. PICK made, row : Counts(made) /\ Shape(made, row)
  BY DEF TreeInv
<1>3. Typed' /\ Path' /\ Links' /\ \E m : More(made, m, 0, NewLeaves) /\ Counts(m)'
  BY <1>1, <1>2, LeavesCount
<1>4. PICK m : More(made, m, 0, NewLeaves) /\ Counts(m)'
  BY <1>3
<1>5. PICK r : Shape(m, r)'
  BY <1>1, <1>2, <1>4, LeavesShape
<1> QED BY <1>3, <1>4, <1>5 DEF TreeInv

\* So does an internal node.
LEMMA InternalStep == ASSUME TreeInv, MakeInternal PROVE TreeInv'
<1>1. Typed /\ Path /\ Links
  BY DEF TreeInv
<1>2. PICK made, row : Counts(made) /\ Shape(made, row)
  BY DEF TreeInv
<1>3. Typed' /\ Path' /\ Links' /\ \E m : More(made, m, calls[1].height, 1) /\ Counts(m)'
  BY <1>1, <1>2, InternalCount
<1>4. PICK m : More(made, m, calls[1].height, 1) /\ Counts(m)'
  BY <1>3
<1>5. PICK r : Shape(m, r)'
  BY <1>1, <1>2, <1>4, InternalShape
<1> QED BY <1>3, <1>4, <1>5 DEF TreeInv

\* And the end of a loop.
LEMMA ReturnStep == ASSUME TreeInv, Return PROVE TreeInv'
<1>1. Typed /\ Path /\ Links
  BY DEF TreeInv
<1>2. PICK made, row : Counts(made) /\ Shape(made, row)
  BY DEF TreeInv
<1>3. Typed' /\ Path' /\ Links' /\ Counts(made)'
  BY <1>1, <1>2, ReturnCount
<1>4. Shape(made, row)'
  BY <1>1, <1>2, ReturnShape
<1> QED BY <1>3, <1>4 DEF TreeInv

\* The tree is as yet its root.
LEMMA InitStep == ASSUME Init PROVE TreeInv
<1> DEFINE n == NumChunks(NumLeaves(numElements), treeHeight)
           zero == [k \in Ranks |-> 0]
           made == [k \in Ranks |-> IF k = treeHeight THEN 1 ELSE 0]
           Call == [node : Nat, height : Nat, i : Nat]
<1>1. /\ numElements \in 0 .. MaxElements /\ treeHeight \in Heights(NumLeaves(numElements))
      /\ chunks = n - 1 /\ isLeaf = << n = 1 >> /\ done = (n = 1) /\ popped = 1
      /\ calls = IF n = 1 THEN <<>> ELSE << [node |-> 1, height |-> treeHeight - 1, i |-> 0] >>
      /\ pointers = << <<>> >> /\ next_chunk = << 0 >>
  BY DEF Init
<1>2. /\ treeHeight \in Nat /\ TreeLeaves \in Nat \ {0}
      /\ Need \in [Ranks -> Nat \ {0}] /\ Need[treeHeight] = 1
      /\ NumLeaves(numElements) \in Nat /\ treeHeight \in Ranks /\ 0 \in Ranks
  BY <1>1, NeedFacts DEF Ranks
\* As many chunks as nodes, also for the one chunk of an array of no elements.
<1>3. n \in Nat /\ HasSum(Need, Ranks, n)
  <2>1. /\ HasSum(Need, Ranks, NumChunks(TreeLeaves, treeHeight))
        /\ NumChunks(TreeLeaves, treeHeight) \in Nat
    BY <1>2, ChunkSum DEF Need, Ranks
  <2>2. CASE NumLeaves(numElements) # 0
    BY <2>1, <2>2 DEF TreeLeaves
  <2>3. CASE NumLeaves(numElements) = 0
    <3>1. treeHeight = 0 /\ TreeLeaves = 1
      BY <1>1, <1>2, <2>3, HeightFacts DEF TreeLeaves
    <3>2. NumChunks(0, 0) = 1 /\ NumChunks(1, 0) = 1
      BY ChunksOfOne
    <3> QED BY <2>1, <2>3, <3>1, <3>2
  <2> QED BY <2>2, <2>3
<1> HIDE DEF n
\* The root alone is a leaf.
<1>4. n - 1 \in Nat /\ HasSum(Left(made), Ranks, n - 1) /\ (n = 1 <=> treeHeight = 0)
  <2>1. Left(made) \in [Ranks -> Nat] /\ Left(made)[treeHeight] = 0
        /\ \A k \in Ranks \ {treeHeight} : Left(made)[k] = Need[k]
    <3>1. \A k \in Ranks : Need[k] \in Nat /\ Need[k] - 0 = Need[k]
      BY <1>2
    <3>2. \A k \in Ranks : Left(made)[k] = IF k = treeHeight THEN 0 ELSE Need[k]
      BY <1>2, <3>1 DEF Left
    <3> DEFINE F == Left(made)
    <3>3. F = [k \in Ranks |-> F[k]]
      BY DEF Left
    <3> HIDE DEF F
    <3>4. \A k \in Ranks : F[k] = IF k = treeHeight THEN 0 ELSE Need[k]
      BY <3>2 DEF F
    <3>5. \A k \in Ranks : F[k] \in Nat
      BY <3>1, <3>4
    <3>6. F \in [Ranks -> Nat]
      BY <3>3, <3>5
    <3> QED BY <1>2, <3>4, <3>6 DEF F
  <2> HIDE DEF made
  <2>2. HasSum(Left(made), Ranks, n - Need[treeHeight] + Left(made)[treeHeight])
    <3>1. Need[treeHeight] \in Nat
      BY <1>2
    <3>2. \A k \in Ranks \ {treeHeight} : Left(made)[k] = Need[k]
      BY <2>1
    <3> QED BY <1>2, <1>3, <2>1, <3>1, <3>2, HasSumUpdate
  <2>3. n - Need[treeHeight] + Left(made)[treeHeight] = n - 1
    BY <1>2, <1>3, <2>1
  <2>4. HasSum(Left(made), Ranks, n - 1)
    BY <2>2, <2>3
  <2>5. n - 1 \in Nat /\ (treeHeight # 0 => n - 1 >= 1)
    <3>1. Left(made)[treeHeight] \in Nat
      BY <2>1
    <3>2. n - 1 \in Nat
      BY <1>2, <2>4, <3>1, HasSumBound
    <3>3. ASSUME treeHeight # 0 PROVE n - 1 >= 1
      <4>1. Left(made)[0] = Need[0] /\ Need[0] \in Nat \ {0}
        BY <1>2, <2>1, <3>3
      <4>2. Left(made)[0] \in Nat
        BY <4>1
      <4>3. Left(made)[0] <= n - 1
        BY <1>2, <2>4, <4>2, HasSumBound
      <4> QED BY <3>2, <4>1, <4>3
    <3> QED BY <3>2, <3>3
  <2>6. ASSUME treeHeight = 0 PROVE n - 1 = 0
    <3>1. IsFiniteSet(Ranks)
      BY <1>2, FS_Interval DEF Ranks
    <3>2. \A k \in Ranks : Left(made)[k] = 0
      BY <2>1, <2>6 DEF Ranks
    <3> QED BY <2>4, <3>1, <3>2, HasSumNone
  <2> QED BY <1>3, <2>4, <2>5, <2>6
<1>5. Len(calls) = (IF n = 1 THEN 0 ELSE 1) /\ calls \in Seq(Call) /\ (calls = <<>> <=> n = 1)
      /\ (n # 1 => calls[1] = [node |-> 1, height |-> treeHeight - 1, i |-> 0])
  <2>1. CASE n = 1
    BY <1>1, <2>1, EmptySeq
  <2>2. CASE n # 1
    <3>1. [node |-> 1, height |-> treeHeight - 1, i |-> 0] \in Call
      BY <1>2, <1>4, <2>2
    <3> HIDE DEF Call
    <3> QED BY <1>1, <2>2, <3>1
  <2> QED BY <2>1, <2>2
<1>6. Typed
  <2>1. pointers \in Seq(Seq(Nat)) /\ Len(pointers) = 1 /\ pointers[1] = <<>>
    <3>1. <<>> \in Seq(Nat)
      BY EmptySeq
    <3> QED BY <1>1, <3>1
  <2>2. isLeaf \in Seq(BOOLEAN) /\ Len(isLeaf) = 1
    BY <1>1
  <2>3. next_chunk \in Seq(Nat) /\ Len(next_chunk) = 1
    BY <1>1
  <2> QED BY <1>1, <1>4, <1>5, <2>1, <2>2, <2>3 DEF Typed
<1>7. Path
  <2>1. Len(calls) <= treeHeight /\ done = (calls = <<>>)
    BY <1>1, <1>2, <1>4, <1>5
  <2>2. ASSUME NEW s \in 1 .. Len(calls)
        PROVE  /\ calls[s].node \in 1 .. popped
               /\ calls[s].height = treeHeight - Len(calls) + s - 1
               /\ calls[s].i = Len(pointers[calls[s].node])
               /\ calls[s].height = 0 => calls[s].i = 0
               /\ \A u \in 1 .. Len(calls) : s < u => calls[u].node < calls[s].node
    <3>1. n # 1 /\ s = 1 /\ Len(calls) = 1
      BY <1>5
    <3>2. calls[s].node = 1 /\ calls[s].height = treeHeight - 1 /\ calls[s].i = 0
      BY <1>5, <3>1
    <3>3. pointers[1] = <<>> /\ Len(<<>>) = 0
      BY <1>1, EmptySeq
    <3>4. treeHeight - 1 = treeHeight - 1 + 1 - 1
      BY <1>2
    <3> QED BY <1>1, <3>1, <3>2, <3>3, <3>4
  <2> QED BY <2>1, <2>2 DEF Path
<1>8. Links
  <2>1. pointers[1] = <<>> /\ Len(<<>>) = 0 /\ next_chunk[1] = 0
    BY <1>1, EmptySeq
  <2> QED BY <1>1, <2>1 DEF Links
<1>9. Counts(made)
  <2>1. made \in [Ranks -> Nat] /\ made[treeHeight] = 1 /\ \A k \in Ranks : k # treeHeight => made[k] = 0
    BY <1>2
  <2> HIDE DEF made
  <2>2. \A k \in Ranks : made[k] <= Need[k]
    <3>1. ASSUME NEW k \in Ranks PROVE made[k] <= Need[k]
      <4>1. Need[k] \in Nat /\ (k = treeHeight => Need[k] = 1)
        BY <1>2
      <4> QED BY <2>1, <4>1
    <3> QED BY <3>1
  <2>3. ASSUME NEW s \in 1 .. Len(calls)
        PROVE  /\ made[calls[s].height + 1] >= 1
               /\ made[calls[s].height] = (made[calls[s].height + 1] - 1) * Fan + calls[s].i
               /\ s > 1 => calls[s].i >= 1
    <3>1. n # 1 /\ s = 1
      BY <1>5
    <3>2. calls[s].height = treeHeight - 1 /\ calls[s].i = 0
      BY <1>5, <3>1
    <3>3. treeHeight - 1 \in Ranks /\ treeHeight - 1 # treeHeight /\ (treeHeight - 1) + 1 = treeHeight
      BY <1>2, <1>4, <3>1 DEF Ranks
    <3>4. made[treeHeight - 1] = 0 /\ made[(treeHeight - 1) + 1] = 1
      BY <2>1, <3>3
    <3> QED BY <3>1, <3>2, <3>4
  <2>4. ASSUME NEW k \in 0 .. treeHeight - Len(calls) - 1 PROVE made[k] = Fan * made[k + 1]
    <3>1. treeHeight # 0 /\ Len(calls) = 1
      BY <1>2, <1>4, <1>5, <2>4
    <3>2. k \in Ranks /\ k + 1 \in Ranks /\ k # treeHeight /\ k + 1 # treeHeight
      BY <1>2, <2>4, <3>1 DEF Ranks
    <3>3. made[k] = 0 /\ made[k + 1] = 0
      BY <2>1, <3>2
    <3> QED BY <3>3
  <2>5. Cardinality({d \in 1 .. popped : isLeaf[d]}) = made[0]
    <3>1. CASE n = 1
      <4>1. {d \in 1 .. popped : isLeaf[d]} = {1}
        <5>1. isLeaf[1] = (n = 1)
          BY <1>1
        <5>2. popped = 1 /\ 1 .. 1 = {1}
          BY <1>1
        <5>3. isLeaf[1]
          BY <3>1, <5>1
        <5> QED BY <5>2, <5>3, Zenon
      <4>2. Cardinality({1}) = 1
        BY FS_Singleton
      <4> QED BY <1>4, <2>1, <3>1, <4>1, <4>2
    <3>2. CASE n # 1
      <4>1. {d \in 1 .. popped : isLeaf[d]} = {}
        <5>1. isLeaf[1] = (n = 1)
          BY <1>1
        <5>2. popped = 1 /\ 1 .. 1 = {1}
          BY <1>1
        <5>3. ~isLeaf[1]
          BY <3>2, <5>1
        <5> QED BY <5>2, <5>3, Zenon
      <4>2. Cardinality({}) = 0
        BY FS_EmptySet
      <4> QED BY <1>2, <1>4, <2>1, <3>2, <4>1, <4>2
    <3> QED BY <3>1, <3>2
  <2>6. HasSum(Left(made), Ranks, chunks)
    BY <1>1, <1>4
  <2> QED BY <2>1, <2>2, <2>3, <2>4, <2>5, <2>6 DEF Counts
<1> DEFINE row == [k \in Ranks |-> [x \in Nat |-> 1]]
<1>10. /\ made[treeHeight] = 1 /\ \A k \in Ranks : k # treeHeight => made[k] = 0
       /\ \A k \in Ranks : \A x \in Nat : row[k][x] = 1
       /\ row \in [Ranks -> [Nat -> Nat]]
  BY <1>2
<1> HIDE DEF made, row
<1>11. ASSUME NEW k \in Ranks, NEW x \in 1 .. made[k] PROVE k = treeHeight /\ x = 1 /\ row[k][x] = 1
  <2>1. k = treeHeight
    BY <1>10
  <2>2. x = 1
    BY <1>10, <2>1
  <2> QED BY <1>10, <2>1, <2>2
<1>12. isLeaf[1] <=> treeHeight = 0
  BY <1>1, <1>4
<1>13. Shape(made, row)
  <2>1. Placed(made, row)
    <3>1. row[treeHeight][1] = 1 /\ 1 \in 1 .. popped
      BY <1>1, <1>2, <1>10
    <3> QED BY <1>10, <1>11, <1>12, <3>1 DEF Placed
  <2>2. Children(made, row)
    <3>1. SUFFICES ASSUME NEW k \in 1 .. treeHeight, NEW x \in 1 .. made[k], NEW j \in 1 .. Fan,
                          Child(x, j) <= made[k - 1]
                   PROVE  FALSE
      BY DEF Children
    <3>2. k \in Ranks /\ k - 1 \in Ranks /\ k - 1 # k
      BY <1>2 DEF Ranks
    <3>3. k = treeHeight /\ x = 1
      BY <1>11, <3>2
    <3>4. made[k - 1] = 0
      BY <1>10, <3>2, <3>3
    <3>5. Child(x, j) = j
      BY <3>3 DEF Child
    <3> QED BY <3>1, <3>4, <3>5
  <2>3. InHand(made, row)
    <3>1. ASSUME NEW s \in 1 .. Len(calls) PROVE calls[s].node = row[calls[s].height + 1][made[calls[s].height + 1]]
      <4>1. n # 1 /\ s = 1
        BY <1>5
      <4>2. calls[s].node = 1 /\ calls[s].height = treeHeight - 1
        BY <1>5, <4>1
      <4>3. calls[s].height + 1 = treeHeight
        BY <1>2, <4>2
      <4>4. row[treeHeight][made[treeHeight]] = 1
        BY <1>2, <1>10
      <4> QED BY <4>2, <4>3, <4>4
    <3> QED BY <3>1 DEF InHand
  <2>4. Ordered(made, row)
    <3>1. ASSUME NEW x \in 1 .. made[0]
          PROVE  /\ LeafNumber(row[0][x]) = x
                 /\ next_chunk[row[0][x]] = 0 /\ x = made[0]
      <4>1. treeHeight = 0 /\ x = 1 /\ row[0][x] = 1 /\ made[0] = 1
        BY <1>2, <1>10, <1>11
      <4>2. {d \in 1 .. 1 : isLeaf[d]} = {1}
        <5>1. isLeaf[1] /\ 1 .. 1 = {1}
          BY <1>12, <4>1
        <5> QED BY <5>1, Zenon
      <4>3. LeafNumber(1) = 1
        BY <4>2, FS_Singleton DEF LeafNumber
      <4>4. next_chunk[1] = 0
        BY <1>1
      <4> QED BY <4>1, <4>3, <4>4
    <3> QED BY <3>1 DEF Ordered
  <2> QED BY <2>1, <2>2, <2>3, <2>4 DEF Shape
<1> QED BY <1>6, <1>7, <1>8, <1>9, <1>13 DEF TreeInv

-----------------------------------------------------------------------------
(* Reading a finished array.                                               *)

\* When create_array_tree has returned to GC_arrayAllocate, every height has
\* the nodes that the tree needs.
LEMMA DoneIsFull ==
  ASSUME Typed, Path, Links, NEW made, Counts(made), done
  PROVE  chunks = 0 /\ \A k \in Ranks : made[k] = Need[k]
<1>1. calls = <<>> /\ Len(calls) = 0
  BY EmptySeq DEF Path
<1>2. treeHeight \in Nat /\ Need[treeHeight] = 1 /\ treeHeight \in Ranks /\ treeHeight - Len(calls) = treeHeight
  BY <1>1, NeedFacts DEF Typed, Ranks
<1>3. made[treeHeight] = Need[treeHeight]
  BY <1>2 DEF Counts
<1>4. chunks = 0
  <2>1. SUFFICES ASSUME chunks > 0 PROVE FALSE
    BY DEF Typed
  <2>2. \A k \in Ranks : k <= treeHeight => made[k] = Need[k]
    BY <1>2, <1>3, <2>1, FullBelow
  <2>3. \A k \in Ranks : made[k] = Need[k]
    BY <1>2, <2>2 DEF Ranks
  <2> QED BY <2>1, <2>3, FullMeansEmpty
<1> QED BY <1>4, FullMeansEmpty

\* The whole part of a quotient.
LEMMA DivFacts ==
  ASSUME NEW w \in Nat \ {0}, NEW i \in Nat
  PROVE  /\ i \div w \in Nat /\ (i \div w) * w <= i /\ i < ((i \div w) + 1) * w
         /\ i - (i \div w) * w = i % w
         /\ \A p \in Nat : p * w <= i /\ i < (p + 1) * w => p = i \div w
<1> DEFINE q == i \div w
           e == i % w
<1>1. q \in Nat /\ e \in Nat /\ e < w /\ i = (w * q) + e
  OBVIOUS
<1> HIDE DEF q, e
<1>2. w * q = q * w /\ (q + 1) * w = (q * w) + w /\ q * w \in Nat
  BY <1>1
<1>3. q * w <= i /\ i < (q + 1) * w /\ i - q * w = e
  BY <1>1, <1>2
<1>4. ASSUME NEW p \in Nat, p * w <= i, i < (p + 1) * w PROVE p = q
  <2>1. \A x, d \in Nat : (x + (d + 1)) * w = ((x + 1) * w) + (d * w) /\ d * w \in Nat /\ (x + 1) * w \in Nat
    OBVIOUS
  <2>2. \A x, y \in Nat : x < y => (x + 1) * w <= y * w
    <3>1. SUFFICES ASSUME NEW x \in Nat, NEW y \in Nat, x < y PROVE (x + 1) * w <= y * w
      OBVIOUS
    <3>2. y - x - 1 \in Nat /\ x + ((y - x - 1) + 1) = y
      BY <3>1
    <3>3. (x + ((y - x - 1) + 1)) * w = ((x + 1) * w) + ((y - x - 1) * w)
          /\ (y - x - 1) * w \in Nat /\ (x + 1) * w \in Nat
      BY <2>1, <3>2
    <3> QED BY <3>2, <3>3
  <2>3. p * w \in Nat /\ (p + 1) * w \in Nat /\ (q + 1) * w \in Nat
    BY <1>1
  <2>4. ~(p < q)
    BY <1>1, <1>2, <1>3, <1>4, <2>2, <2>3
  <2>5. ~(q < p)
    BY <1>1, <1>2, <1>3, <1>4, <2>2, <2>3
  <2> QED BY <1>1, <2>4, <2>5
<1> QED BY <1>1, <1>3, <1>4 DEF q, e

\* Of the slices of width w the one with number n has element i.
Within(n, w, i) == n * w <= i /\ i < (n + 1) * w

\* What UM_Array_offset goes by: element i is in the slice of the nx-th child
\* of node q, and that slice begins where the child's e0 says.
Descends(w, q, i, nx) ==
  /\ nx \in 0 .. Fan - 1 /\ (q * Fan) + nx \in Nat
  /\ Within((q * Fan) + nx, w, i)
  /\ q * (Fan * w) + ((Fan * w) \div Fan) * nx = ((q * Fan) + nx) * w

\* One step of the descent: which child has element i, and where its slice begins.
LEMMA Descend ==
  ASSUME NEW w \in Nat \ {0}, NEW q \in Nat, NEW i \in Nat, Within(q, Fan * w, i)
  PROVE  Descends(w, q, i, ((i - q * (Fan * w)) * Fan) \div (Fan * w))
<1> DEFINE F == Fan * w
           e == q * F
           d == i - e
           nx == (d * Fan) \div F
<1>0. e <= i /\ i < (q + 1) * F
  BY DEF Within
<1>1. F \in Nat \ {0} /\ e \in Nat /\ (q + 1) * F = e + F
  OBVIOUS
<1>2. d \in Nat /\ d < F /\ i = e + d
  BY <1>0, <1>1
<1>3. F \div Fan = w
  <2>1. w * Fan <= F /\ F < (w + 1) * Fan
    OBVIOUS
  <2>2. Fan \in Nat \ {0} /\ F \in Nat /\ w \in Nat
    OBVIOUS
  <2> HIDE DEF F
  <2> QED BY <2>1, <2>2, DivFacts
<1>4. nx \in Nat /\ nx * F <= d * Fan /\ d * Fan < (nx + 1) * F
  <2>1. nx = (d * Fan) \div F
    OBVIOUS
  <2>2. d * Fan \in Nat /\ F \in Nat \ {0}
    BY <1>1, <1>2
  <2>3. \A w1 \in Nat \ {0} : \A x \in Nat :
          x \div w1 \in Nat /\ (x \div w1) * w1 <= x /\ x < ((x \div w1) + 1) * w1
    BY DivFacts
  <2> HIDE DEF F, d, nx
  <2>4. (d * Fan) \div F \in Nat /\ ((d * Fan) \div F) * F <= d * Fan
        /\ d * Fan < (((d * Fan) \div F) + 1) * F
    BY <2>2, <2>3, Zenon
  <2> QED BY <2>1, <2>4
<1> HIDE DEF nx
<1>5. nx * w <= d /\ d < (nx + 1) * w
  <2>1. \A x, y \in Nat : x * Fan <= y * Fan <=> x <= y
    OBVIOUS
  <2>2. nx * F = (nx * w) * Fan /\ (nx + 1) * F = ((nx + 1) * w) * Fan
        /\ nx * w \in Nat /\ (nx + 1) * w \in Nat
    BY <1>4
  <2> HIDE DEF d, F
  <2>3. (nx * w) * Fan <= d * Fan /\ ~(((nx + 1) * w) * Fan <= d * Fan)
    <3>1. d * Fan \in Nat /\ ((nx + 1) * w) * Fan \in Nat
      BY <1>2, <2>2
    <3> QED BY <1>4, <2>2, <3>1
  <2> QED BY <1>2, <2>1, <2>2, <2>3
<1>6. nx < Fan
  <2>1. SUFFICES ASSUME nx >= Fan PROVE FALSE
    BY <1>4
  <2>2. \A x \in Nat : (Fan + x) * w >= Fan * w
    OBVIOUS
  <2>3. nx - Fan \in Nat /\ Fan + (nx - Fan) = nx
    BY <1>4, <2>1
  <2>4. nx * w >= Fan * w /\ nx * w \in Nat
    BY <1>4, <2>2, <2>3
  <2> QED BY <1>1, <1>2, <1>5, <2>4
<1>7. ((q * Fan) + nx) * w = e + nx * w /\ (((q * Fan) + nx) + 1) * w = e + (nx + 1) * w
      /\ nx * w \in Nat /\ (nx + 1) * w \in Nat /\ (q * Fan) + nx \in Nat
  BY <1>4
<1>8. e + (F \div Fan) * nx = ((q * Fan) + nx) * w
  <2>1. w * nx = nx * w
    BY <1>4
  <2> HIDE DEF F, e
  <2> QED BY <1>3, <1>7, <2>1
<1> HIDE DEF d
<1>9. ((q * Fan) + nx) * w <= i /\ i < (((q * Fan) + nx) + 1) * w
  <2> HIDE DEF e
  <2> QED BY <1>1, <1>2, <1>5, <1>7
<1>10. Descends(w, q, i, nx)
  BY <1>4, <1>6, <1>7, <1>8, <1>9 DEF Descends, Within
<1> QED BY <1>10 DEF nx, d

\* The leaves have room for all elements.
LEMMA LeavesEnough == ASSUME NEW n \in Nat PROVE n <= NumLeaves(n) * PerChunk /\ NumLeaves(n) \in Nat
<1> DEFINE q == n \div PerChunk
<1>1. q \in Nat /\ n % PerChunk \in Nat /\ n = (PerChunk * q) + (n % PerChunk) /\ n % PerChunk < PerChunk
  OBVIOUS
<1>2. q * PerChunk = PerChunk * q /\ (q + 1) * PerChunk = (PerChunk * q) + PerChunk /\ PerChunk * q \in Nat
  BY <1>1
<1>3. NumLeaves(n) = q + (IF n % PerChunk # 0 THEN 1 ELSE 0)
  BY DEF NumLeaves
<1> HIDE DEF q
<1>4. CASE n % PerChunk = 0
  <2>1. NumLeaves(n) = q
    BY <1>1, <1>3, <1>4
  <2> QED BY <1>1, <1>2, <1>4, <2>1
<1>5. CASE n % PerChunk # 0
  <2>1. NumLeaves(n) = q + 1
    BY <1>3, <1>5
  <2> QED BY <1>1, <1>2, <2>1
<1> QED BY <1>4, <1>5

\* At every height there is a node for each slice that has an element.
LEMMA SliceHasNode ==
  ASSUME numElements \in Nat, treeHeight \in Heights(NumLeaves(numElements)),
         NEW i \in 0 .. numElements - 1, NEW h \in Ranks
  PROVE  /\ Pow[h] * PerChunk \in Nat \ {0}
         /\ i \div (Pow[h] * PerChunk) \in Nat /\ (i \div (Pow[h] * PerChunk)) + 1 <= Need[h]
<1> DEFINE w == Pow[h] * PerChunk
           q == i \div w
<1>1. treeHeight \in Nat /\ TreeLeaves \in Nat \ {0} /\ Need[h] \in Nat
  BY NeedFacts
<1>2. h \in Nat /\ h \in 0 .. treeHeight /\ Pow[h] \in Nat \ {0}
  BY <1>1, PowFacts DEF Ranks
<1>3. w \in Nat \ {0}
  BY <1>2
<1> HIDE DEF w
<1>4. q \in Nat /\ q * w <= i
  <2>1. i \in Nat
    BY <1>3
  <2> QED BY <1>3, <2>1, DivFacts
<1> HIDE DEF q
<1>5. ~(Need[h] <= q)
  <2>1. SUFFICES ASSUME Need[h] <= q PROVE FALSE
    OBVIOUS
  <2>2. TreeLeaves <= q * Pow[h]
    BY <1>1, <1>2, <1>4, <2>1, LevelBound DEF Need
  <2>3. numElements <= NumLeaves(numElements) * PerChunk /\ NumLeaves(numElements) \in Nat
    BY LeavesEnough
  <2>4. NumLeaves(numElements) <= TreeLeaves
    BY <2>3 DEF TreeLeaves
  <2>5. q * Pow[h] \in Nat
    BY <1>2, <1>4
  <2>6. \A x, y \in Nat : x <= y => x * PerChunk <= y * PerChunk /\ x * PerChunk \in Nat
    OBVIOUS
  <2>7. NumLeaves(numElements) <= q * Pow[h]
    BY <1>1, <2>2, <2>3, <2>4, <2>5
  <2>8. NumLeaves(numElements) * PerChunk <= (q * Pow[h]) * PerChunk
        /\ NumLeaves(numElements) * PerChunk \in Nat
    BY <2>3, <2>5, <2>6, <2>7
  <2>9. (q * Pow[h]) * PerChunk = q * w /\ q * w \in Nat
    BY <1>2, <1>4 DEF w
  <2> QED BY <1>4, <2>3, <2>8, <2>9
<1>6. q + 1 <= Need[h]
  BY <1>1, <1>4, <1>5
<1> QED BY <1>3, <1>4, <1>6 DEF w, q

\* A finished array: row[k][x] is the x-th node of height k, and there are as
\* many as the tree needs.
Complete(row) ==
  /\ row[treeHeight][1] = 1
  /\ \A k \in Ranks : \A x \in 1 .. Need[k] : row[k][x] \in 1 .. popped /\ (isLeaf[row[k][x]] <=> k = 0)
  /\ \A k \in 1 .. treeHeight : \A x \in 1 .. Need[k] : \A j \in 1 .. Fan :
       Child(x, j) <= Need[k - 1] => pointers[row[k][x]][j] = row[k - 1][Child(x, j)]
  /\ \A x \in 1 .. Need[0] :
       /\ LeafNumber(row[0][x]) = x
       /\ x <= Fan * Fan => next_chunk[row[0][x]] = IF x = Need[0] \/ x = Fan * Fan THEN 0 ELSE row[0][x + 1]
  /\ LeafNumber(popped) = Need[0]

\* That is what the invariant says of it.
LEMMA DoneIsComplete == ASSUME TreeInv, done PROVE \E row : Complete(row)
<1>1. Typed /\ Path /\ Links
  BY DEF TreeInv
<1>2. PICK made, row : Counts(made) /\ Shape(made, row)
  BY DEF TreeInv
<1>3. \A k \in Ranks : made[k] = Need[k]
  BY <1>1, <1>2, DoneIsFull
<1>4. treeHeight \in Nat /\ 0 \in Ranks /\ \A k \in 1 .. treeHeight : k \in Ranks /\ k - 1 \in Ranks
  BY <1>1, NeedFacts DEF Typed, Ranks
<1>5. row[treeHeight][1] = 1
      /\ \A k \in Ranks : \A x \in 1 .. Need[k] : row[k][x] \in 1 .. popped /\ (isLeaf[row[k][x]] <=> k = 0)
  BY <1>2, <1>3 DEF Shape, Placed
<1>6. ASSUME NEW k \in 1 .. treeHeight, NEW x \in 1 .. Need[k], NEW j \in 1 .. Fan, Child(x, j) <= Need[k - 1]
      PROVE  pointers[row[k][x]][j] = row[k - 1][Child(x, j)]
  <2>1. x \in 1 .. made[k] /\ Child(x, j) <= made[k - 1]
    BY <1>3, <1>4, <1>6
  <2> QED BY <1>2, <2>1, Zenon DEF Shape, Children
<1>7. \A x \in 1 .. Need[0] :
        /\ LeafNumber(row[0][x]) = x
        /\ x <= Fan * Fan => next_chunk[row[0][x]] = IF x = Need[0] \/ x = Fan * Fan THEN 0 ELSE row[0][x + 1]
  <2>1. made[0] = Need[0] /\ Ordered(made, row)
    BY <1>2, <1>3, <1>4 DEF Shape
  <2> QED BY <2>1 DEF Ordered
<1>8. LeafNumber(popped) = Need[0]
  BY <1>2, <1>3, <1>4 DEF Counts, LeafNumber
<1>9. Complete(row)
  BY <1>5, <1>6, <1>7, <1>8 DEF Complete
<1> QED BY <1>9

\* Where the slices of height h begin, and which of them has element i.
Width(h)    == Pow[h] * PerChunk
Slice(i, h) == i \div Width(h)

\* Going down from the node whose slice has element i leads to the child whose
\* slice has it.
LEMMA ChildHasElement ==
  ASSUME numElements \in Nat, treeHeight \in Heights(NumLeaves(numElements)),
         NEW row, Complete(row), NEW i \in 0 .. numElements - 1, NEW h \in 1 .. treeHeight,
         NEW nx, nx = ((i - Slice(i, h) * Width(h)) * Fan) \div Width(h)
  PROVE  /\ ~isLeaf[row[h][Slice(i, h) + 1]]
         /\ pointers[row[h][Slice(i, h) + 1]][nx + 1] = row[h - 1][Slice(i, h - 1) + 1]
         /\ Slice(i, h) * Width(h) + (Width(h) \div Fan) * nx = Slice(i, h - 1) * Width(h - 1)
<1> DEFINE w == Width(h - 1)
           q == Slice(i, h)
           p == Slice(i, h - 1)
<1>1. treeHeight \in Nat /\ Need \in [Ranks -> Nat \ {0}]
  BY NeedFacts
<1>2. h \in Ranks /\ h - 1 \in Ranks /\ h - 1 \in Nat /\ (h - 1) + 1 = h /\ h # 0 /\ i \in Nat
  BY <1>1 DEF Ranks
<1>3. w \in Nat \ {0} /\ Width(h) = Fan * w
  <2>1. Pow[h - 1] \in Nat \ {0} /\ Pow[h] = Fan * Pow[h - 1]
    BY <1>2, PowFacts
  <2> QED BY <2>1 DEF Width
<1>4. q \in Nat /\ q + 1 <= Need[h]
  BY <1>2, SliceHasNode DEF Slice, Width
<1>5. p \in Nat /\ p + 1 <= Need[h - 1]
  BY <1>2, SliceHasNode DEF Slice, Width
<1> HIDE DEF w, q, p
<1>6. Within(q, Fan * w, i)
  <2>1. Width(h) \in Nat \ {0}
    BY <1>3
  <2>2. (i \div Width(h)) * Width(h) <= i /\ i < ((i \div Width(h)) + 1) * Width(h)
    BY <1>2, <2>1, DivFacts
  <2> QED BY <1>3, <2>2 DEF q, Slice, Within
<1>7. nx = ((i - q * (Fan * w)) * Fan) \div (Fan * w)
  BY <1>3 DEF q
<1>8. Descends(w, q, i, nx)
  <2>1. i \in Nat /\ w \in Nat \ {0} /\ q \in Nat
    BY <1>2, <1>3, <1>4
  <2>2. Descends(w, q, i, ((i - q * (Fan * w)) * Fan) \div (Fan * w))
    BY <1>6, <2>1, Descend, Zenon
  <2> QED BY <1>7, <2>2
<1>9. (q * Fan) + nx = p
  <2>1. \A m \in Nat : m * w <= i /\ i < (m + 1) * w => m = i \div w
    BY <1>2, <1>3, DivFacts
  <2>2. (q * Fan) + nx = i \div w
    BY <1>8, <2>1 DEF Descends, Within
  <2> QED BY <2>2 DEF p, Slice, w
<1>10. Child(q + 1, nx + 1) = p + 1
  <2>1. (q + 1) - 1 = q
    BY <1>4
  <2>2. q * Fan \in Nat
    BY <1>4
  <2>3. nx \in Nat
    BY <1>8 DEF Descends
  <2> QED BY <1>9, <2>1, <2>2, <2>3 DEF Child
<1>11. q + 1 \in 1 .. Need[h] /\ nx + 1 \in 1 .. Fan
  BY <1>1, <1>2, <1>4, <1>8 DEF Descends
<1>12. ~isLeaf[row[h][q + 1]]
  BY <1>2, <1>11 DEF Complete
<1>13. pointers[row[h][q + 1]][nx + 1] = row[h - 1][p + 1]
  <2>1. Child(q + 1, nx + 1) <= Need[h - 1]
    BY <1>5, <1>10
  <2>2. \A x \in 1 .. Need[h] : \A j \in 1 .. Fan :
          Child(x, j) <= Need[h - 1] => pointers[row[h][x]][j] = row[h - 1][Child(x, j)]
    BY Zenon DEF Complete
  <2>3. pointers[row[h][q + 1]][nx + 1] = row[h - 1][Child(q + 1, nx + 1)]
    BY <1>11, <2>1, <2>2, Zenon
  <2> QED BY <1>10, <2>3
<1>14. q * Width(h) + (Width(h) \div Fan) * nx = p * Width(h - 1)
  BY <1>3, <1>8, <1>9 DEF w, Descends
<1> QED BY <1>12, <1>13, <1>14 DEF q, p

\* Where the width of the whole tree fits in a size_t, every width does.
LEMMA WidthFits ==
  ASSUME treeHeight \in Nat, Pow[treeHeight] * PerChunk < SizeRange, NEW h \in 0 .. treeHeight
  PROVE  SliceWidth(h) = Width(h)
<1> DEFINE P == {n \in Nat : Pow[h] <= Pow[h + n]}
<1>1. h \in Nat /\ Pow \in [Nat -> Nat \ {0}]
  BY PowFacts
<1>2. 0 \in P
  BY <1>1
<1>3. ASSUME NEW n \in Nat, n \in P PROVE n + 1 \in P
  <2>1. h + n \in Nat /\ h + (n + 1) = (h + n) + 1
    BY <1>1
  <2>2. Pow[(h + n) + 1] = Fan * Pow[h + n]
    BY <2>1, PowFacts
  <2>3. Pow[h] \in Nat /\ Pow[h + n] \in Nat /\ Pow[h] <= Pow[h + n]
    BY <1>1, <1>3, <2>1
  <2>4. Pow[h + n] <= Fan * Pow[h + n]
    BY <2>3
  <2> QED BY <2>1, <2>2, <2>3, <2>4
<1>4. treeHeight - h \in P
  <2>1. treeHeight - h \in Nat
    BY <1>1
  <2> HIDE DEF P
  <2> QED BY <1>2, <1>3, <2>1, NatSetInduction
<1>5. Pow[h] \in Nat /\ Pow[treeHeight] \in Nat /\ Pow[h] <= Pow[treeHeight]
  BY <1>1, <1>4
<1>6. Pow[h] * PerChunk \in Nat /\ Pow[h] * PerChunk <= Pow[treeHeight] * PerChunk
  BY <1>5
<1>7. Pow[h] * PerChunk < SizeRange
  <2>1. Pow[treeHeight] * PerChunk \in Nat
    BY <1>5
  <2> QED BY <1>6, <2>1
<1>8. \A x \in Nat : x < SizeRange => x % SizeRange = x
  OBVIOUS
<1> QED BY <1>6, <1>7, <1>8 DEF SliceWidth, Width

\* UM_Array_offset, level by level: it stands at the node of height
\* treeHeight - k whose slice has the element.
LEMMA LookupPath ==
  ASSUME Pow[treeHeight] * PerChunk < SizeRange,
         numElements \in Nat, treeHeight \in Heights(NumLeaves(numElements)),
         NEW row, Complete(row), NEW i \in 0 .. numElements - 1
  PROVE  Lookup(i) = << row[0][Slice(i, 0) + 1], i - Slice(i, 0) * Width(0) >>
<1> DEFINE Root == [node |-> 1, e0 |-> 0, width |-> SliceWidth(treeHeight)]
           Step(a, k) == LET nx == ((i - a.e0) * Fan) \div a.width
                         IN IF isLeaf[a.node] THEN a
                            ELSE [node |-> pointers[a.node][nx + 1],
                                  e0 |-> a.e0 + (a.width \div Fan) * nx,
                                  width |-> SliceWidth(treeHeight - k)]
           at == CHOOSE at : at = [k \in 0 .. treeHeight |-> IF k = 0 THEN Root ELSE Step(at[k - 1], k)]
           stop(h) == [node |-> row[h][Slice(i, h) + 1], e0 |-> Slice(i, h) * Width(h), width |-> Width(h)]
           g == [k \in 0 .. treeHeight |-> stop(treeHeight - k)]
<1>0. Lookup(i) = <<at[treeHeight].node, i - at[treeHeight].e0>>
  BY DEF Lookup
<1>1. treeHeight \in Nat /\ Need \in [Ranks -> Nat \ {0}] /\ treeHeight \in Ranks /\ Need[treeHeight] = 1
  BY NeedFacts DEF Ranks
<1>2. stop(treeHeight) = Root
  <2>1. Slice(i, treeHeight) \in Nat /\ Slice(i, treeHeight) + 1 <= 1
    BY <1>1, SliceHasNode DEF Slice, Width
  <2>2. Slice(i, treeHeight) = 0
    BY <2>1
  <2>3. Width(treeHeight) \in Nat
    BY <1>1, SliceHasNode DEF Width
  <2>4. row[treeHeight][1] = 1
    BY DEF Complete
  <2>5. SliceWidth(treeHeight) = Width(treeHeight)
    BY <1>1, WidthFits DEF Ranks
  <2>6. Slice(i, treeHeight) * Width(treeHeight) = 0 /\ Slice(i, treeHeight) + 1 = 1
    BY <2>2, <2>3
  <2> QED BY <2>4, <2>5, <2>6
<1>3. ASSUME NEW h \in 1 .. treeHeight, NEW k, treeHeight - k = h - 1 PROVE Step(stop(h), k) = stop(h - 1)
  <2> DEFINE nx == ((i - Slice(i, h) * Width(h)) * Fan) \div Width(h)
  <2>1. nx = ((i - Slice(i, h) * Width(h)) * Fan) \div Width(h)
    OBVIOUS
  <2> HIDE DEF nx
  <2>2. /\ ~isLeaf[row[h][Slice(i, h) + 1]]
        /\ pointers[row[h][Slice(i, h) + 1]][nx + 1] = row[h - 1][Slice(i, h - 1) + 1]
        /\ Slice(i, h) * Width(h) + (Width(h) \div Fan) * nx = Slice(i, h - 1) * Width(h - 1)
    BY <2>1, ChildHasElement
  <2>3. SliceWidth(treeHeight - k) = Width(h - 1)
    <3>1. h - 1 \in 0 .. treeHeight
      BY <1>1
    <3>2. SliceWidth(h - 1) = Width(h - 1)
      BY <1>1, <3>1, WidthFits
    <3> QED BY <1>3, <3>2
  <2>4. stop(h).node = row[h][Slice(i, h) + 1] /\ stop(h).e0 = Slice(i, h) * Width(h) /\ stop(h).width = Width(h)
    OBVIOUS
  <2> QED BY <2>1, <2>2, <2>3, <2>4
<1> HIDE DEF Root, Step, stop
<1>4. g = [k \in 0 .. treeHeight |-> IF k = 0 THEN Root ELSE Step(g[k - 1], k)]
  <2>1. ASSUME NEW k \in 0 .. treeHeight PROVE stop(treeHeight - k) = IF k = 0 THEN Root ELSE Step(g[k - 1], k)
    <3>1. CASE k = 0
      BY <1>1, <1>2, <3>1
    <3>2. CASE k # 0
      <4>1. k - 1 \in 0 .. treeHeight /\ treeHeight - (k - 1) \in 1 .. treeHeight
            /\ treeHeight - k = (treeHeight - (k - 1)) - 1
        BY <1>1, <3>2
      <4>2. g[k - 1] = stop(treeHeight - (k - 1))
        BY <4>1
      <4> HIDE DEF g
      <4>3. Step(stop(treeHeight - (k - 1)), k) = stop((treeHeight - (k - 1)) - 1)
        BY <1>3, <4>1
      <4> QED BY <3>2, <4>1, <4>2, <4>3
    <3> QED BY <3>1, <3>2
  <2> QED BY <2>1
<1>5. at = [k \in 0 .. treeHeight |-> IF k = 0 THEN Root ELSE Step(at[k - 1], k)]
  <2> HIDE DEF g
  <2> QED BY <1>4
<1> HIDE DEF at
<1> DEFINE P == {k \in Nat : k <= treeHeight => at[k] = g[k]}
<1>6. 0 \in P
  <2>1. 0 \in 0 .. treeHeight
    BY <1>1
  <2> HIDE DEF g
  <2>2. at[0] = Root /\ g[0] = Root
    BY <1>4, <1>5, <2>1
  <2> QED BY <2>2
<1>7. ASSUME NEW k \in Nat, k \in P, k + 1 <= treeHeight PROVE at[k + 1] = g[k + 1]
  <2>1. k + 1 \in 0 .. treeHeight /\ k + 1 # 0 /\ (k + 1) - 1 = k /\ at[k] = g[k]
    BY <1>1, <1>7
  <2> HIDE DEF g
  <2>2. g[k + 1] = Step(g[k], k + 1) /\ at[k + 1] = Step(at[k], k + 1)
    BY <1>4, <1>5, <2>1
  <2> QED BY <2>1, <2>2
<1>8. at[treeHeight] = g[treeHeight]
  <2>1. \A k \in Nat : k \in P => k + 1 \in P
    <3> HIDE DEF g
    <3>1. ASSUME NEW k \in Nat, k \in P PROVE k + 1 \in P
      <4>1. k + 1 \in Nat
        OBVIOUS
      <4>2. k + 1 <= treeHeight => at[k + 1] = g[k + 1]
        BY <1>7, <3>1
      <4> QED BY <4>1, <4>2
    <3> QED BY <3>1
  <2>2. treeHeight \in P
    <3> HIDE DEF P
    <3> QED BY <1>1, <1>6, <2>1, NatSetInduction
  <2> QED BY <1>1, <2>2
<1>9. g[treeHeight] = stop(0)
  <2>1. treeHeight \in 0 .. treeHeight /\ treeHeight - treeHeight = 0
    BY <1>1
  <2> QED BY <2>1
<1> QED BY <1>0, <1>8, <1>9 DEF stop

\* UM_walk_array_leafs starts at the first leaf: every height has a first node,
\* and its first child is the first node below.
LEMMA FirstLeaf ==
  ASSUME numElements \in Nat, treeHeight \in Heights(NumLeaves(numElements)), NEW row, Complete(row)
  PROVE  (CHOOSE down : down = [k \in 0 .. treeHeight |->
            IF k = 0 THEN 1
            ELSE LET c == down[k - 1] IN IF isLeaf[c] THEN c ELSE pointers[c][1]])[treeHeight] = row[0][1]
<1> DEFINE Step(c) == IF isLeaf[c] THEN c ELSE pointers[c][1]
           down == CHOOSE down : down = [k \in 0 .. treeHeight |-> IF k = 0 THEN 1 ELSE Step(down[k - 1])]
           g == [k \in 0 .. treeHeight |-> row[treeHeight - k][1]]
<1>1. treeHeight \in Nat /\ Need \in [Ranks -> Nat \ {0}] /\ row[treeHeight][1] = 1
  BY NeedFacts DEF Complete
<1>2. ASSUME NEW h \in 1 .. treeHeight PROVE Step(row[h][1]) = row[h - 1][1]
  <2>1. h \in Ranks /\ h - 1 \in Ranks /\ h # 0
    BY <1>1 DEF Ranks
  <2>2. 1 \in 1 .. Need[h] /\ 1 <= Need[h - 1] /\ 1 \in 1 .. Fan
    BY <1>1, <2>1
  <2>3. Child(1, 1) = 1
    BY DEF Child
  <2>4. ~isLeaf[row[h][1]]
    BY <2>1, <2>2 DEF Complete
  <2>5. \A x \in 1 .. Need[h] : \A j \in 1 .. Fan :
          Child(x, j) <= Need[h - 1] => pointers[row[h][x]][j] = row[h - 1][Child(x, j)]
    BY Zenon DEF Complete
  <2>6. pointers[row[h][1]][1] = row[h - 1][1]
    BY <2>2, <2>3, <2>5
  <2> QED BY <2>4, <2>6
<1> HIDE DEF Step
<1>3. g = [k \in 0 .. treeHeight |-> IF k = 0 THEN 1 ELSE Step(g[k - 1])]
  <2>1. ASSUME NEW k \in 0 .. treeHeight PROVE row[treeHeight - k][1] = IF k = 0 THEN 1 ELSE Step(g[k - 1])
    <3>1. CASE k = 0
      BY <1>1, <3>1
    <3>2. CASE k # 0
      <4>1. k - 1 \in 0 .. treeHeight /\ treeHeight - (k - 1) \in 1 .. treeHeight
            /\ treeHeight - k = (treeHeight - (k - 1)) - 1
        BY <1>1, <3>2
      <4>2. g[k - 1] = row[treeHeight - (k - 1)][1]
        BY <4>1
      <4> HIDE DEF g
      <4>3. Step(row[treeHeight - (k - 1)][1]) = row[(treeHeight - (k - 1)) - 1][1]
        BY <1>2, <4>1
      <4> QED BY <3>2, <4>1, <4>2, <4>3
    <3> QED BY <3>1, <3>2
  <2> QED BY <2>1
<1>4. down = [k \in 0 .. treeHeight |-> IF k = 0 THEN 1 ELSE Step(down[k - 1])]
  <2> HIDE DEF g
  <2> QED BY <1>3
<1> DEFINE P == {k \in Nat : k <= treeHeight => down[k] = g[k]}
<1>5. down[treeHeight] = g[treeHeight]
  <2> HIDE DEF down
  <2>1. 0 \in P
    <3>1. 0 \in 0 .. treeHeight
      BY <1>1
    <3> HIDE DEF g
    <3>2. down[0] = 1 /\ g[0] = 1
      BY <1>3, <1>4, <3>1
    <3> QED BY <3>2
  <2>2. ASSUME NEW k \in Nat, k \in P, k + 1 <= treeHeight PROVE down[k + 1] = g[k + 1]
    <3>1. k + 1 \in 0 .. treeHeight /\ k + 1 # 0 /\ (k + 1) - 1 = k /\ down[k] = g[k]
      BY <1>1, <2>2
    <3> HIDE DEF g
    <3>2. g[k + 1] = Step(g[k]) /\ down[k + 1] = Step(down[k])
      BY <1>3, <1>4, <3>1
    <3> QED BY <3>1, <3>2
  <2>3. \A k \in Nat : k \in P => k + 1 \in P
    BY <2>2
  <2>4. treeHeight \in P
    <3> HIDE DEF P
    <3> QED BY <1>1, <2>1, <2>3, NatSetInduction
  <2> QED BY <1>1, <2>4
<1>6. g[treeHeight] = row[0][1]
  <2>1. treeHeight \in 0 .. treeHeight /\ treeHeight - treeHeight = 0
    BY <1>1
  <2> QED BY <2>1
<1> HIDE DEF g
<1> QED BY <1>5, <1>6 DEF down, Step

\* Its further calls go along the links: they meet leaf after leaf up to the
\* last, or the last below the first node of height 2, and then nothing.
LEMMA WalkPath ==
  ASSUME Typed, NEW row, Complete(row), NEW n \in 1 .. popped
  PROVE  Walk[n] = IF n <= Need[0] /\ n <= Fan * Fan THEN row[0][n] ELSE 0
<1> DEFINE first == (CHOOSE down : down = [k \in 0 .. treeHeight |->
                       IF k = 0 THEN 1
                       ELSE LET c == down[k - 1] IN IF isLeaf[c] THEN c ELSE pointers[c][1]])[treeHeight]
           Step(c) == IF c = 0 THEN 0 ELSE next_chunk[c]
           leaf == CHOOSE leaf : leaf = [m \in 1 .. popped |-> IF m = 1 THEN first ELSE Step(leaf[m - 1])]
           Met(m) == IF m <= Need[0] /\ m <= Fan * Fan THEN row[0][m] ELSE 0
           g == [m \in 1 .. popped |-> Met(m)]
<1>0. Walk = leaf
  BY DEF Walk
<1>1. first = row[0][1]
  BY FirstLeaf DEF Typed
<1> HIDE DEF first
<1>2. Need[0] \in Nat \ {0} /\ 0 \in Ranks /\ popped \in Nat \ {0}
  BY NeedFacts DEF Typed, Ranks
<1>3. Met(1) = first
  <2>1. 1 <= Fan * Fan
    OBVIOUS
  <2> QED BY <1>1, <1>2, <2>1
<1>4. ASSUME NEW m \in Nat \ {0} PROVE Step(Met(m)) = Met(m + 1)
  <2> DEFINE last == Fan * Fan
  <2>1. last \in Nat
    OBVIOUS
  <2> HIDE DEF last
  <2>2. CASE m <= Need[0] /\ m <= last
    <3>1. m \in 1 .. Need[0]
      BY <1>2, <2>2
    <3>2. row[0][m] \in 1 .. popped
      BY <1>2, <3>1 DEF Complete
    <3>3. next_chunk[row[0][m]] = IF m = Need[0] \/ m = last THEN 0 ELSE row[0][m + 1]
      BY <2>2, <3>1 DEF Complete, last
    <3>4. Met(m) = row[0][m] /\ row[0][m] # 0
      BY <1>2, <2>2, <3>2 DEF last
    <3>5. Met(m + 1) = IF m = Need[0] \/ m = last THEN 0 ELSE row[0][m + 1]
      BY <1>2, <2>1, <2>2 DEF last
    <3> QED BY <3>3, <3>4, <3>5
  <2>3. CASE ~(m <= Need[0] /\ m <= last)
    <3>1. Met(m) = 0
      BY <2>3 DEF last
    <3>2. ~(m + 1 <= Need[0] /\ m + 1 <= last)
      BY <1>2, <2>1, <2>3
    <3>3. Met(m + 1) = 0
      BY <3>2 DEF last
    <3> QED BY <3>1, <3>3
  <2> QED BY <2>2, <2>3
<1> HIDE DEF Step, Met
<1>5. g = [m \in 1 .. popped |-> IF m = 1 THEN first ELSE Step(g[m - 1])]
  <2>1. ASSUME NEW m \in 1 .. popped PROVE Met(m) = IF m = 1 THEN first ELSE Step(g[m - 1])
    <3>1. CASE m = 1
      BY <1>3, <3>1
    <3>2. CASE m # 1
      <4>1. m - 1 \in 1 .. popped /\ m - 1 \in Nat \ {0} /\ (m - 1) + 1 = m
        BY <1>2, <3>2
      <4>2. g[m - 1] = Met(m - 1)
        BY <4>1
      <4> HIDE DEF g
      <4>3. Step(Met(m - 1)) = Met((m - 1) + 1)
        BY <1>4, <4>1
      <4> QED BY <3>2, <4>1, <4>2, <4>3
    <3> QED BY <3>1, <3>2
  <2> QED BY <2>1
<1>6. leaf = [m \in 1 .. popped |-> IF m = 1 THEN first ELSE Step(leaf[m - 1])]
  <2> HIDE DEF g
  <2> QED BY <1>5
<1> DEFINE P == {m \in Nat : m + 1 <= popped => leaf[m + 1] = g[m + 1]}
<1>7. leaf[n] = g[n]
  <2> HIDE DEF leaf, g
  <2>1. 0 \in P
    <3>1. 1 \in 1 .. popped
      BY <1>2
    <3>2. leaf[1] = first /\ g[1] = first
      BY <1>5, <1>6, <3>1
    <3> QED BY <3>2
  <2>2. ASSUME NEW m \in Nat, m \in P, (m + 1) + 1 <= popped PROVE leaf[(m + 1) + 1] = g[(m + 1) + 1]
    <3>1. (m + 1) + 1 \in 1 .. popped /\ (m + 1) + 1 # 1 /\ ((m + 1) + 1) - 1 = m + 1 /\ leaf[m + 1] = g[m + 1]
      BY <1>2, <2>2
    <3>2. g[(m + 1) + 1] = Step(g[m + 1]) /\ leaf[(m + 1) + 1] = Step(leaf[m + 1])
      BY <1>5, <1>6, <3>1
    <3> QED BY <3>1, <3>2
  <2>3. \A m \in Nat : m \in P => m + 1 \in P
    BY <2>2
  <2>4. n - 1 \in Nat /\ (n - 1) + 1 = n
    BY <1>2
  <2>5. n - 1 \in P
    <3> HIDE DEF P
    <3> QED BY <2>1, <2>3, <2>4, NatSetInduction
  <2> QED BY <2>4, <2>5
<1>8. g[n] = Met(n)
  OBVIOUS
<1> HIDE DEF g, leaf
<1> QED BY <1>0, <1>7, <1>8 DEF Met

-----------------------------------------------------------------------------
(* Theorems.                                                               *)

\* The inductive invariant holds, whatever the fan-out, the capacity of a
\* chunk and the number of elements.
THEOREM TreeInvariant == Spec => []TreeInv
<1>1. Init => TreeInv
  BY InitStep
<1>2. TreeInv /\ [Next]_vars => TreeInv'
  <2>1. ASSUME TreeInv, UNCHANGED vars PROVE TreeInv'
    <3>1. UNCHANGED <<numElements, treeHeight, chunks, popped, pointers, isLeaf, next_chunk, calls, done>>
      BY <2>1 DEF vars
    <3>2. Typed' /\ Path' /\ Links'
      BY <2>1, <3>1 DEF TreeInv, Typed, Path, Links
    <3>3. PICK made, row : Counts(made) /\ Shape(made, row)
      BY <2>1 DEF TreeInv
    <3>4. Ranks' = Ranks /\ Need' = Need
      BY <3>1 DEF Ranks, Need, TreeLeaves
    <3>5. Left(made)' = Left(made)
      BY <3>4 DEF Left
    <3>6. Counts(made)'
      BY <3>1, <3>3, <3>4, <3>5 DEF Counts
    <3>7. \A c : LeafNumber(c)' = LeafNumber(c)
      BY <3>1 DEF LeafNumber
    <3>8. Shape(made, row)'
      <4>1. Placed(made, row) /\ Children(made, row) /\ InHand(made, row) /\ Ordered(made, row)
        BY <3>3 DEF Shape
      <4>2. Placed(made, row)'
        BY <3>1, <3>4, <4>1, Zenon DEF Placed
      <4>3. Children(made, row)'
        BY <3>1, <4>1, Zenon DEF Children
      <4>4. InHand(made, row)'
        BY <3>1, <4>1, Zenon DEF InHand
      <4>5. Ordered(made, row)'
        BY <3>1, <3>7, <4>1 DEF Ordered
      <4> QED BY <4>2, <4>3, <4>4, <4>5 DEF Shape
    <3> QED BY <3>2, <3>6, <3>8 DEF TreeInv
  <2> QED BY <2>1, LeavesStep, InternalStep, ReturnStep DEF Next, Finished
<1> QED BY <1>1, <1>2, PTL DEF Spec

\* Every variable keeps its type: a node has no more pointers than fit, and
\* they and the links of the leaves go to chunks that were taken from the list.
THEOREM TypeCorrect == Spec => []TypeOK
<1>1. ASSUME TreeInv PROVE TypeOK
  <2>1. Typed /\ Path /\ Links
    BY <1>1 DEF TreeInv
  <2>2. ASSUME NEW c \in 1 .. popped
        PROVE  /\ Len(pointers[c]) <= Fan
               /\ \A j \in DOMAIN pointers[c] : pointers[c][j] \in c + 1 .. popped
               /\ next_chunk[c] \in 0 .. popped
    <3>1. pointers \in Seq(Seq(Nat)) /\ c \in 1 .. Len(pointers)
      BY <2>1 DEF Typed
    <3>2. pointers[c] \in Seq(Nat)
      BY <3>1, ElementOfSeq
    <3>3. DOMAIN pointers[c] = 1 .. Len(pointers[c])
      BY <3>2, LenProperties
    <3> QED BY <2>1, <3>3 DEF Links
  <2>3. ASSUME NEW k \in DOMAIN calls PROVE calls[k].node \in 1 .. popped /\ calls[k].height \in Nat
    <3>1. k \in 1 .. Len(calls)
      BY <2>1, LenProperties DEF Typed
    <3>2. calls[k] \in [node : Nat, height : Nat, i : Nat] /\ calls[k].node \in 1 .. popped
      BY <2>1, <3>1, CallFacts
    <3> QED BY <3>2
  <2> QED BY <2>1, <2>2, <2>3 DEF TypeOK, Typed
<1> QED BY <1>1, TreeInvariant, PTL

\* create_array_tree uses up the chunks that GC_arrayAllocate computed and
\* reserved: no call finds the list empty, at the end none is left, and the
\* tree has the leaves that the elements need.
THEOREM NoChunkIsLeaked == Spec => []TreeUsesAllChunks
<1>1. ASSUME TreeInv PROVE TreeUsesAllChunks
  <2>1. Typed /\ Path /\ Links
    BY <1>1 DEF TreeInv
  <2>2. PICK made : Counts(made)
    BY <1>1 DEF TreeInv
  <2>3. ASSUME calls # <<>>, Top.i = 0 PROVE chunks > 0
    <3>1. calls[1].i = 0
      BY <2>1, <2>3, TopFacts
    <3> QED BY <2>1, <2>2, <2>3, <3>1, NeverEmpty
  <2>4. ASSUME done PROVE chunks = 0 /\ (numElements > 0 => LeafNumber(popped) = NumLeaves(numElements))
    <3>1. Need[0] = TreeLeaves /\ NumLeaves(numElements) \in Nat
      BY <2>1, NeedFacts DEF Typed
    <3>2. chunks = 0
      BY <2>1, <2>2, <2>4, DoneIsFull
    <3>3. LeafNumber(popped) = TreeLeaves
      <4>1. PICK row : Complete(row)
        BY <1>1, <2>4, DoneIsComplete
      <4> QED BY <3>1, <4>1 DEF Complete
    <3>4. numElements > 0 => NumLeaves(numElements) # 0
      <4>1. numElements \in Nat
        BY <2>1 DEF Typed
      <4> QED BY <4>1, SomeLeaves
    <3> QED BY <3>2, <3>3, <3>4 DEF TreeLeaves
  <2> QED BY <2>3, <2>4 DEF TreeUsesAllChunks
<1> QED BY <1>1, TreeInvariant, PTL

\* UM_Array_offset, computed in exact arithmetic, finds every element of a
\* finished array in the leaf and at the position where a flat array would
\* have it, whatever the height of the tree, as long as the width of the tree
\* does not overflow a size_t: the children of its nodes are in order and
\* their slices have the width that the descent divides by.
THEOREM LookupFindsElement == Spec => []LookupExact
<1>1. ASSUME TreeInv, done, Pow[treeHeight] * PerChunk < SizeRange, NEW i \in 0 .. numElements - 1
      PROVE  LET x == Lookup(i)
             IN /\ isLeaf[x[1]] /\ LeafNumber(x[1]) = i \div PerChunk + 1
                /\ x[2] = i % PerChunk
  <2>1. Typed
    BY <1>1 DEF TreeInv
  <2>2. PICK row : Complete(row)
    BY <1>1, DoneIsComplete
  <2>3. numElements \in Nat /\ treeHeight \in Heights(NumLeaves(numElements))
    BY <2>1 DEF Typed
  <2>4. i \in Nat /\ 0 \in Ranks /\ Need[0] \in Nat
    BY <2>3, NeedFacts DEF Ranks
  <2>5. Width(0) = PerChunk
    BY PowFacts DEF Width
  <2>6. Slice(i, 0) = i \div PerChunk
    BY <2>5 DEF Slice
  <2>7. Slice(i, 0) \in Nat /\ Slice(i, 0) + 1 <= Need[0]
    BY <2>3, <2>4, SliceHasNode DEF Slice, Width
  <2>8. Slice(i, 0) + 1 \in 1 .. Need[0]
    BY <2>4, <2>7
  <2>9. isLeaf[row[0][Slice(i, 0) + 1]] /\ LeafNumber(row[0][Slice(i, 0) + 1]) = Slice(i, 0) + 1
    BY <2>2, <2>4, <2>8 DEF Complete
  <2>10. i - (i \div PerChunk) * PerChunk = i % PerChunk
    BY <2>4, DivFacts
  <2>11. Lookup(i) = << row[0][Slice(i, 0) + 1], i - Slice(i, 0) * Width(0) >>
    BY <1>1, <2>2, <2>3, LookupPath
  <2>12. Lookup(i)[1] = row[0][Slice(i, 0) + 1] /\ Lookup(i)[2] = i - Slice(i, 0) * Width(0)
    BY <2>11
  <2>13. isLeaf[Lookup(i)[1]] /\ LeafNumber(Lookup(i)[1]) = i \div PerChunk + 1
    BY <2>6, <2>9, <2>12
  <2>14. Lookup(i)[2] = i % PerChunk
    BY <2>5, <2>6, <2>10, <2>12
  <2> QED BY <2>13, <2>14
<1>2. TreeInv => LookupExact
  BY <1>1 DEF LookupExact
<1> QED BY <1>2, TreeInvariant, PTL

\* What the walk returns: the leaves in order, as far as there are leaves below
\* the first node of height 2, and then NULL.
WalkStopsAtCousins ==
  done => \A n \in 1 .. popped :
            IF n <= LeafNumber(popped) /\ n <= Fan * Fan
            THEN Walk[n] # 0 /\ isLeaf[Walk[n]] /\ LeafNumber(Walk[n]) = n
            ELSE Walk[n] = 0

\* UM_walk_array_leafs goes no further than the links that create_array_tree
\* sets, and these join siblings only: in a tree of height 3 or more the leaves
\* after the first Fan * Fan are not met.
THEOREM WalkEndsAtCousins == Spec => []WalkStopsAtCousins
<1>1. ASSUME TreeInv, done, NEW n \in 1 .. popped
      PROVE  IF n <= LeafNumber(popped) /\ n <= Fan * Fan
             THEN Walk[n] # 0 /\ isLeaf[Walk[n]] /\ LeafNumber(Walk[n]) = n
             ELSE Walk[n] = 0
  <2>1. Typed
    BY <1>1 DEF TreeInv
  <2>2. PICK row : Complete(row)
    BY <1>1, DoneIsComplete
  <2>3. Need[0] \in Nat /\ 0 \in Ranks
    BY <2>1, NeedFacts DEF Typed, Ranks
  <2>4. LeafNumber(popped) = Need[0]
    BY <2>2 DEF Complete
  <2>5. Walk[n] = IF n <= Need[0] /\ n <= Fan * Fan THEN row[0][n] ELSE 0
    BY <2>1, <2>2, WalkPath
  <2>6. ASSUME n <= Need[0] PROVE row[0][n] # 0 /\ isLeaf[row[0][n]] /\ LeafNumber(row[0][n]) = n
    <3>1. n \in 1 .. Need[0]
      BY <2>3, <2>6
    <3>2. row[0][n] \in 1 .. popped /\ isLeaf[row[0][n]] /\ LeafNumber(row[0][n]) = n
      BY <2>2, <2>3, <3>1 DEF Complete
    <3> QED BY <3>2
  <2> QED BY <2>4, <2>5, <2>6
<1>2. TreeInv => WalkStopsAtCousins
  BY <1>1 DEF WalkStopsAtCousins
<1> QED BY <1>2, TreeInvariant, PTL

\* Where the tree has at most two levels of internal nodes, UM_walk_array_leafs
\* meets every leaf in order and then returns NULL, as its comment says: there
\* are no more than Fan * Fan leaves.
THEOREM WalkMeetsLeaves == Spec => []LowTreesWalked
<1>1. ASSUME TreeInv, done, treeHeight <= 2 PROVE LeafNumber(popped) <= Fan * Fan
  <2>1. Typed
    BY <1>1 DEF TreeInv
  <2>2. PICK row : Complete(row)
    BY <1>1, DoneIsComplete
  <2>3. numElements \in Nat /\ treeHeight \in Heights(NumLeaves(numElements))
    BY <2>1 DEF Typed
  <2>4. treeHeight \in Nat /\ Need[0] = TreeLeaves /\ NumLeaves(numElements) \in Nat
    BY <2>3, NeedFacts
  <2>5. LeafNumber(popped) = Need[0]
    BY <2>2 DEF Complete
  <2>6. NumLeaves(numElements) <= Pow[treeHeight]
    BY <2>3, <2>4, HeightFacts
  <2>7. Pow[0] = 1 /\ Pow[1] = Fan /\ Pow[2] = Fan * Fan
    <3>1. Pow[0] = 1 /\ Pow[0 + 1] = Fan * Pow[0] /\ Pow[1 + 1] = Fan * Pow[1]
      BY PowFacts
    <3> QED BY <3>1
  <2>8. 1 <= Fan * Fan /\ Fan <= Fan * Fan
    OBVIOUS
  <2>9. treeHeight \in {0, 1, 2}
    BY <1>1, <2>4
  <2>10. Pow[treeHeight] <= Fan * Fan
    BY <2>7, <2>8, <2>9
  <2>11. Pow[treeHeight] \in Nat
    BY <2>4, PowFacts
  <2>12. NumLeaves(numElements) <= Fan * Fan
    BY <2>4, <2>6, <2>10, <2>11
  <2> QED BY <2>4, <2>5, <2>8, <2>12 DEF TreeLeaves
<1>2. TreeInv /\ WalkStopsAtCousins => LowTreesWalked
  <2> SUFFICES ASSUME TreeInv, WalkStopsAtCousins, treeHeight <= 2, done, NEW n \in 1 .. popped
               PROVE  IF n <= LeafNumber(popped)
                      THEN Walk[n] # 0 /\ isLeaf[Walk[n]] /\ LeafNumber(Walk[n]) = n
                      ELSE Walk[n] = 0
    BY DEF LowTreesWalked, WalkMeetsEveryLeaf
  <2>1. LeafNumber(popped) <= Fan * Fan /\ LeafNumber(popped) \in Nat
    <3>1. PICK row : Complete(row)
      BY DoneIsComplete
    <3>2. LeafNumber(popped) = Need[0]
      BY <3>1 DEF Complete
    <3>3. numElements \in Nat /\ treeHeight \in Heights(NumLeaves(numElements))
      BY DEF TreeInv, Typed
    <3>4. Need[0] \in Nat
      BY <3>3, NeedFacts
    <3> QED BY <1>1, <3>2, <3>4
  <2>2. n \in Nat
    OBVIOUS
  <2>3. n <= LeafNumber(popped) => n <= Fan * Fan
    BY <2>1, <2>2
  <2> QED BY <2>3 DEF WalkStopsAtCousins
<1> QED BY <1>2, TreeInvariant, WalkEndsAtCousins, PTL
=============================================================================
