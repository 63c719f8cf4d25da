----------------------------- MODULE SumLemmas -----------------------------
(***************************************************************************)
(* Sums over the threads, stated so that a step can be reasoned about      *)
(* without induction: a function f that gives every set of threads the sum *)
(* of a quantity h, characterised by taking out any one member.            *)
(***************************************************************************)
EXTENDS Integers, FiniteSetTheorems, TLAPS

\* f[S] is the sum of h over S, for every S \subseteq D.
Sums(f, h, D) ==
  /\ f \in [SUBSET D -> Nat]
  /\ f[{}] = 0
  /\ \A S \in SUBSET D : \A t \in S : f[S] = h[t] + f[S \ {t}]

\* The sum of zeros.
LEMMA SumZero ==
  ASSUME NEW D, NEW h, \A t \in D : h[t] = 0
  PROVE  \E f : Sums(f, h, D) /\ f[D] = 0
<1> DEFINE f == [S \in SUBSET D |-> 0]
<1>1. Sums(f, h, D) /\ f[D] = 0
  BY DEF Sums
<1> QED BY <1>1

\* One thread's quantity changes: the sum changes by as much.
LEMMA SumUpdate ==
  ASSUME NEW D, NEW h, NEW h2 \in [D -> Nat], NEW f, Sums(f, h, D),
         NEW t \in D, h[t] \in Nat, \A u \in D \ {t} : h2[u] = h[u]
  PROVE  \E g : Sums(g, h2, D) /\ g[D] = f[D] - h[t] + h2[t]
<1> DEFINE g == [S \in SUBSET D |-> IF t \in S THEN h2[t] + f[S \ {t}] ELSE f[S]]
<1>1. g \in [SUBSET D -> Nat] /\ g[{}] = 0
  BY DEF Sums
<1>2. ASSUME NEW S \in SUBSET D, NEW u \in S PROVE g[S] = h2[u] + g[S \ {u}]
  <2>1. CASE u = t
    BY <2>1 DEF Sums
  <2>2. CASE u # t /\ t \notin S
    BY <2>2 DEF Sums
  <2>3. CASE u # t /\ t \in S
    <3>1. (S \ {u}) \ {t} = (S \ {t}) \ {u}
      OBVIOUS
    <3>2. PICK n \in Nat : n = f[(S \ {t}) \ {u}]
      BY DEF Sums
    <3>3. g[S] = h2[t] + f[S \ {t}] /\ g[S \ {u}] = h2[t] + n
      BY <2>3, <3>1, <3>2
    <3>4. f[S \ {t}] = h2[u] + n
      BY <2>3, <3>2 DEF Sums
    <3>5. h2[u] \in Nat /\ h2[t] \in Nat
      BY <2>3
    <3> HIDE DEF g
    <3> QED BY <3>3, <3>4, <3>5
  <2> QED BY <2>1, <2>2, <2>3
<1>3. g[D] = f[D] - h[t] + h2[t]
  <2>1. f[D] = h[t] + f[D \ {t}] /\ f[D \ {t}] \in Nat
    BY DEF Sums
  <2> QED BY <2>1
<1>4. Sums(g, h2, D)
  BY <1>1, <1>2 DEF Sums
<1> QED BY <1>3, <1>4

\* No member has more than the sum.
LEMMA SumBound ==
  ASSUME NEW D, NEW h, NEW f, Sums(f, h, D), NEW t \in D, h[t] \in Nat
  PROVE  h[t] <= f[D] /\ f[D] \in Nat
<1>1. f[D] = h[t] + f[D \ {t}] /\ f[D \ {t}] \in Nat /\ f[D] \in Nat
  BY DEF Sums
<1> QED BY <1>1

\* There is only one sum: whatever order f takes the members out in, it gives
\* every subset of a finite D what g does.  A subset on which they differed
\* would have a smallest one below it.
LEMMA SumUnique ==
  ASSUME NEW D, IsFiniteSet(D), NEW h, NEW f, NEW g, Sums(g, h, D), f[{}] = 0,
         \A S \in SUBSET D : S # {} => \E t \in S : f[S] = h[t] + f[S \ {t}]
  PROVE  f[D] = g[D]
<1> DEFINE Differ == {S \in SUBSET D : f[S] # g[S]}
<1>1. SUFFICES ASSUME Differ # {} PROVE FALSE
  OBVIOUS
<1>2. IsWellFoundedOn(StrictSubsetOrdering(D), SUBSET D)
  BY FS_FiniteSubsetsOfFinite, FS_StrictSubsetOrderingWellFounded
<1>3. PICK S \in Differ : \A T \in Differ : <<T, S>> \notin StrictSubsetOrdering(D)
  <2> HIDE DEF Differ
  <2>1. Differ \subseteq SUBSET D
    BY DEF Differ
  <2> QED BY <1>1, <1>2, <2>1, WFMin
<1>4. S # {}
  BY <1>3 DEF Sums
<1>5. PICK t \in S : f[S] = h[t] + f[S \ {t}]
  BY <1>3, <1>4
<1>6. f[S \ {t}] = g[S \ {t}]
  <2>1. <<S \ {t}, S>> \in StrictSubsetOrdering(D)
    BY <1>3, <1>5 DEF StrictSubsetOrdering
  <2> QED BY <1>3, <2>1
<1>7. g[S] = h[t] + g[S \ {t}]
  BY <1>3, <1>5 DEF Sums
<1> QED BY <1>3, <1>5, <1>6, <1>7

\* The sum of zeros is zero, whatever order they are taken in.
LEMMA SumNone ==
  ASSUME NEW D, IsFiniteSet(D), NEW h, NEW f, Sums(f, h, D), \A t \in D : h[t] = 0
  PROVE  f[D] = 0
<1> DEFINE Some == {S \in SUBSET D : f[S] # 0}
<1>1. SUFFICES ASSUME Some # {} PROVE FALSE
  OBVIOUS
<1>2. IsWellFoundedOn(StrictSubsetOrdering(D), SUBSET D)
  BY FS_FiniteSubsetsOfFinite, FS_StrictSubsetOrderingWellFounded
<1>3. PICK S \in Some : \A T \in Some : <<T, S>> \notin StrictSubsetOrdering(D)
  <2> HIDE DEF Some
  <2>1. Some \subseteq SUBSET D
    BY DEF Some
  <2> QED BY <1>1, <1>2, <2>1, WFMin
<1>4. PICK t \in S : f[S] = h[t] + f[S \ {t}] /\ f[S \ {t}] \in Nat
  BY <1>3 DEF Sums
<1>5. f[S \ {t}] # 0
  BY <1>3, <1>4
<1>6. <<S \ {t}, S>> \in StrictSubsetOrdering(D)
  BY <1>3, <1>4 DEF StrictSubsetOrdering
<1> QED BY <1>3, <1>5, <1>6

\* A part has no more than the whole: taking members out one by one never
\* raises the sum.
LEMMA SumPart ==
  ASSUME NEW D, IsFiniteSet(D), NEW h \in [D -> Nat], NEW f, Sums(f, h, D), NEW C \in SUBSET D
  PROVE  f[D \ C] <= f[D]
<1> DEFINE More == {B \in SUBSET D : ~(f[D \ B] <= f[D])}
<1>1. SUFFICES ASSUME More # {} PROVE FALSE
  OBVIOUS
<1>2. IsWellFoundedOn(StrictSubsetOrdering(D), SUBSET D)
  BY FS_FiniteSubsetsOfFinite, FS_StrictSubsetOrderingWellFounded
<1>3. PICK B \in More : \A A \in More : <<A, B>> \notin StrictSubsetOrdering(D)
  <2> HIDE DEF More
  <2>1. More \subseteq SUBSET D
    BY DEF More
  <2> QED BY <1>1, <1>2, <2>1, WFMin
<1>4. B \in SUBSET D /\ ~(f[D \ B] <= f[D])
  BY <1>3
<1>5. B # {}
  <2>1. D \ {} = D /\ f[D] \in Nat
    BY DEF Sums
  <2> QED BY <1>4, <2>1
<1>6. PICK t \in B : TRUE
  BY <1>5
<1>7. f[D \ (B \ {t})] <= f[D]
  <2>1. <<B \ {t}, B>> \in StrictSubsetOrdering(D)
    BY <1>4, <1>6 DEF StrictSubsetOrdering
  <2> QED BY <1>3, <1>4, <2>1
<1>8. f[D \ (B \ {t})] = h[t] + f[D \ B]
  <2>1. PICK S \in SUBSET D : S = D \ (B \ {t})
    OBVIOUS
  <2>2. S \ {t} = D \ B /\ t \in S
    BY <1>4, <1>6, <2>1
  <2>3. f[S] = h[t] + f[S \ {t}]
    BY <2>2 DEF Sums
  <2> QED BY <2>1, <2>2, <2>3
<1>9. h[t] \in Nat /\ f[D \ B] \in Nat /\ f[D] \in Nat
  BY <1>4, <1>6 DEF Sums
<1> QED BY <1>4, <1>7, <1>8, <1>9

\* The quantities of some members drop to zero.
LEMMA SumClear ==
  ASSUME NEW D, IsFiniteSet(D), NEW h \in [D -> Nat], NEW f, Sums(f, h, D), NEW C \in SUBSET D,
         NEW h2, \A t \in D : h2[t] = IF t \in C THEN 0 ELSE h[t]
  PROVE  \E g : Sums(g, h2, D) /\ g[D] <= f[D]
<1> DEFINE g == [S \in SUBSET D |-> f[S \ C]]
<1>1. g \in [SUBSET D -> Nat] /\ g[{}] = 0
  BY DEF Sums
<1>2. ASSUME NEW S \in SUBSET D, NEW t \in S PROVE g[S] = h2[t] + g[S \ {t}]
  <2>1. g[S] = f[S \ C] /\ g[S \ {t}] = f[(S \ {t}) \ C] /\ f[(S \ {t}) \ C] \in Nat
    BY DEF Sums
  <2>2. CASE t \in C
    <3>1. (S \ {t}) \ C = S \ C /\ h2[t] = 0
      BY <2>2
    <3> HIDE DEF g
    <3> QED BY <2>1, <3>1
  <2>3. CASE t \notin C
    <3>1. (S \ {t}) \ C = (S \ C) \ {t} /\ t \in S \ C
      BY <2>3
    <3>2. f[S \ C] = h[t] + f[(S \ C) \ {t}]
      BY <3>1 DEF Sums
    <3> QED BY <2>1, <2>3, <3>1, <3>2
  <2> QED BY <2>2, <2>3
<1>3. g[D] <= f[D]
  BY SumPart
<1>4. Sums(g, h2, D)
  BY <1>1, <1>2 DEF Sums
<1> QED BY <1>3, <1>4
=============================================================================
