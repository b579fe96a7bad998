----------------------------- MODULE NumberFacts -----------------------------
(***************************************************************************)
(* Numbers, for the proofs of several modules: the least and the greatest  *)
(* element of a set (Min and Max of FiniteSetsExt), the places of a finite *)
(* set's members by a strict order, and the sum of a function over a       *)
(* finite set (SumFunctionOnSet and SumFunction of Functions), which may   *)
(* be taken in any order and in parts.                                     *)
(*                                                                         *)
(* Both rest on the order of the naturals being well founded: induction is *)
(* done on a set of naturals, not on a predicate.                          *)
(***************************************************************************)
EXTENDS Integers, FiniteSetsExt, Functions, FiniteSetTheorems, WellFoundedInduction, TLAPS

(* A set of naturals that is not empty has a least element.                *)
LEMMA Least ==
  ASSUME NEW S \in SUBSET Nat, S # {}
  PROVE  \E m \in S : \A n \in S : m <= n
<1> DEFINE R == OpToRel(<, Nat)
<1>1. PICK m \in S : \A n \in S : ~(<<n, m>> \in R)
  BY NatLessThanWellFounded, WFMin
<1>2. ASSUME NEW n \in S PROVE m <= n
  <2>1. n \in Nat /\ m \in Nat
    OBVIOUS
  <2>2. n < m => <<n, m>> \in R
    BY <2>1 DEF OpToRel
  <2>3. ~(n < m)
    BY <1>1, <2>2
  <2> QED BY <2>1, <2>3
<1> QED
  BY <1>2

LEMMA MinIsLeast ==
  ASSUME NEW S \in SUBSET Nat, S # {}
  PROVE  Min(S) \in S /\ \A n \in S : Min(S) <= n
BY Least DEF Min

LEMMA MaxIsGreatest ==
  ASSUME NEW S \in SUBSET Nat, S # {}, NEW last \in Nat, \A n \in S : n <= last
  PROVE  Max(S) \in S /\ \A n \in S : n <= Max(S)
<1> DEFINE left == {last - n : n \in S}
<1>1. left \in SUBSET Nat /\ left # {}
  <2>1. \A n \in S : last - n \in Nat
    OBVIOUS
  <2> QED BY <2>1
<1>2. PICK m \in left : \A n \in left : m <= n
  BY <1>1, Least
<1>3. PICK x \in S : m = last - x
  BY <1>2
<1>4. ASSUME NEW y \in S PROVE x >= y
  <2>1. last - y \in left /\ x \in Nat /\ y \in Nat
    OBVIOUS
  <2>2. last - x <= last - y
    BY <1>2, <1>3, <2>1
  <2> QED BY <2>1, <2>2
<1>5. Max(S) \in S /\ \A y \in S : Max(S) >= y
  BY <1>4 DEF Max
<1> QED
  BY <1>5

-----------------------------------------------------------------------------
(***************************************************************************)
(* Ranks.  The members of a finite set, by a strict total order.           *)
(***************************************************************************)
StrictOrder(R, S) ==
  /\ \A x \in S : <<x, x>> \notin R
  /\ \A x, y, z \in S : <<x, y>> \in R /\ <<y, z>> \in R => <<x, z>> \in R
  /\ \A x, y \in S : x # y => <<x, y>> \in R \/ <<y, x>> \in R

Below(R, S, x) == {y \in S : <<y, x>> \in R}
RankOf(R, S)   == [x \in S |-> Cardinality(Below(R, S, x)) + 1]

(* They are first, second and so on, each at a place of its own.           *)
LEMMA Ranked ==
  ASSUME NEW S, IsFiniteSet(S), NEW R, StrictOrder(R, S)
  PROVE  /\ RankOf(R, S) \in Bijection(S, 1 .. Cardinality(S))
         /\ \A x, y \in S : <<x, y>> \in R => RankOf(R, S)[x] < RankOf(R, S)[y]
<1> DEFINE n        == Cardinality(S)
           below(x) == Below(R, S, x)
           rank     == RankOf(R, S)
<1>1. n \in Nat /\ IsFiniteSet(1 .. n) /\ Cardinality(1 .. n) = n
  BY FS_CardinalityType, FS_Interval
<1>2. ASSUME NEW x \in S
      PROVE  /\ IsFiniteSet(below(x)) /\ Cardinality(below(x)) \in Nat
             /\ rank[x] = Cardinality(below(x)) + 1 /\ rank[x] \in 1 .. n
  <2>1. below(x) \in SUBSET (S \ {x})
    BY DEF StrictOrder, Below
  <2>2. IsFiniteSet(S \ {x}) /\ Cardinality(S \ {x}) = n - 1
    BY FS_RemoveElement
  <2>3. IsFiniteSet(below(x)) /\ Cardinality(below(x)) <= n - 1
    <3> HIDE DEF below
    <3>1. IsFiniteSet(below(x)) /\ Cardinality(below(x)) <= Cardinality(S \ {x})
      BY <2>1, <2>2, FS_Subset
    <3> QED BY <2>2, <3>1
  <2>4. Cardinality(below(x)) \in Nat
    BY <2>3, FS_CardinalityType
  <2>5. rank[x] = Cardinality(below(x)) + 1
    BY DEF RankOf
  <2> HIDE DEF below, rank, n
  <2> QED BY <1>1, <2>3, <2>4, <2>5
<1>3. ASSUME NEW x \in S, NEW y \in S, <<x, y>> \in R PROVE rank[x] < rank[y]
  <2>1. below(x) \in SUBSET below(y) /\ x \in below(y) /\ x \notin below(x)
    BY <1>3 DEF StrictOrder, Below
  <2>2. IsFiniteSet(below(y)) /\ Cardinality(below(x)) \in Nat /\ Cardinality(below(y)) \in Nat
    BY <1>2
  <2>3. Cardinality(below(x)) < Cardinality(below(y))
    <3>1. below(x) # below(y)
      BY <2>1
    <3> HIDE DEF below
    <3>2. Cardinality(below(x)) <= Cardinality(below(y)) /\ Cardinality(below(y)) # Cardinality(below(x))
      BY <2>1, <2>2, <3>1, FS_Subset
    <3> QED BY <2>2, <3>2
  <2> HIDE DEF below, rank
  <2> QED BY <1>2, <2>2, <2>3
<1>4. rank \in Injection(S, 1 .. n)
  <2>1. rank \in [S -> 1 .. n]
    BY <1>2 DEF RankOf
  <2> HIDE DEF rank, below, n
  <2>2. ASSUME NEW x \in S, NEW y \in S, rank[x] = rank[y] PROVE x = y
    <3>1. rank[x] \in Nat /\ rank[y] \in Nat
      BY <1>1, <1>2
    <3>2. <<x, y>> \notin R /\ <<y, x>> \notin R
      BY <1>3, <2>2, <3>1
    <3> QED BY <3>2 DEF StrictOrder
  <2> QED BY <2>1, <2>2 DEF Injection, IsInjective
<1>5. rank \in Surjection(S, 1 .. n)
  <2> HIDE DEF rank
  <2> QED BY <1>1, <1>4, FS_Injection
<1> QED BY <1>3, <1>4, <1>5 DEF Bijection

(* Fewer than k come before each of the first k.                           *)
LEMMA FirstFew ==
  ASSUME NEW S, IsFiniteSet(S), NEW R, StrictOrder(R, S), NEW k \in Nat
  PROVE  Cardinality({x \in S : Cardinality(Below(R, S, x)) < k}) = IF k < Cardinality(S) THEN k ELSE Cardinality(S)
<1> DEFINE n    == Cardinality(S)
           m    == IF k < n THEN k ELSE n
           few  == {x \in S : Cardinality(Below(R, S, x)) < k}
           rank == RankOf(R, S)
           f    == [x \in few |-> rank[x]]
<1>1. rank \in Bijection(S, 1 .. n)
  BY Ranked
<1>2. n \in Nat /\ m \in Nat
  BY FS_CardinalityType
<1>3. ASSUME NEW x \in S
      PROVE  rank[x] \in 1 .. n /\ (x \in few <=> rank[x] \in 1 .. m)
  <2>1. rank[x] \in 1 .. n
    <3> HIDE DEF rank
    <3> QED BY <1>1 DEF Bijection, Injection
  <2>2. rank[x] = Cardinality(Below(R, S, x)) + 1
    BY DEF RankOf
  <2>3. IsFiniteSet(Below(R, S, x))
    BY FS_Subset DEF Below
  <2>4. Cardinality(Below(R, S, x)) \in Nat
    BY <2>3, FS_CardinalityType
  <2>5. x \in few <=> Cardinality(Below(R, S, x)) < k
    OBVIOUS
  <2> HIDE DEF rank, few, n
  <2> QED BY <1>2, <2>1, <2>2, <2>4, <2>5
<1> HIDE DEF rank
<1>4. f \in Bijection(few, 1 .. m)
  <2>1. f \in [few -> 1 .. m]
    BY <1>3
  <2>2. \A x, y \in few : f[x] = f[y] => x = y
    BY <1>1 DEF Bijection, Injection, IsInjective
  <2>3. ASSUME NEW i \in 1 .. m PROVE \E x \in few : f[x] = i
    <3>1. i \in 1 .. n
      BY <1>2
    <3>2. PICK x \in S : rank[x] = i
      BY <1>1, <3>1 DEF Bijection, Surjection
    <3> QED BY <1>3, <3>2
  <2> HIDE DEF f, few, m
  <2> QED BY <2>1, <2>2, <2>3 DEF Bijection, Injection, Surjection, IsInjective
<1>5. IsFiniteSet(few)
  BY FS_Subset
<1> HIDE DEF f, few, m
<1>6. Cardinality(1 .. m) = m
  <2>1. 1 \in Int /\ m \in Int
    BY <1>2
  <2>2. Cardinality(1 .. m) = IF 1 > m THEN 0 ELSE m - 1 + 1
    BY <2>1, FS_Interval
  <2> QED BY <1>2, <2>2
<1>7. Cardinality(1 .. m) = Cardinality(few)
  BY <1>4, <1>5, FS_Bijection DEF ExistsBijection
<1> QED BY <1>6, <1>7 DEF few, m

(* A finite set of naturals that is not empty has a greatest element.      *)
LEMMA Greatest ==
  ASSUME NEW S \in SUBSET Nat, IsFiniteSet(S), S # {}
  PROVE  \E m \in S : \A n \in S : n <= m
<1> DEFINE R    == {p \in S \X S : p[1] < p[2]}
           n    == Cardinality(S)
           rank == RankOf(R, S)
<1>1. StrictOrder(R, S)
  <2>1. \A x, y \in S : <<x, y>> \in R <=> x < y
    OBVIOUS
  <2> HIDE DEF R
  <2> QED BY <2>1 DEF StrictOrder
<1>2. /\ rank \in Bijection(S, 1 .. n)
      /\ \A x, y \in S : <<x, y>> \in R => rank[x] < rank[y]
  <2> HIDE DEF R
  <2> QED BY <1>1, Ranked
<1>3. n \in Nat /\ n # 0
  BY FS_CardinalityType, FS_EmptySet
<1> HIDE DEF rank
<1>4. PICK m \in S : rank[m] = n
  <2>1. n \in 1 .. n
    BY <1>3
  <2> QED BY <1>2, <2>1 DEF Bijection, Surjection
<1>5. ASSUME NEW x \in S, ~(x <= m) PROVE FALSE
  <2>1. <<m, x>> \in R
    BY <1>5
  <2>2. rank[x] \in 1 .. n
    BY <1>2 DEF Bijection, Injection
  <2>3. n < rank[x]
    BY <1>2, <1>4, <2>1
  <2> QED BY <1>3, <2>2, <2>3
<1> QED BY <1>5

-----------------------------------------------------------------------------
(***************************************************************************)
(* Sums.                                                                   *)
(***************************************************************************)
(* A set of naturals with 0 and every successor is Nat.                    *)
LEMMA Induct ==
  ASSUME NEW S, 0 \in S, \A n \in S \cap Nat : n + 1 \in S
  PROVE  Nat \subseteq S
<1> SUFFICES ASSUME Nat \ S # {} PROVE FALSE
  OBVIOUS
<1>1. PICK m \in Nat \ S : \A n \in Nat \ S : m <= n
  <2>1. Nat \ S \in SUBSET Nat
    OBVIOUS
  <2> QED BY <2>1, Least
<1>2. m - 1 \in Nat /\ m - 1 < m /\ m - 1 + 1 = m
  OBVIOUS
<1>3. m - 1 \in S
  BY <1>1, <1>2
<1> QED BY <1>2, <1>3

(* The member of a set that a sum takes next.                              *)
AnyOf(s) == CHOOSE x \in s : TRUE

Integral(w, S) == \A x \in S : w[x] \in Int

Recurs(g, w, S) ==
  g = [s \in SUBSET S |-> IF s = {} THEN 0 ELSE w[AnyOf(s)] + g[s \ {AnyOf(s)}]]

LEMMA FewerLeft ==
  ASSUME NEW s, IsFiniteSet(s), NEW x \in s
  PROVE  IsFiniteSet(s \ {x}) /\ Cardinality(s) \in Nat \ {0} /\ Cardinality(s \ {x}) = Cardinality(s) - 1
BY FS_RemoveElement, FS_EmptySet, FS_CardinalityType

(* The sum of w over the sets of up to n members can be written down.      *)
Partial(g, w, S, n) ==
  \A s \in SUBSET S : Cardinality(s) <= n =>
    g[s] \in Int /\ g[s] = IF s = {} THEN 0 ELSE w[AnyOf(s)] + g[s \ {AnyOf(s)}]

LEMMA PartialExists ==
  ASSUME NEW S, IsFiniteSet(S), NEW w, Integral(w, S), NEW n \in Nat
  PROVE  \E g : Partial(g, w, S, n)
<1> DEFINE T == {m \in Nat : \E g : Partial(g, w, S, m)}
<1>0. ASSUME NEW s \in SUBSET S
      PROVE  /\ IsFiniteSet(s) /\ Cardinality(s) \in Nat
             /\ Cardinality(s) = 0 <=> s = {}
             /\ s # {} => AnyOf(s) \in s /\ w[AnyOf(s)] \in Int
  BY FS_Subset, FS_EmptySet, FS_CardinalityType DEF AnyOf, Integral
<1>1. 0 \in T
  <2>1. Partial([s \in SUBSET S |-> 0], w, S, 0)
    BY <1>0 DEF Partial
  <2> QED BY <2>1
<1>2. ASSUME NEW m \in T PROVE m + 1 \in T
  <2>1. PICK g : Partial(g, w, S, m)
    OBVIOUS
  <2> DEFINE h == [s \in SUBSET S |-> IF Cardinality(s) <= m THEN g[s] ELSE w[AnyOf(s)] + g[s \ {AnyOf(s)}]]
  <2>2. ASSUME NEW s \in SUBSET S, Cardinality(s) <= m + 1
        PROVE  h[s] \in Int /\ h[s] = IF s = {} THEN 0 ELSE w[AnyOf(s)] + h[s \ {AnyOf(s)}]
    <3>1. CASE s = {}
      <4>1. Cardinality(s) <= m
        BY <1>0, <3>1
      <4> QED BY <2>1, <3>1, <4>1 DEF Partial
    <3>2. CASE s # {}
      <4> DEFINE r == s \ {AnyOf(s)}
      <4>1. r \in SUBSET S /\ Cardinality(r) = Cardinality(s) - 1 /\ Cardinality(s) \in Nat
        BY <1>0, <2>2, <3>2, FewerLeft
      <4>0. Cardinality(r) <= m
        BY <2>2, <4>1
      <4>2. h[r] = g[r] /\ g[r] \in Int
        BY <2>1, <4>0, <4>1 DEF Partial
      <4>3. h[s] = w[AnyOf(s)] + g[r]
        BY <2>1, <2>2, <3>2 DEF Partial
      <4> QED BY <1>0, <3>2, <4>2, <4>3
    <3> QED BY <3>1, <3>2
  <2>3. Partial(h, w, S, m + 1)
    BY <2>2 DEF Partial
  <2> QED BY <2>3
<1>3. Nat \subseteq T
  <2> HIDE DEF T
  <2>1. \A m \in T \cap Nat : m + 1 \in T
    BY <1>2
  <2> QED BY <1>1, <2>1, Induct
<1> QED BY <1>3

LEMMA RecursExists ==
  ASSUME NEW S, IsFiniteSet(S), NEW w, Integral(w, S)
  PROVE  \E g : Recurs(g, w, S)
<1>1. Cardinality(S) \in Nat
  BY FS_CardinalityType
<1>2. PICK g : Partial(g, w, S, Cardinality(S))
  BY <1>1, PartialExists
<1> DEFINE h == [s \in SUBSET S |-> g[s]]
<1>3. ASSUME NEW s \in SUBSET S
      PROVE  h[s] = IF s = {} THEN 0 ELSE w[AnyOf(s)] + h[s \ {AnyOf(s)}]
  <2>1. Cardinality(s) <= Cardinality(S)
    BY FS_Subset
  <2>2. s \ {AnyOf(s)} \in SUBSET S
    OBVIOUS
  <2> QED BY <1>2, <2>1, <2>2 DEF Partial
<1>4. Recurs(h, w, S)
  BY <1>3 DEF Recurs
<1> QED BY <1>4

LEMMA SumIsRecursive ==
  ASSUME NEW S, IsFiniteSet(S), NEW w, Integral(w, S)
  PROVE  \E g : Recurs(g, w, S) /\ SumFunctionOnSet(w, S) = g[S]
<1> DEFINE h == CHOOSE h : Recurs(h, w, S)
<1>1. Recurs(h, w, S)
  BY RecursExists
<1>2. SumFunctionOnSet(w, S) = h[S]
  BY DEF SumFunctionOnSet, FoldFunctionOnSet, MapThenFoldSet, Recurs, AnyOf
<1> QED BY <1>1, <1>2

(* Any member may be taken first.                                          *)
LEMMA AnyFirst ==
  ASSUME NEW S, IsFiniteSet(S), NEW w, Integral(w, S), NEW g, Recurs(g, w, S), NEW s \in SUBSET S
  PROVE  g[s] \in Int /\ \A x \in s : g[s] = w[x] + g[s \ {x}]
<1> DEFINE Good(t) == g[t] \in Int /\ \A x \in t : g[t] = w[x] + g[t \ {x}]
           T == {n \in Nat : \A t \in SUBSET S : Cardinality(t) <= n => Good(t)}
<1>0. ASSUME NEW t \in SUBSET S
      PROVE  /\ IsFiniteSet(t) /\ Cardinality(t) \in Nat
             /\ Cardinality(t) = 0 <=> t = {}
             /\ t # {} => AnyOf(t) \in t /\ w[AnyOf(t)] \in Int
             /\ g[t] = IF t = {} THEN 0 ELSE w[AnyOf(t)] + g[t \ {AnyOf(t)}]
  <2>1. /\ IsFiniteSet(t) /\ Cardinality(t) \in Nat
        /\ Cardinality(t) = 0 <=> t = {}
    BY FS_Subset, FS_EmptySet, FS_CardinalityType
  <2>2. t # {} => AnyOf(t) \in t /\ w[AnyOf(t)] \in Int
    BY DEF AnyOf, Integral
  <2>3. g[t] = IF t = {} THEN 0 ELSE w[AnyOf(t)] + g[t \ {AnyOf(t)}]
    BY DEF Recurs
  <2> QED BY <2>1, <2>2, <2>3
<1>9. ASSUME NEW t \in SUBSET S, t = {} PROVE Good(t)
  <2>1. g[t] = 0
    BY <1>0, <1>9
  <2> QED BY <2>1, <1>9
<1>1. 0 \in T
  <2>1. ASSUME NEW t \in SUBSET S, Cardinality(t) <= 0
        PROVE  Good(t)
    <3>1. Cardinality(t) \in Nat /\ (Cardinality(t) = 0 <=> t = {})
      BY <1>0
    <3>2. t = {}
      BY <2>1, <3>1
    <3> QED BY <3>2, <1>9
  <2> QED BY <2>1
<1>2. ASSUME NEW n \in T PROVE n + 1 \in T
  <2>1. ASSUME NEW t \in SUBSET S, Cardinality(t) <= n + 1, t # {}
        PROVE  Good(t)
    <3>1. AnyOf(t) \in t /\ w[AnyOf(t)] \in Int /\ IsFiniteSet(t)
      BY <1>0, <2>1
    <3>2. ASSUME NEW x \in t
          PROVE  t \ {x} \in SUBSET S /\ Cardinality(t \ {x}) <= n
      <4>1. Cardinality(t \ {x}) = Cardinality(t) - 1
        BY <3>1, FewerLeft
      <4>2. Cardinality(t) \in Nat /\ n \in Nat
        BY <1>0
      <4> QED BY <2>1, <4>1, <4>2
    <3>3. ASSUME NEW x \in t PROVE Good(t \ {x})
      BY <3>2
    <3>4. g[t] = w[AnyOf(t)] + g[t \ {AnyOf(t)}]
      BY <1>0, <3>1
    <3>5. ASSUME NEW x \in t, x # AnyOf(t)
          PROVE  g[t] = w[x] + g[t \ {x}]
      <4> DEFINE y == AnyOf(t)
                 r == (t \ {x}) \ {y}
      <4>1. g[t \ {y}] = w[x] + g[r]
        <5>1. x \in t \ {y} /\ r = (t \ {y}) \ {x}
          BY <3>5
        <5> QED BY <3>1, <3>3, <5>1
      <4>2. g[t \ {x}] = w[y] + g[r]
        <5>1. y \in t \ {x}
          BY <3>1, <3>5
        <5> QED BY <3>3, <5>1
      <4>3. w[x] \in Int /\ w[y] \in Int
        BY <3>1 DEF Integral
      <4>4. g[r] \in Int
        <5>1. r \in SUBSET S /\ y \in t \ {x}
          BY <3>1, <3>5
        <5>2. Cardinality(t \ {x}) \in Nat /\ IsFiniteSet(t \ {x}) /\ n \in Nat
          BY <1>0, <3>2
        <5>3. Cardinality(r) = Cardinality(t \ {x}) - 1
          BY <5>1, <5>2, FewerLeft
        <5>4. Cardinality(r) <= n
          BY <3>2, <5>2, <5>3
        <5> QED BY <5>1, <5>4
      <4> QED BY <3>4, <4>1, <4>2, <4>3, <4>4
    <3>6. g[t] \in Int
      BY <3>1, <3>3, <3>4
    <3> QED BY <3>4, <3>5, <3>6
  <2>2. ASSUME NEW t \in SUBSET S, t = {}
        PROVE  Good(t)
    BY <1>9, <2>2
  <2>3. n + 1 \in Nat
    OBVIOUS
  <2> QED BY <2>1, <2>2, <2>3
<1>3. Nat \subseteq T
  <2> HIDE DEF T
  <2>1. \A m \in T \cap Nat : m + 1 \in T
    BY <1>2
  <2> QED BY <1>1, <2>1, Induct
<1>4. Good(s)
  <2>1. Cardinality(s) \in Nat
    BY <1>0
  <2>2. Cardinality(s) \in T
    BY <1>3, <2>1
  <2>3. Cardinality(s) <= Cardinality(s)
    BY <2>1
  <2> QED BY <2>2, <2>3
<1> QED BY <1>4

(* A sum depends on the values at the members only.                        *)
LEMMA SameFold ==
  ASSUME NEW S, IsFiniteSet(S), NEW w, Integral(w, S), NEW T \in SUBSET S,
         NEW v, \A x \in T : v[x] = w[x], NEW g, Recurs(g, w, S), NEW h, Recurs(h, v, T)
  PROVE  g[T] = h[T]
<1> DEFINE N == {n \in Nat : \A t \in SUBSET T : Cardinality(t) <= n => g[t] = h[t]}
<1>0. ASSUME NEW t \in SUBSET T
      PROVE  /\ IsFiniteSet(t) /\ Cardinality(t) \in Nat
             /\ t = {} => g[t] = h[t]
             /\ Cardinality(t) = 0 => t = {}
             /\ t # {} => /\ AnyOf(t) \in t /\ v[AnyOf(t)] = w[AnyOf(t)]
                          /\ g[t] = w[AnyOf(t)] + g[t \ {AnyOf(t)}]
                          /\ h[t] = v[AnyOf(t)] + h[t \ {AnyOf(t)}]
  <2>1. /\ IsFiniteSet(t) /\ Cardinality(t) \in Nat
        /\ Cardinality(t) = 0 => t = {}
    BY FS_Subset, FS_EmptySet, FS_CardinalityType
  <2>2. t # {} => AnyOf(t) \in t /\ v[AnyOf(t)] = w[AnyOf(t)]
    BY DEF AnyOf
  <2>3. g[t] = IF t = {} THEN 0 ELSE w[AnyOf(t)] + g[t \ {AnyOf(t)}]
    BY DEF Recurs
  <2>4. h[t] = IF t = {} THEN 0 ELSE v[AnyOf(t)] + h[t \ {AnyOf(t)}]
    BY DEF Recurs
  <2> QED BY <2>1, <2>2, <2>3, <2>4
<1>1. 0 \in N
  <2>1. ASSUME NEW t \in SUBSET T, Cardinality(t) <= 0
        PROVE  g[t] = h[t]
    <3>1. Cardinality(t) \in Nat
      BY <1>0
    <3>2. Cardinality(t) = 0
      BY <2>1, <3>1
    <3> QED BY <1>0, <3>2
  <2> QED BY <2>1
<1>2. ASSUME NEW n \in N PROVE n + 1 \in N
  <2>1. ASSUME NEW t \in SUBSET T, Cardinality(t) <= n + 1, t # {}
        PROVE  g[t] = h[t]
    <3>1. /\ t \ {AnyOf(t)} \in SUBSET T /\ Cardinality(t) \in Nat /\ n \in Nat
          /\ Cardinality(t \ {AnyOf(t)}) = Cardinality(t) - 1
      BY <1>0, <2>1, FewerLeft
    <3>2. Cardinality(t \ {AnyOf(t)}) <= n
      BY <2>1, <3>1
    <3>3. g[t \ {AnyOf(t)}] = h[t \ {AnyOf(t)}]
      BY <3>1, <3>2
    <3> QED BY <1>0, <2>1, <3>3
  <2>2. n + 1 \in Nat
    OBVIOUS
  <2>3. \A t \in SUBSET T : t = {} => g[t] = h[t]
    BY <1>0
  <2> QED BY <2>1, <2>2, <2>3
<1>3. Nat \subseteq N
  <2> HIDE DEF N
  <2>1. \A m \in N \cap Nat : m + 1 \in N
    BY <1>2
  <2> QED BY <1>1, <2>1, Induct
<1>4. T \in SUBSET T /\ Cardinality(T) \in Nat
  BY <1>0
<1>5. Cardinality(T) \in N /\ Cardinality(T) <= Cardinality(T)
  BY <1>3, <1>4
<1> QED BY <1>4, <1>5

LEMMA SumAgrees ==
  ASSUME NEW S, IsFiniteSet(S), NEW w, Integral(w, S), NEW v, \A x \in S : v[x] = w[x]
  PROVE  SumFunctionOnSet(v, S) = SumFunctionOnSet(w, S)
<1>1. PICK g : Recurs(g, w, S) /\ SumFunctionOnSet(w, S) = g[S]
  BY SumIsRecursive
<1>2. Integral(v, S)
  BY DEF Integral
<1>3. PICK h : Recurs(h, v, S) /\ SumFunctionOnSet(v, S) = h[S]
  BY <1>2, SumIsRecursive
<1>4. g[S] = h[S]
  BY <1>1, <1>3, SameFold
<1> QED BY <1>1, <1>3, <1>4

LEMMA SumIsInteger ==
  ASSUME NEW S, IsFiniteSet(S), NEW w, Integral(w, S)
  PROVE  SumFunctionOnSet(w, S) \in Int
<1>1. PICK g : Recurs(g, w, S) /\ SumFunctionOnSet(w, S) = g[S]
  BY SumIsRecursive
<1>2. g[S] \in Int
  BY <1>1, AnyFirst
<1> QED BY <1>1, <1>2

LEMMA SumOfNone == \A w : SumFunctionOnSet(w, {}) = 0
<1> SUFFICES ASSUME NEW w PROVE SumFunctionOnSet(w, {}) = 0
  OBVIOUS
<1>1. IsFiniteSet({}) /\ Integral(w, {})
  BY FS_EmptySet DEF Integral
<1>2. PICK g : Recurs(g, w, {}) /\ SumFunctionOnSet(w, {}) = g[{}]
  BY <1>1, SumIsRecursive
<1> QED BY <1>2 DEF Recurs

(* One member set apart.                                                   *)
LEMMA SumWithout ==
  ASSUME NEW S, IsFiniteSet(S), NEW w, Integral(w, S), NEW x \in S
  PROVE  SumFunctionOnSet(w, S) = w[x] + SumFunctionOnSet(w, S \ {x})
<1>1. PICK g : Recurs(g, w, S) /\ SumFunctionOnSet(w, S) = g[S]
  BY SumIsRecursive
<1>2. IsFiniteSet(S \ {x}) /\ Integral(w, S \ {x}) /\ S \ {x} \in SUBSET S
  BY FewerLeft DEF Integral
<1>3. PICK h : Recurs(h, w, S \ {x}) /\ SumFunctionOnSet(w, S \ {x}) = h[S \ {x}]
  BY <1>2, SumIsRecursive
<1>4. g[S \ {x}] = h[S \ {x}]
  BY <1>1, <1>2, <1>3, SameFold
<1>5. g[S] = w[x] + g[S \ {x}]
  BY <1>1, AnyFirst
<1> QED BY <1>1, <1>3, <1>4, <1>5

(* A part set apart.                                                       *)
LEMMA SumInParts ==
  ASSUME NEW S, IsFiniteSet(S), NEW w, Integral(w, S), NEW A \in SUBSET S
  PROVE  SumFunctionOnSet(w, S) = SumFunctionOnSet(w, A) + SumFunctionOnSet(w, S \ A)
<1> DEFINE Parts(t) == SumFunctionOnSet(w, S) = SumFunctionOnSet(w, t) + SumFunctionOnSet(w, S \ t)
           N == {n \in Nat : \A t \in SUBSET S : Cardinality(t) <= n => Parts(t)}
<1>0. ASSUME NEW t \in SUBSET S
      PROVE  /\ IsFiniteSet(t) /\ Cardinality(t) \in Nat /\ Integral(w, t)
             /\ Cardinality(t) = 0 => t = {}
             /\ SumFunctionOnSet(w, t) \in Int
  <2>1. /\ IsFiniteSet(t) /\ Cardinality(t) \in Nat /\ Integral(w, t)
        /\ Cardinality(t) = 0 => t = {}
    BY FS_Subset, FS_EmptySet, FS_CardinalityType DEF Integral
  <2> QED BY <2>1, SumIsInteger
<1>9. Parts({})
  <2>1. SumFunctionOnSet(w, S) \in Int /\ S \ {} = S
    BY <1>0
  <2> QED BY <2>1, SumOfNone
<1>1. 0 \in N
  <2>1. ASSUME NEW t \in SUBSET S, Cardinality(t) <= 0
        PROVE  Parts(t)
    <3>1. Cardinality(t) = 0
      BY <1>0, <2>1
    <3>2. t = {}
      BY <1>0, <3>1
    <3> QED BY <1>9, <3>2
  <2> QED BY <2>1
<1>2. ASSUME NEW n \in N PROVE n + 1 \in N
  <2>1. ASSUME NEW t \in SUBSET S, Cardinality(t) <= n + 1, NEW x \in t
        PROVE  Parts(t)
    <3> DEFINE r == t \ {x}
    <3>1. r \in SUBSET S /\ Cardinality(r) = Cardinality(t) - 1 /\ Cardinality(t) \in Nat /\ IsFiniteSet(t)
      BY <1>0, FewerLeft
    <3>2. Cardinality(r) <= n
      BY <2>1, <3>1
    <3>3. Parts(r)
      BY <3>1, <3>2
    <3>4. SumFunctionOnSet(w, t) = w[x] + SumFunctionOnSet(w, r)
      BY <1>0, SumWithout
    <3>5. SumFunctionOnSet(w, S \ r) = w[x] + SumFunctionOnSet(w, S \ t)
      <4>1. S \ r \in SUBSET S /\ x \in S \ r /\ (S \ r) \ {x} = S \ t
        BY <2>1
      <4>2. IsFiniteSet(S \ r) /\ Integral(w, S \ r)
        BY <1>0, <4>1
      <4>3. SumFunctionOnSet(w, S \ r) = w[x] + SumFunctionOnSet(w, (S \ r) \ {x})
        BY <4>1, <4>2, SumWithout
      <4> QED BY <4>1, <4>3
    <3>6. S \ t \in SUBSET S /\ w[x] \in Int
      BY DEF Integral
    <3>7. SumFunctionOnSet(w, r) \in Int /\ SumFunctionOnSet(w, S \ t) \in Int
      BY <1>0, <3>1, <3>6
    <3> QED BY <3>3, <3>4, <3>5, <3>6, <3>7
  <2>2. ASSUME NEW t \in SUBSET S, Cardinality(t) <= n + 1
        PROVE  Parts(t)
    BY <1>9, <2>1, <2>2
  <2>3. n + 1 \in Nat
    OBVIOUS
  <2> QED BY <2>2, <2>3
<1>3. Nat \subseteq N
  <2> HIDE DEF N
  <2>1. \A m \in N \cap Nat : m + 1 \in N
    BY <1>2
  <2> QED BY <1>1, <2>1, Induct
<1>4. Cardinality(A) \in N /\ Cardinality(A) <= Cardinality(A)
  BY <1>0, <1>3
<1> QED BY <1>4

(* Counts add up to a count.                                               *)
LEMMA SumIsNatural ==
  ASSUME NEW S, IsFiniteSet(S), NEW w, \A x \in S : w[x] \in Nat
  PROVE  SumFunctionOnSet(w, S) \in Nat
<1> DEFINE N == {n \in Nat : \A t \in SUBSET S : Cardinality(t) <= n => SumFunctionOnSet(w, t) \in Nat}
<1>0. ASSUME NEW t \in SUBSET S
      PROVE  IsFiniteSet(t) /\ Cardinality(t) \in Nat /\ Integral(w, t) /\ (Cardinality(t) = 0 => t = {})
  BY FS_Subset, FS_EmptySet, FS_CardinalityType DEF Integral
<1>1. 0 \in N
  <2>1. ASSUME NEW t \in SUBSET S, Cardinality(t) <= 0
        PROVE  SumFunctionOnSet(w, t) \in Nat
    <3>1. Cardinality(t) = 0
      BY <1>0, <2>1
    <3>2. t = {}
      BY <1>0, <3>1
    <3>3. SumFunctionOnSet(w, {}) = 0
      BY SumOfNone
    <3> QED BY <3>2, <3>3
  <2> QED BY <2>1
<1>2. ASSUME NEW n \in N PROVE n + 1 \in N
  <2>1. ASSUME NEW t \in SUBSET S, Cardinality(t) <= n + 1, NEW x \in t
        PROVE  SumFunctionOnSet(w, t) \in Nat
    <3>1. t \ {x} \in SUBSET S /\ Cardinality(t \ {x}) = Cardinality(t) - 1 /\ Cardinality(t) \in Nat
      BY <1>0, FewerLeft
    <3>2. SumFunctionOnSet(w, t \ {x}) \in Nat
      BY <2>1, <3>1
    <3>3. SumFunctionOnSet(w, t) = w[x] + SumFunctionOnSet(w, t \ {x})
      BY <1>0, SumWithout
    <3>4. w[x] \in Nat
      OBVIOUS
    <3> QED BY <3>2, <3>3, <3>4
  <2>2. \A w1 : SumFunctionOnSet(w1, {}) = 0
    BY SumOfNone
  <2>3. ASSUME NEW t \in SUBSET S, Cardinality(t) <= n + 1, t = {}
        PROVE  SumFunctionOnSet(w, t) \in Nat
    BY <2>2, <2>3
  <2>4. n + 1 \in Nat
    OBVIOUS
  <2> QED BY <2>1, <2>3, <2>4
<1>3. Nat \subseteq N
  <2> HIDE DEF N
  <2>1. \A m \in N \cap Nat : m + 1 \in N
    BY <1>2
  <2> QED BY <1>1, <2>1, Induct
<1>4. S \in SUBSET S /\ Cardinality(S) \in N /\ Cardinality(S) <= Cardinality(S)
  BY <1>0, <1>3
<1> QED BY <1>4

(* Nothing added up is nothing.                                            *)
LEMMA SumOfZeros ==
  ASSUME NEW S, IsFiniteSet(S), NEW w, \A x \in S : w[x] = 0
  PROVE  SumFunctionOnSet(w, S) = 0
<1> DEFINE N == {n \in Nat : \A t \in SUBSET S : Cardinality(t) <= n => SumFunctionOnSet(w, t) = 0}
<1>0. ASSUME NEW t \in SUBSET S
      PROVE  IsFiniteSet(t) /\ Cardinality(t) \in Nat /\ Integral(w, t) /\ (Cardinality(t) = 0 => t = {})
  BY FS_Subset, FS_EmptySet, FS_CardinalityType DEF Integral
<1>1. 0 \in N
  <2>1. ASSUME NEW t \in SUBSET S, Cardinality(t) <= 0
        PROVE  SumFunctionOnSet(w, t) = 0
    <3>1. Cardinality(t) = 0
      BY <1>0, <2>1
    <3>2. t = {}
      BY <1>0, <3>1
    <3> QED BY <3>2, SumOfNone
  <2> QED BY <2>1
<1>2. ASSUME NEW n \in N PROVE n + 1 \in N
  <2>1. ASSUME NEW t \in SUBSET S, Cardinality(t) <= n + 1, NEW x \in t
        PROVE  SumFunctionOnSet(w, t) = 0
    <3>1. t \ {x} \in SUBSET S /\ Cardinality(t \ {x}) = Cardinality(t) - 1 /\ Cardinality(t) \in Nat
      BY <1>0, FewerLeft
    <3>2. SumFunctionOnSet(w, t \ {x}) = 0
      BY <2>1, <3>1
    <3>3. SumFunctionOnSet(w, t) = w[x] + SumFunctionOnSet(w, t \ {x})
      BY <1>0, SumWithout
    <3>4. w[x] = 0
      OBVIOUS
    <3> QED BY <3>2, <3>3, <3>4
  <2>2. ASSUME NEW t \in SUBSET S, t = {}
        PROVE  SumFunctionOnSet(w, t) = 0
    BY <2>2, SumOfNone
  <2>3. n + 1 \in Nat
    OBVIOUS
  <2> QED BY <2>1, <2>2, <2>3
<1>3. Nat \subseteq N
  <2> HIDE DEF N
  <2>1. \A m \in N \cap Nat : m + 1 \in N
    BY <1>2
  <2> QED BY <1>1, <2>1, Induct
<1>4. S \in SUBSET S /\ Cardinality(S) \in N /\ Cardinality(S) <= Cardinality(S)
  BY <1>0, <1>3
<1> QED BY <1>4

(* Two sums over one set are added term by term.                           *)
LEMMA SumPlus ==
  ASSUME NEW S, IsFiniteSet(S), NEW u, Integral(u, S), NEW v, Integral(v, S),
         NEW w, \A x \in S : w[x] = u[x] + v[x]
  PROVE  SumFunctionOnSet(w, S) = SumFunctionOnSet(u, S) + SumFunctionOnSet(v, S)
<1> DEFINE Adds(t) == SumFunctionOnSet(w, t) = SumFunctionOnSet(u, t) + SumFunctionOnSet(v, t)
           N == {n \in Nat : \A t \in SUBSET S : Cardinality(t) <= n => Adds(t)}
<1>0. ASSUME NEW t \in SUBSET S
      PROVE  /\ IsFiniteSet(t) /\ Cardinality(t) \in Nat /\ (Cardinality(t) = 0 => t = {})
             /\ Integral(u, t) /\ Integral(v, t) /\ Integral(w, t)
  BY FS_Subset, FS_EmptySet, FS_CardinalityType DEF Integral
<1>9. Adds({})
  BY SumOfNone
<1>1. 0 \in N
  <2>1. ASSUME NEW t \in SUBSET S, Cardinality(t) <= 0
        PROVE  Adds(t)
    <3>1. Cardinality(t) = 0
      BY <1>0, <2>1
    <3>2. t = {}
      BY <1>0, <3>1
    <3> QED BY <1>9, <3>2
  <2> QED BY <2>1
<1>2. ASSUME NEW n \in N PROVE n + 1 \in N
  <2>1. ASSUME NEW t \in SUBSET S, Cardinality(t) <= n + 1, NEW x \in t
        PROVE  Adds(t)
    <3> DEFINE r == t \ {x}
    <3>1. r \in SUBSET S /\ Cardinality(r) = Cardinality(t) - 1 /\ Cardinality(t) \in Nat
      BY <1>0, FewerLeft
    <3>2. Adds(r)
      BY <2>1, <3>1
    <3>3. SumFunctionOnSet(w, t) = w[x] + SumFunctionOnSet(w, r)
      BY <1>0, SumWithout
    <3>4. SumFunctionOnSet(u, t) = u[x] + SumFunctionOnSet(u, r)
      BY <1>0, SumWithout
    <3>5. SumFunctionOnSet(v, t) = v[x] + SumFunctionOnSet(v, r)
      BY <1>0, SumWithout
    <3>6. SumFunctionOnSet(u, r) \in Int /\ SumFunctionOnSet(v, r) \in Int
      BY <1>0, <3>1, SumIsInteger
    <3>7. u[x] \in Int /\ v[x] \in Int /\ w[x] = u[x] + v[x]
      BY DEF Integral
    <3> HIDE DEF r
    <3> QED BY <3>2, <3>3, <3>4, <3>5, <3>6, <3>7
  <2>2. ASSUME NEW t \in SUBSET S, t = {}
        PROVE  Adds(t)
    BY <1>9, <2>2
  <2>3. n + 1 \in Nat
    OBVIOUS
  <2> HIDE DEF Adds
  <2> QED BY <2>1, <2>2, <2>3
<1>3. Nat \subseteq N
  <2> HIDE DEF N
  <2>1. \A m \in N \cap Nat : m + 1 \in N
    BY <1>2
  <2> QED BY <1>1, <2>1, Induct
<1>4. S \in SUBSET S /\ Cardinality(S) \in N /\ Cardinality(S) <= Cardinality(S)
  BY <1>0, <1>3
<1> QED BY <1>4

(* Induction on a finite set, on a set of its subsets.                     *)
LEMMA InductOnSubsets ==
  ASSUME NEW S, IsFiniteSet(S), NEW F, {} \in F,
         \A t \in SUBSET S : \A x \in t : t \ {x} \in F => t \in F
  PROVE  S \in F
<1> DEFINE N == {n \in Nat : \A t \in SUBSET S : Cardinality(t) <= n => t \in F}
<1>0. ASSUME NEW t \in SUBSET S
      PROVE  Cardinality(t) \in Nat /\ IsFiniteSet(t) /\ (Cardinality(t) = 0 => t = {})
  BY FS_Subset, FS_EmptySet, FS_CardinalityType
<1>1. 0 \in N
  <2>1. ASSUME NEW t \in SUBSET S, Cardinality(t) <= 0
        PROVE  t \in F
    <3>1. t = {}
      BY <1>0, <2>1
    <3> QED BY <3>1
  <2> QED BY <2>1
<1>2. ASSUME NEW n \in N PROVE n + 1 \in N
  <2>1. ASSUME NEW t \in SUBSET S, Cardinality(t) <= n + 1
        PROVE  t \in F
    <3>1. ASSUME NEW x \in t PROVE t \in F
      <4>1. t \ {x} \in SUBSET S /\ Cardinality(t \ {x}) = Cardinality(t) - 1 /\ Cardinality(t) \in Nat
        BY <1>0, FewerLeft
      <4>2. t \ {x} \in F
        BY <2>1, <4>1
      <4> QED BY <4>2
    <3> QED BY <3>1
  <2> QED BY <2>1
<1>3. Nat \subseteq N
  <2> HIDE DEF N
  <2>1. \A m \in N \cap Nat : m + 1 \in N
    BY <1>2
  <2> QED BY <1>1, <2>1, Induct
<1>4. S \in SUBSET S /\ Cardinality(S) \in N /\ Cardinality(S) <= Cardinality(S)
  BY <1>0, <1>3
<1> QED BY <1>4

(* A common factor.                                                        *)
LEMMA SumScaled ==
  ASSUME NEW S, IsFiniteSet(S), NEW w, Integral(w, S), NEW c \in Int,
         NEW v, \A x \in S : v[x] = c * w[x]
  PROVE  SumFunctionOnSet(v, S) = c * SumFunctionOnSet(w, S)
<1> DEFINE F == {t \in SUBSET S : SumFunctionOnSet(v, t) = c * SumFunctionOnSet(w, t)}
<1>1. {} \in F
  <2>1. c * 0 = 0
    OBVIOUS
  <2> QED BY <2>1, SumOfNone
<1>2. ASSUME NEW t \in SUBSET S, NEW x \in t, t \ {x} \in F
      PROVE  t \in F
  <2> DEFINE r == t \ {x}
  <2>1. IsFiniteSet(t) /\ IsFiniteSet(r) /\ Integral(w, t) /\ Integral(w, r) /\ Integral(v, t)
    BY FS_Subset DEF Integral
  <2>2. SumFunctionOnSet(w, t) = w[x] + SumFunctionOnSet(w, r)
    BY <2>1, SumWithout
  <2>3. SumFunctionOnSet(v, t) = v[x] + SumFunctionOnSet(v, r)
    BY <2>1, SumWithout
  <2>4. SumFunctionOnSet(w, r) \in Int
    BY <2>1, SumIsInteger
  <2>5. SumFunctionOnSet(v, r) = c * SumFunctionOnSet(w, r)
    BY <1>2
  <2>6. w[x] \in Int /\ v[x] = c * w[x]
    BY DEF Integral
  <2> HIDE DEF r
  <2>7. c * (w[x] + SumFunctionOnSet(w, r)) = c * w[x] + c * SumFunctionOnSet(w, r)
    BY <2>4, <2>6
  <2> QED BY <2>2, <2>3, <2>5, <2>6, <2>7
<1>3. S \in F
  <2> HIDE DEF F
  <2> QED BY <1>1, <1>2, InductOnSubsets
<1> QED BY <1>3

(* One for each member.                                                    *)
LEMMA SumOfOnes ==
  ASSUME NEW S, IsFiniteSet(S), NEW w, \A x \in S : w[x] = 1
  PROVE  SumFunctionOnSet(w, S) = Cardinality(S)
<1> DEFINE F == {t \in SUBSET S : SumFunctionOnSet(w, t) = Cardinality(t)}
<1>1. {} \in F
  BY SumOfNone, FS_EmptySet
<1>2. ASSUME NEW t \in SUBSET S, NEW x \in t, t \ {x} \in F
      PROVE  t \in F
  <2>1. IsFiniteSet(t) /\ Integral(w, t)
    BY FS_Subset DEF Integral
  <2>2. SumFunctionOnSet(w, t) = 1 + SumFunctionOnSet(w, t \ {x})
    BY <2>1, SumWithout
  <2>3. Cardinality(t) \in Nat /\ Cardinality(t \ {x}) = Cardinality(t) - 1
    BY <2>1, FewerLeft
  <2>4. SumFunctionOnSet(w, t \ {x}) = Cardinality(t \ {x})
    BY <1>2
  <2> QED BY <2>2, <2>3, <2>4
<1>3. S \in F
  <2> HIDE DEF F
  <2> QED BY <1>1, <1>2, InductOnSubsets
<1> QED BY <1>3

(* A sum may be taken slab by slab: k says in which slab a member is.      *)
LEMMA SumBySlab ==
  ASSUME NEW S, IsFiniteSet(S), NEW w, Integral(w, S), NEW R, IsFiniteSet(R),
         NEW k, \A x \in S : k[x] \in R,
         NEW v, \A r \in R : v[r] = SumFunctionOnSet(w, {x \in S : k[x] = r})
  PROVE  SumFunctionOnSet(v, R) = SumFunctionOnSet(w, S)
<1> DEFINE In(t) == {x \in S : k[x] \in t}
           F == {t \in SUBSET R : SumFunctionOnSet(v, t) = SumFunctionOnSet(w, In(t))}
<1>0. ASSUME NEW t \in SUBSET R
      PROVE  IsFiniteSet(In(t)) /\ Integral(w, In(t)) /\ In(t) \in SUBSET S
  BY FS_Subset DEF Integral
<1>9. Integral(v, R)
  <2>1. ASSUME NEW r \in R PROVE v[r] \in Int
    <3>1. {x \in S : k[x] = r} = In({r}) /\ {r} \in SUBSET R
      OBVIOUS
    <3>2. SumFunctionOnSet(w, In({r})) \in Int
      BY <1>0, <3>1, SumIsInteger
    <3> QED BY <3>1, <3>2
  <2> QED BY <2>1 DEF Integral
<1>1. {} \in F
  <2>1. In({}) = {}
    OBVIOUS
  <2> QED BY <2>1, SumOfNone
<1>2. ASSUME NEW t \in SUBSET R, NEW r \in t, t \ {r} \in F
      PROVE  t \in F
  <2> DEFINE u == t \ {r}
             A == {x \in S : k[x] = r}
  <2>1. IsFiniteSet(t) /\ Integral(v, t)
    BY <1>9, FS_Subset DEF Integral
  <2>2. SumFunctionOnSet(v, t) = v[r] + SumFunctionOnSet(v, u)
    BY <2>1, SumWithout
  <2>3. A \in SUBSET In(t) /\ In(t) \ A = In(u)
    OBVIOUS
  <2>4. IsFiniteSet(In(t)) /\ Integral(w, In(t))
    BY <1>0
  <2>5. SumFunctionOnSet(w, In(t)) = SumFunctionOnSet(w, A) + SumFunctionOnSet(w, In(u))
    <3> HIDE DEF A, In, u
    <3> QED BY <2>3, <2>4, SumInParts
  <2>6. SumFunctionOnSet(v, u) = SumFunctionOnSet(w, In(u))
    BY <1>2
  <2>7. v[r] = SumFunctionOnSet(w, A)
    OBVIOUS
  <2>8. SumFunctionOnSet(v, t) = SumFunctionOnSet(w, In(t))
    <3> HIDE DEF A, In, u
    <3> QED BY <2>2, <2>5, <2>6, <2>7
  <2> QED BY <2>8
<1>3. R \in F
  <2> HIDE DEF F
  <2> QED BY <1>1, <1>2, InductOnSubsets
<1>4. In(R) = S
  OBVIOUS
<1> QED BY <1>3, <1>4

=============================================================================
