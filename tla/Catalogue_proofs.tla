---------------------------- MODULE Catalogue_proofs ----------------------------
(***************************************************************************)
(* What shoppers see, for any shop.  The products: who is at a slug is its *)
(* holder, and who left it is its alias (HolderIsThere, LeftBehind); a     *)
(* form carries the stamp it has read (BinInv).  The reviews: what was     *)
(* taken down is hidden (BanInv), and the strip is two sequences in order, *)
(* one after the other (InOrderLists, StripIsFull).  The page: it ceases   *)
(* to be true only where a signal is on its way, or it met the change      *)
(* (PageInv).                                                              *)
(*                                                                         *)
(* The sizes of a product, for any sizes, prices and number of requests.   *)
(* What is inductive: what a request is about to write are rows of sizes   *)
(* (Sound); no two transactions hold one row, and the one that took the    *)
(* flag holds every row that has it (Locks); and a request that nothing    *)
(* disturbs moves towards one default, the due one (Course).               *)
(***************************************************************************)
EXTENDS Storefront, Sizes, NumberFacts, SequenceTheorems

(***************************************************************************)
(* The sequence of a finite set's members by a strict order.               *)
(***************************************************************************)
(* Every member of S once.                                                 *)
Lists(s, S) ==
  /\ s \in Seq(S) /\ Len(s) = Cardinality(S)
  /\ \A i, j \in 1 .. Len(s) : s[i] = s[j] => i = j
  /\ \A x \in S : \E i \in 1 .. Len(s) : s[i] = x

Lesser(m, n) == IF m < n THEN m ELSE n

LEMMA InOrderLists ==
  ASSUME NEW S, IsFiniteSet(S), NEW R, StrictOrder(R, S)
  PROVE  Lists(InOrder(S, R), S)
<1> DEFINE n    == Cardinality(S)
           rank == RankOf(R, S)
<1>1. n \in Nat /\ IsFiniteSet(1 .. n) /\ Cardinality(1 .. n) = n
  BY FS_CardinalityType, FS_Interval
<1>2. rank \in Bijection(S, 1 .. n)
  BY Ranked
<1>3. ASSUME NEW x \in S, NEW y \in S, <<x, y>> \in R PROVE rank[x] < rank[y]
  BY <1>3, Ranked
<1> HIDE DEF rank
<1>4. ASSUME NEW i \in 1 .. n PROVE \E x \in S : rank[x] = i
  BY <1>2 DEF Bijection, Surjection
<1> DEFINE t == [i \in 1 .. n |-> CHOOSE x \in S : rank[x] = i]
<1>5. t \in [1 .. n -> S] /\ \A i \in 1 .. n : rank[t[i]] = i
  BY <1>4
<1>6. \A i, j \in DOMAIN t : i < j => <<t[i], t[j]>> \in R
  <2> HIDE DEF t
  <2> SUFFICES ASSUME NEW i \in 1 .. n, NEW j \in 1 .. n, i < j PROVE <<t[i], t[j]>> \in R
    BY <1>5
  <2>1. t[i] \in S /\ t[j] \in S /\ rank[t[i]] = i /\ rank[t[j]] = j
    BY <1>5
  <2>2. i \in Nat /\ j \in Nat
    BY <1>1
  <2>3. t[i] # t[j] /\ ~(<<t[j], t[i]>> \in R)
    BY <1>3, <2>1, <2>2
  <2> QED BY <2>1, <2>3 DEF StrictOrder
<1> DEFINE s == InOrder(S, R)
<1>7. s \in [1 .. n -> S] /\ \A i, j \in 1 .. n : i < j => <<s[i], s[j]>> \in R
  <2> HIDE DEF t
  <2>1. \E f \in [1 .. n -> S] : \A i, j \in DOMAIN f : i < j => <<f[i], f[j]>> \in R
    BY <1>5, <1>6
  <2>2. s \in [1 .. n -> S] /\ \A i, j \in DOMAIN s : i < j => <<s[i], s[j]>> \in R
    BY <2>1 DEF InOrder
  <2> QED BY <2>2
<1> HIDE DEF s
<1>8. \A i, j \in 1 .. n : s[i] = s[j] => i = j
  <2> SUFFICES ASSUME NEW i \in 1 .. n, NEW j \in 1 .. n, s[i] = s[j], i # j PROVE FALSE
    OBVIOUS
  <2>1. i < j \/ j < i
    BY <1>1
  <2>2. s[i] \in S /\ <<s[i], s[i]>> \in R
    BY <1>7, <2>1
  <2> QED BY <2>2 DEF StrictOrder
<1>9. s \in Surjection(1 .. n, S)
  <2>1. s \in Injection(1 .. n, S)
    BY <1>7, <1>8 DEF Injection, IsInjective
  <2> QED BY <1>1, <2>1, FS_Injection
<1>10. s \in Seq(S) /\ Len(s) = n /\ DOMAIN s = 1 .. n
  BY <1>1, <1>7
<1> QED
  BY <1>8, <1>9, <1>10 DEF Lists, Surjection, s

LEMMA FirstIs ==
  ASSUME NEW S, NEW s \in Seq(S), NEW n \in Nat
  PROVE  /\ First(s, n) \in Seq(S)
         /\ Len(First(s, n)) = Lesser(n, Len(s))
         /\ \A i \in 1 .. Lesser(n, Len(s)) : First(s, n)[i] = s[i]
<1> DEFINE m == Lesser(n, Len(s))
<1>1. m \in Nat /\ m <= Len(s) /\ Len(s) \in Nat /\ First(s, n) = SubSeq(s, 1, m)
  BY DEF Lesser, First
<1> HIDE DEF m
<1>2. \A i \in 1 .. m : s[i] \in S
  BY <1>1
<1>3. /\ SubSeq(s, 1, m) \in Seq(S)
      /\ Len(SubSeq(s, 1, m)) = IF 1 <= m THEN m - 1 + 1 ELSE 0
      /\ \A i \in 1 .. m - 1 + 1 : SubSeq(s, 1, m)[i] = s[1 + i - 1]
  BY <1>1, <1>2, SubSeqProperties
<1>4. Len(SubSeq(s, 1, m)) = m /\ m - 1 + 1 = m /\ \A i \in 1 .. m : 1 + i - 1 = i
  BY <1>1, <1>3
<1> QED BY <1>1, <1>3, <1>4 DEF m

-----------------------------------------------------------------------------
(* The rows of reviews, and what is in a request's hands.                  *)
Holding == [does : {"nothing", "edit", "hide", "pick", "place"}, author : Authors \cup {0},
            row : Review \cup {NoReview}, to : BOOLEAN]

ReviewTyped ==
  /\ review \in [Authors -> Review \cup {NoReview}]
  /\ hand \in [Hands -> Holding]
  /\ \A h \in Hands : hand[h].does # "nothing" => hand[h].author \in Authors /\ hand[h].row \in Review

BanInv == banned \subseteq {u \in Posted : review[u].hidden}

ReviewInv == ReviewTyped /\ BanInv

LEMMA PostedIs ==
  ASSUME ReviewTyped, NEW u \in Authors
  PROVE  /\ u \in Posted <=> review[u] \in Review
         /\ NoReview \notin Review
<1>1. NoReview \notin Review
  BY ReviewsAssumption DEF NoReview, Review
<1> QED BY <1>1 DEF ReviewTyped, Posted

LEMMA VisibleIsFinite ==
  /\ IsFiniteSet(Visible) /\ Visible \subseteq Authors /\ Cardinality(Visible) \in Nat
  /\ IsFiniteSet(Visible \cap Picked) /\ Cardinality(Visible \cap Picked) \in Nat
<1>1. Visible \in SUBSET Authors /\ Visible \cap Picked \in SUBSET Authors
  BY DEF Visible, Posted
<1> QED BY <1>1, FS_Subset, FS_CardinalityType, ReviewsAssumption

(* Both orders of the strip are strict and total.                          *)
LEMMA NewestLists ==
  ASSUME NEW S \in SUBSET Authors
  PROVE  Lists(Newest(S), S)
<1>1. IsFiniteSet(S) /\ \A u \in S : u \in Nat
  BY FS_Subset, ReviewsAssumption
<1>2. StrictOrder({p \in S \X S : p[1] < p[2]}, S)
  BY <1>1 DEF StrictOrder
<1> QED BY <1>1, <1>2, InOrderLists DEF Newest

LEMMA BestLists ==
  ASSUME ReviewTyped, NEW S \in SUBSET Posted
  PROVE  Lists(Best(S), S)
<1> DEFINE before == {p \in S \X S :
             \/ review[p[1]].rating > review[p[2]].rating
             \/ review[p[1]].rating = review[p[2]].rating /\ p[1] < p[2]}
<1>1. IsFiniteSet(S) /\ \A u \in S : u \in Nat
  BY FS_Subset, ReviewsAssumption DEF Posted
<1>2. \A u \in S : review[u].rating \in Nat
  BY PostedIs, ReviewsAssumption DEF Posted, Review
<1>3. \A u, v \in S : <<u, v>> \in before <=>
        \/ review[u].rating > review[v].rating
        \/ review[u].rating = review[v].rating /\ u < v
  OBVIOUS
<1> HIDE DEF before
<1>4. StrictOrder(before, S)
  BY <1>1, <1>2, <1>3 DEF StrictOrder
<1> QED BY <1>1, <1>4, InOrderLists DEF Best, before

(***************************************************************************)
(* The strip                                                               *)
(***************************************************************************)
Chosen  == First(Newest(Visible \cap Picked), MaxFeatured)
Others  == Visible \ ToSet(Chosen)
Fillers == First(First(Best(Others), MaxFeatured), MaxFeatured - Len(Chosen))

LEMMA ChosenIs ==
  /\ Chosen \in Seq(Visible \cap Picked)
  /\ Len(Chosen) = Lesser(MaxFeatured, Cardinality(Visible \cap Picked))
  /\ \A i, j \in 1 .. Len(Chosen) : Chosen[i] = Chosen[j] => i = j
  /\ Cardinality(Visible \cap Picked) <= MaxFeatured => Visible \cap Picked \subseteq ToSet(Chosen)
<1> DEFINE S == Visible \cap Picked
           s == Newest(S)
<1>1. Lists(s, S) /\ Cardinality(S) \in Nat /\ MaxFeatured \in Nat
  BY NewestLists, VisibleIsFinite, ReviewsAssumption
<1>2. Chosen = First(s, MaxFeatured)
  BY DEF Chosen
<1> HIDE DEF S, s
<1>3. /\ s \in Seq(S) /\ Len(s) = Cardinality(S)
      /\ \A i, j \in 1 .. Len(s) : s[i] = s[j] => i = j
      /\ \A x \in S : \E i \in 1 .. Len(s) : s[i] = x
  BY <1>1 DEF Lists
<1>4. /\ Chosen \in Seq(S) /\ Len(Chosen) = Lesser(MaxFeatured, Len(s))
      /\ \A i \in 1 .. Len(Chosen) : Chosen[i] = s[i]
  <2>1. /\ First(s, MaxFeatured) \in Seq(S)
        /\ Len(First(s, MaxFeatured)) = Lesser(MaxFeatured, Len(s))
        /\ \A i \in 1 .. Lesser(MaxFeatured, Len(s)) : First(s, MaxFeatured)[i] = s[i]
    BY <1>1, <1>3, FirstIs
  <2> QED BY <1>2, <2>1
<1>5. Len(Chosen) <= Len(s) /\ (Len(s) <= MaxFeatured => Len(Chosen) = Len(s))
  BY <1>1, <1>3, <1>4 DEF Lesser
<1>6. \A i, j \in 1 .. Len(Chosen) : Chosen[i] = Chosen[j] => i = j
  BY <1>3, <1>4, <1>5
<1>7. ASSUME Cardinality(S) <= MaxFeatured, NEW x \in S PROVE x \in ToSet(Chosen)
  <2>1. PICK i \in 1 .. Len(s) : s[i] = x
    BY <1>3
  <2>2. i \in DOMAIN Chosen /\ Chosen[i] = x
    BY <1>3, <1>4, <1>5, <1>7, <2>1
  <2> QED BY <2>2 DEF ToSet
<1> QED BY <1>3, <1>4, <1>6, <1>7 DEF S

LEMMA OthersAre ==
  /\ IsFiniteSet(Others) /\ Others \subseteq Visible
  /\ Cardinality(Others) = Cardinality(Visible) - Len(Chosen)
<1> DEFINE n == Len(Chosen)
<1>1. /\ Chosen \in Seq(Visible \cap Picked) /\ n \in Nat /\ DOMAIN Chosen = 1 .. n
      /\ \A i, j \in 1 .. n : Chosen[i] = Chosen[j] => i = j
      /\ \A i \in 1 .. n : Chosen[i] \in Visible
  <2>1. Chosen \in Seq(Visible \cap Picked)
    BY ChosenIs
  <2>2. n \in Nat /\ DOMAIN Chosen = 1 .. n /\ \A i \in 1 .. n : Chosen[i] \in Visible \cap Picked
    BY <2>1
  <2>3. \A i, j \in 1 .. n : Chosen[i] = Chosen[j] => i = j
    BY ChosenIs
  <2> QED BY <2>1, <2>2, <2>3
<1> HIDE DEF n
<1>2. ToSet(Chosen) = {Chosen[i] : i \in 1 .. n}
  BY <1>1 DEF ToSet
<1>3. ToSet(Chosen) \subseteq Visible
  BY <1>1, <1>2
<1> DEFINE f == [i \in 1 .. n |-> Chosen[i]]
<1>4. f \in Bijection(1 .. n, ToSet(Chosen))
  BY <1>1, <1>2 DEF Bijection, Injection, Surjection, IsInjective
<1>5. Cardinality(ToSet(Chosen)) = n
  BY <1>1, <1>4, FS_CountingElements DEF ExistsBijection
<1>6. Visible \cap ToSet(Chosen) = ToSet(Chosen)
  BY <1>3
<1>7. IsFiniteSet(Others) /\ Cardinality(Others) = Cardinality(Visible) - Cardinality(Visible \cap ToSet(Chosen))
  BY FS_Difference, VisibleIsFinite DEF Others
<1> QED BY <1>5, <1>6, <1>7 DEF Others, n

LEMMA FillersAre ==
  ASSUME ReviewTyped
  PROVE  /\ Fillers \in Seq(Others)
         /\ Len(Fillers) = Lesser(MaxFeatured - Len(Chosen), Cardinality(Visible) - Len(Chosen))
         /\ \A i, j \in 1 .. Len(Fillers) : Fillers[i] = Fillers[j] => i = j
<1> DEFINE S == Others
           s == Best(S)
           t == First(s, MaxFeatured)
           k == MaxFeatured - Len(Chosen)
<1>1. S \in SUBSET Posted /\ Lists(s, S)
  BY BestLists, OthersAre DEF Visible
<1>2. /\ MaxFeatured \in Nat /\ Len(Chosen) \in Nat /\ Len(Chosen) <= MaxFeatured
      /\ k \in Nat /\ k <= MaxFeatured
  <2>1. Len(Chosen) = Lesser(MaxFeatured, Cardinality(Visible \cap Picked))
    BY ChosenIs
  <2> QED BY <2>1, VisibleIsFinite, ReviewsAssumption DEF Lesser
<1>3. Fillers = First(t, k)
  BY DEF Fillers
<1>4. Cardinality(S) = Cardinality(Visible) - Len(Chosen)
  BY OthersAre
<1> HIDE DEF S, s, t, k
<1>5. /\ s \in Seq(S) /\ Len(s) = Cardinality(S) /\ Len(s) \in Nat
      /\ \A i, j \in 1 .. Len(s) : s[i] = s[j] => i = j
  BY <1>1 DEF Lists
<1>6. /\ t \in Seq(S) /\ Len(t) = Lesser(MaxFeatured, Len(s))
      /\ \A i \in 1 .. Len(t) : t[i] = s[i]
  <2>1. s \in Seq(S) /\ MaxFeatured \in Nat /\ t = First(s, MaxFeatured)
    BY <1>2, <1>5 DEF t
  <2>2. /\ First(s, MaxFeatured) \in Seq(S)
        /\ Len(First(s, MaxFeatured)) = Lesser(MaxFeatured, Len(s))
        /\ \A i \in 1 .. Lesser(MaxFeatured, Len(s)) : First(s, MaxFeatured)[i] = s[i]
    BY <2>1, FirstIs
  <2> QED BY <2>1, <2>2
<1>7. /\ Fillers \in Seq(S) /\ Len(Fillers) = Lesser(k, Len(t))
      /\ \A i \in 1 .. Len(Fillers) : Fillers[i] = t[i]
  BY <1>2, <1>3, <1>6, FirstIs
<1>8. Len(t) \in Nat /\ Len(Fillers) <= Len(t) /\ Len(t) <= Len(s) /\ Len(Fillers) = Lesser(k, Len(s))
  BY <1>2, <1>5, <1>6, <1>7 DEF Lesser
<1>9. \A i, j \in 1 .. Len(Fillers) : Fillers[i] = Fillers[j] => i = j
  BY <1>5, <1>6, <1>7, <1>8
<1> QED BY <1>4, <1>5, <1>7, <1>8, <1>9 DEF S, k

(* The strip is as long as it can be, without repeats, picked ones first.  *)
LEMMA StripIsFull ==
  ASSUME ReviewTyped
  PROVE  StripFull /\ ToSet(Strip) \subseteq Visible
<1> DEFINE n == Cardinality(Visible)
           k == Cardinality(Visible \cap Picked)
           c == Len(Chosen)
           f == Len(Fillers)
<1>1. /\ MaxFeatured \in Nat /\ n \in Nat /\ k \in Nat /\ k <= n
      /\ c = Lesser(MaxFeatured, k) /\ f = Lesser(MaxFeatured - c, n - c)
  <2>1. k <= n
    BY VisibleIsFinite, FS_Subset
  <2> QED BY <2>1, VisibleIsFinite, ReviewsAssumption, ChosenIs, FillersAre
<1>2. c \in Nat /\ f \in Nat /\ c + f = Lesser(n, MaxFeatured)
  BY <1>1 DEF Lesser
<1>3. Strip = Chosen \o Fillers
  BY DEF Strip, Chosen, Others, Fillers
<1>4. Chosen \in Seq(Visible) /\ Fillers \in Seq(Visible)
  <2>1. Visible \cap Picked \subseteq Visible /\ Others \subseteq Visible
    BY OthersAre
  <2>2. Chosen \in Seq(Visible \cap Picked) /\ Fillers \in Seq(Others)
    BY ChosenIs, FillersAre
  <2> QED BY <2>1, <2>2
<1>5. /\ Strip \in Seq(Visible) /\ Len(Strip) = c + f
      /\ \A i \in 1 .. c + f : Strip[i] = IF i <= c THEN Chosen[i] ELSE Fillers[i - c]
  BY <1>3, <1>4, ConcatProperties
<1>6. /\ \A i \in 1 .. c : Chosen[i] \in Visible \cap Picked /\ Chosen[i] \in ToSet(Chosen)
      /\ \A i \in 1 .. f : Fillers[i] \in Visible /\ Fillers[i] \notin ToSet(Chosen)
  <2>1. Chosen \in Seq(Visible \cap Picked) /\ Fillers \in Seq(Others)
    BY ChosenIs, FillersAre
  <2>2. \A i \in 1 .. c : Chosen[i] \in Visible \cap Picked /\ i \in DOMAIN Chosen
    BY <2>1
  <2>3. \A i \in 1 .. f : Fillers[i] \in Others
    BY <2>1
  <2> QED BY <2>2, <2>3 DEF Others, ToSet
<1>7. /\ \A i, j \in 1 .. c : Chosen[i] = Chosen[j] => i = j
      /\ \A i, j \in 1 .. f : Fillers[i] = Fillers[j] => i = j
      /\ k <= MaxFeatured => Visible \cap Picked \subseteq ToSet(Chosen)
  BY ChosenIs, FillersAre
<1> HIDE DEF n, k, c, f
<1>8. IsInjective(Strip)
  <2> SUFFICES ASSUME NEW i \in 1 .. c + f, NEW j \in 1 .. c + f, Strip[i] = Strip[j] PROVE i = j
    BY <1>5 DEF IsInjective
  <2>1. i \in 1 .. c \/ (i > c /\ i - c \in 1 .. f)
    BY <1>2
  <2>2. j \in 1 .. c \/ (j > c /\ j - c \in 1 .. f)
    BY <1>2
  <2>3. /\ i \in 1 .. c => Strip[i] = Chosen[i]
        /\ i > c => Strip[i] = Fillers[i - c]
        /\ j \in 1 .. c => Strip[j] = Chosen[j]
        /\ j > c => Strip[j] = Fillers[j - c]
    BY <1>2, <1>5
  <2>4. CASE i \in 1 .. c /\ j \in 1 .. c
    <3>1. Chosen[i] = Chosen[j]
      BY <2>3, <2>4
    <3> QED BY <1>7, <2>4, <3>1
  <2>5. CASE i > c /\ i - c \in 1 .. f /\ j > c /\ j - c \in 1 .. f
    <3>1. Fillers[i - c] = Fillers[j - c]
      BY <2>3, <2>5
    <3>2. i - c = j - c
      BY <1>7, <2>5, <3>1
    <3> QED BY <1>2, <3>2
  <2>6. CASE i \in 1 .. c /\ j > c /\ j - c \in 1 .. f
    <3>1. Chosen[i] = Fillers[j - c]
      BY <2>3, <2>6
    <3> QED BY <1>6, <2>6, <3>1
  <2>7. CASE j \in 1 .. c /\ i > c /\ i - c \in 1 .. f
    <3>1. Chosen[j] = Fillers[i - c]
      BY <2>3, <2>7
    <3> QED BY <1>6, <2>7, <3>1
  <2> QED BY <2>1, <2>2, <2>4, <2>5, <2>6, <2>7
<1>9. \A i \in 1 .. Len(Strip) : Strip[i] \in Picked <=> i <= k
  <2> SUFFICES ASSUME NEW i \in 1 .. c + f PROVE Strip[i] \in Picked <=> i <= k
    BY <1>5
  <2>1. CASE i <= c
    <3>1. i \in 1 .. c /\ Strip[i] = Chosen[i] /\ i <= k
      BY <1>1, <1>2, <1>5, <2>1 DEF Lesser
    <3> QED BY <1>6, <3>1
  <2>2. CASE i > c
    <3>1. i - c \in 1 .. f /\ Strip[i] = Fillers[i - c] /\ c = k /\ k <= MaxFeatured
      BY <1>1, <1>2, <1>5, <2>2 DEF Lesser
    <3>2. Strip[i] \in Visible /\ Strip[i] \notin Picked
      BY <1>6, <1>7, <3>1
    <3> QED BY <1>1, <2>2, <3>1, <3>2
  <2> QED BY <1>2, <2>1, <2>2
<1>10. Len(Strip) = IF n < MaxFeatured THEN n ELSE MaxFeatured
  BY <1>2, <1>5 DEF Lesser
<1>11. StripFull
  BY <1>8, <1>9, <1>10 DEF StripFull, n, k
<1> QED BY <1>5, <1>11 DEF ToSet

(***************************************************************************)
(* The requests on reviews                                                 *)
(***************************************************************************)
LEMMA HandIs ==
  ASSUME ReviewTyped, NEW h \in Hands
  PROVE  /\ Empty \in Holding /\ hand[h] \in Holding
         /\ hand[h].does # "nothing" => hand[h].author \in Authors /\ hand[h].row \in Review
BY DEF ReviewTyped, Empty, Holding

(* A request that reads, counts, or is done, and no row changes.           *)
LEMMA HandChanges ==
  ASSUME ReviewInv, NEW h \in Hands, NEW x \in Holding,
         x.does # "nothing" => x.author \in Authors /\ x.row \in Review,
         hand' = [hand EXCEPT ![h] = x], UNCHANGED <<review, banned>>
  PROVE  ReviewInv'
<1>1. ReviewTyped'
  BY DEF ReviewInv, ReviewTyped
<1>2. BanInv'
  BY DEF ReviewInv, BanInv, Posted
<1> QED BY <1>1, <1>2 DEF ReviewInv

(* One row changes.                                                        *)
LEMMA RowChanges ==
  ASSUME ReviewInv, NEW u \in Authors, NEW row \in Review \cup {NoReview},
         review' = [review EXCEPT ![u] = row],
         banned' \subseteq banned \cup {u}, u \in banned' => row \in Review /\ row.hidden
  PROVE  /\ review' \in [Authors -> Review \cup {NoReview}]
         /\ BanInv'
<1>1. /\ review' \in [Authors -> Review \cup {NoReview}]
      /\ \A v \in Authors : review'[v] = IF v = u THEN row ELSE review[v]
  BY DEF ReviewInv, ReviewTyped
<1>2. NoReview \notin Review
  BY PostedIs DEF ReviewInv
<1>3. \A v \in banned' : v \in Posted' /\ review'[v].hidden
  BY <1>1, <1>2 DEF ReviewInv, BanInv, Posted
<1> QED BY <1>1, <1>3 DEF BanInv

LEMMA ReadKeeps ==
  ASSUME ReviewInv, NEW h \in Hands, NEW does \in {"edit", "hide", "pick"}, NEW u \in Authors,
         NEW row, review[u] \in Review => row \in Review, NEW to \in BOOLEAN,
         Read(h, does, u, row, to)
  PROVE  ReviewInv'
<1> DEFINE x == [does |-> does, author |-> u, row |-> row, to |-> to]
<1>1. row \in Review
  BY PostedIs DEF Read, ReviewInv
<1>2. x \in Holding /\ x.author \in Authors /\ x.row \in Review
  BY <1>1 DEF Holding
<1>3. hand' = [hand EXCEPT ![h] = x] /\ UNCHANGED <<review, banned>>
  BY DEF Read
<1> HIDE DEF x
<1> QED BY <1>2, <1>3, HandChanges

LEMMA PostReviewKeeps ==
  ASSUME ReviewInv, NEW u \in Authors, NEW stars \in Ratings, PostReview(u, stars)
  PROVE  ReviewInv'
<1> DEFINE row == [rating |-> stars, hidden |-> FALSE, featured |-> FALSE]
<1>1. row \in Review /\ review' = [review EXCEPT ![u] = row] /\ banned' = banned /\ hand' = hand
  BY DEF PostReview, Review
<1>2. u \notin banned
  BY DEF PostReview, ReviewInv, BanInv
<1> HIDE DEF row
<1>3. review' \in [Authors -> Review \cup {NoReview}] /\ BanInv'
  BY <1>1, <1>2, RowChanges
<1> QED BY <1>1, <1>3 DEF ReviewInv, ReviewTyped

LEMMA DeleteReviewKeeps ==
  ASSUME ReviewInv, NEW u \in Authors, DeleteReview(u)
  PROVE  ReviewInv'
<1>1. review' = [review EXCEPT ![u] = NoReview] /\ banned' = banned \ {u} /\ hand' = hand
  BY DEF DeleteReview
<1>2. review' \in [Authors -> Review \cup {NoReview}] /\ BanInv'
  BY <1>1, RowChanges
<1> QED BY <1>1, <1>2 DEF ReviewInv, ReviewTyped

(* A save: what becomes of the row, and of those staff took down.          *)
LEMMA SavesKeeps ==
  ASSUME ReviewInv, NEW h \in Hands, NEW u \in Authors, NEW row \in Review, Saves(h, u, row),
         banned' \subseteq banned \cup {u}, u \in banned' => row.hidden
  PROVE  ReviewInv'
<1>1. review' = [review EXCEPT ![u] = row] /\ hand' = [hand EXCEPT ![h] = Empty]
  BY DEF Saves
<1>2. review' \in [Authors -> Review \cup {NoReview}] /\ BanInv'
  BY <1>1, RowChanges
<1>3. hand' \in [Hands -> Holding] /\ \A g \in Hands : g # h => hand'[g] = hand[g]
  BY <1>1, HandIs DEF ReviewInv, ReviewTyped
<1>4. hand'[h].does = "nothing"
  BY <1>1 DEF ReviewInv, ReviewTyped, Empty
<1>5. \A g \in Hands : hand'[g].does # "nothing" => hand'[g].author \in Authors /\ hand'[g].row \in Review
  BY <1>3, <1>4 DEF ReviewInv, ReviewTyped
<1> QED BY <1>2, <1>3, <1>5 DEF ReviewInv, ReviewTyped

LEMMA SaveEditKeeps ==
  ASSUME ReviewInv, NEW h \in Hands, SaveEdit(h)
  PROVE  ReviewInv'
<1> DEFINE u   == hand[h].author
           row == hand[h].row
<1>1. u \in Authors /\ row \in Review
  BY HandIs DEF SaveEdit, ReviewInv
<1>2. Saves(h, u, row) /\ banned' = IF row.hidden THEN banned ELSE banned \ {u}
  BY DEF SaveEdit
<1> HIDE DEF u, row
<1> QED BY <1>1, <1>2, SavesKeeps

LEMMA SetHiddenKeeps ==
  ASSUME ReviewInv, NEW h \in Hands, SetHidden(h)
  PROVE  ReviewInv'
<1> DEFINE u      == hand[h].author
           retire == hand[h].to /\ hand[h].row.featured
           row    == [review[u] EXCEPT !.hidden = hand[h].to, !.featured = @ /\ ~retire]
<1>1. u \in Authors /\ hand[h].row \in Review /\ hand[h].to \in BOOLEAN
  BY HandIs DEF SetHidden, ReviewInv, Holding
<1>2. u \in Posted /\ Saves(h, u, row) /\ banned' = IF hand[h].to THEN banned \cup {u} ELSE banned \ {u}
  BY DEF SetHidden
<1>3. row \in Review /\ row.hidden = hand[h].to
  <2>1. review[u] \in Review
    BY <1>1, <1>2, PostedIs DEF ReviewInv
  <2> QED BY <1>1, <2>1 DEF Review
<1> HIDE DEF u, row
<1> QED BY <1>1, <1>2, <1>3, SavesKeeps

LEMMA SetFeaturedKeeps ==
  ASSUME ReviewInv, NEW h \in Hands, SetFeatured(h)
  PROVE  ReviewInv'
<1> DEFINE u   == hand[h].author
           row == [review[u] EXCEPT !.featured = hand[h].to]
<1>1. u \in Authors /\ hand[h].to \in BOOLEAN
  BY HandIs DEF SetFeatured, ReviewInv, Holding
<1>2. u \in Posted /\ Saves(h, u, row) /\ banned' = banned
  BY DEF SetFeatured
<1>3. row \in Review /\ row.hidden = review[u].hidden
  <2>1. review[u] \in Review
    BY <1>1, <1>2, PostedIs DEF ReviewInv
  <2> QED BY <1>1, <2>1 DEF Review
<1>4. u \in banned => review[u].hidden
  BY DEF ReviewInv, BanInv
<1> HIDE DEF u, row
<1> QED BY <1>1, <1>2, <1>3, <1>4, SavesKeeps

LEMMA CountPlacesKeeps ==
  ASSUME ReviewInv, NEW h \in Hands, CountPlaces(h)
  PROVE  ReviewInv'
<1> DEFINE x == [hand[h] EXCEPT !.does = "place"]
<1>1. hand[h] \in Holding /\ hand[h].author \in Authors /\ hand[h].row \in Review
  BY HandIs DEF CountPlaces, ReviewInv
<1>2. x \in Holding /\ x.author = hand[h].author /\ x.row = hand[h].row
  BY <1>1 DEF Holding
<1>3. hand' = [hand EXCEPT ![h] = x] /\ UNCHANGED <<review, banned>>
  BY DEF CountPlaces
<1> HIDE DEF x
<1> QED BY <1>1, <1>2, <1>3, HandChanges

LEMMA GiveUpKeeps ==
  ASSUME ReviewInv, NEW h \in Hands, GiveUp(h)
  PROVE  ReviewInv'
<1>1. Empty \in Holding /\ Empty.does = "nothing"
  BY HandIs DEF ReviewInv, Empty
<1>2. hand' = [hand EXCEPT ![h] = Empty] /\ UNCHANGED <<review, banned>>
  BY DEF GiveUp
<1> QED BY <1>1, <1>2, HandChanges

LEMMA EditReviewsKeeps ==
  ASSUME ReviewInv, EditReviews
  PROVE  ReviewInv'
<1>1. CASE \E u \in Authors, stars \in Ratings : PostReview(u, stars)
  BY <1>1, PostReviewKeeps
<1>2. CASE \E u \in Authors : DeleteReview(u)
  BY <1>2, DeleteReviewKeeps
<1>3. ASSUME NEW h \in Hands, NEW u \in Authors, NEW stars \in Ratings, OpenEdit(h, u, stars)
      PROVE  ReviewInv'
  <2> DEFINE row == [review[u] EXCEPT !.rating = stars]
  <2>1. review[u] \in Review => row \in Review
    BY DEF Review
  <2>2. Read(h, "edit", u, row, FALSE)
    BY <1>3 DEF OpenEdit
  <2> HIDE DEF row
  <2> QED BY <2>1, <2>2, ReadKeeps
<1>4. ASSUME NEW h \in Hands, NEW u \in Authors, NEW to \in BOOLEAN, OpenHide(h, u, to) \/ OpenPick(h, u, to)
      PROVE  ReviewInv'
  <2>1. Read(h, "hide", u, review[u], to) \/ Read(h, "pick", u, review[u], to)
    BY <1>4 DEF OpenHide, OpenPick
  <2> QED BY <2>1, ReadKeeps
<1>5. ASSUME NEW h \in Hands, SaveEdit(h) \/ SetHidden(h) \/ SetFeatured(h) \/ CountPlaces(h) \/ GiveUp(h)
      PROVE  ReviewInv'
  BY <1>5, SaveEditKeeps, SetHiddenKeeps, SetFeaturedKeeps, CountPlacesKeeps, GiveUpKeeps
<1> QED BY <1>1, <1>2, <1>3, <1>4, <1>5 DEF EditReviews

(***************************************************************************)
(* The products                                                            *)
(***************************************************************************)
Opened == [product : Products, read : Row, row : Row]

ListingTyped ==
  /\ product \in [Products -> Row \cup {Gone}]
  /\ alias \in [Slugs -> Products \cup {Nobody}]
  /\ sizeAt \in [Slugs -> Products \cup {Nobody}]
  /\ retired \subseteq Slugs
  /\ holder \in [Slugs -> Products \cup {Nobody}]
  /\ form \in [Editors -> Opened \cup {Closed}]
  /\ purging \subseteq Products
  /\ away \in [Products -> Ages]

(* Who is at a slug is its holder; who is its holder and not there is its  *)
(* alias, unless a stale form undid something of it.                       *)
HolderIsThere == \A p \in Products : There(p) => holder[product[p].slug] = p

LeftBehind ==
  \A s \in Slugs : holder[s] \notin overwritten \cup {Nobody} =>
    \/ product[holder[s]].slug = s
    \/ ~Taken(s) /\ alias[s] = holder[s]

(* A form carries the stamp it has read, and an active row carries none.   *)
BinInv ==
  /\ \A p \in Products : product[p].active => product[p].stamp = "none"
  /\ \A e \in Editors : form[e].row.stamp = form[e].read.stamp
  /\ BinClock

ListingInv == ListingTyped /\ HolderIsThere /\ LeftBehind /\ BinInv

LEMMA RowOrGone ==
  ASSUME NEW row \in Row \cup {Gone}
  PROVE  /\ Gone \notin Row
         /\ row \in Row <=> row # Gone
         /\ row \in Row <=> row.slug \in Slugs
         /\ row.active \in BOOLEAN /\ row.stamp \in Ages
         /\ row.slug = Nobody <=> row = Gone
<1>1. Gone \notin Row /\ Gone.slug \notin Slugs /\ Gone.slug = Nobody
  BY NobodyAssumption DEF Gone, Row
<1>2. row \in Row => row.slug \in Slugs /\ row.slug # Nobody /\ row.active \in BOOLEAN /\ row.stamp \in Ages
  BY NobodyAssumption DEF Row
<1>3. Gone.active \in BOOLEAN /\ Gone.stamp \in Ages
  BY DEF Gone, Ages
<1> QED BY <1>1, <1>2, <1>3

LEMMA ProductIs ==
  ASSUME ListingTyped, NEW p \in Products
  PROVE  /\ product[p] \in Row \cup {Gone}
         /\ There(p) <=> product[p] \in Row
         /\ There(p) <=> product[p].slug \in Slugs
         /\ product[p].active \in BOOLEAN /\ product[p].stamp \in Ages
         /\ ~There(p) => product[p].slug = Nobody
BY RowOrGone DEF ListingTyped, There

(* The slug of a product is nobody else's.                                 *)
LEMMA OwnSlug ==
  ASSUME ListingTyped, HolderIsThere, NEW p \in Products, NEW q \in Products,
         There(p), product[p].slug = product[q].slug
  PROVE  p = q
<1>1. There(q)
  BY ProductIs
<1> QED BY <1>1 DEF HolderIsThere

LEMMA FormIs ==
  ASSUME ListingTyped, NEW e \in Editors
  PROVE  /\ form[e] \in Opened \cup {Closed}
         /\ form[e] # Closed => /\ form[e] \in Opened /\ form[e].product \in Products
                                /\ form[e].read \in Row /\ form[e].row \in Row
         /\ form[e].product \in Products => form[e] \in Opened
BY NobodyAssumption DEF ListingTyped, Opened, Closed

LEMMA KeptIs ==
  ASSUME ListingTyped, NEW p \in Products, NEW row \in Row, Kept(p, row)
  PROVE  /\ product' \in [Products -> Row \cup {Gone}]
         /\ away' \in [Products -> Ages]
         /\ \A q \in Products \ {p} : product'[q] = product[q] /\ away'[q] = away[q]
         /\ product'[p] \in Row /\ product'[p] = Cleared(row)
         /\ product'[p].slug = row.slug /\ product'[p].active = row.active
         /\ product'[p].stamp = IF row.active THEN "none" ELSE row.stamp
         /\ away'[p] = IF row.active THEN "none" ELSE IF product[p].active THEN "fresh" ELSE away[p]
<1>1. /\ Cleared(row) \in Row /\ Cleared(row).slug = row.slug /\ Cleared(row).active = row.active
      /\ Cleared(row).stamp = IF row.active THEN "none" ELSE row.stamp
  BY DEF Cleared, Row, Ages
<1>2. /\ product' = [product EXCEPT ![p] = Cleared(row)]
      /\ away' = [away EXCEPT ![p] = IF row.active THEN "none"
                                     ELSE IF product[p].active THEN "fresh" ELSE @]
  BY DEF Kept
<1>3. product \in [Products -> Row \cup {Gone}] /\ away \in [Products -> Ages]
  BY DEF ListingTyped
<1>4. product' \in [Products -> Row \cup {Gone}] /\ product'[p] = Cleared(row) /\ \A q \in Products \ {p} : product'[q] = product[q]
  BY <1>1, <1>2, <1>3
<1>5. /\ away'[p] = IF row.active THEN "none" ELSE IF product[p].active THEN "fresh" ELSE away[p]
      /\ \A q \in Products \ {p} : away'[q] = away[q]
  BY <1>2, <1>3
<1>6. away' \in [Products -> Ages]
  BY <1>2, <1>3 DEF Ages
<1> QED BY <1>1, <1>4, <1>5, <1>6

(* A row added to the sizes.                                               *)
LEMMA SizedIs ==
  ASSUME ListingTyped, NEW p \in Products, NEW t \in Slugs, Sized(p, t) \/ AddSize(p, t)
  PROVE  sizeAt' \in [Slugs -> Products \cup {Nobody}] /\ retired' \subseteq Slugs
BY DEF ListingTyped, Sized, AddSize

LEMMA CreateProductKeeps ==
  ASSUME ListingInv, NEW p \in Products, NEW s \in Slugs, CreateProduct(p, s)
  PROVE  ListingInv'
<1> DEFINE row == [active |-> TRUE, stamp |-> "none", slug |-> s]
<1>1. ListingTyped /\ row \in Row
  BY DEF ListingInv, Row, Ages
<1>2. /\ ~There(p) /\ ~Taken(s) /\ Kept(p, row)
      /\ \E t \in Slugs : Sized(p, t)
      /\ holder' = [holder EXCEPT ![s] = p]
      /\ UNCHANGED <<alias, form, purging, overwritten>>
  BY DEF CreateProduct
<1>3. /\ product' \in [Products -> Row \cup {Gone}] /\ away' \in [Products -> Ages]
      /\ \A q \in Products \ {p} : product'[q] = product[q] /\ away'[q] = away[q]
      /\ product'[p] \in Row /\ product'[p].slug = s /\ product'[p].stamp = "none"
  <2>1. row.slug = s /\ row.active
    OBVIOUS
  <2> HIDE DEF row
  <2> QED BY <1>1, <1>2, <2>1, KeptIs
<1>4. /\ holder' \in [Slugs -> Products \cup {Nobody}] /\ holder'[s] = p
      /\ \A t \in Slugs \ {s} : holder'[t] = holder[t]
  BY <1>1, <1>2 DEF ListingTyped
<1>5. ListingTyped'
  <2>1. sizeAt' \in [Slugs -> Products \cup {Nobody}] /\ retired' \subseteq Slugs
    BY <1>1, <1>2, SizedIs
  <2> QED BY <1>1, <1>2, <1>3, <1>4, <2>1 DEF ListingTyped
<1>6. HolderIsThere'
  <2> SUFFICES ASSUME NEW q \in Products, There(q)' PROVE holder'[product'[q].slug] = q
    BY DEF HolderIsThere
  <2>1. CASE q = p
    BY <1>3, <1>4, <2>1
  <2>2. CASE q # p
    <3>1. product'[q] = product[q] /\ There(q)
      BY <1>3, <2>2 DEF There
    <3>2. product[q].slug \in Slugs \ {s}
      BY <1>1, <1>2, <3>1, ProductIs DEF Taken
    <3> QED BY <1>4, <3>1, <3>2 DEF ListingInv, HolderIsThere
  <2> QED BY <2>1, <2>2
<1>7. LeftBehind'
  <2> SUFFICES ASSUME NEW t \in Slugs, holder'[t] \notin overwritten' \cup {Nobody}
               PROVE  product'[holder'[t]].slug = t \/ (~Taken(t)' /\ alias'[t] = holder'[t])
    BY DEF LeftBehind
  <2>1. CASE t = s
    BY <1>3, <1>4, <2>1
  <2>2. CASE t # s
    <3> DEFINE x == holder[t]
    <3>1. holder'[t] = x /\ x \in Products /\ (product[x].slug = t \/ (~Taken(t) /\ alias[t] = x))
      BY <1>1, <1>2, <1>4, <2>2 DEF ListingInv, LeftBehind, ListingTyped
    <3> HIDE DEF x
    <3>2. CASE product[x].slug = t
      <4>1. x # p
        BY <1>1, <1>2, <3>1, <3>2, ProductIs
      <4> QED BY <1>3, <3>1, <3>2, <4>1
    <3>3. CASE ~Taken(t) /\ alias[t] = x
      <4>1. ~Taken(t)'
        BY <1>3, <2>2, <3>3 DEF Taken
      <4> QED BY <1>2, <3>1, <3>3, <4>1
    <3> QED BY <3>1, <3>2, <3>3
  <2> QED BY <2>1, <2>2
<1>8. BinInv'
  BY <1>2, <1>3 DEF ListingInv, BinInv, BinClock, Purgeable
<1> QED BY <1>5, <1>6, <1>7, <1>8 DEF ListingInv

(* The slugs stay, in the rows and behind them.                            *)
LEMMA SlugsStay ==
  ASSUME ListingInv, product' \in [Products -> Row \cup {Gone}],
         \A p \in Products : product'[p].slug = product[p].slug,
         UNCHANGED <<alias, holder, overwritten>>
  PROVE  HolderIsThere' /\ LeftBehind'
<1>1. \A p \in Products : There(p)' <=> There(p)
  BY RowOrGone DEF There, ListingInv, ListingTyped
<1>2. HolderIsThere'
  BY <1>1 DEF ListingInv, HolderIsThere
<1>3. \A s \in Slugs : Taken(s)' <=> Taken(s)
  BY DEF Taken
<1>4. \A s \in Slugs : holder[s] \in Products \cup {Nobody}
  BY DEF ListingInv, ListingTyped
<1>5. LeftBehind'
  BY <1>3, <1>4 DEF ListingInv, LeftBehind
<1> QED BY <1>2, <1>5

LEMMA BinProductKeeps ==
  ASSUME ListingInv, NEW p \in Products, BinProduct(p)
  PROVE  ListingInv'
<1> DEFINE row == [product[p] EXCEPT !.active = FALSE, !.stamp = "fresh"]
<1>1. ListingTyped /\ product[p] \in Row
  BY ProductIs DEF ListingInv, BinProduct
<1>2. row \in Row /\ row.slug = product[p].slug /\ ~row.active /\ row.stamp = "fresh"
  BY <1>1 DEF Row, Ages
<1>3. Kept(p, row) /\ UNCHANGED <<alias, sizeAt, retired, form, purging, holder, overwritten>>
  BY DEF BinProduct
<1> HIDE DEF row
<1>4. /\ product' \in [Products -> Row \cup {Gone}] /\ away' \in [Products -> Ages]
      /\ \A q \in Products \ {p} : product'[q] = product[q] /\ away'[q] = away[q]
      /\ product'[p].slug = product[p].slug /\ product'[p].stamp = "fresh" /\ ~product'[p].active
  BY <1>1, <1>2, <1>3, KeptIs
<1>5. HolderIsThere' /\ LeftBehind'
  BY <1>3, <1>4, SlugsStay
<1>6. ListingTyped'
  BY <1>1, <1>3, <1>4 DEF ListingTyped
<1>7. BinInv'
  BY <1>3, <1>4 DEF ListingInv, BinInv, BinClock, Purgeable
<1> QED BY <1>5, <1>6, <1>7 DEF ListingInv

LEMMA OpenFormKeeps ==
  ASSUME ListingInv, NEW e \in Editors, OpenForm(e)
  PROVE  ListingInv'
<1>1. PICK p \in Products, active \in BOOLEAN, slug \in Slugs :
        /\ There(p)
        /\ form' = [form EXCEPT ![e] =
             [product |-> p, read |-> product[p],
              row |-> [product[p] EXCEPT !.active = active, !.slug = slug]]]
  BY DEF OpenForm
<1>2. UNCHANGED <<product, alias, sizeAt, retired, purging, holder, away, overwritten>>
  BY DEF OpenForm
<1> DEFINE row == [product[p] EXCEPT !.active = active, !.slug = slug]
           f   == [product |-> p, read |-> product[p], row |-> row]
<1>3. product[p] \in Row
  BY <1>1, ProductIs DEF ListingInv
<1>4. row \in Row /\ row.stamp = product[p].stamp
  BY <1>3 DEF Row
<1>5. f \in Opened /\ f.row.stamp = f.read.stamp
  BY <1>3, <1>4 DEF Opened
<1>6. form' = [form EXCEPT ![e] = f]
  BY <1>1
<1> HIDE DEF f
<1>7. form' \in [Editors -> Opened \cup {Closed}] /\ form'[e] = f /\ \A d \in Editors \ {e} : form'[d] = form[d]
  BY <1>5, <1>6 DEF ListingInv, ListingTyped
<1>8. ListingTyped'
  BY <1>2, <1>7 DEF ListingInv, ListingTyped
<1>9. BinInv'
  BY <1>2, <1>5, <1>7 DEF ListingInv, BinInv, BinClock, Purgeable
<1>10. HolderIsThere' /\ LeftBehind'
  BY <1>2, SlugsStay DEF ListingInv, ListingTyped
<1> QED BY <1>8, <1>9, <1>10 DEF ListingInv

LEMMA AbandonFormKeeps ==
  ASSUME ListingInv, NEW e \in Editors, AbandonForm(e)
  PROVE  ListingInv'
<1>1. form' = [form EXCEPT ![e] = Closed] /\ UNCHANGED <<product, alias, sizeAt, retired, purging, holder, away, overwritten>>
  BY DEF AbandonForm
<1>2. form' \in [Editors -> Opened \cup {Closed}] /\ form'[e] = Closed /\ \A d \in Editors \ {e} : form'[d] = form[d]
  BY <1>1 DEF ListingInv, ListingTyped
<1>3. ListingTyped'
  BY <1>1, <1>2 DEF ListingInv, ListingTyped
<1>4. BinInv'
  BY <1>1, <1>2 DEF ListingInv, BinInv, BinClock, Purgeable, Closed
<1>5. HolderIsThere' /\ LeftBehind'
  BY <1>1, SlugsStay DEF ListingInv, ListingTyped
<1> QED BY <1>3, <1>4, <1>5 DEF ListingInv

LEMMA SaveFormKeeps ==
  ASSUME ListingInv, NEW e \in Editors, SaveForm(e)
  PROVE  ListingInv'
<1> DEFINE p     == form[e].product
           old   == form[e].read.slug
           row   == form[e].row
           new   == row.slug
           stale == product[p] # form[e].read
<1>1. ListingTyped /\ form[e] \in Opened
  BY FormIs DEF ListingInv, SaveForm
<1>2. p \in Products /\ old \in Slugs /\ row \in Row /\ new \in Slugs /\ form[e].read \in Row
  BY <1>1 DEF Opened, Row
<1>3. /\ \A q \in Products \ {p} : product[q].slug # new
      /\ Kept(p, row)
      /\ \E t \in Slugs : Sized(p, t)
      /\ alias' = Aliased(p, old, new)
      /\ holder' = [s \in Slugs |-> IF s = new THEN p
                      ELSE IF stale /\ s = old /\ ~Taken(s) THEN Nobody ELSE holder[s]]
      /\ overwritten' = IF stale THEN overwritten \cup {p} ELSE overwritten
      /\ form' = [form EXCEPT ![e] = Closed] /\ purging' = purging
  BY DEF SaveForm
<1>4. row.stamp = form[e].read.stamp
  BY DEF ListingInv, BinInv
<1>5. ~stale => /\ product[p] \in Row /\ There(p) /\ product[p].slug = old /\ product[p].stamp = row.stamp
  BY <1>1, <1>2, <1>4, ProductIs
<1> HIDE DEF p, old, row, new, stale
<1>6. /\ product' \in [Products -> Row \cup {Gone}] /\ away' \in [Products -> Ages]
      /\ \A q \in Products \ {p} : product'[q] = product[q] /\ away'[q] = away[q]
      /\ product'[p] \in Row /\ product'[p].slug = new /\ product'[p].active = row.active
      /\ product'[p].stamp = IF row.active THEN "none" ELSE row.stamp
      /\ away'[p] = IF row.active THEN "none" ELSE IF product[p].active THEN "fresh" ELSE away[p]
  BY <1>1, <1>2, <1>3, KeptIs DEF new
<1>7. /\ holder' \in [Slugs -> Products \cup {Nobody}] /\ holder'[new] = p
      /\ \A s \in Slugs \ {new} : holder'[s] = IF stale /\ s = old /\ ~Taken(s) THEN Nobody ELSE holder[s]
  BY <1>1, <1>2, <1>3 DEF ListingTyped
<1>8. /\ alias' \in [Slugs -> Products \cup {Nobody}]
      /\ \A s \in Slugs \ {new} : alias'[s] = IF s = old THEN p ELSE alias[s]
  BY <1>1, <1>2, <1>3 DEF Aliased, ListingTyped
<1>9. form' \in [Editors -> Opened \cup {Closed}] /\ form'[e] = Closed /\ \A d \in Editors \ {e} : form'[d] = form[d]
  BY <1>1, <1>3 DEF ListingTyped
<1>10. ListingTyped'
  <2>1. sizeAt' \in [Slugs -> Products \cup {Nobody}] /\ retired' \subseteq Slugs
    BY <1>1, <1>2, <1>3, SizedIs
  <2> QED BY <1>1, <1>3, <1>6, <1>7, <1>8, <1>9, <2>1 DEF ListingTyped
<1>11. HolderIsThere'
  <2> SUFFICES ASSUME NEW q \in Products, There(q)' PROVE holder'[product'[q].slug] = q
    BY DEF HolderIsThere
  <2>1. CASE q = p
    BY <1>6, <1>7, <2>1
  <2>2. CASE q # p
    <3>1. product'[q] = product[q] /\ There(q)
      BY <1>6, <2>2 DEF There
    <3>2. product[q].slug \in Slugs \ {new} /\ Taken(product[q].slug)
      BY <1>1, <1>3, <2>2, <3>1, ProductIs DEF Taken
    <3>3. holder'[product[q].slug] = holder[product[q].slug]
      BY <1>7, <3>2
    <3> QED BY <3>1, <3>3 DEF ListingInv, HolderIsThere
  <2> QED BY <2>1, <2>2
<1>12. LeftBehind'
  <2> SUFFICES ASSUME NEW s \in Slugs, holder'[s] \notin overwritten' \cup {Nobody}
               PROVE  product'[holder'[s]].slug = s \/ (~Taken(s)' /\ alias'[s] = holder'[s])
    BY DEF LeftBehind
  <2>1. CASE s = new
    BY <1>6, <1>7, <2>1
  <2>2. CASE s # new
    <3> DEFINE x == holder[s]
    <3>1. holder'[s] = x /\ x # Nobody /\ ~(stale /\ s = old /\ ~Taken(s))
      BY <1>7, <2>2
    <3>2. x \notin overwritten /\ x \in Products
      BY <1>1, <1>3, <3>1 DEF ListingTyped
    <3>3. product[x].slug = s \/ (~Taken(s) /\ alias[s] = x)
      BY <3>1, <3>2 DEF ListingInv, LeftBehind
    <3>4. x = p => ~stale
      BY <1>3, <3>1
    <3> HIDE DEF x
    <3>5. CASE x = p /\ product[x].slug = s
      <4>1. s = old /\ There(p)
        BY <1>5, <3>4, <3>5
      <4>2. ~Taken(s)'
        <5>1. \A q \in Products \ {p} : product[q].slug # s
          BY <1>1, <1>2, <3>5, <4>1, OwnSlug DEF ListingInv
        <5> QED BY <1>6, <2>2, <5>1 DEF Taken
      <4>3. alias'[s] = p
        BY <1>8, <2>2, <4>1
      <4> QED BY <3>1, <3>5, <4>2, <4>3
    <3>6. CASE x # p /\ product[x].slug = s
      BY <1>6, <3>1, <3>2, <3>6
    <3>7. CASE ~Taken(s) /\ alias[s] = x
      <4>1. ~Taken(s)'
        BY <1>6, <2>2, <3>7 DEF Taken
      <4>2. s # old
        BY <1>2, <1>5, <3>1, <3>7 DEF Taken
      <4> QED BY <1>8, <2>2, <3>1, <3>7, <4>1, <4>2
    <3> QED BY <3>3, <3>5, <3>6, <3>7
  <2> QED BY <2>1, <2>2
<1>13. BinInv'
  <2>1. \A q \in Products : product'[q].active => product'[q].stamp = "none"
    BY <1>6 DEF ListingInv, BinInv
  <2>2. \A d \in Editors : form'[d].row.stamp = form'[d].read.stamp
    BY <1>9 DEF ListingInv, BinInv, Closed
  <2>3. ASSUME NEW q \in Products, ~product'[q].active, product'[q].stamp = "due"
        PROVE  away'[q] = "due" \/ q \in overwritten'
    <3>1. CASE q = p /\ ~stale
      <4>1. product[p].stamp = "due" /\ away'[p] = IF product[p].active THEN "fresh" ELSE away[p]
        BY <1>5, <1>6, <2>3, <3>1
      <4>2. ~product[p].active /\ (away[p] = "due" \/ p \in overwritten)
        BY <1>2, <4>1 DEF ListingInv, BinInv, BinClock, Purgeable
      <4> QED BY <1>3, <3>1, <4>1, <4>2
    <3>2. CASE q = p /\ stale
      BY <1>3, <3>2
    <3>3. CASE q # p
      BY <1>3, <1>6, <2>3, <3>3 DEF ListingInv, BinInv, BinClock, Purgeable
    <3> QED BY <3>1, <3>2, <3>3
  <2> QED BY <2>1, <2>2, <2>3 DEF BinInv, BinClock, Purgeable
<1> QED BY <1>10, <1>11, <1>12, <1>13 DEF ListingInv

LEMMA AgedIs ==
  ASSUME NEW row \in Row \cup {Gone}
  PROVE  /\ Aged(row) \in Row \cup {Gone}
         /\ Aged(row) \in Row <=> row \in Row
         /\ Aged(row).slug = row.slug /\ Aged(row).active = row.active
         /\ Aged(row).stamp = IF row.stamp = "fresh" THEN "due" ELSE row.stamp
<1>1. CASE row \in Row
  BY <1>1 DEF Aged, Row, Ages
<1>2. CASE row = Gone
  <2>1. Aged(Gone) = Gone
    BY DEF Aged, Gone
  <2> QED BY <1>2, <2>1 DEF Gone
<1> QED BY <1>1, <1>2

LEMMA MaturesIs ==
  ASSUME ListingTyped, NEW p \in Products, Matures(p)
  PROVE  /\ product' \in [Products -> Row \cup {Gone}]
         /\ product'[p] = Aged(product[p])
         /\ \A q \in Products \ {p} : product'[q] = product[q]
         /\ \A q \in Products : product'[q].slug = product[q].slug /\ product'[q].active = product[q].active
<1>1. product' = [product EXCEPT ![p] = Aged(@)] /\ product \in [Products -> Row \cup {Gone}]
  BY DEF Matures, ListingTyped
<1>2. /\ Aged(product[p]) \in Row \cup {Gone} /\ Aged(product[p]).slug = product[p].slug
      /\ Aged(product[p]).active = product[p].active
  <2>1. product[p] \in Row \cup {Gone}
    BY <1>1
  <2> QED BY <2>1, AgedIs
<1>3. product'[p] = Aged(product[p]) /\ \A q \in Products \ {p} : product'[q] = product[q]
  BY <1>1
<1> QED BY <1>1, <1>2, <1>3

LEMMA MaturesKeeps ==
  ASSUME ListingInv, NEW p \in Products, Matures(p)
  PROVE  ListingInv'
<1>1. ListingTyped
  BY DEF ListingInv
<1>2. /\ away' = [away EXCEPT ![p] = "due"]
      /\ form' = [e \in Editors |->
           IF form[e].product # p THEN form[e]
           ELSE [form[e] EXCEPT !.read = Aged(@), !.row = Aged(@)]]
      /\ UNCHANGED <<alias, sizeAt, retired, purging, holder, overwritten>>
  BY DEF Matures
<1>3. /\ product' \in [Products -> Row \cup {Gone}] /\ product'[p] = Aged(product[p])
      /\ \A q \in Products \ {p} : product'[q] = product[q]
      /\ \A q \in Products : product'[q].slug = product[q].slug /\ product'[q].active = product[q].active
  BY <1>1, MaturesIs
<1>4. ASSUME NEW e \in Editors
      PROVE  form'[e] \in Opened \cup {Closed} /\ form'[e].row.stamp = form'[e].read.stamp
  <2>1. CASE form[e].product # p
    <3>1. form'[e] = form[e]
      BY <1>2, <2>1
    <3> QED BY <3>1, FormIs DEF ListingInv, BinInv
  <2>2. CASE form[e].product = p
    <3> DEFINE f == [form[e] EXCEPT !.read = Aged(@), !.row = Aged(@)]
    <3>1. form[e] \in Opened /\ form'[e] = f
      BY <1>1, <1>2, <2>2, FormIs
    <3>2. f = [product |-> p, read |-> Aged(form[e].read), row |-> Aged(form[e].row)]
      BY <2>2, <3>1 DEF Opened
    <3>3. form[e].read \in Row /\ form[e].row \in Row
      BY <3>1 DEF Opened
    <3>4. Aged(form[e].read) \in Row /\ Aged(form[e].row) \in Row
      BY <3>3, AgedIs
    <3>5. Aged(form[e].read).stamp = Aged(form[e].row).stamp
      BY <3>3, AgedIs DEF ListingInv, BinInv
    <3> HIDE DEF f
    <3> QED BY <3>1, <3>2, <3>4, <3>5 DEF Opened
  <2> QED BY <2>1, <2>2
<1>5. form' \in [Editors -> Opened \cup {Closed}]
  BY <1>2, <1>4
<1>6. away' \in [Products -> Ages] /\ away'[p] = "due" /\ \A q \in Products \ {p} : away'[q] = away[q]
  BY <1>1, <1>2 DEF ListingTyped, Ages
<1>7. ListingTyped'
  BY <1>1, <1>2, <1>3, <1>5, <1>6 DEF ListingTyped
<1>8. HolderIsThere' /\ LeftBehind'
  BY <1>2, <1>3, SlugsStay
<1>9. product[p] \in Row \cup {Gone} /\ product'[p].stamp = IF product[p].stamp = "fresh" THEN "due" ELSE product[p].stamp
  BY <1>1, <1>3, ProductIs, AgedIs
<1>10. BinInv'
  <2>1. \A q \in Products : product'[q].active => product'[q].stamp = "none"
    BY <1>3, <1>9 DEF ListingInv, BinInv
  <2>2. BinClock'
    BY <1>2, <1>3, <1>6 DEF ListingInv, BinInv, BinClock, Purgeable
  <2> QED BY <1>4, <2>1, <2>2 DEF BinInv
<1> QED BY <1>7, <1>8, <1>10 DEF ListingInv

(* The job starts, or dies: no row changes.                                *)
LEMMA PurgingKeeps ==
  ASSUME ListingInv, PurgeStarts \/ PurgeDies
  PROVE  ListingInv'
<1>1. purging' \subseteq Products /\ UNCHANGED <<product, alias, sizeAt, retired, form, holder, away, overwritten>>
  BY DEF PurgeStarts, PurgeDies, Purgeable
<1>2. ListingTyped'
  BY <1>1 DEF ListingInv, ListingTyped
<1>3. BinInv'
  BY <1>1 DEF ListingInv, BinInv, BinClock, Purgeable
<1>4. HolderIsThere' /\ LeftBehind'
  BY <1>1, SlugsStay DEF ListingInv, ListingTyped
<1> QED BY <1>2, <1>3, <1>4 DEF ListingInv

LEMMA PurgeProductKeeps ==
  ASSUME ListingInv, NEW p \in Products, NEW ordered \in BOOLEAN, PurgeProduct(p, ordered)
  PROVE  ListingInv'
<1>1. purging' \subseteq Products /\ form' = form
  BY DEF PurgeProduct, ListingInv, ListingTyped
<1>2. CASE ordered
  <2>1. UNCHANGED <<product, alias, sizeAt, retired, holder, away, overwritten>>
    BY <1>2 DEF PurgeProduct
  <2>2. ListingTyped'
    BY <1>1, <2>1 DEF ListingInv, ListingTyped
  <2>3. BinInv'
    BY <1>1, <2>1 DEF ListingInv, BinInv, BinClock, Purgeable
  <2>4. HolderIsThere' /\ LeftBehind'
    BY <2>1, SlugsStay DEF ListingInv, ListingTyped
  <2> QED BY <2>2, <2>3, <2>4 DEF ListingInv
<1>3. CASE ~ordered
  <2>1. /\ product' = [product EXCEPT ![p] = Gone]
        /\ alias' = [s \in Slugs |-> IF alias[s] = p THEN Nobody ELSE alias[s]]
        /\ sizeAt' = [s \in Slugs |-> IF sizeAt[s] = p THEN Nobody ELSE sizeAt[s]]
        /\ retired' = {s \in retired : sizeAt[s] # p}
        /\ holder' = [s \in Slugs |-> IF holder[s] = p THEN Nobody ELSE holder[s]]
        /\ away' = [away EXCEPT ![p] = "none"]
        /\ overwritten' = overwritten \ {p}
    BY <1>3 DEF PurgeProduct, Without
  <2>2. ListingTyped /\ Nobody \notin Slugs
    BY NobodyAssumption DEF ListingInv
  <2>3. /\ product' \in [Products -> Row \cup {Gone}] /\ product'[p] = Gone
        /\ \A q \in Products \ {p} : product'[q] = product[q]
    BY <2>1, <2>2 DEF ListingTyped
  <2>4. away' \in [Products -> Ages] /\ \A q \in Products \ {p} : away'[q] = away[q]
    BY <2>1, <2>2 DEF ListingTyped, Ages
  <2>5. /\ alias' \in [Slugs -> Products \cup {Nobody}]
        /\ holder' \in [Slugs -> Products \cup {Nobody}]
        /\ sizeAt' \in [Slugs -> Products \cup {Nobody}] /\ retired' \subseteq Slugs
    BY <2>1, <2>2 DEF ListingTyped
  <2>6. ListingTyped'
    BY <1>1, <2>2, <2>3, <2>4, <2>5 DEF ListingTyped
  <2>7. HolderIsThere'
    <3> SUFFICES ASSUME NEW q \in Products, There(q)' PROVE holder'[product'[q].slug] = q
      BY DEF HolderIsThere
    <3>1. q # p /\ product'[q] = product[q] /\ There(q)
      BY <2>3 DEF There
    <3>2. product[q].slug \in Slugs /\ holder[product[q].slug] = q
      BY <2>2, <3>1, ProductIs DEF ListingInv, HolderIsThere
    <3> QED BY <2>1, <3>1, <3>2
  <2>8. LeftBehind'
    <3> SUFFICES ASSUME NEW s \in Slugs, holder'[s] \notin overwritten' \cup {Nobody}
                 PROVE  product'[holder'[s]].slug = s \/ (~Taken(s)' /\ alias'[s] = holder'[s])
      BY DEF LeftBehind
    <3> DEFINE x == holder[s]
    <3>1. holder'[s] = x /\ x # p /\ x # Nobody
      BY <2>1
    <3>2. x \in Products /\ x \notin overwritten
      BY <2>1, <2>2, <3>1 DEF ListingTyped
    <3>3. product[x].slug = s \/ (~Taken(s) /\ alias[s] = x)
      BY <3>1, <3>2 DEF ListingInv, LeftBehind
    <3> HIDE DEF x
    <3>4. ~Taken(s) => ~Taken(s)'
      BY <2>2, <2>3 DEF Taken, Gone
    <3>5. alias[s] = x => alias'[s] = x
      BY <2>1, <3>1
    <3> QED BY <2>3, <3>1, <3>2, <3>3, <3>4, <3>5
  <2>9. BinInv'
    BY <1>1, <2>1, <2>3, <2>4 DEF ListingInv, BinInv, BinClock, Purgeable, Gone
  <2> QED BY <2>6, <2>7, <2>8, <2>9 DEF ListingInv
<1> QED BY <1>2, <1>3

(* A size more, or one switched off or on: no product changes.             *)
LEMMA SizesKeep ==
  ASSUME ListingInv, NEW t \in Slugs, SwitchSize(t) \/ \E p \in Products : AddSize(p, t)
  PROVE  ListingInv'
<1>1. ListingTyped /\ UNCHANGED <<product, alias, form, purging, holder, away, overwritten>>
  BY DEF ListingInv, SwitchSize, AddSize
<1>2. sizeAt' \in [Slugs -> Products \cup {Nobody}] /\ retired' \subseteq Slugs
  BY <1>1, SizedIs DEF SwitchSize, ListingTyped
<1>3. ListingTyped'
  BY <1>1, <1>2 DEF ListingTyped
<1>4. BinInv'
  BY <1>1 DEF ListingInv, BinInv, BinClock, Purgeable
<1>5. HolderIsThere' /\ LeftBehind'
  BY <1>1, SlugsStay DEF ListingTyped
<1> QED BY <1>3, <1>4, <1>5 DEF ListingInv

LEMMA EditListingsKeeps ==
  ASSUME ListingInv, EditListings
  PROVE  ListingInv'
<1>1. CASE \E p \in Products : BinProduct(p) \/ \E s \in Slugs : CreateProduct(p, s)
  BY <1>1, BinProductKeeps, CreateProductKeeps
<1>2. CASE \E e \in Editors : OpenForm(e) \/ SaveForm(e) \/ AbandonForm(e)
  BY <1>2, OpenFormKeeps, SaveFormKeeps, AbandonFormKeeps
<1>3. CASE PurgeStarts \/ PurgeDies
  BY <1>3, PurgingKeeps
<1>4. CASE \E p \in Products, ordered \in BOOLEAN : PurgeProduct(p, ordered)
  BY <1>4, PurgeProductKeeps
<1>5. CASE \E p \in Products : Matures(p)
  BY <1>5, MaturesKeeps
<1>6. CASE \E s \in Slugs : SwitchSize(s) \/ \E p \in Products : AddSize(p, s)
  BY <1>6, SizesKeep
<1> QED BY <1>1, <1>2, <1>3, <1>4, <1>5, <1>6 DEF EditListings

(***************************************************************************)
(* The page                                                                *)
(***************************************************************************)
PageInv == dropping \in Nat /\ PageTrue

(* Both say what they do to the page as they change what it shows.         *)
LEMMA SignalKeeps ==
  ASSUME PageInv, Autocommit \/ Transaction
  PROVE  PageInv'
<1>1. CASE Autocommit
  BY <1>1 DEF PageInv, PageTrue, Autocommit
<1>2. CASE Transaction
  BY <1>2 DEF PageInv, PageTrue, Transaction
<1> QED BY <1>1, <1>2

(* The others change nothing that a page shows.                            *)
LEMMA SameTruth ==
  ASSUME ListingTyped, review' = review,
         product' = product \/ \E p \in Products : Matures(p)
  PROVE  Truth' = Truth
<1>1. \A q \in Products : product'[q].slug = product[q].slug /\ product'[q].active = product[q].active
  BY MaturesIs
<1>2. Listed' = Listed
  BY <1>1 DEF Listed
<1>3. {<<p, product[p].slug>> : p \in Listed}' = {<<p, product[p].slug>> : p \in Listed}
  BY <1>1, <1>2 DEF Listed
<1>4. Stars' = Stars
  BY DEF Stars, Visible, Posted
<1> QED BY <1>3, <1>4 DEF Truth

LEMMA QuietKeeps ==
  ASSUME PageInv, ListingTyped, UNCHANGED <<cache, review>>,
         product' = product \/ \E p \in Products : Matures(p)
  PROVE  PageInv'
<1>1. Truth' = Truth
  BY SameTruth
<1> QED BY <1>1 DEF PageInv, PageTrue, cache

LEMMA CacheKeeps ==
  ASSUME PageInv, ListingTyped, Compute \/ Store \/ Expire \/ Drop \/ DropFails
  PROVE  PageInv'
<1>1. product' = product /\ review' = review
  BY DEF Compute, Store, Expire, Drop, DropFails, listings, reviews
<1>2. Truth' = Truth
  BY <1>1, SameTruth
<1>3. CASE Compute
  BY <1>2, <1>3 DEF PageInv, PageTrue, Compute
<1>4. CASE Store
  BY <1>2, <1>4 DEF PageInv, PageTrue, Store
<1>5. CASE Expire
  BY <1>5 DEF PageInv, PageTrue, Expire
<1>6. CASE Drop
  BY <1>6 DEF PageInv, PageTrue, Drop
<1>7. CASE DropFails
  <2>1. dropping' \in Nat
    BY <1>7 DEF PageInv, DropFails
  <2>2. page' # NoPage => excused'
    BY <1>7 DEF DropFails
  <2> QED BY <2>1, <2>2 DEF PageInv, PageTrue
<1> QED BY <1>3, <1>4, <1>5, <1>6, <1>7

LEMMA EditListingsKeepsPage ==
  ASSUME PageInv, ListingTyped, EditListings, UNCHANGED reviews
  PROVE  PageInv'
<1>1. CASE Autocommit \/ Transaction
  BY <1>1, SignalKeeps
<1>2. CASE /\ UNCHANGED cache
           /\ \/ PurgeStarts \/ PurgeDies
              \/ \E e \in Editors : OpenForm(e) \/ AbandonForm(e)
              \/ \E p \in Products : Matures(p)
  <2>1. product' = product \/ \E p \in Products : Matures(p)
    BY <1>2 DEF PurgeStarts, PurgeDies, OpenForm, AbandonForm
  <2> QED BY <1>2, <2>1, QuietKeeps DEF reviews
<1> QED BY <1>1, <1>2 DEF EditListings

LEMMA EditReviewsKeepsPage ==
  ASSUME PageInv, ListingTyped, EditReviews, UNCHANGED listings
  PROVE  PageInv'
<1>1. CASE Autocommit \/ Transaction
  BY <1>1, SignalKeeps
<1>2. CASE /\ UNCHANGED cache
           /\ \E h \in Hands :
                \/ CountPlaces(h) \/ GiveUp(h)
                \/ \E u \in Authors :
                     \/ \E stars \in Ratings : OpenEdit(h, u, stars)
                     \/ \E to \in BOOLEAN : OpenHide(h, u, to) \/ OpenPick(h, u, to)
  <2>1. review' = review
    BY <1>2 DEF CountPlaces, GiveUp, OpenEdit, OpenHide, OpenPick, Read
  <2> QED BY <1>2, <2>1, QuietKeeps DEF listings
<1> QED BY <1>1, <1>2 DEF EditReviews

(***************************************************************************)
(* The shop                                                                *)
(***************************************************************************)
Inv == ListingInv /\ ReviewInv /\ PageInv

LEMMA InitHolds == Init => Inv
<1> SUFFICES ASSUME Init PROVE Inv
  OBVIOUS
<1>1. ListingInv
  <2>1. ListingTyped
    BY DEF Init, ListingInit, ListingTyped, Ages
  <2>2. \A p \in Products : product[p] = Gone
    BY DEF Init, ListingInit
  <2>3. HolderIsThere /\ LeftBehind
    BY <2>2 DEF Init, ListingInit, HolderIsThere, LeftBehind, There
  <2>4. BinInv
    BY <2>2 DEF Init, ListingInit, BinInv, BinClock, Purgeable, Gone, Closed
  <2> QED BY <2>1, <2>3, <2>4 DEF ListingInv
<1>2. ReviewInv
  <2>1. ReviewTyped
    BY DEF Init, ReviewInit, ReviewTyped, Holding, Empty
  <2> QED BY <2>1 DEF Init, ReviewInit, ReviewInv, BanInv
<1>3. PageInv
  BY DEF Init, PageInv, PageTrue
<1> QED BY <1>1, <1>2, <1>3 DEF Inv

LEMMA NextKeeps == Inv /\ [Next]_vars => Inv'
<1> SUFFICES ASSUME Inv, [Next]_vars PROVE Inv'
  OBVIOUS
<1>1. ListingInv /\ ReviewInv /\ PageInv /\ ListingTyped
  BY DEF Inv, ListingInv
<1>2. ASSUME UNCHANGED listings PROVE ListingInv'
  <2>1. UNCHANGED <<product, alias, sizeAt, retired, form, purging, holder, away, overwritten>>
    BY <1>2 DEF listings
  <2>2. ListingTyped'
    BY <1>1, <2>1 DEF ListingTyped
  <2>3. BinInv'
    BY <1>1, <2>1 DEF ListingInv, BinInv, BinClock, Purgeable
  <2>4. HolderIsThere' /\ LeftBehind'
    BY <1>1, <2>1, SlugsStay DEF ListingTyped
  <2> QED BY <2>2, <2>3, <2>4 DEF ListingInv
<1>3. ASSUME UNCHANGED reviews PROVE ReviewInv'
  BY <1>1, <1>3 DEF reviews, ReviewInv, ReviewTyped, BanInv, Posted
<1>4. CASE Compute \/ Store \/ Expire \/ Drop \/ DropFails
  <2>1. UNCHANGED listings /\ UNCHANGED reviews
    BY <1>4 DEF Compute, Store, Expire, Drop, DropFails
  <2> QED BY <1>1, <1>2, <1>3, <1>4, <2>1, CacheKeeps DEF Inv
<1>5. CASE EditListings /\ UNCHANGED reviews
  BY <1>1, <1>3, <1>5, EditListingsKeeps, EditListingsKeepsPage DEF Inv
<1>6. CASE EditReviews /\ UNCHANGED listings
  BY <1>1, <1>2, <1>6, EditReviewsKeeps, EditReviewsKeepsPage DEF Inv
<1>7. CASE UNCHANGED vars
  <2>1. UNCHANGED listings /\ UNCHANGED <<cache, review>> /\ UNCHANGED reviews /\ product' = product
    BY <1>7 DEF vars, listings, reviews
  <2> QED BY <1>1, <1>2, <1>3, <2>1, QuietKeeps DEF Inv
<1> QED BY <1>4, <1>5, <1>6, <1>7 DEF Next

LEMMA InvIsKept == Spec => []Inv
<1> QED BY InitHolds, NextKeeps, PTL DEF Spec

-----------------------------------------------------------------------------
(* A link leads who asks to the product that had it last, or to none while *)
(* that one is not shown (models.py:463), whatever renames and purges came *)
(* between, unless a form saved from an old copy undid one, a size took    *)
(* the slug, or a product was made under a retired one; and the query of   *)
(* the nightly job selects nothing that was on the shop within its days.   *)
THEOREM ListingsDoHold == Spec => []ListingsHold
<1>1. Inv => ListingsHold
  <2> SUFFICES ASSUME Inv PROVE ListingsHold
    OBVIOUS
  <2>1. ListingInv /\ ListingTyped
    BY DEF Inv, ListingInv
  <2>2. \A e \in Editors : form[e] = Closed \/ form[e].product \in Products
    BY <2>1, FormIs
  <2>3. \A p, q \in Products : There(p) /\ product[p].slug = product[q].slug => p = q
    BY <2>1, OwnSlug DEF ListingInv
  <2>4. ListingTypeOK
    BY <2>1, <2>2, <2>3 DEF ListingInv, ListingTyped, BinInv, ListingTypeOK
  <2>5. ASSUME NEW s \in Slugs, NEW staff \in BOOLEAN,
               NEW last \in Products, last = holder[s], last \notin overwritten
        PROVE  LET got == Resolve(s, staff) IN
                 \/ got = Shown(last, staff)
                 \/ got = SizeOf(s) /\ got # Nobody
                    /\ (product[last].slug = s => Shown(last, staff) = Nobody)
                 \/ got = alias[s] /\ Taken(s) /\ Shown(last, staff) = Nobody
    <3>1. product[last].slug = s \/ (~Taken(s) /\ alias[s] = last)
      BY <2>1, <2>5, NobodyAssumption DEF ListingInv, LeftBehind
    <3>2. \A q : Shown(q, staff) \in {q, Nobody}
      BY DEF Shown
    <3>3. CASE product[last].slug = s
      <4>1. There(last) /\ Taken(s)
        BY <2>1, <3>3, ProductIs DEF Taken
      <4>2. \A q \in Products : product[q].slug = s => q = last
        BY <2>3, <3>3, <4>1
      <4>3. OwnerOf(s) = last
        BY <3>3, <4>1, <4>2 DEF OwnerOf
      <4> QED BY <3>2, <3>3, <4>1, <4>3 DEF Resolve
    <3>4. CASE ~Taken(s) /\ alias[s] = last
      <4>1. product[last].slug # s
        BY <3>4 DEF Taken
      <4>2. Shown(OwnerOf(s), staff) = Nobody
        BY <3>4 DEF OwnerOf, Shown
      <4> QED BY <3>2, <3>4, <4>1, <4>2 DEF Resolve
    <3> QED BY <3>1, <3>3, <3>4
  <2>6. LinksLead
    BY <2>1, <2>5 DEF LinksLead, ListingTyped
  <2> QED BY <2>1, <2>4, <2>6 DEF ListingsHold, ListingInv, BinInv
<1> QED BY <1>1, InvIsKept, PTL

(* The strip of the home page is as long as it can be, shows no review     *)
(* twice and the picked ones first, and nothing that staff took down,      *)
(* whatever requests overlapped (reviews/views.py:143, models.py:37).      *)
THEOREM TheStripIsSound == Spec => []StripSound
<1>1. Inv => StripSound
  <2> SUFFICES ASSUME Inv PROVE StripSound
    OBVIOUS
  <2>1. ReviewTyped /\ BanInv
    BY DEF Inv, ReviewInv
  <2>2. StripFull /\ ToSet(Strip) \subseteq Visible
    BY <2>1, StripIsFull
  <2>3. \A h \in Hands : hand[h].does \in {"nothing", "edit", "hide", "pick", "place"}
    BY <2>1 DEF ReviewTyped, Holding
  <2>4. ReviewTypeOK
    BY <2>1, <2>3 DEF ReviewTypeOK, ReviewTyped, BanInv
  <2>5. BannedStaysOff
    BY <2>1, <2>2 DEF BannedStaysOff, BanInv, Visible
  <2> QED BY <2>2, <2>4, <2>5 DEF StripSound
<1> QED BY <1>1, InvIsKept, PTL

(* No handler leaves a false page behind: one is about to be dropped, or   *)
(* met the change on its way (reviews/signals.py:3, products/cache.py).    *)
THEOREM ThePageIsTrue == Spec => []PageTrue
<1>1. Inv => PageTrue
  BY DEF Inv, PageInv
<1> QED BY <1>1, InvIsKept, PTL

-----------------------------------------------------------------------------
(***************************************************************************)
(* The sizes of a product.                                                 *)
(***************************************************************************)
Rows    == [Sizes -> SizeRow \cup {NoRow}]
Places  == {"idle", "unset", "save", "repair", "promote", "mirror", "commit", "product", "sizes"}
Draft   == [price : Prices \cup {NoPrice}, default : BOOLEAN, active : BOOLEAN]
Request == [at : Places, kind : {"none", "form", "retire", "bulk", "product"},
            size : Sizes \cup {NoSize}, row : Draft, wrote : SUBSET Sizes, rows : Rows,
            chosen : Sizes \cup {NoSize}, price : Prices \cup {NoPrice},
            default : Sizes \cup {NoSize}]

OneFlag(rows) == \A v, w \in Flagged(rows) : v = w

Typed ==
  /\ size \in Rows /\ OneFlag(size) /\ card \in Prices
  /\ req \in [Requests -> Request]
  /\ begun \in 0 .. MaxBegun
  /\ alone \in [Requests -> BOOLEAN] /\ settled \in BOOLEAN

(* The flags a transaction has written.                                    *)
Claims(r) == {v \in req[r].wrote : req[r].rows[v].default}

Sound(r) ==
  /\ req[r].at = "idle" => req[r] = Idle
  /\ req[r].at \in {"idle", "unset", "save", "product", "sizes"} => req[r].wrote = {}
  /\ req[r].at \in {"unset", "save"} => req[r].size \in Sizes /\ NewRow(r) \in SizeRow
  /\ req[r].at = "unset" => req[r].kind = "form"
  /\ req[r].at \in {"product", "sizes"} => req[r].row.price \in Prices /\ req[r].kind = "product"
  /\ req[r].at = "promote" => req[r].chosen \in Sizes /\ View(r)[req[r].chosen] \in SizeRow
  /\ \A v \in req[r].wrote : req[r].rows[v] \in SizeRow

Locks(r) ==
  /\ \A q \in Requests \ {r} : req[q].wrote \cap req[r].wrote = {}
  /\ \A v, w \in Claims(r) : v = w
  /\ Claims(r) # {} => /\ Flagged(size) \subseteq req[r].wrote
                       /\ \A q \in Requests \ {r} : Claims(q) = {}

Defaults(rows) == Actives(rows) \cap Flagged(rows)

(* One default, the due one, where any size is active.                     *)
Settles(r) == Actives(View(r)) # {} => Defaults(View(r)) = {Due(r, View(r))}

Course(r) ==
  /\ req[r].at = "unset" => NewRow(r).default
  /\ req[r].at = "save" => NewRow(r).default \/ Defaults(size) = {req[r].default} \ {NoSize}
  /\ req[r].at = "repair" =>
       \/ Defaults(View(r)) = {Due(r, View(r))}
       \/ Defaults(View(r)) = {} /\ Due(r, View(r)) = Smallest(Actives(View(r)))
  /\ req[r].at = "promote" =>
       /\ Defaults(View(r)) = {} /\ Actives(View(r)) # {}
       /\ req[r].chosen = Smallest(Actives(View(r))) /\ Due(r, View(r)) = req[r].chosen
  /\ req[r].at \in {"mirror", "commit"} => Settles(r)
  /\ req[r].at = "commit" =>
       IF Actives(View(r)) = {} THEN req[r].price = NoPrice
       ELSE req[r].price = View(r)[Due(r, View(r))].price

Undisturbed(r) == alone[r] => Course(r) /\ \A q \in Requests \ {r} : req[q].at = "idle"

Rest == settled => Quiet /\ OneDefault /\ CardShowsDefault

SizesInv ==
  /\ Typed
  /\ \A r \in Requests : Sound(r) /\ Locks(r) /\ Undisturbed(r)
  /\ Rest

-----------------------------------------------------------------------------
(* Rows, and the smallest of a set of sizes.                               *)
LEMMA RowIs ==
  ASSUME NEW row \in SizeRow \cup {NoRow}
  PROVE  /\ row \in Draft
         /\ row \in SizeRow <=> row # NoRow
         /\ row.default \/ row.active => row \in SizeRow
         /\ row \in SizeRow => row.price \in Prices /\ row.price # NoPrice
         /\ row.price = NoPrice => row = NoRow
<1>1. CASE row \in SizeRow
  <2>1. PICK p \in Prices, d, a \in BOOLEAN : row = [price |-> p, default |-> d, active |-> a]
    BY <1>1 DEF SizeRow
  <2>2. p # NoPrice
    BY PricesAssumption
  <2> QED BY <1>1, <2>1, <2>2 DEF Draft, NoRow
<1>2. CASE row = NoRow
  <2>1. NoRow \notin SizeRow
    BY PricesAssumption DEF SizeRow, NoRow
  <2> QED BY <1>2, <2>1 DEF Draft, NoRow
<1> QED
  BY <1>1, <1>2

LEMMA UnflaggedIs ==
  ASSUME NEW rows \in Rows, NEW S
  PROVE  /\ Unflagged(rows, S) \in Rows
         /\ \A v \in Sizes :
              /\ Unflagged(rows, S)[v] \in SizeRow <=> rows[v] \in SizeRow
              /\ Unflagged(rows, S)[v].default <=> rows[v].default /\ v \notin S
              /\ Unflagged(rows, S)[v].active = rows[v].active
              /\ Unflagged(rows, S)[v].price = rows[v].price
<1> DEFINE new == Unflagged(rows, S)
<1>1. ASSUME NEW v \in Sizes
      PROVE  /\ new[v] = [rows[v] EXCEPT !.default = @ /\ v \notin S]
             /\ new[v] \in SizeRow \cup {NoRow}
             /\ new[v] \in SizeRow <=> rows[v] \in SizeRow
             /\ new[v].default <=> rows[v].default /\ v \notin S
             /\ new[v].active = rows[v].active /\ new[v].price = rows[v].price
  <2>1. new[v] = [rows[v] EXCEPT !.default = @ /\ v \notin S]
    BY DEF Unflagged
  <2>2. CASE rows[v] \in SizeRow
    BY <2>1, <2>2 DEF SizeRow
  <2>3. CASE rows[v] = NoRow
    <3>1. rows[v].default = FALSE
      BY <2>3 DEF NoRow
    <3>2. new[v] = [rows[v] EXCEPT !.default = FALSE]
      BY <2>1, <3>1
    <3>3. NoRow \notin SizeRow
      BY PricesAssumption DEF NoRow, SizeRow
    <3>4. [NoRow EXCEPT !.default = FALSE] = NoRow
      <4>1. NoRow \in [price : {NoPrice}, default : BOOLEAN, active : BOOLEAN] /\ NoRow.default = FALSE
        BY DEF NoRow
      <4> QED BY <4>1
    <3> QED BY <2>3, <3>1, <3>2, <3>3, <3>4
  <2> QED BY <2>2, <2>3 DEF Rows
<1>2. new \in Rows
  <2>1. \A v \in Sizes : new[v] \in SizeRow \cup {NoRow}
    BY <1>1
  <2>2. new = [v \in Sizes |-> new[v]]
    BY DEF Unflagged
  <2> HIDE DEF new
  <2> QED BY <2>1, <2>2 DEF Rows
<1> QED
  BY <1>1, <1>2

LEMMA SmallestIs ==
  ASSUME NEW S \in SUBSET Sizes
  PROVE  /\ S = {} <=> Smallest(S) = NoSize
         /\ S # {} => Smallest(S) \in S
         /\ Smallest(S) \in Sizes \cup {NoSize}
         /\ \A v : S = {v} => Smallest(S) = v
<1>1. Sizes \subseteq Nat \ {NoSize}
  BY SizesAssumption
<1>2. CASE S = {}
  BY <1>2 DEF Smallest
<1>3. CASE S # {}
  <2>1. \E v \in S : \A w \in S : v <= w
    BY <1>1, <1>3, Least
  <2>2. Smallest(S) \in S
    BY <1>3, <2>1 DEF Smallest
  <2> QED BY <1>1, <1>3, <2>2
<1> QED
  BY <1>2, <1>3

LEMMA ViewIs ==
  ASSUME Typed, NEW r \in Requests
  PROVE  /\ req[r] \in Request /\ View(r) \in Rows
         /\ \A v \in Sizes : View(r)[v] = IF v \in req[r].wrote THEN req[r].rows[v] ELSE size[v]
BY DEF Typed, View, Request, Rows

(* A transaction sees the flag at most once.                               *)
LEMMA ViewHasOneFlag ==
  ASSUME SizesInv, NEW r \in Requests
  PROVE  OneFlag(View(r))
<1>1. /\ \A v \in Sizes : View(r)[v] = IF v \in req[r].wrote THEN req[r].rows[v] ELSE size[v]
      /\ req[r].wrote \subseteq Sizes /\ Locks(r) /\ OneFlag(size)
  BY ViewIs DEF SizesInv, Typed, Request
<1> QED
  BY <1>1 DEF OneFlag, Flagged, Locks, Claims

(* What a request asks for stays a row while sizes are never forgotten.    *)
LEMMA NewRowStays ==
  ASSUME NEW q, size \in Rows, size' \in Rows, req'[q] = req[q],
         \A v \in Sizes : size[v] \in SizeRow => size'[v] \in SizeRow,
         req[q].size \in Sizes, NewRow(q) \in SizeRow
  PROVE  NewRow(q)' \in SizeRow
<1> DEFINE v == req[q].size
<1>1. /\ size[v] \in SizeRow \cup {NoRow} /\ size'[v] \in SizeRow \cup {NoRow}
      /\ size[v] \in SizeRow => size'[v] \in SizeRow
  BY DEF Rows
<1>2. CASE req[q].kind = "retire"
  <2>1. size[v] \in SizeRow
    <3> SUFFICES ASSUME size[v] = NoRow PROVE FALSE
      BY <1>1
    <3>1. NewRow(q) = [NoRow EXCEPT !.active = FALSE, !.default = FALSE]
      BY <1>2 DEF NewRow
    <3>2. NewRow(q) = NoRow
      BY <3>1 DEF NoRow
    <3> QED BY <3>2, PricesAssumption DEF NoRow, SizeRow
  <2>2. size'[v] \in SizeRow
    BY <1>1, <2>1
  <2> QED BY <1>2, <2>2 DEF NewRow, SizeRow
<1>3. CASE req[q].kind = "bulk"
  <2>1. req[q].row.price \in Prices
    BY <1>1, <1>3 DEF NewRow, SizeRow, NoRow
  <2> QED BY <1>1, <1>3, <2>1 DEF NewRow, SizeRow, NoRow
<1>4. CASE req[q].kind \notin {"retire", "bulk"}
  BY <1>4 DEF NewRow
<1> QED
  BY <1>2, <1>3, <1>4

LEMMA IdleIs ==
  /\ Idle \in Request /\ Idle.at = "idle" /\ Idle.wrote = {}
  /\ NoRow \in Draft /\ NoRow.default = FALSE
<1>1. NoRow \in Draft /\ NoRow.default = FALSE /\ [v \in Sizes |-> NoRow] \in Rows
  BY DEF NoRow, Draft, Rows
<1> QED
  BY <1>1 DEF Idle, Request, Places

-----------------------------------------------------------------------------
(***************************************************************************)
(* The ways a step may go.  A request works on its own rows;               *)
(***************************************************************************)
LEMMA StepKeeps ==
  ASSUME SizesInv, NEW r \in Requests, NEW t \in Request, Step(r, t), size' = size, card' \in Prices,
         req[r].at # "idle", (Sound(r) /\ Locks(r))', alone[r] => Course(r)'
  PROVE  SizesInv'
<1>1. /\ req' \in [Requests -> Request] /\ req'[r] = t
      /\ \A q \in Requests \ {r} : req'[q] = req[q]
      /\ begun' = begun /\ alone' = alone /\ settled' = settled
  BY DEF SizesInv, Typed, Step
<1>2. Typed'
  BY <1>1 DEF SizesInv, Typed, OneFlag, Flagged
<1>3. ASSUME NEW q \in Requests PROVE (Sound(q) /\ Locks(q) /\ Undisturbed(q))'
  <2>1. Sound(q) /\ Locks(q) /\ Undisturbed(q)
    BY DEF SizesInv
  <2>2. CASE q = r
    BY <1>1, <2>1, <2>2 DEF Undisturbed
  <2>3. CASE q # r
    <3>1. req'[q] = req[q] /\ ~alone[q]
      BY <1>1, <2>1, <2>3 DEF Undisturbed
    <3>2. NewRow(q)' = NewRow(q) /\ View(q)' = View(q) /\ Claims(q)' = Claims(q)
      BY <3>1 DEF NewRow, View, Claims
    <3>3. Sound(q)'
      BY <2>1, <3>1, <3>2 DEF Sound
    <3>4. /\ \A p \in Requests \ {q} : req'[p].wrote \cap req'[q].wrote = {}
          /\ Claims(q)' # {} => \A p \in Requests \ {q} : Claims(p)' = {}
      <4>1. ASSUME NEW p \in Requests \ {q}
            PROVE  /\ req'[p].wrote \cap req'[q].wrote = {}
                   /\ Claims(q)' # {} => Claims(p)' = {}
        <5>1. CASE p = r
          BY <2>3, <5>1 DEF Locks
        <5>2. CASE p # r
          <6>1. req'[p] = req[p] /\ Claims(p)' = Claims(p)
            BY <1>1, <5>2 DEF Claims
          <6> QED BY <2>1, <3>1, <3>2, <6>1 DEF Locks
        <5> QED BY <5>1, <5>2
      <4> QED BY <4>1
    <3>5. Locks(q)'
      BY <2>1, <3>1, <3>2, <3>4 DEF Locks, Flagged
    <3> QED BY <1>1, <3>1, <3>3, <3>5 DEF Undisturbed
  <2> QED BY <2>2, <2>3
<1>4. ~settled
  BY DEF SizesInv, Rest, Quiet
<1> QED
  BY <1>1, <1>2, <1>3, <1>4 DEF SizesInv, Rest

(* it moves the committed rows, and then holds none;                       *)
LEMMA MoveKeeps ==
  ASSUME SizesInv, NEW r \in Requests, NEW t \in Request, req' = [req EXCEPT ![r] = t],
         size' \in Rows, OneFlag(size)', card' \in Prices, begun' = begun, alone' = alone,
         req[r].at # "idle", t.wrote = {}, Sound(r)', alone[r] => Course(r)',
         \A v \in Sizes : size[v] \in SizeRow => size'[v] \in SizeRow,
         Claims(r) = {} => Flagged(size') \subseteq Flagged(size),
         settled' \in BOOLEAN, Rest'
  PROVE  SizesInv'
<1>1. /\ req' \in [Requests -> Request] /\ req'[r] = t
      /\ \A q \in Requests \ {r} : req'[q] = req[q]
  BY DEF SizesInv, Typed
<1>2. Typed'
  BY <1>1 DEF SizesInv, Typed
<1>3. ASSUME NEW q \in Requests PROVE (Sound(q) /\ Locks(q) /\ Undisturbed(q))'
  <2>1. Sound(q) /\ Locks(q) /\ Undisturbed(q)
    BY DEF SizesInv
  <2>2. CASE q = r
    <3>1. req'[q].wrote = {} /\ Claims(q)' = {}
      BY <1>1, <2>2 DEF Claims
    <3> QED BY <1>1, <2>1, <2>2, <3>1 DEF Locks, Undisturbed
  <2>3. CASE q # r
    <3>1. req'[q] = req[q] /\ ~alone[q] /\ size \in Rows
      BY <1>1, <2>1, <2>3 DEF Undisturbed, SizesInv, Typed
    <3>2. /\ Claims(q)' = Claims(q)
          /\ \A p \in Requests : Claims(p)' \subseteq Claims(p) /\ req'[p].wrote \subseteq req[p].wrote
      <4>1. req'[r].wrote = {} /\ Claims(r)' = {}
        BY <1>1 DEF Claims
      <4>2. \A p \in Requests \ {r} : Claims(p)' = Claims(p)
        BY <1>1 DEF Claims
      <4> QED BY <1>1, <2>3, <4>1, <4>2
    <3>3. Claims(q) # {} => Flagged(size') \subseteq req[q].wrote
      BY <2>1, <2>3 DEF Locks
    <3>4. Locks(q)'
      BY <2>1, <3>1, <3>2, <3>3 DEF Locks
    <3>5. req[q].size \in Sizes /\ NewRow(q) \in SizeRow => NewRow(q)' \in SizeRow
      BY <3>1, NewRowStays
    <3>6. req[q].chosen \in Sizes /\ View(q)[req[q].chosen] \in SizeRow => View(q)'[req[q].chosen] \in SizeRow
      BY <3>1 DEF View
    <3>7. Sound(q)'
      BY <2>1, <3>1, <3>5, <3>6 DEF Sound
    <3> QED BY <3>1, <3>4, <3>7 DEF Undisturbed
  <2> QED BY <2>2, <2>3
<1> QED
  BY <1>2, <1>3 DEF SizesInv

(* or it begins, and what ran alone until then no longer does.             *)
LEMMA BeginKeeps ==
  ASSUME SizesInv, NEW r \in Requests, NEW kind \in {"form", "retire", "bulk", "product"},
         NEW v \in Sizes \cup {NoSize}, NEW row \in Draft, NEW at \in {"unset", "save", "product"},
         Begin(r, kind, v, row, at),
         at \in {"unset", "save"} => v \in Sizes /\ NewRow(r)' \in SizeRow,
         at = "unset" => kind = "form" /\ row.default,
         at = "product" => row.price \in Prices /\ kind = "product"
  PROVE  SizesInv'
<1> DEFINE d == Smallest(Actives(size) \cap Flagged(size))
           t == [Idle EXCEPT !.at = at, !.kind = kind, !.size = v, !.row = row, !.default = d]
<1>1. Defaults(size) \in SUBSET Sizes /\ d = Smallest(Defaults(size)) /\ NoSize \notin Sizes
  BY SizesAssumption DEF Defaults, Actives
<1>2. d \in Sizes \cup {NoSize} /\ Defaults(size) = {d} \ {NoSize}
  <2>1. \A w, u \in Defaults(size) : w = u
    BY DEF Defaults, SizesInv, Typed, OneFlag
  <2>2. CASE Defaults(size) = {}
    BY <1>1, <2>2, SmallestIs
  <2>3. CASE Defaults(size) # {}
    <3>1. d \in Defaults(size)
      BY <1>1, <2>3, SmallestIs
    <3> QED BY <1>1, <2>1, <3>1
  <2> QED BY <2>2, <2>3
<1> HIDE DEF d
<1>3. /\ t \in Request /\ t.at = at /\ t.kind = kind /\ t.size = v /\ t.row = row /\ t.default = d
      /\ t.wrote = {}
  BY <1>2, IdleIs DEF Request, Places
<1>4. /\ req[r].at = "idle" /\ begun' = begun + 1 /\ begun < MaxBegun /\ req' = [req EXCEPT ![r] = t]
      /\ alone' = [q \in Requests |-> q = r /\ Quiet] /\ settled' = FALSE
      /\ size' = size /\ card' = card
  BY DEF Begin, d
<1> HIDE DEF t
<1>5. /\ req' \in [Requests -> Request] /\ req'[r] = t
      /\ \A q \in Requests \ {r} : req'[q] = req[q]
  BY <1>3, <1>4 DEF SizesInv, Typed
<1>6. Typed'
  <2>1. begun' \in 0 .. MaxBegun
    <3>1. begun \in 0 .. MaxBegun /\ begun < MaxBegun /\ begun' = begun + 1
      BY <1>4 DEF SizesInv, Typed
    <3> QED BY <3>1, BoundAssumption
  <2>2. Typed
    BY DEF SizesInv
  <2>3. alone' \in [Requests -> BOOLEAN] /\ settled' \in BOOLEAN
    BY <1>4
  <2>4. OneFlag(size)'
    BY <1>4, <2>2 DEF Typed, OneFlag, Flagged
  <2> QED BY <1>4, <1>5, <2>1, <2>2, <2>3, <2>4 DEF Typed
<1>7. ASSUME NEW q \in Requests PROVE (Sound(q) /\ Locks(q) /\ Undisturbed(q))'
  <2>1. Sound(q) /\ Locks(q)
    BY DEF SizesInv
  <2>2. CASE q = r
    <3>1. req'[q] = t /\ req'[q].wrote = {} /\ Claims(q)' = {}
      BY <1>3, <1>5, <2>2 DEF Claims
    <3>2. Sound(q)'
      BY <1>3, <2>2, <3>1 DEF Sound
    <3>3. Course(q)'
      <4>1. at = "unset" => NewRow(q)' = row
        BY <1>3, <3>1 DEF NewRow
      <4>2. Defaults(size)' = {d} \ {NoSize}
        BY <1>2, <1>4 DEF Defaults, Actives, Flagged
      <4> QED BY <1>3, <3>1, <4>1, <4>2 DEF Course
    <3>4. alone'[q] => \A p \in Requests \ {q} : req'[p].at = "idle"
      BY <1>4, <1>5, <2>2 DEF Quiet
    <3> QED BY <3>1, <3>2, <3>3, <3>4 DEF Locks, Undisturbed
  <2>3. CASE q # r
    <3>1. req'[q] = req[q] /\ ~alone'[q]
      BY <1>4, <1>5, <2>3
    <3>2. NewRow(q)' = NewRow(q) /\ View(q)' = View(q)
      <4>1. size' = size
        BY <1>4
      <4> QED BY <3>1, <4>1 DEF NewRow, View
    <3>3. Sound(q)'
      BY <2>1, <3>1, <3>2 DEF Sound
    <3>4. /\ Claims(q)' = Claims(q) /\ Flagged(size)' = Flagged(size)
          /\ \A p \in Requests : Claims(p)' \subseteq Claims(p) /\ req'[p].wrote \subseteq req[p].wrote
      <4>1. req'[r].wrote = {} /\ Claims(r)' = {}
        BY <1>3, <1>5 DEF Claims
      <4>2. \A p \in Requests \ {r} : Claims(p)' = Claims(p)
        BY <1>5 DEF Claims
      <4>3. Flagged(size)' = Flagged(size)
        BY <1>4 DEF Flagged
      <4> QED BY <1>5, <2>3, <4>1, <4>2, <4>3
    <3>5. Locks(q)'
      BY <2>1, <3>1, <3>4 DEF Locks
    <3> QED BY <3>1, <3>3, <3>5 DEF Undisturbed
  <2> QED BY <2>2, <2>3
<1>8. Rest'
  BY <1>4 DEF Rest
<1> QED
  BY <1>6, <1>7, <1>8 DEF SizesInv

-----------------------------------------------------------------------------
(* What a request saw last, and the parts of the invariant it starts from. *)
LEMMA OfRequest ==
  ASSUME SizesInv, NEW r \in Requests
  PROVE  /\ Sound(r) /\ Locks(r) /\ Undisturbed(r) /\ Typed
         /\ req[r] \in Request /\ size \in Rows /\ View(r) \in Rows
         /\ OneFlag(size) /\ OneFlag(View(r))
         /\ \A v \in Sizes : /\ size[v] \in SizeRow \cup {NoRow} /\ View(r)[v] \in SizeRow \cup {NoRow}
                             /\ size[v] # NoRow => size[v] \in SizeRow
                             /\ View(r)[v] # NoRow => View(r)[v] \in SizeRow
                             /\ size[v].active \/ size[v].default => size[v] \in SizeRow
                             /\ View(r)[v].active \/ View(r)[v].default => View(r)[v] \in SizeRow
<1>1. /\ Sound(r) /\ Locks(r) /\ Undisturbed(r) /\ Typed
      /\ req[r] \in Request /\ size \in Rows /\ View(r) \in Rows /\ OneFlag(size)
  BY ViewIs DEF SizesInv, Typed
<1>2. \A v \in Sizes : size[v] \in SizeRow \cup {NoRow} /\ View(r)[v] \in SizeRow \cup {NoRow}
  BY <1>1 DEF Rows
<1> QED
  BY <1>1, <1>2, RowIs, ViewHasOneFlag

(***************************************************************************)
(* One lemma per kind of step.                                             *)
(***************************************************************************)
LEMMA AsksFor ==
  ASSUME NEW r \in Requests, SizesInv, NEW kind, NEW v, NEW row, NEW at, Begin(r, kind, v, row, at)
  PROVE  /\ req'[r].kind = kind /\ req'[r].size = v /\ req'[r].row = row /\ size' = size
         /\ kind = "retire" => NewRow(r)' = [size[v] EXCEPT !.active = FALSE, !.default = FALSE]
         /\ kind = "bulk"   => NewRow(r)' = [size[v] EXCEPT !.price = row.price]
         /\ kind = "form"   => NewRow(r)' = req'[r].row
<1>1. /\ req'[r] = [Idle EXCEPT !.at = at, !.kind = kind, !.size = v, !.row = row,
                       !.default = Smallest(Actives(size) \cap Flagged(size))]
      /\ size' = size
  BY DEF Begin, SizesInv, Typed
<1>2. req'[r].kind = kind /\ req'[r].size = v /\ req'[r].row = row
  BY <1>1 DEF Idle
<1> QED
  BY <1>1, <1>2 DEF NewRow

LEMMA OpenSizeFormKeeps == ASSUME SizesInv, NEW r \in Requests, OpenSizeForm(r) PROVE SizesInv'
<1>1. PICK v \in Sizes : \E row \in Edited(size[v]), claims \in BOOLEAN :
        /\ Exists(size, v)
        /\ claims => row.default /\ ~size[v].default
        /\ Begin(r, "form", v, row, IF claims THEN "unset" ELSE "save")
  BY DEF OpenSizeForm
<1>2. PICK row \in Edited(size[v]), claims \in BOOLEAN :
        /\ Exists(size, v)
        /\ claims => row.default /\ ~size[v].default
        /\ Begin(r, "form", v, row, IF claims THEN "unset" ELSE "save")
  BY <1>1
<1>3. size[v] \in SizeRow
  BY <1>2, OfRequest DEF Exists
<1>4. row \in SizeRow /\ row \in Draft
  <2>1. row \in SizeRow
    BY <1>3 DEF Edited, SizeRow
  <2> QED BY <2>1, RowIs
<1>5. NewRow(r)' = row
  <2> DEFINE at == IF claims THEN "unset" ELSE "save"
  <2>1. Begin(r, "form", v, row, at)
    BY <1>2
  <2> HIDE DEF at
  <2>2. req'[r].row = row /\ NewRow(r)' = req'[r].row
    BY <2>1, AsksFor
  <2> QED BY <2>2
<1> QED
  BY <1>2, <1>4, <1>5, BeginKeeps

LEMMA NewSizeKeeps == ASSUME SizesInv, NEW r \in Requests, NewSize(r) PROVE SizesInv'
<1>1. PICK v \in Unborn, row \in SizeRow : Begin(r, "form", v, row, IF row.default THEN "unset" ELSE "save")
  BY DEF NewSize
<1>2. v \in Sizes /\ row \in Draft
  BY RowIs DEF Unborn
<1>3. NewRow(r)' = row
  <2> DEFINE at == IF row.default THEN "unset" ELSE "save"
  <2>1. Begin(r, "form", v, row, at)
    BY <1>1
  <2> HIDE DEF at
  <2>2. req'[r].row = row /\ NewRow(r)' = req'[r].row
    BY <2>1, AsksFor
  <2> QED BY <2>2
<1> QED
  BY <1>1, <1>2, <1>3, BeginKeeps

LEMMA RetireKeeps == ASSUME SizesInv, NEW r \in Requests, Retire(r) PROVE SizesInv'
<1>1. PICK v \in Actives(size) : Begin(r, "retire", v, NoRow, "save")
  BY DEF Retire
<1>2. v \in Sizes /\ size[v] \in SizeRow
  BY OfRequest DEF Actives
<1>3. NewRow(r)' = [size[v] EXCEPT !.active = FALSE, !.default = FALSE]
  BY <1>1, AsksFor
<1>4. NewRow(r)' \in SizeRow
  BY <1>2, <1>3 DEF SizeRow
<1> QED
  BY <1>1, <1>2, <1>4, BeginKeeps, IdleIs

LEMMA PriceEditKeeps ==
  ASSUME SizesInv, NEW r \in Requests, NEW v \in Sizes, NEW p \in Prices, size[v] \in SizeRow,
         Begin(r, "bulk", v, [NoRow EXCEPT !.price = p], "save")
  PROVE  SizesInv'
<1> DEFINE row == [NoRow EXCEPT !.price = p]
<1>1. row \in Draft /\ row.price = p
  BY IdleIs DEF Draft
<1> HIDE DEF row
<1>2. NewRow(r)' = [size[v] EXCEPT !.price = row.price]
  BY AsksFor DEF row
<1>3. NewRow(r)' \in SizeRow
  BY <1>1, <1>2 DEF SizeRow
<1> QED
  BY <1>1, <1>3, BeginKeeps DEF row

LEMMA BulkEditKeeps == ASSUME SizesInv, NEW r \in Requests, BulkEdit(r) PROVE SizesInv'
<1>1. PICK v \in Sizes, p \in Prices :
        Exists(size, v) /\ Begin(r, "bulk", v, [NoRow EXCEPT !.price = p], "save")
  BY DEF BulkEdit
<1>2. size[v] \in SizeRow
  BY <1>1, OfRequest DEF Exists
<1> QED
  BY <1>1, <1>2, PriceEditKeeps

LEMMA ImportSheetKeeps == ASSUME SizesInv, NEW r \in Requests, ImportSheet(r) PROVE SizesInv'
<1>1. PICK p \in Prices, v \in Actives(size) : Begin(r, "bulk", v, [NoRow EXCEPT !.price = p], "save")
  BY DEF ImportSheet
<1>2. v \in Sizes /\ size[v] \in SizeRow
  BY OfRequest DEF Actives
<1> QED
  BY <1>1, <1>2, PriceEditKeeps

LEMMA OpenProductKeeps == ASSUME SizesInv, NEW r \in Requests, OpenProduct(r) PROVE SizesInv'
<1>1. PICK p \in Prices : Begin(r, "product", NoSize, [NoRow EXCEPT !.price = p], "product")
  BY DEF OpenProduct
<1> DEFINE row == [NoRow EXCEPT !.price = p]
<1>2. row \in Draft /\ row.price = p
  BY IdleIs DEF Draft
<1> HIDE DEF row
<1> QED
  BY <1>1, <1>2, BeginKeeps DEF row

LEMMA UnsetOthersKeeps == ASSUME SizesInv, NEW r \in Requests, UnsetOthers(r) PROVE SizesInv'
<1> DEFINE others == Flagged(size) \ {req[r].size}
           t == [req[r] EXCEPT !.at = "save"]
<1>1. /\ req[r].at = "unset" /\ size' = Unflagged(size, others) /\ card' = card
      /\ req' = [req EXCEPT ![r] = t] /\ begun' = begun /\ alone' = alone /\ settled' = settled
  BY DEF UnsetOthers, Step
<1>2. /\ Sound(r) /\ Undisturbed(r) /\ Typed /\ req[r] \in Request /\ size \in Rows /\ OneFlag(size)
  BY OfRequest
<1>3. /\ t \in Request /\ t.at = "save" /\ t.wrote = req[r].wrote /\ t.size = req[r].size
      /\ t.row = req[r].row /\ t.kind = req[r].kind /\ t.rows = req[r].rows
  BY <1>2 DEF Request, Places
<1>4. /\ size' \in Rows
      /\ \A v \in Sizes : size[v] \in SizeRow => size'[v] \in SizeRow
      /\ Flagged(size') \subseteq Flagged(size)
  BY <1>1, <1>2, UnflaggedIs DEF Flagged
<1>5. req'[r] = t
  BY <1>1, <1>2 DEF Typed
<1>6. /\ req[r].kind = "form" /\ req[r].wrote = {} /\ req[r].size \in Sizes
      /\ NewRow(r) = req[r].row /\ NewRow(r) \in SizeRow
  BY <1>1, <1>2 DEF Sound, NewRow
<1>7. NewRow(r)' = req[r].row
  BY <1>3, <1>5, <1>6 DEF NewRow
<1>8. Sound(r)'
  BY <1>3, <1>5, <1>6, <1>7 DEF Sound
<1>9. alone[r] => Course(r)'
  BY <1>1, <1>2, <1>3, <1>5, <1>6, <1>7 DEF Undisturbed, Course
<1>10. ~settled
  BY <1>1 DEF SizesInv, Rest, Quiet
<1>11. OneFlag(size)' /\ Rest' /\ card' \in Prices /\ settled' \in BOOLEAN
  BY <1>1, <1>2, <1>4, <1>10 DEF OneFlag, Rest, Typed
<1> QED
  BY <1>1, <1>3, <1>4, <1>6, <1>8, <1>9, <1>11, MoveKeeps

(* A transaction writes: what it sees then is what it wrote.               *)
Written(r, rows, at) ==
  /\ \E t \in Request : Step(r, t)
  /\ size' = size /\ card' = card /\ req'[r].at = at
  /\ req'[r].size = req[r].size /\ req'[r].default = req[r].default
  /\ req'[r].chosen = req[r].chosen
  /\ View(r)' = rows /\ NewRow(r)' = NewRow(r) /\ Locks(r)'
  /\ \A v \in req'[r].wrote : req'[r].rows[v] \in SizeRow

LEMMA WritesIs ==
  ASSUME SizesInv, NEW r \in Requests, NEW rows \in Rows, NEW touched \in SUBSET Sizes, NEW at \in Places,
         Writes(r, rows, touched, at), OneFlag(rows),
         \A v \in Sizes \ touched : rows[v] = View(r)[v],
         \A v \in touched : rows[v] \in SizeRow,
         (\E v \in touched : rows[v].default) => Flagged(size) \subseteq touched \cup req[r].wrote
  PROVE  Written(r, rows, at)
<1> DEFINE t == [req[r] EXCEPT !.at = at, !.wrote = @ \cup touched,
                   !.rows = [v \in Sizes |-> IF v \in touched THEN rows[v] ELSE @[v]]]
<1>1. /\ touched \cap HeldByOthers(r) = {} /\ Step(r, t) /\ size' = size /\ card' = card
      /\ (\E v \in touched : rows[v].default) => FlagFree(r)
  BY DEF Writes
<1>2. /\ Sound(r) /\ Locks(r) /\ Typed /\ req[r] \in Request
      /\ \A v \in Sizes : View(r)[v] = IF v \in req[r].wrote THEN req[r].rows[v] ELSE size[v]
  BY OfRequest, ViewIs
<1>3. [v \in Sizes |-> IF v \in touched THEN rows[v] ELSE req[r].rows[v]] \in Rows
  BY <1>2 DEF Request, Rows
<1>4. /\ t \in Request /\ t.at = at /\ t.wrote = req[r].wrote \cup touched
      /\ t.rows = [v \in Sizes |-> IF v \in touched THEN rows[v] ELSE req[r].rows[v]]
      /\ t.size = req[r].size /\ t.kind = req[r].kind /\ t.row = req[r].row
      /\ t.default = req[r].default /\ t.chosen = req[r].chosen
  BY <1>2, <1>3 DEF Request
<1> HIDE DEF t
<1>5. req'[r] = t /\ \A q \in Requests \ {r} : req'[q] = req[q]
  BY <1>1, <1>2 DEF Step, Typed
<1>6. \A v \in t.wrote : v \in Sizes /\ t.rows[v] = rows[v] /\ t.rows[v] \in SizeRow
  <2>1. ASSUME NEW v \in t.wrote PROVE v \in Sizes /\ t.rows[v] = rows[v] /\ t.rows[v] \in SizeRow
    <3>1. v \in Sizes
      BY <1>2, <1>4 DEF Request
    <3>2. CASE v \in touched
      BY <1>4, <3>1, <3>2
    <3>3. CASE v \notin touched
      <4>1. v \in req[r].wrote /\ t.rows[v] = req[r].rows[v] /\ rows[v] = req[r].rows[v]
        BY <1>2, <1>4, <3>1, <3>3
      <4>2. req[r].rows[v] \in SizeRow
        BY <1>2, <4>1 DEF Sound
      <4> QED BY <3>1, <4>1, <4>2
    <3> QED BY <3>2, <3>3
  <2> QED BY <2>1
<1>7. View(r)' = rows
  <2>1. \A v \in Sizes : View(r)'[v] = rows[v]
    <3>1. ASSUME NEW v \in Sizes PROVE View(r)'[v] = rows[v]
      <4>1. View(r)'[v] = IF v \in t.wrote THEN t.rows[v] ELSE size[v]
        BY <1>1, <1>5 DEF View
      <4> QED BY <1>2, <1>4, <1>6, <4>1
    <3> QED BY <3>1
  <2>2. View(r)' = [v \in Sizes |-> View(r)'[v]]
    BY DEF View
  <2>3. rows = [v \in Sizes |-> rows[v]]
    BY DEF Rows
  <2>4. View(r)' \in [Sizes -> {rows[v] : v \in Sizes}]
    BY <2>1, <2>2
  <2> QED BY <2>1, <2>3, <2>4
<1>8. NewRow(r)' = NewRow(r)
  BY <1>1, <1>4, <1>5 DEF NewRow
<1>9. Locks(r)'
  <2>1. Claims(r)' = {v \in t.wrote : rows[v].default}
    BY <1>5, <1>6 DEF Claims
  <2>2. \A q \in Requests \ {r} : Claims(q)' = Claims(q) /\ req'[q].wrote = req[q].wrote
    BY <1>5 DEF Claims
  <2>3. \A q \in Requests \ {r} : req[q].wrote \cap t.wrote = {}
    BY <1>1, <1>2, <1>4 DEF Locks, HeldByOthers
  <2>4. \A v, w \in Claims(r)' : v = w
    BY <1>6, <2>1 DEF OneFlag, Flagged
  <2>5. Claims(r)' # {} => Flagged(size) \subseteq t.wrote /\ \A q \in Requests \ {r} : Claims(q) = {}
    <3>1. CASE \E v \in touched : rows[v].default
      <4>1. \A q \in Requests \ {r} : Claims(q) = {}
        BY <1>1, <3>1 DEF FlagFree, Claims
      <4> QED BY <1>4, <3>1, <4>1
    <3>2. CASE ~\E v \in touched : rows[v].default
      <4>1. Claims(r)' # {} => Claims(r) # {}
        <5>1. ASSUME NEW v \in t.wrote, rows[v].default PROVE v \in Claims(r)
          <6>1. v \in req[r].wrote /\ v \notin touched /\ v \in Sizes
            BY <1>4, <1>6, <3>2, <5>1
          <6>2. rows[v] = req[r].rows[v]
            BY <1>2, <6>1
          <6> QED BY <5>1, <6>1, <6>2 DEF Claims
        <5> QED BY <2>1, <5>1
      <4> QED BY <1>2, <1>4, <4>1 DEF Locks
    <3> QED BY <3>1, <3>2
  <2>6. Flagged(size)' = Flagged(size)
    BY <1>1 DEF Flagged
  <2> QED BY <1>5, <2>2, <2>3, <2>4, <2>5, <2>6 DEF Locks
<1> QED
  BY <1>1, <1>4, <1>5, <1>6, <1>7, <1>8, <1>9 DEF Written

LEMMA SaveSizeKeeps == ASSUME SizesInv, NEW r \in Requests, SaveSize(r) PROVE SizesInv'
<1> DEFINE v      == req[r].size
           new    == NewRow(r)
           others == IF new.default THEN Flagged(size) \ {v} ELSE {}
           rows   == [Unflagged(size, others) EXCEPT ![v] = new]
           touched == others \cup {v}
<1>1. req[r].at = "save" /\ Writes(r, rows, touched, "repair")
  BY DEF SaveSize
<1>2. /\ Sound(r) /\ Locks(r) /\ Undisturbed(r) /\ Typed /\ req[r] \in Request
      /\ size \in Rows /\ OneFlag(size)
      /\ \A w \in Sizes : size[w] \in SizeRow \cup {NoRow} /\ (size[w].default => size[w] \in SizeRow)
  BY OfRequest
<1>3. req[r].wrote = {} /\ v \in Sizes /\ new \in SizeRow /\ new \in SizeRow \cup {NoRow}
  BY <1>1, <1>2 DEF Sound
<1>4. /\ rows \in Rows /\ rows[v] = new
      /\ \A w \in Sizes \ {v} : rows[w] = Unflagged(size, others)[w]
  BY <1>2, <1>3, UnflaggedIs DEF Rows
<1>5. View(r) = size
  BY <1>2, <1>3 DEF View, Rows
<1>6. /\ \A w \in Sizes \ {v} :
            /\ rows[w].active = size[w].active
            /\ rows[w].default <=> size[w].default /\ w \notin others
            /\ size[w] \in SizeRow => rows[w] \in SizeRow
      /\ \A w \in Sizes \ touched : rows[w] = size[w]
  <2>1. \A w \in Sizes \ {v} : /\ rows[w].active = size[w].active
                               /\ rows[w].default <=> size[w].default /\ w \notin others
                               /\ size[w] \in SizeRow => rows[w] \in SizeRow
    BY <1>2, <1>4, UnflaggedIs
  <2>2. ASSUME NEW w \in Sizes \ touched PROVE rows[w] = size[w]
    <3>1. rows[w] = [size[w] EXCEPT !.default = @ /\ w \notin others]
      BY <1>4 DEF Unflagged
    <3>2. w \notin others
      OBVIOUS
    <3>3. CASE size[w] \in SizeRow
      BY <3>1, <3>2, <3>3 DEF SizeRow
    <3>4. CASE size[w] = NoRow
      <4>1. NoRow \in [price : {NoPrice}, default : BOOLEAN, active : BOOLEAN]
        BY DEF NoRow
      <4> QED BY <3>1, <3>2, <3>4, <4>1
    <3> QED BY <1>2, <3>3, <3>4
  <2> QED BY <2>1, <2>2
<1>7. new.default => Flagged(rows) = {v}
  <2> SUFFICES ASSUME new.default PROVE Flagged(rows) = {v}
    OBVIOUS
  <2>1. ASSUME NEW w \in Sizes \ {v} PROVE ~rows[w].default
    BY <1>6, <2>1 DEF Flagged
  <2> HIDE DEF rows
  <2> QED BY <1>3, <1>4, <2>1 DEF Flagged
<1>8. ~new.default => Flagged(rows) = Flagged(size) \ {v} /\ touched = {v}
  <2>1. ~new.default => others = {}
    OBVIOUS
  <2> HIDE DEF others
  <2> QED BY <1>3, <1>4, <1>6, <2>1 DEF Flagged
<1>9. /\ Actives(rows) \in SUBSET Sizes
      /\ v \in Actives(rows) <=> new.active
  BY <1>3, <1>4 DEF Actives
<1>10. /\ touched \in SUBSET Sizes /\ OneFlag(rows)
       /\ \A w \in touched : rows[w] \in SizeRow
       /\ (\E w \in touched : rows[w].default) => Flagged(size) \subseteq touched \cup req[r].wrote
  <2>1. touched \in SUBSET Sizes
    BY <1>3 DEF Flagged
  <2>2. OneFlag(rows)
    BY <1>2, <1>7, <1>8 DEF OneFlag
  <2>3. ASSUME NEW w \in touched PROVE rows[w] \in SizeRow
    <3>1. CASE w = v
      BY <1>3, <1>4, <3>1
    <3>2. CASE w # v
      <4>1. w \in Sizes /\ size[w].default
        BY <3>2 DEF Flagged
      <4> QED BY <1>2, <1>6, <3>2, <4>1
    <3> QED BY <3>1, <3>2
  <2>4. (\E w \in touched : rows[w].default) => Flagged(size) \subseteq touched
    <3>1. CASE new.default
      BY <3>1
    <3>2. CASE ~new.default
      BY <1>4, <1>8, <3>2
    <3> QED BY <3>1, <3>2
  <2> QED BY <2>1, <2>2, <2>3, <2>4
<1> HIDE DEF v, new, others, rows, touched
<1>11. /\ \E t \in Request : Step(r, t)
       /\ size' = size /\ card' = card /\ req'[r].at = "repair" /\ req'[r].size = v
       /\ req'[r].default = req[r].default /\ View(r)' = rows /\ NewRow(r)' = new /\ Locks(r)'
       /\ \A w \in req'[r].wrote : req'[r].rows[w] \in SizeRow
  <2>1. \A w \in Sizes \ touched : rows[w] = View(r)[w]
    BY <1>5, <1>6
  <2>2. "repair" \in Places
    BY DEF Places
  <2>3. Written(r, rows, "repair")
    BY <1>1, <1>4, <1>10, <2>1, <2>2, WritesIs
  <2> QED BY <2>3 DEF v, new, Written
<1>12. Sound(r)'
  BY <1>11 DEF Sound
<1>13. alone[r] => Course(r)'
  <2> SUFFICES ASSUME alone[r] PROVE Course(r)'
    OBVIOUS
  <2>1. new.default \/ Defaults(size) = {req[r].default} \ {NoSize}
    BY <1>1, <1>2 DEF Undisturbed, Course, new
  <2>2. /\ new.default /\ new.active => Due(r, View(r))' = req'[r].size
        /\ new.default /\ ~new.active => Due(r, View(r))' = Smallest(Actives(rows))
        /\ ~new.default /\ req[r].default \in {NoSize, v} => Due(r, View(r))' = Smallest(Actives(rows))
        /\ ~new.default /\ req[r].default \notin {NoSize, v} => Due(r, View(r))' = req[r].default
    <3>1. new.default /\ new.active => Due(r, View(r))' = req'[r].size
      BY <1>11 DEF Due, Actives
    <3>2. new.default /\ ~new.active => Due(r, View(r))' = Smallest(Actives(rows))
      BY <1>11 DEF Due, Actives
    <3>3. ~new.default /\ req[r].default \in {NoSize, v} => Due(r, View(r))' = Smallest(Actives(rows))
      BY <1>11 DEF Due, Actives
    <3>4. ~new.default /\ req[r].default \notin {NoSize, v} => Due(r, View(r))' = req[r].default
      BY <1>11 DEF Due, Actives
    <3> QED BY <3>1, <3>2, <3>3, <3>4
  <2>3. Defaults(View(r))' = Actives(rows) \cap Flagged(rows)
    BY <1>11 DEF Defaults, Actives, Flagged
  <2>4. \/ Defaults(View(r))' = {Due(r, View(r))'}
        \/ Defaults(View(r))' = {} /\ Due(r, View(r))' = Smallest(Actives(rows))
    <3>1. CASE new.default /\ new.active
      <4>1. Due(r, View(r))' = req'[r].size
        BY <2>2, <3>1
      <4>2. Defaults(View(r))' = {req'[r].size}
        BY <1>11, <1>7, <1>9, <2>3, <3>1
      <4> QED BY <4>1, <4>2
    <3>2. CASE new.default /\ ~new.active
      BY <1>7, <1>9, <2>2, <2>3, <3>2
    <3>3. CASE ~new.default
      <4>1. Defaults(size) = {req[r].default} \ {NoSize}
        BY <2>1, <3>3
      <4>2. Defaults(View(r))' = Defaults(size) \ {v}
        <5>1. \A w \in Sizes \ {v} : w \in Actives(rows) <=> w \in Actives(size)
          BY <1>6 DEF Actives
        <5> QED BY <1>8, <2>3, <3>3, <5>1 DEF Defaults, Flagged
      <4>3. CASE req[r].default \in {NoSize, v}
        BY <2>2, <3>3, <4>1, <4>2, <4>3
      <4>4. CASE req[r].default \notin {NoSize, v}
        BY <2>2, <3>3, <4>1, <4>2, <4>4
      <4> QED BY <4>3, <4>4
    <3> QED BY <3>1, <3>2, <3>3
  <2>5. Smallest(Actives(rows)) = Smallest(Actives(View(r)))'
    BY <1>11 DEF Smallest, Actives
  <2> QED BY <1>11, <2>4, <2>5 DEF Course
<1> QED
  BY <1>1, <1>2, <1>11, <1>12, <1>13, StepKeeps DEF Typed

(* What is written stays, and with it all that Locks says.                 *)
LEMMA StaysLocked ==
  ASSUME SizesInv, NEW r \in Requests, NEW t \in Request, Step(r, t), size' = size,
         t.wrote = req[r].wrote, t.rows = req[r].rows
  PROVE  /\ req'[r] = t /\ Locks(r)' /\ View(r)' = View(r)
         /\ \A v \in t.wrote : t.rows[v] \in SizeRow
         /\ t.size = req[r].size /\ t.kind = req[r].kind /\ t.row = req[r].row => NewRow(r)' = NewRow(r)
<1>1. Sound(r) /\ Locks(r) /\ Typed
  BY OfRequest
<1>2. req'[r] = t /\ \A q \in Requests \ {r} : req'[q] = req[q]
  BY <1>1 DEF Step, Typed
<1>3. /\ \A q \in Requests : Claims(q)' = Claims(q) /\ req'[q].wrote = req[q].wrote
      /\ Flagged(size)' = Flagged(size)
  BY <1>2 DEF Claims, Flagged
<1>4. Locks(r)'
  BY <1>1, <1>3 DEF Locks
<1>5. View(r)' = View(r)
  BY <1>2 DEF View
<1>6. t.size = req[r].size /\ t.kind = req[r].kind /\ t.row = req[r].row => NewRow(r)' = NewRow(r)
  BY <1>2 DEF NewRow
<1> QED
  BY <1>1, <1>2, <1>4, <1>5, <1>6 DEF Sound

LEMMA DueStays ==
  ASSUME NEW r, NEW rows, NewRow(r)' = NewRow(r), req'[r].size = req[r].size, req'[r].default = req[r].default,
         View(r)' = rows, Actives(rows) = Actives(View(r))
  PROVE  Due(r, View(r))' = Due(r, View(r))
BY DEF Due, Actives

LEMMA ChooseDefaultKeeps == ASSUME SizesInv, NEW r \in Requests, ChooseDefault(r) PROVE SizesInv'
<1> DEFINE rows   == View(r)
           lost   == Defaults(rows) = {}
           chosen == Smallest(Actives(rows))
           t == IF lost /\ chosen # NoSize THEN [req[r] EXCEPT !.at = "promote", !.chosen = chosen]
                ELSE [req[r] EXCEPT !.at = "mirror"]
<1>1. req[r].at = "repair" /\ Step(r, t) /\ size' = size /\ card' = card
  BY DEF ChooseDefault, Defaults
<1>2. /\ Sound(r) /\ Undisturbed(r) /\ Typed /\ req[r] \in Request /\ OneFlag(rows)
      /\ \A v \in Sizes : rows[v].active => rows[v] \in SizeRow
  BY OfRequest
<1>3. /\ Actives(rows) \in SUBSET Sizes /\ chosen \in Sizes \cup {NoSize}
      /\ chosen # NoSize => chosen \in Actives(rows)
      /\ chosen = NoSize <=> Actives(rows) = {}
  <2>1. Actives(rows) \in SUBSET Sizes
    BY DEF Actives
  <2> QED BY <2>1, SmallestIs
<1> HIDE DEF rows, chosen
<1>4. /\ t \in Request /\ t.at = IF lost /\ chosen # NoSize THEN "promote" ELSE "mirror"
      /\ lost /\ chosen # NoSize => t.chosen = chosen
      /\ t.wrote = req[r].wrote /\ t.rows = req[r].rows /\ t.default = req[r].default
      /\ t.size = req[r].size /\ t.kind = req[r].kind /\ t.row = req[r].row
  BY <1>2, <1>3 DEF Request, Places
<1> HIDE DEF t
<1>5. /\ req'[r] = t /\ Locks(r)' /\ View(r)' = rows /\ NewRow(r)' = NewRow(r)
      /\ \A v \in t.wrote : t.rows[v] \in SizeRow
  BY <1>1, <1>4, StaysLocked DEF rows
<1>6. Sound(r)'
  <2>1. lost /\ chosen # NoSize => chosen \in Sizes /\ rows[chosen] \in SizeRow
    BY <1>2, <1>3 DEF Actives
  <2> QED BY <1>4, <1>5, <2>1 DEF Sound
<1>7. alone[r] => Course(r)'
  <2> SUFFICES ASSUME alone[r] PROVE Course(r)'
    OBVIOUS
  <2>1. \/ Defaults(rows) = {Due(r, rows)}
        \/ Defaults(rows) = {} /\ Due(r, rows) = chosen
    BY <1>1, <1>2 DEF Undisturbed, Course, rows, chosen
  <2>2. Due(r, View(r))' = Due(r, rows)
    BY <1>4, <1>5, DueStays DEF rows
  <2>3. Defaults(View(r))' = Defaults(rows) /\ Actives(View(r))' = Actives(rows)
    BY <1>5 DEF Defaults, Actives, Flagged
  <2>4. Smallest(Actives(View(r)))' = chosen
    BY <1>5 DEF Smallest, Actives, chosen
  <2>5. CASE lost /\ chosen # NoSize
    <3>1. t.at = "promote" /\ t.chosen = chosen /\ Actives(rows) # {} /\ Due(r, rows) = chosen
      BY <1>3, <1>4, <2>1, <2>5
    <3> QED BY <1>5, <2>2, <2>3, <2>4, <2>5, <3>1 DEF Course
  <2>6. CASE ~(lost /\ chosen # NoSize)
    <3>1. t.at = "mirror" /\ (Actives(rows) # {} => Defaults(rows) = {Due(r, rows)})
      BY <1>3, <1>4, <2>1, <2>6
    <3> QED BY <1>5, <2>2, <2>3, <3>1 DEF Course, Settles
  <2> QED BY <2>5, <2>6
<1> QED
  BY <1>1, <1>2, <1>4, <1>5, <1>6, <1>7, StepKeeps DEF Typed

LEMMA PromoteKeeps == ASSUME SizesInv, NEW r \in Requests, Promote(r) PROVE SizesInv'
<1> DEFINE old     == View(r)
           v       == req[r].chosen
           others  == Flagged(old) \ {v}
           rows    == [Unflagged(old, others) EXCEPT ![v].default = TRUE]
           touched == others \cup {v}
<1>1. req[r].at = "promote" /\ Writes(r, rows, touched, "mirror")
  BY DEF Promote
<1>2. /\ Sound(r) /\ Undisturbed(r) /\ Typed /\ req[r] \in Request /\ old \in Rows
      /\ \A w \in Sizes : /\ old[w] \in SizeRow \cup {NoRow}
                          /\ old[w].default => old[w] \in SizeRow
                          /\ old[w] = IF w \in req[r].wrote THEN req[r].rows[w] ELSE size[w]
  BY OfRequest, ViewIs
<1>3. v \in Sizes /\ old[v] \in SizeRow
  BY <1>1, <1>2 DEF Sound
<1> HIDE DEF old
<1>4. LET new == Unflagged(old, others)
      IN  /\ rows[v] = [new[v] EXCEPT !.default = TRUE]
          /\ new[v] \in SizeRow /\ new[v].active = old[v].active
          /\ \A w \in Sizes \ {v} : rows[w] = new[w]
          /\ rows \in Rows
  <2> DEFINE new == Unflagged(old, others)
  <2>1. new \in Rows /\ new[v] \in SizeRow /\ new[v].active = old[v].active
    <3> HIDE DEF v, others
    <3>1. old \in Rows
      BY <1>2
    <3>2. /\ new \in Rows
          /\ \A w \in Sizes : /\ new[w] \in SizeRow <=> old[w] \in SizeRow
                              /\ new[w].active = old[w].active
      BY <3>1, UnflaggedIs
    <3> QED BY <1>3, <3>2
  <2>2. rows = [new EXCEPT ![v] = [@ EXCEPT !.default = TRUE]]
    OBVIOUS
  <2> HIDE DEF new
  <2>3. [new[v] EXCEPT !.default = TRUE] \in SizeRow
    BY <2>1 DEF SizeRow
  <2>4. /\ [new EXCEPT ![v] = [@ EXCEPT !.default = TRUE]] \in Rows
        /\ [new EXCEPT ![v] = [@ EXCEPT !.default = TRUE]][v] = [new[v] EXCEPT !.default = TRUE]
        /\ \A w \in Sizes \ {v} : [new EXCEPT ![v] = [@ EXCEPT !.default = TRUE]][w] = new[w]
    BY <1>3, <2>1, <2>3 DEF Rows
  <2> QED BY <2>1, <2>2, <2>4 DEF new
<1>5. /\ rows \in Rows /\ rows[v] \in SizeRow /\ rows[v].default /\ rows[v].active = old[v].active
      /\ \A w \in Sizes \ {v} : rows[w] = Unflagged(old, others)[w]
  BY <1>4 DEF SizeRow
<1> HIDE DEF rows
<1>6. \A w \in Sizes \ {v} : /\ rows[w].active = old[w].active /\ ~rows[w].default
                             /\ old[w] \in SizeRow => rows[w] \in SizeRow
  <2>1. \A w \in Sizes \ {v} : old[w].default => w \in others
    BY DEF Flagged
  <2> HIDE DEF others
  <2> QED BY <1>2, <1>5, <2>1, UnflaggedIs
<1>7. \A w \in Sizes \ touched : rows[w] = old[w]
  <2>1. ASSUME NEW w \in Sizes \ touched PROVE rows[w] = old[w]
    <3>1. rows[w] = [old[w] EXCEPT !.default = @ /\ w \notin others]
      BY <1>5 DEF Unflagged
    <3>2. w \notin others
      OBVIOUS
    <3>3. CASE old[w] \in SizeRow
      BY <3>1, <3>2, <3>3 DEF SizeRow
    <3>4. CASE old[w] = NoRow
      <4>1. NoRow \in [price : {NoPrice}, default : BOOLEAN, active : BOOLEAN]
        BY DEF NoRow
      <4> QED BY <3>1, <3>2, <3>4, <4>1
    <3> QED BY <1>2, <3>3, <3>4
  <2> QED BY <2>1
<1>8. Flagged(rows) = {v} /\ Actives(rows) = Actives(old)
  BY <1>3, <1>5, <1>6 DEF Flagged, Actives
<1>9. /\ touched \in SUBSET Sizes /\ OneFlag(rows)
      /\ \A w \in touched : rows[w] \in SizeRow
      /\ Flagged(size) \subseteq touched \cup req[r].wrote
  <2>1. touched \in SUBSET Sizes
    BY <1>3 DEF Flagged
  <2>2. OneFlag(rows)
    BY <1>8 DEF OneFlag
  <2>3. \A w \in touched : rows[w] \in SizeRow
    BY <1>2, <1>5, <1>6 DEF Flagged
  <2>4. ASSUME NEW w \in Flagged(size), w \notin req[r].wrote PROVE w \in touched
    <3>1. w \in Sizes /\ old[w] = size[w] /\ size[w].default
      BY <1>2, <2>4 DEF Flagged
    <3> QED BY <3>1 DEF Flagged
  <2> QED BY <2>1, <2>2, <2>3, <2>4
<1> HIDE DEF v, others, touched
<1>10. Written(r, rows, "mirror")
  <2>1. "mirror" \in Places
    BY DEF Places
  <2> QED BY <1>1, <1>5, <1>7, <1>9, <2>1, WritesIs DEF old
<1>11. Sound(r)'
  BY <1>10 DEF Sound, Written
<1>12. alone[r] => Course(r)'
  <2> SUFFICES ASSUME alone[r] PROVE Course(r)'
    OBVIOUS
  <2>1. Actives(old) # {} /\ v = Smallest(Actives(old)) /\ Due(r, old) = v
    BY <1>1, <1>2 DEF Undisturbed, Course, old, v
  <2>2. v \in Actives(old)
    <3>1. Actives(old) \in SUBSET Sizes
      BY DEF Actives
    <3> QED BY <2>1, <3>1, SmallestIs
  <2>3. Due(r, View(r))' = Due(r, old)
    BY <1>8, <1>10, DueStays DEF Written, old
  <2>4. Defaults(View(r))' = Actives(rows) \cap Flagged(rows)
    BY <1>10 DEF Written, Defaults, Actives, Flagged
  <2>5. Settles(r)'
    BY <1>8, <2>1, <2>2, <2>3, <2>4 DEF Settles
  <2> QED BY <1>10, <2>5 DEF Course, Written
<1> QED
  BY <1>1, <1>2, <1>10, <1>11, <1>12, StepKeeps DEF Typed, Written

LEMMA ReadDefaultKeeps == ASSUME SizesInv, NEW r \in Requests, ReadDefault(r) PROVE SizesInv'
<1> DEFINE rows  == View(r)
           v     == DefaultOf(rows)
           price == IF v = NoSize THEN NoPrice ELSE rows[v].price
           t     == [req[r] EXCEPT !.at = "commit", !.price = price]
<1>1. req[r].at = "mirror" /\ Step(r, t) /\ size' = size /\ card' = card
  BY DEF ReadDefault
<1>2. /\ Sound(r) /\ Undisturbed(r) /\ Typed /\ req[r] \in Request
      /\ \A w \in Sizes : rows[w] \in SizeRow \cup {NoRow}
  BY OfRequest
<1>3. v \in Sizes \cup {NoSize} /\ price \in Prices \cup {NoPrice}
  <2>1. v \in Sizes \cup {NoSize}
    <3>1. Actives(rows) \in SUBSET Sizes /\ Actives(rows) \cap Flagged(rows) \in SUBSET Sizes
      BY DEF Actives
    <3> QED BY <3>1, SmallestIs DEF DefaultOf
  <2> HIDE DEF v
  <2>2. v # NoSize => rows[v].price \in Prices \cup {NoPrice}
    BY <1>2, <2>1 DEF SizeRow, NoRow
  <2> QED BY <2>1, <2>2
<1> HIDE DEF price
<1>4. /\ t \in Request /\ t.at = "commit" /\ t.price = price
      /\ t.wrote = req[r].wrote /\ t.rows = req[r].rows /\ t.default = req[r].default
      /\ t.size = req[r].size /\ t.kind = req[r].kind /\ t.row = req[r].row
  BY <1>2, <1>3 DEF Request, Places
<1> HIDE DEF t, rows, v
<1>5. /\ req'[r] = t /\ Locks(r)' /\ View(r)' = rows /\ NewRow(r)' = NewRow(r)
      /\ \A w \in t.wrote : t.rows[w] \in SizeRow
  BY <1>1, <1>4, StaysLocked DEF rows
<1>6. Sound(r)'
  BY <1>4, <1>5 DEF Sound
<1>7. alone[r] => Course(r)'
  <2> SUFFICES ASSUME alone[r] PROVE Course(r)'
    OBVIOUS
  <2>1. Actives(rows) # {} => Defaults(rows) = {Due(r, rows)}
    BY <1>1, <1>2 DEF Undisturbed, Course, Settles, rows
  <2>2. Due(r, View(r))' = Due(r, rows)
    BY <1>4, <1>5, DueStays DEF rows
  <2>3. Defaults(View(r))' = Defaults(rows) /\ Actives(View(r))' = Actives(rows)
    BY <1>5 DEF Defaults, Actives, Flagged
  <2>4. Actives(rows) = {} => price = NoPrice
    <3>1. Actives(rows) = {} => v = Smallest({})
      BY DEF v, DefaultOf
    <3> QED BY <3>1 DEF Smallest, price
  <2>5. Actives(rows) # {} => price = rows[Due(r, rows)].price
    <3> SUFFICES ASSUME Actives(rows) # {} PROVE price = rows[Due(r, rows)].price
      OBVIOUS
    <3>1. Defaults(rows) = {Due(r, rows)} /\ Defaults(rows) \in SUBSET Sizes
      BY <2>1 DEF Defaults, Actives
    <3>2. Smallest(Defaults(rows)) = Due(r, rows)
      BY <3>1, SmallestIs
    <3>3. v = Due(r, rows)
      BY <3>1, <3>2 DEF v, DefaultOf, Defaults
    <3>4. v # NoSize
      BY <3>1, <3>3, SizesAssumption
    <3> QED BY <3>3, <3>4 DEF price
  <2>6. Settles(r)'
    BY <2>1, <2>2, <2>3 DEF Settles
  <2> QED BY <1>4, <1>5, <2>2, <2>3, <2>4, <2>5, <2>6 DEF Course
<1> QED
  BY <1>1, <1>2, <1>4, <1>5, <1>6, <1>7, StepKeeps DEF Typed

LEMMA CommitKeeps == ASSUME SizesInv, NEW r \in Requests, Commit(r) PROVE SizesInv'
<1>1. /\ req[r].at = "commit" /\ size' = View(r) /\ req' = [req EXCEPT ![r] = Idle]
      /\ card' = IF req[r].price = NoPrice THEN card ELSE req[r].price
      /\ settled' = alone[r] /\ begun' = begun /\ alone' = alone
  BY DEF Commit
<1>2. /\ Sound(r) /\ Locks(r) /\ Undisturbed(r) /\ Typed /\ req[r] \in Request
      /\ size \in Rows /\ View(r) \in Rows /\ OneFlag(View(r))
      /\ \A v \in Sizes : View(r)[v] = IF v \in req[r].wrote THEN req[r].rows[v] ELSE size[v]
  BY OfRequest, ViewIs
<1>3. size' \in Rows /\ OneFlag(size)' /\ card' \in Prices /\ settled' \in BOOLEAN
  BY <1>1, <1>2 DEF Typed, Request, OneFlag, Flagged
<1>4. req'[r] = Idle /\ \A q \in Requests \ {r} : req'[q] = req[q]
  BY <1>1, <1>2 DEF Typed
<1>5. \A v \in Sizes : size[v] \in SizeRow => size'[v] \in SizeRow
  BY <1>1, <1>2 DEF Sound
<1>6. Claims(r) = {} => Flagged(size') \subseteq Flagged(size)
  BY <1>1, <1>2 DEF Claims, Flagged
<1>7. Sound(r)' /\ Course(r)'
  BY <1>4, IdleIs DEF Sound, Course
<1>8. Rest'
  <2> SUFFICES ASSUME alone[r] PROVE Quiet' /\ OneDefault' /\ CardShowsDefault'
    BY <1>1 DEF Rest
  <2>1. Quiet'
    BY <1>2, <1>4, IdleIs DEF Undisturbed, Quiet
  <2> DEFINE due == Due(r, View(r))
  <2>2. /\ Actives(View(r)) # {} => Defaults(View(r)) = {due}
        /\ Actives(View(r)) # {} => req[r].price = View(r)[due].price
    BY <1>1, <1>2 DEF Undisturbed, Course, Settles
  <2> HIDE DEF due
  <2>3. Actives(size') # {} => Actives(size') \cap Flagged(size') = {due}
    BY <1>1, <2>2 DEF Defaults
  <2>4. OneDefault'
    <3>1. Actives(size') # {} => Cardinality(Actives(size') \cap Flagged(size')) = 1
      BY <2>3, FS_Singleton
    <3> QED BY <3>1 DEF OneDefault, Actives, Flagged
  <2>5. CardShowsDefault'
    <3> SUFFICES ASSUME Actives(size') # {} PROVE card' = size'[DefaultOf(size')].price
      BY DEF CardShowsDefault, Actives, DefaultOf, Flagged, Smallest
    <3>1. Actives(size') \cap Flagged(size') = {due} /\ due \in Sizes
      BY <2>3 DEF Actives
    <3>2. Smallest(Actives(size') \cap Flagged(size')) = due
      BY <3>1, SmallestIs
    <3>3. DefaultOf(size') = due
      BY <3>1, <3>2 DEF DefaultOf
    <3>4. req[r].price = size'[due].price
      BY <1>1, <2>2
    <3>5. size'[due] \in SizeRow
      <4>1. size'[due].active /\ size'[due] \in SizeRow \cup {NoRow}
        BY <1>3, <3>1 DEF Actives, Rows
      <4> QED BY <4>1, RowIs
    <3>6. req[r].price # NoPrice
      BY <3>4, <3>5, RowIs
    <3> QED BY <1>1, <3>3, <3>4, <3>6
  <2> QED BY <2>1, <2>4, <2>5
<1> QED
  BY <1>1, <1>2, <1>3, <1>5, <1>6, <1>7, <1>8, IdleIs, MoveKeeps

LEMMA EndsKeeps == ASSUME SizesInv, NEW r \in Requests, req[r].at # "idle", Ends(r), size' = size, card' = card PROVE SizesInv'
<1>1. Typed /\ Step(r, Idle) /\ Idle \in Request
  BY OfRequest, IdleIs DEF Ends
<1>2. req'[r] = Idle /\ Claims(r)' = {}
  <2>1. req'[r] = Idle
    BY <1>1 DEF Step, Typed
  <2> QED BY <2>1, IdleIs DEF Claims
<1>3. (Sound(r) /\ Locks(r) /\ Course(r))'
  BY <1>2, IdleIs DEF Sound, Locks, Course
<1> QED
  BY <1>1, <1>3, StepKeeps DEF Typed

LEMMA SaveProductKeeps == ASSUME SizesInv, NEW r \in Requests, SaveProduct(r) PROVE SizesInv'
<1> DEFINE t == [req[r] EXCEPT !.at = "sizes"]
<1>1. req[r].at = "product" /\ card' = req[r].row.price /\ Step(r, t) /\ size' = size
  BY DEF SaveProduct
<1>2. Sound(r) /\ Typed /\ req[r] \in Request
  BY OfRequest
<1>3. req[r].wrote = {} /\ req[r].row.price \in Prices /\ req[r].kind = "product"
  BY <1>1, <1>2 DEF Sound
<1>4. /\ t \in Request /\ t.at = "sizes" /\ t.wrote = req[r].wrote /\ t.rows = req[r].rows
      /\ t.kind = req[r].kind /\ t.row = req[r].row
  BY <1>2 DEF Request, Places
<1> HIDE DEF t
<1>5. req'[r] = t /\ Locks(r)'
  BY <1>1, <1>4, StaysLocked
<1>6. (Sound(r) /\ Course(r))'
  BY <1>3, <1>4, <1>5 DEF Sound, Course
<1> QED
  BY <1>1, <1>3, <1>4, <1>5, <1>6, StepKeeps

LEMMA MintSizeKeeps == ASSUME SizesInv, NEW r \in Requests, MintSize(r) PROVE SizesInv'
<1>1. PICK v \in Unborn :
        Step(r, [req[r] EXCEPT !.at = "save", !.size = v,
                               !.row = [@ EXCEPT !.default = TRUE, !.active = TRUE]])
  BY DEF MintSize
<1> DEFINE row == [req[r].row EXCEPT !.default = TRUE, !.active = TRUE]
           t   == [req[r] EXCEPT !.at = "save", !.size = v, !.row = row]
<1>2. Step(r, t) /\ req[r].at = "sizes" /\ size' = size /\ card' = card /\ v \in Sizes
  BY <1>1 DEF MintSize, Unborn
<1>3. Sound(r) /\ Typed /\ req[r] \in Request
  BY OfRequest
<1>4. req[r].wrote = {} /\ req[r].row.price \in Prices /\ req[r].kind = "product" /\ req[r].row \in Draft
  BY <1>2, <1>3 DEF Sound, Request
<1>5. row \in SizeRow /\ row \in Draft /\ row.default
  BY <1>4 DEF SizeRow, Draft
<1> HIDE DEF row
<1>6. /\ t \in Request /\ t.at = "save" /\ t.size = v /\ t.row = row /\ t.kind = req[r].kind
      /\ t.wrote = req[r].wrote /\ t.rows = req[r].rows
  BY <1>2, <1>3, <1>5 DEF Request, Places
<1> HIDE DEF t
<1>7. req'[r] = t /\ Locks(r)'
  BY <1>2, <1>6, StaysLocked
<1>8. NewRow(r)' = req'[r].row
  BY <1>4, <1>6, <1>7 DEF NewRow
<1>9. (Sound(r) /\ Course(r))'
  BY <1>2, <1>4, <1>5, <1>6, <1>7, <1>8 DEF Sound, Course
<1> QED
  BY <1>2, <1>3, <1>6, <1>7, <1>9, StepKeeps DEF Typed

-----------------------------------------------------------------------------
LEMMA SizesInitHolds == SizesInit => SizesInv
<1> SUFFICES ASSUME SizesInit PROVE SizesInv
  OBVIOUS
<1>1. OneFlag(size)
  <2>1. IsFiniteSet(Flagged(size))
    BY SizesAssumption, FS_Subset DEF Flagged
  <2>2. ASSUME NEW v \in Flagged(size), NEW w \in Flagged(size), v # w PROVE FALSE
    <3>1. Cardinality({v, w}) <= Cardinality(Flagged(size))
      BY <2>1, FS_Subset
    <3>2. Cardinality({v, w}) = 2
      <4>1. IsFiniteSet({v}) /\ Cardinality({v}) = 1
        BY FS_Singleton
      <4>2. Cardinality({v} \cup {w}) = 2
        BY <2>2, <4>1, FS_AddElement
      <4>3. {v, w} = {v} \cup {w}
        OBVIOUS
      <4> QED BY <4>2, <4>3
    <3>3. Cardinality(Flagged(size)) <= 1 /\ Cardinality(Flagged(size)) \in Nat
      BY <2>1, FS_CardinalityType DEF SizesInit
    <3> QED BY <3>1, <3>2, <3>3
  <2> QED BY <2>2 DEF OneFlag
<1>2. /\ req \in [Requests -> Request]
      /\ \A r \in Requests : req[r] = Idle /\ Claims(r) = {} /\ ~alone[r]
  BY IdleIs DEF SizesInit, Claims
<1>3. Typed
  <2>1. begun \in 0 .. MaxBegun
    BY BoundAssumption DEF SizesInit
  <2>2. size \in Rows /\ card \in Prices /\ alone \in [Requests -> BOOLEAN] /\ settled \in BOOLEAN
    BY DEF SizesInit, Rows
  <2> QED BY <1>1, <1>2, <2>1, <2>2 DEF Typed
<1>4. \A r \in Requests : Sound(r) /\ Locks(r) /\ Undisturbed(r)
  BY <1>2, IdleIs DEF Sound, Locks, Undisturbed
<1>5. Rest
  BY DEF Rest, SizesInit
<1> QED
  BY <1>3, <1>4, <1>5 DEF SizesInv

LEMMA SizesNextKeeps == SizesInv /\ [SizesNext]_sizeVars => SizesInv'
<1> SUFFICES ASSUME SizesInv, [SizesNext]_sizeVars PROVE SizesInv'
  OBVIOUS
<1>1. CASE UNCHANGED sizeVars
  <2>1. /\ size' = size /\ card' = card /\ req' = req /\ begun' = begun
        /\ alone' = alone /\ settled' = settled
    BY <1>1 DEF sizeVars
  <2>2. Typed'
    BY <2>1 DEF SizesInv, Typed, OneFlag, Flagged
  <2>3. ASSUME NEW r \in Requests PROVE (Sound(r) /\ Locks(r) /\ Undisturbed(r))'
    <3>1. Sound(r) /\ Locks(r) /\ Undisturbed(r)
      BY DEF SizesInv
    <3>2. NewRow(r)' = NewRow(r) /\ View(r)' = View(r) /\ \A q \in Requests : Claims(q)' = Claims(q)
      BY <2>1 DEF NewRow, View, Claims
    <3>3. Sound(r)' /\ Locks(r)'
      BY <2>1, <3>1, <3>2 DEF Sound, Locks, Flagged
    <3>4. Course(r)' = Course(r)
      BY <2>1, <3>2 DEF Course, Settles, Defaults, Due, Actives, Flagged, Smallest
    <3> QED BY <2>1, <3>1, <3>3, <3>4 DEF Undisturbed
  <2>4. Rest'
    BY <2>1 DEF SizesInv, Rest, Quiet, OneDefault, CardShowsDefault, DefaultOf, Actives, Flagged, Smallest
  <2> QED BY <2>2, <2>3, <2>4 DEF SizesInv
<1>2. ASSUME NEW r \in Requests, SizeRequest(r) PROVE SizesInv'
  <2>1. CASE OpenSizeForm(r) \/ NewSize(r) \/ Retire(r) \/ BulkEdit(r) \/ ImportSheet(r)
    BY <2>1, OpenSizeFormKeeps, NewSizeKeeps, RetireKeeps, BulkEditKeeps, ImportSheetKeeps
  <2>2. CASE UnsetOthers(r) \/ Commit(r)
    BY <2>2, UnsetOthersKeeps, CommitKeeps
  <2>3. CASE SaveSize(r) \/ ChooseDefault(r) \/ Promote(r) \/ ReadDefault(r)
    BY <2>3, SaveSizeKeeps, ChooseDefaultKeeps, PromoteKeeps, ReadDefaultKeeps
  <2> QED BY <1>2, <2>1, <2>2, <2>3 DEF SizeRequest
<1>3. ASSUME NEW r \in Requests, ProductRequest(r) PROVE SizesInv'
  <2>1. CASE HasSize(r)
    BY <2>1, EndsKeeps DEF HasSize
  <2>2. CASE OpenProduct(r) \/ SaveProduct(r) \/ MintSize(r)
    BY <2>2, OpenProductKeeps, SaveProductKeeps, MintSizeKeeps
  <2> QED BY <1>3, <2>1, <2>2 DEF ProductRequest
<1>4. ASSUME NEW r \in Requests, RequestFails(r) PROVE SizesInv'
  BY <1>4, EndsKeeps DEF RequestFails
<1> QED
  BY <1>1, <1>2, <1>3, <1>4 DEF SizesNext

LEMMA SizesInvIsKept == SizesSpec => []SizesInv
<1>1. SizesInit => SizesInv
  BY SizesInitHolds
<1>2. SizesInv /\ [SizesNext]_sizeVars => SizesInv'
  BY SizesNextKeeps
<1> QED
  BY <1>1, <1>2, PTL DEF SizesSpec

(* products/signals.py:78: whatever overlapping saves, stale forms, edits  *)
(* of the product or workers that died left behind, the next save of a     *)
(* size that runs alone leaves one active default, and its price is on the *)
(* product (SizesSettle).                                                  *)
THEOREM SizesDoSettle == SizesSpec => []SizesSettle
<1>1. SizesInv => SizesSettle
  <2> SUFFICES ASSUME SizesInv PROVE SizesSettle
    OBVIOUS
  <2>1. Cardinality(Flagged(size)) <= 1
    <3>1. \A v, w \in Flagged(size) : v = w
      BY DEF SizesInv, Typed, OneFlag
    <3>2. CASE Flagged(size) = {}
      BY <3>2, FS_EmptySet
    <3>3. CASE Flagged(size) # {}
      <4>1. PICK v : Flagged(size) = {v}
        BY <3>1, <3>3
      <4>2. Cardinality({v}) = 1
        BY FS_Singleton
      <4> QED BY <4>1, <4>2
    <3> QED BY <3>2, <3>3
  <2>2. TypeOK
    BY <2>1 DEF SizesInv, Typed, TypeOK, Rows, Request, Places
  <2>3. SettledExact
    BY DEF SizesInv, Rest, SettledExact
  <2> QED BY <2>2, <2>3 DEF SizesSettle
<1> QED
  BY <1>1, SizesInvIsKept, PTL

(* Which size that is, of a save that runs alone: the one that claims it;  *)
(* else the one that was the default and may still be; else the smallest   *)
(* active one (DefaultFollows).                                            *)
THEOREM TheDueSizeIsDefault == SizesSpec => DefaultFollows
<1>1. SizesInv /\ [SizesNext]_sizeVars =>
        [\A r \in Requests : Commit(r) /\ alone[r] /\ Actives(View(r)) # {}
           => Actives(size') \cap Flagged(size') = {Due(r, View(r))}]_sizeVars
  <2> SUFFICES ASSUME SizesInv, NEW r \in Requests, Commit(r), alone[r], Actives(View(r)) # {}
               PROVE  Actives(size') \cap Flagged(size') = {Due(r, View(r))}
    OBVIOUS
  <2>1. req[r].at = "commit" /\ size' = View(r)
    BY DEF Commit
  <2>2. Defaults(View(r)) = {Due(r, View(r))}
    BY <2>1, OfRequest DEF Undisturbed, Course, Settles
  <2> QED BY <2>1, <2>2 DEF Defaults
<1> QED
  BY <1>1, SizesInvIsKept, PTL DEF SizesSpec, DefaultFollows

=============================================================================
