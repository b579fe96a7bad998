---------------------------- MODULE Pricing_proofs ----------------------------
(***************************************************************************)
(* One order's money, for any shelf, coupon, headings and bounds: quoted,  *)
(* billed, invoiced, refunded, noted and cancelled.  First what the        *)
(* roundings and splits give (Near: the quotient but for half a paisa);    *)
(* then what a bill is made of (BillSound) and what a breakdown by rate    *)
(* adds up to.  What is inductive is MoneyInv: the quote is of the shelf   *)
(* as it is, the bill is sound, the invoice is of the bill, refunds stay   *)
(* within it, and a note is worked out from the invoice and its refund.    *)
(***************************************************************************)
EXTENDS Documents, NumberFacts, SequenceTheorems

-----------------------------------------------------------------------------
(***************************************************************************)
(* Roundings.  Each is the quotient but for half a paisa.                  *)
(***************************************************************************)
Near(q, n, d) ==
  /\ 2 * (d * q) <= 2 * n + d
  /\ 2 * n <= 2 * (d * q) + d

LEMMA Floor ==
  ASSUME NEW a \in Int, NEW d \in Nat \ {0}
  PROVE  /\ a \div d \in Int
         /\ d * (a \div d) <= a
         /\ a < d * (a \div d) + d
         /\ a % d \in 0 .. d - 1
         /\ a = d * (a \div d) + (a % d)
<1>1. a \div d \in Int
  OBVIOUS
<1>2. d * (a \div d) <= a
  OBVIOUS
<1>3. a < d * (a \div d) + d
  OBVIOUS
<1>4. a % d \in 0 .. d - 1
  OBVIOUS
<1>5. a = d * (a \div d) + (a % d)
  OBVIOUS
<1> QED BY <1>1, <1>2, <1>3, <1>4, <1>5

(* What is near a quotient is on the same side of every whole number.      *)
LEMMA NearBounds ==
  ASSUME NEW q \in Int, NEW n \in Int, NEW d \in Nat \ {0}, NEW k \in Int, Near(q, n, d)
  PROVE  /\ n <= d * k => q <= k
         /\ d * k <= n => k <= q
<1>1. ASSUME n <= d * k, ~(q <= k) PROVE FALSE
  <2>1. q - k \in Nat \ {0}
    BY <1>1
  <2>2. d * (q - k) >= d
    BY <2>1
  <2>3. d * (q - k) = d * q - d * k
    OBVIOUS
  <2>4. d * q \in Int /\ d * k \in Int
    OBVIOUS
  <2> QED BY <1>1, <2>2, <2>3, <2>4 DEF Near
<1>2. ASSUME d * k <= n, ~(k <= q) PROVE FALSE
  <2>1. k - q \in Nat \ {0}
    BY <1>2
  <2>2. d * (k - q) >= d
    BY <2>1
  <2>3. d * (k - q) = d * k - d * q
    OBVIOUS
  <2>4. d * q \in Int /\ d * k \in Int
    OBVIOUS
  <2> QED BY <1>2, <2>2, <2>3, <2>4 DEF Near
<1> QED BY <1>1, <1>2

LEMMA NearNothing ==
  ASSUME NEW q \in Int, NEW n \in Nat, NEW d \in Nat \ {0}, Near(q, n, d)
  PROVE  q \in Nat
<1>1. d * 0 <= n /\ 0 \in Int /\ n \in Int
  OBVIOUS
<1>2. 0 <= q
  BY <1>1, NearBounds
<1> QED BY <1>2

LEMMA HalfUpIs ==
  ASSUME NEW n \in Int, NEW d \in Nat \ {0}
  PROVE  /\ HalfUp(n, d) \in Int
         /\ Near(HalfUp(n, d), n, d)
         /\ 2 * n < 2 * (d * HalfUp(n, d)) + d
<1> DEFINE q == (2 * n + d) \div (2 * d)
<1>1. 2 * n + d \in Int /\ 2 * d \in Nat \ {0}
  OBVIOUS
<1>2. /\ q \in Int /\ (2 * d) * q <= 2 * n + d
      /\ 2 * n + d < (2 * d) * q + 2 * d
  <2> HIDE DEF q
  <2> QED BY <1>1, Floor DEF q
<1>3. (2 * d) * q = 2 * (d * q)
  <2> HIDE DEF q
  <2> QED BY <1>2
<1>4. HalfUp(n, d) = q
  BY DEF HalfUp
<1> HIDE DEF q
<1>5. d * q \in Int
  BY <1>2
<1> QED BY <1>2, <1>3, <1>4, <1>5 DEF Near

LEMMA HalfEvenIs ==
  ASSUME NEW n \in Int, NEW d \in Nat \ {0}
  PROVE  HalfEven(n, d) \in Int /\ Near(HalfEven(n, d), n, d)
<1> DEFINE q == n \div d
           m == n % d
<1>1. q \in Int /\ m \in 0 .. d - 1 /\ n = d * q + m
  BY Floor
<1>2. HalfEven(n, d) = IF 2 * m > d \/ (2 * m = d /\ q % 2 = 1) THEN q + 1 ELSE q
  BY DEF HalfEven
<1> HIDE DEF q, m
<1>3. d * (q + 1) = d * q + d /\ d * q \in Int
  BY <1>1
<1>4. CASE 2 * m > d \/ (2 * m = d /\ q % 2 = 1)
  <2>1. HalfEven(n, d) = q + 1 /\ 2 * m >= d
    BY <1>1, <1>2, <1>4
  <2> QED BY <1>1, <1>3, <2>1 DEF Near
<1>5. CASE ~(2 * m > d \/ (2 * m = d /\ q % 2 = 1))
  <2>1. HalfEven(n, d) = q /\ 2 * m <= d
    BY <1>1, <1>2, <1>5
  <2> QED BY <1>1, <1>3, <2>1 DEF Near
<1> QED BY <1>4, <1>5

LEMMA TiltIs ==
  ASSUME NEW n \in Int, NEW d \in Nat \ {0}, NEW up
  PROVE  Tilt(Nearest(n, d), up) \in Int /\ Near(Tilt(Nearest(n, d), up), n, d)
<1> DEFINE q == n \div d
           S == Nearest(n, d)
<1>1. q \in Int /\ d * q <= n /\ n < d * q + d
  BY Floor
<1>2. S = {p \in {q, q + 1} : 2 * (p * d - n) <= d /\ 2 * (n - p * d) <= d}
  BY DEF Nearest
<1> HIDE DEF q, S
<1>3. /\ q * d = d * q /\ (q + 1) * d = d * q + d /\ d * (q + 1) = d * q + d
      /\ d * q \in Int
  BY <1>1
<1>4. q \in S \/ q + 1 \in S
  BY <1>1, <1>2, <1>3
<1>5. \A p \in S : p \in Int /\ Near(p, n, d)
  BY <1>1, <1>2, <1>3 DEF Near
<1>6. \E x \in S : \A y \in S : x >= y
  <2>1. CASE q + 1 \in S
    BY <1>1, <1>2, <2>1
  <2>2. CASE q + 1 \notin S
    BY <1>1, <1>2, <1>4, <2>2
  <2> QED BY <2>1, <2>2
<1>7. \E x \in S : \A y \in S : x <= y
  <2>1. CASE q \in S
    BY <1>1, <1>2, <2>1
  <2>2. CASE q \notin S
    BY <1>1, <1>2, <1>4, <2>2
  <2> QED BY <2>1, <2>2
<1>8. Max(S) \in S
  BY <1>6 DEF Max
<1>9. Min(S) \in S
  BY <1>7 DEF Min
<1>10. Tilt(S, up) \in S
  BY <1>8, <1>9 DEF Tilt
<1> QED BY <1>5, <1>10 DEF S

(* A quotient that is whole is not rounded.                                *)
LEMMA NearWhole ==
  ASSUME NEW q \in Int, NEW d \in Nat \ {0}, NEW k \in Int, Near(q, d * k, d)
  PROVE  q = k
<1>1. d * k \in Int
  OBVIOUS
<1> QED BY <1>1, NearBounds

LEMMA TaxIsAdded ==
  ASSUME NEW net \in Nat, NEW rate \in Percent
  PROVE  AddTax(net, rate) \in Nat /\ (net = 0 => AddTax(net, rate) = 0)
<1>1. net * rate \in Nat /\ (net = 0 => net * rate = 0) /\ 100 \in Nat \ {0} /\ rate \in Nat
  BY DEF Percent
<1> DEFINE t == HalfUp(net * rate, 100)
<1>2. t \in Int /\ Near(t, net * rate, 100)
  BY <1>1, HalfUpIs
<1>3. t = AddTax(net, rate)
  BY DEF AddTax
<1> HIDE DEF t
<1>4. 0 <= t
  BY <1>1, <1>2 DEF Near
<1>5. net = 0 => t = 0
  BY <1>1, <1>2 DEF Near
<1> QED BY <1>2, <1>3, <1>4, <1>5

LEMMA TaxIsWithin ==
  ASSUME NEW gross \in Int, NEW rate \in Percent
  PROVE  /\ ExtractTax(gross, rate) \in Nat
         /\ gross >= 0 => ExtractTax(gross, rate) <= gross
         /\ gross <= 0 \/ rate = 0 => ExtractTax(gross, rate) = 0
<1>1. CASE gross <= 0
  BY <1>1 DEF ExtractTax
<1>2. CASE gross > 0
  <2> DEFINE t == HalfUp(gross * rate, 100 + rate)
             d == 100 + rate
  <2>1. gross \in Nat /\ rate \in Nat /\ d \in Nat \ {0} /\ gross * rate \in Int
    BY <1>2 DEF Percent
  <2>2. t \in Int /\ Near(t, gross * rate, d)
    BY <2>1, HalfUpIs
  <2>3. ExtractTax(gross, rate) = t
    BY <1>2 DEF ExtractTax
  <2>4. d * gross = 100 * gross + gross * rate /\ d * 0 = 0
    BY <2>1
  <2>5. gross * rate <= d * gross /\ d * 0 <= gross * rate
    <3>1. gross * rate \in Nat /\ 100 * gross \in Nat
      BY <2>1
    <3> QED BY <2>4, <3>1
  <2>6. rate = 0 => gross * rate <= d * 0
    BY <2>1
  <2> HIDE DEF t, d
  <2>7. t <= gross /\ 0 <= t
    <3>1. t <= gross
      BY <2>1, <2>2, <2>5, NearBounds
    <3>2. 0 <= t
      BY <2>1, <2>2, <2>5, NearBounds
    <3> QED BY <3>1, <3>2
  <2>8. rate = 0 => t <= 0
    BY <2>1, <2>2, <2>6, NearBounds
  <2> QED BY <1>2, <2>1, <2>2, <2>3, <2>7, <2>8
<1> QED BY <1>1, <1>2

(* What is put on top of a fee is found in it again.                       *)
LEMMA TaxIsFoundAgain ==
  ASSUME NEW net \in Nat, NEW rate \in Percent
  PROVE  ExtractTax(net + AddTax(net, rate), rate) = AddTax(net, rate)
<1> DEFINE t == AddTax(net, rate)
           d == 100 + rate
           u == HalfUp((net + t) * rate, d)
<1>1. t \in Nat /\ (net = 0 => t = 0)
  BY TaxIsAdded
<1>2. net * rate \in Int /\ rate \in Nat /\ d \in Nat \ {0}
  BY DEF Percent
<1>3. t = HalfUp(net * rate, 100)
  BY DEF AddTax
<1>4. Near(t, net * rate, 100) /\ 2 * (net * rate) < 2 * (100 * t) + 100
  BY <1>2, <1>3, HalfUpIs
<1>5. CASE net + t <= 0
  BY <1>1, <1>5 DEF ExtractTax
<1>6. CASE net + t > 0
  <2>1. ExtractTax(net + t, rate) = u
    <3>1. ~(net + t <= 0)
      <4> HIDE DEF t
      <4> QED BY <1>1, <1>6
    <3> HIDE DEF t
    <3> QED BY <3>1 DEF ExtractTax
  <2>2. (net + t) * rate \in Int
    BY <1>1, <1>2
  <2>3. u \in Int /\ Near(u, (net + t) * rate, d) /\ 2 * ((net + t) * rate) < 2 * (d * u) + d
    BY <1>2, <2>2, HalfUpIs
  <2>4. (net + t) * rate = net * rate + t * rate
    <3> HIDE DEF t
    <3> QED BY <1>1, <1>2
  <2> HIDE DEF u, t
  <2>5. d * t = 100 * t + t * rate /\ d * (u - t) = d * u - d * t
    BY <1>1, <1>2, <2>3
  <2> HIDE DEF d
  <2> DEFINE x == net * rate
             y == t * rate
             z == d * u
             w == d * (u - t)
  <2>6. x \in Int /\ y \in Int /\ z \in Int /\ w \in Int /\ d >= 100
    BY <1>1, <1>2, <2>3 DEF d
  <2>7. w = z - (100 * t + y)
    BY <2>5
  <2>8. 2 * z <= 2 * (x + y) + d /\ 2 * (x + y) < 2 * z + d
    BY <2>3, <2>4 DEF Near
  <2>9. 2 * (100 * t) <= 2 * x + 100 /\ 2 * x < 2 * (100 * t) + 100
    BY <1>4 DEF Near
  <2>10. -d < w /\ w <= d
    <3> HIDE DEF x, y, z, w
    <3> QED BY <1>1, <1>2, <2>6, <2>7, <2>8, <2>9
  <2>11. 2 * w < 2 * d
    <3> HIDE DEF x, y, z, w
    <3> QED BY <1>1, <1>2, <2>6, <2>7, <2>8, <2>9
  <2>12. u - t = 0
    <3>1. u - t \in Int
      BY <1>1, <2>3
    <3>2. CASE u - t >= 1
      <4>1. w >= d
        BY <1>2, <3>1, <3>2
      <4> HIDE DEF w
      <4> QED BY <1>2, <2>6, <2>11, <4>1
    <3>3. CASE u - t <= -1
      <4>1. w <= -d
        BY <1>2, <3>1, <3>3
      <4> HIDE DEF w
      <4> QED BY <1>2, <2>6, <2>10, <4>1
    <3> QED BY <3>1, <3>2, <3>3
  <2> QED BY <1>1, <2>1, <2>3, <2>12 DEF t
<1> QED BY <1>1, <1>5, <1>6

-----------------------------------------------------------------------------
(***************************************************************************)
(* Totals of functions with whole numbers for values.                      *)
(***************************************************************************)
Amounts(f) == IsFiniteSet(DOMAIN f) /\ \A x \in DOMAIN f : f[x] \in Int

LEMMA TotalIs ==
  ASSUME NEW f
  PROVE  Total(f) = SumFunctionOnSet(f, DOMAIN f)
BY DEF Total, SumFunction

LEMMA TotalIsInt ==
  ASSUME NEW f, Amounts(f)
  PROVE  Total(f) \in Int
BY TotalIs, SumIsInteger DEF Amounts, Integral

LEMMA TotalIsNat ==
  ASSUME NEW f, IsFiniteSet(DOMAIN f), \A x \in DOMAIN f : f[x] \in Nat
  PROVE  Total(f) \in Nat
BY TotalIs, SumIsNatural

LEMMA TotalOfZeros ==
  ASSUME NEW f, IsFiniteSet(DOMAIN f), \A x \in DOMAIN f : f[x] = 0
  PROVE  Total(f) = 0
BY TotalIs, SumOfZeros

LEMMA TotalOfNone ==
  ASSUME NEW f, DOMAIN f = {}
  PROVE  Total(f) = 0
BY TotalIs, SumOfNone

LEMMA TotalAgrees ==
  ASSUME NEW f, Amounts(f), NEW g, DOMAIN g = DOMAIN f, \A x \in DOMAIN f : g[x] = f[x]
  PROVE  Total(g) = Total(f)
<1>1. SumFunctionOnSet(g, DOMAIN f) = SumFunctionOnSet(f, DOMAIN f)
  BY SumAgrees DEF Amounts, Integral
<1> QED BY <1>1, TotalIs

LEMMA TotalPlus ==
  ASSUME NEW f, Amounts(f), NEW g, Amounts(g), DOMAIN g = DOMAIN f,
         NEW h, DOMAIN h = DOMAIN f, \A x \in DOMAIN f : h[x] = f[x] + g[x]
  PROVE  Total(h) = Total(f) + Total(g)
<1>1. SumFunctionOnSet(h, DOMAIN f) = SumFunctionOnSet(f, DOMAIN f) + SumFunctionOnSet(g, DOMAIN f)
  BY SumPlus DEF Amounts, Integral
<1> QED BY <1>1, TotalIs

LEMMA TotalMinus ==
  ASSUME NEW f, Amounts(f), NEW g, Amounts(g), DOMAIN g = DOMAIN f,
         NEW h, DOMAIN h = DOMAIN f, \A x \in DOMAIN f : h[x] = f[x] - g[x]
  PROVE  Total(h) = Total(f) - Total(g)
<1>1. Amounts(h)
  BY DEF Amounts
<1>2. \A x \in DOMAIN f : f[x] = h[x] + g[x]
  BY DEF Amounts
<1>3. Total(f) = Total(h) + Total(g)
  BY <1>1, <1>2, TotalPlus
<1> QED BY <1>1, <1>3, TotalIsInt

LEMMA TotalScaled ==
  ASSUME NEW f, Amounts(f), NEW c \in Int, NEW h, DOMAIN h = DOMAIN f,
         \A x \in DOMAIN f : h[x] = c * f[x]
  PROVE  Total(h) = c * Total(f)
<1>1. SumFunctionOnSet(h, DOMAIN f) = c * SumFunctionOnSet(f, DOMAIN f)
  BY SumScaled DEF Amounts, Integral
<1> QED BY <1>1, TotalIs

LEMMA TotalOfOnes ==
  ASSUME NEW f, IsFiniteSet(DOMAIN f), \A x \in DOMAIN f : f[x] = 1
  PROVE  Total(f) = Cardinality(DOMAIN f)
BY TotalIs, SumOfOnes

LEMMA TotalBelow ==
  ASSUME NEW f, Amounts(f), NEW g, Amounts(g), DOMAIN g = DOMAIN f,
         \A x \in DOMAIN f : f[x] <= g[x]
  PROVE  Total(f) <= Total(g)
<1> DEFINE h == [x \in DOMAIN f |-> g[x] - f[x]]
<1>1. \A x \in DOMAIN h : h[x] \in Nat
  BY DEF Amounts
<1>2. Total(h) \in Nat
  BY <1>1, TotalIsNat DEF Amounts
<1>3. Total(h) = Total(g) - Total(f)
  BY TotalMinus
<1> HIDE DEF h
<1> QED BY <1>2, <1>3, TotalIsInt

(* What is above every term's share by up to a half each.                  *)
LEMMA TotalWithin ==
  ASSUME NEW f, Amounts(f), NEW g, Amounts(g), DOMAIN g = DOMAIN f,
         NEW c, Amounts(c), DOMAIN c = DOMAIN f,
         \A x \in DOMAIN f : 2 * f[x] <= 2 * g[x] + c[x]
  PROVE  2 * Total(f) <= 2 * Total(g) + Total(c)
<1> DEFINE F == [x \in DOMAIN f |-> 2 * f[x]]
           G == [x \in DOMAIN f |-> 2 * g[x]]
           H == [x \in DOMAIN f |-> G[x] + c[x]]
<1>1. Amounts(F) /\ Amounts(G) /\ Amounts(H)
  BY DEF Amounts
<1>2. Total(F) = 2 * Total(f)
  BY TotalScaled
<1>3. Total(G) = 2 * Total(g)
  BY TotalScaled
<1>4. Total(H) = Total(G) + Total(c)
  BY <1>1, TotalPlus
<1>5. Total(F) <= Total(H)
  BY <1>1, TotalBelow
<1> HIDE DEF F, G, H
<1> QED BY <1>2, <1>3, <1>4, <1>5

LEMMA TotalOfOneMore ==
  ASSUME NEW f, Amounts(f), NEW x \in DOMAIN f, NEW a \in Int
  PROVE  Total([f EXCEPT ![x] = @ + a]) = Total(f) + a
<1> DEFINE g == [f EXCEPT ![x] = @ + a]
           S == DOMAIN f
<1>1. DOMAIN g = S /\ g[x] = f[x] + a /\ Integral(f, S) /\ Integral(g, S) /\ IsFiniteSet(S)
  BY DEF Amounts, Integral
<1>2. SumFunctionOnSet(f, S) = f[x] + SumFunctionOnSet(f, S \ {x})
  BY <1>1, SumWithout
<1>3. SumFunctionOnSet(g, S) = g[x] + SumFunctionOnSet(g, S \ {x})
  BY <1>1, SumWithout
<1>4. SumFunctionOnSet(g, S \ {x}) = SumFunctionOnSet(f, S \ {x})
  <2>1. IsFiniteSet(S \ {x}) /\ Integral(f, S \ {x}) /\ \A y \in S \ {x} : g[y] = f[y]
    BY <1>1, FS_Subset DEF Integral
  <2> HIDE DEF g, S
  <2> QED BY <2>1, SumAgrees
<1>5. SumFunctionOnSet(f, S \ {x}) \in Int /\ f[x] \in Int
  <2>1. IsFiniteSet(S \ {x}) /\ Integral(f, S \ {x})
    BY <1>1, FS_Subset DEF Integral
  <2>2. f[x] \in Int
    BY DEF Amounts
  <2> QED BY <2>1, <2>2, SumIsInteger
<1>6. Total(g) = SumFunctionOnSet(g, S) /\ Total(f) = SumFunctionOnSet(f, S)
  BY <1>1, TotalIs
<1> HIDE DEF g, S
<1>7. Total(g) = Total(f) + a
  BY <1>1, <1>2, <1>3, <1>4, <1>5, <1>6
<1> QED BY <1>7 DEF g

LEMMA TotalInParts ==
  ASSUME NEW f, Amounts(f), NEW A \in SUBSET DOMAIN f, NEW g, DOMAIN g = A,
         \A x \in A : g[x] = f[x], NEW h, DOMAIN h = DOMAIN f \ A,
         \A x \in DOMAIN f \ A : h[x] = f[x]
  PROVE  Total(f) = Total(g) + Total(h)
<1> DEFINE S == DOMAIN f
           B == S \ A
<1>1. /\ IsFiniteSet(S) /\ IsFiniteSet(A) /\ IsFiniteSet(B)
      /\ Integral(f, S) /\ Integral(f, A) /\ Integral(f, B)
  BY FS_Subset DEF Amounts, Integral
<1>2. SumFunctionOnSet(f, S) = SumFunctionOnSet(f, A) + SumFunctionOnSet(f, S \ A)
  <2> HIDE DEF S
  <2>1. A \in SUBSET S
    BY DEF S
  <2> QED BY <1>1, <2>1, SumInParts
<1>3. SumFunctionOnSet(g, A) = SumFunctionOnSet(f, A)
  BY <1>1, SumAgrees
<1>4. SumFunctionOnSet(h, B) = SumFunctionOnSet(f, B)
  BY <1>1, SumAgrees
<1>5. /\ Total(f) = SumFunctionOnSet(f, S) /\ Total(g) = SumFunctionOnSet(g, A)
      /\ Total(h) = SumFunctionOnSet(h, B)
  BY TotalIs
<1> QED BY <1>2, <1>3, <1>4, <1>5

LEMMA TotalBySlab ==
  ASSUME NEW f, Amounts(f), NEW v, IsFiniteSet(DOMAIN v),
         NEW k, \A x \in DOMAIN f : k[x] \in DOMAIN v,
         \A r \in DOMAIN v : v[r] = SumFunctionOnSet(f, {x \in DOMAIN f : k[x] = r})
  PROVE  Total(v) = Total(f)
<1>1. SumFunctionOnSet(v, DOMAIN v) = SumFunctionOnSet(f, DOMAIN f)
  BY SumBySlab DEF Amounts, Integral
<1> QED BY <1>1, TotalIs

(* The total over part of what a function is defined on.                   *)
LEMMA TotalOfPart ==
  ASSUME NEW f, Amounts(f), NEW A \in SUBSET DOMAIN f,
         NEW g, DOMAIN g = A, \A x \in A : g[x] = f[x]
  PROVE  Total(g) = SumFunctionOnSet(f, A)
<1>1. IsFiniteSet(A) /\ Integral(f, A)
  BY FS_Subset DEF Amounts, Integral
<1>2. SumFunctionOnSet(g, A) = SumFunctionOnSet(f, A)
  BY <1>1, SumAgrees
<1> QED BY <1>2, TotalIs

-----------------------------------------------------------------------------
(***************************************************************************)
(* Splits: of a combo over its components, of a tax over the rows of a     *)
(* note, of a row into its heads.                                          *)
(***************************************************************************)
Largest(f, D, g) == \A h \in D : f[h] < f[g] \/ (f[h] = f[g] /\ g <= h)

LEMMA SomeLargest ==
  ASSUME NEW D, IsFiniteSet(D), D \subseteq Nat, D # {}, NEW f, \A x \in D : f[x] \in Int
  PROVE  \E g \in D : Largest(f, D, g)
<1> DEFINE F == {t \in SUBSET D : t = {} \/ \E g \in t : Largest(f, t, g)}
<1>1. {} \in F
  OBVIOUS
<1>2. ASSUME NEW t \in SUBSET D, NEW x \in t, t \ {x} \in F
      PROVE  t \in F
  <2>0. \A y \in t : y \in Nat /\ f[y] \in Int
    OBVIOUS
  <2>1. CASE t \ {x} = {}
    <3>1. t = {x}
      BY <2>1
    <3> QED BY <2>0, <3>1 DEF Largest
  <2>2. CASE t \ {x} # {}
    <3>1. PICK g \in t \ {x} : Largest(f, t \ {x}, g)
      BY <1>2, <2>2
    <3>2. CASE f[x] < f[g] \/ (f[x] = f[g] /\ g <= x)
      BY <2>0, <3>1, <3>2 DEF Largest
    <3>3. CASE ~(f[x] < f[g] \/ (f[x] = f[g] /\ g <= x))
      <4>1. f[g] < f[x] \/ (f[g] = f[x] /\ x <= g)
        BY <2>0, <3>3
      <4>2. \A h \in t \ {x} : f[h] < f[x] \/ (f[h] = f[x] /\ x <= h)
        BY <2>0, <3>1, <4>1 DEF Largest
      <4>3. Largest(f, t, x)
        BY <2>0, <4>2 DEF Largest
      <4> QED BY <4>3
    <3> QED BY <3>2, <3>3
  <2> QED BY <2>1, <2>2
<1>3. D \in F
  <2> HIDE DEF F
  <2> QED BY <1>1, <1>2, InductOnSubsets
<1> QED BY <1>3

(* n parts of a whole, of which one is the largest share.                  *)
LEMMA LargestShare ==
  ASSUME NEW D, IsFiniteSet(D), NEW f, DOMAIN f = D, \A x \in D : f[x] \in Nat,
         NEW b \in D, Largest(f, D, b)
  PROVE  Total(f) <= Cardinality(D) * f[b]
<1> DEFINE one == [x \in D |-> 1]
           all == [x \in D |-> f[b] * one[x]]
<1>1. Amounts(f) /\ Amounts(one) /\ Amounts(all)
  BY DEF Amounts
<1>2. Total(one) = Cardinality(D)
  BY TotalOfOnes
<1>3. Total(all) = f[b] * Total(one)
  BY <1>1, TotalScaled
<1>4. \A x \in D : f[x] <= all[x]
  BY DEF Largest
<1>5. Total(f) <= Total(all)
  BY <1>1, <1>4, TotalBelow
<1>6. Cardinality(D) \in Nat /\ f[b] \in Nat
  BY FS_CardinalityType
<1> HIDE DEF one, all
<1>7. f[b] * Cardinality(D) = Cardinality(D) * f[b]
  BY <1>6
<1> QED BY <1>2, <1>3, <1>5, <1>7

(* Shares that are rounded each by itself are off the whole by half a      *)
(* paisa each.                                                             *)
LEMMA RoundedShares ==
  ASSUME NEW D, IsFiniteSet(D), NEW f, DOMAIN f = D, \A x \in D : f[x] \in Nat,
         NEW T \in Nat \ {0}, NEW whole \in Int, Total(f) = T,
         NEW p, DOMAIN p = D, \A x \in D : p[x] \in Int /\ Near(p[x], whole * f[x], T)
  PROVE  /\ 2 * Total(p) <= 2 * whole + Cardinality(D)
         /\ 2 * whole <= 2 * Total(p) + Cardinality(D)
         /\ Total(p) \in Int
<1> DEFINE F == [x \in D |-> T * p[x]]
           G == [x \in D |-> whole * f[x]]
           one == [x \in D |-> 1]
           c == [x \in D |-> T * one[x]]
           n == Cardinality(D)
<1>1. Amounts(f) /\ Amounts(p) /\ Amounts(F) /\ Amounts(G) /\ Amounts(one) /\ Amounts(c)
  BY DEF Amounts
<1>2. Total(F) = T * Total(p)
  BY <1>1, TotalScaled
<1>3. Total(G) = whole * T
  BY <1>1, TotalScaled
<1>4. Total(one) = n
  BY TotalOfOnes
<1>5. Total(c) = T * n
  BY <1>1, <1>4, TotalScaled
<1>6. \A x \in D : 2 * F[x] <= 2 * G[x] + c[x] /\ 2 * G[x] <= 2 * F[x] + c[x]
  BY DEF Near
<1>7. n \in Nat /\ Total(p) \in Int
  BY <1>1, TotalIsInt, FS_CardinalityType
<1>8. 2 * Total(F) <= 2 * Total(G) + Total(c)
  <2> HIDE DEF F, G, c
  <2>1. DOMAIN F = D /\ DOMAIN G = D /\ DOMAIN c = D
    BY DEF F, G, c
  <2> QED BY <1>1, <1>6, <2>1, TotalWithin
<1>9. 2 * Total(G) <= 2 * Total(F) + Total(c)
  <2> HIDE DEF F, G, c
  <2>1. DOMAIN F = D /\ DOMAIN G = D /\ DOMAIN c = D
    BY DEF F, G, c
  <2> QED BY <1>1, <1>6, <2>1, TotalWithin
<1> DEFINE s == Total(p)
<1>10. 2 * (T * s) <= 2 * (whole * T) + T * n /\ 2 * (whole * T) <= 2 * (T * s) + T * n
  BY <1>2, <1>3, <1>5, <1>8, <1>9
<1> HIDE DEF s, n
<1>11. s \in Int /\ n \in Nat
  BY <1>7 DEF s
<1>12. T * (2 * s - 2 * whole - n) = 2 * (T * s) - 2 * (whole * T) - T * n
  BY <1>11
<1>13. T * (2 * whole - 2 * s - n) = 2 * (whole * T) - 2 * (T * s) - T * n
  BY <1>11
<1>14. T * s \in Int /\ whole * T \in Int /\ T * n \in Int
  BY <1>11
<1>15. T * (2 * s - 2 * whole - n) <= 0 /\ T * (2 * whole - 2 * s - n) <= 0
  BY <1>10, <1>12, <1>13, <1>14
<1>16. \A k \in Int : T * k <= 0 => k <= 0
  <2>1. ASSUME NEW k \in Int, k >= 1 PROVE T * k >= T
    BY <2>1
  <2> QED BY <2>1
<1>17. 2 * s - 2 * whole - n <= 0 /\ 2 * whole - 2 * s - n <= 0
  <2>1. 2 * s - 2 * whole - n \in Int /\ 2 * whole - 2 * s - n \in Int
    BY <1>11
  <2> QED BY <1>15, <1>16, <2>1
<1> QED BY <1>7, <1>11, <1>17 DEF s, n

-----------------------------------------------------------------------------
LEMMA Scales ==
  ASSUME NEW c \in Nat \ {0}, NEW x \in Int, NEW y \in Int
  PROVE  /\ c * x \in Int /\ c * y \in Int
         /\ c * x <= c * y <=> x <= y
<1>1. c * x \in Int /\ c * y \in Int /\ c * (y - x) = c * y - c * x /\ c * (x - y) = c * x - c * y
  OBVIOUS
<1>2. ASSUME x <= y PROVE c * x <= c * y
  <2>1. y - x \in Nat
    BY <1>2
  <2>2. c * (y - x) \in Nat
    BY <2>1
  <2> QED BY <1>1, <2>2
<1>3. ASSUME ~(x <= y) PROVE ~(c * x <= c * y)
  <2>1. x - y \in Nat \ {0}
    BY <1>3
  <2>2. c * (x - y) \in Nat \ {0}
    BY <2>1
  <2> QED BY <1>1, <2>2
<1> QED BY <1>1, <1>2, <1>3

LEMMA AllocateIsNothing ==
  ASSUME NEW weights, NEW amount, amount <= 0 \/ DOMAIN weights = {}
  PROVE  Allocate(weights, amount) = <<>>
BY DEF Allocate

(* A split adds up to what is split; a part is less than nothing only when *)
(* there is too little to go round.                                        *)
LEMMA AllocateIs ==
  ASSUME NEW weights, NEW amount \in Int, amount > 0,
         IsFiniteSet(DOMAIN weights), DOMAIN weights \subseteq Nat, DOMAIN weights # {},
         \A g \in DOMAIN weights : weights[g] \in Nat
  PROVE  LET a == Allocate(weights, amount)
             n == Cardinality(DOMAIN weights)
         IN  /\ DOMAIN a = DOMAIN weights
             /\ \A g \in DOMAIN a : a[g] \in Int
             /\ Total(a) = amount
             /\ n * n <= 2 * amount => \A g \in DOMAIN a : a[g] >= 0
<1> DEFINE D == DOMAIN weights
           even == [g \in D |-> 1]
           share == IF Total(weights) = 0 THEN even ELSE weights
           T == Total(share)
           parts == [g \in DOMAIN share |-> HalfUp(amount * share[g], T)]
           b == CHOOSE g \in DOMAIN share :
                  \A h \in DOMAIN share : share[h] < share[g] \/ (share[h] = share[g] /\ g <= h)
           a == [parts EXCEPT ![b] = @ + amount - Total(parts)]
           n == Cardinality(D)
<1>1. Allocate(weights, amount) = a
  BY DEF Allocate
<1>2. DOMAIN share = D /\ \A g \in D : share[g] \in Nat
  OBVIOUS
<1>3. n \in Nat /\ (n = 0 <=> D = {})
  BY FS_CardinalityType, FS_EmptySet
<1>4. T \in Nat \ {0}
  <2>1. T \in Nat
    <3> HIDE DEF share
    <3> QED BY <1>2, TotalIsNat
  <2>2. CASE Total(weights) = 0
    <3>1. T = n
      BY <2>2, TotalOfOnes
    <3> HIDE DEF T, n, share
    <3> QED BY <1>3, <2>1, <3>1
  <2>3. CASE Total(weights) # 0
    <3>1. T = Total(weights)
      BY <2>3
    <3> HIDE DEF T
    <3> QED BY <2>1, <2>3, <3>1
  <2> QED BY <2>2, <2>3
<1> HIDE DEF share, T
<1>5. b \in D /\ Largest(share, D, b)
  <2>1. \E g \in D : Largest(share, D, g)
    BY <1>2, SomeLargest
  <2> QED BY <1>2, <2>1 DEF Largest
<1>6. /\ DOMAIN parts = D
      /\ \A g \in D : amount * share[g] \in Nat
      /\ \A g \in D : /\ parts[g] \in Int /\ Near(parts[g], amount * share[g], T)
                      /\ 2 * (amount * share[g]) < 2 * (T * parts[g]) + T
  <2>1. \A g \in D : amount * share[g] \in Nat
    BY <1>2
  <2>2. \A g \in D : parts[g] = HalfUp(amount * share[g], T)
    BY <1>2
  <2>3. DOMAIN parts = D
    BY <1>2
  <2> HIDE DEF parts, D
  <2>4. ASSUME NEW g \in D
        PROVE  /\ parts[g] \in Int /\ Near(parts[g], amount * share[g], T)
               /\ 2 * (amount * share[g]) < 2 * (T * parts[g]) + T
    <3>1. amount * share[g] \in Int /\ parts[g] = HalfUp(amount * share[g], T)
      BY <2>1, <2>2
    <3> QED BY <1>4, <3>1, HalfUpIs
  <2> QED BY <2>1, <2>3, <2>4
<1> HIDE DEF b, parts
<1>7. Amounts(parts)
  BY <1>6 DEF Amounts
<1> DEFINE P == Total(parts)
           c == amount - P
<1>8. P \in Int
  BY <1>7, TotalIsInt
<1>9. \A g \in D : a[g] = IF g = b THEN parts[b] + c ELSE parts[g]
  <2> HIDE DEF P
  <2> QED BY <1>5, <1>6, <1>8 DEF P
<1>10. DOMAIN a = D /\ \A g \in D : a[g] \in Int
  BY <1>5, <1>6, <1>8, <1>9
<1>11. Total(a) = amount
  <2> DEFINE e == [parts EXCEPT ![b] = @ + c]
  <2>1. c \in Int
    BY <1>8
  <2>2. b \in DOMAIN parts
    BY <1>5, <1>6
  <2>3. Total(e) = P + c
    <3> HIDE DEF c
    <3> QED BY <1>7, <2>1, <2>2, TotalOfOneMore
  <2>4. Amounts(e)
    <3> HIDE DEF P
    <3> QED BY <1>5, <1>6, <1>8 DEF Amounts
  <2>5. DOMAIN a = DOMAIN e /\ \A g \in DOMAIN e : a[g] = e[g]
    <3>1. DOMAIN e = D /\ \A g \in D : e[g] = IF g = b THEN parts[b] + c ELSE parts[g]
      BY <1>6
    <3> HIDE DEF a, e
    <3> QED BY <1>9, <1>10, <3>1
  <2>6. Total(a) = Total(e)
    <3> HIDE DEF a, e
    <3> QED BY <2>4, <2>5, TotalAgrees
  <2> HIDE DEF a, e, P
  <2> QED BY <1>8, <2>3, <2>6
<1>12. ASSUME n * n <= 2 * amount, NEW g \in D PROVE a[g] >= 0
  <2>1. \A h \in D : parts[h] >= 0
    <3>1. ASSUME NEW h \in D PROVE parts[h] >= 0
      <4> DEFINE x == amount * share[h]
      <4>1. x \in Nat /\ parts[h] \in Int /\ Near(parts[h], x, T)
        BY <1>6
      <4> HIDE DEF x
      <4>2. T \in Nat \ {0}
        BY <1>4
      <4>3. parts[h] \in Nat
        BY ONLY <4>1, <4>2, NearNothing
      <4> QED BY <4>3
    <3> QED BY <3>1
  <2>2. 2 * P <= 2 * amount + n
    BY <1>2, <1>4, <1>6, RoundedShares DEF T
  <2>3. T <= n * share[b]
    BY <1>2, <1>5, LargestShare DEF T
  <2> DEFINE sb == share[b]
             pb == parts[b]
  <2>4. sb \in Nat /\ pb \in Int /\ 2 * (amount * sb) < 2 * (T * pb) + T
    BY <1>2, <1>5, <1>6
  <2>5. amount * T <= amount * (n * sb)
    <3> HIDE DEF sb, n
    <3>1. n * sb \in Nat /\ T \in Nat /\ amount \in Nat
      BY <1>3, <1>4, <2>4
    <3>2. T <= n * sb
      BY <2>3 DEF sb, n
    <3>3. n * sb - T \in Nat
      BY <3>1, <3>2
    <3>4. amount * (n * sb - T) \in Nat
      BY <3>1, <3>3
    <3>5. amount * (n * sb - T) = amount * (n * sb) - amount * T
      BY <3>1
    <3> QED BY <3>1, <3>4, <3>5
  <2> HIDE DEF sb, pb, P
  <2>6. n \in Nat \ {0}
    BY <1>3
  <2> HIDE DEF n, D
  <2>7. 2 * (amount * T) <= n * (2 * (T * pb) + T)
    <3> DEFINE u == 2 * (amount * sb)
               v == 2 * (T * pb) + T
    <3>1. u \in Int /\ v \in Int /\ u <= v
      BY <1>4, <2>4
    <3>2. amount * (n * sb) = n * (amount * sb) /\ n * u = 2 * (n * (amount * sb))
      BY <2>4, <2>6
    <3>3. n * (amount * sb) \in Int /\ amount * T \in Int
      BY <1>4, <2>4, <2>6
    <3>4. 2 * (amount * T) <= n * u
      <4> HIDE DEF u
      <4> QED BY <2>5, <3>2, <3>3
    <3>5. n * u <= n * v /\ n * u \in Int /\ n * v \in Int
      <4> HIDE DEF u, v
      <4> QED BY <2>6, <3>1, Scales
    <3>6. 2 * (amount * T) <= n * v
      <4> HIDE DEF u, v
      <4> QED BY <3>3, <3>4, <3>5
    <3> QED BY <3>6
  <2>8. 2 * amount <= 2 * (n * pb) + n
    <3> DEFINE u == 2 * amount
               v == 2 * (n * pb) + n
    <3>1. u \in Int /\ v \in Int
      BY <2>4, <2>6
    <3>2. T * u = 2 * (amount * T)
      BY <1>4
    <3>3. T * v = n * (2 * (T * pb) + T)
      BY <1>4, <2>4, <2>6
    <3>4. T * u <= T * v
      BY <2>7, <3>2, <3>3
    <3>5. u <= v
      <4> HIDE DEF u, v
      <4> QED BY <1>4, <3>1, <3>4, Scales
    <3> QED BY <3>5
  <2>9. pb + c >= 0
    <3>1. ASSUME pb + c <= -1 PROVE FALSE
      <4>1. n * pb <= n * (-1 - c)
        <5>1. -1 - c - pb \in Nat
          BY <1>8, <2>4, <3>1
        <5>2. n * (-1 - c - pb) \in Nat
          BY <2>6, <5>1
        <5>3. n * (-1 - c - pb) = n * (-1 - c) - n * pb
          BY <1>8, <2>4, <2>6
        <5>4. n * (-1 - c) \in Int /\ n * pb \in Int
          BY <1>8, <2>4, <2>6
        <5> QED BY <5>2, <5>3, <5>4
      <4>2. 2 * (-1 - c) <= n - 2
        BY <1>8, <2>2, <2>6
      <4>3. 2 * (n * (-1 - c)) <= n * (n - 2)
        <5> DEFINE u == 2 * (-1 - c)
                   v == n - 2
        <5>1. v - u \in Nat /\ u \in Int /\ v \in Int
          BY <1>8, <2>6, <4>2
        <5> HIDE DEF u, v
        <5>2. n * (v - u) \in Nat /\ n * (v - u) = n * v - n * u /\ n * u \in Int /\ n * v \in Int
          BY <2>6, <5>1
        <5>3. n * u <= n * v
          BY <5>2
        <5>4. n * u = 2 * (n * (-1 - c))
          BY <1>8, <2>6 DEF u
        <5> QED BY <5>3, <5>4 DEF v
      <4>4. n * (n - 2) = n * n - 2 * n
        BY <2>6
      <4>5. n * pb \in Int /\ n * (-1 - c) \in Int /\ n * n \in Int
        BY <1>8, <2>4, <2>6
      <4>6. 2 * amount <= n * n - 2 * n + n
        BY <2>8, <4>1, <4>3, <4>4, <4>5, <2>6
      <4>7. n * n <= 2 * amount
        BY <1>12 DEF n, D
      <4> QED BY <2>6, <4>5, <4>6, <4>7
    <3> QED BY <1>8, <2>4, <3>1
  <2>10. CASE g = b
    BY <1>9, <2>9, <2>10 DEF pb
  <2>11. CASE g # b
    BY <1>9, <2>1, <2>11
  <2> QED BY <2>10, <2>11
<1> HIDE DEF a, n
<1>13. DOMAIN a = D /\ (n * n <= 2 * amount => \A g \in DOMAIN a : a[g] >= 0)
  BY <1>10, <1>12
<1> QED BY <1>1, <1>10, <1>11, <1>13 DEF n

-----------------------------------------------------------------------------
TaxOf(rows) == Total([r \in DOMAIN rows |-> rows[r].tax])
Slabs(rows) ==
  /\ IsFiniteSet(DOMAIN rows) /\ DOMAIN rows \subseteq Nat
  /\ \A r \in DOMAIN rows : rows[r].taxable \in Int /\ rows[r].tax \in Int

LEMMA TaxOfIsInt ==
  ASSUME NEW rows, Slabs(rows)
  PROVE  TaxOf(rows) \in Int
<1>1. Amounts([r \in DOMAIN rows |-> rows[r].tax])
  BY DEF Amounts, Slabs
<1> QED BY <1>1, TotalIsInt DEF TaxOf

LEMMA TaxOfAgrees ==
  ASSUME NEW rows, Slabs(rows), NEW others, DOMAIN others = DOMAIN rows,
         \A r \in DOMAIN rows : others[r].tax = rows[r].tax
  PROVE  TaxOf(others) = TaxOf(rows)
<1>1. [r \in DOMAIN others |-> others[r].tax] = [r \in DOMAIN rows |-> rows[r].tax]
  OBVIOUS
<1> QED BY <1>1 DEF TaxOf

(* Rows scaled to a tax carry exactly that tax; scaled to their own tax    *)
(* they are themselves.                                                    *)
LEMMA ScaledIs ==
  ASSUME NEW rows, Slabs(rows), DOMAIN rows # {}, \A r \in DOMAIN rows : rows[r].tax >= 0,
         NEW num \in Int, NEW den \in Nat \ {0}, NEW up
  PROVE  LET s == ScaledRows(rows, num, den, up)
         IN  /\ Slabs(s) /\ DOMAIN s = DOMAIN rows
             /\ TaxOf(s) = num
             /\ num = den /\ TaxOf(rows) = den =>
                  \A r \in DOMAIN rows : s[r] = [taxable |-> rows[r].taxable, tax |-> rows[r].tax]
<1> DEFINE D == DOMAIN rows
           near(n) == Tilt(Nearest(n * num, den), up)
           out == [r \in DOMAIN rows |-> [taxable |-> near(rows[r].taxable), tax |-> near(rows[r].tax)]]
           b == CHOOSE r \in DOMAIN out :
                  \A s \in DOMAIN out : out[s].tax < out[r].tax \/ (out[s].tax = out[r].tax /\ r <= s)
           outTax == [r \in DOMAIN out |-> out[r].tax]
           s == [out EXCEPT ![b].tax = @ + num - Total(outTax)]
<1>1. ScaledRows(rows, num, den, up) = s
  BY DEF ScaledRows
<1>2. /\ IsFiniteSet(D) /\ D \subseteq Nat /\ D # {}
      /\ \A r \in D : rows[r].taxable \in Int /\ rows[r].tax \in Int
  BY DEF Slabs
<1>3. ASSUME NEW n \in Int PROVE near(n) \in Int /\ (num = den => near(n) = n)
  <2> DEFINE m == n * num
             q == Tilt(Nearest(m, den), up)
  <2>1. m \in Int
    OBVIOUS
  <2>2. q \in Int /\ Near(q, m, den)
    <3> HIDE DEF m
    <3> QED BY <2>1, TiltIs
  <2>3. ASSUME num = den PROVE q = n
    <3>1. m = den * n
      BY <2>3
    <3> HIDE DEF q, m
    <3> QED BY <2>2, <3>1, NearWhole
  <2> QED BY <2>2, <2>3
<1> HIDE DEF near
<1>4. /\ DOMAIN out = D
      /\ \A r \in D : out[r] = [taxable |-> near(rows[r].taxable), tax |-> near(rows[r].tax)]
  OBVIOUS
<1>5. \A r \in D : out[r].taxable \in Int /\ out[r].tax \in Int
  BY <1>2, <1>3, <1>4
<1> HIDE DEF out
<1>6. b \in D
  <2> DEFINE f == [r \in D |-> out[r].tax]
  <2>1. \A x \in D : f[x] \in Int
    BY <1>5
  <2>2. \E g \in D : Largest(f, D, g)
    <3> HIDE DEF f
    <3> QED BY <1>2, <2>1, SomeLargest
  <2>3. \E r \in D : \A h \in D : out[h].tax < out[r].tax \/ (out[h].tax = out[r].tax /\ r <= h)
    BY <2>2 DEF Largest
  <2> QED BY <1>4, <2>3
<1> HIDE DEF b
<1> DEFINE P == Total(outTax)
           c == num - P
<1>7. Amounts(outTax) /\ DOMAIN outTax = D /\ \A r \in D : outTax[r] = out[r].tax
  BY <1>2, <1>4, <1>5 DEF Amounts
<1>8. P \in Int
  BY <1>7, TotalIsInt
<1> HIDE DEF outTax
<1>9. /\ DOMAIN s = D
      /\ \A r \in D : s[r] = IF r = b THEN [out[b] EXCEPT !.tax = @ + num - P] ELSE out[r]
  <2> HIDE DEF P
  <2> QED BY <1>4, <1>6 DEF P
<1>10. \A r \in D : /\ s[r] = [taxable |-> out[r].taxable, tax |-> IF r = b THEN out[r].tax + c ELSE out[r].tax]
                    /\ s[r].taxable \in Int /\ s[r].tax \in Int
  <2>1. ASSUME NEW r \in D
        PROVE  /\ s[r] = [taxable |-> out[r].taxable, tax |-> IF r = b THEN out[r].tax + c ELSE out[r].tax]
               /\ s[r].taxable \in Int /\ s[r].tax \in Int
    <3>1. out[r] \in [taxable : Int, tax : Int]
      BY <1>4, <1>5
    <3>2. s[r] = IF r = b THEN [out[b] EXCEPT !.tax = @ + num - P] ELSE out[r]
      BY <1>9
    <3> HIDE DEF s, P
    <3>3. out[r].tax + num - P = out[r].tax + c
      BY <1>8, <3>1
    <3> HIDE DEF c
    <3>4. out[r].tax + c \in Int
      BY <1>8, <3>1 DEF c
    <3> QED BY <3>1, <3>2, <3>3, <3>4
  <2> QED BY <2>1
<1> HIDE DEF s, P
<1>11. TaxOf(s) = num
  <2> DEFINE e == [outTax EXCEPT ![b] = @ + c]
  <2>1. c \in Int /\ b \in DOMAIN outTax
    BY <1>6, <1>7, <1>8
  <2>2. Total(e) = P + c
    <3> HIDE DEF c
    <3> QED BY <1>7, <2>1, TotalOfOneMore DEF P
  <2>3. e = [r \in DOMAIN s |-> s[r].tax]
    <3>1. \A r \in D : e[r] = s[r].tax
      <4> HIDE DEF c
      <4>1. \A r \in D : e[r] = IF r = b THEN outTax[b] + c ELSE outTax[r]
        BY <1>7
      <4>2. ASSUME NEW r \in D
            PROVE  s[r].tax = IF r = b THEN out[r].tax + c ELSE out[r].tax
        <5>1. s[r] = [taxable |-> out[r].taxable, tax |-> IF r = b THEN out[r].tax + c ELSE out[r].tax]
          BY <1>10
        <5> QED BY <5>1
      <4> HIDE DEF e
      <4> QED BY <1>7, <4>1, <4>2
    <3>2. DOMAIN e = D /\ DOMAIN s = D
      BY <1>7, <1>9
    <3>3. e = [r \in DOMAIN e |-> e[r]]
      OBVIOUS
    <3> HIDE DEF e
    <3> QED BY <3>1, <3>2, <3>3
  <2>4. P + c = num
    BY <1>8
  <2> HIDE DEF e, c
  <2> QED BY <2>2, <2>3, <2>4 DEF TaxOf
<1>12. ASSUME num = den, TaxOf(rows) = den, NEW r \in D
       PROVE  s[r] = [taxable |-> rows[r].taxable, tax |-> rows[r].tax]
  <2>1. \A x \in D : out[x].tax = rows[x].tax /\ out[x].taxable = rows[x].taxable
    <3>1. ASSUME NEW x \in D PROVE out[x].tax = rows[x].tax /\ out[x].taxable = rows[x].taxable
      <4>1. rows[x].tax \in Int /\ rows[x].taxable \in Int
        BY <1>2
      <4>2. near(rows[x].tax) = rows[x].tax /\ near(rows[x].taxable) = rows[x].taxable
        BY <1>3, <1>12, <4>1
      <4> QED BY <1>4, <4>2
    <3> QED BY <3>1
  <2>2. outTax = [x \in DOMAIN rows |-> rows[x].tax]
    BY <1>4, <2>1 DEF outTax
  <2>3. P = den
    BY <1>12, <2>2 DEF TaxOf, P
  <2>4. c = 0
    BY <1>12, <2>3
  <2>5. out[r].tax + c = out[r].tax
    BY <1>5, <2>4
  <2> QED BY <1>10, <2>1, <2>5
<1>13. Slabs(s)
  BY <1>2, <1>9, <1>10 DEF Slabs
<1> QED BY <1>1, <1>9, <1>11, <1>12, <1>13

(* The heads of a tax.                                                     *)
LEMMA SplitIs ==
  ASSUME NEW tax \in Int, NEW interstate
  PROVE  LET h == SplitGst(tax, interstate)
         IN  /\ h.cgst \in Int /\ h.sgst \in Int /\ h.igst \in Int
             /\ Heads(h) = tax
             /\ IF interstate THEN h.cgst = 0 /\ h.sgst = 0 /\ h.igst = tax
                ELSE h.igst = 0 /\ 2 * h.cgst <= tax + 1 /\ tax <= 2 * h.cgst
<1> DEFINE half == HalfUp(tax, 2)
<1>1. half \in Int /\ Near(half, tax, 2) /\ 2 * tax < 2 * (2 * half) + 2
  BY HalfUpIs
<1>2. 2 * half <= tax + 1 /\ tax <= 2 * half
  <2> HIDE DEF half
  <2> QED BY <1>1 DEF Near
<1>3. SplitGst(tax, interstate) = IF interstate THEN [cgst |-> 0, sgst |-> 0, igst |-> tax]
                                  ELSE [cgst |-> half, sgst |-> tax - half, igst |-> 0]
  BY DEF SplitGst
<1> HIDE DEF half
<1>4. CASE interstate
  BY <1>3, <1>4 DEF Heads
<1>5. CASE ~interstate
  BY <1>1, <1>2, <1>3, <1>5 DEF Heads
<1> QED BY <1>4, <1>5

HeadedRow(row) ==
  /\ row.taxable \in Int /\ row.tax \in Int
  /\ row.cgst \in Int /\ row.sgst \in Int /\ row.igst \in Int
  /\ Heads(row) = row.tax

LEMMA SnapshotIs ==
  ASSUME NEW rows, Slabs(rows), NEW interstate
  PROVE  LET s == SnapshotRows(rows, interstate)
         IN  /\ Slabs(s) /\ DOMAIN s = DOMAIN rows
             /\ TaxOf(s) = TaxOf(rows)
             /\ \A r \in DOMAIN rows :
                  /\ HeadedRow(s[r]) /\ s[r].taxable = rows[r].taxable /\ s[r].tax = rows[r].tax
                  /\ IF interstate THEN s[r].cgst = 0 /\ s[r].sgst = 0 /\ s[r].igst = rows[r].tax
                     ELSE s[r].igst = 0 /\ 2 * s[r].cgst <= rows[r].tax + 1 /\ rows[r].tax <= 2 * s[r].cgst
<1> DEFINE s == SnapshotRows(rows, interstate)
<1>1. /\ DOMAIN s = DOMAIN rows
      /\ \A r \in DOMAIN rows :
           LET h == SplitGst(rows[r].tax, interstate)
           IN  s[r] = [taxable |-> rows[r].taxable, tax |-> rows[r].tax,
                       cgst |-> h.cgst, sgst |-> h.sgst, igst |-> h.igst]
  BY DEF SnapshotRows
<1> HIDE DEF s
<1>2. ASSUME NEW r \in DOMAIN rows
      PROVE  /\ HeadedRow(s[r]) /\ s[r].taxable = rows[r].taxable /\ s[r].tax = rows[r].tax
             /\ IF interstate THEN s[r].cgst = 0 /\ s[r].sgst = 0 /\ s[r].igst = rows[r].tax
                ELSE s[r].igst = 0 /\ 2 * s[r].cgst <= rows[r].tax + 1 /\ rows[r].tax <= 2 * s[r].cgst
  <2> DEFINE h == SplitGst(rows[r].tax, interstate)
  <2>1. rows[r].tax \in Int /\ rows[r].taxable \in Int
    BY DEF Slabs
  <2>2. /\ h.cgst \in Int /\ h.sgst \in Int /\ h.igst \in Int /\ Heads(h) = rows[r].tax
        /\ IF interstate THEN h.cgst = 0 /\ h.sgst = 0 /\ h.igst = rows[r].tax
           ELSE h.igst = 0 /\ 2 * h.cgst <= rows[r].tax + 1 /\ rows[r].tax <= 2 * h.cgst
    BY <2>1, SplitIs
  <2>3. s[r] = [taxable |-> rows[r].taxable, tax |-> rows[r].tax,
                cgst |-> h.cgst, sgst |-> h.sgst, igst |-> h.igst]
    BY <1>1
  <2> HIDE DEF h
  <2>4. /\ s[r].taxable = rows[r].taxable /\ s[r].tax = rows[r].tax
        /\ s[r].cgst = h.cgst /\ s[r].sgst = h.sgst /\ s[r].igst = h.igst
    BY <2>3
  <2>5. Heads(s[r]) = Heads(h)
    BY <2>4 DEF Heads
  <2>6. HeadedRow(s[r])
    BY <2>1, <2>2, <2>4, <2>5 DEF HeadedRow
  <2> QED BY <2>2, <2>4, <2>6
<1>3. Slabs(s)
  BY <1>1, <1>2 DEF Slabs
<1>4. TaxOf(s) = TaxOf(rows)
  BY <1>1, <1>2, TaxOfAgrees
<1> QED BY <1>1, <1>2, <1>3, <1>4 DEF s

-----------------------------------------------------------------------------
(***************************************************************************)
(* Prices of a shelf, lines of a cart.                                     *)
(***************************************************************************)
LEMMA ItemsAre ==
  /\ IsFiniteSet(Items) /\ Goods \subseteq Items /\ Combos \subseteq Items
  /\ \A i \in Items : i \in Nat /\ i # 0 /\ (i \in Goods \/ i \in Combos) /\ ~(i \in Goods /\ i \in Combos)
  /\ IsFiniteSet(Goods) /\ 0 \notin Goods
<1>1. IsFiniteSet(Items) /\ Items \subseteq Nat \ {0} /\ Goods \intersect Combos = {}
  BY PricingAssumption
<1>2. Goods \subseteq Items /\ Combos \subseteq Items
  BY DEF Items
<1>3. IsFiniteSet(Goods)
  BY <1>1, <1>2, FS_Subset
<1> QED BY <1>1, <1>2, <1>3 DEF Items

LEMMA ShelfHas ==
  ASSUME shelf \in ShelfRows
  PROVE  /\ \A g \in Goods : shelf.mrp[g] \in Nat /\ shelf.rate[g] \in Percent /\ shelf.hsn[g] \in STRING
         /\ \A i \in Items : shelf.offer[i] \in Nat
         /\ \A c \in Combos : \A g \in Goods : shelf.recipe[c][g] \in Nat
BY DEF ShelfRows

LEMMA WeightsAre ==
  ASSUME shelf \in ShelfRows, NEW c \in Combos
  PROVE  /\ DOMAIN Weights(c) = Holds(c) /\ Holds(c) \subseteq Goods
         /\ IsFiniteSet(Holds(c)) /\ Holds(c) \subseteq Nat
         /\ \A g \in Holds(c) : Weights(c)[g] \in Nat
         /\ Total(Weights(c)) \in Nat
<1>1. Holds(c) \subseteq Goods /\ DOMAIN Weights(c) = Holds(c)
  BY DEF Holds, Weights
<1>2. IsFiniteSet(Holds(c)) /\ Holds(c) \subseteq Nat
  BY <1>1, ItemsAre, FS_Subset
<1>3. \A g \in Holds(c) : Weights(c)[g] \in Nat
  <2>1. \A g \in Holds(c) : Weights(c)[g] = shelf.mrp[g] * shelf.recipe[c][g]
    BY DEF Weights
  <2>2. \A g \in Holds(c) : shelf.mrp[g] \in Nat /\ shelf.recipe[c][g] \in Nat
    BY <1>1, ShelfHas
  <2> QED BY <2>1, <2>2
<1>4. Total(Weights(c)) \in Nat
  BY <1>1, <1>2, <1>3, TotalIsNat
<1> QED BY <1>1, <1>2, <1>3, <1>4

LEMMA PriceIsNat ==
  ASSUME shelf \in ShelfRows, NEW i \in Items
  PROVE  UnitPrice(i) \in Nat
<1>1. ListPrice(i) \in Nat
  BY ItemsAre, ShelfHas, WeightsAre DEF ListPrice
<1> QED BY <1>1, ShelfHas DEF UnitPrice

LEMMA CartLines ==
  ASSUME shelf \in ShelfRows, NEW cart \in Carts
  PROVE  /\ Lines(cart) \subseteq Items /\ IsFiniteSet(Lines(cart))
         /\ \A i \in Lines(cart) : cart[i] \in Nat \ {0} /\ LineTotal(cart, i) \in Nat
         /\ Subtotal(cart) \in Nat
<1>1. cart \in [Items -> Nat]
  BY PricingAssumption
<1>2. Lines(cart) \subseteq Items /\ \A i \in Lines(cart) : cart[i] \in Nat \ {0}
  BY <1>1 DEF Lines
<1>3. IsFiniteSet(Lines(cart))
  BY <1>2, ItemsAre, FS_Subset
<1>4. \A i \in Lines(cart) : LineTotal(cart, i) \in Nat
  BY <1>2, PriceIsNat DEF LineTotal
<1>5. Subtotal(cart) \in Nat
  <2> DEFINE f == [i \in Lines(cart) |-> LineTotal(cart, i)]
  <2>1. IsFiniteSet(DOMAIN f) /\ \A x \in DOMAIN f : f[x] \in Nat
    BY <1>3, <1>4
  <2>2. Subtotal(cart) = Total(f)
    BY DEF Subtotal
  <2> HIDE DEF f
  <2> QED BY <2>1, <2>2, TotalIsNat
<1> QED BY <1>2, <1>3, <1>4, <1>5

LEMMA ShippingIs ==
  /\ \A n \in Int : Shipping(n) \in Nat
  /\ \A f \in Nat : ShippingTax(f) \in Nat /\ (f = 0 => ShippingTax(f) = 0)
  /\ ShippingRate \in Percent /\ DefaultRate \in Percent
<1>1. Fee \in Nat /\ ShippingRate \in Percent /\ DefaultRate \in Percent
  BY PricingAssumption
<1> QED BY <1>1, TaxIsAdded DEF Shipping, ShippingTax

(* A coupon takes off no more than there is.                               *)
LEMMA CouponTakes ==
  ASSUME NEW coupon \in CouponRows, NEW amount \in Nat
  PROVE  /\ DiscountFor(coupon, amount) \in 0 .. amount
         /\ coupon = NoCoupon => DiscountFor(coupon, amount) = 0
         /\ coupon.minimum \in Nat
<1>1. coupon \in CouponRows
  OBVIOUS
<1>2. CASE coupon = NoCoupon
  <2>1. coupon.kind = "none" /\ coupon.minimum = 0
    BY <1>2 DEF NoCoupon
  <2>2. DiscountFor(coupon, amount) = 0
    BY <2>1 DEF DiscountFor
  <2> QED BY <2>1, <2>2
<1>3. CASE coupon \in [kind : {"percent"}, value : 1 .. 100, minimum : Nat]
  <2> DEFINE v == coupon.value
             n == amount * Min({v, 100})
  <2>1. coupon.kind = "percent" /\ v \in 1 .. 100 /\ coupon.minimum \in Nat
    BY <1>3
  <2>2. coupon # NoCoupon
    BY <2>1 DEF NoCoupon
  <2>3. Min({v, 100}) = v
    <3>1. {v, 100} \in SUBSET Nat /\ {v, 100} # {}
      BY <2>1
    <3>2. Min({v, 100}) \in {v, 100} /\ Min({v, 100}) <= v
      BY <3>1, MinIsLeast
    <3> QED BY <2>1, <3>2
  <2>4. DiscountFor(coupon, amount) = HalfEven(n, 100)
    <3>1. coupon.kind # "none" /\ coupon.kind # "fixed"
      BY <2>1
    <3> QED BY <2>1, <3>1 DEF DiscountFor
  <2>5. n = amount * v
    BY <2>3
  <2>6. n \in Nat /\ n <= 100 * amount
    <3>1. amount * v \in Nat /\ amount * (100 - v) \in Nat
      BY <2>1
    <3>2. amount * (100 - v) = 100 * amount - amount * v
      BY <2>1
    <3> HIDE DEF n, v
    <3> QED BY <2>5, <3>1, <3>2
  <2> HIDE DEF n, v
  <2>7. HalfEven(n, 100) \in Int /\ Near(HalfEven(n, 100), n, 100)
    BY <2>6, HalfEvenIs
  <2>8. HalfEven(n, 100) \in 0 .. amount
    BY <2>6, <2>7 DEF Near
  <2> QED BY <2>1, <2>2, <2>4, <2>8
<1>4. CASE coupon \in [kind : {"fixed"}, value : Nat, minimum : Nat]
  <2> DEFINE v == coupon.value
  <2>1. coupon.kind = "fixed" /\ v \in Nat /\ coupon.minimum \in Nat
    BY <1>4
  <2>2. coupon # NoCoupon
    BY <2>1 DEF NoCoupon
  <2>3. DiscountFor(coupon, amount) = Min({v, amount})
    <3>1. coupon.kind # "none" /\ coupon.kind # "percent"
      BY <2>1
    <3> QED BY <2>1, <3>1 DEF DiscountFor
  <2>4. Min({v, amount}) \in {v, amount} /\ Min({v, amount}) <= amount
    <3>1. {v, amount} \in SUBSET Nat /\ {v, amount} # {}
      BY <2>1
    <3> QED BY <3>1, MinIsLeast
  <2> QED BY <2>1, <2>2, <2>3, <2>4
<1> QED BY <1>1, <1>2, <1>3, <1>4 DEF CouponRows

LEMMA DiscountIs ==
  ASSUME NEW coupon \in Coupons, NEW amount \in Nat
  PROVE  /\ DiscountFor(coupon, amount) \in 0 .. amount
         /\ coupon = NoCoupon => DiscountFor(coupon, amount) = 0
         /\ coupon.minimum \in Nat
<1>1. coupon \in CouponRows
  BY PricingAssumption
<1> QED BY <1>1, CouponTakes

(* What the lines of a cart bear of a discount.                            *)
LEMMA CutsAre ==
  ASSUME shelf \in ShelfRows, NEW cart \in Carts, NEW discount \in 0 .. Subtotal(cart), NEW up
  PROVE  LET cuts == Cuts(cart, discount, up)
             n == Cardinality(Lines(cart))
         IN  /\ DOMAIN cuts = Lines(cart)
             /\ \A i \in Lines(cart) : cuts[i] \in 0 .. LineTotal(cart, i)
             /\ discount = 0 => \A i \in Lines(cart) : cuts[i] = 0
             /\ 2 * Total(cuts) <= 2 * discount + n /\ 2 * discount <= 2 * Total(cuts) + n
<1> DEFINE D == Lines(cart)
           f == [i \in D |-> LineTotal(cart, i)]
           T == Subtotal(cart)
           cuts == Cuts(cart, discount, up)
           n == Cardinality(D)
<1>1. IsFiniteSet(D) /\ T \in Nat /\ T = Total(f) /\ \A i \in D : f[i] \in Nat
  BY CartLines DEF Subtotal
<1>2. DOMAIN cuts = D /\ n \in Nat /\ discount \in Nat /\ discount <= T
  BY <1>1, FS_CardinalityType DEF Cuts
<1>3. CASE discount = 0
  <2>1. \A i \in D : cuts[i] = 0
    BY <1>3 DEF Cuts
  <2>2. Total(cuts) = 0
    BY <1>1, <1>2, <2>1, TotalOfZeros
  <2>3. \A i \in D : cuts[i] \in 0 .. LineTotal(cart, i)
    BY <1>1, <2>1
  <2> HIDE DEF cuts, D, n
  <2> QED BY <1>2, <1>3, <2>1, <2>2, <2>3 DEF D, cuts, n
<1>4. CASE discount # 0
  <2>1. T \in Nat \ {0}
    BY <1>1, <1>2, <1>4
  <2>2. ASSUME NEW i \in D
        PROVE  cuts[i] \in Int /\ Near(cuts[i], discount * f[i], T) /\ cuts[i] \in 0 .. f[i]
    <3> DEFINE m == f[i] * discount
    <3>1. cuts[i] = Tilt(Nearest(m, T), up[i])
      BY <1>4 DEF Cuts
    <3>2. m \in Nat /\ m = discount * f[i] /\ f[i] \in Nat
      BY <1>1, <1>2
    <3>3. m <= T * f[i] /\ T * 0 <= m
      <4>1. f[i] * (T - discount) \in Nat
        <5>1. T - discount \in Nat
          BY <1>1, <1>2
        <5> HIDE DEF f, T
        <5> QED BY <3>2, <5>1
      <4>2. f[i] * (T - discount) = T * f[i] - m /\ T * f[i] \in Int
        <5> HIDE DEF f, T
        <5> QED BY <1>2, <2>1, <3>2
      <4> HIDE DEF f, T, m
      <4> QED BY <2>1, <3>2, <4>1, <4>2
    <3> HIDE DEF m, f, cuts, T
    <3>4. cuts[i] \in Int /\ Near(cuts[i], m, T)
      BY <2>1, <3>1, <3>2, TiltIs
    <3>5. cuts[i] <= f[i]
      <4>1. cuts[i] \in Int /\ m \in Int /\ T \in Nat \ {0} /\ f[i] \in Int
        BY <2>1, <3>2, <3>4
      <4>2. Near(cuts[i], m, T) /\ m <= T * f[i]
        BY <3>3, <3>4
      <4> QED BY ONLY <4>1, <4>2, NearBounds
    <3>6. cuts[i] \in Nat
      BY <2>1, <3>2, <3>4, NearNothing
    <3> QED BY <3>2, <3>4, <3>5, <3>6
  <2>3. 2 * Total(cuts) <= 2 * discount + n /\ 2 * discount <= 2 * Total(cuts) + n
    <3>1. DOMAIN f = D /\ discount \in Int
      BY <1>2
    <3> HIDE DEF f, cuts, D, T, n
    <3>2. T = Total(f) /\ \A i \in D : f[i] \in Nat
      BY <1>1
    <3> QED BY <1>1, <1>2, <2>1, <2>2, <3>1, <3>2, RoundedShares DEF n
  <2>4. \A i \in D : cuts[i] \in 0 .. LineTotal(cart, i)
    BY <2>2
  <2> HIDE DEF cuts, n
  <2> QED BY <1>2, <1>4, <2>3, <2>4 DEF cuts, n
<1> QED BY <1>3, <1>4

-----------------------------------------------------------------------------
(***************************************************************************)
(* Lines of a bill.                                                        *)
(***************************************************************************)
PartMaps == UNION {[D -> PartRows] : D \in SUBSET Goods}
LineRows == [count : Nat \ {0}, price : Nat, discount : Nat, unit : Nat, final : Nat,
             rate : Nat, hsn : STRING \union {""}, tax : Nat, parts : PartMaps]

AmountOf(parts) == Total([g \in DOMAIN parts |-> parts[g].amount])
Enough(parts, amount) ==
  LET n == Cardinality(DOMAIN parts) IN n * n <= 2 * amount
Split(parts, amount) ==
  /\ AmountOf(parts) = amount
  /\ \A g \in DOMAIN parts : parts[g].tax = ExtractTax(parts[g].amount, parts[g].rate)
  /\ Enough(parts, amount) => \A g \in DOMAIN parts : parts[g].amount >= 0

LEMMA PartsOfNone ==
  /\ <<>> \in PartMaps /\ DOMAIN <<>> = {} /\ PartsTax(<<>>) = 0
  /\ \A p : DOMAIN p = {} /\ p \in PartMaps => p = <<>>
<1>1. DOMAIN <<>> = {}
  OBVIOUS
<1>2. <<>> \in [{} -> PartRows] /\ {} \in SUBSET Goods
  OBVIOUS
<1>3. PartsTax(<<>>) = 0
  <2>1. DOMAIN [g \in DOMAIN <<>> |-> <<>>[g].tax] = {}
    BY <1>1
  <2> QED BY <2>1, TotalOfNone DEF PartsTax
<1>4. ASSUME NEW p, DOMAIN p = {}, p \in PartMaps PROVE p = <<>>
  <2>1. PICK D \in SUBSET Goods : p \in [D -> PartRows]
    BY <1>4 DEF PartMaps
  <2>2. p \in [{} -> PartRows]
    BY <1>4, <2>1
  <2> QED BY <1>2, <2>2
<1>5. <<>> \in PartMaps
  BY <1>2 DEF PartMaps
<1> QED BY <1>1, <1>3, <1>4, <1>5

LEMMA PartMapsAre ==
  ASSUME NEW parts \in PartMaps
  PROVE  /\ DOMAIN parts \subseteq Goods /\ IsFiniteSet(DOMAIN parts)
         /\ \A g \in DOMAIN parts : parts[g] \in PartRows
         /\ PartsTax(parts) \in Nat
         /\ parts # <<>> <=> DOMAIN parts # {}
<1>1. PICK D \in SUBSET Goods : parts \in [D -> PartRows]
  BY DEF PartMaps
<1>2. DOMAIN parts \subseteq Goods /\ \A g \in DOMAIN parts : parts[g] \in PartRows
  BY <1>1
<1>3. IsFiniteSet(DOMAIN parts)
  BY <1>2, ItemsAre, FS_Subset
<1>4. PartsTax(parts) \in Nat
  <2> DEFINE f == [g \in DOMAIN parts |-> parts[g].tax]
  <2>1. IsFiniteSet(DOMAIN f) /\ \A x \in DOMAIN f : f[x] \in Nat
    BY <1>2, <1>3 DEF PartRows
  <2> HIDE DEF f
  <2>2. Total(f) \in Nat
    BY <2>1, TotalIsNat
  <2> QED BY <2>2 DEF PartsTax, f
<1> QED BY <1>2, <1>3, <1>4, PartsOfNone

(* Where there is enough, the tax of the parts is within what they cost.   *)
LEMMA TaxWithinParts ==
  ASSUME NEW parts \in PartMaps, NEW amount \in Int, Split(parts, amount), Enough(parts, amount)
  PROVE  /\ PartsTax(parts) <= amount
         /\ \A g \in DOMAIN parts : parts[g].tax <= parts[g].amount
<1> DEFINE f == [g \in DOMAIN parts |-> parts[g].tax]
           a == [g \in DOMAIN parts |-> parts[g].amount]
<1>1. \A g \in DOMAIN parts : parts[g] \in PartRows
  BY PartMapsAre
<1>2. \A g \in DOMAIN parts : parts[g].tax <= parts[g].amount
  <2>1. ASSUME NEW g \in DOMAIN parts PROVE parts[g].tax <= parts[g].amount
    <3>1. parts[g].amount \in Int /\ parts[g].rate \in Percent
      BY <1>1 DEF PartRows
    <3>2. parts[g].amount >= 0 /\ parts[g].tax = ExtractTax(parts[g].amount, parts[g].rate)
      BY DEF Split
    <3> QED BY <3>1, <3>2, TaxIsWithin
  <2> QED BY <2>1
<1>3. Amounts(f) /\ Amounts(a)
  BY <1>1, PartMapsAre DEF Amounts, PartRows
<1>4. \A g \in DOMAIN f : f[g] <= a[g]
  BY <1>2
<1>5. Total(f) <= Total(a)
  <2>1. DOMAIN a = DOMAIN f
    OBVIOUS
  <2> HIDE DEF f, a
  <2> QED BY <1>3, <1>4, <2>1, TotalBelow
<1> QED BY <1>2, <1>5 DEF Split, PartsTax, AmountOf

LEMMA PartsAre ==
  ASSUME shelf \in ShelfRows, NEW c \in Combos, NEW amount \in Int, NEW count \in Nat
  PROVE  LET parts == Parts(c, amount, count)
         IN  /\ parts \in PartMaps
             /\ amount <= 0 => parts = <<>>
             /\ parts # <<>> => Split(parts, amount)
             /\ \A g \in DOMAIN parts : count <= parts[g].count
<1> DEFINE w == Weights(c)
           split == Allocate(w, amount)
           parts == Parts(c, amount, count)
<1>1. /\ DOMAIN w = Holds(c) /\ Holds(c) \subseteq Goods /\ IsFiniteSet(Holds(c))
      /\ Holds(c) \subseteq Nat /\ \A g \in Holds(c) : w[g] \in Nat
  BY WeightsAre
<1>2. /\ DOMAIN parts = DOMAIN split
      /\ \A g \in DOMAIN split :
           parts[g] = [count |-> shelf.recipe[c][g] * count, amount |-> split[g], rate |-> shelf.rate[g],
                       hsn |-> shelf.hsn[g], tax |-> ExtractTax(split[g], shelf.rate[g])]
      /\ parts = [g \in DOMAIN split |-> parts[g]]
  BY DEF Parts
<1> HIDE DEF w, split, parts
<1>3. CASE amount <= 0 \/ Holds(c) = {}
  <2>1. split = <<>>
    BY <1>1, <1>3, AllocateIsNothing DEF split
  <2>2. DOMAIN parts = {}
    BY <1>2, <2>1
  <2>3. parts \in [{} -> PartRows]
    BY <1>2, <2>2
  <2>4. parts \in PartMaps
    BY <2>3 DEF PartMaps
  <2> QED BY <2>2, <2>4, PartsOfNone DEF parts
<1>4. CASE amount > 0 /\ Holds(c) # {}
  <2> DEFINE n == Cardinality(DOMAIN w)
  <2>1. /\ DOMAIN split = DOMAIN w /\ \A g \in DOMAIN split : split[g] \in Int
        /\ Total(split) = amount
        /\ n * n <= 2 * amount => \A g \in DOMAIN split : split[g] >= 0
    BY <1>1, <1>4, AllocateIs DEF split
  <2>2. \A g \in Holds(c) : parts[g] \in PartRows
    <3>1. ASSUME NEW g \in Holds(c) PROVE parts[g] \in PartRows
      <4>1. g \in Goods /\ shelf.recipe[c][g] \in Nat /\ shelf.rate[g] \in Percent /\ shelf.hsn[g] \in STRING
        BY <1>1, ShelfHas
      <4>2. split[g] \in Int /\ shelf.recipe[c][g] * count \in Nat
        BY <1>1, <2>1, <4>1
      <4>3. ExtractTax(split[g], shelf.rate[g]) \in Nat
        BY <4>1, <4>2, TaxIsWithin
      <4>4. parts[g] = [count |-> shelf.recipe[c][g] * count, amount |-> split[g], rate |-> shelf.rate[g],
                        hsn |-> shelf.hsn[g], tax |-> ExtractTax(split[g], shelf.rate[g])]
        BY <1>1, <1>2, <2>1
      <4> QED BY <4>1, <4>2, <4>3, <4>4 DEF PartRows
    <3> QED BY <3>1
  <2>3. parts \in [Holds(c) -> PartRows]
    BY <1>1, <1>2, <2>1, <2>2
  <2>4. parts \in PartMaps
    BY <1>1, <2>3 DEF PartMaps
  <2>5. AmountOf(parts) = amount
    <3> DEFINE a == [g \in DOMAIN parts |-> parts[g].amount]
    <3>1. DOMAIN a = DOMAIN split /\ \A g \in DOMAIN split : a[g] = split[g]
      BY <1>2
    <3>2. Amounts(split)
      BY <1>1, <2>1 DEF Amounts
    <3> HIDE DEF a
    <3>3. Total(a) = amount
      BY <2>1, <3>1, <3>2, TotalAgrees
    <3> QED BY <3>3 DEF AmountOf, a
  <2>6. \A g \in DOMAIN parts : parts[g].tax = ExtractTax(parts[g].amount, parts[g].rate)
    BY <1>2
  <2>7. Enough(parts, amount) => \A g \in DOMAIN parts : parts[g].amount >= 0
    <3>1. DOMAIN parts = DOMAIN w /\ \A g \in DOMAIN parts : parts[g].amount = split[g]
      BY <1>2, <2>1
    <3> QED BY <2>1, <3>1 DEF Enough
  <2>8. amount > 0
    BY <1>4
  <2> HIDE DEF n
  <2>9. ~(amount <= 0)
    BY <2>8
  <2>10. \A g \in DOMAIN parts : count <= parts[g].count
    <3> SUFFICES ASSUME NEW g \in DOMAIN parts PROVE count <= parts[g].count
      OBVIOUS
    <3> DEFINE r == shelf.recipe[c][g]
    <3>5. g \in Holds(c) /\ g \in DOMAIN split
      BY <1>1, <1>2, <2>1
    <3>6. parts[g].count = r * count
      BY <1>2, <3>5
    <3>7. g \in Goods /\ r > 0
      BY <3>5 DEF Holds
    <3>1. g \in Goods /\ r > 0 /\ parts[g].count = r * count
      BY <3>6, <3>7
    <3>2. r \in Nat
      BY <3>1, ShelfHas
    <3> HIDE DEF r
    <3>3. r - 1 \in Nat /\ r * count = (r - 1) * count + count
      BY <3>1, <3>2
    <3>4. (r - 1) * count \in Nat
      BY <3>3
    <3> QED BY <3>1, <3>3, <3>4
  <2> QED BY <2>4, <2>5, <2>6, <2>7, <2>9, <2>10 DEF Split, parts
<1> QED BY <1>3, <1>4

(* The tax of a combo does not depend on how many are bought together.     *)
LEMMA TaxOfMany ==
  ASSUME NEW c, NEW amount, NEW k, NEW m
  PROVE  PartsTax(Parts(c, amount, k)) = PartsTax(Parts(c, amount, m))
<1> DEFINE split == Allocate(Weights(c), amount)
           p == Parts(c, amount, k)
           q == Parts(c, amount, m)
<1>1. DOMAIN p = DOMAIN split /\ \A g \in DOMAIN split : p[g].tax = ExtractTax(split[g], shelf.rate[g])
  BY DEF Parts
<1>2. DOMAIN q = DOMAIN split /\ \A g \in DOMAIN split : q[g].tax = ExtractTax(split[g], shelf.rate[g])
  BY DEF Parts
<1> HIDE DEF split, p, q
<1>3. [g \in DOMAIN p |-> p[g].tax] = [g \in DOMAIN q |-> q[g].tax]
  BY <1>1, <1>2
<1>4. PartsTax(p) = PartsTax(q)
  BY <1>3 DEF PartsTax
<1> QED BY <1>4 DEF p, q

LEMMA FinalIs ==
  ASSUME NEW price \in Nat, NEW count \in Nat \ {0}, NEW cut \in 0 .. price * count
  PROVE  LET f == Final(price, count, cut)
         IN  /\ f.unit \in 0 .. price /\ f.final = f.unit * count /\ f.final \in 0 .. price * count
             /\ Near(f.unit, price * count - cut, count)
             /\ cut = 0 => f.unit = price
<1> DEFINE m == price * count - cut
           u == HalfEven(m, count)
<1>1. price * count \in Nat /\ m \in Nat /\ m <= price * count
  OBVIOUS
<1>2. u \in Int /\ Near(u, m, count)
  <2> HIDE DEF m
  <2> QED BY <1>1, HalfEvenIs
<1>3. u \in Nat
  <2> HIDE DEF m, u
  <2> QED BY <1>1, <1>2, NearNothing
<1>4. u <= price
  <2>1. m <= count * price /\ m \in Int
    BY <1>1
  <2> HIDE DEF m, u
  <2> QED BY <1>2, <2>1, NearBounds
<1>5. cut = 0 => u = price
  <2>1. ASSUME cut = 0 PROVE u = price
    <3>1. m = count * price
      BY <2>1
    <3> HIDE DEF m, u
    <3> QED BY <1>2, <3>1, NearWhole
  <2> QED BY <2>1
<1>6. Final(price, count, cut) = [unit |-> u, final |-> u * count]
  BY DEF Final
<1> HIDE DEF u
<1>7. u * count \in Nat /\ u * count <= price * count
  <2>1. (price - u) * count \in Nat /\ (price - u) * count = price * count - u * count
    BY <1>3, <1>4
  <2> QED BY <1>3, <2>1
<1> QED BY <1>2, <1>3, <1>4, <1>5, <1>6, <1>7

-----------------------------------------------------------------------------
(***************************************************************************)
(* The lines of a bill.                                                    *)
(***************************************************************************)
LineSound(i, l) ==
  /\ l \in LineRows
  /\ l.final = l.unit * l.count /\ l.final <= l.price * l.count
  /\ l.discount <= l.price * l.count
  /\ Near(l.unit, l.price * l.count - l.discount, l.count)
  /\ l.parts = <<>> => l.rate \in Percent /\ l.tax = ExtractTax(l.final, l.rate)
  /\ l.parts # <<>> => i \in Combos /\ l.final > 0 /\ Split(l.parts, l.final) /\ l.tax = PartsTax(l.parts)
  /\ \A g \in DOMAIN l.parts : l.count <= l.parts[g].count

LEMMA BlendedIs ==
  ASSUME NEW gross \in Nat, NEW tax \in Nat
  PROVE  BlendedRate(gross, tax) \in Nat /\ (tax = 0 => BlendedRate(gross, tax) = 0)
<1>1. CASE gross <= tax
  BY <1>1 DEF BlendedRate
<1>2. CASE gross > tax
  <2> DEFINE d == gross - tax
             n == tax * 100
             q == HalfUp(n, d)
  <2>1. d \in Nat \ {0} /\ n \in Nat
    BY <1>2
  <2>2. BlendedRate(gross, tax) = q
    BY <1>2 DEF BlendedRate
  <2>3. q \in Int /\ Near(q, n, d) /\ 2 * n < 2 * (d * q) + d
    <3> HIDE DEF d, n
    <3> QED BY <2>1, HalfUpIs
  <2>4. q \in Nat
    <3> HIDE DEF d, n, q
    <3> QED BY <2>1, <2>3, NearNothing
  <2>5. tax = 0 => q = 0
    <3>1. ASSUME tax = 0 PROVE q = 0
      <4>1. n = d * 0
        BY <2>1, <3>1
      <4> HIDE DEF d, n, q
      <4> QED BY <2>1, <2>3, <4>1, NearWhole
    <3> QED BY <3>1
  <2> QED BY <2>2, <2>4, <2>5
<1> QED BY <1>1, <1>2

LEMMA BillLineIs ==
  ASSUME shelf \in ShelfRows, NEW cart \in Carts, NEW i \in Lines(cart), NEW free \in BOOLEAN,
         NEW cut \in 0 .. LineTotal(cart, i), free => cut = LineTotal(cart, i)
  PROVE  LET l == BillLine(cart, i, cut, free)
         IN  /\ LineSound(i, l)
             /\ l.discount = cut /\ l.count = cart[i] /\ l.price = UnitPrice(i)
             /\ l.price * l.count = LineTotal(cart, i)
             /\ free => l.final = 0 /\ l.tax = 0
             /\ cut = 0 => l.final = LineTotal(cart, i)
             /\ ~free => l.tax = IF i \in Goods THEN ExtractTax(l.final, shelf.rate[i])
                                 ELSE PartsTax(Parts(i, l.final, cart[i]))
<1> DEFINE price == UnitPrice(i)
           n == cart[i]
           f == IF free THEN [unit |-> 0, final |-> 0] ELSE Final(price, n, cut)
           parts == IF i \in Combos /\ ~free THEN Parts(i, f.final, n) ELSE <<>>
           tax == IF i \in Combos THEN PartsTax(parts) ELSE ExtractTax(f.final, shelf.rate[i])
           rate == IF i \in Goods THEN shelf.rate[i] ELSE BlendedRate(f.final, tax)
           hsn == IF i \in Goods THEN shelf.hsn[i] ELSE ""
           l == BillLine(cart, i, cut, free)
<1>1. l = [count |-> n, price |-> price, discount |-> cut, unit |-> f.unit, final |-> f.final,
           rate |-> rate, hsn |-> hsn, tax |-> tax, parts |-> parts]
  BY DEF BillLine
<1>2. /\ price \in Nat /\ n \in Nat \ {0} /\ i \in Items
      /\ LineTotal(cart, i) = price * n /\ price * n \in Nat
      /\ cut \in 0 .. price * n
  <2>1. i \in Items /\ n \in Nat \ {0} /\ LineTotal(cart, i) = price * n
    BY CartLines DEF LineTotal
  <2>2. price \in Nat
    BY <2>1, PriceIsNat
  <2> HIDE DEF price, n
  <2> QED BY <2>1, <2>2
<1>3. /\ (i \in Goods /\ i \notin Combos) \/ (i \in Combos /\ i \notin Goods)
      /\ i \in Goods => shelf.rate[i] \in Percent /\ shelf.hsn[i] \in STRING
  BY <1>2, ItemsAre, ShelfHas
<1> HIDE DEF price, n
<1>4. /\ f.unit \in 0 .. price /\ f.final = f.unit * n /\ f.final \in 0 .. price * n
      /\ Near(f.unit, price * n - cut, n)
      /\ free => f.final = 0
      /\ cut = 0 => f.final = price * n
  <2>1. CASE free
    <3>1. f.unit = 0 /\ f.final = 0 /\ cut = price * n
      BY <1>2, <2>1
    <3>2. Near(0, 0, n)
      BY <1>2 DEF Near
    <3>3. price * n - cut = 0
      BY <1>2, <3>1
    <3> QED BY <1>2, <3>1, <3>2, <3>3
  <2>2. CASE ~free
    <3>1. f = Final(price, n, cut)
      BY <2>2
    <3> HIDE DEF f
    <3> QED BY <1>2, <2>2, <3>1, FinalIs
  <2> QED BY <2>1, <2>2
<1> HIDE DEF f
<1>5. f.unit \in Nat /\ f.final \in Nat /\ f.final \in Int /\ f.final <= price * n
  BY <1>2, <1>4
<1>6. /\ parts \in PartMaps
      /\ parts # <<>> => i \in Combos /\ f.final > 0 /\ Split(parts, f.final)
      /\ \A g \in DOMAIN parts : n <= parts[g].count
  <2>1. CASE i \in Combos /\ ~free
    <3>1. parts = Parts(i, f.final, n)
      BY <2>1
    <3> HIDE DEF parts
    <3>2. f.final \in Int /\ n \in Nat /\ (f.final <= 0 \/ f.final > 0)
      BY <1>2, <1>5
    <3> QED BY <2>1, <3>1, <3>2, PartsAre
  <2>2. CASE ~(i \in Combos /\ ~free)
    BY <2>2, PartsOfNone
  <2> QED BY <2>1, <2>2
<1>7. PartsTax(parts) \in Nat /\ PartsTax(<<>>) = 0
  BY <1>6, PartMapsAre, PartsOfNone
<1>8. /\ tax \in Nat
      /\ i \in Goods => parts = <<>> /\ tax = ExtractTax(f.final, shelf.rate[i])
      /\ i \in Combos => tax = PartsTax(parts)
      /\ free => tax = 0
  <2>1. ASSUME i \in Goods
        PROVE  /\ ExtractTax(f.final, shelf.rate[i]) \in Nat
               /\ free => ExtractTax(f.final, shelf.rate[i]) = 0
    BY <1>3, <1>4, <1>5, <2>1, TaxIsWithin
  <2> QED BY <1>3, <1>7, <2>1
<1>9. ~free => tax = IF i \in Goods THEN ExtractTax(f.final, shelf.rate[i]) ELSE PartsTax(Parts(i, f.final, n))
  BY <1>3
<1> HIDE DEF parts, tax
<1>10. BlendedRate(f.final, tax) \in Nat /\ (tax = 0 => BlendedRate(f.final, tax) = 0)
  BY <1>5, <1>8, BlendedIs
<1>11. /\ rate \in Nat /\ hsn \in STRING \union {""}
       /\ parts = <<>> => rate \in Percent /\ tax = ExtractTax(f.final, rate)
  <2>1. Percent \subseteq Nat /\ 0 \in Percent
    BY DEF Percent
  <2>2. CASE i \in Goods
    <3>1. rate = shelf.rate[i] /\ hsn = shelf.hsn[i]
      BY <2>2
    <3> QED BY <1>3, <1>8, <2>1, <2>2, <3>1
  <2>3. CASE i \in Combos
    <3>1. rate = BlendedRate(f.final, tax) /\ hsn = ""
      BY <1>3, <2>3
    <3>2. ExtractTax(f.final, 0) = 0
      BY <1>5, <2>1, TaxIsWithin
    <3>3. parts = <<>> => tax = 0
      BY <1>7, <1>8, <2>3
    <3>4. rate \in Nat
      BY <1>10, <3>1
    <3>5. parts = <<>> => rate = 0 /\ tax = 0
      BY <1>10, <3>1, <3>3
    <3>6. hsn \in STRING \union {""}
      BY <3>1
    <3> HIDE DEF rate, hsn
    <3> QED BY <2>1, <3>2, <3>4, <3>5, <3>6
  <2> QED BY <1>3, <2>2, <2>3
<1> HIDE DEF rate, hsn
<1>12. l \in LineRows
  <2>1. cut \in Nat
    BY <1>2
  <2> HIDE DEF l
  <2> QED BY <1>1, <1>2, <1>5, <1>6, <1>8, <1>11, <2>1 DEF LineRows
<1>13. /\ l.count = n /\ l.price = price /\ l.discount = cut /\ l.unit = f.unit /\ l.final = f.final
       /\ l.rate = rate /\ l.tax = tax /\ l.parts = parts
  BY <1>1
<1> HIDE DEF l
<1>14. cut <= price * n
  BY <1>2
<1>15. LineSound(i, l)
  <2>1. parts # <<>> => tax = PartsTax(parts)
    BY <1>6, <1>8
  <2> QED BY <1>4, <1>5, <1>6, <1>11, <1>12, <1>13, <1>14, <2>1 DEF LineSound
<1> QED BY <1>2, <1>4, <1>8, <1>9, <1>13, <1>15 DEF l, price, n

-----------------------------------------------------------------------------
(***************************************************************************)
(* The bill: rows and header.                                              *)
(***************************************************************************)
LineMaps == UNION {[D -> LineRows] : D \in SUBSET Items}
Statuses == {"placed", "shipped", "cancelled", "refunded"}
Payments == {"pending", "paid", "refunded"}
OrderRows == [lines : LineMaps, subtotal : Nat, discount : Nat, shipping : Nat, shipTax : Nat,
              tax : Nat, total : Nat, place : Places, status : Statuses, payment : Payments]

TaxOn(lines) == Total([i \in DOMAIN lines |-> lines[i].tax])
FinalOf(lines) == Total([i \in DOMAIN lines |-> lines[i].final])
ListOf(lines) == Total([i \in DOMAIN lines |-> lines[i].price * lines[i].count])
CutOf(lines) == Total([i \in DOMAIN lines |-> lines[i].discount])
CountOf(lines) == Total([i \in DOMAIN lines |-> lines[i].count])

\* The parts of a bill that no later step writes, and what is so of them.
BillSound(o) ==
  /\ \A i \in DOMAIN o.lines : LineSound(i, o.lines[i])
  /\ o.discount <= o.subtotal
  /\ o.shipTax = ShippingTax(o.shipping)
  /\ o.tax = TaxOn(o.lines)
  /\ o.total = o.subtotal - o.discount + o.shipping + o.shipTax
  /\ ListOf(o.lines) = o.subtotal
  /\ 2 * CutOf(o.lines) <= 2 * o.discount + Cardinality(DOMAIN o.lines)
  /\ 2 * o.discount <= 2 * CutOf(o.lines) + Cardinality(DOMAIN o.lines)
  /\ o.discount \in {0, o.subtotal} => FinalOf(o.lines) = o.subtotal - o.discount

LEMMA LineMapsAre ==
  ASSUME NEW lines \in LineMaps
  PROVE  /\ DOMAIN lines \subseteq Items /\ IsFiniteSet(DOMAIN lines)
         /\ \A i \in DOMAIN lines : lines[i] \in LineRows
<1>1. PICK D \in SUBSET Items : lines \in [D -> LineRows]
  BY DEF LineMaps
<1>2. DOMAIN lines = D /\ \A i \in D : lines[i] \in LineRows
  BY <1>1
<1>3. IsFiniteSet(D)
  BY <1>1, ItemsAre, FS_Subset
<1> QED BY <1>2, <1>3

LEMMA OrderIsNotNone ==
  ASSUME NEW o \in OrderRows
  PROVE  o # None
<1>1. "lines" \in DOMAIN o /\ "lines" \notin DOMAIN None
  BY DEF OrderRows, None
<1> QED BY <1>1

(* A bill with nothing off, or everything, has rows that add up to it.     *)
LEMMA BillIs ==
  ASSUME shelf \in ShelfRows, home \in Places, NEW cart \in Carts, NEW coupon \in Coupons,
         NEW resolved \in Places \union {"nowhere"}, NEW up,
         CreateOrder(cart, coupon, resolved, up)
  PROVE  LET sub  == Subtotal(cart)
             d    == DiscountFor(coupon, sub)
             free == coupon # NoCoupon /\ d = sub
         IN  /\ order' \in OrderRows /\ BillSound(order')
             /\ order'.subtotal = sub /\ order'.discount = d
             /\ order'.shipping = IF free THEN 0 ELSE Shipping(sub - d)
             /\ order'.status = "placed"
             /\ order'.payment = "pending" \/ free
             /\ free => order'.tax = 0
             /\ d = 0 /\ ~free =>
                  order'.tax = Total([i \in Lines(cart) |->
                    IF i \in Goods THEN ExtractTax(LineTotal(cart, i), shelf.rate[i])
                    ELSE PartsTax(Parts(i, LineTotal(cart, i), cart[i]))])
<1> DEFINE D == Lines(cart)
           sub == Subtotal(cart)
           d == DiscountFor(coupon, sub)
           free == coupon # NoCoupon /\ d >= sub
           fee == IF free THEN 0 ELSE Shipping(sub - d)
           cuts == IF free THEN [i \in D |-> LineTotal(cart, i)] ELSE Cuts(cart, d, up)
           lines == [i \in D |-> BillLine(cart, i, cuts[i], free)]
           n == Cardinality(D)
           o == order'
<1>1. o = [lines |-> lines, subtotal |-> sub, discount |-> IF free THEN sub ELSE d,
           shipping |-> fee, shipTax |-> ShippingTax(fee),
           tax |-> Total([i \in D |-> lines[i].tax]),
           total |-> sub - (IF free THEN sub ELSE d) + fee + ShippingTax(fee),
           place |-> PlaceOfSupply(resolved), status |-> "placed",
           payment |-> IF free THEN "paid" ELSE "pending"]
  <2>1. CASE free
    BY <2>1 DEF CreateOrder
  <2>2. CASE ~free
    BY <2>2 DEF CreateOrder
  <2> QED BY <2>1, <2>2
<1>2. /\ D \subseteq Items /\ IsFiniteSet(D) /\ sub \in Nat /\ d \in 0 .. sub /\ d \in Nat
      /\ n \in Nat
      /\ \A i \in D : cart[i] \in Nat \ {0} /\ LineTotal(cart, i) \in Nat
  BY CartLines, DiscountIs, FS_CardinalityType
<1>3. (IF free THEN sub ELSE d) = d /\ (free => d = sub)
  BY <1>2
<1>4. fee \in Nat /\ ShippingTax(fee) \in Nat
  BY <1>2, ShippingIs
<1>5. /\ DOMAIN cuts = D /\ \A i \in D : cuts[i] \in 0 .. LineTotal(cart, i)
      /\ free => \A i \in D : cuts[i] = LineTotal(cart, i)
      /\ d = 0 /\ ~free => \A i \in D : cuts[i] = 0
      /\ 2 * Total(cuts) <= 2 * d + n /\ 2 * d <= 2 * Total(cuts) + n
  <2>1. CASE free
    <3>1. cuts = [i \in D |-> LineTotal(cart, i)]
      BY <2>1
    <3>2. Total(cuts) = sub
      BY <3>1 DEF Subtotal
    <3> HIDE DEF cuts, sub, d, n
    <3> QED BY <1>2, <1>3, <2>1, <3>1, <3>2
  <2>2. CASE ~free
    <3>1. cuts = Cuts(cart, d, up)
      BY <2>2
    <3> HIDE DEF cuts, d
    <3> QED BY <1>2, <2>2, <3>1, CutsAre
  <2> QED BY <2>1, <2>2
<1>6. \A i \in D : lines[i] = BillLine(cart, i, cuts[i], free)
  OBVIOUS
<1>7. DOMAIN lines = D /\ lines = [i \in D |-> lines[i]]
  OBVIOUS
<1> HIDE DEF cuts, lines, free, fee, d, sub
<1>8. free \in BOOLEAN
  BY DEF free
<1>9. \A i \in D :
        /\ LineSound(i, lines[i])
        /\ lines[i].discount = cuts[i] /\ lines[i].count = cart[i]
        /\ lines[i].price * lines[i].count = LineTotal(cart, i)
        /\ free => lines[i].final = 0 /\ lines[i].tax = 0
        /\ cuts[i] = 0 => lines[i].final = LineTotal(cart, i)
        /\ ~free => lines[i].tax = IF i \in Goods THEN ExtractTax(lines[i].final, shelf.rate[i])
                                   ELSE PartsTax(Parts(i, lines[i].final, cart[i]))
  <2> TAKE i \in D
  <2>1. cuts[i] \in 0 .. LineTotal(cart, i) /\ (free => cuts[i] = LineTotal(cart, i))
    BY <1>5
  <2> QED BY <1>6, <1>8, <2>1, BillLineIs
<1>10. lines \in LineMaps
  <2>1. \A i \in D : lines[i] \in LineRows
    BY <1>9 DEF LineSound
  <2>2. lines \in [D -> LineRows]
    BY <1>7, <2>1
  <2>3. D \in SUBSET Items
    BY <1>2
  <2> QED BY <2>2, <2>3 DEF LineMaps
<1>11. \A i \in D : /\ lines[i].tax \in Nat /\ lines[i].final \in Nat /\ lines[i].price \in Nat
                    /\ lines[i].count \in Nat /\ lines[i].discount \in Nat
  BY <1>9 DEF LineSound, LineRows
<1>12. TaxOn(lines) \in Nat
  <2> DEFINE t == [i \in DOMAIN lines |-> lines[i].tax]
  <2>1. IsFiniteSet(DOMAIN t) /\ \A i \in DOMAIN t : t[i] \in Nat
    BY <1>2, <1>7, <1>11
  <2> HIDE DEF t
  <2>2. Total(t) \in Nat
    BY <2>1, TotalIsNat
  <2> QED BY <2>2 DEF TaxOn, t
<1>13. /\ o.lines = lines /\ o.subtotal = sub /\ o.discount = d /\ o.shipping = fee
       /\ o.shipTax = ShippingTax(fee) /\ o.tax = TaxOn(lines)
       /\ o.total = sub - d + fee + ShippingTax(fee)
       /\ o.place = PlaceOfSupply(resolved) /\ o.status = "placed"
       /\ o.payment = IF free THEN "paid" ELSE "pending"
  BY <1>1, <1>3, <1>7 DEF TaxOn
<1>14. o \in OrderRows
  <2>1. PlaceOfSupply(resolved) \in Places
    BY DEF PlaceOfSupply
  <2>2. (IF free THEN "paid" ELSE "pending") \in Payments /\ "placed" \in Statuses
    BY DEF Payments, Statuses
  <2>3. sub - d + fee + ShippingTax(fee) \in Nat
    BY <1>2, <1>4
  <2>4. o = [lines |-> lines, subtotal |-> sub, discount |-> d,
             shipping |-> fee, shipTax |-> ShippingTax(fee), tax |-> TaxOn(lines),
             total |-> sub - d + fee + ShippingTax(fee),
             place |-> PlaceOfSupply(resolved), status |-> "placed",
             payment |-> IF free THEN "paid" ELSE "pending"]
    BY <1>1, <1>3, <1>7 DEF TaxOn
  <2> HIDE DEF o
  <2> QED BY <1>2, <1>4, <1>10, <1>12, <2>1, <2>2, <2>3, <2>4 DEF OrderRows
<1> HIDE DEF o
<1>15. ListOf(lines) = sub
  <2> DEFINE t == [i \in DOMAIN lines |-> lines[i].price * lines[i].count]
             u == [i \in D |-> LineTotal(cart, i)]
  <2>1. t = u
    BY <1>7, <1>9
  <2>2. Total(t) = Total(u)
    BY <2>1
  <2> QED BY <2>2 DEF ListOf, sub, Subtotal
<1>16. CutOf(lines) = Total(cuts)
  <2> DEFINE t == [i \in DOMAIN lines |-> lines[i].discount]
  <2>1. DOMAIN t = DOMAIN cuts /\ \A i \in DOMAIN cuts : t[i] = cuts[i]
    BY <1>5, <1>7, <1>9
  <2>2. Amounts(cuts)
    BY <1>2, <1>5 DEF Amounts
  <2> HIDE DEF t
  <2>3. Total(t) = Total(cuts)
    BY <2>1, <2>2, TotalAgrees
  <2> QED BY <2>3 DEF CutOf, t
<1>17. d = 0 /\ ~free => FinalOf(lines) = sub
  <2> DEFINE t == [i \in DOMAIN lines |-> lines[i].final]
             u == [i \in D |-> LineTotal(cart, i)]
  <2>1. ASSUME d = 0, ~free PROVE Total(t) = Total(u)
    <3>1. t = u
      BY <1>5, <1>7, <1>9, <2>1
    <3> QED BY <3>1
  <2> QED BY <2>1 DEF FinalOf, sub, Subtotal
<1>18. d = sub => FinalOf(lines) = 0
  <2> DEFINE t == [i \in DOMAIN lines |-> lines[i].final]
  <2>1. ASSUME d = sub PROVE Total(t) = 0
    <3>1. CASE free
      <4>1. \A i \in DOMAIN t : t[i] = 0
        BY <1>7, <1>9, <3>1
      <4>2. IsFiniteSet(DOMAIN t)
        BY <1>2, <1>7
      <4> HIDE DEF t
      <4> QED BY <4>1, <4>2, TotalOfZeros
    <3>2. CASE ~free
      <4>1. coupon = NoCoupon
        BY <1>2, <2>1, <3>2 DEF free
      <4>2. d = 0
        BY <1>2, <4>1, DiscountIs DEF d
      <4> HIDE DEF t
      <4> QED BY <1>17, <2>1, <3>2, <4>2 DEF FinalOf, t
    <3> QED BY <3>1, <3>2
  <2> QED BY <2>1 DEF FinalOf
<1>19. d \in {0, sub} => FinalOf(lines) = sub - d
  <2>1. ASSUME d = 0 PROVE FinalOf(lines) = sub - d
    <3>1. CASE free
      BY <1>2, <1>3, <1>18, <2>1, <3>1
    <3>2. CASE ~free
      BY <1>2, <1>17, <2>1, <3>2
    <3> QED BY <3>1, <3>2
  <2>2. ASSUME d = sub PROVE FinalOf(lines) = sub - d
    BY <1>2, <1>18, <2>2
  <2> QED BY <2>1, <2>2
<1>20. BillSound(o)
  <2>1. 2 * CutOf(lines) <= 2 * d + n /\ 2 * d <= 2 * CutOf(lines) + n
    BY <1>5, <1>16
  <2>2. d <= sub
    BY <1>2
  <2>3. \A i \in DOMAIN lines : LineSound(i, lines[i])
    BY <1>7, <1>9
  <2>4. Cardinality(DOMAIN lines) = n
    BY <1>7
  <2> HIDE DEF n
  <2> QED BY <1>13, <1>15, <1>19, <2>1, <2>2, <2>3, <2>4 DEF BillSound
<1>21. free <=> coupon # NoCoupon /\ d = sub
  BY <1>2 DEF free
<1>22. free => o.tax = 0
  <2> DEFINE t == [i \in DOMAIN lines |-> lines[i].tax]
  <2>1. ASSUME free PROVE Total(t) = 0
    <3>1. IsFiniteSet(DOMAIN t) /\ \A i \in DOMAIN t : t[i] = 0
      BY <1>2, <1>7, <1>9, <2>1
    <3> HIDE DEF t
    <3> QED BY <3>1, TotalOfZeros
  <2> QED BY <1>13, <2>1 DEF TaxOn
<1>23. d = 0 /\ ~free =>
         o.tax = Total([i \in Lines(cart) |->
                    IF i \in Goods THEN ExtractTax(LineTotal(cart, i), shelf.rate[i])
                    ELSE PartsTax(Parts(i, LineTotal(cart, i), cart[i]))])
  <2> DEFINE t == [i \in DOMAIN lines |-> lines[i].tax]
             u == [i \in D |-> IF i \in Goods THEN ExtractTax(LineTotal(cart, i), shelf.rate[i])
                               ELSE PartsTax(Parts(i, LineTotal(cart, i), cart[i]))]
  <2>1. ASSUME d = 0, ~free PROVE t = u
    <3>1. \A i \in D : lines[i].final = LineTotal(cart, i)
      BY <1>5, <1>9, <2>1
    <3>2. \A i \in D : lines[i].tax = IF i \in Goods THEN ExtractTax(LineTotal(cart, i), shelf.rate[i])
                                      ELSE PartsTax(Parts(i, LineTotal(cart, i), cart[i]))
      BY <1>9, <2>1, <3>1
    <3> QED BY <1>7, <3>2
  <2>2. ASSUME d = 0, ~free PROVE Total(t) = Total(u)
    BY <2>1, <2>2
  <2> QED BY <1>13, <2>2 DEF TaxOn
<1>24. o.shipping = IF free THEN 0 ELSE Shipping(sub - d)
  BY <1>13 DEF fee
<1>25. o.payment = "pending" \/ free
  BY <1>13
<1> QED BY <1>13, <1>14, <1>20, <1>21, <1>22, <1>23, <1>24, <1>25 DEF o, d, sub

-----------------------------------------------------------------------------
(* What is so of every sound bill.                                         *)
LEMMA LineIs ==
  ASSUME NEW i, NEW l, LineSound(i, l)
  PROVE  /\ l.final \in Nat /\ l.tax \in Nat /\ l.price \in Nat /\ l.count \in Nat \ {0}
         /\ l.discount \in Nat /\ l.rate \in Nat /\ l.parts \in PartMaps
         /\ l.price * l.count \in Nat
         /\ l.final <= l.price * l.count
         /\ 2 * l.final <= 2 * (l.price * l.count - l.discount) + l.count
         /\ 2 * (l.price * l.count - l.discount) <= 2 * l.final + l.count
         /\ Roomy(l) => l.tax <= l.final
<1>1. /\ l.final \in Nat /\ l.tax \in Nat /\ l.price \in Nat /\ l.count \in Nat \ {0} /\ l.unit \in Nat
      /\ l.discount \in Nat /\ l.rate \in Nat /\ l.parts \in PartMaps
  BY DEF LineSound, LineRows
<1>2. l.final = l.unit * l.count /\ l.final <= l.price * l.count
  BY DEF LineSound
<1>3. l.price * l.count \in Nat
  BY <1>1
<1>4. /\ 2 * l.final <= 2 * (l.price * l.count - l.discount) + l.count
      /\ 2 * (l.price * l.count - l.discount) <= 2 * l.final + l.count
  <2> DEFINE m == l.price * l.count - l.discount
             q == l.unit
             c == l.count
  <2>1. Near(q, m, c)
    BY DEF LineSound
  <2>2. m \in Int /\ q \in Nat /\ c \in Nat \ {0}
    BY <1>1, <1>3
  <2>3. l.final = c * q
    BY <1>1, <1>2
  <2> HIDE DEF m, q, c
  <2>4. 2 * l.final <= 2 * m + c /\ 2 * m <= 2 * l.final + c
    BY <2>1, <2>2, <2>3 DEF Near
  <2> QED BY <2>4 DEF m, c
<1>5. ASSUME Roomy(l) PROVE l.tax <= l.final
  <2>1. CASE l.parts = <<>>
    <3>1. l.rate \in Percent /\ l.tax = ExtractTax(l.final, l.rate)
      BY <2>1 DEF LineSound
    <3> QED BY <1>1, <3>1, TaxIsWithin
  <2>2. CASE l.parts # <<>>
    <3>1. Split(l.parts, l.final) /\ l.tax = PartsTax(l.parts)
      BY <2>2 DEF LineSound
    <3>2. Enough(l.parts, l.final)
      BY <1>5 DEF Enough, Roomy
    <3>3. l.final \in Int
      BY <1>1
    <3> QED BY <1>1, <3>1, <3>2, <3>3, TaxWithinParts
  <2> QED BY <2>1, <2>2
<1> QED BY <1>1, <1>2, <1>3, <1>4, <1>5

LEMMA PartsTyped ==
  ASSUME NEW i, NEW l, LineSound(i, l), l.parts # <<>>
  PROVE  \A g \in DOMAIN l.parts :
           /\ 0 <= l.parts[g].tax
           /\ Roomy(l) => l.parts[g].tax <= l.parts[g].amount
<1>1. l.parts \in PartMaps /\ l.final \in Nat
  BY LineIs
<1>2. Split(l.parts, l.final)
  BY DEF LineSound
<1>3. \A g \in DOMAIN l.parts : l.parts[g].tax \in Nat
  BY <1>1, PartMapsAre DEF PartRows
<1>4. Roomy(l) => Enough(l.parts, l.final)
  BY DEF Enough, Roomy
<1>5. l.final \in Int
  BY <1>1
<1> QED BY <1>1, <1>2, <1>3, <1>4, <1>5, TaxWithinParts

\* The part of TypeOK about the order.
BillTyped ==
  /\ order.total = order.subtotal - order.discount + order.shipping + order.shipTax
  /\ order.tax = Total([i \in DOMAIN order.lines |-> order.lines[i].tax])
  /\ 0 <= order.discount /\ order.discount <= order.subtotal
  /\ \A i \in DOMAIN order.lines :
       LET l == order.lines[i]
       IN  /\ 0 <= l.tax /\ 0 <= l.final /\ l.final <= l.price * l.count
           /\ DOMAIN l.parts \subseteq Goods /\ \A g \in DOMAIN l.parts : l.parts[g] \in PartRows
           /\ Roomy(l) => /\ l.tax <= l.final
                          /\ \A g \in DOMAIN l.parts :
                               0 <= l.parts[g].tax /\ l.parts[g].tax <= l.parts[g].amount

LEMMA BillIsTyped ==
  ASSUME order \in OrderRows, BillSound(order)
  PROVE  BillTyped
<1>1. ASSUME NEW i \in DOMAIN order.lines
      PROVE  LET l == order.lines[i]
             IN  /\ 0 <= l.tax /\ 0 <= l.final /\ l.final <= l.price * l.count
                 /\ DOMAIN l.parts \subseteq Goods /\ \A g \in DOMAIN l.parts : l.parts[g] \in PartRows
                 /\ Roomy(l) => /\ l.tax <= l.final
                                /\ \A g \in DOMAIN l.parts :
                                     0 <= l.parts[g].tax /\ l.parts[g].tax <= l.parts[g].amount
  <2> DEFINE l == order.lines[i]
  <2>1. LineSound(i, l)
    BY DEF BillSound
  <2> HIDE DEF l
  <2>2. /\ 0 <= l.tax /\ 0 <= l.final /\ l.final <= l.price * l.count
        /\ Roomy(l) => l.tax <= l.final
    BY <2>1, LineIs
  <2>3. ASSUME Roomy(l), NEW g \in DOMAIN l.parts
        PROVE  0 <= l.parts[g].tax /\ l.parts[g].tax <= l.parts[g].amount
    <3>1. l.parts # <<>>
      BY <2>3
    <3> QED BY <2>1, <2>3, <3>1, PartsTyped
  <2>4. DOMAIN l.parts \subseteq Goods /\ \A g \in DOMAIN l.parts : l.parts[g] \in PartRows
    BY <2>1, LineIs, PartMapsAre
  <2> QED BY <2>2, <2>3, <2>4 DEF l
<1>2. order.discount \in Nat
  BY DEF OrderRows
<1>3. /\ order.total = order.subtotal - order.discount + order.shipping + order.shipTax
      /\ order.tax = TaxOn(order.lines) /\ order.discount <= order.subtotal
  BY DEF BillSound
<1> QED BY <1>1, <1>2, <1>3 DEF BillTyped, TaxOn

LEMMA BillSplits ==
  ASSUME order \in OrderRows, BillSound(order)
  PROVE  SplitExact
<1>1. \A i \in DOMAIN order.lines : LineSound(i, order.lines[i])
  BY DEF BillSound
<1> QED BY <1>1 DEF SplitExact, LineSound, Split, AmountOf

(* Half a paisa for each unit, from the price of a unit, and half for each *)
(* line, from its share of the discount.                                   *)
LEMMA BillIsNearHeader ==
  ASSUME order \in OrderRows, BillSound(order)
  PROVE  RowsNearHeader
<1> DEFINE lines == order.lines
           D == DOMAIN lines
           fin == [i \in D |-> lines[i].final]
           lst == [i \in D |-> lines[i].price * lines[i].count]
           cut == [i \in D |-> lines[i].discount]
           cnt == [i \in D |-> lines[i].count]
           due == [i \in D |-> lines[i].price * lines[i].count - lines[i].discount]
           n == Cardinality(D)
<1>1. lines \in LineMaps /\ order.subtotal \in Nat /\ order.discount \in Nat
  BY DEF OrderRows
<1>2. IsFiniteSet(D) /\ n \in Nat
  BY <1>1, LineMapsAre, FS_CardinalityType
<1>3. \A i \in D : LineSound(i, lines[i])
  BY DEF BillSound
<1>4. \A i \in D : /\ fin[i] \in Int /\ lst[i] \in Int /\ cut[i] \in Int /\ cnt[i] \in Int /\ due[i] \in Int
                   /\ due[i] = lst[i] - cut[i]
                   /\ 2 * fin[i] <= 2 * due[i] + cnt[i]
                   /\ 2 * due[i] <= 2 * fin[i] + cnt[i]
  <2> SUFFICES ASSUME NEW i \in D
               PROVE  /\ fin[i] \in Int /\ lst[i] \in Int /\ cut[i] \in Int /\ cnt[i] \in Int /\ due[i] \in Int
                      /\ due[i] = lst[i] - cut[i]
                      /\ 2 * fin[i] <= 2 * due[i] + cnt[i]
                      /\ 2 * due[i] <= 2 * fin[i] + cnt[i]
    OBVIOUS
  <2> DEFINE l == lines[i]
  <2>1. LineSound(i, l)
    BY <1>3
  <2>2. fin[i] = l.final /\ lst[i] = l.price * l.count /\ cut[i] = l.discount /\ cnt[i] = l.count
        /\ due[i] = l.price * l.count - l.discount
    OBVIOUS
  <2> HIDE DEF l, lines, fin, lst, cut, cnt, due
  <2> QED BY <2>1, <2>2, LineIs
<1>5. /\ DOMAIN fin = D /\ DOMAIN lst = D /\ DOMAIN cut = D /\ DOMAIN cnt = D /\ DOMAIN due = D
  OBVIOUS
<1>6. /\ ListOf(lines) = Total(lst) /\ CutOf(lines) = Total(cut) /\ FinalOf(lines) = Total(fin)
  BY DEF ListOf, CutOf, FinalOf
<1>7. /\ ListOf(lines) = order.subtotal
      /\ 2 * CutOf(lines) <= 2 * order.discount + n
      /\ 2 * order.discount <= 2 * CutOf(lines) + n
      /\ order.discount \in {0, order.subtotal} => FinalOf(lines) = order.subtotal - order.discount
  BY DEF BillSound
<1> HIDE DEF fin, lst, cut, cnt, due, lines
<1>8. Amounts(fin) /\ Amounts(lst) /\ Amounts(cut) /\ Amounts(cnt) /\ Amounts(due)
  BY <1>2, <1>4, <1>5 DEF Amounts
<1>9. Total(due) = Total(lst) - Total(cut)
  BY <1>4, <1>5, <1>8, TotalMinus
<1>10. 2 * Total(fin) <= 2 * Total(due) + Total(cnt)
  BY <1>4, <1>5, <1>8, TotalWithin
<1>11. 2 * Total(due) <= 2 * Total(fin) + Total(cnt)
  BY <1>4, <1>5, <1>8, TotalWithin
<1>12. Total(fin) \in Int /\ Total(lst) \in Int /\ Total(cut) \in Int /\ Total(cnt) \in Int
  BY <1>8, TotalIsInt
<1> DEFINE apart == Total(fin) - (order.subtotal - order.discount)
<1>13. 2 * apart <= Total(cnt) + n /\ -2 * apart <= Total(cnt) + n
  <2>1. ASSUME NEW f \in Int, NEW s \in Nat, NEW d \in Nat, NEW c \in Int, NEW u \in Int, NEW m \in Nat,
               2 * f <= 2 * (s - c) + u, 2 * (s - c) <= 2 * f + u, 2 * c <= 2 * d + m, 2 * d <= 2 * c + m
        PROVE  2 * (f - (s - d)) <= u + m /\ -2 * (f - (s - d)) <= u + m
    BY <2>1
  <2>2. /\ 2 * Total(fin) <= 2 * (order.subtotal - Total(cut)) + Total(cnt)
        /\ 2 * (order.subtotal - Total(cut)) <= 2 * Total(fin) + Total(cnt)
        /\ 2 * Total(cut) <= 2 * order.discount + n /\ 2 * order.discount <= 2 * Total(cut) + n
    BY <1>6, <1>7, <1>9, <1>10, <1>11
  <2> HIDE DEF n
  <2> QED BY <1>1, <1>2, <1>12, <2>1, <2>2
<1>14. order.discount \in {0, order.subtotal} => apart = 0
  BY <1>1, <1>6, <1>7
<1> QED BY <1>13, <1>14 DEF RowsNearHeader, fin, cnt, lines

-----------------------------------------------------------------------------
(***************************************************************************)
(* What was supplied: goods, components of bundles and the delivery.       *)
(***************************************************************************)
LEMMA SumOfSingle ==
  ASSUME NEW w, NEW x, w[x] \in Int
  PROVE  SumFunctionOnSet(w, {x}) = w[x]
<1>1. IsFiniteSet({x}) /\ Integral(w, {x}) /\ {x} \ {x} = {}
  BY FS_Singleton DEF Integral
<1>2. SumFunctionOnSet(w, {x}) = w[x] + SumFunctionOnSet(w, {})
  BY <1>1, SumWithout
<1> QED BY <1>2, SumOfNone

(* The same amounts under other names.                                     *)
LEMMA TotalRenamed ==
  ASSUME NEW f, Amounts(f), NEW v, IsFiniteSet(DOMAIN v),
         NEW k, \A x \in DOMAIN f : k[x] \in DOMAIN v /\ v[k[x]] = f[x],
         NEW m, \A r \in DOMAIN v : m[r] \in DOMAIN f /\ k[m[r]] = r,
         \A x \in DOMAIN f : m[k[x]] = x
  PROVE  Total(v) = Total(f)
<1>1. ASSUME NEW r \in DOMAIN v
      PROVE  v[r] = SumFunctionOnSet(f, {x \in DOMAIN f : k[x] = r})
  <2>1. {x \in DOMAIN f : k[x] = r} = {m[r]}
    OBVIOUS
  <2>2. f[m[r]] \in Int /\ v[r] = f[m[r]]
    BY DEF Amounts
  <2>3. SumFunctionOnSet(f, {m[r]}) = f[m[r]]
    BY <2>2, SumOfSingle
  <2> QED BY <2>1, <2>2, <2>3
<1> QED BY <1>1, TotalBySlab

LEMMA SupplyCases ==
  ASSUME NEW s
  PROVE  s \in Supplies <=>
           \/ \E i \in DOMAIN order.lines : order.lines[i].parts = <<>> /\ s = <<i, 0>>
           \/ \E i \in DOMAIN order.lines : \E g \in DOMAIN order.lines[i].parts : s = <<i, g>>
           \/ order.shipTax > 0 /\ s = <<0, 0>>
<1>1. Supplies = (Wholes \union Components) \union Delivery
  BY DEF Supplies
<1>2. s \in Supplies <=> s \in Wholes \/ s \in Components \/ s \in Delivery
  BY <1>1
<1>3. s \in Wholes <=> \E i \in DOMAIN order.lines : order.lines[i].parts = <<>> /\ s = <<i, 0>>
  BY DEF Wholes
<1>4. s \in Components <=> \E i \in DOMAIN order.lines : \E g \in DOMAIN order.lines[i].parts : s = <<i, g>>
  BY DEF Components
<1>5. s \in Delivery <=> order.shipTax > 0 /\ s = <<0, 0>>
  BY DEF Delivery
<1> QED BY <1>2, <1>3, <1>4, <1>5

LEMMA SuppliesAre ==
  ASSUME order \in OrderRows, BillSound(order)
  PROVE  /\ \A s \in Supplies :
              \/ s = <<0, 0>> /\ order.shipTax > 0
              \/ \E i \in DOMAIN order.lines : order.lines[i].parts = <<>> /\ s = <<i, 0>>
              \/ \E i \in DOMAIN order.lines : \E g \in DOMAIN order.lines[i].parts : s = <<i, g>>
         /\ order.shipTax > 0 => <<0, 0>> \in Supplies
         /\ \A i \in DOMAIN order.lines :
              /\ order.lines[i].parts = <<>> => <<i, 0>> \in Supplies
              /\ \A g \in DOMAIN order.lines[i].parts : <<i, g>> \in Supplies
         /\ \A i \in DOMAIN order.lines :
              /\ i \in Nat \ {0} /\ i \in Items
              /\ \A g \in DOMAIN order.lines[i].parts : g \in Goods /\ g \in Nat \ {0}
         /\ IsFiniteSet(DOMAIN order.lines) /\ IsFiniteSet(Supplies)
<1>1. order.lines \in LineMaps
  BY DEF OrderRows
<1>2. IsFiniteSet(DOMAIN order.lines) /\ DOMAIN order.lines \subseteq Items
  BY <1>1, LineMapsAre
<1>3. \A i \in DOMAIN order.lines : order.lines[i].parts \in PartMaps
  BY LineIs DEF BillSound
<1>4. \A i \in DOMAIN order.lines :
        /\ i \in Nat \ {0} /\ i \in Items
        /\ \A g \in DOMAIN order.lines[i].parts : g \in Goods /\ g \in Nat \ {0}
  <2> TAKE i \in DOMAIN order.lines
  <2>1. i \in Nat \ {0} /\ i \in Items
    BY <1>2, ItemsAre
  <2>2. DOMAIN order.lines[i].parts \subseteq Goods
    BY <1>3, PartMapsAre
  <2> QED BY <2>1, <2>2, ItemsAre
<1>5. \A s \in Supplies :
        \/ s = <<0, 0>> /\ order.shipTax > 0
        \/ \E i \in DOMAIN order.lines : order.lines[i].parts = <<>> /\ s = <<i, 0>>
        \/ \E i \in DOMAIN order.lines : \E g \in DOMAIN order.lines[i].parts : s = <<i, g>>
  BY SupplyCases
<1>6. order.shipTax > 0 => <<0, 0>> \in Supplies
  BY SupplyCases
<1>7. \A i \in DOMAIN order.lines :
        /\ order.lines[i].parts = <<>> => <<i, 0>> \in Supplies
        /\ \A g \in DOMAIN order.lines[i].parts : <<i, g>> \in Supplies
  BY SupplyCases
<1>8. IsFiniteSet(Supplies)
  <2> DEFINE A == DOMAIN order.lines \union {0}
             B == Goods \union {0}
  <2>1. IsFiniteSet(A) /\ IsFiniteSet(B)
    BY <1>2, ItemsAre, FS_Singleton, FS_Union
  <2>2. Supplies \subseteq A \X B
    BY <1>4, <1>5
  <2>3. IsFiniteSet(A \X B)
    <3> HIDE DEF A, B
    <3> QED BY <2>1, FS_Product
  <2> HIDE DEF A, B
  <2> QED BY <2>2, <2>3, FS_Subset
<1> QED BY <1>2, <1>4, <1>5, <1>6, <1>7, <1>8

(* Each at its rate, with its tax inside.                                  *)
LEMMA SupplyIs ==
  ASSUME order \in OrderRows, BillSound(order)
  PROVE  /\ \A s \in Supplies : /\ Gross(s) \in Int /\ RateOf(s) \in Percent
                                /\ BilledTax(s) = ExtractTax(Gross(s), RateOf(s))
                                /\ BilledTax(s) \in Nat
         /\ Gross(<<0, 0>>) = order.shipping + order.shipTax /\ BilledTax(<<0, 0>>) = order.shipTax
         /\ \A i \in DOMAIN order.lines :
              /\ Gross(<<i, 0>>) = order.lines[i].final
              /\ BilledTax(<<i, 0>>) = order.lines[i].tax
              /\ \A g \in DOMAIN order.lines[i].parts :
                   /\ Gross(<<i, g>>) = order.lines[i].parts[g].amount
                   /\ BilledTax(<<i, g>>) = order.lines[i].parts[g].tax
<1>1. /\ \A i \in DOMAIN order.lines :
           /\ i \in Nat \ {0}
           /\ \A g \in DOMAIN order.lines[i].parts : g \in Nat \ {0}
  BY SuppliesAre
<1>2. /\ Gross(<<0, 0>>) = order.shipping + order.shipTax /\ RateOf(<<0, 0>>) = ShippingRate
      /\ BilledTax(<<0, 0>>) = order.shipTax
  BY DEF Gross, RateOf, BilledTax
<1>3. ASSUME NEW i \in DOMAIN order.lines
      PROVE  /\ Gross(<<i, 0>>) = order.lines[i].final /\ RateOf(<<i, 0>>) = order.lines[i].rate
             /\ BilledTax(<<i, 0>>) = order.lines[i].tax
  <2>1. <<i, 0>> # <<0, 0>> /\ <<i, 0>>[1] = i /\ <<i, 0>>[2] = 0 /\ i > 0 /\ ~(0 > 0)
    BY <1>1
  <2> QED BY <2>1 DEF Gross, RateOf, BilledTax
<1>4. ASSUME NEW i \in DOMAIN order.lines, NEW g \in DOMAIN order.lines[i].parts
      PROVE  /\ Gross(<<i, g>>) = order.lines[i].parts[g].amount
             /\ RateOf(<<i, g>>) = order.lines[i].parts[g].rate
             /\ BilledTax(<<i, g>>) = order.lines[i].parts[g].tax
  <2>1. <<i, g>> # <<0, 0>> /\ <<i, g>>[1] = i /\ <<i, g>>[2] = g /\ i > 0 /\ g > 0 /\ g # 0
    BY <1>1
  <2> QED BY <2>1 DEF Gross, RateOf, BilledTax
<1>5. ASSUME NEW s \in Supplies
      PROVE  /\ Gross(s) \in Int /\ RateOf(s) \in Percent
             /\ BilledTax(s) = ExtractTax(Gross(s), RateOf(s)) /\ BilledTax(s) \in Nat
  <2>1. CASE s = <<0, 0>>
    <3>1. order.shipping \in Nat /\ order.shipTax = AddTax(order.shipping, ShippingRate) /\ ShippingRate \in Percent
      BY ShippingIs DEF OrderRows, BillSound, ShippingTax
    <3>2. order.shipTax \in Nat
      BY DEF OrderRows
    <3>3. ExtractTax(order.shipping + order.shipTax, ShippingRate) = order.shipTax
      BY <3>1, TaxIsFoundAgain
    <3> QED BY <1>2, <2>1, <3>1, <3>2, <3>3
  <2>2. CASE \E i \in DOMAIN order.lines : order.lines[i].parts = <<>> /\ s = <<i, 0>>
    <3>1. PICK i \in DOMAIN order.lines : order.lines[i].parts = <<>> /\ s = <<i, 0>>
      BY <2>2
    <3>2. LineSound(i, order.lines[i])
      BY DEF BillSound
    <3>3. order.lines[i].final \in Nat /\ order.lines[i].tax \in Nat
      BY <3>2, LineIs
    <3>4. order.lines[i].rate \in Percent /\ order.lines[i].tax = ExtractTax(order.lines[i].final, order.lines[i].rate)
      BY <3>1, <3>2 DEF LineSound
    <3> QED BY <1>3, <3>1, <3>3, <3>4
  <2>3. CASE \E i \in DOMAIN order.lines : \E g \in DOMAIN order.lines[i].parts : s = <<i, g>>
    <3>1. PICK i \in DOMAIN order.lines : \E g \in DOMAIN order.lines[i].parts : s = <<i, g>>
      BY <2>3
    <3>2. PICK g \in DOMAIN order.lines[i].parts : s = <<i, g>>
      BY <3>1
    <3>3. LineSound(i, order.lines[i]) /\ order.lines[i].parts # <<>>
      BY DEF BillSound
    <3>4. order.lines[i].parts \in PartMaps
      BY <3>3, LineIs
    <3>5. order.lines[i].parts[g] \in PartRows
      BY <3>4, PartMapsAre
    <3>6. order.lines[i].parts[g].tax = ExtractTax(order.lines[i].parts[g].amount, order.lines[i].parts[g].rate)
      BY <3>3 DEF LineSound, Split
    <3> QED BY <1>4, <3>2, <3>5, <3>6 DEF PartRows
  <2> QED BY <2>1, <2>2, <2>3, SuppliesAre
<1> QED BY <1>2, <1>3, <1>4, <1>5

-----------------------------------------------------------------------------
(* Supplies gathered by the line they are of.                              *)
LEMMA Gathered ==
  ASSUME order \in OrderRows, BillSound(order),
         NEW f, DOMAIN f = Supplies, \A s \in Supplies : f[s] \in Int,
         NEW v, DOMAIN v = DOMAIN order.lines,
         \A i \in DOMAIN order.lines :
           IF order.lines[i].parts = <<>> THEN v[i] = f[<<i, 0>>]
           ELSE v[i] = Total([g \in DOMAIN order.lines[i].parts |-> f[<<i, g>>]])
  PROVE  /\ Total(f) = Total(v) + IF order.shipTax > 0 THEN f[<<0, 0>>] ELSE 0
         /\ Total(v) \in Int /\ \A i \in DOMAIN v : v[i] \in Int
<1> DEFINE D == DOMAIN order.lines
           fee == IF order.shipTax > 0 THEN f[<<0, 0>>] ELSE 0
           w == [i \in D \union {0} |-> IF i = 0 THEN fee ELSE v[i]]
           k == [s \in Supplies |-> s[1]]
           Of(i) == {s \in Supplies : k[s] = i}
<1>1. /\ IsFiniteSet(D) /\ IsFiniteSet(Supplies)
      /\ \A i \in D : i \in Nat \ {0} /\ \A g \in DOMAIN order.lines[i].parts : g \in Nat \ {0}
  BY SuppliesAre
<1>2. 0 \notin D
  BY <1>1
<1>3. \A s \in Supplies : k[s] \in D \union {0}
  <2> TAKE s \in Supplies
  <2>1. s[1] \in D \union {0}
    BY SupplyCases
  <2> QED BY <2>1
<1>4. Amounts(f)
  BY <1>1 DEF Amounts
<1>5. w[0] = SumFunctionOnSet(f, Of(0))
  <2>1. w[0] = fee
    OBVIOUS
  <2>2. \A s \in Supplies : k[s] = 0 <=> s = <<0, 0>>
    <3> SUFFICES ASSUME NEW s \in Supplies PROVE k[s] = 0 <=> s = <<0, 0>>
      OBVIOUS
    <3>1. k[s] = s[1]
      OBVIOUS
    <3> HIDE DEF k
    <3> QED BY <1>2, <3>1, SupplyCases
  <2>3. CASE order.shipTax > 0
    <3>1. <<0, 0>> \in Supplies
      BY <2>3, SupplyCases
    <3>2. Of(0) = {<<0, 0>>}
      BY <2>2, <3>1
    <3>3. fee = f[<<0, 0>>] /\ f[<<0, 0>>] \in Int
      BY <2>3, <3>1
    <3> HIDE DEF w, fee, Of, k
    <3>4. SumFunctionOnSet(f, {<<0, 0>>}) = f[<<0, 0>>]
      BY ONLY <3>3, SumOfSingle
    <3> QED BY <2>1, <3>2, <3>3, <3>4
  <2>4. CASE ~(order.shipTax > 0)
    <3>1. <<0, 0>> \notin Supplies
      BY <1>2, <2>4, SupplyCases
    <3>2. Of(0) = {}
      BY <2>2, <3>1
    <3> QED BY <2>1, <2>4, <3>2, SumOfNone
  <2> QED BY <2>3, <2>4
<1>6. ASSUME NEW i \in D PROVE w[i] = SumFunctionOnSet(f, Of(i))
  <2> DEFINE parts == order.lines[i].parts
  <2>1. w[i] = v[i] /\ i # 0
    BY <1>2
  <2>2. CASE parts = <<>>
    <3>1. <<i, 0>> \in Supplies
      BY <2>2, SupplyCases
    <3>2. ASSUME NEW s \in Supplies PROVE k[s] = i <=> s = <<i, 0>>
      <4>1. k[s] = s[1] /\ i # 0
        BY <2>1
      <4>2. DOMAIN parts = {}
        BY <2>2
      <4> HIDE DEF k
      <4> QED BY <4>1, <4>2, SupplyCases
    <3>3. Of(i) = {<<i, 0>>}
      BY <3>1, <3>2
    <3>4. v[i] = f[<<i, 0>>] /\ f[<<i, 0>>] \in Int
      BY <2>2, <3>1
    <3> HIDE DEF w, Of, k
    <3> QED BY <2>1, <3>3, <3>4, SumOfSingle
  <2>3. CASE parts # <<>>
    <3> DEFINE P == DOMAIN parts
               f2 == [s \in Of(i) |-> f[s]]
               v2 == [g \in P |-> f[<<i, g>>]]
               k2 == [s \in Of(i) |-> s[2]]
               m2 == [g \in P |-> <<i, g>>]
    <3>1. \A g \in P : <<i, g>> \in Supplies
      BY SupplyCases
    <3>2. ASSUME NEW s \in Supplies PROVE k[s] = i <=> \E g \in P : s = <<i, g>>
      <4>1. k[s] = s[1] /\ i # 0
        BY <2>1
      <4> HIDE DEF k
      <4> QED BY <2>3, <4>1, SupplyCases
    <3>3. \A s \in Of(i) : s \in Supplies /\ s[2] \in P /\ s = <<i, s[2]>>
      BY <3>2
    <3>4. \A g \in P : <<i, g>> \in Of(i)
      BY <3>1, <3>2
    <3>5. Of(i) \subseteq Supplies
      OBVIOUS
    <3> HIDE DEF Of, k, P
    <3>6. IsFiniteSet(Of(i))
      BY <1>1, <3>5, FS_Subset
    <3>7. Amounts(f2)
      BY <3>5, <3>6 DEF Amounts
    <3>8. IsFiniteSet(DOMAIN v2)
      <4>1. order.lines[i].parts \in PartMaps
        BY LineIs DEF BillSound
      <4> QED BY <4>1, PartMapsAre DEF P
    <3>9. \A s \in DOMAIN f2 : k2[s] \in DOMAIN v2 /\ v2[k2[s]] = f2[s]
      BY <3>3
    <3>10. \A g \in DOMAIN v2 : m2[g] \in DOMAIN f2 /\ k2[m2[g]] = g
      BY <3>4
    <3>11. \A s \in DOMAIN f2 : m2[k2[s]] = s
      BY <3>3
    <3>12. DOMAIN f2 = Of(i) /\ \A s \in Of(i) : f2[s] = f[s]
      OBVIOUS
    <3>13. Total(v2) = v[i]
      BY <2>3 DEF P
    <3> HIDE DEF f2, v2, k2, m2
    <3>14. Total(v2) = Total(f2)
      BY <3>7, <3>8, <3>9, <3>10, <3>11, TotalRenamed
    <3>15. Total(f2) = SumFunctionOnSet(f, Of(i))
      BY <1>4, <3>5, <3>12, TotalOfPart
    <3> QED BY <2>1, <3>13, <3>14, <3>15
  <2> QED BY <2>2, <2>3
<1>7. DOMAIN w = D \union {0} /\ IsFiniteSet(D \union {0})
  BY <1>1, FS_Singleton, FS_Union
<1>8. w[0] = fee /\ \A i \in D : w[i] = v[i]
  BY <1>2
<1>9. \A i \in D \union {0} : w[i] \in Int
  <2> TAKE i \in D \union {0}
  <2>1. Of(i) \in SUBSET Supplies
    OBVIOUS
  <2> HIDE DEF Of, w
  <2>2. IsFiniteSet(Of(i)) /\ Integral(f, Of(i))
    BY <1>1, <2>1, FS_Subset DEF Integral
  <2>3. SumFunctionOnSet(f, Of(i)) \in Int
    BY <2>2, SumIsInteger
  <2> QED BY <1>5, <1>6, <2>3
<1> HIDE DEF w, fee
<1>10. Total(w) = Total(f)
  <2>1. \A i \in DOMAIN w : w[i] = SumFunctionOnSet(f, {s \in DOMAIN f : k[s] = i})
    BY <1>5, <1>6, <1>7
  <2>2. \A s \in DOMAIN f : k[s] \in DOMAIN w
    BY <1>3, <1>7
  <2>3. IsFiniteSet(DOMAIN w)
    BY <1>7
  <2> HIDE DEF k
  <2> QED BY ONLY <1>4, <2>1, <2>2, <2>3, TotalBySlab
<1>11. Amounts(w)
  BY <1>7, <1>9 DEF Amounts
<1>12. Total(w) = Total(v) + fee
  <2> DEFINE h == [i \in {0} |-> fee]
  <2>1. (D \union {0}) \ D = {0} /\ D \in SUBSET (D \union {0})
    BY <1>2
  <2>2. DOMAIN h = {0} /\ h[0] = fee
    OBVIOUS
  <2> HIDE DEF h, D
  <2>3. DOMAIN h = DOMAIN w \ D /\ \A i \in DOMAIN w \ D : h[i] = w[i]
    BY <1>7, <1>8, <2>1, <2>2
  <2>4. Total(w) = Total(v) + Total(h)
    BY <1>7, <1>8, <1>11, <2>1, <2>3, TotalInParts DEF D
  <2>5. h[0] \in Int
    BY <1>8, <1>9, <2>2
  <2>6. Total(h) = fee
    BY <2>2, <2>5, SumOfSingle, TotalIs
  <2> QED BY <2>4, <2>6
<1>13. \A i \in DOMAIN v : v[i] \in Int
  BY <1>8, <1>9
<1>14. Total(v) \in Int
  BY <1>1, <1>13, TotalIsInt DEF Amounts
<1> QED BY <1>10, <1>12, <1>13, <1>14 DEF fee

-----------------------------------------------------------------------------
(***************************************************************************)
(* The breakdown by rate.                                                  *)
(***************************************************************************)
GrossTotal == Total([s \in Supplies |-> Gross(s)])
FeeGross == IF order.shipTax > 0 THEN order.shipping + order.shipTax ELSE 0

(* What was supplied came to what the lines and the taxed delivery did.    *)
LEMMA GrossIs ==
  ASSUME order \in OrderRows, BillSound(order)
  PROVE  GrossTotal = FinalOf(order.lines) + FeeGross /\ GrossTotal \in Int /\ FinalOf(order.lines) \in Nat
<1> DEFINE f == [s \in Supplies |-> Gross(s)]
           v == [i \in DOMAIN order.lines |-> order.lines[i].final]
<1>1. \A s \in Supplies : f[s] = Gross(s) /\ f[s] \in Int
  BY SupplyIs
<1>2. ASSUME NEW i \in DOMAIN order.lines
      PROVE  IF order.lines[i].parts = <<>> THEN v[i] = f[<<i, 0>>]
             ELSE v[i] = Total([g \in DOMAIN order.lines[i].parts |-> f[<<i, g>>]])
  <2>1. CASE order.lines[i].parts = <<>>
    <3>1. <<i, 0>> \in Supplies
      BY <2>1, SupplyCases
    <3>2. f[<<i, 0>>] = order.lines[i].final
      BY <1>1, <3>1, SupplyIs
    <3> QED BY <2>1, <3>2
  <2>2. CASE order.lines[i].parts # <<>>
    <3> DEFINE t == [g \in DOMAIN order.lines[i].parts |-> order.lines[i].parts[g].amount]
               u == [g \in DOMAIN order.lines[i].parts |-> f[<<i, g>>]]
    <3>1. \A g \in DOMAIN order.lines[i].parts : f[<<i, g>>] = order.lines[i].parts[g].amount
      <4> TAKE g \in DOMAIN order.lines[i].parts
      <4>1. <<i, g>> \in Supplies
        BY SupplyCases
      <4> QED BY <1>1, <4>1, SupplyIs
    <3>2. Total(u) = Total(t)
      <4>1. u = t
        <5> HIDE DEF f
        <5> QED BY <3>1
      <4> QED BY <4>1
    <3>3. Total(t) = order.lines[i].final
      BY <2>2 DEF BillSound, LineSound, Split, AmountOf
    <3> HIDE DEF f
    <3> QED BY <2>2, <3>2, <3>3
  <2> QED BY <2>1, <2>2
<1>3. DOMAIN f = Supplies /\ DOMAIN v = DOMAIN order.lines
  OBVIOUS
<1>4. order.shipTax > 0 => f[<<0, 0>>] = order.shipping + order.shipTax
  BY <1>1, SupplyCases, SupplyIs
<1>5. \A i \in DOMAIN order.lines : v[i] \in Nat
  BY LineIs DEF BillSound
<1> HIDE DEF f, v
<1>6. Total(f) = Total(v) + IF order.shipTax > 0 THEN f[<<0, 0>>] ELSE 0
  BY <1>1, <1>2, <1>3, Gathered
<1>7. Total(v) \in Nat
  BY <1>3, <1>5, TotalIsNat, SuppliesAre
<1>8. GrossTotal = Total(f) /\ FinalOf(order.lines) = Total(v)
  BY DEF GrossTotal, FinalOf, f, v
<1>9. order.shipTax \in Nat /\ order.shipping \in Nat
  BY DEF OrderRows
<1> QED BY <1>4, <1>6, <1>7, <1>8, <1>9 DEF FeeGross

(* And their taxes to the tax of the bill.                                 *)
LEMMA BilledIs ==
  ASSUME order \in OrderRows, BillSound(order)
  PROVE  Total([s \in Supplies |-> BilledTax(s)]) = order.tax + order.shipTax
<1> DEFINE f == [s \in Supplies |-> BilledTax(s)]
           v == [i \in DOMAIN order.lines |-> order.lines[i].tax]
<1>1. \A s \in Supplies : f[s] = BilledTax(s) /\ f[s] \in Int
  BY SupplyIs
<1>2. ASSUME NEW i \in DOMAIN order.lines
      PROVE  IF order.lines[i].parts = <<>> THEN v[i] = f[<<i, 0>>]
             ELSE v[i] = Total([g \in DOMAIN order.lines[i].parts |-> f[<<i, g>>]])
  <2>1. CASE order.lines[i].parts = <<>>
    <3>1. <<i, 0>> \in Supplies
      BY <2>1, SupplyCases
    <3>2. f[<<i, 0>>] = order.lines[i].tax
      BY <1>1, <3>1, SupplyIs
    <3> QED BY <2>1, <3>2
  <2>2. CASE order.lines[i].parts # <<>>
    <3> DEFINE t == [g \in DOMAIN order.lines[i].parts |-> order.lines[i].parts[g].tax]
               u == [g \in DOMAIN order.lines[i].parts |-> f[<<i, g>>]]
    <3>1. \A g \in DOMAIN order.lines[i].parts : f[<<i, g>>] = order.lines[i].parts[g].tax
      <4> TAKE g \in DOMAIN order.lines[i].parts
      <4>1. <<i, g>> \in Supplies
        BY SupplyCases
      <4> QED BY <1>1, <4>1, SupplyIs
    <3>2. Total(u) = Total(t)
      <4>1. u = t
        <5> HIDE DEF f
        <5> QED BY <3>1
      <4> QED BY <4>1
    <3>3. Total(t) = order.lines[i].tax
      BY <2>2 DEF BillSound, LineSound, PartsTax
    <3> HIDE DEF f
    <3> QED BY <2>2, <3>2, <3>3
  <2> QED BY <2>1, <2>2
<1>3. DOMAIN f = Supplies /\ DOMAIN v = DOMAIN order.lines
  OBVIOUS
<1>4. order.shipTax > 0 => f[<<0, 0>>] = order.shipTax
  BY <1>1, SupplyCases, SupplyIs
<1> HIDE DEF f, v
<1>6. Total(f) = Total(v) + IF order.shipTax > 0 THEN f[<<0, 0>>] ELSE 0
  BY <1>1, <1>2, <1>3, Gathered
<1>7. Total(v) = order.tax
  BY DEF BillSound, TaxOn, v
<1>9. order.shipTax \in Nat /\ order.tax \in Nat
  BY DEF OrderRows
<1>10. Total(f) = order.tax + order.shipTax
  BY <1>4, <1>6, <1>7, <1>9
<1> QED BY <1>10 DEF f

(* Every row has a rate, and no tax is left over.                          *)
LEMMA BreakdownIs ==
  ASSUME order \in OrderRows, BillSound(order)
  PROVE  LET rows == OrderTaxBreakdown
         IN  /\ Slabs(rows) /\ DOMAIN rows \subseteq Percent
             /\ \A r \in DOMAIN rows : rows[r].tax >= 0
             /\ TaxOf(rows) = order.tax + order.shipTax
             /\ Total([r \in DOMAIN rows |-> rows[r].taxable + rows[r].tax]) = GrossTotal
             /\ (\A i \in DOMAIN order.lines : Roomy(order.lines[i])) =>
                  \A r \in DOMAIN rows : rows[r].taxable >= 0
             /\ order.tax + order.shipTax > 0 => DOMAIN rows # {}
<1> DEFINE R == {RateOf(s) : s \in Supplies}
           k == [s \in Supplies |-> RateOf(s)]
           Slab(r) == {s \in Supplies : RateOf(s) = r}
           t == [s \in Supplies |-> BilledTax(s)]
           f == [s \in Supplies |-> Gross(s)]
           tax == [r \in R |-> Total([s \in Slab(r) |-> ExtractTax(Gross(s), r)])]
           sum == [r \in R |-> Total([s \in Slab(r) |-> Gross(s)])]
           rows == GroupTaxByRate
<1>1. IsFiniteSet(Supplies)
  BY SuppliesAre
<1>2. \A s \in Supplies : Gross(s) \in Int /\ RateOf(s) \in Percent /\ BilledTax(s) \in Nat
                          /\ BilledTax(s) = ExtractTax(Gross(s), RateOf(s))
  BY SupplyIs
<1>3. R \subseteq Percent /\ IsFiniteSet(R) /\ R \subseteq Nat
  <2>1. R \subseteq Percent
    BY <1>2
  <2>2. IsFiniteSet(Percent) /\ Percent \subseteq Nat
    <3> DEFINE h == 100
    <3>1. h \in Int /\ 0 \in Int /\ Percent = 0 .. h /\ 0 .. h \subseteq Nat
      BY DEF Percent
    <3> HIDE DEF h
    <3>2. IsFiniteSet(0 .. h)
      BY <3>1, FS_Interval
    <3> QED BY <3>1, <3>2
  <2> HIDE DEF R
  <2> QED BY <2>1, <2>2, FS_Subset
<1>4. /\ DOMAIN rows = R
      /\ \A r \in R : rows[r] = [taxable |-> sum[r] - tax[r], tax |-> tax[r]]
  BY DEF GroupTaxByRate
<1>5. /\ DOMAIN t = Supplies /\ DOMAIN f = Supplies /\ DOMAIN k = Supplies /\ DOMAIN tax = R /\ DOMAIN sum = R
      /\ \A s \in Supplies : t[s] = BilledTax(s) /\ f[s] = Gross(s) /\ k[s] = RateOf(s) /\ k[s] \in R
  OBVIOUS
<1>6. Amounts(t) /\ Amounts(f)
  BY <1>1, <1>2, <1>5 DEF Amounts
<1>7. ASSUME NEW r \in R
      PROVE  /\ tax[r] = SumFunctionOnSet(t, {s \in DOMAIN t : k[s] = r}) /\ tax[r] \in Nat
             /\ sum[r] = SumFunctionOnSet(f, {s \in DOMAIN f : k[s] = r}) /\ sum[r] \in Int
             /\ (\A s \in Supplies : Gross(s) >= 0) => tax[r] <= sum[r]
  <2> DEFINE S == Slab(r)
             a == [s \in S |-> ExtractTax(Gross(s), r)]
             b == [s \in S |-> Gross(s)]
  <2>1. tax[r] = Total(a) /\ sum[r] = Total(b)
    OBVIOUS
  <2>2. S \in SUBSET Supplies /\ IsFiniteSet(S)
    BY <1>1, FS_Subset
  <2>3. {s \in DOMAIN t : k[s] = r} = S /\ {s \in DOMAIN f : k[s] = r} = S
    BY <1>5
  <2>4. /\ DOMAIN a = S /\ \A s \in S : a[s] = t[s] /\ a[s] \in Nat
        /\ DOMAIN b = S /\ \A s \in S : b[s] = f[s] /\ b[s] \in Int
    BY <1>2, <1>5
  <2>5. (\A s \in Supplies : Gross(s) >= 0) => \A s \in S : a[s] <= b[s]
    <3>1. ASSUME \A s \in Supplies : Gross(s) >= 0, NEW s \in S PROVE a[s] <= b[s]
      <4>1. s \in Supplies /\ RateOf(s) = r /\ a[s] = ExtractTax(Gross(s), r) /\ b[s] = Gross(s)
        OBVIOUS
      <4> HIDE DEF S, a, b
      <4>2. ExtractTax(Gross(s), r) <= Gross(s)
        BY <1>2, <3>1, <4>1, TaxIsWithin
      <4> QED BY <4>1, <4>2
    <3> QED BY <3>1
  <2> HIDE DEF S, a, b, t, f, k, tax, sum, R
  <2>6. Amounts(a) /\ Amounts(b)
    BY <2>2, <2>4 DEF Amounts
  <2>7. Total(a) = SumFunctionOnSet(t, S) /\ Total(a) \in Nat
    <3>1. Total(a) = SumFunctionOnSet(t, S)
      BY <1>5, <1>6, <2>2, <2>4, TotalOfPart
    <3>2. Total(a) \in Nat
      BY <2>2, <2>4, TotalIsNat
    <3> QED BY <3>1, <3>2
  <2>8. Total(b) = SumFunctionOnSet(f, S) /\ Total(b) \in Int
    <3>1. Total(b) = SumFunctionOnSet(f, S)
      BY <1>5, <1>6, <2>2, <2>4, TotalOfPart
    <3>2. Total(b) \in Int
      BY <2>6, TotalIsInt
    <3> QED BY <3>1, <3>2
  <2>9. (\A s \in Supplies : Gross(s) >= 0) => Total(a) <= Total(b)
    <3>1. ASSUME \A s \in Supplies : Gross(s) >= 0 PROVE Total(a) <= Total(b)
      BY <2>4, <2>5, <2>6, <3>1, TotalBelow
    <3> QED BY <3>1
  <2> QED BY <2>1, <2>3, <2>7, <2>8, <2>9
<1> HIDE DEF R, k, Slab, t, f, tax, sum, rows
<1>71. \A r \in DOMAIN tax : tax[r] = SumFunctionOnSet(t, {s \in DOMAIN t : k[s] = r})
  BY <1>5, <1>7
<1>72. \A r \in DOMAIN sum : sum[r] = SumFunctionOnSet(f, {s \in DOMAIN f : k[s] = r})
  BY <1>5, <1>7
<1>73. \A r \in R : tax[r] \in Nat /\ sum[r] \in Int
  BY <1>7
<1>75. Amounts(tax)
  <2>1. DOMAIN tax = R
    BY <1>5
  <2>2. \A r \in R : tax[r] \in Int
    BY <1>73
  <2>3. IsFiniteSet(R)
    BY <1>3
  <2> QED BY <2>1, <2>2, <2>3 DEF Amounts
<1>74. (\A s \in Supplies : Gross(s) >= 0) => \A r \in R : tax[r] <= sum[r]
  BY <1>7
<1>8. Total(tax) = Total(t)
  BY <1>3, <1>5, <1>6, <1>71, TotalBySlab
<1>9. Total(sum) = Total(f)
  BY <1>3, <1>5, <1>6, <1>72, TotalBySlab
<1>10. Total(t) = order.tax + order.shipTax /\ Total(f) = GrossTotal
  BY BilledIs DEF t, f, GrossTotal
<1>11. \A r \in R : rows[r].taxable = sum[r] - tax[r] /\ rows[r].tax = tax[r]
                    /\ rows[r].taxable \in Int /\ rows[r].tax \in Nat
  BY <1>4, <1>73
<1>12. TaxOf(rows) = order.tax + order.shipTax
  <2> DEFINE u == [r \in DOMAIN rows |-> rows[r].tax]
  <2>1. DOMAIN u = DOMAIN tax /\ \A r \in DOMAIN tax : u[r] = tax[r]
    BY <1>4, <1>5, <1>11
  <2>2. Amounts(tax)
    BY <1>75
  <2> HIDE DEF u
  <2>3. Total(u) = Total(tax)
    BY <2>1, <2>2, TotalAgrees
  <2> QED BY <1>8, <1>10, <2>3 DEF TaxOf, u
<1>13. Total([r \in DOMAIN rows |-> rows[r].taxable + rows[r].tax]) = GrossTotal
  <2> DEFINE u == [r \in DOMAIN rows |-> rows[r].taxable + rows[r].tax]
  <2>1. DOMAIN u = DOMAIN sum
    BY <1>4, <1>5
  <2>2. ASSUME NEW r \in DOMAIN sum PROVE u[r] = sum[r]
    <3>1. u[r] = rows[r].taxable + rows[r].tax
      BY <1>4, <1>5
    <3> HIDE DEF u
    <3> QED BY <1>5, <1>73, <1>74, <1>11, <3>1
  <2>3. Amounts(sum)
    BY <1>3, <1>5, <1>73 DEF Amounts
  <2> HIDE DEF u
  <2>4. Total(u) = Total(sum)
    BY <2>1, <2>2, <2>3, TotalAgrees
  <2> QED BY <1>9, <1>10, <2>4 DEF u
<1>14. Slabs(rows)
  <2>1. IsFiniteSet(DOMAIN rows)
    BY <1>3, <1>4
  <2>2. DOMAIN rows \subseteq Nat
    BY <1>3, <1>4
  <2>3. \A r \in DOMAIN rows : rows[r].taxable \in Int /\ rows[r].tax \in Int
    BY <1>4, <1>11
  <2> QED BY <2>1, <2>2, <2>3 DEF Slabs
<1>15. OrderTaxBreakdown = rows
  <2>1. order.tax \in Nat /\ order.shipTax \in Nat
    BY DEF OrderRows
  <2> DEFINE x == order.tax + order.shipTax - TaxOf(rows)
  <2>2. x <= 0
    BY <1>12, <2>1
  <2>3. OrderTaxBreakdown = IF x <= 0 THEN rows
                            ELSE [r \in DOMAIN rows \union {NoRate} |->
                                    IF r = NoRate THEN [taxable |-> 0, tax |-> x] ELSE rows[r]]
    BY DEF OrderTaxBreakdown, TaxOf, rows
  <2> HIDE DEF x
  <2> QED BY <2>2, <2>3
<1>16. ASSUME \A i \in DOMAIN order.lines : Roomy(order.lines[i])
       PROVE  \A r \in DOMAIN rows : rows[r].taxable >= 0
  <2>1. ASSUME NEW s \in Supplies PROVE Gross(s) >= 0
    <3>1. CASE s = <<0, 0>>
      BY <3>1, SupplyIs DEF OrderRows
    <3>2. CASE \E i \in DOMAIN order.lines : order.lines[i].parts = <<>> /\ s = <<i, 0>>
      <4>1. PICK i \in DOMAIN order.lines : s = <<i, 0>>
        BY <3>2
      <4>2. order.lines[i].final \in Nat
        BY LineIs DEF BillSound
      <4> QED BY <4>1, <4>2, SupplyIs
    <3>3. CASE \E i \in DOMAIN order.lines : \E g \in DOMAIN order.lines[i].parts : s = <<i, g>>
      <4>1. PICK i \in DOMAIN order.lines : \E g \in DOMAIN order.lines[i].parts : s = <<i, g>>
        BY <3>3
      <4>2. PICK g \in DOMAIN order.lines[i].parts : s = <<i, g>>
        BY <4>1
      <4>3. LineSound(i, order.lines[i]) /\ order.lines[i].parts # <<>>
        BY DEF BillSound
      <4>4. Split(order.lines[i].parts, order.lines[i].final)
        BY <4>3 DEF LineSound
      <4>5. Enough(order.lines[i].parts, order.lines[i].final)
        BY <1>16 DEF Roomy, Enough
      <4>6. order.lines[i].parts[g].amount >= 0
        BY <4>4, <4>5 DEF Split
      <4> QED BY <4>2, <4>6, SupplyIs
    <3> QED BY <3>1, <3>2, <3>3, SuppliesAre
  <2> QED BY <1>4, <1>73, <1>74, <1>11, <2>1
<1>17. ASSUME order.tax + order.shipTax > 0 PROVE DOMAIN rows # {}
  <2>1. SUFFICES ASSUME DOMAIN rows = {} PROVE FALSE
    OBVIOUS
  <2>2. TaxOf(rows) = 0
    BY <2>1, TotalOfNone DEF TaxOf
  <2> QED BY <1>12, <1>17, <2>2
<1>18. /\ DOMAIN rows \subseteq Percent
       /\ \A r \in DOMAIN rows : rows[r].tax >= 0
  <2>1. DOMAIN rows \subseteq Percent
    BY <1>3, <1>4
  <2>2. \A r \in DOMAIN rows : rows[r].tax >= 0
    BY <1>4, <1>11
  <2> QED BY <2>1, <2>2
<1> QED BY <1>12, <1>13, <1>14, <1>15, <1>16, <1>17, <1>18

-----------------------------------------------------------------------------
(***************************************************************************)
(* What is read from a bill stays while its lines and taxes do.            *)
(***************************************************************************)
SameBill ==
  /\ order'.lines = order.lines /\ order'.shipping = order.shipping
  /\ order'.shipTax = order.shipTax /\ order'.tax = order.tax

LEMMA SameSupplies ==
  ASSUME SameBill
  PROVE  /\ Supplies' = Supplies /\ HsnSupplies' = HsnSupplies
         /\ \A s : Gross(s)' = Gross(s) /\ RateOf(s)' = RateOf(s) /\ BilledTax(s)' = BilledTax(s)
                   /\ HsnOf(s)' = HsnOf(s) /\ Units(s)' = Units(s)
<1>1. Wholes' = Wholes
  BY DEF Wholes, SameBill
<1>2. Components' = Components
  BY DEF Components, SameBill
<1>3. Delivery' = Delivery
  BY DEF Delivery, SameBill
<1>4. Supplies' = Supplies
  BY <1>1, <1>2, <1>3 DEF Supplies
<1>10. HsnSupplies' = HsnSupplies
  BY <1>1, <1>2 DEF HsnSupplies, SameBill
<1>5. \A s : Gross(s)' = Gross(s)
  BY DEF Gross, SameBill
<1>6. \A s : RateOf(s)' = RateOf(s)
  BY DEF RateOf, SameBill
<1>7. \A s : BilledTax(s)' = BilledTax(s)
  BY DEF BilledTax, SameBill
<1>8. \A s : HsnOf(s)' = HsnOf(s)
  BY DEF HsnOf, SameBill
<1>9. \A s : Units(s)' = Units(s)
  BY DEF Units, SameBill
<1> QED BY <1>4, <1>5, <1>6, <1>7, <1>8, <1>9, <1>10

LEMMA SameBreakdown ==
  ASSUME SameBill
  PROVE  OrderTaxBreakdown' = OrderTaxBreakdown /\ GrossTotal' = GrossTotal
<1>1. GroupTaxByRate' = GroupTaxByRate
  BY SameSupplies DEF GroupTaxByRate
<1>2. OrderTaxBreakdown' = OrderTaxBreakdown
  BY <1>1 DEF OrderTaxBreakdown, SameBill
<1>3. GrossTotal' = GrossTotal
  BY SameSupplies DEF GrossTotal
<1> QED BY <1>2, <1>3

-----------------------------------------------------------------------------
(***************************************************************************)
(* The inductive invariant.                                                *)
(***************************************************************************)
BaseInv ==
  /\ shelf \in ShelfRows /\ home \in Places
  /\ month \in 1 .. MaxMonth /\ edits \in 0 .. MaxEdits

\* A quote is of the shelf as it is, and of no order yet.
QuoteInv ==
  quote # None =>
    LET sub  == Subtotal(quote.cart)
        off  == DiscountFor(quote.coupon, sub)
        free == quote.coupon # NoCoupon /\ off = sub
    IN  /\ order = None
        /\ quote.cart \in Carts /\ quote.coupon \in CouponRows
        /\ quote.subtotal = sub /\ quote.discount = off
        /\ quote.shipping \in Nat /\ quote.shipTax = ShippingTax(quote.shipping)
        /\ sub > 0 => quote.shipping = IF free THEN 0 ELSE Shipping(sub - off)
        /\ quote.total = sub - off + quote.shipping + quote.shipTax
        /\ quote.tax \in Nat
        /\ quote.coupon = NoCoupon => quote.tax = CartTax(quote.cart)
        /\ free => quote.tax = 0

BillInv == order # None => order \in OrderRows /\ BillSound(order)

\* The whole tax of the order, and its rows under the heads of the invoice.
Whole == order.tax + order.shipTax
Headed == SnapshotRows(OrderTaxBreakdown, invoice.interstate)

InvoiceInv ==
  /\ invoice # None =>
       /\ order # None
       /\ invoice.interstate \in BOOLEAN /\ invoice.month \in 1 .. month
       /\ invoice.rows = Headed
       /\ invoice.total = order.total /\ invoice.tax = Whole
       /\ DOMAIN invoice.lines = DOMAIN order.lines
       /\ \A i \in DOMAIN order.lines :
            invoice.lines[i].amount = order.lines[i].price * order.lines[i].count
       /\ invoice.subtotal = order.subtotal /\ invoice.discount = order.discount
       /\ invoice.shipping = order.shipping /\ invoice.shipTax = order.shipTax
       /\ invoice.place = order.place /\ invoice.seller \in Places
       /\ invoice.interstate = (invoice.place # invoice.seller)
  /\ order # None /\ order.payment # "pending" /\ order.total > 0 => invoice # None

RefundRows == [amount : Nat \ {0}, tax : Nat, month : Nat]

RefundInv ==
  /\ refunds \in Seq(RefundRows) /\ Len(refunds) <= MaxRefunds
  /\ \A k \in DOMAIN refunds : refunds[k].month \in 1 .. month
  /\ refunds # <<>> =>
       /\ order # None /\ order.payment = "refunded" /\ invoice # None
       /\ Refunded <= order.total /\ RefundedTax <= Whole
       /\ \A k \in DOMAIN refunds : /\ refunds[k].tax <= Whole
                                    /\ refunds[k].amount = order.total => refunds[k].tax = Whole

HeadRows == [taxable : Int, tax : Int, cgst : Int, sgst : Int, igst : Int]
SlabMaps == UNION {[D -> HeadRows] : D \in SUBSET Percent}
NoteRows == [reason : {"refund", "cancellation"}, month : Nat, amount : Nat \ {0}, tax : Nat, rows : SlabMaps]

\* Rows that show this tax, each with its heads, under one place of supply.
RowsSound(rows, tax, interstate) ==
  /\ TaxOf(rows) = tax
  /\ \A r \in DOMAIN rows :
       /\ Heads(rows[r]) = rows[r].tax
       /\ IF interstate THEN rows[r].cgst = 0 /\ rows[r].sgst = 0 ELSE rows[r].igst = 0

\* Each note is its refund's, worked out from the bill as it is.
ByRefund ==
  /\ Len(notes) = Len(refunds)
  /\ \A k \in DOMAIN notes : notes[k] = None \/ \E up \in BOOLEAN : notes[k] = NoteOf(refunds[k], up)

\* Or the order was cancelled with nothing paid, and one note reverses all.
ByCancel ==
  /\ refunds = <<>> /\ invoice # None
  /\ order.payment = "pending" /\ order.status = "cancelled"
  /\ Len(notes) = 1 /\ notes[1] \in NoteRows
  /\ notes[1].reason = "cancellation" /\ notes[1].month \in 1 .. month
  /\ notes[1].amount = invoice.total /\ notes[1].tax = invoice.tax
  /\ RowsSound(notes[1].rows, invoice.tax, invoice.interstate)
  /\ invoice.tax > 0 => notes[1].rows = invoice.rows

NoteInv ==
  /\ notes \in Seq(NoteRows \union {None})
  /\ ByRefund \/ ByCancel

MoneyInv == BaseInv /\ QuoteInv /\ BillInv /\ InvoiceInv /\ RefundInv /\ NoteInv

-----------------------------------------------------------------------------
(***************************************************************************)
(* Quotes.                                                                 *)
(***************************************************************************)
LEMMA SameShelf ==
  ASSUME shelf' = shelf
  PROVE  /\ \A c : Subtotal(c)' = Subtotal(c) /\ CartTax(c)' = CartTax(c)
         /\ \A c, i : LineTotal(c, i)' = LineTotal(c, i)
<1>1. \A c : Holds(c)' = Holds(c)
  BY DEF Holds
<1>2. \A c : Weights(c)' = Weights(c)
  BY <1>1 DEF Weights
<1>3. \A i : ListPrice(i)' = ListPrice(i)
  BY <1>2 DEF ListPrice
<1>4. \A i : UnitPrice(i)' = UnitPrice(i)
  BY <1>3 DEF UnitPrice
<1>5. \A c, i : LineTotal(c, i)' = LineTotal(c, i)
  BY <1>4 DEF LineTotal
<1>6. \A c : Subtotal(c)' = Subtotal(c)
  BY <1>5 DEF Subtotal
<1>7. \A c, a, n : Parts(c, a, n)' = Parts(c, a, n)
  BY <1>2 DEF Parts
<1>8. \A c : CartTax(c)' = CartTax(c)
  BY <1>5, <1>7 DEF CartTax
<1> QED BY <1>5, <1>6, <1>8

LEMMA QuoteKept ==
  ASSUME QuoteInv, shelf' = shelf, quote' = quote, quote # None => order' = order
  PROVE  QuoteInv'
<1>1. CASE quote = None
  BY <1>1 DEF QuoteInv, None
<1>2. CASE quote # None
  <2> DEFINE c == quote.cart
  <2>1. Subtotal(c)' = Subtotal(c) /\ CartTax(c)' = CartTax(c)
    BY SameShelf
  <2>2. quote' = quote /\ order' = order
    BY <1>2
  <2> QED BY <1>2, <2>1, <2>2 DEF QuoteInv
<1> QED BY <1>1, <1>2

LEMMA NoQuote ==
  ASSUME quote' = None
  PROVE  QuoteInv'
BY DEF QuoteInv, None

LEMMA CartTaxIsNat ==
  ASSUME shelf \in ShelfRows, NEW cart \in Carts
  PROVE  CartTax(cart) \in Nat
<1> DEFINE D == Lines(cart)
           f == [i \in D |->
                  IF i \in Goods THEN ExtractTax(LineTotal(cart, i), shelf.rate[i])
                  ELSE PartsTax(Parts(i, LineTotal(cart, i), cart[i]))]
<1>1. IsFiniteSet(D) /\ D \subseteq Items /\ \A i \in D : cart[i] \in Nat \ {0} /\ LineTotal(cart, i) \in Nat
  BY CartLines
<1>2. ASSUME NEW i \in D PROVE f[i] \in Nat
  <2>1. LineTotal(cart, i) \in Int /\ cart[i] \in Nat
    BY <1>1
  <2>2. CASE i \in Goods
    <3>1. f[i] = ExtractTax(LineTotal(cart, i), shelf.rate[i]) /\ shelf.rate[i] \in Percent
      BY <2>2, ShelfHas
    <3> HIDE DEF f
    <3> QED BY <2>1, <3>1, TaxIsWithin
  <2>3. CASE i \notin Goods
    <3>1. f[i] = PartsTax(Parts(i, LineTotal(cart, i), cart[i])) /\ i \in Combos
      BY <1>1, <2>3, ItemsAre
    <3>2. Parts(i, LineTotal(cart, i), cart[i]) \in PartMaps
      BY <2>1, <3>1, PartsAre
    <3> HIDE DEF f
    <3> QED BY <3>1, <3>2, PartMapsAre
  <2> QED BY <2>2, <2>3
<1>3. DOMAIN f = D
  OBVIOUS
<1> HIDE DEF f, D
<1>4. Total(f) \in Nat
  BY <1>1, <1>2, <1>3, TotalIsNat
<1> QED BY <1>4 DEF CartTax, f, D

LEMMA PreviewTaxIsNat ==
  ASSUME shelf \in ShelfRows, NEW cart \in Carts, NEW off \in 0 .. Subtotal(cart), NEW up
  PROVE  ComputeCartTax(cart, Cuts(cart, off, up)) \in Nat
<1> DEFINE D == Lines(cart)
           cuts == Cuts(cart, off, up)
           f == [i \in D |-> QuotedTax(i, LineTotal(cart, i) - cuts[i])]
<1>1. IsFiniteSet(D) /\ D \subseteq Items /\ \A i \in D : LineTotal(cart, i) \in Nat
  BY CartLines
<1>2. \A i \in D : cuts[i] \in 0 .. LineTotal(cart, i)
  BY CutsAre
<1> HIDE DEF cuts
<1>3. ASSUME NEW i \in D PROVE f[i] \in Nat
  <2> DEFINE a == LineTotal(cart, i) - cuts[i]
  <2>1. a \in Int
    BY <1>1, <1>2
  <2>2. f[i] = QuotedTax(i, a)
    OBVIOUS
  <2> HIDE DEF a, f
  <2>3. CASE i \in Goods
    <3>1. shelf.rate[i] \in Percent
      BY <2>3, ShelfHas
    <3>2. ExtractTax(a, shelf.rate[i]) \in Nat
      BY <2>1, <3>1, TaxIsWithin
    <3>3. QuotedTax(i, a) = ExtractTax(a, shelf.rate[i])
      BY <1>1, <2>3, ItemsAre DEF QuotedTax
    <3> QED BY <2>2, <3>2, <3>3
  <2>4. CASE i \notin Goods
    <3>1. i \in Combos
      BY <1>1, <2>4, ItemsAre
    <3>2. Parts(i, a, 1) \in PartMaps
      BY <2>1, <3>1, PartsAre
    <3>3. PartsTax(Parts(i, a, 1)) \in Nat
      BY <3>2, PartMapsAre
    <3>4. ExtractTax(a, DefaultRate) \in Nat
      BY <2>1, ShippingIs, TaxIsWithin
    <3>5. QuotedTax(i, a) = IF Holds(i) = {} THEN ExtractTax(a, DefaultRate) ELSE PartsTax(Parts(i, a, 1))
      BY <2>4, <3>1 DEF QuotedTax
    <3> QED BY <2>2, <3>3, <3>4, <3>5
  <2> QED BY <2>3, <2>4
<1>4. DOMAIN f = D
  OBVIOUS
<1>5. ComputeCartTax(cart, cuts) = Total(f)
  BY DEF ComputeCartTax
<1> HIDE DEF f, D
<1>6. Total(f) \in Nat
  BY <1>1, <1>3, <1>4, TotalIsNat
<1> QED BY <1>5, <1>6 DEF cuts

LEMMA NoCouponIs ==
  /\ NoCoupon \in CouponRows /\ Coupons \subseteq CouponRows
  /\ \A x : DiscountFor(NoCoupon, x) = 0
<1>1. Coupons \subseteq CouponRows
  BY PricingAssumption
<1> QED BY <1>1 DEF NoCoupon, CouponRows, DiscountFor

LEMMA NewQuote ==
  ASSUME shelf \in ShelfRows, NEW cart \in Carts, NEW coupon \in CouponRows, NEW off, NEW fee \in Nat, NEW tax \in Nat,
         Quote(cart, coupon, off, fee, tax),
         off = DiscountFor(coupon, Subtotal(cart)),
         Subtotal(cart) > 0 => fee = IF coupon # NoCoupon /\ off = Subtotal(cart) THEN 0 ELSE Shipping(Subtotal(cart) - off),
         coupon = NoCoupon => tax = CartTax(cart),
         coupon # NoCoupon /\ off = Subtotal(cart) => tax = 0
  PROVE  QuoteInv'
<1>1. /\ order' = None /\ shelf' = shelf
      /\ quote' = [cart |-> cart, coupon |-> coupon, subtotal |-> Subtotal(cart), discount |-> off,
               shipping |-> fee, shipTax |-> ShippingTax(fee), tax |-> tax,
               total |-> Subtotal(cart) - off + fee + ShippingTax(fee)]
  BY DEF Quote
<1>2. Subtotal(cart)' = Subtotal(cart) /\ CartTax(cart)' = CartTax(cart)
  BY <1>1, SameShelf
<1>3. /\ quote'.cart = cart /\ quote'.coupon = coupon /\ quote'.subtotal = Subtotal(cart) /\ quote'.discount = off
      /\ quote'.shipping = fee /\ quote'.shipTax = ShippingTax(fee) /\ quote'.tax = tax
      /\ quote'.total = Subtotal(cart) - off + fee + ShippingTax(fee)
  BY <1>1
<1> QED BY <1>1, <1>2, <1>3 DEF QuoteInv

LEMMA ViewCartQuotes ==
  ASSUME shelf \in ShelfRows, NEW cart \in Carts, ViewCart(cart)
  PROVE  QuoteInv'
<1> DEFINE sub == Subtotal(cart)
           fee == IF sub = 0 THEN 0 ELSE Shipping(sub)
<1>1. sub \in Nat
  BY CartLines
<1>2. fee \in Nat
  BY <1>1, ShippingIs
<1>3. Quote(cart, NoCoupon, 0, fee, CartTax(cart))
  BY DEF ViewCart
<1>4. sub > 0 => fee = Shipping(sub - 0)
  BY <1>1
<1>5. CartTax(cart) \in Nat
  BY CartTaxIsNat
<1> HIDE DEF fee
<1> QED BY <1>2, <1>3, <1>4, <1>5, NoCouponIs, NewQuote DEF sub

LEMMA CouponQuotes ==
  ASSUME shelf \in ShelfRows, NEW cart \in Carts, NEW coupon \in Coupons, NEW up, ValidateCoupon(cart, coupon, up)
  PROVE  QuoteInv'
<1> DEFINE sub == Subtotal(cart)
           off == DiscountFor(coupon, sub)
           free == sub <= off
           fee == IF free THEN 0 ELSE Shipping(sub - off)
           tax == IF free THEN 0 ELSE ComputeCartTax(cart, Cuts(cart, off, up))
<1>1. sub \in Nat /\ off \in 0 .. sub
  BY CartLines, DiscountIs
<1>2. fee \in Nat
  BY <1>1, ShippingIs
<1>3. tax \in Nat
  BY <1>1, PreviewTaxIsNat
<1>4. coupon # NoCoupon /\ Quote(cart, coupon, off, fee, tax)
  BY DEF ValidateCoupon
<1>5. free <=> off = sub
  BY <1>1
<1>6. fee = IF coupon # NoCoupon /\ off = sub THEN 0 ELSE Shipping(sub - off)
  BY <1>4, <1>5
<1>7. coupon # NoCoupon /\ off = sub => tax = 0
  BY <1>5
<1> HIDE DEF fee, tax, free
<1> QED BY <1>2, <1>3, <1>4, <1>6, <1>7, NoCouponIs, NewQuote DEF sub, off

-----------------------------------------------------------------------------
(***************************************************************************)
(* The shelf, the shop and the calendar; quotes step by step.              *)
(***************************************************************************)
LEMMA EditKeepsShelf ==
  ASSUME BaseInv, EditShelf
  PROVE  BaseInv' /\ quote' = None /\ order' = order /\ invoice' = invoice /\ refunds' = refunds
         /\ notes' = notes /\ month' = month /\ home' = home
<1>1. shelf \in ShelfRows
  BY DEF BaseInv
<1>2. \A g \in Goods, r \in Rates : [shelf EXCEPT !.rate[g] = r] \in ShelfRows
  <2>1. Rates \subseteq Percent
    BY PricingAssumption
  <2> QED BY <1>1, <2>1 DEF ShelfRows
<1>3. \A g \in Goods, p \in Prices : [shelf EXCEPT !.mrp[g] = p] \in ShelfRows
  <2>1. Prices \subseteq Nat
    BY PricingAssumption
  <2> QED BY <1>1, <2>1 DEF ShelfRows
<1>4. \A g \in Goods, h \in Headings : [shelf EXCEPT !.hsn[g] = h] \in ShelfRows
  <2>1. Headings \subseteq STRING
    BY PricingAssumption
  <2> QED BY <1>1, <2>1 DEF ShelfRows
<1>5. \A c \in Combos, r \in Recipes : [shelf EXCEPT !.recipe[c] = r] \in ShelfRows
  <2>1. Recipes \subseteq [Goods -> Nat]
    BY PricingAssumption
  <2> QED BY <1>1, <2>1 DEF ShelfRows
<1>6. PICK changed \in ShelfRows : Edit(changed)
  BY <1>2, <1>3, <1>4, <1>5 DEF EditShelf
<1>7. MaxEdits \in Nat
  BY PricingAssumption
<1> QED BY <1>6, <1>7 DEF Edit, BaseInv

LEMMA BaseStep ==
  ASSUME BaseInv, [Next]_vars
  PROVE  BaseInv'
<1>1. CASE EditShelf
  BY <1>1, EditKeepsShelf
<1>2. CASE \E place \in Places : SetPlace(place) \/ SellerMoves(place)
  <2>1. PICK place \in Places : SetPlace(place) \/ SellerMoves(place)
    BY <1>2
  <2>2. MaxEdits \in Nat
    BY PricingAssumption
  <2> QED BY <2>1, <2>2 DEF SetPlace, SellerMoves, BaseInv
<1>3. CASE NextMonth
  <2>1. MaxMonth \in Nat \ {0}
    BY PricingAssumption
  <2> QED BY <1>3, <2>1 DEF NextMonth, BaseInv
<1>4. CASE UNCHANGED <<shelf, home, month, edits>>
  BY <1>4 DEF BaseInv
<1>5. CASE UNCHANGED vars
  BY <1>5 DEF vars, BaseInv
<1>6. CASE \E cart \in Carts : ViewCart(cart)
  BY <1>4, <1>6 DEF ViewCart, Quote
<1>7. CASE \E cart \in Carts, coupon \in Coupons : \E up \in Tilts(Lines(cart)) : ValidateCoupon(cart, coupon, up)
  BY <1>4, <1>7 DEF ValidateCoupon, Quote
<1>8. CASE \E cart \in Carts, coupon \in Coupons, place \in Places \union {"nowhere"} :
             \E up \in Tilts(Lines(cart)) : CreateOrder(cart, coupon, place, up)
  BY <1>4, <1>8 DEF CreateOrder
<1>9. CASE Pay \/ Dispatch
  BY <1>4, <1>9 DEF Pay, Dispatch
<1>10. CASE \E asked \in RefundAmounts, up, noted \in BOOLEAN : RecordRefund(asked, up, noted)
  BY <1>4, <1>10 DEF RecordRefund
<1>11. CASE \E k \in DOMAIN notes, up \in BOOLEAN : BackfillNote(k, up)
  BY <1>4, <1>11 DEF BackfillNote
<1>12. CASE \E up \in BOOLEAN : Cancel(up)
  BY <1>4, <1>12 DEF Cancel
<1> QED BY <1>1, <1>2, <1>3, <1>5, <1>6, <1>7, <1>8, <1>9, <1>10, <1>11, <1>12 DEF Next

\* Every step but these leaves what quotes are made of.
Quoting ==
  \/ \E cart \in Carts : ViewCart(cart)
  \/ \E cart \in Carts, coupon \in Coupons : \E up \in Tilts(Lines(cart)) : ValidateCoupon(cart, coupon, up)
Ordering ==
  \E cart \in Carts, coupon \in Coupons, place \in Places \union {"nowhere"} :
    \E up \in Tilts(Lines(cart)) : CreateOrder(cart, coupon, place, up)
Refunding == \E asked \in RefundAmounts, up, noted \in BOOLEAN : RecordRefund(asked, up, noted)
Backfilling == \E k \in DOMAIN notes, up \in BOOLEAN : BackfillNote(k, up)
Cancelling == \E up \in BOOLEAN : Cancel(up)
Placing == \E place \in Places : SetPlace(place)
Moving == \E place \in Places : SellerMoves(place)

LEMMA NextIs ==
  ASSUME [Next]_vars
  PROVE  \/ Quoting \/ Ordering \/ Pay \/ Dispatch \/ Refunding \/ Backfilling \/ Cancelling
         \/ EditShelf \/ Placing \/ Moving \/ NextMonth \/ UNCHANGED vars
<1>1. CASE UNCHANGED vars
  BY <1>1
<1>2. CASE Next
  BY <1>2, Zenon DEF Next, Quoting, Ordering, Refunding, Backfilling, Cancelling, Placing, Moving
<1> QED BY <1>1, <1>2

LEMMA QuoteStep ==
  ASSUME BaseInv, QuoteInv, [Next]_vars
  PROVE  QuoteInv'
<1>1. shelf \in ShelfRows
  BY DEF BaseInv
<1>2. CASE Quoting
  BY <1>1, <1>2, ViewCartQuotes, CouponQuotes DEF Quoting
<1>3. CASE Ordering
  BY <1>3, NoQuote DEF Ordering, CreateOrder
<1>4. CASE EditShelf
  BY <1>4, NoQuote, EditKeepsShelf
<1>5. quote # None => order = None
  BY DEF QuoteInv
<1>6. CASE shelf' = shelf /\ quote' = quote /\ (order # None \/ order' = order)
  BY <1>5, <1>6, QuoteKept
<1>7. CASE Pay \/ Dispatch
  BY <1>6, <1>7 DEF Pay, Dispatch
<1>8. CASE Refunding
  BY <1>6, <1>8 DEF Refunding, RecordRefund
<1>9. CASE Backfilling
  BY <1>6, <1>9 DEF Backfilling, BackfillNote
<1>10. CASE Cancelling
  BY <1>6, <1>10 DEF Cancelling, Cancel
<1>11. CASE Placing \/ Moving
  BY <1>6, <1>11 DEF Placing, Moving, SetPlace, SellerMoves
<1>12. CASE NextMonth
  BY <1>6, <1>12 DEF NextMonth
<1>13. CASE UNCHANGED vars
  BY <1>6, <1>13 DEF vars
<1> QED BY <1>2, <1>3, <1>4, <1>7, <1>8, <1>9, <1>10, <1>11, <1>12, <1>13, NextIs

-----------------------------------------------------------------------------
(***************************************************************************)
(* Refunds.                                                                *)
(***************************************************************************)
LEMMA UpToIsFinite ==
  ASSUME NEW n \in Nat
  PROVE  IsFiniteSet(1 .. n)
BY FS_Interval

LEMMA LesserOf ==
  ASSUME NEW a \in Int, NEW b \in Int
  PROVE  Min({a, b}) = IF a <= b THEN a ELSE b
<1> DEFINE m == IF a <= b THEN a ELSE b
<1>1. m \in {a, b} /\ \A y \in {a, b} : m <= y
  OBVIOUS
<1>2. \A x \in {a, b} : (\A y \in {a, b} : x <= y) => x = m
  OBVIOUS
<1> HIDE DEF m
<1>3. Min({a, b}) = m
  BY <1>1, <1>2 DEF Min
<1> QED BY <1>3 DEF m

LEMMA GreaterOf ==
  ASSUME NEW a \in Int, NEW b \in Int
  PROVE  Max({a, b}) = IF a >= b THEN a ELSE b
<1> DEFINE m == IF a >= b THEN a ELSE b
<1>1. m \in {a, b} /\ \A y \in {a, b} : m >= y
  OBVIOUS
<1>2. \A x \in {a, b} : (\A y \in {a, b} : x >= y) => x = m
  OBVIOUS
<1> HIDE DEF m
<1>3. Max({a, b}) = m
  BY <1>1, <1>2 DEF Max
<1> QED BY <1>3 DEF m

LEMMA TotalAppended ==
  ASSUME NEW n \in Nat, NEW f, DOMAIN f = 1 .. n, \A k \in 1 .. n : f[k] \in Int,
         NEW g, DOMAIN g = 1 .. n + 1, \A k \in 1 .. n : g[k] = f[k], g[n + 1] \in Int
  PROVE  Total(g) = Total(f) + g[n + 1]
<1> DEFINE h == [k \in {n + 1} |-> g[k]]
<1>1. /\ 1 .. n \in SUBSET (1 .. n + 1) /\ (1 .. n + 1) \ (1 .. n) = {n + 1}
  OBVIOUS
<1>2. IsFiniteSet(1 .. n + 1)
  <2>1. n + 1 \in Nat
    OBVIOUS
  <2> QED BY <2>1, UpToIsFinite
<1>3. \A k \in 1 .. n + 1 : g[k] \in Int
  <2> SUFFICES ASSUME NEW k \in 1 .. n + 1 PROVE g[k] \in Int
    OBVIOUS
  <2>1. k \in 1 .. n \/ k = n + 1
    OBVIOUS
  <2> QED BY <2>1
<1>4. Amounts(g)
  BY <1>2, <1>3 DEF Amounts
<1>5. DOMAIN h = {n + 1} /\ h[n + 1] = g[n + 1]
  OBVIOUS
<1> HIDE DEF h
<1>6. Total(g) = Total(f) + Total(h)
  <2> DEFINE A == 1 .. n
  <2>1. /\ A \in SUBSET DOMAIN g /\ DOMAIN f = A /\ \A x \in A : f[x] = g[x]
        /\ DOMAIN h = DOMAIN g \ A /\ \A x \in DOMAIN g \ A : h[x] = g[x]
    BY <1>1, <1>5
  <2>2. /\ A \in SUBSET DOMAIN g /\ DOMAIN f = A
        /\ DOMAIN h = DOMAIN g \ A
    BY <2>1
  <2>3. \A x \in A : f[x] = g[x]
    BY <2>1
  <2>4. \A x \in DOMAIN g \ A : h[x] = g[x]
    BY <2>1
  <2> HIDE DEF A
  <2> QED BY ONLY <1>4, <2>2, <2>3, <2>4, TotalInParts
<1>7. Total(h) = g[n + 1]
  BY <1>5, SumOfSingle, TotalIs
<1> QED BY <1>6, <1>7

LEMMA RefundsAre ==
  ASSUME refunds \in Seq(RefundRows)
  PROVE  /\ Refunded \in Nat /\ RefundedTax \in Nat
         /\ refunds = <<>> => Refunded = 0 /\ RefundedTax = 0
         /\ Refunded = 0 => refunds = <<>>
         /\ Len(refunds) \in Nat /\ DOMAIN refunds = 1 .. Len(refunds)
         /\ \A k \in DOMAIN refunds : refunds[k] \in RefundRows
<1> DEFINE D == DOMAIN refunds
           f == [k \in DOMAIN refunds |-> refunds[k].amount]
           t == [k \in DOMAIN refunds |-> refunds[k].tax]
<1>1. Len(refunds) \in Nat /\ DOMAIN refunds = 1 .. Len(refunds) /\ \A k \in DOMAIN refunds : refunds[k] \in RefundRows
  OBVIOUS
<1>2. IsFiniteSet(D)
  BY <1>1, UpToIsFinite
<1>3. /\ DOMAIN f = D /\ DOMAIN t = D
      /\ \A k \in D : f[k] \in Nat /\ f[k] > 0 /\ t[k] \in Nat
  BY <1>1 DEF RefundRows
<1>4. Refunded = Total(f) /\ RefundedTax = Total(t)
  BY DEF Refunded, RefundedTax
<1>5. refunds = <<>> <=> D = {}
  <2>1. refunds # <<>> => Len(refunds) # 0
    BY EmptySeq
  <2>2. Len(refunds) # 0 => 1 \in 1 .. Len(refunds)
    BY <1>1
  <2>3. refunds = <<>> => D = {}
    OBVIOUS
  <2> QED BY <1>1, <2>1, <2>2, <2>3
<1> HIDE DEF f, t, D
<1>6. Total(f) \in Nat /\ Total(t) \in Nat
  BY <1>2, <1>3, TotalIsNat
<1>7. D = {} => Total(f) = 0 /\ Total(t) = 0
  BY <1>3, TotalOfNone
<1>8. ASSUME D # {} PROVE Total(f) > 0
  <2> DEFINE o == [k \in D |-> 1]
  <2>1. DOMAIN o = D /\ \A k \in D : o[k] = 1
    OBVIOUS
  <2> HIDE DEF o
  <2>2. Amounts(f) /\ Amounts(o)
    BY <1>2, <1>3, <2>1 DEF Amounts
  <2>3. \A k \in D : o[k] <= f[k]
    BY <1>3, <2>1
  <2>4. Total(o) <= Total(f)
    BY <1>3, <2>1, <2>2, <2>3, TotalBelow
  <2>5. Total(o) = Cardinality(D)
    BY <1>2, <2>1, TotalOfOnes
  <2>6. Cardinality(D) \in Nat /\ Cardinality(D) # 0
    BY <1>2, <1>8, FS_CardinalityType, FS_EmptySet
  <2> QED BY <1>6, <2>4, <2>5, <2>6
<1> QED BY <1>1, <1>4, <1>5, <1>6, <1>7, <1>8

LEMMA RefundAppended ==
  ASSUME refunds \in Seq(RefundRows), NEW r \in RefundRows, refunds' = Append(refunds, r)
  PROVE  /\ refunds' \in Seq(RefundRows) /\ Len(refunds') = Len(refunds) + 1
         /\ \A k \in DOMAIN refunds : refunds'[k] = refunds[k]
         /\ refunds'[Len(refunds) + 1] = r /\ refunds' # <<>>
         /\ DOMAIN refunds' = DOMAIN refunds \union {Len(refunds) + 1}
         /\ Refunded' = Refunded + r.amount /\ RefundedTax' = RefundedTax + r.tax
<1> DEFINE n == Len(refunds)
           f == [k \in DOMAIN refunds |-> refunds[k].amount]
           t == [k \in DOMAIN refunds |-> refunds[k].tax]
           g == [k \in DOMAIN refunds' |-> refunds'[k].amount]
           u == [k \in DOMAIN refunds' |-> refunds'[k].tax]
<1>1. /\ n \in Nat /\ DOMAIN refunds = 1 .. n /\ \A k \in 1 .. n : refunds[k] \in RefundRows
      /\ refunds' \in Seq(RefundRows) /\ Len(refunds') = n + 1
      /\ DOMAIN refunds' = 1 .. n + 1
      /\ \A k \in 1 .. n : refunds'[k] = refunds[k]
      /\ refunds'[n + 1] = r
  OBVIOUS
<1>2. /\ DOMAIN f = 1 .. n /\ DOMAIN t = 1 .. n /\ DOMAIN g = 1 .. n + 1 /\ DOMAIN u = 1 .. n + 1
      /\ \A k \in 1 .. n : f[k] \in Int /\ t[k] \in Int /\ g[k] = f[k] /\ u[k] = t[k]
      /\ g[n + 1] = r.amount /\ u[n + 1] = r.tax /\ r.amount \in Int /\ r.tax \in Int
  BY <1>1 DEF RefundRows
<1>3. Refunded = Total(f) /\ RefundedTax = Total(t) /\ Refunded' = Total(g) /\ RefundedTax' = Total(u)
  BY DEF Refunded, RefundedTax
<1> HIDE DEF f, t, g, u
<1>4. Total(g) = Total(f) + g[n + 1]
  <2>1. n \in Nat /\ g[n + 1] \in Int
    BY <1>1, <1>2
  <2> QED BY ONLY <1>2, <2>1, TotalAppended
<1>5. Total(u) = Total(t) + u[n + 1]
  <2>1. n \in Nat /\ u[n + 1] \in Int
    BY <1>1, <1>2
  <2> QED BY ONLY <1>2, <2>1, TotalAppended
<1>6. refunds' # <<>>
  BY <1>1
<1>7. 1 .. n + 1 = 1 .. n \union {n + 1}
  BY <1>1
<1> QED BY <1>1, <1>2, <1>3, <1>4, <1>5, <1>6, <1>7

(* A bill whose goods cost nothing has no tax on them.                     *)
LEMMA FreeGoodsUntaxed ==
  ASSUME order \in OrderRows, BillSound(order), order.discount = order.subtotal
  PROVE  order.tax = 0
<1> DEFINE D == DOMAIN order.lines
           f == [i \in D |-> order.lines[i].final]
           t == [i \in D |-> order.lines[i].tax]
<1>1. IsFiniteSet(D) /\ order.subtotal \in Nat
  BY SuppliesAre DEF OrderRows
<1>2. \A i \in D : LineSound(i, order.lines[i])
  BY DEF BillSound
<1>3. \A i \in D : f[i] \in Nat
  BY <1>2, LineIs
<1>4. Total(f) = 0
  BY <1>1 DEF BillSound, FinalOf
<1>5. ASSUME NEW i \in D PROVE f[i] = 0
  <2> DEFINE o == [x \in {i} |-> f[x]]
             h == [x \in D \ {i} |-> f[x]]
  <2>1. /\ DOMAIN o = {i} /\ \A x \in {i} : o[x] = f[x]
        /\ DOMAIN h = D \ {i} /\ \A x \in D \ {i} : h[x] = f[x]
        /\ DOMAIN f = D /\ {i} \in SUBSET D
    OBVIOUS
  <2>2. o[i] = f[i]
    OBVIOUS
  <2>3. IsFiniteSet(D \ {i})
    BY <1>1, FS_Subset
  <2> HIDE DEF o, h, f, D
  <2>4. Amounts(f)
    BY <1>1, <1>3, <2>1 DEF Amounts
  <2>5. Total(f) = Total(o) + Total(h)
    BY <2>1, <2>4, TotalInParts
  <2>6. Total(h) \in Nat
    BY <1>3, <2>1, <2>3, TotalIsNat
  <2>7. Total(o) = f[i]
    BY <1>3, <2>1, <2>2, SumOfSingle, TotalIs
  <2> QED BY <1>3, <1>4, <2>5, <2>6, <2>7
<1>6. \A i \in D : t[i] = 0
  <2> TAKE i \in D
  <2>1. order.lines[i].final = 0
    BY <1>5
  <2>2. order.lines[i].parts = <<>>
    BY <1>2, <2>1 DEF LineSound
  <2>3. order.lines[i].rate \in Percent /\ order.lines[i].tax = ExtractTax(0, order.lines[i].rate)
    BY <1>2, <2>1, <2>2 DEF LineSound
  <2>4. ExtractTax(0, order.lines[i].rate) = 0
    BY <2>3, TaxIsWithin
  <2> QED BY <2>3, <2>4
<1>7. order.tax = Total(t)
  BY DEF BillSound, TaxOn
<1>8. DOMAIN t = D
  OBVIOUS
<1> HIDE DEF t, D
<1>9. Total(t) = 0
  BY <1>1, <1>6, <1>8, TotalOfZeros
<1> QED BY <1>7, <1>9

(* What goes back takes its share of the tax, never more than is left, and *)
(* all of it when everything goes back at once.                            *)
LEMMA RefundTaxIs ==
  ASSUME order \in OrderRows, BillSound(order), NEW amount \in Nat \ {0}, amount <= order.total,
         RefundedTax \in Nat, RefundedTax <= Whole
  PROVE  /\ RefundTaxFor(amount) \in Nat /\ RefundTaxFor(amount) <= Whole - RefundedTax
         /\ amount = order.total /\ RefundedTax = 0 => RefundTaxFor(amount) = Whole
<1> DEFINE goods == order.subtotal - order.discount
           lesser(a, b) == IF a <= b THEN a ELSE b
           back == Min({amount, goods})
           gross == order.shipping + order.shipTax
           over == Max({amount - goods, 0})
           beyond == Min({over, gross})
           pn == order.tax * back
           fn == order.shipTax * beyond
           part == IF goods > 0 THEN HalfUp(pn, goods) ELSE 0
           fee == IF order.shipTax > 0 THEN HalfUp(fn, gross) ELSE 0
           left == order.tax + order.shipTax - RefundedTax
           least == Min({part + fee, left})
<1>1. /\ order.subtotal \in Nat /\ order.discount \in Nat /\ order.shipping \in Nat /\ order.shipTax \in Nat
      /\ order.tax \in Nat /\ order.discount <= order.subtotal
      /\ order.total = order.subtotal - order.discount + order.shipping + order.shipTax
  BY DEF OrderRows, BillSound
<1>2. /\ goods \in Nat /\ gross \in Nat /\ left \in Nat /\ order.total = goods + gross /\ left = Whole - RefundedTax
      /\ order.tax \in Nat /\ order.shipTax \in Nat /\ Whole = order.tax + order.shipTax
      /\ order.shipTax > 0 => gross > 0
  BY <1>1 DEF Whole
<1>3. RefundTaxFor(amount) = Max({0, least})
  BY DEF RefundTaxFor
<1>4. goods = 0 => order.tax = 0
  BY <1>1, FreeGoodsUntaxed
<1> HIDE DEF goods, gross, left
<1>5. back \in Nat /\ (amount >= goods => back = goods)
  <2>1. back = IF amount <= goods THEN amount ELSE goods
    BY <1>2, LesserOf
  <2> QED BY <1>2, <2>1
<1>6. over \in Nat /\ (amount >= goods => over = amount - goods)
  <2>1. over = IF amount - goods >= 0 THEN amount - goods ELSE 0
    BY <1>2, GreaterOf
  <2> QED BY <1>2, <2>1
<1> HIDE DEF back, over
<1>7. beyond \in Nat /\ (over = gross => beyond = gross)
  <2>1. beyond = IF over <= gross THEN over ELSE gross
    BY <1>2, <1>6, LesserOf
  <2> QED BY <1>2, <1>6, <2>1
<1> HIDE DEF beyond
<1>8. pn \in Nat /\ fn \in Nat /\ (back = goods => pn = goods * order.tax) /\ (beyond = gross => fn = gross * order.shipTax)
  BY <1>2, <1>5, <1>7
<1> HIDE DEF pn, fn
<1>9. part \in Nat /\ (back = goods => part = order.tax)
  <2>1. CASE goods > 0
    <3>1. part = HalfUp(pn, goods) /\ goods \in Nat \ {0} /\ pn \in Int
      BY <1>2, <1>8, <2>1
    <3> HIDE DEF part
    <3>2. part \in Int /\ Near(part, pn, goods)
      BY <3>1, HalfUpIs
    <3>3. part \in Nat
      BY <1>8, <3>1, <3>2, NearNothing
    <3>4. ASSUME back = goods PROVE part = order.tax
      <4>1. Near(part, goods * order.tax, goods) /\ order.tax \in Int
        BY <1>2, <1>8, <3>2, <3>4
      <4> QED BY <3>1, <3>2, <4>1, NearWhole
    <3> QED BY <3>3, <3>4
  <2>2. CASE ~(goods > 0)
    BY <1>2, <1>4, <2>2
  <2> QED BY <2>1, <2>2
<1>10. fee \in Nat /\ (beyond = gross => fee = order.shipTax)
  <2>1. CASE order.shipTax > 0
    <3>1. fee = HalfUp(fn, gross) /\ gross \in Nat \ {0} /\ fn \in Int
      BY <1>2, <1>8, <2>1
    <3> HIDE DEF fee
    <3>2. fee \in Int /\ Near(fee, fn, gross)
      BY <3>1, HalfUpIs
    <3>3. fee \in Nat
      BY <1>8, <3>1, <3>2, NearNothing
    <3>4. ASSUME beyond = gross PROVE fee = order.shipTax
      <4>1. Near(fee, gross * order.shipTax, gross) /\ order.shipTax \in Int
        BY <1>2, <1>8, <3>2, <3>4
      <4> QED BY <3>1, <3>2, <4>1, NearWhole
    <3> QED BY <3>3, <3>4
  <2>2. CASE ~(order.shipTax > 0)
    BY <1>2, <2>2
  <2> QED BY <2>1, <2>2
<1> HIDE DEF part, fee
<1>11. least = (IF part + fee <= left THEN part + fee ELSE left)
  BY <1>2, <1>9, <1>10, LesserOf
<1> HIDE DEF least
<1>12. least \in Nat /\ least <= left
  BY <1>2, <1>9, <1>10, <1>11
<1>13. Max({0, least}) = least
  <2>1. Max({least, 0}) = IF least >= 0 THEN least ELSE 0
    BY <1>12, GreaterOf
  <2>2. {0, least} = {least, 0}
    OBVIOUS
  <2> QED BY <1>12, <2>1, <2>2
<1>14. ASSUME amount = order.total, RefundedTax = 0 PROVE least = Whole
  <2>1. amount >= goods /\ amount - goods = gross
    BY <1>2, <1>14
  <2>2. back = goods /\ beyond = gross
    BY <1>5, <1>6, <1>7, <2>1
  <2>3. part + fee = Whole /\ left = Whole
    BY <1>2, <1>9, <1>10, <1>14, <2>2
  <2> QED BY <1>2, <1>11, <2>3
<1> QED BY <1>2, <1>3, <1>12, <1>13, <1>14

-----------------------------------------------------------------------------
(***************************************************************************)
(* Documents: rows with their heads, and the notes made of them.           *)
(***************************************************************************)
LEMMA PercentIs == Percent \subseteq Nat /\ 0 \in Percent
BY DEF Percent

LEMMA SnapshotFits ==
  ASSUME NEW rows, Slabs(rows), DOMAIN rows \subseteq Percent, NEW interstate
  PROVE  /\ SnapshotRows(rows, interstate) \in SlabMaps
         /\ RowsSound(SnapshotRows(rows, interstate), TaxOf(rows), interstate)
<1> DEFINE s == SnapshotRows(rows, interstate)
           D == DOMAIN rows
<1>1. /\ DOMAIN s = D /\ TaxOf(s) = TaxOf(rows)
      /\ \A r \in D : /\ HeadedRow(s[r])
                      /\ IF interstate THEN s[r].cgst = 0 /\ s[r].sgst = 0 /\ s[r].igst = rows[r].tax
                         ELSE s[r].igst = 0
  BY SnapshotIs
<1>2. \A r \in D : s[r] = [taxable |-> s[r].taxable, tax |-> s[r].tax,
                           cgst |-> s[r].cgst, sgst |-> s[r].sgst, igst |-> s[r].igst]
  BY DEF SnapshotRows
<1>3. s = [r \in D |-> s[r]]
  BY DEF SnapshotRows
<1> HIDE DEF s
<1>4. \A r \in D : s[r] \in HeadRows
  <2> TAKE r \in D
  <2>1. s[r].taxable \in Int /\ s[r].tax \in Int /\ s[r].cgst \in Int /\ s[r].sgst \in Int /\ s[r].igst \in Int
    BY <1>1 DEF HeadedRow
  <2>2. [taxable |-> s[r].taxable, tax |-> s[r].tax,
         cgst |-> s[r].cgst, sgst |-> s[r].sgst, igst |-> s[r].igst] \in HeadRows
    BY <2>1 DEF HeadRows
  <2> QED BY <1>2, <2>2
<1>5. s \in [D -> HeadRows]
  BY <1>3, <1>4
<1>6. s \in SlabMaps
  BY <1>5 DEF SlabMaps
<1>7. RowsSound(s, TaxOf(rows), interstate)
  BY <1>1 DEF RowsSound, HeadedRow
<1> QED BY <1>6, <1>7 DEF s

LEMMA SnapshotAgrees ==
  ASSUME NEW rows, NEW others, DOMAIN others = DOMAIN rows,
         \A r \in DOMAIN rows : others[r].taxable = rows[r].taxable /\ others[r].tax = rows[r].tax,
         NEW interstate
  PROVE  SnapshotRows(others, interstate) = SnapshotRows(rows, interstate)
BY DEF SnapshotRows

(* One row without tax: what is reversed of an order that had none.        *)
LEMMA UntaxedRow ==
  ASSUME NEW amount \in Int
  PROVE  LET rows == [r \in {0} |-> [taxable |-> amount, tax |-> 0]]
         IN  Slabs(rows) /\ DOMAIN rows \subseteq Percent /\ TaxOf(rows) = 0
<1> DEFINE rows == [r \in {0} |-> [taxable |-> amount, tax |-> 0]]
           f == [r \in DOMAIN rows |-> rows[r].tax]
<1>1. /\ DOMAIN rows = {0} /\ \A r \in {0} : rows[r].taxable = amount /\ rows[r].tax = 0
      /\ DOMAIN f = {0} /\ f[0] = 0
  OBVIOUS
<1> HIDE DEF f, rows
<1>2. IsFiniteSet({0})
  BY FS_Singleton
<1>3. Slabs(rows)
  BY <1>1, <1>2 DEF Slabs
<1>4. Total(f) = 0
  BY <1>1, <1>2, TotalOfZeros
<1>5. TaxOf(rows) = 0
  BY <1>4 DEF TaxOf, f
<1>6. DOMAIN rows \subseteq Percent
  BY <1>1, PercentIs
<1> QED BY <1>3, <1>5, <1>6 DEF rows

(* A note of a refund shows the tax that went back, and as much of it as   *)
(* the order had at each rate when everything did.                         *)
LEMMA NoteRowsAre ==
  ASSUME order \in OrderRows, BillSound(order), NEW refund \in RefundRows, refund.tax <= Whole, NEW up
  PROVE  LET rows == CreditNoteTaxRows(refund, up)
         IN  /\ Slabs(rows) /\ DOMAIN rows \subseteq Percent /\ TaxOf(rows) = refund.tax
             /\ refund.tax = Whole /\ Whole > 0 =>
                  /\ DOMAIN rows = DOMAIN OrderTaxBreakdown
                  /\ \A r \in DOMAIN rows : /\ rows[r].taxable = OrderTaxBreakdown[r].taxable
                                            /\ rows[r].tax = OrderTaxBreakdown[r].tax
<1> DEFINE rows == OrderTaxBreakdown
           nil == [r \in {0} |-> [taxable |-> refund.amount, tax |-> 0]]
           out == CreditNoteTaxRows(refund, up)
<1>1. /\ Slabs(rows) /\ DOMAIN rows \subseteq Percent /\ \A r \in DOMAIN rows : rows[r].tax >= 0
      /\ TaxOf(rows) = Whole
      /\ Whole > 0 => DOMAIN rows # {}
  BY BreakdownIs DEF Whole
<1>2. refund.amount \in Nat \ {0} /\ refund.tax \in Nat /\ Whole \in Nat
  BY DEF RefundRows, OrderRows, Whole
<1>3. out = IF Whole <= 0 \/ refund.tax <= 0 THEN nil ELSE ScaledRows(rows, refund.tax, Whole, up)
  <2>1. out = IF TaxOf(rows) <= 0 \/ refund.tax <= 0 THEN nil ELSE ScaledRows(rows, refund.tax, TaxOf(rows), up)
    BY DEF CreditNoteTaxRows, TaxOf
  <2> QED BY <1>1, <2>1
<1> HIDE DEF out, rows
<1>4. CASE Whole <= 0 \/ refund.tax <= 0
  <2>1. out = nil /\ refund.tax = 0 /\ ~(refund.tax = Whole /\ Whole > 0)
    BY <1>2, <1>3, <1>4
  <2>2. refund.amount \in Int
    BY <1>2
  <2>3. Slabs(nil) /\ DOMAIN nil \subseteq Percent /\ TaxOf(nil) = 0
    BY <2>2, UntaxedRow
  <2> HIDE DEF nil
  <2>4. Slabs(out) /\ DOMAIN out \subseteq Percent /\ TaxOf(out) = refund.tax
    BY <2>1, <2>3
  <2> QED BY <2>1, <2>4 DEF out, rows
<1>5. CASE ~(Whole <= 0 \/ refund.tax <= 0)
  <2> DEFINE s == ScaledRows(rows, refund.tax, Whole, up)
  <2>1. out = s /\ Whole \in Nat \ {0} /\ refund.tax \in Int /\ DOMAIN rows # {}
    BY <1>1, <1>2, <1>3, <1>5
  <2>2. /\ Slabs(s) /\ DOMAIN s = DOMAIN rows /\ TaxOf(s) = refund.tax
        /\ refund.tax = Whole /\ TaxOf(rows) = Whole =>
             \A r \in DOMAIN rows : s[r] = [taxable |-> rows[r].taxable, tax |-> rows[r].tax]
    BY <1>1, <2>1, ScaledIs
  <2> HIDE DEF s
  <2>3. Slabs(out) /\ DOMAIN out \subseteq Percent /\ TaxOf(out) = refund.tax
    BY <1>1, <2>1, <2>2
  <2>4. refund.tax = Whole =>
          /\ DOMAIN out = DOMAIN rows
          /\ \A r \in DOMAIN out : out[r].taxable = rows[r].taxable /\ out[r].tax = rows[r].tax
    BY <1>1, <2>1, <2>2
  <2> QED BY <2>3, <2>4 DEF out, rows
<1> QED BY <1>4, <1>5

LEMMA NoteIs ==
  ASSUME order \in OrderRows, BillSound(order), NEW refund \in RefundRows, refund.tax <= Whole, NEW up
  PROVE  LET n == NoteOf(refund, up)
         IN  /\ n \in NoteRows
             /\ n.reason = "refund" /\ n.month = refund.month
             /\ n.amount = refund.amount /\ n.tax = refund.tax
             /\ RowsSound(n.rows, n.tax, invoice.interstate)
             /\ refund.tax = Whole /\ Whole > 0 => n.rows = Headed
<1> DEFINE rows == CreditNoteTaxRows(refund, up)
           n == NoteOf(refund, up)
<1>1. /\ Slabs(rows) /\ DOMAIN rows \subseteq Percent /\ TaxOf(rows) = refund.tax
      /\ refund.tax = Whole /\ Whole > 0 =>
                  /\ DOMAIN rows = DOMAIN OrderTaxBreakdown
                  /\ \A r \in DOMAIN rows : /\ rows[r].taxable = OrderTaxBreakdown[r].taxable
                                            /\ rows[r].tax = OrderTaxBreakdown[r].tax
  BY NoteRowsAre
<1>2. n = [reason |-> "refund", month |-> refund.month, amount |-> refund.amount, tax |-> refund.tax,
           rows |-> SnapshotRows(rows, invoice.interstate)]
  BY DEF NoteOf, NoteHeads
<1> HIDE DEF rows, n
<1>3. /\ SnapshotRows(rows, invoice.interstate) \in SlabMaps
      /\ RowsSound(SnapshotRows(rows, invoice.interstate), refund.tax, invoice.interstate)
  <2>1. /\ SnapshotRows(rows, invoice.interstate) \in SlabMaps
        /\ RowsSound(SnapshotRows(rows, invoice.interstate), TaxOf(rows), invoice.interstate)
    BY <1>1, SnapshotFits
  <2> QED BY <1>1, <2>1
<1>4. refund.tax = Whole /\ Whole > 0 => SnapshotRows(rows, invoice.interstate) = Headed
  <2>1. ASSUME refund.tax = Whole, Whole > 0
        PROVE  SnapshotRows(rows, invoice.interstate) = SnapshotRows(OrderTaxBreakdown, invoice.interstate)
    BY <1>1, <2>1, SnapshotAgrees
  <2> QED BY <2>1 DEF Headed
<1>5. n \in NoteRows
  BY <1>2, <1>3 DEF NoteRows, RefundRows
<1>6. /\ n.reason = "refund" /\ n.month = refund.month /\ n.amount = refund.amount /\ n.tax = refund.tax
      /\ n.rows = SnapshotRows(rows, invoice.interstate)
  BY <1>2
<1> QED BY <1>3, <1>4, <1>5, <1>6 DEF n

LEMMA NoteIsNotNone ==
  ASSUME NEW n \in NoteRows
  PROVE  n # None
<1>1. "reason" \in DOMAIN n /\ "reason" \notin DOMAIN None
  BY DEF NoteRows, None
<1> QED BY <1>1

(* The note of a cancellation reverses all of the invoice.                 *)
LEMMA CancellationIs ==
  ASSUME order \in OrderRows, BillSound(order), InvoiceInv, invoice # None, invoice.total > 0,
         month \in Nat, NotedAmount = 0, NotedTax = 0, NEW up
  PROVE  LET n == CancellationNote(up)
         IN  /\ n \in NoteRows /\ n.reason = "cancellation" /\ n.month = month
             /\ n.amount = invoice.total /\ n.tax = invoice.tax
             /\ RowsSound(n.rows, invoice.tax, invoice.interstate)
             /\ invoice.tax > 0 => n.rows = invoice.rows
<1> DEFINE rows == OrderTaxBreakdown
           frozen == invoice.rows
           nil == [r \in DOMAIN frozen |-> [taxable |-> 0, tax |-> 0]]
           made == IF invoice.tax = 0 THEN nil ELSE ScaledRows(frozen, invoice.tax, invoice.tax, up)
           n == CancellationNote(up)
<1>1. /\ Slabs(rows) /\ DOMAIN rows \subseteq Percent /\ \A r \in DOMAIN rows : rows[r].tax >= 0
      /\ TaxOf(rows) = Whole
      /\ Whole > 0 => DOMAIN rows # {}
  BY BreakdownIs DEF Whole
<1>2. /\ frozen = SnapshotRows(rows, invoice.interstate) /\ invoice.tax = Whole /\ Whole \in Nat
      /\ invoice.total \in Nat
  BY DEF InvoiceInv, OrderRows, Whole, Headed
<1> HIDE DEF rows
<1>3. /\ Slabs(frozen) /\ DOMAIN frozen = DOMAIN rows /\ TaxOf(frozen) = Whole
      /\ \A r \in DOMAIN rows : frozen[r].taxable = rows[r].taxable /\ frozen[r].tax = rows[r].tax
  BY <1>1, <1>2, SnapshotIs
<1>4. /\ NotedAmount = 0 /\ NotedTax = 0
      /\ invoice.total - 0 = invoice.total /\ invoice.tax - 0 = invoice.tax
  BY <1>2
<1>5. n = [reason |-> "cancellation", month |-> month, amount |-> invoice.total, tax |-> invoice.tax,
           rows |-> SnapshotRows(made, invoice.interstate)]
  BY <1>4 DEF CancellationNote, NoteHeads
<1> HIDE DEF frozen, n
<1>6. CASE invoice.tax = 0
  <2>1. made = nil /\ DOMAIN nil = DOMAIN frozen /\ \A r \in DOMAIN nil : nil[r].taxable = 0 /\ nil[r].tax = 0
    BY <1>6
  <2> DEFINE f == [r \in DOMAIN nil |-> nil[r].tax]
  <2>2. DOMAIN f = DOMAIN nil /\ \A r \in DOMAIN nil : f[r] = 0
    BY <2>1
  <2>3. TaxOf(nil) = Total(f)
    BY DEF TaxOf
  <2> HIDE DEF nil, f
  <2>4. IsFiniteSet(DOMAIN nil) /\ DOMAIN nil \subseteq Nat
    BY <1>3, <2>1 DEF Slabs
  <2>5. Slabs(nil)
    BY <2>1, <2>4 DEF Slabs
  <2>6. TaxOf(nil) = 0
    BY <2>2, <2>3, <2>4, TotalOfZeros
  <2>7. DOMAIN nil \subseteq Percent
    BY <1>1, <1>3, <2>1
  <2>8. SnapshotRows(nil, invoice.interstate) \in SlabMaps /\ RowsSound(SnapshotRows(nil, invoice.interstate), 0, invoice.interstate)
    <3>1. RowsSound(SnapshotRows(nil, invoice.interstate), TaxOf(nil), invoice.interstate)
      BY <2>5, <2>7, SnapshotFits
    <3>2. SnapshotRows(nil, invoice.interstate) \in SlabMaps
      BY <2>5, <2>7, SnapshotFits
    <3> QED BY <2>6, <3>1, <3>2
  <2> HIDE DEF made
  <2>9. n \in NoteRows
    BY <1>2, <1>5, <1>6, <2>1, <2>8 DEF NoteRows
  <2> QED BY <1>5, <1>6, <2>1, <2>8, <2>9 DEF n, frozen
<1>7. CASE invoice.tax # 0
  <2>1. made = ScaledRows(frozen, invoice.tax, invoice.tax, up) /\ invoice.tax \in Nat \ {0} /\ invoice.tax \in Int
    BY <1>2, <1>7
  <2>2. DOMAIN frozen # {} /\ \A r \in DOMAIN frozen : frozen[r].tax >= 0
    BY <1>1, <1>2, <1>3, <2>1
  <2> HIDE DEF made
  <2>3. /\ Slabs(made) /\ DOMAIN made = DOMAIN frozen /\ TaxOf(made) = invoice.tax
        /\ \A r \in DOMAIN frozen : made[r] = [taxable |-> frozen[r].taxable, tax |-> frozen[r].tax]
    BY <1>2, <1>3, <2>1, <2>2, ScaledIs
  <2>4. \A r \in DOMAIN rows : made[r].taxable = rows[r].taxable /\ made[r].tax = rows[r].tax
    BY <1>3, <2>3
  <2>5. SnapshotRows(made, invoice.interstate) = frozen
    <3>1. DOMAIN made = DOMAIN rows
      BY <1>3, <2>3
    <3>2. SnapshotRows(made, invoice.interstate) = SnapshotRows(rows, invoice.interstate)
      BY <2>4, <3>1, SnapshotAgrees
    <3> QED BY <1>2, <3>2
  <2>6. SnapshotRows(made, invoice.interstate) \in SlabMaps /\ RowsSound(SnapshotRows(made, invoice.interstate), invoice.tax, invoice.interstate)
    <3>1. DOMAIN made \subseteq Percent
      BY <1>1, <1>3, <2>3
    <3>2. RowsSound(SnapshotRows(made, invoice.interstate), TaxOf(made), invoice.interstate)
      BY <2>3, <3>1, SnapshotFits
    <3>3. SnapshotRows(made, invoice.interstate) \in SlabMaps
      BY <2>3, <3>1, SnapshotFits
    <3> QED BY <2>3, <3>2, <3>3
  <2>7. n \in NoteRows
    BY <1>2, <1>5, <2>1, <2>6 DEF NoteRows
  <2> QED BY <1>5, <2>5, <2>6, <2>7 DEF n, frozen
<1> QED BY <1>6, <1>7

-----------------------------------------------------------------------------
(***************************************************************************)
(* The bill and the invoice, step by step.                                 *)
(***************************************************************************)
\* The figures of the order, which no step after checkout writes.
Kept ==
  /\ SameBill
  /\ order'.subtotal = order.subtotal /\ order'.discount = order.discount /\ order'.total = order.total

LEMMA Restated ==
  ASSUME order \in OrderRows, NEW s \in Statuses, NEW p \in Payments, NEW q \in Places,
         \/ order' = [order EXCEPT !.payment = p]
         \/ order' = [order EXCEPT !.status = s]
         \/ order' = [order EXCEPT !.status = s, !.payment = p]
         \/ order' = [order EXCEPT !.place = q]
  PROVE  order' \in OrderRows /\ Kept
BY DEF OrderRows, Kept, SameBill

LEMMA BillStaysSound ==
  ASSUME order \in OrderRows, BillSound(order), Kept
  PROVE  BillSound(order')
BY DEF BillSound, Kept, SameBill

LEMMA StatusesAre ==
  /\ "placed" \in Statuses /\ "shipped" \in Statuses /\ "cancelled" \in Statuses /\ "refunded" \in Statuses
  /\ "pending" \in Payments /\ "paid" \in Payments /\ "refunded" \in Payments
BY DEF Statuses, Payments

LEMMA BillStep ==
  ASSUME BaseInv, BillInv, [Next]_vars
  PROVE  BillInv' /\ (order # None => order' # None /\ Kept)
<1>1. CASE order' = order
  BY <1>1 DEF BillInv, Kept, SameBill
<1>2. CASE Ordering
  <2>1. shelf \in ShelfRows /\ home \in Places
    BY DEF BaseInv
  <2>2. PICK cart \in Carts, coupon \in Coupons, place \in Places \union {"nowhere"} :
          \E up \in Tilts(Lines(cart)) : CreateOrder(cart, coupon, place, up)
    BY <1>2 DEF Ordering
  <2>3. order' \in OrderRows /\ BillSound(order')
    BY <2>1, <2>2, BillIs
  <2>4. order = None
    BY <2>2 DEF CreateOrder
  <2> QED BY <2>3, <2>4 DEF BillInv
<1>3. ASSUME order # None, order' \in OrderRows, Kept
      PROVE  BillInv' /\ (order # None => order' # None /\ Kept)
  <2>1. order \in OrderRows /\ BillSound(order)
    BY <1>3 DEF BillInv
  <2>2. BillSound(order')
    BY <1>3, <2>1, BillStaysSound
  <2>3. order' # None
    BY <1>3, OrderIsNotNone
  <2> QED BY <1>3, <2>2, <2>3 DEF BillInv
<1>4. order # None => order \in OrderRows
  BY DEF BillInv
<1>5. CASE Pay
  <2>1. order # None /\ order' = [order EXCEPT !.payment = "paid"]
    BY <1>5 DEF Pay
  <2>2. order.place \in Places
    BY <1>4, <2>1 DEF OrderRows
  <2> QED BY <1>3, <1>4, <2>1, <2>2, StatusesAre, Restated
<1>6. CASE Dispatch
  <2>1. order # None /\ order' = [order EXCEPT !.status = "shipped"]
    BY <1>6 DEF Dispatch
  <2>2. order.place \in Places
    BY <1>4, <2>1 DEF OrderRows
  <2> QED BY <1>3, <1>4, <2>1, <2>2, StatusesAre, Restated
<1>7. CASE Refunding
  <2>1. order # None /\ order' = [order EXCEPT !.status = "refunded", !.payment = "refunded"]
    BY <1>7 DEF Refunding, RecordRefund
  <2>2. order.place \in Places
    BY <1>4, <2>1 DEF OrderRows
  <2> QED BY <1>3, <1>4, <2>1, <2>2, StatusesAre, Restated
<1>8. CASE Cancelling
  <2>1. order # None /\ order' = [order EXCEPT !.status = "cancelled"]
    BY <1>8 DEF Cancelling, Cancel
  <2>2. order.place \in Places
    BY <1>4, <2>1 DEF OrderRows
  <2> QED BY <1>3, <1>4, <2>1, <2>2, StatusesAre, Restated
<1>9. CASE Placing
  <2>1. PICK place \in Places : SetPlace(place)
    BY <1>9 DEF Placing
  <2>2. order # None /\ order' = [order EXCEPT !.place = place]
    BY <2>1 DEF SetPlace
  <2> QED BY <1>3, <1>4, <2>2, StatusesAre, Restated
<1>10. CASE Quoting
  BY <1>1, <1>10 DEF Quoting, ViewCart, ValidateCoupon, Quote
<1>11. CASE Backfilling
  BY <1>1, <1>11 DEF Backfilling, BackfillNote
<1>12. CASE EditShelf
  BY <1>1, <1>12, EditKeepsShelf
<1>13. CASE Moving
  BY <1>1, <1>13 DEF Moving, SellerMoves
<1>14. CASE NextMonth
  BY <1>1, <1>14 DEF NextMonth
<1>15. CASE UNCHANGED vars
  BY <1>1, <1>15 DEF vars
<1> QED BY <1>2, <1>5, <1>6, <1>7, <1>8, <1>9, <1>10, <1>11, <1>12, <1>13, <1>14, <1>15, NextIs

(* Steps that leave the order and its papers.                              *)
Neutral ==
  /\ order' = order /\ invoice' = invoice /\ refunds' = refunds
  /\ month \in Nat /\ month' \in Nat /\ month <= month'

LEMMA NeutralSteps ==
  ASSUME BaseInv, BillInv, [Next]_vars
  PROVE  \/ Neutral /\ notes' = notes
         \/ Neutral /\ Backfilling
         \/ Ordering \/ Pay \/ Dispatch \/ Refunding \/ Cancelling \/ Placing
<1>1. month \in Nat
  BY DEF BaseInv
<1>2. CASE Quoting
  BY <1>1, <1>2 DEF Neutral, Quoting, ViewCart, ValidateCoupon, Quote
<1>3. CASE Backfilling
  <2>1. Neutral
    BY <1>1, <1>3 DEF Neutral, Backfilling, BackfillNote
  <2> QED BY <1>3, <2>1
<1>4. CASE EditShelf
  BY <1>1, <1>4, EditKeepsShelf DEF Neutral
<1>5. CASE Moving
  BY <1>1, <1>5 DEF Neutral, Moving, SellerMoves
<1>6. CASE NextMonth
  BY <1>1, <1>6 DEF Neutral, NextMonth
<1>7. CASE UNCHANGED vars
  BY <1>1, <1>7 DEF Neutral, vars
<1> QED BY <1>2, <1>3, <1>4, <1>5, <1>6, <1>7, NextIs

LEMMA Reread ==
  ASSUME SameBill, invoice' = invoice
  PROVE  /\ Headed' = Headed /\ Whole' = Whole
         /\ \A refund, up : NoteOf(refund, up)' = NoteOf(refund, up)
<1>1. OrderTaxBreakdown' = OrderTaxBreakdown
  BY SameBreakdown
<1>2. Headed' = Headed /\ Whole' = Whole
  BY <1>1 DEF Headed, Whole, SameBill
<1>3. \A refund, up : CreditNoteTaxRows(refund, up)' = CreditNoteTaxRows(refund, up)
  BY <1>1 DEF CreditNoteTaxRows
<1>4. \A refund, up : NoteOf(refund, up)' = NoteOf(refund, up)
  BY <1>3 DEF NoteOf, NoteHeads
<1> QED BY <1>2, <1>4

(* An invoice issued earlier stays; a new one is of the bill.              *)
LEMMA InvoiceKept ==
  ASSUME InvoiceInv, order # None, order' # None, Kept, invoice # None, invoice' = invoice,
         order'.place = order.place, month \in Nat, month' \in Nat, month <= month'
  PROVE  InvoiceInv'
<1>1. SameBill
  BY DEF Kept
<1>2. Headed' = Headed /\ Whole' = Whole
  BY <1>1, Reread
<1>3. invoice.month \in 1 .. month'
  BY DEF InvoiceInv
<1> QED BY <1>2, <1>3 DEF InvoiceInv, Kept, SameBill

LEMMA InvoiceIssued ==
  ASSUME BaseInv, order # None, order' # None, Kept, invoice' = BuildInvoiceSnapshot,
         order'.place = order.place, month' = month
  PROVE  InvoiceInv' /\ invoice' # None
<1> DEFINE i == Interstate(order.place)
<1>1. /\ invoice'.month = month /\ invoice'.seller = home /\ invoice'.place = order.place
      /\ invoice'.interstate = i
      /\ invoice'.lines = [j \in DOMAIN order.lines |->
               [count |-> order.lines[j].count, rate |-> order.lines[j].price,
                amount |-> order.lines[j].price * order.lines[j].count, hsn |-> LineHsn(order.lines[j])]]
      /\ invoice'.subtotal = order.subtotal /\ invoice'.discount = order.discount
      /\ invoice'.shipping = order.shipping /\ invoice'.shipTax = order.shipTax
      /\ invoice'.rows = SnapshotRows(OrderTaxBreakdown, i)
      /\ invoice'.total = order.total /\ invoice'.tax = order.tax + order.shipTax
  BY DEF BuildInvoiceSnapshot
<1>2. invoice' # None
  <2>1. "month" \in DOMAIN invoice' /\ "month" \notin DOMAIN None
    BY DEF BuildInvoiceSnapshot, None
  <2> QED BY <2>1
<1>3. OrderTaxBreakdown' = OrderTaxBreakdown
  BY SameBreakdown DEF Kept
<1>4. i = (order.place # home) /\ i \in BOOLEAN
  BY DEF Interstate
<1> HIDE DEF i
<1>5. invoice'.rows = Headed'
  BY <1>1, <1>3 DEF Headed
<1>6. Whole' = Whole /\ invoice'.tax = Whole
  BY <1>1 DEF Whole, Kept, SameBill
<1>7. month \in 1 .. month' /\ home \in Places
  BY DEF BaseInv
<1>8. /\ DOMAIN invoice'.lines = DOMAIN order'.lines
      /\ \A j \in DOMAIN order'.lines : invoice'.lines[j].amount = order'.lines[j].price * order'.lines[j].count
  BY <1>1 DEF Kept, SameBill
<1>9. /\ order'.total = order.total /\ order'.subtotal = order.subtotal /\ order'.discount = order.discount
      /\ order'.shipping = order.shipping /\ order'.shipTax = order.shipTax
  BY DEF Kept, SameBill
<1>10. /\ invoice'.interstate \in BOOLEAN /\ invoice'.interstate = (invoice'.place # invoice'.seller)
  BY <1>1, <1>4
<1> QED BY <1>1, <1>2, <1>5, <1>6, <1>7, <1>8, <1>9, <1>10 DEF InvoiceInv

-----------------------------------------------------------------------------
LEMMA FiguresOfTheBill ==
  ASSUME order \in OrderRows, BillSound(order)
  PROVE  /\ order.total \in Nat /\ Whole \in Nat
         /\ order.subtotal \in Nat /\ order.discount \in Nat
         /\ order.shipping \in Nat /\ order.shipTax \in Nat /\ order.tax \in Nat
BY DEF OrderRows, BillSound, Whole

\* Without an order there are no papers.
LEMMA NothingBeforeTheOrder ==
  ASSUME InvoiceInv, RefundInv, NoteInv, order = None
  PROVE  invoice = None /\ refunds = <<>> /\ notes = <<>>
<1>1. invoice = None
  BY DEF InvoiceInv
<1>2. refunds = <<>>
  BY DEF RefundInv
<1>3. notes \in Seq(NoteRows \union {None}) /\ Len(notes) = 0
  BY <1>1, <1>2 DEF NoteInv, ByRefund, ByCancel
<1> QED BY <1>1, <1>2, <1>3

LEMMA BillIsPending ==
  ASSUME BaseInv, Ordering
  PROVE  /\ order = None /\ order' # None /\ invoice' = invoice /\ refunds' = refunds /\ notes' = notes /\ month' = month
         /\ order'.payment = "pending" \/ order'.total = 0
<1>1. PICK cart \in Carts, coupon \in Coupons, place \in Places \union {"nowhere"} :
        \E up \in Tilts(Lines(cart)) : CreateOrder(cart, coupon, place, up)
  BY DEF Ordering
<1>2. PICK up \in Tilts(Lines(cart)) : CreateOrder(cart, coupon, place, up)
  BY <1>1
<1>3. shelf \in ShelfRows /\ home \in Places
  BY DEF BaseInv
<1> DEFINE sub == Subtotal(cart)
           d == DiscountFor(coupon, sub)
           free == coupon # NoCoupon /\ d = sub
<1>4. /\ order' \in OrderRows /\ BillSound(order')
      /\ order'.subtotal = sub /\ order'.discount = d
      /\ order'.shipping = IF free THEN 0 ELSE Shipping(sub - d)
      /\ order'.payment = "pending" \/ free
  BY <1>2, <1>3, BillIs
<1> HIDE DEF sub, d
<1>5. order' # None
  BY <1>4, OrderIsNotNone
<1>6. ASSUME free PROVE order'.total = 0
  <2>1. order'.shipping = 0 /\ order'.shipTax = ShippingTax(0)
    BY <1>4, <1>6 DEF BillSound
  <2>2. ShippingTax(0) = 0
    BY ShippingIs
  <2>3. order'.subtotal \in Nat /\ order'.discount = order'.subtotal
    BY <1>4, <1>6 DEF OrderRows
  <2>4. order'.total = order'.subtotal - order'.discount + order'.shipping + order'.shipTax
    BY <1>4 DEF BillSound
  <2> QED BY <2>1, <2>2, <2>3, <2>4
<1>7. /\ order = None /\ invoice' = invoice /\ refunds' = refunds /\ notes' = notes /\ month' = month
  BY <1>2 DEF CreateOrder
<1> QED BY <1>4, <1>5, <1>6, <1>7

LEMMA InvoiceStep ==
  ASSUME BaseInv, BillInv, InvoiceInv, RefundInv, NoteInv, [Next]_vars
  PROVE  InvoiceInv' /\ (invoice # None => invoice' = invoice)
<1>1. order # None => order' # None /\ Kept
  BY BillStep
<1>2. ASSUME Neutral PROVE InvoiceInv' /\ (invoice # None => invoice' = invoice)
  <2>1. CASE invoice # None
    <3>1. order # None /\ order' # None /\ Kept
      BY <1>1, <2>1 DEF InvoiceInv
    <3> QED BY <1>2, <2>1, <3>1, InvoiceKept DEF Neutral
  <2>2. CASE invoice = None
    <3>1. invoice' = None /\ order' = order
      BY <1>2, <2>2 DEF Neutral
    <3> QED BY <2>2, <3>1 DEF InvoiceInv, None
  <2> QED BY <2>1, <2>2
<1>3. CASE Ordering
  <2>1. /\ order = None /\ order' # None /\ invoice' = invoice
        /\ order'.payment = "pending" \/ order'.total = 0
    BY <1>3, BillIsPending
  <2>2. invoice = None
    BY <2>1, NothingBeforeTheOrder
  <2>3. ~(order'.total > 0) \/ order'.payment = "pending"
    BY <2>1
  <2>4. invoice' = None
    BY <2>1, <2>2
  <2> QED BY <2>2, <2>3, <2>4 DEF InvoiceInv, None
<1>4. ASSUME order # None, order'.place = order.place, month' = month, invoice' = Issued
      PROVE  InvoiceInv' /\ (invoice # None => invoice' = invoice)
  <2>1. CASE invoice # None
    <3>1. invoice' = invoice
      BY <1>4, <2>1 DEF Issued
    <3>2. month \in Nat /\ month' \in Nat /\ month <= month'
      BY <1>4 DEF BaseInv
    <3> QED BY <1>1, <1>4, <2>1, <3>1, <3>2, InvoiceKept
  <2>2. CASE invoice = None
    <3>1. invoice' = BuildInvoiceSnapshot
      BY <1>4, <2>2 DEF Issued
    <3> QED BY <1>1, <1>4, <2>2, <3>1, InvoiceIssued
  <2> QED BY <2>1, <2>2
<1>5. order # None => order \in OrderRows
  BY DEF BillInv
<1>6. CASE Pay
  <2>1. order # None /\ order' = [order EXCEPT !.payment = "paid"] /\ month' = month /\ invoice' = Issued
    BY <1>6 DEF Pay
  <2>2. order'.place = order.place
    BY <1>5, <2>1 DEF OrderRows
  <2> QED BY <1>4, <2>1, <2>2
<1>7. CASE Dispatch
  <2>1. order # None /\ order' = [order EXCEPT !.status = "shipped"] /\ month' = month /\ invoice' = Issued
    BY <1>7 DEF Dispatch
  <2>2. order'.place = order.place
    BY <1>5, <2>1 DEF OrderRows
  <2> QED BY <1>4, <2>1, <2>2
<1>8. ASSUME order # None, order'.place = order.place, month' = month, invoice' = invoice, invoice # None
      PROVE  InvoiceInv' /\ (invoice # None => invoice' = invoice)
  <2>1. month \in Nat /\ month' \in Nat /\ month <= month'
    BY <1>8 DEF BaseInv
  <2> QED BY <1>1, <1>8, <2>1, InvoiceKept
<1>9. CASE Refunding
  <2>1. /\ order # None /\ order.payment \in {"paid", "refunded"} /\ RefundableBalance > 0
        /\ order' = [order EXCEPT !.status = "refunded", !.payment = "refunded"]
        /\ month' = month /\ invoice' = invoice
    BY <1>9 DEF Refunding, RecordRefund
  <2>2. order'.place = order.place
    BY <1>5, <2>1 DEF OrderRows
  <2>3. order \in OrderRows /\ BillSound(order)
    BY <2>1 DEF BillInv
  <2>4. order.total \in Nat /\ Refunded \in Nat
    BY <2>3, FiguresOfTheBill, RefundsAre DEF RefundInv
  <2>5. order.total > 0
    BY <2>1, <2>4 DEF RefundableBalance
  <2>6. invoice # None
    BY <2>1, <2>5 DEF InvoiceInv
  <2> QED BY <1>8, <2>1, <2>2, <2>6
<1>10. CASE Cancelling
  <2>1. /\ order # None /\ order' = [order EXCEPT !.status = "cancelled"]
        /\ month' = month /\ invoice' = invoice
    BY <1>10 DEF Cancelling, Cancel
  <2>2. order'.place = order.place /\ order'.payment = order.payment /\ order'.total = order.total
    BY <1>5, <2>1 DEF OrderRows
  <2>3. CASE invoice # None
    BY <1>8, <2>1, <2>2, <2>3
  <2>4. CASE invoice = None
    <3>1. invoice' = None /\ ~(order'.payment # "pending" /\ order'.total > 0)
      BY <2>1, <2>2, <2>4 DEF InvoiceInv
    <3> QED BY <2>4, <3>1 DEF InvoiceInv, None
  <2> QED BY <2>3, <2>4
<1>11. CASE Placing
  <2>1. PICK place \in Places : SetPlace(place)
    BY <1>11 DEF Placing
  <2>2. /\ order # None /\ order' = [order EXCEPT !.place = place]
        /\ invoice = None /\ invoice' = invoice
    BY <2>1 DEF SetPlace
  <2>3. order'.payment = order.payment /\ order'.total = order.total
    BY <1>5, <2>2 DEF OrderRows
  <2>4. invoice' = None /\ ~(order'.payment # "pending" /\ order'.total > 0)
    BY <2>2, <2>3 DEF InvoiceInv
  <2> QED BY <2>2, <2>4 DEF InvoiceInv, None
<1> QED BY <1>2, <1>3, <1>6, <1>7, <1>9, <1>10, <1>11, NeutralSteps

-----------------------------------------------------------------------------
(***************************************************************************)
(* Refunds, step by step.                                                  *)
(***************************************************************************)
\* Some amount, no more than is left, with its share of the tax.
Given(refund) ==
  /\ refund \in RefundRows /\ refund.month = month
  /\ refund.amount <= RefundableBalance /\ refund.tax = RefundTaxFor(refund.amount)
  /\ refund.tax <= Whole - RefundedTax
  /\ refund.amount = order.total => refund.tax = Whole

LEMMA RefundIsGiven ==
  ASSUME BaseInv, BillInv, InvoiceInv, RefundInv, Refunding
  PROVE  /\ order # None /\ order \in OrderRows /\ BillSound(order) /\ invoice # None
         /\ order'.payment = "refunded"
         /\ invoice' = invoice /\ month' = month /\ Len(refunds) < MaxRefunds
         /\ RefundedTax \in Nat /\ RefundedTax <= Whole /\ Refunded \in Nat
         /\ \E refund \in RefundRows, up, noted \in BOOLEAN :
              /\ Given(refund) /\ refunds' = Append(refunds, refund)
              /\ notes' = Append(notes, IF noted THEN NoteOf(refund, up) ELSE None)
<1>1. PICK asked \in RefundAmounts, up \in BOOLEAN, noted \in BOOLEAN : RecordRefund(asked, up, noted)
  BY DEF Refunding
<1> DEFINE balance == RefundableBalance
           amount == Min({asked, balance})
           refund == [amount |-> amount, tax |-> RefundTaxFor(amount), month |-> month]
<1>2. /\ order # None /\ order.payment \in {"paid", "refunded"} /\ balance > 0
      /\ Len(refunds) < MaxRefunds
      /\ refunds' = Append(refunds, refund)
      /\ order' = [order EXCEPT !.status = "refunded", !.payment = "refunded"]
      /\ notes' = Append(notes, IF noted THEN NoteOf(refund, up) ELSE None)
      /\ invoice' = invoice /\ month' = month
  BY <1>1 DEF RecordRefund
<1>3. order \in OrderRows /\ BillSound(order)
  BY <1>2 DEF BillInv
<1>4. order'.payment = "refunded"
  BY <1>2, <1>3 DEF OrderRows
<1>5. refunds \in Seq(RefundRows)
  BY DEF RefundInv
<1>6. /\ Refunded \in Nat /\ RefundedTax \in Nat
      /\ refunds = <<>> => Refunded = 0 /\ RefundedTax = 0
      /\ Refunded = 0 => refunds = <<>>
  BY <1>5, RefundsAre
<1>7. order.total \in Nat /\ Whole \in Nat
  BY <1>3, FiguresOfTheBill
<1>8. RefundedTax <= Whole
  BY <1>6, <1>7 DEF RefundInv
<1>9. balance = order.total - Refunded /\ balance \in Int
  BY <1>6, <1>7 DEF RefundableBalance
<1>10. order.total > 0
  BY <1>2, <1>6, <1>7, <1>9
<1>11. invoice # None
  BY <1>2, <1>10 DEF InvoiceInv
<1>12. asked \in Nat \ {0}
  BY <1>1, PricingAssumption
<1> HIDE DEF balance
<1>13. amount = IF asked <= balance THEN asked ELSE balance
  BY <1>9, <1>12, LesserOf
<1> HIDE DEF amount
<1>14. amount \in Nat \ {0} /\ amount <= balance /\ amount <= order.total
  BY <1>2, <1>6, <1>7, <1>9, <1>12, <1>13
<1>15. /\ RefundTaxFor(amount) \in Nat /\ RefundTaxFor(amount) <= Whole - RefundedTax
       /\ amount = order.total /\ RefundedTax = 0 => RefundTaxFor(amount) = Whole
  BY <1>3, <1>6, <1>8, <1>14, RefundTaxIs
<1>16. amount = order.total => RefundedTax = 0
  <2>1. ASSUME amount = order.total PROVE Refunded = 0
    BY <1>6, <1>7, <1>9, <1>14, <2>1
  <2> QED BY <1>6, <2>1
<1>17. month \in Nat
  BY DEF BaseInv
<1>18. refund \in RefundRows /\ refund.month = month /\ refund.amount = amount /\ refund.tax = RefundTaxFor(amount)
  BY <1>14, <1>15, <1>17 DEF RefundRows
<1> HIDE DEF refund
<1>19. Given(refund)
  BY <1>14, <1>15, <1>16, <1>18 DEF Given, balance
<1> QED BY <1>2, <1>3, <1>4, <1>6, <1>8, <1>11, <1>18, <1>19

LEMMA RefundsKept ==
  ASSUME RefundInv, refunds' = refunds, month \in Nat, month' \in Nat, month <= month',
         refunds # <<>> => /\ order' # None /\ Kept /\ order'.payment = "refunded"
                           /\ invoice' = invoice
  PROVE  RefundInv'
<1>1. \A k \in DOMAIN refunds : refunds[k].month \in 1 .. month'
  BY DEF RefundInv
<1>2. Refunded' = Refunded /\ RefundedTax' = RefundedTax
  BY DEF Refunded, RefundedTax
<1>3. CASE refunds = <<>>
  BY <1>1, <1>3 DEF RefundInv
<1>4. CASE refunds # <<>>
  <2>1. Whole' = Whole /\ order'.total = order.total /\ order'.payment = "refunded" /\ order' # None
    BY <1>4 DEF Kept, SameBill, Whole
  <2>2. invoice' # None /\ invoice' = invoice
    BY <1>4 DEF RefundInv
  <2> QED BY <1>1, <1>2, <1>4, <2>1, <2>2 DEF RefundInv
<1> QED BY <1>3, <1>4

LEMMA RefundStep ==
  ASSUME BaseInv, BillInv, InvoiceInv, RefundInv, NoteInv, [Next]_vars
  PROVE  RefundInv'
<1>1. order # None => order' # None /\ Kept
  BY BillStep
<1>2. invoice # None => invoice' = invoice
  BY InvoiceStep
<1>3. refunds # <<>> => order # None /\ order.payment = "refunded" /\ invoice # None
  BY DEF RefundInv
<1>4. month \in Nat /\ month \in 1 .. month
  BY DEF BaseInv
<1>5. CASE Neutral
  BY <1>1, <1>2, <1>3, <1>5, RefundsKept DEF Neutral
<1>6. CASE Ordering
  <2>1. order = None /\ refunds' = refunds /\ month' = month
    BY <1>6, BillIsPending
  <2> QED BY <1>3, <1>4, <2>1, RefundsKept
<1>7. ASSUME refunds' = refunds, month' = month, order # None => order'.payment = order.payment
      PROVE  RefundInv'
  BY <1>1, <1>2, <1>3, <1>4, <1>7, RefundsKept
<1>8. order # None => order \in OrderRows
  BY DEF BillInv
<1>9. CASE Pay
  <2>1. refunds' = refunds /\ month' = month /\ order # None /\ order.payment = "pending"
    BY <1>9 DEF Pay
  <2>2. refunds = <<>>
    BY <1>3, <2>1
  <2> QED BY <1>4, <2>1, <2>2, RefundsKept
<1>10. CASE Dispatch
  <2>1. refunds' = refunds /\ month' = month /\ order # None /\ order' = [order EXCEPT !.status = "shipped"]
    BY <1>10 DEF Dispatch
  <2>2. order'.payment = order.payment
    BY <1>8, <2>1 DEF OrderRows
  <2> QED BY <1>7, <2>1, <2>2
<1>11. CASE Cancelling
  <2>1. refunds' = refunds /\ month' = month /\ order # None /\ order' = [order EXCEPT !.status = "cancelled"]
    BY <1>11 DEF Cancelling, Cancel
  <2>2. order'.payment = order.payment
    BY <1>8, <2>1 DEF OrderRows
  <2> QED BY <1>7, <2>1, <2>2
<1>12. CASE Placing
  <2>1. PICK place \in Places : SetPlace(place)
    BY <1>12 DEF Placing
  <2>2. refunds' = refunds /\ month' = month /\ order # None /\ order' = [order EXCEPT !.place = place]
    BY <2>1 DEF SetPlace
  <2>3. order'.payment = order.payment
    BY <1>8, <2>2 DEF OrderRows
  <2> QED BY <1>7, <2>2, <2>3
<1>13. CASE Refunding
  <2>1. /\ order # None /\ invoice # None /\ order'.payment = "refunded"
        /\ month' = month /\ Len(refunds) < MaxRefunds
        /\ RefundedTax \in Nat /\ RefundedTax <= Whole /\ Refunded \in Nat
        /\ order \in OrderRows /\ BillSound(order)
    BY <1>13, RefundIsGiven
  <2>2. PICK refund \in RefundRows : Given(refund) /\ refunds' = Append(refunds, refund)
    BY <1>13, RefundIsGiven
  <2>3. refunds \in Seq(RefundRows) /\ Len(refunds) \in Nat
    BY RefundsAre DEF RefundInv
  <2>4. /\ refunds' \in Seq(RefundRows) /\ Len(refunds') = Len(refunds) + 1
        /\ \A k \in DOMAIN refunds : refunds'[k] = refunds[k]
        /\ refunds'[Len(refunds) + 1] = refund /\ refunds' # <<>>
        /\ DOMAIN refunds' = DOMAIN refunds \union {Len(refunds) + 1}
        /\ Refunded' = Refunded + refund.amount /\ RefundedTax' = RefundedTax + refund.tax
    BY <2>2, <2>3, RefundAppended
  <2>5. /\ refund.month = month /\ refund.amount <= RefundableBalance
        /\ refund.tax <= Whole - RefundedTax
        /\ refund.amount = order.total => refund.tax = Whole
        /\ refund.amount \in Nat /\ refund.tax \in Nat
    BY <2>2 DEF Given, RefundRows
  <2>6. Whole \in Nat /\ order.total \in Nat
    BY <2>1, FiguresOfTheBill
  <2>7. Whole' = Whole /\ order'.total = order.total /\ order' # None
    BY <1>1, <2>1 DEF Kept, SameBill, Whole
  <2>8. Refunded' <= order'.total /\ RefundedTax' <= Whole'
    BY <2>1, <2>4, <2>5, <2>6, <2>7 DEF RefundableBalance
  <2>9. \A k \in DOMAIN refunds' : refunds'[k].month \in 1 .. month'
    <3>1. \A k \in DOMAIN refunds : refunds[k].month \in 1 .. month
      BY DEF RefundInv
    <3> QED BY <1>4, <2>1, <2>4, <2>5, <3>1
  <2>10. Len(refunds') <= MaxRefunds
    BY <2>1, <2>3, <2>4, PricingAssumption
  <2>11. \A k \in DOMAIN refunds' : /\ refunds'[k].tax <= Whole
                                    /\ refunds'[k].amount = order.total => refunds'[k].tax = Whole
    <3>1. \A k \in DOMAIN refunds : /\ refunds[k].tax <= Whole
                                    /\ refunds[k].amount = order.total => refunds[k].tax = Whole
      BY DEF RefundInv
    <3>2. refund.tax <= Whole
      BY <2>1, <2>5, <2>6
    <3> QED BY <2>4, <2>5, <3>1, <3>2
  <2>12. invoice' # None
    BY <1>2, <2>1
  <2> QED BY <2>1, <2>4, <2>7, <2>8, <2>9, <2>10, <2>11, <2>12 DEF RefundInv
<1> QED BY <1>5, <1>6, <1>9, <1>10, <1>11, <1>12, <1>13, NeutralSteps

-----------------------------------------------------------------------------
(***************************************************************************)
(* Credit notes, step by step.                                             *)
(***************************************************************************)
LEMMA NothingNoted ==
  ASSUME notes = <<>>
  PROVE  NotedAmount = 0 /\ NotedTax = 0
<1> DEFINE f == [k \in Notes |-> notes[k].amount]
           t == [k \in Notes |-> notes[k].tax]
<1>1. Notes = {}
  BY DEF Notes
<1>2. DOMAIN f = {} /\ DOMAIN t = {}
  BY <1>1
<1>3. NotedAmount = Total(f) /\ NotedTax = Total(t)
  BY DEF NotedAmount, NotedTax
<1> HIDE DEF f, t
<1> QED BY <1>2, <1>3, TotalOfNone

\* What each refund has once a bill stands behind it.
LEMMA EachRefund ==
  ASSUME BillInv, RefundInv, NEW k \in DOMAIN refunds
  PROVE  /\ refunds[k] \in RefundRows /\ refunds[k].tax <= Whole
         /\ refunds[k].amount = order.total => refunds[k].tax = Whole
         /\ order # None /\ order \in OrderRows /\ BillSound(order) /\ invoice # None
         /\ order.payment = "refunded"
<1>1. refunds[k] \in RefundRows
  BY RefundsAre DEF RefundInv
<1>2. refunds # <<>>
  OBVIOUS
<1> QED BY <1>1, <1>2 DEF RefundInv, BillInv

LEMMA NotesAre ==
  ASSUME NoteInv
  PROVE  /\ Len(notes) \in Nat /\ DOMAIN notes = 1 .. Len(notes)
         /\ \A k \in DOMAIN notes : notes[k] \in NoteRows \union {None}
BY DEF NoteInv

LEMMA NotesKept ==
  ASSUME NoteInv, notes' = notes, refunds' = refunds, month \in Nat, month' \in Nat, month <= month',
         notes # <<>> => Kept /\ invoice' = invoice,
         ByCancel => order'.payment = order.payment /\ order'.status = order.status
  PROVE  NoteInv'
<1>1. notes' \in Seq(NoteRows \union {None})
  BY DEF NoteInv
<1>2. CASE ByCancel
  <2>1. invoice' = invoice
    <3>1. Len(notes) = 1 /\ Len(<<>>) = 0
      BY <1>2 DEF ByCancel
    <3>2. notes # <<>>
      BY <3>1
    <3> QED BY <3>2
  <2>2. order'.payment = order.payment /\ order'.status = order.status
    BY <1>2
  <2>3. notes[1].month \in 1 .. month'
    BY <1>2 DEF ByCancel
  <2>4. ByCancel'
    BY <1>2, <2>1, <2>2, <2>3 DEF ByCancel
  <2> QED BY <1>1, <2>4 DEF NoteInv
<1>3. CASE ByRefund
  <2>1. Len(notes') = Len(refunds')
    BY <1>3 DEF ByRefund
  <2>2. ASSUME NEW k \in DOMAIN notes, notes[k] # None
        PROVE  \E up \in BOOLEAN : notes'[k] = NoteOf(refunds[k], up)'
    <3>1. Kept /\ invoice' = invoice
      BY <2>2
    <3>2. PICK up \in BOOLEAN : notes[k] = NoteOf(refunds[k], up)
      BY <1>3, <2>2 DEF ByRefund
    <3>3. \A refund, u : NoteOf(refund, u)' = NoteOf(refund, u)
      BY <3>1, Reread DEF Kept
    <3>4. NoteOf(refunds[k], up)' = NoteOf(refunds[k], up)
      BY <3>3
    <3> QED BY <3>2, <3>4
  <2>3. ByRefund'
    BY <2>1, <2>2 DEF ByRefund, None
  <2> QED BY <1>1, <2>3 DEF NoteInv
<1> QED BY <1>2, <1>3 DEF NoteInv

LEMMA BackfillKeeps ==
  ASSUME BillInv, RefundInv, NoteInv, Neutral, Backfilling
  PROVE  NoteInv'
<1>1. PICK k \in DOMAIN notes, up \in BOOLEAN : BackfillNote(k, up)
  BY DEF Backfilling
<1>2. notes[k] = None /\ notes' = [notes EXCEPT ![k] = NoteOf(refunds[k], up)]
  BY <1>1 DEF BackfillNote
<1>3. order' = order /\ invoice' = invoice /\ refunds' = refunds
  BY DEF Neutral
<1>4. Len(notes) \in Nat /\ DOMAIN notes = 1 .. Len(notes) /\ notes \in Seq(NoteRows \union {None})
  BY NotesAre DEF NoteInv
<1>5. ~ByCancel
  <2>1. SUFFICES ASSUME ByCancel PROVE FALSE
    OBVIOUS
  <2>2. k = 1 /\ notes[1] \in NoteRows
    BY <1>1, <1>4, <2>1 DEF ByCancel
  <2> QED BY <1>2, <2>2, NoteIsNotNone
<1>6. ByRefund
  BY <1>5 DEF NoteInv
<1>7. k \in DOMAIN refunds
  <2>1. Len(notes) = Len(refunds) /\ DOMAIN refunds = 1 .. Len(refunds)
    BY <1>6, RefundsAre DEF ByRefund, RefundInv
  <2> QED BY <1>4, <2>1
<1>8. NoteOf(refunds[k], up) \in NoteRows
  <2>1. refunds[k] \in RefundRows /\ refunds[k].tax <= Whole /\ order \in OrderRows /\ BillSound(order)
    BY <1>7, EachRefund
  <2> QED BY <2>1, NoteIs
<1>9. /\ notes' \in Seq(NoteRows \union {None}) /\ Len(notes') = Len(notes) /\ DOMAIN notes' = DOMAIN notes
      /\ notes'[k] = NoteOf(refunds[k], up)
      /\ \A j \in DOMAIN notes \ {k} : notes'[j] = notes[j]
  <2> DEFINE x == NoteOf(refunds[k], up)
  <2>1. x \in NoteRows \union {None} /\ notes' = [notes EXCEPT ![k] = x]
    BY <1>2, <1>8
  <2> HIDE DEF x
  <2>2. /\ notes' \in Seq(NoteRows \union {None}) /\ Len(notes') = Len(notes) /\ DOMAIN notes' = DOMAIN notes
        /\ notes'[k] = x /\ \A j \in DOMAIN notes \ {k} : notes'[j] = notes[j]
    BY <1>1, <1>4, <2>1
  <2> QED BY <2>2 DEF x
<1>10. \A refund, u : NoteOf(refund, u)' = NoteOf(refund, u)
  BY <1>3, Reread DEF SameBill
<1>11. ASSUME NEW j \in DOMAIN notes, notes'[j] # None
       PROVE  \E u \in BOOLEAN : notes'[j] = NoteOf(refunds[j], u)'
  <2>1. PICK u \in BOOLEAN : notes'[j] = NoteOf(refunds[j], u)
    <3>1. CASE j = k
      BY <1>1, <1>9, <3>1
    <3>2. CASE j # k
      <4>1. notes'[j] = notes[j]
        BY <1>9, <3>2
      <4> QED BY <1>6, <1>11, <4>1 DEF ByRefund
    <3> QED BY <3>1, <3>2
  <2>2. NoteOf(refunds[j], u)' = NoteOf(refunds[j], u)
    BY <1>3, <1>10
  <2> QED BY <2>1, <2>2
<1>12. Len(notes') = Len(refunds')
  BY <1>3, <1>6, <1>9 DEF ByRefund
<1>13. ByRefund'
  BY <1>9, <1>11, <1>12 DEF ByRefund, None
<1> QED BY <1>9, <1>13 DEF NoteInv

-----------------------------------------------------------------------------
LEMMA RefundIsNoted ==
  ASSUME BaseInv, BillInv, InvoiceInv, RefundInv, NoteInv, Refunding, Kept
  PROVE  NoteInv'
<1>1. /\ order \in OrderRows /\ BillSound(order) /\ invoice' = invoice
      /\ RefundedTax \in Nat /\ RefundedTax <= Whole
  BY RefundIsGiven
<1>2. PICK refund \in RefundRows, up \in BOOLEAN, noted \in BOOLEAN :
        /\ Given(refund) /\ refunds' = Append(refunds, refund)
        /\ notes' = Append(notes, IF noted THEN NoteOf(refund, up) ELSE None)
  BY RefundIsGiven
<1> DEFINE x == IF noted THEN NoteOf(refund, up) ELSE None
           n == Len(notes)
<1>3. refund.tax <= Whole
  <2>1. Whole \in Nat /\ refund.tax \in Nat /\ refund.tax <= Whole - RefundedTax
    BY <1>1, <1>2, FiguresOfTheBill DEF Given, RefundRows
  <2> QED BY <1>1, <2>1
<1>4. x \in NoteRows \union {None}
  BY <1>1, <1>3, NoteIs
<1>5. order.payment # "pending"
  BY DEF Refunding, RecordRefund
<1>6. ByRefund
  BY <1>5 DEF NoteInv, ByCancel
<1>7. n \in Nat /\ DOMAIN notes = 1 .. n /\ notes \in Seq(NoteRows \union {None})
  BY NotesAre DEF NoteInv
<1>8. n = Len(refunds) /\ DOMAIN refunds = 1 .. n /\ refunds \in Seq(RefundRows)
  BY <1>6, RefundsAre DEF ByRefund, RefundInv
<1>9. /\ Len(refunds') = n + 1 /\ refunds'[n + 1] = refund
      /\ \A k \in 1 .. n : refunds'[k] = refunds[k]
  BY <1>2, <1>8, RefundAppended
<1> HIDE DEF x
<1>10. notes' = Append(notes, x)
  BY <1>2 DEF x
<1>11. /\ notes' \in Seq(NoteRows \union {None}) /\ Len(notes') = n + 1 /\ DOMAIN notes' = 1 .. n + 1
       /\ notes'[n + 1] = x /\ \A k \in 1 .. n : notes'[k] = notes[k]
  BY <1>4, <1>7, <1>10
<1> HIDE DEF n
<1>12. \A r, u : NoteOf(r, u)' = NoteOf(r, u)
  BY <1>1, Reread DEF Kept
<1>13. ASSUME NEW k \in 1 .. n + 1, notes'[k] # None
       PROVE  \E u \in BOOLEAN : notes'[k] = NoteOf(refunds[k], u)'
  <2>1. CASE k = n + 1
    <3>1. notes'[k] = NoteOf(refund, up) /\ refunds'[k] = refund
      BY <1>9, <1>11, <1>13, <2>1 DEF x
    <3>2. NoteOf(refunds[k], up)' = NoteOf(refund, up)
      BY <1>12, <3>1
    <3> QED BY <3>1, <3>2
  <2>2. CASE k # n + 1
    <3>1. k \in 1 .. n
      BY <1>7, <2>2
    <3>2. notes'[k] = notes[k] /\ refunds'[k] = refunds[k]
      BY <1>9, <1>11, <3>1
    <3>3. PICK u \in BOOLEAN : notes[k] = NoteOf(refunds[k], u)
      BY <1>6, <1>7, <1>13, <3>1, <3>2 DEF ByRefund
    <3>4. NoteOf(refunds[k], u)' = NoteOf(refunds[k], u)
      BY <1>12, <3>2
    <3> QED BY <3>2, <3>3, <3>4
  <2> QED BY <2>1, <2>2
<1>14. ByRefund'
  BY <1>9, <1>11, <1>13 DEF ByRefund, None
<1> QED BY <1>11, <1>14 DEF NoteInv

LEMMA CancellationIsNoted ==
  ASSUME BaseInv, BillInv, InvoiceInv, RefundInv, NoteInv, Cancelling, Kept
  PROVE  NoteInv'
<1>1. PICK up \in BOOLEAN : Cancel(up)
  BY DEF Cancelling
<1>2. /\ order # None /\ order.status \in {"placed", "shipped"}
      /\ order' = [order EXCEPT !.status = "cancelled"]
      /\ invoice' = invoice /\ refunds' = refunds /\ month' = month
  BY <1>1 DEF Cancel
<1>3. order \in OrderRows /\ BillSound(order)
  BY <1>2 DEF BillInv
<1>4. ~ByCancel
  BY <1>2 DEF ByCancel
<1>5. ByRefund
  BY <1>4 DEF NoteInv
<1>6. month \in Nat /\ month \in 1 .. month
  BY DEF BaseInv
<1> DEFINE due == invoice # None /\ order.payment = "pending" /\ invoice.total > NotedAmount
<1>7. CASE ~due
  <2>1. notes' = notes
    BY <1>1, <1>7 DEF Cancel
  <2> QED BY <1>2, <1>4, <1>6, <2>1, NotesKept
<1>8. CASE due
  <2> DEFINE n == CancellationNote(up)
  <2>1. notes' = Append(notes, n)
    BY <1>1, <1>8 DEF Cancel
  <2>2. refunds = <<>>
    BY <1>8 DEF RefundInv
  <2>3. notes = <<>>
    <3>1. Len(notes) = 0 /\ notes \in Seq(NoteRows \union {None})
      BY <1>5, <2>2 DEF ByRefund, NoteInv
    <3> QED BY <3>1, EmptySeq
  <2>4. NotedAmount = 0 /\ NotedTax = 0
    BY <2>3, NothingNoted
  <2>5. invoice # None /\ invoice.total > 0
    BY <1>8, <2>4
  <2>6. /\ n \in NoteRows /\ n.reason = "cancellation" /\ n.month = month
        /\ n.amount = invoice.total /\ n.tax = invoice.tax
        /\ RowsSound(n.rows, invoice.tax, invoice.interstate)
        /\ invoice.tax > 0 => n.rows = invoice.rows
    BY <1>3, <1>6, <2>4, <2>5, CancellationIs
  <2> HIDE DEF n
  <2>7. notes' = <<n>> /\ notes' \in Seq(NoteRows \union {None}) /\ Len(notes') = 1 /\ notes'[1] = n
    BY <2>1, <2>3, <2>6
  <2>8. order'.payment = "pending" /\ order'.status = "cancelled"
    BY <1>2, <1>3, <1>8 DEF OrderRows
  <2>9. refunds' = <<>> /\ invoice' # None /\ n.month \in 1 .. month'
    BY <1>2, <1>6, <2>2, <2>5, <2>6
  <2>10. ByCancel'
    BY <1>2, <2>6, <2>7, <2>8, <2>9 DEF ByCancel
  <2> QED BY <2>7, <2>10 DEF NoteInv
<1> QED BY <1>7, <1>8

LEMMA NoteStep ==
  ASSUME BaseInv, BillInv, InvoiceInv, RefundInv, NoteInv, [Next]_vars
  PROVE  NoteInv'
<1>1. order # None => order' # None /\ Kept
  BY BillStep
<1>2. invoice # None => invoice' = invoice
  BY InvoiceStep
<1>3. month \in Nat
  BY DEF BaseInv
<1>4. notes # <<>> => order # None /\ invoice # None
  <2>1. ByCancel => order # None /\ invoice # None
    BY DEF ByCancel, InvoiceInv
  <2>2. ASSUME ByRefund, notes # <<>> PROVE order # None /\ invoice # None
    <3>1. Len(refunds) = Len(notes) /\ notes \in Seq(NoteRows \union {None})
      BY <2>2 DEF ByRefund, NoteInv
    <3>2. Len(notes) # 0
      BY <2>2, <3>1, EmptySeq
    <3>3. refunds # <<>>
      BY <3>1, <3>2
    <3> QED BY <3>3 DEF RefundInv
  <2> QED BY <2>1, <2>2 DEF NoteInv
<1>5. notes # <<>> => Kept /\ invoice' = invoice
  BY <1>1, <1>2, <1>4
<1>6. order # None => order \in OrderRows
  BY DEF BillInv
<1>7. CASE Neutral /\ notes' = notes
  BY <1>5, <1>7, NotesKept DEF Neutral
<1>8. CASE Neutral /\ Backfilling
  BY <1>8, BackfillKeeps
<1>9. ASSUME ~ByCancel, notes' = notes, refunds' = refunds, month' = month
      PROVE  NoteInv'
  BY <1>3, <1>5, <1>9, NotesKept
<1>10. CASE Ordering
  <2>1. /\ order = None /\ refunds' = refunds /\ notes' = notes /\ month' = month
    BY <1>10, BillIsPending
  <2>2. ~ByCancel
    BY <2>1 DEF ByCancel, InvoiceInv
  <2> QED BY <1>9, <2>1, <2>2
<1>11. CASE Pay
  BY <1>9, <1>11 DEF Pay, ByCancel
<1>12. CASE Dispatch
  BY <1>9, <1>12 DEF Dispatch, ByCancel
<1>13. CASE Placing
  BY <1>9, <1>13 DEF Placing, SetPlace, ByCancel
<1>14. CASE Refunding
  <2>1. Kept
    BY <1>1, <1>14, RefundIsGiven
  <2> QED BY <1>14, <2>1, RefundIsNoted
<1>15. CASE Cancelling
  <2>1. Kept
    BY <1>1, <1>15 DEF Cancelling, Cancel
  <2> QED BY <1>15, <2>1, CancellationIsNoted
<1> QED BY <1>7, <1>8, <1>10, <1>11, <1>12, <1>13, <1>14, <1>15, NeutralSteps

LEMMA InitHolds ==
  ASSUME Init
  PROVE  MoneyInv
<1>1. /\ shelf \in Shelves /\ home \in Homes /\ quote = None /\ order = None /\ invoice = None
      /\ refunds = <<>> /\ notes = <<>> /\ month = 1 /\ edits = 0
  BY DEF Init
<1>2. /\ Shelves \subseteq ShelfRows /\ Homes \subseteq Places /\ MaxEdits \in Nat /\ MaxRefunds \in Nat
      /\ MaxMonth \in Nat \ {0}
  BY PricingAssumption
<1>3. BaseInv
  BY <1>1, <1>2 DEF BaseInv
<1>4. QuoteInv
  BY <1>1 DEF QuoteInv
<1>5. BillInv
  BY <1>1 DEF BillInv
<1>6. InvoiceInv
  BY <1>1 DEF InvoiceInv
<1>7. RefundInv
  BY <1>1, <1>2 DEF RefundInv
<1>8. NoteInv
  BY <1>1 DEF NoteInv, ByRefund
<1> QED BY <1>3, <1>4, <1>5, <1>6, <1>7, <1>8 DEF MoneyInv

LEMMA StepHolds ==
  ASSUME MoneyInv, [Next]_vars
  PROVE  MoneyInv'
<1>1. BaseInv /\ QuoteInv /\ BillInv /\ InvoiceInv /\ RefundInv /\ NoteInv
  BY DEF MoneyInv
<1> QED BY <1>1, BaseStep, QuoteStep, BillStep, InvoiceStep, RefundStep, NoteStep DEF MoneyInv

(* The inductive invariant of the money: the quote is of the shelf as it   *)
(* is, the bill adds up, the invoice is the bill's, each refund is within  *)
(* it and each note is its refund's or the cancellation's.                 *)
THEOREM MoneyIsKept == Spec => []MoneyInv
<1>1. Init => MoneyInv
  BY InitHolds
<1>2. MoneyInv /\ [Next]_vars => MoneyInv'
  BY StepHolds
<1> QED BY <1>1, <1>2, PTL DEF Spec

-----------------------------------------------------------------------------
(***************************************************************************)
(* What the invariant says of the bill.                                    *)
(***************************************************************************)
LEMMA InvoiceRowsAre ==
  ASSUME BillInv, InvoiceInv, invoice # None
  PROVE  LET rows == invoice.rows
             bare == OrderTaxBreakdown
         IN  /\ order # None /\ order \in OrderRows /\ BillSound(order)
             /\ Slabs(rows) /\ DOMAIN rows = DOMAIN bare /\ DOMAIN rows \subseteq Percent
             /\ TaxOf(rows) = Whole /\ invoice.tax = Whole
             /\ \A r \in DOMAIN rows :
                  /\ HeadedRow(rows[r]) /\ rows[r].taxable = bare[r].taxable /\ rows[r].tax = bare[r].tax
                  /\ rows[r].tax >= 0
                  /\ IF invoice.interstate THEN rows[r].cgst = 0 /\ rows[r].sgst = 0 /\ rows[r].igst = rows[r].tax
                     ELSE rows[r].igst = 0 /\ 2 * rows[r].cgst <= rows[r].tax + 1 /\ rows[r].tax <= 2 * rows[r].cgst
             /\ Total([r \in DOMAIN rows |-> rows[r].taxable + rows[r].tax]) = GrossTotal
             /\ (\A i \in DOMAIN order.lines : Roomy(order.lines[i])) =>
                  \A r \in DOMAIN rows : rows[r].taxable >= 0
<1> DEFINE bare == OrderTaxBreakdown
           rows == invoice.rows
           i == invoice.interstate
<1>1. order # None /\ order \in OrderRows /\ BillSound(order)
  BY DEF InvoiceInv, BillInv
<1>2. invoice.tax = Whole
  BY DEF InvoiceInv
<1>3. rows = SnapshotRows(bare, i)
  BY DEF InvoiceInv, Headed
<1>4. /\ Slabs(bare) /\ DOMAIN bare \subseteq Percent
      /\ \A r \in DOMAIN bare : bare[r].tax >= 0
      /\ TaxOf(bare) = Whole
      /\ Total([r \in DOMAIN bare |-> bare[r].taxable + bare[r].tax]) = GrossTotal
      /\ (\A j \in DOMAIN order.lines : Roomy(order.lines[j])) =>
           \A r \in DOMAIN bare : bare[r].taxable >= 0
  BY <1>1, BreakdownIs DEF Whole
<1> HIDE DEF bare, rows, i
<1>5. /\ Slabs(rows) /\ DOMAIN rows = DOMAIN bare
      /\ TaxOf(rows) = TaxOf(bare)
      /\ \A r \in DOMAIN bare :
           /\ HeadedRow(rows[r]) /\ rows[r].taxable = bare[r].taxable /\ rows[r].tax = bare[r].tax
           /\ IF i THEN rows[r].cgst = 0 /\ rows[r].sgst = 0 /\ rows[r].igst = bare[r].tax
              ELSE rows[r].igst = 0 /\ 2 * rows[r].cgst <= bare[r].tax + 1 /\ bare[r].tax <= 2 * rows[r].cgst
  BY <1>3, <1>4, SnapshotIs
<1>6. [r \in DOMAIN rows |-> rows[r].taxable + rows[r].tax] = [r \in DOMAIN bare |-> bare[r].taxable + bare[r].tax]
  BY <1>5
<1>7. \A r \in DOMAIN rows : rows[r].tax >= 0
  BY <1>4, <1>5
<1>8. (\A j \in DOMAIN order.lines : Roomy(order.lines[j])) => \A r \in DOMAIN rows : rows[r].taxable >= 0
  BY <1>4, <1>5
<1>9. \A r \in DOMAIN rows :
        IF i THEN rows[r].cgst = 0 /\ rows[r].sgst = 0 /\ rows[r].igst = rows[r].tax
        ELSE rows[r].igst = 0 /\ 2 * rows[r].cgst <= rows[r].tax + 1 /\ rows[r].tax <= 2 * rows[r].cgst
  BY <1>5
<1>10. /\ DOMAIN rows \subseteq Percent /\ TaxOf(rows) = Whole
       /\ Total([r \in DOMAIN rows |-> rows[r].taxable + rows[r].tax]) = GrossTotal
  BY <1>4, <1>5, <1>6
<1>11. \A r \in DOMAIN rows : HeadedRow(rows[r]) /\ rows[r].taxable = bare[r].taxable /\ rows[r].tax = bare[r].tax
  BY <1>5
<1> QED BY <1>1, <1>2, <1>5, <1>7, <1>8, <1>9, <1>10, <1>11 DEF bare, rows, i

LEMMA QuoteTyped ==
  ASSUME BaseInv, QuoteInv, quote # None
  PROVE  0 <= quote.total /\ 0 <= quote.tax /\ quote.discount <= quote.subtotal
<1> DEFINE sub == Subtotal(quote.cart)
           off == DiscountFor(quote.coupon, sub)
<1>1. /\ quote.cart \in Carts /\ quote.coupon \in CouponRows
      /\ quote.subtotal = sub /\ quote.discount = off
      /\ quote.shipping \in Nat /\ quote.shipTax = ShippingTax(quote.shipping)
      /\ quote.total = sub - off + quote.shipping + quote.shipTax
      /\ quote.tax \in Nat
  BY DEF QuoteInv
<1>2. sub \in Nat
  BY <1>1, CartLines DEF BaseInv
<1>3. off \in 0 .. sub
  BY <1>1, <1>2, CouponTakes
<1>4. quote.shipTax \in Nat
  BY <1>1, ShippingIs
<1> HIDE DEF sub, off
<1> QED BY <1>1, <1>2, <1>3, <1>4

LEMMA NoteIsOfRefundOrAll ==
  ASSUME BillInv, RefundInv, NoteInv, NEW k \in Notes
  PROVE  /\ notes[k] \in NoteRows
         /\ \/ k \in DOMAIN refunds /\ \E up \in BOOLEAN : notes[k] = NoteOf(refunds[k], up)
            \/ k = 1 /\ ByCancel
<1>1. k \in DOMAIN notes /\ notes[k] # None
  BY DEF Notes
<1>2. Len(notes) \in Nat /\ DOMAIN notes = 1 .. Len(notes) /\ notes[k] \in NoteRows \union {None}
  BY <1>1, NotesAre
<1>3. notes[k] \in NoteRows
  BY <1>1, <1>2
<1>4. CASE ByRefund
  <2>1. Len(notes) = Len(refunds) /\ DOMAIN refunds = 1 .. Len(refunds)
    BY <1>4, RefundsAre DEF ByRefund, RefundInv
  <2>2. k \in DOMAIN refunds
    BY <1>1, <1>2, <2>1
  <2>3. \E up \in BOOLEAN : notes[k] = NoteOf(refunds[k], up)
    BY <1>1, <1>4 DEF ByRefund
  <2> QED BY <1>3, <2>2, <2>3
<1>5. CASE ByCancel
  <2>1. k = 1
    BY <1>1, <1>2, <1>5 DEF ByCancel
  <2> QED BY <1>3, <1>5, <2>1
<1> QED BY <1>4, <1>5 DEF NoteInv

LEMMA MoneyTyped ==
  ASSUME MoneyInv
  PROVE  TypeOK
<1>1. BaseInv /\ QuoteInv /\ BillInv /\ InvoiceInv /\ RefundInv /\ NoteInv
  BY DEF MoneyInv
<1>2. /\ month \in 1 .. MaxMonth /\ edits \in 0 .. MaxEdits /\ home \in Places
      /\ Len(refunds) <= MaxRefunds
  BY <1>1 DEF BaseInv, RefundInv
<1>3. quote # None => 0 <= quote.total /\ 0 <= quote.tax /\ quote.discount <= quote.subtotal
  BY <1>1, QuoteTyped
<1>4. order # None => BillTyped
  BY <1>1, BillIsTyped DEF BillInv
<1>5. invoice # None =>
        \A r \in DOMAIN invoice.rows :
          /\ 0 <= invoice.rows[r].tax
          /\ (\A i \in DOMAIN order.lines : Roomy(order.lines[i])) => 0 <= invoice.rows[r].taxable
  <2> SUFFICES ASSUME invoice # None, NEW r \in DOMAIN invoice.rows
               PROVE  /\ 0 <= invoice.rows[r].tax
                      /\ (\A i \in DOMAIN order.lines : Roomy(order.lines[i])) => 0 <= invoice.rows[r].taxable
    OBVIOUS
  <2>1. invoice.rows[r].tax >= 0 /\ HeadedRow(invoice.rows[r])
    BY <1>1, InvoiceRowsAre
  <2>2. invoice.rows[r].tax \in Int /\ invoice.rows[r].taxable \in Int
    BY <2>1 DEF HeadedRow
  <2>3. (\A i \in DOMAIN order.lines : Roomy(order.lines[i])) => invoice.rows[r].taxable >= 0
    BY <1>1, InvoiceRowsAre
  <2> QED BY <2>1, <2>2, <2>3
<1>6. \A k \in Notes : notes[k].amount > 0 /\ notes[k].tax >= 0
  <2> TAKE k \in Notes
  <2>1. notes[k] \in NoteRows
    BY <1>1, NoteIsOfRefundOrAll
  <2>2. notes[k].amount \in Nat \ {0} /\ notes[k].tax \in Nat
    BY <2>1 DEF NoteRows
  <2> QED BY <2>2
<1> QED BY <1>2, <1>3, <1>4, <1>5, <1>6 DEF TypeOK, BillTyped

LEMMA SlabsAdd ==
  ASSUME MoneyInv
  PROVE  SlabsReconcile
<1>1. BillInv /\ InvoiceInv
  BY DEF MoneyInv
<1> SUFFICES ASSUME invoice # None
             PROVE  LET rows == invoice.rows
                    IN  /\ NoRate \notin DOMAIN rows
                        /\ Total([r \in DOMAIN rows |-> rows[r].tax]) = invoice.tax
                        /\ Total([r \in DOMAIN rows |-> rows[r].taxable + rows[r].tax])
                             = Total([s \in Supplies |-> Gross(s)])
                        /\ \A r \in DOMAIN rows : Heads(rows[r]) = rows[r].tax
  BY DEF SlabsReconcile
<1>2. DOMAIN invoice.rows \subseteq Percent
  BY <1>1, InvoiceRowsAre
<1>3. NoRate \notin Percent
  BY DEF NoRate, Percent
<1>4. Total([r \in DOMAIN invoice.rows |-> invoice.rows[r].tax]) = invoice.tax
  BY <1>1, InvoiceRowsAre DEF TaxOf
<1>5. Total([r \in DOMAIN invoice.rows |-> invoice.rows[r].taxable + invoice.rows[r].tax])
        = Total([s \in Supplies |-> Gross(s)])
  BY <1>1, InvoiceRowsAre DEF GrossTotal
<1>6. \A r \in DOMAIN invoice.rows : HeadedRow(invoice.rows[r])
  BY <1>1, InvoiceRowsAre
<1> QED BY <1>2, <1>3, <1>4, <1>5, <1>6 DEF HeadedRow

LEMMA QrAsks ==
  ASSUME MoneyInv
  PROVE  QrAsksForTheGoods
<1> SUFFICES ASSUME quote # None
             PROVE  QrAmount(quote.cart, quote.coupon)
                      = quote.subtotal - IF quote.coupon.kind = "fixed" THEN 0 ELSE quote.discount
  BY DEF QrAsksForTheGoods
<1> DEFINE sub == Subtotal(quote.cart)
           c == quote.coupon
<1>1. BaseInv /\ QuoteInv
  BY DEF MoneyInv
<1>2. quote.cart \in Carts /\ c \in CouponRows /\ quote.subtotal = sub /\ quote.discount = DiscountFor(c, sub)
  BY <1>1 DEF QuoteInv
<1>3. sub \in Nat
  BY <1>1, <1>2, CartLines DEF BaseInv
<1>4. QrAmount(quote.cart, c) = sub - HalfEven(sub * (IF c.kind = "percent" THEN c.value ELSE 0), 100)
  BY DEF QrAmount
<1> HIDE DEF sub, c
<1>5. sub * 0 = 100 * 0 /\ 100 * 0 = 0 /\ 0 \in Int /\ 100 \in Nat \ {0}
  BY <1>3
<1>6. HalfEven(sub * 0, 100) = 0
  <2>1. HalfEven(0, 100) \in Int /\ Near(HalfEven(0, 100), 0, 100)
    BY <1>5, HalfEvenIs
  <2>2. HalfEven(0, 100) = 0
    BY <1>5, <2>1, NearWhole
  <2> QED BY <1>5, <2>2
<1>7. CASE c = NoCoupon
  <2>1. c.kind = "none"
    BY <1>7 DEF NoCoupon
  <2>2. DiscountFor(c, sub) = 0
    BY <2>1 DEF DiscountFor
  <2> QED BY <1>2, <1>4, <1>6, <2>1, <2>2 DEF sub, c
<1>8. CASE c \in [kind : {"percent"}, value : 1 .. 100, minimum : Nat]
  <2>1. c.kind = "percent" /\ c.value \in 1 .. 100
    BY <1>8
  <2>2. Min({c.value, 100}) = c.value
    <3>1. c.value \in Int /\ 100 \in Int /\ c.value <= 100
      BY <2>1
    <3> QED BY ONLY <3>1, LesserOf
  <2>3. DiscountFor(c, sub) = HalfEven(sub * Min({c.value, 100}), 100)
    BY <2>1 DEF DiscountFor
  <2> QED BY <1>2, <1>4, <2>1, <2>2, <2>3 DEF sub, c
<1>9. CASE c \in [kind : {"fixed"}, value : Nat, minimum : Nat]
  <2>1. c.kind = "fixed"
    BY <1>9
  <2> QED BY <1>2, <1>4, <1>6, <2>1 DEF sub, c
<1> QED BY <1>2, <1>7, <1>8, <1>9 DEF CouponRows

(* Of every catalogue, cart and coupon: the bill reconciles with its lines *)
(* and their components, with the slabs of its tax and with the QR code.   *)
THEOREM BillAlwaysReconciles == Spec => []BillReconciles
<1>1. ASSUME MoneyInv PROVE BillReconciles
  <2>1. BillInv
    BY <1>1 DEF MoneyInv
  <2>2. SplitExact /\ RowsNearHeader
    <3>1. order # None => SplitExact /\ RowsNearHeader
      BY <2>1, BillSplits, BillIsNearHeader DEF BillInv
    <3> QED BY <3>1 DEF SplitExact, RowsNearHeader
  <2> QED BY <1>1, <2>2, MoneyTyped, SlabsAdd, QrAsks DEF BillReconciles
<1> QED BY <1>1, MoneyIsKept, PTL

-----------------------------------------------------------------------------
(***************************************************************************)
(* Quotes hold, papers stand.                                              *)
(***************************************************************************)
LEMMA OnlyCheckoutBills ==
  ASSUME [Next]_vars, order = None, order' # order
  PROVE  Ordering
<1>1. CASE Quoting
  BY <1>1 DEF Quoting, ViewCart, ValidateCoupon, Quote
<1>2. CASE Pay \/ Dispatch
  BY <1>2 DEF Pay, Dispatch
<1>3. CASE Refunding
  BY <1>3 DEF Refunding, RecordRefund
<1>4. CASE Backfilling
  BY <1>4 DEF Backfilling, BackfillNote
<1>5. CASE Cancelling
  BY <1>5 DEF Cancelling, Cancel
<1>6. CASE EditShelf
  BY <1>6 DEF EditShelf, Edit
<1>7. CASE Placing \/ Moving
  BY <1>7 DEF Placing, Moving, SetPlace, SellerMoves
<1>8. CASE NextMonth \/ UNCHANGED vars
  BY <1>8 DEF NextMonth, vars
<1> QED BY <1>1, <1>2, <1>3, <1>4, <1>5, <1>6, <1>7, <1>8, NextIs

LEMMA QuoteIsCharged ==
  ASSUME MoneyInv, [Next]_vars, quote # None, quote.subtotal > 0, order' # order
  PROVE  /\ quote.discount = order'.discount
         /\ quote.shipping = order'.shipping /\ quote.shipTax = order'.shipTax
         /\ quote.total = order'.total
         /\ quote.coupon = NoCoupon \/ order'.discount = order'.subtotal => quote.tax = order'.tax
<1>1. BaseInv /\ QuoteInv
  BY DEF MoneyInv
<1>2. order = None
  BY <1>1 DEF QuoteInv
<1>3. PICK cart \in Carts, coupon \in Coupons, place \in Places \union {"nowhere"} :
        \E up \in Tilts(Lines(cart)) : CreateOrder(cart, coupon, place, up)
  BY <1>2, OnlyCheckoutBills DEF Ordering
<1>4. PICK up \in Tilts(Lines(cart)) : CreateOrder(cart, coupon, place, up)
  BY <1>3
<1>5. quote.cart = cart /\ quote.coupon = coupon
  BY <1>4 DEF CreateOrder
<1> DEFINE sub == Subtotal(cart)
           d == DiscountFor(coupon, sub)
           free == coupon # NoCoupon /\ d = sub
           billed == Total([i \in Lines(cart) |->
                    IF i \in Goods THEN ExtractTax(LineTotal(cart, i), shelf.rate[i])
                    ELSE PartsTax(Parts(i, LineTotal(cart, i), cart[i]))])
<1>6. /\ order' \in OrderRows /\ BillSound(order')
      /\ order'.subtotal = sub /\ order'.discount = d
      /\ order'.shipping = IF free THEN 0 ELSE Shipping(sub - d)
      /\ free => order'.tax = 0
      /\ d = 0 /\ ~free => order'.tax = billed
  BY <1>1, <1>4, BillIs DEF BaseInv
<1>7. /\ quote.subtotal = sub /\ quote.discount = d
      /\ quote.shipTax = ShippingTax(quote.shipping)
      /\ sub > 0 => quote.shipping = IF free THEN 0 ELSE Shipping(sub - d)
      /\ quote.total = sub - d + quote.shipping + quote.shipTax
      /\ coupon = NoCoupon => quote.tax = CartTax(cart)
      /\ free => quote.tax = 0
  BY <1>1, <1>5 DEF QuoteInv
<1>8. CartTax(cart) = billed
  BY DEF CartTax
<1>9. coupon = NoCoupon => d = 0
  BY NoCouponIs
<1>10. sub > 0
  BY <1>7
<1> HIDE DEF sub, d, billed
<1>11. order'.shipTax = ShippingTax(order'.shipping) /\ order'.total = sub - d + order'.shipping + order'.shipTax
  BY <1>6 DEF BillSound
<1>12. quote.discount = order'.discount /\ quote.shipping = order'.shipping
  BY <1>6, <1>7, <1>10
<1>13. quote.shipTax = order'.shipTax
  BY <1>7, <1>11, <1>12
<1>14. quote.total = order'.total
  BY <1>7, <1>11, <1>12, <1>13
<1>15. coupon = NoCoupon => quote.tax = order'.tax
  BY <1>6, <1>7, <1>8, <1>9, <1>10
<1>16. order'.discount = order'.subtotal => quote.tax = order'.tax
  BY <1>6, <1>7, <1>9, <1>10, <1>15
<1> QED BY <1>5, <1>12, <1>13, <1>14, <1>15, <1>16

(* Whatever is in the catalogue: discount, delivery and total of a quote   *)
(* are the bill's to the paisa, unless the shelf was edited in between.    *)
THEOREM QuoteAlwaysHolds == Spec => QuoteHolds
<1>1. MoneyInv /\ [Next]_vars =>
        [quote # None /\ quote.subtotal > 0 /\ order' # order =>
           /\ quote.discount = order'.discount
           /\ quote.shipping = order'.shipping /\ quote.shipTax = order'.shipTax
           /\ quote.total = order'.total
           /\ quote.coupon = NoCoupon \/ order'.discount = order'.subtotal => quote.tax = order'.tax]_vars
  BY QuoteIsCharged
<1> QED BY <1>1, MoneyIsKept, PTL DEF Spec, QuoteHolds

----------------------------------------------------------------------------
LEMMA InvoiceIsDated ==
  ASSUME MoneyInv, [Next]_vars, invoice = None, invoice' # None
  PROVE  invoice'.month = month
<1>1. BaseInv /\ BillInv /\ InvoiceInv /\ RefundInv /\ NoteInv
  BY DEF MoneyInv
<1>2. CASE Pay \/ Dispatch
  <2>1. invoice' = BuildInvoiceSnapshot
    BY <1>2 DEF Pay, Dispatch, Issued
  <2> QED BY <2>1 DEF BuildInvoiceSnapshot
<1>3. CASE Neutral
  BY <1>3 DEF Neutral
<1>4. CASE Ordering
  BY <1>1, <1>4, BillIsPending
<1>5. CASE Refunding
  BY <1>5 DEF Refunding, RecordRefund
<1>6. CASE Cancelling \/ Placing
  BY <1>6 DEF Cancelling, Cancel, Placing, SetPlace
<1> QED BY <1>1, <1>2, <1>3, <1>4, <1>5, <1>6, NeutralSteps

LEMMA InvoicedStands ==
  ASSUME MoneyInv, [Next]_vars, NEW m \in 1 .. month - 1
  PROVE  /\ HsnSummary(m)' = HsnSummary(m)
         /\ InvoiceBlock(m)' = InvoiceBlock(m)
         /\ B2cGross(m)' = B2cGross(m)
<1>1. BaseInv /\ BillInv /\ InvoiceInv /\ RefundInv /\ NoteInv
  BY DEF MoneyInv
<1>2. CASE invoice # None
  <2>1. invoice' = invoice
    BY <1>1, <1>2, InvoiceStep
  <2>2. SameBill
    BY <1>1, <1>2, BillStep DEF InvoiceInv, Kept
  <2>3. InvoicedIn(m)' = InvoicedIn(m)
    BY <2>1 DEF InvoicedIn
  <2>4. InvoiceBlock(m)' = InvoiceBlock(m) /\ B2cGross(m)' = B2cGross(m)
    BY <2>1, <2>3 DEF InvoiceBlock, B2cGross
  <2>5. HsnSummary(m)' = HsnSummary(m)
    BY <2>2, <2>3, SameSupplies DEF HsnSummary
  <2> QED BY <2>4, <2>5
<1>3. CASE invoice = None
  <2>1. InvoicedIn(m) = FALSE
    BY <1>3 DEF InvoicedIn
  <2>2. InvoicedIn(m)' = FALSE
    <3>1. CASE invoice' = None
      BY <3>1 DEF InvoicedIn, None
    <3>2. CASE invoice' # None
      <4>1. invoice'.month = month /\ month \in Nat
        BY <1>1, <1>3, <3>2, InvoiceIsDated DEF BaseInv
      <4> QED BY <4>1 DEF InvoicedIn, None
    <3> QED BY <3>1, <3>2
  <2>3. InvoiceBlock(m)' = InvoiceBlock(m) /\ B2cGross(m)' = B2cGross(m)
    BY <2>1, <2>2 DEF InvoiceBlock, B2cGross
  <2>4. HsnSummary(m)' = HsnSummary(m)
    <3> DEFINE t(T) == [key \in {<<HsnOf(s), RateOf(s)>> : s \in T} |->
        LET slab == {s \in T : <<HsnOf(s), RateOf(s)>> = key}
        IN  [quantity |-> Total([s \in slab |-> Units(s)]),
             total |-> Total([s \in slab |-> Gross(s)]),
             tax |-> Total([s \in slab |-> BilledTax(s)])]]
    <3>1. HsnSummary(m) = t({})
      BY <2>1 DEF HsnSummary
    <3>2. HsnSummary(m)' = t({})'
      BY <2>2 DEF HsnSummary
    <3>3. t({}) = [key \in {} |-> 0] /\ t({})' = [key \in {} |-> 0]
      OBVIOUS
    <3> HIDE DEF t
    <3> QED BY <3>1, <3>2, <3>3
  <2> QED BY <2>3, <2>4
<1> QED BY <1>2, <1>3

-----------------------------------------------------------------------------
\* Late notes of the month m: those of its refunds that had none.
LateNote(m) == \E k \in DOMAIN refunds : refunds[k].month = m /\ notes[k] = None /\ notes'[k] # None

LEMMA SameCredits ==
  ASSUME NEW m, CreditNotesIn(m)' = CreditNotesIn(m), \A k \in CreditNotesIn(m) : notes'[k] = notes[k]
  PROVE  CreditBlock(m)' = CreditBlock(m)
<1> DEFINE C == CreditNotesIn(m)
           t(T) == Block(Total([k \in T |-> notes[k].amount]), Total([k \in T |-> notes[k].tax]),
                         SumHeads([k \in T |-> HeadsOf(notes[k].rows)]))
           u(T) == Block(Total([k \in T |-> notes'[k].amount]), Total([k \in T |-> notes'[k].tax]),
                         SumHeads([k \in T |-> HeadsOf(notes'[k].rows)]))
<1>1. CreditBlock(m) = t(C) /\ CreditBlock(m)' = u(C')
  BY DEF CreditBlock, Block, SumHeads, HeadsOf, Column
<1>2. C' = C
  OBVIOUS
<1>3. \A k \in C : notes'[k] = notes[k]
  OBVIOUS
<1>4. /\ [k \in C |-> notes'[k].amount] = [k \in C |-> notes[k].amount]
      /\ [k \in C |-> notes'[k].tax] = [k \in C |-> notes[k].tax]
      /\ [k \in C |-> HeadsOf(notes'[k].rows)] = [k \in C |-> HeadsOf(notes[k].rows)]
  <2> HIDE DEF C
  <2> QED BY <1>3
<1>5. u(C) = t(C)
  BY <1>4
<1> HIDE DEF C, t, u
<1> QED BY <1>1, <1>2, <1>5

\* A note added now is of this month, or of none.
LEMMA AppendedIsOfNow ==
  ASSUME NoteInv, BaseInv, NEW x, notes' = Append(notes, x), x = None \/ x.month = month,
         x \in NoteRows \union {None},
         NEW m \in 1 .. month - 1
  PROVE  CreditBlock(m)' = CreditBlock(m)
<1> DEFINE n == Len(notes)
<1>1. n \in Nat /\ DOMAIN notes = 1 .. n /\ notes \in Seq(NoteRows \union {None}) /\ month \in Nat
  BY NotesAre DEF NoteInv, BaseInv
<1>2. DOMAIN notes' = 1 .. n + 1 /\ notes'[n + 1] = x /\ \A k \in 1 .. n : notes'[k] = notes[k]
  BY <1>1
<1> HIDE DEF n
<1>3. \A k \in 1 .. n + 1 : k = n + 1 \/ k \in 1 .. n
  BY <1>1
<1>4. Notes' = {k \in DOMAIN notes' : notes'[k] # None} /\ Notes = {k \in DOMAIN notes : notes[k] # None}
  BY DEF Notes, None
<1>5. /\ CreditNotesIn(m)' = {k \in Notes' : notes'[k].month = m}
      /\ CreditNotesIn(m) = {k \in Notes : notes[k].month = m}
  BY DEF CreditNotesIn
<1>6. x = None \/ x.month # m
  BY <1>1
<1>7. CreditNotesIn(m)' = CreditNotesIn(m)
  <2>1. \A k \in 1 .. n : k \in 1 .. n + 1
    BY <1>1
  <2>2. n + 1 \notin CreditNotesIn(m)'
    BY <1>2, <1>4, <1>5, <1>6
  <2>3. n + 1 \notin 1 .. n
    BY <1>1
  <2>4. \A k : k \in CreditNotesIn(m)' => k \in 1 .. n /\ notes'[k] = notes[k] /\ k \in CreditNotesIn(m)
    BY <1>1, <1>2, <1>3, <1>4, <1>5, <2>2
  <2>5. \A k : k \in CreditNotesIn(m) => k \in CreditNotesIn(m)'
    BY <1>1, <1>2, <1>4, <1>5, <2>1
  <2> QED BY <2>4, <2>5
<1>8. \A k \in CreditNotesIn(m) : notes'[k] = notes[k]
  BY <1>1, <1>2, <1>4, <1>5
<1> QED BY <1>7, <1>8, SameCredits

LEMMA LateOrNotOfIt ==
  ASSUME BillInv, RefundInv, NoteInv, Neutral, Backfilling, NEW m, ~LateNote(m)
  PROVE  CreditBlock(m)' = CreditBlock(m)
<1>1. PICK k \in DOMAIN notes, up \in BOOLEAN : BackfillNote(k, up)
  BY DEF Backfilling
<1> DEFINE x == NoteOf(refunds[k], up)
<1>2. notes[k] = None /\ notes' = [notes EXCEPT ![k] = x]
  BY <1>1 DEF BackfillNote
<1>3. Len(notes) \in Nat /\ DOMAIN notes = 1 .. Len(notes) /\ notes \in Seq(NoteRows \union {None})
  BY NotesAre DEF NoteInv
<1>4. ~ByCancel
  <2>1. SUFFICES ASSUME ByCancel PROVE FALSE
    OBVIOUS
  <2>2. k = 1 /\ notes[1] \in NoteRows
    BY <1>1, <1>3, <2>1 DEF ByCancel
  <2> QED BY <1>2, <2>2, NoteIsNotNone
<1>5. ByRefund
  BY <1>4 DEF NoteInv
<1>6. k \in DOMAIN refunds
  <2>1. Len(notes) = Len(refunds) /\ DOMAIN refunds = 1 .. Len(refunds)
    BY <1>5, RefundsAre DEF ByRefund, RefundInv
  <2> QED BY <1>3, <2>1
<1>7. x \in NoteRows /\ x.month = refunds[k].month
  <2>1. refunds[k] \in RefundRows /\ refunds[k].tax <= Whole /\ order \in OrderRows /\ BillSound(order)
    BY <1>6, EachRefund
  <2> QED BY <2>1, NoteIs
<1>8. x # None
  BY <1>7, NoteIsNotNone
<1> HIDE DEF x
<1>9. /\ DOMAIN notes' = DOMAIN notes /\ notes'[k] = x
      /\ \A j \in DOMAIN notes \ {k} : notes'[j] = notes[j]
  BY <1>1, <1>2, <1>3
<1>10. refunds[k].month # m
  BY <1>2, <1>6, <1>8, <1>9 DEF LateNote
<1>11. Notes' = {j \in DOMAIN notes' : notes'[j] # None} /\ Notes = {j \in DOMAIN notes : notes[j] # None}
  BY DEF Notes, None
<1>12. /\ CreditNotesIn(m)' = {j \in Notes' : notes'[j].month = m}
       /\ CreditNotesIn(m) = {j \in Notes : notes[j].month = m}
  BY DEF CreditNotesIn
<1>13. k \notin CreditNotesIn(m)' /\ k \notin CreditNotesIn(m)
  BY <1>2, <1>7, <1>9, <1>10, <1>11, <1>12
<1>14. \A j : j # k => (j \in CreditNotesIn(m)' <=> j \in CreditNotesIn(m))
  BY <1>9, <1>11, <1>12
<1>15. CreditNotesIn(m)' = CreditNotesIn(m)
  BY <1>13, <1>14
<1>16. \A j \in CreditNotesIn(m) : notes'[j] = notes[j]
  BY <1>9, <1>11, <1>12, <1>13
<1> QED BY <1>15, <1>16, SameCredits

LEMMA CreditsStand ==
  ASSUME MoneyInv, [Next]_vars, NEW m \in 1 .. month - 1, CreditBlock(m)' # CreditBlock(m)
  PROVE  LateNote(m)
<1>1. BaseInv /\ BillInv /\ InvoiceInv /\ RefundInv /\ NoteInv
  BY DEF MoneyInv
<1>2. notes' # notes
  BY DEF CreditBlock, CreditNotesIn, Notes, None
<1>3. CASE Neutral /\ Backfilling
  BY <1>1, <1>3, LateOrNotOfIt
<1>4. CASE Ordering
  BY <1>1, <1>2, <1>4, BillIsPending
<1>5. CASE Pay \/ Dispatch \/ Placing
  BY <1>2, <1>5 DEF Pay, Dispatch, Placing, SetPlace
<1>6. CASE Refunding
  <2>1. /\ order \in OrderRows /\ BillSound(order) /\ RefundedTax \in Nat /\ RefundedTax <= Whole
    BY <1>1, <1>6, RefundIsGiven
  <2>2. PICK refund \in RefundRows, up \in BOOLEAN, noted \in BOOLEAN :
          Given(refund) /\ notes' = Append(notes, IF noted THEN NoteOf(refund, up) ELSE None)
    BY <1>1, <1>6, RefundIsGiven
  <2> DEFINE x == IF noted THEN NoteOf(refund, up) ELSE None
  <2>3. refund.month = month /\ refund.tax <= Whole
    <3>1. Whole \in Nat /\ refund.tax \in Nat /\ refund.tax <= Whole - RefundedTax
      BY <2>1, <2>2, FiguresOfTheBill DEF Given, RefundRows
    <3> QED BY <2>1, <2>2, <3>1 DEF Given
  <2>4. x \in NoteRows \union {None} /\ (x = None \/ x.month = month)
    BY <2>1, <2>3, NoteIs
  <2> HIDE DEF x
  <2>5. notes' = Append(notes, x)
    BY <2>2 DEF x
  <2> QED BY <1>1, <2>4, <2>5, AppendedIsOfNow
<1>7. CASE Cancelling
  <2>1. PICK up \in BOOLEAN : Cancel(up)
    BY <1>7 DEF Cancelling
  <2> DEFINE x == CancellationNote(up)
  <2>2. /\ order # None /\ order.status \in {"placed", "shipped"}
        /\ invoice # None /\ order.payment = "pending" /\ invoice.total > NotedAmount
        /\ notes' = Append(notes, x)
    BY <1>2, <2>1 DEF Cancel
  <2>3. order \in OrderRows /\ BillSound(order)
    BY <1>1, <2>2 DEF BillInv
  <2>4. ByRefund /\ refunds = <<>>
    BY <1>1, <2>2 DEF ByCancel, NoteInv, RefundInv
  <2>5. notes = <<>>
    <3>1. Len(notes) = 0 /\ notes \in Seq(NoteRows \union {None})
      BY <1>1, <2>4 DEF ByRefund, NoteInv
    <3> QED BY <3>1, EmptySeq
  <2>6. NotedAmount = 0 /\ NotedTax = 0 /\ invoice.total > 0 /\ month \in Nat
    BY <1>1, <2>2, <2>5, NothingNoted DEF BaseInv
  <2>7. x \in NoteRows /\ x.month = month
    BY <1>1, <2>2, <2>3, <2>6, CancellationIs
  <2> HIDE DEF x
  <2> QED BY <1>1, <2>2, <2>7, AppendedIsOfNow
<1> QED BY <1>1, <1>2, <1>3, <1>4, <1>5, <1>6, <1>7, NeutralSteps

LEMMA ReprintIsTheSame ==
  ASSUME MoneyInv, [Next]_vars, invoice # None
  PROVE  PrintedInvoice' = PrintedInvoice
<1>1. invoice' = invoice
  BY InvoiceStep DEF MoneyInv
<1> QED BY <1>1 DEF PrintedInvoice, PrintedMeta, PrintedParties, PrintedLines, PrintedTotals, PrintedSlabs

(* Filed returns and printed invoices stand, whatever the staff edit: of   *)
(* an earlier month only the late note of one of its refunds is added.     *)
THEOREM PapersAlwaysStand == Spec => PapersStand
<1> DEFINE Filed == \A m \in 1 .. month - 1 :
             /\ HsnSummary(m)' = HsnSummary(m)
             /\ InvoiceBlock(m)' = InvoiceBlock(m)
             /\ B2cGross(m)' = B2cGross(m)
             /\ CreditBlock(m)' # CreditBlock(m) => LateNote(m)
           Printed == invoice # None => PrintedInvoice' = PrintedInvoice
<1>1. MoneyInv /\ [Next]_vars => [Filed]_vars
  BY InvoicedStands, CreditsStand
<1>2. MoneyInv /\ [Next]_vars => [Printed]_vars
  BY ReprintIsTheSame
<1>3. FiledStands <=> [][Filed]_vars
  BY PTL DEF FiledStands, LateNote
<1>4. PrintStands <=> [][Printed]_vars
  BY PTL DEF PrintStands
<1> HIDE DEF Filed, Printed
<1> QED BY <1>1, <1>2, <1>3, <1>4, MoneyIsKept, PTL DEF Spec, PapersStand

-----------------------------------------------------------------------------
(***************************************************************************)
(* Notes stay within the invoice they reverse.                             *)
(***************************************************************************)
\* What some of the refunds come to is no more than all of them.
LEMMA SomeOfAll ==
  ASSUME NEW f, IsFiniteSet(DOMAIN f), \A x \in DOMAIN f : f[x] \in Nat,
         NEW A \in SUBSET DOMAIN f, NEW g, DOMAIN g = A, \A x \in A : g[x] = f[x]
  PROVE  Total(g) \in Nat /\ Total(f) \in Nat /\ Total(g) <= Total(f)
<1> DEFINE h == [x \in DOMAIN f \ A |-> f[x]]
<1>1. Amounts(f)
  BY DEF Amounts
<1>2. DOMAIN h = DOMAIN f \ A /\ \A x \in DOMAIN f \ A : h[x] = f[x]
  OBVIOUS
<1> HIDE DEF h
<1>3. Total(f) = Total(g) + Total(h)
  <2>1. A \in SUBSET DOMAIN f /\ DOMAIN g = A /\ \A x \in A : g[x] = f[x]
    OBVIOUS
  <2> QED BY ONLY <1>1, <1>2, <2>1, TotalInParts
<1>4. IsFiniteSet(A) /\ IsFiniteSet(DOMAIN f \ A)
  BY FS_Subset
<1>5. Total(g) \in Nat
  BY <1>4, TotalIsNat
<1>6. Total(h) \in Nat
  BY <1>2, <1>4, TotalIsNat
<1> QED BY <1>3, <1>5, <1>6

LEMMA NotedIsRefunded ==
  ASSUME BillInv, RefundInv, NoteInv, ByRefund
  PROVE  NotedAmount \in Nat /\ NotedAmount <= Refunded /\ NotedTax \in Nat /\ NotedTax <= RefundedTax
<1> DEFINE f == [k \in DOMAIN refunds |-> refunds[k].amount]
           t == [k \in DOMAIN refunds |-> refunds[k].tax]
           g == [k \in Notes |-> notes[k].amount]
           u == [k \in Notes |-> notes[k].tax]
           D == DOMAIN refunds
<1>1. Len(refunds) \in Nat /\ D = 1 .. Len(refunds) /\ \A k \in D : refunds[k] \in RefundRows
  BY RefundsAre DEF RefundInv
<1>2. IsFiniteSet(D)
  BY <1>1, UpToIsFinite
<1>3. \A k \in D : refunds[k].amount \in Nat /\ refunds[k].tax \in Nat
  BY <1>1 DEF RefundRows
<1>4. Notes \in SUBSET D
  BY <1>1, NotesAre DEF ByRefund, Notes
<1>5. \A k \in Notes : notes[k].amount = refunds[k].amount /\ notes[k].tax = refunds[k].tax
  BY DEF ByRefund, Notes, NoteOf
<1>6. /\ DOMAIN f = D /\ DOMAIN t = D /\ DOMAIN g = Notes /\ DOMAIN u = Notes
      /\ \A k \in D : f[k] \in Nat /\ t[k] \in Nat
      /\ \A k \in Notes : g[k] = f[k] /\ u[k] = t[k]
  BY <1>3, <1>4, <1>5
<1>7. Refunded = Total(f) /\ RefundedTax = Total(t) /\ NotedAmount = Total(g) /\ NotedTax = Total(u)
  BY DEF Refunded, RefundedTax, NotedAmount, NotedTax
<1> HIDE DEF f, t, g, u, D
<1>8. Total(g) \in Nat /\ Total(f) \in Nat /\ Total(g) <= Total(f)
  BY <1>2, <1>4, <1>6, SomeOfAll
<1>9. Total(u) \in Nat /\ Total(t) \in Nat /\ Total(u) <= Total(t)
  BY <1>2, <1>4, <1>6, SomeOfAll
<1> QED BY <1>7, <1>8, <1>9

LEMMA CancelledIsAll ==
  ASSUME NoteInv, ByCancel
  PROVE  NotedAmount = invoice.total /\ NotedTax = invoice.tax
<1> DEFINE g == [k \in Notes |-> notes[k].amount]
           u == [k \in Notes |-> notes[k].tax]
<1>1. DOMAIN notes = {1} /\ notes[1] \in NoteRows
  BY NotesAre DEF ByCancel
<1>2. notes[1] # None /\ notes[1].amount \in Int /\ notes[1].tax \in Int
  BY <1>1, NoteIsNotNone DEF NoteRows
<1>3. Notes = {1}
  BY <1>1, <1>2 DEF Notes
<1>4. DOMAIN g = {1} /\ g[1] = notes[1].amount /\ DOMAIN u = {1} /\ u[1] = notes[1].tax
  BY <1>3
<1>5. NotedAmount = Total(g) /\ NotedTax = Total(u)
  BY DEF NotedAmount, NotedTax
<1> HIDE DEF g, u
<1>6. Total(g) = notes[1].amount /\ Total(u) = notes[1].tax
  BY <1>2, <1>4, SumOfSingle, TotalIs
<1> QED BY <1>5, <1>6 DEF ByCancel

LEMMA NotesAreWithin ==
  ASSUME MoneyInv
  PROVE  NotedAmount > 0 => NotedAmount <= invoice.total /\ NotedTax <= invoice.tax
<1>1. BillInv /\ InvoiceInv /\ RefundInv /\ NoteInv
  BY DEF MoneyInv
<1>2. CASE ByCancel
  <2>1. NotedAmount = invoice.total /\ NotedTax = invoice.tax
    BY <1>1, <1>2, CancelledIsAll
  <2>2. invoice.total \in Nat /\ invoice.tax \in Nat
    <3>1. order \in OrderRows /\ BillSound(order) /\ invoice.total = order.total /\ invoice.tax = Whole
      BY <1>1, <1>2 DEF ByCancel, InvoiceInv, BillInv
    <3> QED BY <3>1, FiguresOfTheBill
  <2> QED BY <2>1, <2>2
<1>3. CASE ByRefund
  <2>1. NotedAmount \in Nat /\ NotedAmount <= Refunded /\ NotedTax \in Nat /\ NotedTax <= RefundedTax
    BY <1>1, <1>3, NotedIsRefunded
  <2>2. Refunded \in Nat /\ RefundedTax \in Nat /\ (refunds = <<>> => Refunded = 0)
    BY <1>1, RefundsAre DEF RefundInv
  <2>3. CASE refunds = <<>>
    BY <2>1, <2>2, <2>3
  <2>4. CASE refunds # <<>>
    <3>1. order # None /\ invoice # None /\ Refunded <= order.total /\ RefundedTax <= Whole
      BY <1>1, <2>4 DEF RefundInv
    <3>2. order \in OrderRows /\ BillSound(order) /\ invoice.total = order.total /\ invoice.tax = Whole
      BY <1>1, <3>1 DEF InvoiceInv, BillInv
    <3>3. order.total \in Nat /\ Whole \in Nat
      BY <3>2, FiguresOfTheBill
    <3> QED BY <2>1, <2>2, <3>1, <3>2, <3>3
  <2> QED BY <2>3, <2>4
<1> QED BY <1>1, <1>2, <1>3 DEF NoteInv

LEMMA NoteReverses ==
  ASSUME MoneyInv, NEW k \in Notes
  PROVE  /\ RowsSound(notes[k].rows, notes[k].tax, invoice.interstate)
         /\ notes[k].amount = invoice.total =>
              notes[k].tax = invoice.tax /\ (invoice.tax > 0 => notes[k].rows = invoice.rows)
<1>1. BillInv /\ InvoiceInv /\ RefundInv /\ NoteInv
  BY DEF MoneyInv
<1>2. CASE k = 1 /\ ByCancel
  BY <1>2 DEF ByCancel
<1>3. CASE k \in DOMAIN refunds /\ \E up \in BOOLEAN : notes[k] = NoteOf(refunds[k], up)
  <2>1. PICK up \in BOOLEAN : notes[k] = NoteOf(refunds[k], up)
    BY <1>3
  <2> DEFINE r == refunds[k]
  <2>2. /\ r \in RefundRows /\ r.tax <= Whole
        /\ r.amount = order.total => r.tax = Whole
        /\ order # None /\ order \in OrderRows /\ BillSound(order) /\ invoice # None
    BY <1>1, <1>3, EachRefund
  <2>3. invoice.total = order.total /\ invoice.tax = Whole /\ invoice.rows = Headed
    BY <1>1, <2>2 DEF InvoiceInv
  <2>4. /\ notes[k].amount = r.amount /\ notes[k].tax = r.tax
        /\ RowsSound(notes[k].rows, notes[k].tax, invoice.interstate)
        /\ r.tax = Whole /\ Whole > 0 => notes[k].rows = Headed
    BY <2>1, <2>2, NoteIs
  <2> HIDE DEF r
  <2> QED BY <2>2, <2>3, <2>4
<1> QED BY <1>1, <1>2, <1>3, NoteIsOfRefundOrAll

(* Of every order: notes never reverse more than its invoice, each shows   *)
(* exactly its tax under the heads of the invoice, and one that reverses   *)
(* the whole order has the rows of the invoice.                            *)
THEOREM ReversalsAlwaysCover == Spec => []ReversalsCover
<1>1. ASSUME MoneyInv PROVE ReversalsCover
  <2>1. \A k \in Notes :
          /\ Total([r \in DOMAIN notes[k].rows |-> notes[k].rows[r].tax]) = notes[k].tax
          /\ \A r \in DOMAIN notes[k].rows :
               /\ Heads(notes[k].rows[r]) = notes[k].rows[r].tax
               /\ IF invoice.interstate THEN notes[k].rows[r].cgst + notes[k].rows[r].sgst = 0
                  ELSE notes[k].rows[r].igst = 0
    <3> TAKE k \in Notes
    <3>1. RowsSound(notes[k].rows, notes[k].tax, invoice.interstate)
      BY <1>1, NoteReverses
    <3>2. \A r \in DOMAIN notes[k].rows :
            /\ Heads(notes[k].rows[r]) = notes[k].rows[r].tax
            /\ IF invoice.interstate THEN notes[k].rows[r].cgst = 0 /\ notes[k].rows[r].sgst = 0
               ELSE notes[k].rows[r].igst = 0
      BY <3>1 DEF RowsSound
    <3>3. TaxOf(notes[k].rows) = notes[k].tax
      BY <3>1 DEF RowsSound
    <3> QED BY <3>2, <3>3 DEF TaxOf
  <2>2. NotesCover
    BY <1>1, <2>1, NotesAreWithin DEF NotesCover
  <2>3. WholeReversalNets
    BY <1>1, NoteReverses DEF WholeReversalNets
  <2> QED BY <2>2, <2>3 DEF ReversalsCover
<1> QED BY <1>1, MoneyIsKept, PTL

-----------------------------------------------------------------------------
(***************************************************************************)
(* Columns and heads.                                                      *)
(***************************************************************************)
\* The sum over three named things.
LEMMA TotalOfHeads ==
  ASSUME NEW f, DOMAIN f = {"cgst", "sgst", "igst"}, \A h \in DOMAIN f : f[h] \in Int
  PROVE  Total(f) = f["cgst"] + f["sgst"] + f["igst"]
<1> DEFINE S == {"cgst", "sgst", "igst"}
           T == {"sgst", "igst"}
<1>1. IsFiniteSet({}) /\ IsFiniteSet({"igst"}) /\ IsFiniteSet(T) /\ IsFiniteSet(S)
  <2>1. IsFiniteSet({}) /\ IsFiniteSet({"igst"})
    BY FS_EmptySet, FS_Singleton
  <2>2. T = {"igst"} \union {"sgst"} /\ S = T \union {"cgst"}
    OBVIOUS
  <2> HIDE DEF S, T
  <2>3. IsFiniteSet(T)
    BY <2>1, <2>2, FS_AddElement
  <2>4. IsFiniteSet(S)
    BY <2>2, <2>3, FS_AddElement
  <2> QED BY <2>1, <2>3, <2>4
<1>2. S \ {"cgst"} = T /\ T \ {"sgst"} = {"igst"}
  OBVIOUS
<1>3. "cgst" \in S /\ "sgst" \in T /\ T \subseteq S /\ "igst" \in S
  OBVIOUS
<1>4. Integral(f, S) /\ Integral(f, T) /\ f["cgst"] \in Int /\ f["sgst"] \in Int /\ f["igst"] \in Int
  BY DEF Integral
<1>5. DOMAIN f = S
  OBVIOUS
<1> HIDE DEF S, T
<1>6. SumFunctionOnSet(f, S) = f["cgst"] + SumFunctionOnSet(f, T)
  BY <1>1, <1>2, <1>3, <1>4, SumWithout
<1>7. SumFunctionOnSet(f, T) = f["sgst"] + SumFunctionOnSet(f, {"igst"})
  BY <1>1, <1>2, <1>3, <1>4, SumWithout
<1>8. SumFunctionOnSet(f, {"igst"}) = f["igst"]
  BY <1>4, SumOfSingle
<1>9. Total(f) = SumFunctionOnSet(f, S)
  BY <1>5, TotalIs
<1> QED BY <1>4, <1>6, <1>7, <1>8, <1>9

\* Rows that add up head by head.
HeadedRows(rows) == IsFiniteSet(DOMAIN rows) /\ \A r \in DOMAIN rows : HeadedRow(rows[r])

LEMMA HeadsAddUp ==
  ASSUME NEW rows, HeadedRows(rows)
  PROVE  LET hs == HeadsOf(rows)
         IN  /\ DOMAIN hs = {"cgst", "sgst", "igst"} /\ \A h \in DOMAIN hs : hs[h] \in Int
             /\ hs["cgst"] + hs["sgst"] + hs["igst"] = TaxOf(rows)
             /\ Total(hs) = TaxOf(rows)
             /\ TaxOf(rows) \in Int
<1> DEFINE D == DOMAIN rows
           c == [r \in D |-> rows[r].cgst]
           s == [r \in D |-> rows[r].sgst]
           i == [r \in D |-> rows[r].igst]
           t == [r \in D |-> rows[r].tax]
           cs == [r \in D |-> rows[r].cgst + rows[r].sgst]
           hs == HeadsOf(rows)
<1>1. IsFiniteSet(D) /\ \A r \in D : HeadedRow(rows[r])
  BY DEF HeadedRows
<1>2. \A r \in D : /\ rows[r].cgst \in Int /\ rows[r].sgst \in Int /\ rows[r].igst \in Int /\ rows[r].tax \in Int
                   /\ rows[r].tax = rows[r].cgst + rows[r].sgst + rows[r].igst
  BY <1>1 DEF HeadedRow, Heads
<1>3. Amounts(c) /\ Amounts(s) /\ Amounts(i) /\ Amounts(t) /\ Amounts(cs)
  BY <1>1, <1>2 DEF Amounts
<1>4. /\ DOMAIN c = D /\ DOMAIN s = D /\ DOMAIN i = D /\ DOMAIN t = D /\ DOMAIN cs = D
      /\ \A r \in D : cs[r] = c[r] + s[r] /\ t[r] = cs[r] + i[r]
  BY <1>2
<1>5. /\ DOMAIN hs = {"cgst", "sgst", "igst"}
      /\ hs["cgst"] = Total(c) /\ hs["sgst"] = Total(s) /\ hs["igst"] = Total(i)
  BY DEF HeadsOf, Column
<1>6. TaxOf(rows) = Total(t)
  BY DEF TaxOf
<1> HIDE DEF c, s, i, t, cs, hs, D
<1>7. Total(c) \in Int /\ Total(s) \in Int /\ Total(i) \in Int /\ Total(t) \in Int
  BY <1>3, TotalIsInt
<1>8. Total(cs) = Total(c) + Total(s)
  BY <1>3, <1>4, TotalPlus
<1>9. Total(t) = Total(cs) + Total(i)
  BY <1>3, <1>4, TotalPlus
<1>10. \A h \in DOMAIN hs : hs[h] \in Int
  BY <1>5, <1>7
<1>11. hs["cgst"] + hs["sgst"] + hs["igst"] = TaxOf(rows)
  BY <1>5, <1>6, <1>7, <1>8, <1>9
<1>12. Total(hs) = TaxOf(rows)
  BY <1>5, <1>10, <1>11, TotalOfHeads
<1> QED BY <1>5, <1>6, <1>7, <1>10, <1>11, <1>12 DEF hs

LEMMA NoHeadsAtAll ==
  Total(NoHeads) = 0
<1>1. DOMAIN NoHeads = {"cgst", "sgst", "igst"} /\ \A h \in DOMAIN NoHeads : NoHeads[h] = 0
  BY DEF NoHeads
<1>2. Total(NoHeads) = NoHeads["cgst"] + NoHeads["sgst"] + NoHeads["igst"]
  BY <1>1, TotalOfHeads
<1> QED BY <1>1, <1>2

-----------------------------------------------------------------------------
(***************************************************************************)
(* The HSN summary.                                                        *)
(***************************************************************************)
LEMMA SlabsOf ==
  ASSUME NEW f, Amounts(f), NEW k, NEW v, DOMAIN v = {k[s] : s \in DOMAIN f},
         \A r \in DOMAIN v : v[r] = Total([s \in {x \in DOMAIN f : k[x] = r} |-> f[s]])
  PROVE  Total(v) = Total(f)
<1>1. IsFiniteSet(DOMAIN f)
  BY DEF Amounts
<1>2. IsFiniteSet(DOMAIN v)
  <2> DEFINE q == [s \in DOMAIN f |-> k[s]]
  <2>1. q \in Surjection(DOMAIN f, DOMAIN v)
    BY DEF Surjection
  <2> HIDE DEF q
  <2> QED BY <1>1, <2>1, FS_Surjection
<1>3. \A x \in DOMAIN f : k[x] \in DOMAIN v
  OBVIOUS
<1>4. ASSUME NEW r \in DOMAIN v
      PROVE  v[r] = SumFunctionOnSet(f, {x \in DOMAIN f : k[x] = r})
  <2> DEFINE A == {x \in DOMAIN f : k[x] = r}
             g == [s \in A |-> f[s]]
  <2>1. A \in SUBSET DOMAIN f /\ DOMAIN g = A /\ (\A x \in A : g[x] = f[x]) /\ v[r] = Total(g)
    OBVIOUS
  <2> HIDE DEF A, g
  <2>2. Total(g) = SumFunctionOnSet(f, A)
    BY <2>1, TotalOfPart
  <2> QED BY <2>1, <2>2 DEF A
<1> QED BY <1>2, <1>3, <1>4, TotalBySlab

\* A heading and rate for each supply, delivery charged without tax included.
LEMMA HsnTotals ==
  ASSUME order \in OrderRows, BillSound(order),
         NEW f, DOMAIN f = HsnSupplies, \A s \in HsnSupplies : f[s] \in Int
  PROVE  /\ IsFiniteSet(HsnSupplies) /\ Supplies \subseteq HsnSupplies
         /\ Total(f) = Total([s \in Supplies |-> f[s]])
                         + IF order.shipping > 0 /\ order.shipTax = 0 THEN f[<<0, 0>>] ELSE 0
<1> DEFINE g == [s \in Supplies |-> f[s]]
<1>1. /\ order.shipping \in Nat /\ order.shipTax \in Nat /\ order.shipTax = ShippingTax(order.shipping)
  BY DEF OrderRows, BillSound
<1>2. order.shipTax > 0 => order.shipping > 0
  BY <1>1, ShippingIs
<1>3. IsFiniteSet(Supplies)
  BY SuppliesAre
<1>4. CASE order.shipTax > 0 \/ order.shipping = 0
  <2>1. HsnSupplies = Supplies
    BY <1>1, <1>2, <1>4 DEF HsnSupplies, Supplies, Delivery
  <2>2. [s \in HsnSupplies |-> f[s]] = g
    BY <2>1
  <2>3. Amounts(f)
    BY <1>3, <2>1 DEF Amounts
  <2>4. DOMAIN g = DOMAIN f /\ \A x \in DOMAIN f : g[x] = f[x]
    BY <2>1
  <2> HIDE DEF g
  <2>5. Total(g) = Total(f) /\ Total(f) \in Int
    BY <2>3, <2>4, TotalAgrees, TotalIsInt
  <2>6. ~(order.shipping > 0 /\ order.shipTax = 0)
    BY <1>1, <1>4
  <2> QED BY <1>3, <2>1, <2>5, <2>6 DEF g
<1>5. CASE order.shipTax = 0 /\ order.shipping > 0
  <2> DEFINE x == <<0, 0>>
  <2>1. HsnSupplies = Supplies \union {x}
    BY <1>5 DEF HsnSupplies, Supplies, Delivery
  <2>2. x \notin Supplies
    <3>1. \A i \in DOMAIN order.lines : i \in Nat \ {0}
      BY SuppliesAre
    <3>2. SUFFICES ASSUME x \in Supplies PROVE FALSE
      OBVIOUS
    <3>3. ~(order.shipTax > 0)
      BY <1>5
    <3>4. PICK i \in DOMAIN order.lines : x = <<i, 0>> \/ \E q \in DOMAIN order.lines[i].parts : x = <<i, q>>
      BY <3>2, <3>3, SupplyCases
    <3>5. i = 0
      BY <3>4
    <3> QED BY <3>1, <3>5
  <2> HIDE DEF x
  <2>3. IsFiniteSet(HsnSupplies)
    BY <1>3, <2>1, FS_AddElement
  <2>4. Amounts(f) /\ Supplies \in SUBSET DOMAIN f /\ DOMAIN f \ Supplies = {x}
    BY <2>1, <2>2, <2>3 DEF Amounts
  <2> DEFINE h == [s \in {x} |-> f[s]]
  <2>5. DOMAIN g = Supplies /\ (\A s \in Supplies : g[s] = f[s]) /\ DOMAIN h = {x} /\ h[x] = f[x] /\ f[x] \in Int
    BY <2>1
  <2> HIDE DEF g, h
  <2>6. Total(f) = Total(g) + Total(h)
    <3>1. \A s \in DOMAIN f \ Supplies : h[s] = f[s]
      BY <2>4, <2>5
    <3> QED BY ONLY <2>4, <2>5, <3>1, TotalInParts
  <2>7. Total(h) = f[x]
    BY <2>5, SumOfSingle, TotalIs
  <2> QED BY <1>5, <2>1, <2>3, <2>6, <2>7 DEF g, x
<1> QED BY <1>1, <1>4, <1>5

\* Combos are counted by their components, and hold one at least of each.
LEMMA UnitsAre ==
  ASSUME order \in OrderRows, BillSound(order)
  PROVE  LET f == [s \in Supplies |-> Units(s)]
         IN  /\ \A s \in Supplies : Units(s) \in Nat
             /\ Units(<<0, 0>>) = 0
             /\ CountOf(order.lines) \in Nat /\ CountOf(order.lines) <= Total(f) /\ Total(f) \in Nat
<1> DEFINE D == DOMAIN order.lines
           f == [s \in Supplies |-> Units(s)]
           P(i) == DOMAIN order.lines[i].parts
           v == [i \in D |-> IF order.lines[i].parts = <<>> THEN f[<<i, 0>>] ELSE Total([g \in P(i) |-> f[<<i, g>>]])]
           c == [i \in D |-> order.lines[i].count]
<1>1. /\ IsFiniteSet(D) /\ IsFiniteSet(Supplies)
      /\ \A i \in D : i \in Nat \ {0} /\ \A g \in P(i) : g \in Nat \ {0}
  BY SuppliesAre
<1>2. Units(<<0, 0>>) = 0
  BY DEF Units
<1>3. ASSUME NEW i \in D
      PROVE  /\ Units(<<i, 0>>) = order.lines[i].count
             /\ \A g \in P(i) : Units(<<i, g>>) = order.lines[i].parts[g].count
             /\ order.lines[i].count \in Nat \ {0}
             /\ \A g \in P(i) : /\ order.lines[i].parts[g].count \in Nat
                                /\ order.lines[i].count <= order.lines[i].parts[g].count
             /\ order.lines[i].parts # <<>> <=> P(i) # {}
             /\ IsFiniteSet(P(i))
  <2>1. i \in Nat \ {0} /\ \A g \in P(i) : g \in Nat \ {0}
    BY <1>1, <1>3
  <2>2. LineSound(i, order.lines[i])
    BY <1>3 DEF BillSound
  <2>3. order.lines[i].count \in Nat \ {0} /\ order.lines[i].parts \in PartMaps
    BY <2>2, LineIs
  <2>4. /\ \A g \in P(i) : order.lines[i].parts[g] \in PartRows
        /\ order.lines[i].parts # <<>> <=> P(i) # {}
        /\ IsFiniteSet(P(i))
    BY <2>3, PartMapsAre
  <2>5. \A g \in P(i) : order.lines[i].parts[g].count \in Nat /\ order.lines[i].count <= order.lines[i].parts[g].count
    BY <2>2, <2>4 DEF LineSound, PartRows
  <2>6. Units(<<i, 0>>) = order.lines[i].count
    BY <2>1 DEF Units
  <2>7. \A g \in P(i) : Units(<<i, g>>) = order.lines[i].parts[g].count
    BY <2>1 DEF Units
  <2> QED BY <2>3, <2>4, <2>5, <2>6, <2>7
<1>4. ASSUME NEW s \in Supplies PROVE Units(s) \in Nat
  <2>1. CASE order.shipTax > 0 /\ s = <<0, 0>>
    BY <1>2, <2>1
  <2>2. CASE \E i \in D : s = <<i, 0>>
    <3>1. PICK i \in D : s = <<i, 0>>
      BY <2>2
    <3>2. Units(<<i, 0>>) = order.lines[i].count /\ order.lines[i].count \in Nat
      BY <1>3
    <3> QED BY <3>1, <3>2
  <2>3. CASE \E i \in D : \E g \in P(i) : s = <<i, g>>
    <3>1. PICK i \in D : \E g \in P(i) : s = <<i, g>>
      BY <2>3
    <3>2. PICK g \in P(i) : s = <<i, g>>
      BY <3>1
    <3>3. Units(<<i, g>>) = order.lines[i].parts[g].count /\ order.lines[i].parts[g].count \in Nat
      BY <1>3
    <3> QED BY <3>2, <3>3
  <2> QED BY <2>1, <2>2, <2>3, SupplyCases
<1>5. DOMAIN f = Supplies /\ \A s \in Supplies : f[s] = Units(s) /\ f[s] \in Int /\ f[s] \in Nat
  BY <1>4
<1>6. DOMAIN v = D /\ \A i \in D : IF order.lines[i].parts = <<>> THEN v[i] = f[<<i, 0>>]
                                   ELSE v[i] = Total([g \in P(i) |-> f[<<i, g>>]])
  OBVIOUS
<1>7. order.shipTax > 0 => f[<<0, 0>>] = 0
  BY <1>2, <1>5, SupplyCases
<1> HIDE DEF v, f
<1>8. /\ Total(f) = Total(v) + IF order.shipTax > 0 THEN f[<<0, 0>>] ELSE 0
      /\ Total(v) \in Int /\ \A i \in D : v[i] \in Int
  BY <1>5, <1>6, Gathered
<1>9. Total(f) = Total(v)
  BY <1>7, <1>8
<1>10. ASSUME NEW i \in D PROVE c[i] <= v[i]
  <2>1. CASE order.lines[i].parts = <<>>
    <3>1. <<i, 0>> \in Supplies
      BY <2>1, SupplyCases
    <3>2. v[i] = order.lines[i].count
      BY <1>3, <1>5, <1>6, <2>1, <3>1
    <3>3. order.lines[i].count \in Nat
      BY <1>3
    <3>4. c[i] = order.lines[i].count
      OBVIOUS
    <3> HIDE DEF c
    <3> QED BY <3>2, <3>3, <3>4
  <2>2. CASE order.lines[i].parts # <<>>
    <3> DEFINE u == [g \in P(i) |-> f[<<i, g>>]]
               n == order.lines[i].count
    <3>1. \A g \in P(i) : u[g] = order.lines[i].parts[g].count /\ u[g] \in Nat /\ n <= u[g]
      <4> TAKE g \in P(i)
      <4>1. <<i, g>> \in Supplies
        BY SupplyCases
      <4>2. f[<<i, g>>] = order.lines[i].parts[g].count
        BY <1>3, <1>5, <4>1
      <4> QED BY <1>3, <4>2
    <3>2. v[i] = Total(u) /\ DOMAIN u = P(i)
      BY <1>6, <2>2
    <3>3. PICK g \in P(i) : TRUE
      BY <1>3, <2>2
    <3>4. IsFiniteSet(P(i)) /\ n \in Nat
      BY <1>3
    <3> DEFINE w == [x \in {g} |-> u[x]]
    <3>5. DOMAIN w = {g} /\ w[g] = u[g] /\ {g} \in SUBSET P(i) /\ \A x \in {g} : w[x] = u[x]
      OBVIOUS
    <3> HIDE DEF u, w
    <3>6. Total(w) \in Nat /\ Total(u) \in Nat /\ Total(w) <= Total(u)
      <4>1. \A x \in DOMAIN u : u[x] \in Nat
        BY <3>1, <3>2
      <4> QED BY <3>2, <3>4, <3>5, <4>1, SomeOfAll
    <3>7. Total(w) = u[g]
      <4>1. w[g] \in Int
        BY <3>1, <3>5
      <4> QED BY <3>5, <4>1, SumOfSingle, TotalIs
    <3>8. n <= Total(u)
      BY <3>1, <3>4, <3>6, <3>7
    <3> QED BY <3>2, <3>8
  <2> QED BY <2>1, <2>2
<1>11. DOMAIN c = D /\ \A i \in D : c[i] \in Nat
  BY <1>3
<1>12. CountOf(order.lines) = Total(c)
  BY DEF CountOf
<1> HIDE DEF c
<1>13. Total(c) \in Nat
  BY <1>1, <1>11, TotalIsNat
<1>14. Total(c) <= Total(v)
  <2>1. Amounts(c) /\ Amounts(v)
    BY <1>1, <1>6, <1>8, <1>11 DEF Amounts
  <2> QED BY <1>6, <1>10, <1>11, <2>1, TotalBelow
<1>15. Total(f) \in Nat
  BY <1>8, <1>9, <1>13, <1>14
<1> QED BY <1>2, <1>4, <1>9, <1>12, <1>13, <1>14, <1>15 DEF f

-----------------------------------------------------------------------------
\* The key of a supply, and the supplies under a key.
KeyOf(s) == <<HsnOf(s), RateOf(s)>>
Under(key) == {s \in HsnSupplies : KeyOf(s) = key}

LEMMA HsnRowsAre ==
  ASSUME NEW m, InvoicedIn(m)
  PROVE  LET hsn == HsnSummary(m)
         IN  /\ DOMAIN hsn = {KeyOf(s) : s \in HsnSupplies}
             /\ \A key \in DOMAIN hsn :
                  /\ hsn[key].quantity = Total([s \in Under(key) |-> Units(s)])
                  /\ hsn[key].total = Total([s \in Under(key) |-> Gross(s)])
                  /\ hsn[key].tax = Total([s \in Under(key) |-> BilledTax(s)])
BY DEF HsnSummary, KeyOf, Under

\* A column of the summary is the total over what was supplied.
LEMMA HsnColumn ==
  ASSUME IsFiniteSet(HsnSupplies),
         NEW f, DOMAIN f = HsnSupplies, \A s \in HsnSupplies : f[s] \in Int,
         NEW v, DOMAIN v = {KeyOf(s) : s \in HsnSupplies},
         \A key \in DOMAIN v : v[key] = Total([s \in Under(key) |-> f[s]])
  PROVE  Total(v) = Total(f)
<1> DEFINE k == [s \in HsnSupplies |-> KeyOf(s)]
<1>1. DOMAIN v = {k[s] : s \in DOMAIN f}
  OBVIOUS
<1>2. ASSUME NEW r \in DOMAIN v
      PROVE  v[r] = Total([s \in {x \in DOMAIN f : k[x] = r} |-> f[s]])
  <2>1. {x \in DOMAIN f : k[x] = r} = Under(r)
    BY DEF Under
  <2> QED BY <2>1
<1>3. Amounts(f)
  BY DEF Amounts
<1> HIDE DEF k
<1> QED BY <1>1, <1>2, <1>3, SlabsOf

\* The three columns of the summary of a month with the invoice in it.
LEMMA HsnColumnsAre ==
  ASSUME order \in OrderRows, BillSound(order), NEW m, InvoicedIn(m)
  PROVE  LET hsn == HsnSummary(m)
             units == Total([key \in DOMAIN hsn |-> hsn[key].quantity])
         IN  /\ Column(hsn, "tax") = order.tax + order.shipTax
             /\ Column(hsn, "total") = FinalOf(order.lines) + order.shipping + order.shipTax
             /\ units \in Nat /\ CountOf(order.lines) \in Nat /\ CountOf(order.lines) <= units
<1> DEFINE hsn == HsnSummary(m)
           S == HsnSupplies
           t == [s \in S |-> BilledTax(s)]
           f == [s \in S |-> Gross(s)]
           u == [s \in S |-> Units(s)]
           vt == [key \in DOMAIN hsn |-> hsn[key]["tax"]]
           vf == [key \in DOMAIN hsn |-> hsn[key]["total"]]
           vu == [key \in DOMAIN hsn |-> hsn[key].quantity]
<1>1. /\ DOMAIN hsn = {KeyOf(s) : s \in S}
      /\ \A key \in DOMAIN hsn :
           /\ hsn[key].quantity = Total([s \in Under(key) |-> Units(s)])
           /\ hsn[key].total = Total([s \in Under(key) |-> Gross(s)])
           /\ hsn[key].tax = Total([s \in Under(key) |-> BilledTax(s)])
  BY HsnRowsAre
<1>2. /\ order.shipping \in Nat /\ order.shipTax \in Nat /\ order.tax \in Nat
      /\ (order.shipTax > 0 => order.shipping > 0)
      /\ order.shipTax = ShippingTax(order.shipping)
  <2>1. order.shipping \in Nat /\ order.shipTax \in Nat /\ order.tax \in Nat /\ order.shipTax = ShippingTax(order.shipping)
    BY DEF OrderRows, BillSound
  <2> QED BY <2>1, ShippingIs
<1>3. /\ Gross(<<0, 0>>) = order.shipping + order.shipTax /\ BilledTax(<<0, 0>>) = order.shipTax
      /\ Units(<<0, 0>>) = 0
  BY SupplyIs, UnitsAre
<1>4. \A s \in S : s \in Supplies \/ s = <<0, 0>>
  BY DEF HsnSupplies, Supplies
<1>5. \A s \in Supplies : Gross(s) \in Int /\ BilledTax(s) \in Int /\ Units(s) \in Int
  <2>1. \A s \in Supplies : Gross(s) \in Int /\ BilledTax(s) \in Nat
    BY SupplyIs
  <2>2. \A s \in Supplies : Units(s) \in Nat
    BY UnitsAre
  <2> QED BY <2>1, <2>2
<1>6. \A s \in S : Gross(s) \in Int /\ BilledTax(s) \in Int /\ Units(s) \in Int
  BY <1>2, <1>3, <1>4, <1>5
<1>7. /\ DOMAIN t = S /\ DOMAIN f = S /\ DOMAIN u = S
      /\ \A s \in S : t[s] \in Int /\ f[s] \in Int /\ u[s] \in Int
  BY <1>6
<1>8. Supplies \subseteq S /\ IsFiniteSet(S)
  BY <1>7, HsnTotals
<1> DEFINE late == order.shipping > 0 /\ order.shipTax = 0
<1>9. late => t[<<0, 0>>] = 0 /\ f[<<0, 0>>] = order.shipping /\ u[<<0, 0>>] = 0
  <2> SUFFICES ASSUME late PROVE t[<<0, 0>>] = 0 /\ f[<<0, 0>>] = order.shipping /\ u[<<0, 0>>] = 0
    OBVIOUS
  <2>1. <<0, 0>> \in S
    BY DEF HsnSupplies
  <2> QED BY <1>2, <1>3, <2>1
<1>10. /\ [s \in Supplies |-> t[s]] = [s \in Supplies |-> BilledTax(s)]
       /\ [s \in Supplies |-> f[s]] = [s \in Supplies |-> Gross(s)]
       /\ [s \in Supplies |-> u[s]] = [s \in Supplies |-> Units(s)]
  BY <1>8
<1> HIDE DEF t, f, u
<1>11. Total(t) = order.tax + order.shipTax
  <2>1. Total(t) = Total([s \in Supplies |-> t[s]]) + IF late THEN t[<<0, 0>>] ELSE 0
    BY <1>7, HsnTotals
  <2>2. Total([s \in Supplies |-> t[s]]) = order.tax + order.shipTax
    BY <1>10, BilledIs
  <2> QED BY <1>2, <1>9, <2>1, <2>2
<1>12. Total(f) = FinalOf(order.lines) + order.shipping + order.shipTax
  <2>1. Total(f) = Total([s \in Supplies |-> f[s]]) + IF late THEN f[<<0, 0>>] ELSE 0
    BY <1>7, HsnTotals
  <2>2. Total([s \in Supplies |-> f[s]]) = FinalOf(order.lines) + FeeGross /\ FinalOf(order.lines) \in Nat
    BY <1>10, GrossIs DEF GrossTotal
  <2>3. FeeGross = IF order.shipTax > 0 THEN order.shipping + order.shipTax ELSE 0
    BY DEF FeeGross
  <2> QED BY <1>2, <1>9, <2>1, <2>2, <2>3
<1>13. Total(u) \in Nat /\ CountOf(order.lines) \in Nat /\ CountOf(order.lines) <= Total(u)
  <2>1. Total(u) = Total([s \in Supplies |-> u[s]]) + IF late THEN u[<<0, 0>>] ELSE 0
    BY <1>7, HsnTotals
  <2> DEFINE n == Total([s \in Supplies |-> u[s]])
  <2>2. n \in Nat /\ CountOf(order.lines) \in Nat /\ CountOf(order.lines) <= n
    BY <1>10, UnitsAre
  <2> HIDE DEF n
  <2>3. Total(u) = n
    BY <1>9, <2>1, <2>2 DEF n
  <2> QED BY <2>2, <2>3
<1>14. ASSUME NEW key \in DOMAIN hsn
       PROVE  /\ [s \in Under(key) |-> t[s]] = [s \in Under(key) |-> BilledTax(s)]
              /\ [s \in Under(key) |-> f[s]] = [s \in Under(key) |-> Gross(s)]
              /\ [s \in Under(key) |-> u[s]] = [s \in Under(key) |-> Units(s)]
  BY DEF Under, t, f, u
<1>15. /\ DOMAIN vt = {KeyOf(s) : s \in S} /\ DOMAIN vf = {KeyOf(s) : s \in S} /\ DOMAIN vu = {KeyOf(s) : s \in S}
       /\ \A key \in DOMAIN vt : vt[key] = Total([s \in Under(key) |-> t[s]])
       /\ \A key \in DOMAIN vf : vf[key] = Total([s \in Under(key) |-> f[s]])
       /\ \A key \in DOMAIN vu : vu[key] = Total([s \in Under(key) |-> u[s]])
  BY <1>1, <1>14
<1>16. Column(hsn, "tax") = Total(vt) /\ Column(hsn, "total") = Total(vf)
  BY DEF Column
<1> DEFINE units == Total([key \in DOMAIN hsn |-> hsn[key].quantity])
<1>17. units = Total(vu)
  OBVIOUS
<1> HIDE DEF vt, vf, vu, hsn, units
<1>18. Total(vt) = Total(t)
  BY <1>7, <1>8, <1>15, HsnColumn
<1>19. Total(vf) = Total(f)
  BY <1>7, <1>8, <1>15, HsnColumn
<1>20. Total(vu) = Total(u)
  BY <1>7, <1>8, <1>15, HsnColumn
<1> QED BY <1>11, <1>12, <1>13, <1>16, <1>17, <1>18, <1>19, <1>20 DEF hsn, units

-----------------------------------------------------------------------------
\* Sums of sums, by either index.
LEMMA OneSlice ==
  ASSUME NEW g, Amounts(g), NEW A \in SUBSET DOMAIN g,
         NEW f, IsFiniteSet(DOMAIN f),
         NEW k, NEW m, DOMAIN k = DOMAIN f, DOMAIN m = A,
         \A x \in DOMAIN f : k[x] \in A /\ m[k[x]] = x /\ f[x] = g[k[x]],
         \A p \in A : m[p] \in DOMAIN f /\ k[m[p]] = p
  PROVE  Total(f) = SumFunctionOnSet(g, A)
<1> DEFINE v == [p \in A |-> g[p]]
<1>1. DOMAIN v = A /\ \A p \in A : v[p] = g[p]
  OBVIOUS
<1>2. IsFiniteSet(A)
  BY FS_Subset DEF Amounts
<1>3. Amounts(f)
  BY DEF Amounts
<1> HIDE DEF v
<1>4. IsFiniteSet(DOMAIN v)
  BY <1>1, <1>2
<1>5. \A x \in DOMAIN f : k[x] \in DOMAIN v /\ v[k[x]] = f[x]
  BY <1>1
<1>6. \A r \in DOMAIN v : m[r] \in DOMAIN f /\ k[m[r]] = r
  BY <1>1
<1>7. \A x \in DOMAIN f : m[k[x]] = x
  OBVIOUS
<1>8. Total(v) = Total(f)
  BY ONLY <1>3, <1>4, <1>5, <1>6, <1>7, TotalRenamed
<1>9. Total(v) = SumFunctionOnSet(g, A)
  BY <1>1, TotalOfPart
<1> QED BY <1>8, <1>9

Indices(A, w) == UNION {DOMAIN w[a] : a \in A}
Across(A, w, r) == [a \in {b \in A : r \in DOMAIN w[b]} |-> w[a][r]]

LEMMA SumsOfSums ==
  ASSUME NEW A, IsFiniteSet(A), NEW B, IsFiniteSet(B), NEW w,
         \A a \in A : /\ DOMAIN w[a] \subseteq B
                      /\ \A r \in DOMAIN w[a] : w[a][r] \in Int,
         NEW t, DOMAIN t = A, \A a \in A : t[a] = Total(w[a]),
         NEW v, DOMAIN v = Indices(A, w), \A r \in DOMAIN v : v[r] = Total(Across(A, w, r))
  PROVE  Total(v) = Total(t)
<1> DEFINE P == {p \in A \X B : p[2] \in DOMAIN w[p[1]]}
           g == [p \in P |-> w[p[1]][p[2]]]
           of == [p \in P |-> p[1]]
           at == [p \in P |-> p[2]]
<1>1. IsFiniteSet(A \X B) /\ P \in SUBSET (A \X B)
  BY FS_Product
<1>2. IsFiniteSet(P)
  BY <1>1, FS_Subset
<1>3. DOMAIN g = P /\ \A p \in P : g[p] = w[p[1]][p[2]] /\ g[p] \in Int
  OBVIOUS
<1>4. Amounts(g)
  BY <1>2, <1>3 DEF Amounts
<1>5. /\ DOMAIN of = P /\ DOMAIN at = P
      /\ \A p \in P : of[p] = p[1] /\ at[p] = p[2] /\ of[p] \in A /\ at[p] \in DOMAIN v
  BY DEF Indices
<1>6. ASSUME NEW a \in A PROVE t[a] = SumFunctionOnSet(g, {p \in DOMAIN g : of[p] = a})
  <2> DEFINE S == {p \in P : p[1] = a}
             f == w[a]
             k == [r \in DOMAIN f |-> <<a, r>>]
             m == [p \in S |-> p[2]]
  <2>1. S \in SUBSET DOMAIN g
    OBVIOUS
  <2>2. IsFiniteSet(DOMAIN f)
    BY FS_Subset
  <2>3. DOMAIN k = DOMAIN f /\ DOMAIN m = S
    OBVIOUS
  <2>4. \A x \in DOMAIN f : k[x] \in S /\ m[k[x]] = x /\ f[x] = g[k[x]]
    OBVIOUS
  <2>5. \A p \in S : m[p] \in DOMAIN f /\ k[m[p]] = p
    OBVIOUS
  <2>6. S = {p \in DOMAIN g : of[p] = a} /\ t[a] = Total(f)
    OBVIOUS
  <2> HIDE DEF S, f, k, m, g, of
  <2>7. Total(f) = SumFunctionOnSet(g, S)
    BY ONLY <1>4, <2>1, <2>2, <2>3, <2>4, <2>5, OneSlice
  <2> QED BY <2>6, <2>7
<1>7. ASSUME NEW r \in DOMAIN v PROVE v[r] = SumFunctionOnSet(g, {p \in DOMAIN g : at[p] = r})
  <2> DEFINE S == {p \in P : p[2] = r}
             f == Across(A, w, r)
             k == [a \in DOMAIN f |-> <<a, r>>]
             m == [p \in S |-> p[1]]
  <2>1. S \in SUBSET DOMAIN g
    OBVIOUS
  <2>2. IsFiniteSet(DOMAIN f)
    BY FS_Subset DEF Across
  <2>3. DOMAIN k = DOMAIN f /\ DOMAIN m = S
    OBVIOUS
  <2>4. \A x \in DOMAIN f : k[x] \in S /\ m[k[x]] = x /\ f[x] = g[k[x]]
    BY DEF Across
  <2>5. \A p \in S : m[p] \in DOMAIN f /\ k[m[p]] = p
    BY DEF Across, Indices
  <2>6. S = {p \in DOMAIN g : at[p] = r} /\ v[r] = Total(f)
    OBVIOUS
  <2> HIDE DEF S, f, k, m, g, at
  <2>7. Total(f) = SumFunctionOnSet(g, S)
    BY ONLY <1>4, <2>1, <2>2, <2>3, <2>4, <2>5, OneSlice
  <2> QED BY <2>6, <2>7
<1>8. IsFiniteSet(DOMAIN v)
  <2>1. DOMAIN v \subseteq B
    BY DEF Indices
  <2> QED BY <2>1, FS_Subset
<1> HIDE DEF g, of, at, P
<1>9. Total(t) = Total(g)
  <2>1. IsFiniteSet(DOMAIN t) /\ \A x \in DOMAIN g : of[x] \in DOMAIN t
    BY <1>3, <1>5
  <2>2. \A r \in DOMAIN t : t[r] = SumFunctionOnSet(g, {x \in DOMAIN g : of[x] = r})
    BY <1>6
  <2> QED BY ONLY <1>4, <2>1, <2>2, TotalBySlab
<1>10. Total(v) = Total(g)
  <2>1. \A x \in DOMAIN g : at[x] \in DOMAIN v
    BY <1>3, <1>5
  <2>2. \A r \in DOMAIN v : v[r] = SumFunctionOnSet(g, {x \in DOMAIN g : at[x] = r})
    BY <1>7
  <2> QED BY ONLY <1>4, <1>8, <2>1, <2>2, TotalBySlab
<1> QED BY <1>9, <1>10

-----------------------------------------------------------------------------
(***************************************************************************)
(* What was credited in a month.                                           *)
(***************************************************************************)
LEMMA PercentIsFinite == IsFiniteSet(Percent)
<1> DEFINE h == 100
<1>1. h \in Int /\ 0 \in Int /\ Percent = 0 .. h
  BY DEF Percent
<1> HIDE DEF h
<1>2. IsFiniteSet(0 .. h)
  BY <1>1, FS_Interval
<1> QED BY <1>1, <1>2

LEMMA EachCredit ==
  ASSUME MoneyInv, NEW m
  PROVE  /\ IsFiniteSet(CreditNotesIn(m)) /\ CreditNotesIn(m) \subseteq Notes
         /\ \A k \in CreditNotesIn(m) :
              /\ notes[k].amount \in Nat /\ notes[k].tax \in Nat
              /\ HeadedRows(notes[k].rows) /\ TaxOf(notes[k].rows) = notes[k].tax
              /\ DOMAIN notes[k].rows \subseteq Percent
              /\ \A r \in DOMAIN notes[k].rows : notes[k].rows[r].tax \in Int
<1>1. BillInv /\ RefundInv /\ NoteInv
  BY DEF MoneyInv
<1>2. CreditNotesIn(m) \subseteq Notes /\ Notes \subseteq 1 .. Len(notes) /\ Len(notes) \in Nat
  BY <1>1, NotesAre DEF CreditNotesIn, Notes
<1>3. IsFiniteSet(CreditNotesIn(m))
  BY <1>2, UpToIsFinite, FS_Subset
<1>4. ASSUME NEW k \in Notes
      PROVE  /\ notes[k].amount \in Nat /\ notes[k].tax \in Nat
             /\ HeadedRows(notes[k].rows) /\ TaxOf(notes[k].rows) = notes[k].tax
             /\ DOMAIN notes[k].rows \subseteq Percent
             /\ \A r \in DOMAIN notes[k].rows : notes[k].rows[r].tax \in Int
  <2>1. notes[k] \in NoteRows
    BY <1>1, NoteIsOfRefundOrAll
  <2>2. notes[k].amount \in Nat /\ notes[k].tax \in Nat /\ notes[k].rows \in SlabMaps
    BY <2>1 DEF NoteRows
  <2>3. RowsSound(notes[k].rows, notes[k].tax, invoice.interstate)
    BY NoteReverses
  <2>4. DOMAIN notes[k].rows \subseteq Percent /\ \A r \in DOMAIN notes[k].rows : notes[k].rows[r] \in HeadRows
    BY <2>2 DEF SlabMaps
  <2>5. IsFiniteSet(DOMAIN notes[k].rows)
    BY <2>4, PercentIsFinite, FS_Subset
  <2>6. \A r \in DOMAIN notes[k].rows : HeadedRow(notes[k].rows[r])
    BY <2>3, <2>4 DEF RowsSound, HeadedRow, HeadRows
  <2>7. \A r \in DOMAIN notes[k].rows : notes[k].rows[r].tax \in Int
    BY <2>6 DEF HeadedRow
  <2>8. TaxOf(notes[k].rows) = notes[k].tax
    BY <2>3 DEF RowsSound
  <2>9. HeadedRows(notes[k].rows)
    BY <2>5, <2>6 DEF HeadedRows
  <2> QED BY <2>2, <2>4, <2>7, <2>8, <2>9
<1> QED BY <1>2, <1>3, <1>4

\* Heads of documents add up to the heads of their sum.
LEMMA HeadsOfMany ==
  ASSUME NEW A, IsFiniteSet(A), NEW rows, DOMAIN rows = A, \A k \in A : HeadedRows(rows[k])
  PROVE  Total(SumHeads([k \in A |-> HeadsOf(rows[k])])) = Total([k \in A |-> TaxOf(rows[k])])
<1> DEFINE hs == [k \in A |-> HeadsOf(rows[k])]
           c == [k \in A |-> hs[k]["cgst"]]
           s == [k \in A |-> hs[k]["sgst"]]
           i == [k \in A |-> hs[k]["igst"]]
           cs == [k \in A |-> hs[k]["cgst"] + hs[k]["sgst"]]
           t == [k \in A |-> TaxOf(rows[k])]
           sum == SumHeads(hs)
<1>1. \A k \in A : /\ hs[k] = HeadsOf(rows[k])
                   /\ hs[k]["cgst"] \in Int /\ hs[k]["sgst"] \in Int /\ hs[k]["igst"] \in Int
                   /\ hs[k]["cgst"] + hs[k]["sgst"] + hs[k]["igst"] = TaxOf(rows[k])
                   /\ TaxOf(rows[k]) \in Int
  <2> TAKE k \in A
  <2>1. hs[k] = HeadsOf(rows[k])
    OBVIOUS
  <2> HIDE DEF hs
  <2> QED BY <2>1, HeadsAddUp
<1>2. DOMAIN sum = {"cgst", "sgst", "igst"} /\ sum["cgst"] = Total(c) /\ sum["sgst"] = Total(s) /\ sum["igst"] = Total(i)
  BY DEF SumHeads
<1> HIDE DEF hs, sum
<1>3. Amounts(c) /\ Amounts(s) /\ Amounts(i) /\ Amounts(cs) /\ Amounts(t)
  BY <1>1 DEF Amounts
<1>4. /\ DOMAIN c = A /\ DOMAIN s = A /\ DOMAIN i = A /\ DOMAIN cs = A /\ DOMAIN t = A
      /\ \A k \in A : cs[k] = c[k] + s[k] /\ t[k] = cs[k] + i[k]
  BY <1>1
<1> HIDE DEF c, s, i, cs, t
<1>5. Total(cs) = Total(c) + Total(s)
  BY <1>3, <1>4, TotalPlus
<1>6. Total(t) = Total(cs) + Total(i)
  BY <1>3, <1>4, TotalPlus
<1>7. Total(c) \in Int /\ Total(s) \in Int /\ Total(i) \in Int
  BY <1>3, TotalIsInt
<1>8. \A h \in DOMAIN sum : sum[h] \in Int
  BY <1>2, <1>7
<1>9. Total(sum) = sum["cgst"] + sum["sgst"] + sum["igst"]
  BY <1>2, <1>8, TotalOfHeads
<1>10. Total(sum) = Total(t)
  BY <1>2, <1>5, <1>6, <1>7, <1>9
<1> QED BY <1>10 DEF sum, hs, t

\* The register, the heads and the rows by place and rate carry one tax.
LEMMA CreditsAgree ==
  ASSUME MoneyInv, NEW m
  PROVE  /\ Column(CreditNoteRegister(m), "taxable") = CreditBlock(m).taxable
         /\ Total(CreditBlock(m).heads) = CreditBlock(m).tax
         /\ Total([r \in CreditedRates(m) |-> B2cCredit(m, r).tax]) = CreditBlock(m).tax
<1> DEFINE A == CreditNotesIn(m)
           a == [k \in A |-> notes[k].amount]
           t == [k \in A |-> notes[k].tax]
           d == [k \in A |-> notes[k].amount - notes[k].tax]
           rows == [k \in A |-> notes[k].rows]
           w == [k \in A |-> [r \in DOMAIN notes[k].rows |-> notes[k].rows[r].tax]]
           v == [r \in CreditedRates(m) |-> B2cCredit(m, r).tax]
           block == CreditBlock(m)
<1>1. /\ IsFiniteSet(A)
      /\ \A k \in A : /\ notes[k].amount \in Nat /\ notes[k].tax \in Nat
                      /\ HeadedRows(notes[k].rows) /\ TaxOf(notes[k].rows) = notes[k].tax
                      /\ DOMAIN notes[k].rows \subseteq Percent
                      /\ \A r \in DOMAIN notes[k].rows : notes[k].rows[r].tax \in Int
  BY EachCredit
<1>2. /\ block.taxable = Total(a) - Total(t) /\ block.tax = Total(t)
      /\ block.heads = SumHeads([k \in A |-> HeadsOf(notes[k].rows)])
  BY DEF CreditBlock, Block
<1>3. Column(CreditNoteRegister(m), "taxable") = Total(d)
  <2>1. DOMAIN CreditNoteRegister(m) = A /\ \A k \in A : CreditNoteRegister(m)[k]["taxable"] = notes[k].amount - notes[k].tax
    BY DEF CreditNoteRegister
  <2>2. [k \in DOMAIN CreditNoteRegister(m) |-> CreditNoteRegister(m)[k]["taxable"]] = d
    <3> HIDE DEF A
    <3> QED BY <2>1
  <2> QED BY <2>2 DEF Column
<1>4. /\ DOMAIN a = A /\ DOMAIN t = A /\ DOMAIN d = A /\ DOMAIN rows = A /\ DOMAIN w = A
      /\ \A k \in A : /\ a[k] = notes[k].amount /\ t[k] = notes[k].tax /\ d[k] = a[k] - t[k]
                      /\ rows[k] = notes[k].rows
                      /\ w[k] = [r \in DOMAIN notes[k].rows |-> notes[k].rows[r].tax]
  OBVIOUS
<1>5. [k \in A |-> HeadsOf(notes[k].rows)] = [k \in A |-> HeadsOf(rows[k])]
      /\ [k \in A |-> TaxOf(rows[k])] = t
  <2>1. \A k \in A : TaxOf(rows[k]) = t[k]
    BY <1>1, <1>4
  <2> QED BY <1>4, <2>1
<1>6. DOMAIN v = Indices(A, w) /\ \A r \in DOMAIN v : v[r] = Total(Across(A, w, r))
  <2>1. \A k \in A : DOMAIN w[k] = DOMAIN notes[k].rows /\ \A r \in DOMAIN notes[k].rows : w[k][r] = notes[k].rows[r].tax
    OBVIOUS
  <2>2. DOMAIN v = CreditedRates(m) /\ CreditedRates(m) = UNION {DOMAIN notes[k].rows : k \in A}
    BY DEF CreditedRates
  <2>3. UNION {DOMAIN notes[k].rows : k \in A} = Indices(A, w)
    BY <2>1 DEF Indices
  <2>4. ASSUME NEW r \in CreditedRates(m)
        PROVE  v[r] = Total(Across(A, w, r))
    <3> DEFINE in == {k \in A : r \in DOMAIN notes[k].rows}
               on == {b \in A : r \in DOMAIN w[b]}
    <3>1. v[r] = Total([k \in in |-> notes[k].rows[r]["tax"]])
      BY DEF B2cCredit
    <3>2. in = on
      BY <2>1
    <3>3. \A k \in in : w[k][r] = notes[k].rows[r]["tax"]
      BY <2>1
    <3> HIDE DEF in, on, w, v
    <3>4. [k \in in |-> notes[k].rows[r]["tax"]] = [k \in on |-> w[k][r]]
      BY <3>2, <3>3
    <3>5. Across(A, w, r) = [k \in on |-> w[k][r]]
      BY DEF Across, on
    <3> QED BY <3>1, <3>4, <3>5
  <2> HIDE DEF v, w, A
  <2> QED BY <2>2, <2>3, <2>4
<1>7. \A k \in A : /\ DOMAIN w[k] \subseteq Percent /\ t[k] = Total(w[k])
                   /\ \A r \in DOMAIN w[k] : w[k][r] \in Int
  <2> TAKE k \in A
  <2>1. w[k] = [r \in DOMAIN notes[k].rows |-> notes[k].rows[r].tax]
    BY <1>4
  <2>2. Total(w[k]) = t[k]
    BY <1>1, <1>4, <2>1 DEF TaxOf
  <2> HIDE DEF w, t, A
  <2> QED BY <1>1, <2>1, <2>2
<1> HIDE DEF A, a, t, d, rows, w, v, block
<1>8. Total(d) = Total(a) - Total(t)
  <2>1. Amounts(a) /\ Amounts(t)
    BY <1>1, <1>4 DEF Amounts
  <2> QED BY <1>4, <2>1, TotalMinus
<1>9. Total(v) = Total(t)
  <2>1. IsFiniteSet(A) /\ DOMAIN t = A
    BY <1>1, <1>4
  <2>2. \A k \in A : DOMAIN w[k] \subseteq Percent /\ \A r \in DOMAIN w[k] : w[k][r] \in Int
    BY <1>7
  <2>3. \A k \in A : t[k] = Total(w[k])
    BY <1>7
  <2>4. DOMAIN v = Indices(A, w)
    BY <1>6
  <2>5. \A r \in DOMAIN v : v[r] = Total(Across(A, w, r))
    BY <1>6
  <2> QED BY ONLY <2>1, <2>2, <2>3, <2>4, <2>5, PercentIsFinite, SumsOfSums
<1>10. Total(block.heads) = Total(t)
  <2>1. \A k \in A : HeadedRows(rows[k])
    BY <1>1, <1>4
  <2>2. Total(SumHeads([k \in A |-> HeadsOf(rows[k])])) = Total([k \in A |-> TaxOf(rows[k])])
    BY <1>1, <1>4, <2>1, HeadsOfMany
  <2> QED BY <1>2, <1>5, <2>2
<1> QED BY <1>2, <1>3, <1>8, <1>9, <1>10 DEF v, block

-----------------------------------------------------------------------------
\* A month without the invoice has nothing in its reports.
LEMMA NothingToReport ==
  ASSUME NEW m, ~InvoicedIn(m)
  PROVE  LET hsn == HsnSummary(m)  summary == InvoiceBlock(m)
         IN  /\ Column(hsn, "tax") = 0 /\ Column(hsn, "total") = 0
             /\ Total([key \in DOMAIN hsn |-> hsn[key].quantity]) = 0
             /\ InvoiceRegister(m) = {}
             /\ Column(B2cGross(m), "tax") = 0
             /\ summary.tax = 0 /\ summary.total = 0 /\ Total(summary.heads) = 0
<1> DEFINE hsn == HsnSummary(m)
<1>1. DOMAIN hsn = {}
  BY DEF HsnSummary
<1> HIDE DEF hsn
<1>2. Column(hsn, "tax") = 0
  BY <1>1, TotalOfNone DEF Column
<1>3. Column(hsn, "total") = 0
  BY <1>1, TotalOfNone DEF Column
<1>4. Total([key \in DOMAIN hsn |-> hsn[key].quantity]) = 0
  BY <1>1, TotalOfNone
<1>5. Column(B2cGross(m), "tax") = 0
  <2>1. B2cGross(m) = <<>>
    BY DEF B2cGross
  <2>2. DOMAIN <<>> = {}
    BY PartsOfNone
  <2>3. Column(<<>>, "tax") = 0
    <3> DEFINE f == [r \in DOMAIN <<>> |-> <<>>[r]["tax"]]
    <3>1. DOMAIN f = {}
      BY <2>2
    <3>2. Column(<<>>, "tax") = Total(f)
      BY DEF Column
    <3> HIDE DEF f
    <3> QED BY <3>1, <3>2, TotalOfNone
  <2> QED BY <2>1, <2>3
<1>6. InvoiceBlock(m) = Block(0, 0, NoHeads) /\ InvoiceRegister(m) = {}
  BY DEF InvoiceBlock, InvoiceRegister
<1>7. LET summary == InvoiceBlock(m)
      IN  summary.tax = 0 /\ summary.total = 0 /\ Total(summary.heads) = 0
  BY <1>6, NoHeadsAtAll DEF Block
<1> QED BY <1>2, <1>3, <1>4, <1>5, <1>6, <1>7 DEF hsn

\* The rows of a bill are off its header by half a paisa a unit and a line.
LEMMA HsnIsNearTheInvoice ==
  ASSUME MoneyInv, NEW m, InvoicedIn(m), NEW units \in Nat, CountOf(order.lines) <= units
  PROVE  LET apart == FinalOf(order.lines) + order.shipping + order.shipTax - invoice.total
             slack == units + Cardinality(Items)
         IN  -slack <= 2 * apart /\ 2 * apart <= slack
<1>1. invoice # None /\ BillInv /\ InvoiceInv
  BY DEF InvoicedIn, MoneyInv
<1>2. order # None /\ order \in OrderRows /\ BillSound(order) /\ invoice.total = order.total
  BY <1>1 DEF BillInv, InvoiceInv
<1> DEFINE n == Cardinality(DOMAIN order.lines)
           rest == order.subtotal - order.discount
<1>3. RowsNearHeader
  BY <1>2, BillIsNearHeader
<1>4. /\ 2 * (FinalOf(order.lines) - rest) <= CountOf(order.lines) + n
      /\ -2 * (FinalOf(order.lines) - rest) <= CountOf(order.lines) + n
  BY <1>2, <1>3 DEF RowsNearHeader, FinalOf, CountOf
<1>5. n \in Nat /\ Cardinality(Items) \in Nat /\ n <= Cardinality(Items)
  <2>1. DOMAIN order.lines \subseteq Items
    <3>1. order.lines \in LineMaps
      BY <1>2 DEF OrderRows
    <3> QED BY <3>1, LineMapsAre
  <2>2. IsFiniteSet(Items)
    BY ItemsAre
  <2>3. IsFiniteSet(DOMAIN order.lines)
    BY <2>1, <2>2, FS_Subset
  <2> QED BY <2>1, <2>2, <2>3, FS_Subset, FS_CardinalityType
<1>6. FinalOf(order.lines) \in Nat
  BY <1>2, GrossIs
<1>7. /\ order.subtotal \in Nat /\ order.discount \in Nat /\ order.shipping \in Nat /\ order.shipTax \in Nat
      /\ order.total \in Nat
  BY <1>2, FiguresOfTheBill
<1>8. order.total = order.subtotal - order.discount + order.shipping + order.shipTax
  BY <1>2 DEF BillSound
<1>9. CountOf(order.lines) \in Nat
  BY <1>2, UnitsAre
<1> DEFINE c == CountOf(order.lines)
           f == FinalOf(order.lines)
           size == Cardinality(Items)
<1>10. /\ f + order.shipping + order.shipTax - invoice.total = f - rest
       /\ f - rest \in Int
  BY <1>2, <1>6, <1>7, <1>8
<1> DEFINE apart == f - rest
<1>11. apart \in Int /\ c \in Nat /\ 2 * apart <= c + n /\ -2 * apart <= c + n
  BY <1>4, <1>9, <1>10
<1>12. f + order.shipping + order.shipTax - invoice.total = apart
  BY <1>10
<1> HIDE DEF c, f, n, rest, apart, size
<1>13. n \in Nat /\ size \in Nat /\ n <= size /\ c <= units
  BY <1>5 DEF n, size, c
<1>14. -(units + size) <= 2 * apart /\ 2 * apart <= units + size
  BY <1>11, <1>13
<1> QED BY <1>12, <1>14 DEF f, size

(* The reports of every month tell one story.                              *)
LEMMA ReportsTellOneStory ==
  ASSUME MoneyInv
  PROVE  ReportsAgree
<1> SUFFICES ASSUME NEW m \in 1 .. month
             PROVE  LET hsn == HsnSummary(m)  summary == InvoiceBlock(m)
                        units == Total([key \in DOMAIN hsn |-> hsn[key].quantity])
                        apart == Column(hsn, "total") - summary.total
                        slack == units + Cardinality(Items)
                    IN  /\ Column(hsn, "tax") = summary.tax
                        /\ \A row \in InvoiceRegister(m) : row.heads = HeadsOf(invoice.rows) /\ Total(row.heads) = row.tax
                        /\ Column(CreditNoteRegister(m), "taxable") = CreditBlock(m).taxable
                        /\ Column(B2cGross(m), "tax") = summary.tax
                        /\ Total(summary.heads) = summary.tax
                        /\ Total(CreditBlock(m).heads) = CreditBlock(m).tax
                        /\ Total([r \in CreditedRates(m) |-> B2cCredit(m, r).tax]) = CreditBlock(m).tax
                        /\ -slack <= 2 * apart /\ 2 * apart <= slack
  BY DEF ReportsAgree
<1> DEFINE hsn == HsnSummary(m)
           summary == InvoiceBlock(m)
           units == Total([key \in DOMAIN hsn |-> hsn[key].quantity])
           apart == Column(hsn, "total") - summary.total
           slack == units + Cardinality(Items)
<1>1. /\ Column(CreditNoteRegister(m), "taxable") = CreditBlock(m).taxable
      /\ Total(CreditBlock(m).heads) = CreditBlock(m).tax
      /\ Total([r \in CreditedRates(m) |-> B2cCredit(m, r).tax]) = CreditBlock(m).tax
  BY CreditsAgree
<1>2. CASE ~InvoicedIn(m)
  <2>1. /\ Column(hsn, "tax") = 0 /\ Column(hsn, "total") = 0 /\ units = 0
        /\ InvoiceRegister(m) = {} /\ Column(B2cGross(m), "tax") = 0
        /\ summary.tax = 0 /\ summary.total = 0 /\ Total(summary.heads) = 0
    BY <1>2, NothingToReport
  <2>2. Cardinality(Items) \in Nat
    BY ItemsAre, FS_CardinalityType
  <2> HIDE DEF hsn, summary, units
  <2>3. -slack <= 2 * apart /\ 2 * apart <= slack
    BY <2>1, <2>2
  <2> QED BY <1>1, <2>1, <2>3 DEF hsn, summary, units
<1>3. CASE InvoicedIn(m)
  <2>1. invoice # None /\ BillInv /\ InvoiceInv
    BY <1>3 DEF InvoicedIn, MoneyInv
  <2>2. /\ order # None /\ order \in OrderRows /\ BillSound(order)
        /\ Slabs(invoice.rows) /\ TaxOf(invoice.rows) = Whole /\ invoice.tax = Whole
        /\ \A r \in DOMAIN invoice.rows : HeadedRow(invoice.rows[r])
    BY <2>1, InvoiceRowsAre
  <2>3. HeadedRows(invoice.rows)
    BY <2>2 DEF HeadedRows, Slabs
  <2>4. /\ Column(hsn, "tax") = order.tax + order.shipTax
        /\ Column(hsn, "total") = FinalOf(order.lines) + order.shipping + order.shipTax
        /\ units \in Nat /\ CountOf(order.lines) <= units
    BY <1>3, <2>2, HsnColumnsAre
  <2>5. /\ summary.tax = invoice.tax /\ summary.total = invoice.total /\ summary.heads = HeadsOf(invoice.rows)
        /\ B2cGross(m) = invoice.rows
        /\ InvoiceRegister(m) = {[taxable |-> invoice.total - invoice.tax, tax |-> invoice.tax, heads |-> HeadsOf(invoice.rows)]}
    BY <1>3 DEF InvoiceBlock, Block, B2cGross, InvoiceRegister
  <2>6. Total(HeadsOf(invoice.rows)) = invoice.tax /\ Column(invoice.rows, "tax") = invoice.tax
    <3>1. Total(HeadsOf(invoice.rows)) = TaxOf(invoice.rows)
      BY <2>3, HeadsAddUp
    <3>2. Column(invoice.rows, "tax") = TaxOf(invoice.rows)
      BY DEF Column, TaxOf
    <3> QED BY <2>2, <3>1, <3>2
  <2>7. Whole = order.tax + order.shipTax
    BY DEF Whole
  <2>8. apart = FinalOf(order.lines) + order.shipping + order.shipTax - invoice.total
    <3>1. FinalOf(order.lines) \in Nat /\ order.shipping \in Nat /\ order.shipTax \in Nat /\ order.total \in Nat
      BY <2>2, GrossIs, FiguresOfTheBill
    <3>2. invoice.total = order.total
      BY <2>1 DEF InvoiceInv
    <3> HIDE DEF hsn, summary
    <3> QED BY <2>4, <2>5, <3>1, <3>2
  <2>9. -slack <= 2 * apart /\ 2 * apart <= slack
    <3> HIDE DEF units, apart
    <3>1. -(units + Cardinality(Items)) <= 2 * (FinalOf(order.lines) + order.shipping + order.shipTax - invoice.total)
          /\ 2 * (FinalOf(order.lines) + order.shipping + order.shipTax - invoice.total) <= units + Cardinality(Items)
      BY <1>3, <2>4, HsnIsNearTheInvoice
    <3> QED BY <2>8, <3>1
  <2>10. Column(hsn, "tax") = summary.tax
    BY <2>2, <2>4, <2>5, <2>7
  <2>11. \A row \in InvoiceRegister(m) : row.heads = HeadsOf(invoice.rows) /\ Total(row.heads) = row.tax
    BY <2>5, <2>6
  <2>12. Column(B2cGross(m), "tax") = summary.tax /\ Total(summary.heads) = summary.tax
    BY <2>5, <2>6
  <2> QED BY <1>1, <2>9, <2>10, <2>11, <2>12
<1> QED BY <1>2, <1>3

-----------------------------------------------------------------------------
(***************************************************************************)
(* What is printed.                                                        *)
(***************************************************************************)
TotalNames == {"subtotal", "discount", "shipping", "shipTax"}

LEMMA TotalOfColumn ==
  ASSUME NEW f, DOMAIN f = TotalNames, \A h \in DOMAIN f : f[h] \in Int
  PROVE  Total(f) = f["subtotal"] + f["discount"] + f["shipping"] + f["shipTax"]
<1> DEFINE S == TotalNames
           T == {"discount", "shipping", "shipTax"}
           U == {"shipping", "shipTax"}
<1>1. IsFiniteSet({"shipTax"}) /\ IsFiniteSet(U) /\ IsFiniteSet(T) /\ IsFiniteSet(S)
  <2>1. IsFiniteSet({"shipTax"})
    BY FS_Singleton
  <2>2. U = {"shipTax"} \union {"shipping"} /\ T = U \union {"discount"} /\ S = T \union {"subtotal"}
    BY DEF TotalNames
  <2> HIDE DEF S, T, U
  <2>3. IsFiniteSet(U)
    BY <2>1, <2>2, FS_AddElement
  <2>4. IsFiniteSet(T)
    BY <2>2, <2>3, FS_AddElement
  <2>5. IsFiniteSet(S)
    BY <2>2, <2>4, FS_AddElement
  <2> QED BY <2>1, <2>3, <2>4, <2>5
<1>2. S \ {"subtotal"} = T /\ T \ {"discount"} = U /\ U \ {"shipping"} = {"shipTax"}
  BY DEF TotalNames
<1>3. "subtotal" \in S /\ "discount" \in T /\ "shipping" \in U /\ U \subseteq S /\ T \subseteq S /\ "shipTax" \in S
  BY DEF TotalNames
<1>4. DOMAIN f = S
  OBVIOUS
<1> HIDE DEF S, T, U
<1>5. Integral(f, S) /\ Integral(f, T) /\ Integral(f, U)
  BY <1>3, <1>4 DEF Integral
<1>6. f["subtotal"] \in Int /\ f["discount"] \in Int /\ f["shipping"] \in Int /\ f["shipTax"] \in Int
  BY <1>3, <1>4
<1>7. SumFunctionOnSet(f, S) = f["subtotal"] + SumFunctionOnSet(f, T)
  BY <1>1, <1>2, <1>3, <1>5, SumWithout
<1>8. SumFunctionOnSet(f, T) = f["discount"] + SumFunctionOnSet(f, U)
  BY <1>1, <1>2, <1>3, <1>5, SumWithout
<1>9. SumFunctionOnSet(f, U) = f["shipping"] + SumFunctionOnSet(f, {"shipTax"})
  BY <1>1, <1>2, <1>3, <1>5, SumWithout
<1>10. SumFunctionOnSet(f, {"shipTax"}) = f["shipTax"]
  BY <1>6, SumOfSingle
<1>11. Total(f) = SumFunctionOnSet(f, S)
  BY <1>4, TotalIs
<1> QED BY <1>6, <1>7, <1>8, <1>9, <1>10, <1>11

\* The printed columns of an invoice.
LEMMA ColumnsArePrinted ==
  ASSUME MoneyInv, invoice # None
  PROVE  /\ Total([i \in DOMAIN PrintedLines |-> PrintedLines[i].amount]) = PrintedTotals.subtotal
         /\ Total(PrintedTotals) = invoice.total
         /\ Total(PrintedSlabs.total) = invoice.tax
         /\ PrintedBands.returned <= invoice.total
<1>1. BillInv /\ InvoiceInv /\ RefundInv
  BY DEF MoneyInv
<1>2. /\ order # None /\ order \in OrderRows /\ BillSound(order)
      /\ invoice.total = order.total /\ invoice.tax = Whole
      /\ DOMAIN invoice.lines = DOMAIN order.lines
      /\ \A i \in DOMAIN order.lines : invoice.lines[i].amount = order.lines[i].price * order.lines[i].count
      /\ invoice.subtotal = order.subtotal /\ invoice.discount = order.discount
      /\ invoice.shipping = order.shipping /\ invoice.shipTax = order.shipTax
  BY <1>1 DEF InvoiceInv, BillInv
<1>3. Total([i \in DOMAIN PrintedLines |-> PrintedLines[i].amount]) = PrintedTotals.subtotal
  <2>1. DOMAIN PrintedLines = DOMAIN order.lines
    BY <1>2 DEF PrintedLines
  <2>2. \A i \in DOMAIN order.lines : PrintedLines[i].amount = order.lines[i].price * order.lines[i].count
    BY <1>2 DEF PrintedLines
  <2>3. [i \in DOMAIN PrintedLines |-> PrintedLines[i].amount]
          = [i \in DOMAIN order.lines |-> order.lines[i].price * order.lines[i].count]
    BY <2>1, <2>2
  <2>4. ListOf(order.lines) = order.subtotal
    BY <1>2 DEF BillSound
  <2>5. PrintedTotals.subtotal = order.subtotal
    BY <1>2 DEF PrintedTotals
  <2> QED BY <2>3, <2>4, <2>5 DEF ListOf
<1>4. Total(PrintedTotals) = invoice.total
  <2> DEFINE f == PrintedTotals
  <2>1. DOMAIN f = TotalNames
    BY DEF PrintedTotals, TotalNames
  <2>2. /\ f["subtotal"] = order.subtotal /\ f["discount"] = IF order.discount > 0 THEN -order.discount ELSE 0
        /\ f["shipping"] = order.shipping /\ f["shipTax"] = order.shipTax
    BY <1>2 DEF PrintedTotals
  <2>3. /\ order.subtotal \in Nat /\ order.discount \in Nat /\ order.shipping \in Nat /\ order.shipTax \in Nat
    BY <1>2, FiguresOfTheBill
  <2> HIDE DEF f
  <2>4. f["subtotal"] \in Int /\ f["shipping"] \in Int /\ f["shipTax"] \in Int
    BY <2>2, <2>3
  <2>5. f["discount"] = -order.discount /\ f["discount"] \in Int
    BY <2>2, <2>3
  <2>6. \A h \in DOMAIN f : f[h] \in Int
    BY <2>1, <2>4, <2>5 DEF TotalNames
  <2>7. Total(f) = f["subtotal"] + f["discount"] + f["shipping"] + f["shipTax"]
    BY <2>1, <2>6, TotalOfColumn
  <2>8. order.total = order.subtotal - order.discount + order.shipping + order.shipTax
    BY <1>2 DEF BillSound
  <2>9. Total(f) = invoice.total
    BY <1>2, <2>2, <2>3, <2>5, <2>7, <2>8
  <2> QED BY <2>9 DEF f
<1>5. Total(PrintedSlabs.total) = invoice.tax
  <2>1. /\ Slabs(invoice.rows) /\ TaxOf(invoice.rows) = Whole
        /\ \A r \in DOMAIN invoice.rows : HeadedRow(invoice.rows[r])
    BY <1>1, InvoiceRowsAre
  <2>2. HeadedRows(invoice.rows)
    BY <2>1 DEF HeadedRows, Slabs
  <2>3. PrintedSlabs.total = HeadsOf(invoice.rows)
    BY DEF PrintedSlabs, SnapshotGstSummaryRows
  <2> QED BY <1>2, <2>1, <2>2, <2>3, HeadsAddUp
<1>6. PrintedBands.returned <= invoice.total
  <2>1. PrintedBands.returned = Refunded
    BY DEF PrintedBands, Refunded
  <2>2. refunds \in Seq(RefundRows)
    BY <1>1 DEF RefundInv
  <2>3. order.total \in Nat
    BY <1>2, FiguresOfTheBill
  <2>4. Refunded <= order.total
    <3>1. CASE refunds = <<>>
      BY <2>2, <2>3, <3>1, RefundsAre
    <3>2. CASE refunds # <<>>
      BY <1>1, <3>2 DEF RefundInv
    <3> QED BY <3>1, <3>2
  <2> QED BY <1>2, <2>1, <2>4
<1> QED BY <1>3, <1>4, <1>5, <1>6

\* A credit note shows what its row in the register says.
LEMMA NoteIsPrinted ==
  ASSUME MoneyInv, NEW k \in Notes \intersect DOMAIN refunds, notes[k].reason = "refund"
  PROVE  \E up \in BOOLEAN :
           LET slabs == PrintedNote(k, up).slabs
           IN  /\ Total(slabs.total) = refunds[k].tax
               /\ DOMAIN slabs.rows = DOMAIN notes[k].rows
               /\ \A r \in DOMAIN slabs.rows : slabs.rows[r].tax = notes[k].rows[r].tax
<1>1. BillInv /\ RefundInv /\ NoteInv
  BY DEF MoneyInv
<1>2. k \in Notes /\ k \in DOMAIN refunds
  OBVIOUS
<1>3. ~ByCancel
  <2> SUFFICES ASSUME ByCancel PROVE FALSE
    OBVIOUS
  <2>1. refunds = <<>>
    BY DEF ByCancel
  <2>2. DOMAIN <<>> = {}
    BY PartsOfNone
  <2> QED BY <1>2, <2>1, <2>2
<1>4. PICK up \in BOOLEAN : notes[k] = NoteOf(refunds[k], up)
  BY <1>1, <1>2, <1>3, NoteIsOfRefundOrAll
<1>5. /\ refunds[k] \in RefundRows /\ refunds[k].tax <= Whole
      /\ order \in OrderRows /\ BillSound(order)
  BY <1>1, <1>2, EachRefund
<1> DEFINE rows == CreditNoteTaxRows(refunds[k], up)
           headed == SnapshotRows(rows, Interstate(order.place))
           noted == SnapshotRows(rows, NoteHeads(order.place))
           slabs == PrintedNote(k, up).slabs
<1>6. notes[k].rows = noted
  BY <1>4 DEF NoteOf
<1>7. slabs.rows = headed /\ slabs.total = HeadsOf(headed)
  BY DEF PrintedNote, GstSummaryRows
<1>8. Slabs(rows) /\ TaxOf(rows) = refunds[k].tax
  BY <1>5, NoteRowsAre
<1> HIDE DEF rows
<1>9. /\ Slabs(headed) /\ DOMAIN headed = DOMAIN rows /\ TaxOf(headed) = TaxOf(rows)
      /\ \A r \in DOMAIN rows : HeadedRow(headed[r]) /\ headed[r].tax = rows[r].tax
  BY <1>8, SnapshotIs
<1>10. DOMAIN noted = DOMAIN rows /\ \A r \in DOMAIN rows : noted[r].tax = rows[r].tax
  BY <1>8, SnapshotIs
<1> HIDE DEF headed, noted, slabs
<1>11. Total(slabs.total) = refunds[k].tax
  <2>1. HeadedRows(headed)
    BY <1>9 DEF HeadedRows, Slabs
  <2> QED BY <1>7, <1>8, <1>9, <2>1, HeadsAddUp
<1>12. DOMAIN slabs.rows = DOMAIN notes[k].rows
  BY <1>6, <1>7, <1>9, <1>10
<1>13. \A r \in DOMAIN slabs.rows : slabs.rows[r].tax = notes[k].rows[r].tax
  BY <1>6, <1>7, <1>9, <1>10
<1> QED BY <1>11, <1>12, <1>13 DEF slabs

(* The papers add up.                                                      *)
LEMMA PaperAddsUp ==
  ASSUME MoneyInv
  PROVE  PrintAddsUp
BY ColumnsArePrinted, NoteIsPrinted DEF PrintAddsUp

-----------------------------------------------------------------------------
(***************************************************************************)
(* The export of the orders.                                               *)
(***************************************************************************)
LEMMA TotalOfOneOnly ==
  ASSUME NEW f, Amounts(f), NEW x \in DOMAIN f, \A y \in DOMAIN f : y # x => f[y] = 0
  PROVE  Total(f) = f[x]
<1> DEFINE z == [y \in DOMAIN f |-> 0]
           g == [z EXCEPT ![x] = @ + f[x]]
<1>1. IsFiniteSet(DOMAIN f) /\ \A y \in DOMAIN f : f[y] \in Int
  BY DEF Amounts
<1>2. DOMAIN z = DOMAIN f /\ \A y \in DOMAIN f : z[y] = 0
  OBVIOUS
<1>3. DOMAIN g = DOMAIN f /\ \A y \in DOMAIN f : f[y] = g[y]
  BY <1>1
<1> HIDE DEF z
<1>4. Amounts(z)
  BY <1>1, <1>2 DEF Amounts
<1>5. Total(z) = 0
  BY <1>1, <1>2, TotalOfZeros
<1>6. Total(g) = Total(z) + f[x]
  BY <1>1, <1>2, <1>4, TotalOfOneMore
<1> HIDE DEF g
<1>7. \A y \in DOMAIN f : g[y] = f[y]
  BY <1>3
<1>8. Total(g) = Total(f)
  BY <1>3, <1>7, TotalAgrees
<1> QED BY <1>1, <1>5, <1>6, <1>8

LEMMA InvoicedOnce ==
  ASSUME MoneyInv, invoice # None
  PROVE  Total([m \in 1 .. MaxMonth |-> InvoiceBlock(m).tax]) = invoice.tax
<1> DEFINE f == [m \in 1 .. MaxMonth |-> InvoiceBlock(m).tax]
<1>1. invoice.month \in 1 .. MaxMonth /\ MaxMonth \in Nat /\ invoice.tax \in Nat
  <2>1. invoice.month \in 1 .. month /\ invoice.tax = Whole /\ order # None
    BY DEF MoneyInv, InvoiceInv
  <2>2. order \in OrderRows /\ BillSound(order)
    BY <2>1 DEF MoneyInv, BillInv
  <2>3. Whole \in Nat
    BY <2>2, FiguresOfTheBill
  <2>4. MaxMonth \in Nat
    BY PricingAssumption
  <2>5. month \in 1 .. MaxMonth
    BY DEF MoneyInv, BaseInv
  <2> QED BY <2>1, <2>3, <2>4, <2>5
<1>2. ASSUME NEW m \in 1 .. MaxMonth
      PROVE  InvoiceBlock(m).tax = IF invoice.month = m THEN invoice.tax ELSE 0
  BY DEF InvoiceBlock, InvoicedIn, Block
<1>3. DOMAIN f = 1 .. MaxMonth /\ \A m \in DOMAIN f : f[m] = IF invoice.month = m THEN invoice.tax ELSE 0
  BY <1>2
<1> HIDE DEF f
<1>4. Amounts(f)
  BY <1>1, <1>3, UpToIsFinite DEF Amounts
<1>5. Total(f) = f[invoice.month]
  BY <1>1, <1>3, <1>4, TotalOfOneOnly
<1> QED BY <1>1, <1>3, <1>5 DEF f

\* Where every refund has its note and nothing was cancelled.
AllNoted == \A k \in DOMAIN notes : notes[k] # None /\ notes[k].reason = "refund"

LEMMA NotedIsAllRefunds ==
  ASSUME MoneyInv, AllNoted
  PROVE  /\ Notes = DOMAIN refunds /\ Len(refunds) \in Nat /\ DOMAIN refunds = 1 .. Len(refunds)
         /\ \A k \in Notes : notes[k].tax = refunds[k].tax /\ notes[k].month \in 1 .. month
                             /\ notes[k].tax \in Nat
<1>1. BillInv /\ RefundInv /\ NoteInv
  BY DEF MoneyInv
<1>2. /\ Len(refunds) \in Nat /\ DOMAIN refunds = 1 .. Len(refunds)
      /\ \A k \in DOMAIN refunds : refunds[k] \in RefundRows /\ refunds[k].month \in 1 .. month
  <2>1. refunds \in Seq(RefundRows)
    BY <1>1 DEF RefundInv
  <2> QED BY <1>1, <2>1, RefundsAre DEF RefundInv
<1>3. Len(notes) \in Nat /\ DOMAIN notes = 1 .. Len(notes)
  BY <1>1, NotesAre
<1>4. ByRefund
  <2>1. ~ByCancel
    <3> SUFFICES ASSUME ByCancel PROVE FALSE
      OBVIOUS
    <3>1. Len(notes) = 1 /\ notes[1].reason = "cancellation"
      BY DEF ByCancel
    <3>2. 1 \in DOMAIN notes
      BY <1>3, <3>1
    <3> QED BY <3>1, <3>2 DEF AllNoted
  <2> QED BY <1>1, <2>1 DEF NoteInv
<1>5. DOMAIN notes = DOMAIN refunds
  BY <1>2, <1>3, <1>4 DEF ByRefund
<1>6. Notes = DOMAIN notes
  BY DEF Notes, AllNoted
<1>7. ASSUME NEW k \in Notes
      PROVE  notes[k].tax = refunds[k].tax /\ notes[k].month = refunds[k].month
  <2>1. \E up \in BOOLEAN : notes[k] = NoteOf(refunds[k], up)
    BY <1>4, <1>6 DEF ByRefund, AllNoted
  <2>2. PICK up \in BOOLEAN : notes[k] = NoteOf(refunds[k], up)
    BY <2>1
  <2> QED BY <2>2 DEF NoteOf
<1>8. \A k \in DOMAIN refunds : refunds[k].tax \in Nat
  BY <1>2 DEF RefundRows
<1> QED BY <1>2, <1>5, <1>6, <1>7, <1>8

LEMMA CreditedOnce ==
  ASSUME MoneyInv, AllNoted
  PROVE  Total([m \in 1 .. MaxMonth |-> CreditBlock(m).tax]) = RefundedTax
<1> DEFINE v == [m \in 1 .. MaxMonth |-> CreditBlock(m).tax]
           t == [k \in Notes |-> notes[k].tax]
           at == [k \in Notes |-> notes[k].month]
<1>1. /\ Notes = DOMAIN refunds /\ Len(refunds) \in Nat /\ DOMAIN refunds = 1 .. Len(refunds)
      /\ \A k \in Notes : notes[k].tax = refunds[k].tax /\ notes[k].month \in 1 .. month
                          /\ notes[k].tax \in Nat
  BY NotedIsAllRefunds
<1>2. MaxMonth \in Nat /\ month \in 1 .. MaxMonth
  BY PricingAssumption DEF MoneyInv, BaseInv
<1>3. IsFiniteSet(Notes) /\ IsFiniteSet(1 .. MaxMonth)
  BY <1>1, <1>2, UpToIsFinite
<1>4. DOMAIN t = Notes /\ DOMAIN v = 1 .. MaxMonth
  OBVIOUS
<1>5. \A k \in Notes : t[k] = notes[k].tax /\ at[k] = notes[k].month /\ at[k] \in 1 .. MaxMonth /\ t[k] \in Int
  BY <1>1, <1>2
<1>6. Amounts(t)
  BY <1>3, <1>4, <1>5 DEF Amounts
<1>7. ASSUME NEW m \in 1 .. MaxMonth
      PROVE  v[m] = SumFunctionOnSet(t, {x \in DOMAIN t : at[x] = m})
  <2> DEFINE A == CreditNotesIn(m)
             g == [k \in A |-> notes[k].tax]
  <2>1. A = {x \in DOMAIN t : at[x] = m} /\ A \in SUBSET DOMAIN t
    BY <1>5 DEF CreditNotesIn
  <2>2. v[m] = Total(g)
    BY DEF CreditBlock, Block
  <2>3. DOMAIN g = A /\ \A x \in A : g[x] = t[x]
    BY <1>4, <1>5, <2>1
  <2> HIDE DEF A, g, t, v, at
  <2>4. Total(g) = SumFunctionOnSet(t, A)
    BY <1>6, <2>1, <2>3, TotalOfPart
  <2> QED BY <2>1, <2>2, <2>4
<1>8. t = [k \in DOMAIN refunds |-> refunds[k].tax]
  BY <1>1
<1> HIDE DEF t, v, at
<1>9. Total(v) = Total(t)
  <2>1. IsFiniteSet(DOMAIN v) /\ \A x \in DOMAIN t : at[x] \in DOMAIN v
    BY <1>3, <1>4, <1>5
  <2>2. \A r \in DOMAIN v : v[r] = SumFunctionOnSet(t, {x \in DOMAIN t : at[x] = r})
    BY <1>4, <1>7
  <2> QED BY ONLY <1>6, <2>1, <2>2, TotalBySlab
<1> QED BY <1>8, <1>9 DEF v, RefundedTax

\* The tax split once is off the tax split slab by slab by half a paisa each.
LEMMA SplitOnceOrBySlab ==
  ASSUME MoneyInv, invoice # None, invoice.seller = home
  PROVE  LET apart == GstHeads.cgst - HeadsOf(invoice.rows)["cgst"]
             n     == Cardinality(DOMAIN invoice.rows)
         IN  2 * apart <= n /\ -2 * apart <= n
<1> DEFINE D == DOMAIN invoice.rows
           c == [r \in D |-> invoice.rows[r].cgst]
           d == [r \in D |-> 2 * invoice.rows[r].cgst]
           t == [r \in D |-> invoice.rows[r].tax]
           one == [r \in D |-> 1]
           u == [r \in D |-> invoice.rows[r].tax + 1]
           h == GstHeads.cgst
           n == Cardinality(D)
           C == HeadsOf(invoice.rows)["cgst"]
<1>1. BillInv /\ InvoiceInv
  BY DEF MoneyInv
<1>2. /\ order # None /\ order \in OrderRows /\ BillSound(order)
      /\ Slabs(invoice.rows) /\ TaxOf(invoice.rows) = Whole
      /\ \A r \in D :
           /\ HeadedRow(invoice.rows[r])
           /\ IF invoice.interstate THEN invoice.rows[r].cgst = 0
              ELSE 2 * invoice.rows[r].cgst <= invoice.rows[r].tax + 1 /\ invoice.rows[r].tax <= 2 * invoice.rows[r].cgst
  BY <1>1, InvoiceRowsAre
<1>3. IsFiniteSet(D) /\ n \in Nat
  BY <1>2, FS_CardinalityType DEF Slabs
<1>4. \A r \in D : invoice.rows[r].cgst \in Int /\ invoice.rows[r].tax \in Int
  BY <1>2 DEF HeadedRow
<1>5. C = Total(c)
  BY DEF HeadsOf, Column
<1>6. Whole \in Nat /\ Whole = order.tax + order.shipTax
  BY <1>2, FiguresOfTheBill DEF Whole
<1>7. invoice.interstate = Interstate(order.place)
  BY <1>1 DEF InvoiceInv, Interstate
<1>8. /\ h \in Int
      /\ IF invoice.interstate THEN h = 0 ELSE 2 * h <= Whole + 1 /\ Whole <= 2 * h
  <2>1. GstHeads = SplitGst(Whole, invoice.interstate)
    BY <1>6, <1>7 DEF GstHeads
  <2> DEFINE g == SplitGst(Whole, invoice.interstate)
  <2>2. /\ g.cgst \in Int
        /\ IF invoice.interstate THEN g.cgst = 0 ELSE 2 * g.cgst <= Whole + 1 /\ Whole <= 2 * g.cgst
    BY <1>6, SplitIs
  <2> HIDE DEF g
  <2> QED BY <2>1, <2>2 DEF g
<1>9. /\ DOMAIN c = D /\ DOMAIN d = D /\ DOMAIN t = D /\ DOMAIN one = D /\ DOMAIN u = D
      /\ \A r \in D : /\ c[r] = invoice.rows[r].cgst /\ c[r] \in Int
                      /\ t[r] = invoice.rows[r].tax /\ t[r] \in Int
                      /\ d[r] = 2 * c[r] /\ d[r] \in Int
                      /\ one[r] = 1 /\ u[r] = t[r] + one[r] /\ u[r] \in Int
  BY <1>4
<1>10. Total(t) = Whole
  BY <1>2 DEF TaxOf
<1>11. Total(one) = n
  <2> HIDE DEF D
  <2> QED BY <1>3, <1>9, TotalOfOnes
<1> HIDE DEF D, c, d, t, one, u, h, C
<1>12. Amounts(c) /\ Amounts(d) /\ Amounts(t) /\ Amounts(one) /\ Amounts(u)
  BY <1>3, <1>9 DEF Amounts
<1>13. Total(c) \in Int
  BY <1>12, TotalIsInt
<1>14. CASE invoice.interstate
  <2>1. \A r \in D : c[r] = 0
    BY <1>2, <1>9, <1>14
  <2>2. Total(c) = 0
    BY <1>3, <1>9, <2>1, TotalOfZeros
  <2>3. h - C = 0
    BY <1>5, <1>8, <1>14, <2>2
  <2> HIDE DEF n
  <2>4. 2 * (h - C) <= n /\ -2 * (h - C) <= n
    BY <1>3, <2>3
  <2> QED BY <2>4 DEF h, C, D, n
<1>15. CASE ~invoice.interstate
  <2>1. \A r \in D : d[r] <= u[r] /\ t[r] <= d[r]
    BY <1>2, <1>9, <1>15
  <2>2. Total(d) = 2 * Total(c)
    BY <1>9, <1>12, TotalScaled
  <2>3. Total(u) = Total(t) + Total(one)
    BY <1>9, <1>12, TotalPlus
  <2>4. Total(d) <= Total(u)
    BY <1>9, <1>12, <2>1, TotalBelow
  <2>5. Total(t) <= Total(d)
    BY <1>9, <1>12, <2>1, TotalBelow
  <2>6. 2 * h <= Whole + 1 /\ Whole <= 2 * h /\ h \in Int
    BY <1>8, <1>15
  <2>7. n = 0 => Whole = 0
    <3> SUFFICES ASSUME n = 0 PROVE Whole = 0
      OBVIOUS
    <3>1. D = {}
      BY <1>3, FS_EmptySet
    <3> QED BY <1>9, <1>10, <3>1, TotalOfNone
  <2> HIDE DEF n
  <2>8. C \in Int /\ Whole <= 2 * C /\ 2 * C <= Whole + n
    BY <1>3, <1>5, <1>6, <1>10, <1>11, <1>13, <2>2, <2>3, <2>4, <2>5
  <2>9. 2 * (h - C) <= n /\ -2 * (h - C) <= n
    BY ONLY <1>3, <1>6, <2>6, <2>7, <2>8
  <2> QED BY <2>9 DEF h, C, D, n
<1> QED BY <1>14, <1>15

(* The export, the registers and the invoice tell one story.               *)
LEMMA ExportTellsTheSame ==
  ASSUME MoneyInv
  PROVE  ExportAgrees
<1> SUFFICES ASSUME order # None
             PROVE  LET row       == ExportRow
                        documents == 1 .. MaxMonth
                        left      == Total([m \in documents |-> InvoiceBlock(m).tax]) - Total([m \in documents |-> CreditBlock(m).tax])
                    IN  /\ row.taxable + row.shipping + row.totalTax = row.total
                        /\ Heads(row.heads) = row.totalTax
                        /\ 0 <= row.netTax
                        /\ invoice # None /\ (\A k \in DOMAIN notes : notes[k] # None /\ notes[k].reason = "refund") =>
                             row.netTax = left
                        /\ invoice # None /\ invoice.seller = home =>
                             LET apart == row.heads.cgst - HeadsOf(invoice.rows)["cgst"]
                             IN  2 * apart <= Cardinality(DOMAIN invoice.rows) /\ -2 * apart <= Cardinality(DOMAIN invoice.rows)
  BY DEF ExportAgrees
<1> DEFINE row == ExportRow
<1>1. BillInv /\ RefundInv /\ order \in OrderRows /\ BillSound(order)
  BY DEF MoneyInv, BillInv
<1>2. /\ row.taxable = order.subtotal - order.discount - order.tax /\ row.shipping = order.shipping
      /\ row.totalTax = order.tax + order.shipTax /\ row.total = order.total /\ row.heads = GstHeads
      /\ row.netTax = order.tax + order.shipTax - RefundedTax
  BY DEF ExportRow
<1>3. /\ order.subtotal \in Nat /\ order.discount \in Nat /\ order.shipping \in Nat /\ order.shipTax \in Nat
      /\ order.tax \in Nat /\ Whole \in Nat /\ Whole = order.tax + order.shipTax
  BY <1>1, FiguresOfTheBill DEF Whole
<1> HIDE DEF row
<1>4. row.taxable + row.shipping + row.totalTax = row.total
  <2>1. order.total = order.subtotal - order.discount + order.shipping + order.shipTax
    BY <1>1 DEF BillSound
  <2> QED BY <1>2, <1>3, <2>1
<1>5. Heads(row.heads) = row.totalTax
  BY <1>2, <1>3, SplitIs DEF GstHeads
<1>6. RefundedTax \in Nat /\ RefundedTax <= Whole
  <2>1. refunds \in Seq(RefundRows)
    BY <1>1 DEF RefundInv
  <2>2. CASE refunds = <<>>
    BY <1>3, <2>1, <2>2, RefundsAre
  <2>3. CASE refunds # <<>>
    BY <1>1, <2>1, <2>3, RefundsAre DEF RefundInv
  <2> QED BY <2>2, <2>3
<1>7. row.netTax = Whole - RefundedTax /\ 0 <= row.netTax
  BY <1>2, <1>3, <1>6
<1>8. ASSUME invoice # None, \A k \in DOMAIN notes : notes[k] # None /\ notes[k].reason = "refund"
      PROVE  row.netTax = Total([m \in 1 .. MaxMonth |-> InvoiceBlock(m).tax]) - Total([m \in 1 .. MaxMonth |-> CreditBlock(m).tax])
  <2>1. Total([m \in 1 .. MaxMonth |-> InvoiceBlock(m).tax]) = invoice.tax
    BY <1>8, InvoicedOnce
  <2>2. Total([m \in 1 .. MaxMonth |-> CreditBlock(m).tax]) = RefundedTax
    BY <1>8, CreditedOnce DEF AllNoted
  <2>3. invoice.tax = Whole
    BY <1>8 DEF MoneyInv, InvoiceInv
  <2> QED BY <1>7, <2>1, <2>2, <2>3
<1>9. ASSUME invoice # None, invoice.seller = home
      PROVE  LET apart == row.heads.cgst - HeadsOf(invoice.rows)["cgst"]
             IN  2 * apart <= Cardinality(DOMAIN invoice.rows) /\ -2 * apart <= Cardinality(DOMAIN invoice.rows)
  BY <1>2, <1>9, SplitOnceOrBySlab
<1> QED BY <1>4, <1>5, <1>7, <1>8, <1>9 DEF row

(* FiguresAgree: the same figures by different roads.                      *)
THEOREM FiguresAlwaysAgree == Spec => []FiguresAgree
<1>1. MoneyInv => FiguresAgree
  BY ReportsTellOneStory, PaperAddsUp, ExportTellsTheSame DEF FiguresAgree
<1> QED BY <1>1, MoneyIsKept, PTL

=============================================================================
