-------------------------- MODULE Analytics_proofs ---------------------------
(***************************************************************************)
(* The Insights, for any visits, orders, customers, jobs and days.  What   *)
(* is inductive:                                                           *)
(*                                                                         *)
(*   Typed     the tables, and what a job carries between two statements;  *)
(*   CountInv  a visit stored, buffered or held by a drain is a visit that *)
(*             came; and on a day that met no gap the drains under way     *)
(*             know all of its counters;                                   *)
(*   RowInv    what a job read of a day is true of it until an order that  *)
(*             tells of that day changes.                                  *)
(***************************************************************************)
EXTENDS Analytics, NumberFacts, SequenceTheorems

-----------------------------------------------------------------------------
(***************************************************************************)
(* Counters: what the drains hold, and devices that add up.                *)
(***************************************************************************)
HeldBy(dr, at, d, c) == SumFunction([j \in {k \in Jobs : at[k] = d} |-> dr[j].taken[c]])
Share(dr, at, j, d, c) == IF at[j] = d THEN dr[j].taken[c] ELSE 0
Besides(at, j, d) == {k \in Jobs \ {j} : at[k] = d}
RestHeld(dr, at, j, d, c) ==
  SumFunctionOnSet([k \in Jobs |-> dr[k].taken[c]], Besides(at, j, d))
Counts(dr, c) == \A k \in Jobs : dr[k].taken[c] \in Nat

LEMMA KeptIs ==
  ASSUME NEW d, NEW at, NEW c
  PROVE  Kept(d, at, c) = stat[d][c] + buffer[d][c] + HeldBy(drain, at, d, c)
BY DEF Kept, HeldBy

(* The share of one job set apart.                                         *)
LEMMA OneApart ==
  ASSUME NEW dr, NEW at, NEW j \in Jobs, NEW d, NEW c, Counts(dr, c)
  PROVE  /\ HeldBy(dr, at, d, c) = Share(dr, at, j, d, c) + RestHeld(dr, at, j, d, c)
         /\ RestHeld(dr, at, j, d, c) \in Nat
         /\ Share(dr, at, j, d, c) \in Nat
<1> DEFINE T == {k \in Jobs : at[k] = d}
           f == [k \in T |-> dr[k].taken[c]]
           g == [k \in Jobs |-> dr[k].taken[c]]
           B == Besides(at, j, d)
<1>1. IsFiniteSet(T) /\ IsFiniteSet(B)
  <2>1. T \subseteq Jobs /\ B \subseteq Jobs
    BY DEF Besides
  <2> QED BY <2>1, AnonAssumption, FS_Subset
<1>2. /\ Integral(g, T) /\ Integral(g, B) /\ \A x \in T : f[x] = g[x]
      /\ \A x \in B : g[x] \in Nat
  BY DEF Counts, Integral, Besides
<1>3. HeldBy(dr, at, d, c) = SumFunctionOnSet(f, T)
  BY DEF HeldBy, SumFunction
<1>4. SumFunctionOnSet(f, T) = SumFunctionOnSet(g, T)
  <2> HIDE DEF T, f, g, B
  <2> QED BY <1>1, <1>2, SumAgrees
<1>5. SumFunctionOnSet(g, B) \in Nat
  <2> HIDE DEF T, f, g, B
  <2> QED BY <1>1, <1>2, SumIsNatural
<1>8. RestHeld(dr, at, j, d, c) = SumFunctionOnSet(g, B)
  BY DEF RestHeld
<1>9. Share(dr, at, j, d, c) \in Nat
  BY DEF Share, Counts
<1>6. CASE at[j] = d
  <2>1. j \in T /\ T \ {j} = B /\ g[j] = Share(dr, at, j, d, c)
    BY <1>6 DEF Share, Besides
  <2>2. SumFunctionOnSet(g, T) = g[j] + SumFunctionOnSet(g, T \ {j})
    <3> HIDE DEF T, f, g, B
    <3> QED BY <1>1, <1>2, <2>1, SumWithout
  <2> HIDE DEF f, g, T, B
  <2> QED BY <1>3, <1>4, <1>5, <1>8, <1>9, <2>1, <2>2
<1>7. CASE at[j] # d
  <2>1. T = B /\ Share(dr, at, j, d, c) = 0
    BY <1>7 DEF Share, Besides
  <2> HIDE DEF f, g, T, B
  <2> QED BY <1>3, <1>4, <1>5, <1>8, <1>9, <2>1
<1> QED BY <1>6, <1>7

(* Only one job moved: what is held moves by its share.                    *)
LEMMA HeldMoves ==
  ASSUME NEW dr, NEW dr2, NEW at, NEW at2, NEW j \in Jobs, NEW d, NEW c,
         Counts(dr, c), Counts(dr2, c),
         \A k \in Jobs \ {j} : at2[k] = at[k] /\ dr2[k] = dr[k]
  PROVE  /\ HeldBy(dr, at, d, c) \in Nat /\ HeldBy(dr2, at2, d, c) \in Nat
         /\ Share(dr, at, j, d, c) \in Nat /\ Share(dr2, at2, j, d, c) \in Nat
         /\ HeldBy(dr2, at2, d, c) + Share(dr, at, j, d, c)
              = HeldBy(dr, at, d, c) + Share(dr2, at2, j, d, c)
<1> DEFINE g == [k \in Jobs |-> dr[k].taken[c]]
           h == [k \in Jobs |-> dr2[k].taken[c]]
           B == Besides(at, j, d)
<1>1. Besides(at2, j, d) = B
  BY DEF Besides
<1>2. IsFiniteSet(B) /\ Integral(g, B) /\ \A x \in B : h[x] = g[x]
  <2>1. B \subseteq Jobs
    BY DEF Besides
  <2>2. IsFiniteSet(B)
    BY <2>1, AnonAssumption, FS_Subset
  <2> QED BY <2>2 DEF Counts, Integral, Besides
<1>3. SumFunctionOnSet(h, B) = SumFunctionOnSet(g, B)
  <2> HIDE DEF g, h, B
  <2> QED BY <1>2, SumAgrees
<1>4. RestHeld(dr, at, j, d, c) = SumFunctionOnSet(g, B)
      /\ RestHeld(dr2, at2, j, d, c) = SumFunctionOnSet(h, B)
  BY <1>1 DEF RestHeld
<1> HIDE DEF g, h, B
<1>5. /\ HeldBy(dr, at, d, c) = Share(dr, at, j, d, c) + RestHeld(dr, at, j, d, c)
      /\ RestHeld(dr, at, j, d, c) \in Nat /\ Share(dr, at, j, d, c) \in Nat
  BY OneApart
<1>6. /\ HeldBy(dr2, at2, d, c) = Share(dr2, at2, j, d, c) + RestHeld(dr2, at2, j, d, c)
      /\ Share(dr2, at2, j, d, c) \in Nat
  BY OneApart
<1> QED BY <1>3, <1>4, <1>5, <1>6

LEMMA HeldIsCount ==
  ASSUME NEW dr, NEW at, NEW d, NEW c, Counts(dr, c)
  PROVE  HeldBy(dr, at, d, c) \in Nat
<1> DEFINE T == {k \in Jobs : at[k] = d}
           f == [k \in T |-> dr[k].taken[c]]
<1>1. IsFiniteSet(T)
  <2>1. T \subseteq Jobs
    OBVIOUS
  <2> QED BY <2>1, AnonAssumption, FS_Subset
<1>2. \A x \in T : f[x] \in Nat
  BY DEF Counts
<1>3. HeldBy(dr, at, d, c) = SumFunctionOnSet(f, T)
  BY DEF HeldBy, SumFunction
<1> HIDE DEF T, f
<1> QED BY <1>1, <1>2, <1>3, SumIsNatural

(* The counts of the devices add up to the total.                          *)
Bars(f, m) == SumFunctionOnSet([x \in Devices |-> f[<<m, x>>]], DimsOf(m))
Balanced(f) == \A m \in Metrics : DimsOf(m) # {} => f[<<m, "">>] = Bars(f, m)
CountsOf == [Counters -> Nat]

LEMMA DevicesAreFew == \A m : IsFiniteSet(DimsOf(m)) /\ \A x \in DimsOf(m) : x \in Devices /\ <<m, x>> \in Counters
<1>1. IsFiniteSet({"bot"}) /\ IsFiniteSet({"tablet"}) /\ IsFiniteSet({"mobile"}) /\ IsFiniteSet({"desktop"})
  BY FS_Singleton
<1>2. IsFiniteSet({"bot"} \cup {"tablet"}) /\ IsFiniteSet({"mobile"} \cup {"desktop"})
  BY <1>1, FS_Union
<1>3. IsFiniteSet(({"bot"} \cup {"tablet"}) \cup ({"mobile"} \cup {"desktop"}))
  BY <1>2, FS_Union
<1>4. Devices = ({"bot"} \cup {"tablet"}) \cup ({"mobile"} \cup {"desktop"})
  BY DEF Devices
<1>5. \A m : DimsOf(m) \subseteq Devices
  BY DEF DimsOf
<1>6. \A m : IsFiniteSet(DimsOf(m))
  BY <1>3, <1>4, <1>5, FS_Subset
<1> QED BY <1>6 DEF DimsOf

(* A metric with devices has a total beside them.                          *)
LEMMA TotalIsCounter ==
  ASSUME NEW m \in Metrics, DimsOf(m) # {}
  PROVE  <<m, "">> \in Counters
<1>1. PICK x \in Devices : <<m, x>> \in Counters
  BY DEF DimsOf
<1>2. PICK v \in Visits : <<m, x>> \in Bumps(v)
  BY <1>1 DEF Counters
<1>3. <<m, "">> \in Bumps(v)
  BY <1>2, AnonAssumption DEF Bumps
<1> QED BY <1>2, <1>3 DEF Counters

LEMMA BarsAre ==
  ASSUME NEW f \in CountsOf, NEW m
  PROVE  Integral([x \in Devices |-> f[<<m, x>>]], DimsOf(m))
BY DevicesAreFew DEF Integral, CountsOf

LEMMA ZeroBalanced == Zero \in CountsOf /\ Balanced(Zero)
<1>1. Zero \in CountsOf
  BY DEF Zero, CountsOf
<1>2. ASSUME NEW m \in Metrics, DimsOf(m) # {}
      PROVE  Zero[<<m, "">>] = Bars(Zero, m)
  <2> DEFINE w == [x \in Devices |-> Zero[<<m, x>>]]
  <2>1. \A x \in DimsOf(m) : w[x] = 0
    BY DevicesAreFew DEF Zero
  <2>2. SumFunctionOnSet(w, DimsOf(m)) = 0
    <3> HIDE DEF w
    <3> QED BY <2>1, DevicesAreFew, SumOfZeros
  <2> QED BY <1>2, <2>2, TotalIsCounter DEF Zero, Bars
<1> QED BY <1>1, <1>2 DEF Balanced

LEMMA PlusBalanced ==
  ASSUME NEW f \in CountsOf, NEW g \in CountsOf
  PROVE  Plus(f, g) \in CountsOf /\ (Balanced(f) /\ Balanced(g) => Balanced(Plus(f, g)))
<1>1. Plus(f, g) \in CountsOf
  BY DEF Plus, CountsOf
<1>2. ASSUME Balanced(f), Balanced(g), NEW m \in Metrics, DimsOf(m) # {}
      PROVE  Plus(f, g)[<<m, "">>] = Bars(Plus(f, g), m)
  <2> DEFINE u == [x \in Devices |-> f[<<m, x>>]]
             v == [x \in Devices |-> g[<<m, x>>]]
             w == [x \in Devices |-> Plus(f, g)[<<m, x>>]]
  <2>1. \A x \in DimsOf(m) : w[x] = u[x] + v[x]
    BY DevicesAreFew DEF Plus
  <2>2. Integral(u, DimsOf(m)) /\ Integral(v, DimsOf(m))
    BY BarsAre
  <2>3. SumFunctionOnSet(w, DimsOf(m)) = SumFunctionOnSet(u, DimsOf(m)) + SumFunctionOnSet(v, DimsOf(m))
    <3> HIDE DEF u, v, w
    <3> QED BY <2>1, <2>2, DevicesAreFew, SumPlus
  <2>4. Plus(f, g)[<<m, "">>] = f[<<m, "">>] + g[<<m, "">>]
    BY <1>2, TotalIsCounter DEF Plus
  <2>5. f[<<m, "">>] = SumFunctionOnSet(u, DimsOf(m)) /\ g[<<m, "">>] = SumFunctionOnSet(v, DimsOf(m))
    BY <1>2 DEF Balanced, Bars
  <2>6. SumFunctionOnSet(w, DimsOf(m)) = Bars(Plus(f, g), m)
    BY DEF Bars
  <2> HIDE DEF u, v, w
  <2> QED BY <2>3, <2>4, <2>5, <2>6
<1> QED BY <1>1, <1>2 DEF Balanced

(* A visit has one device: it bumps one of the bars when it bumps the      *)
(* total.                                                                  *)
LEMMA HitBalanced ==
  ASSUME NEW v \in Visits
  PROVE  Hit(v) \in CountsOf /\ Balanced(Hit(v))
<1>1. Hit(v) \in CountsOf
  BY DEF Hit, CountsOf
<1>2. ASSUME NEW m \in Metrics, DimsOf(m) # {}
      PROVE  Hit(v)[<<m, "">>] = Bars(Hit(v), m)
  <2> DEFINE w == [x \in Devices |-> Hit(v)[<<m, x>>]]
  <2>1. <<m, "">> \in Counters
    BY <1>2, TotalIsCounter
  <2>2. \A x \in DimsOf(m) : w[x] = IF <<m, x>> \in Bumps(v) THEN 1 ELSE 0
    BY DevicesAreFew DEF Hit
  <2>3. Integral(w, DimsOf(m)) /\ IsFiniteSet(DimsOf(m))
    BY <1>1, BarsAre, DevicesAreFew
  <2>4. PICK x \in Devices : v.dims \cap Devices = {x}
    BY AnonAssumption
  <2>5. CASE <<m, "">> \in Bumps(v)
    <3>1. <<m, x>> \in Bumps(v) /\ \A y \in Devices : <<m, y>> \in Bumps(v) => y = x
      BY <2>4, <2>5 DEF Bumps
    <3>2. x \in DimsOf(m)
      BY <3>1 DEF DimsOf, Counters
    <3>3. w[x] = 1
      BY <2>2, <3>1, <3>2
    <3>4. \A y \in DimsOf(m) \ {x} : w[y] = 0
      BY <2>2, <3>1, DevicesAreFew
    <3>5. IsFiniteSet(DimsOf(m) \ {x})
      BY <2>3, FS_Subset
    <3>6. SumFunctionOnSet(w, DimsOf(m) \ {x}) = 0
      <4> HIDE DEF w
      <4> QED BY <3>4, <3>5, SumOfZeros
    <3>7. SumFunctionOnSet(w, DimsOf(m)) = w[x] + SumFunctionOnSet(w, DimsOf(m) \ {x})
      <4> HIDE DEF w
      <4> QED BY <2>3, <3>2, SumWithout
    <3>8. Bars(Hit(v), m) = SumFunctionOnSet(w, DimsOf(m))
      BY DEF Bars
    <3>9. Hit(v)[<<m, "">>] = 1
      <4>1. \A c \in Counters : c \in Bumps(v) => Hit(v)[c] = 1
        BY DEF Hit
      <4> QED BY <4>1, <2>1, <2>5
    <3>10. SumFunctionOnSet(w, DimsOf(m)) = 1 + 0
      <4> HIDE DEF w
      <4> QED BY <3>3, <3>6, <3>7
    <3>11. Bars(Hit(v), m) = 1
      BY <3>8, <3>10
    <3> QED BY <3>9, <3>11
  <2>6. CASE <<m, "">> \notin Bumps(v)
    <3>1. \A y : <<m, y>> \notin Bumps(v)
      BY <2>6, AnonAssumption DEF Bumps
    <3>2. \A y \in DimsOf(m) : w[y] = 0
      BY <2>2, <3>1
    <3>3. SumFunctionOnSet(w, DimsOf(m)) = 0
      <4> HIDE DEF w
      <4> QED BY <2>3, <3>2, SumOfZeros
    <3>4. Bars(Hit(v), m) = SumFunctionOnSet(w, DimsOf(m))
      BY DEF Bars
    <3>5. Hit(v)[<<m, "">>] = 0
      BY <2>1, <2>6 DEF Hit
    <3> QED BY <3>3, <3>4, <3>5
  <2> QED BY <2>5, <2>6
<1> QED BY <1>1, <1>2 DEF Balanced

-----------------------------------------------------------------------------
(***************************************************************************)
(* Types, and a job that is at a day.                                      *)
(***************************************************************************)
Stages    == {"idle", "rest", "store", "index", "take", "save", "clean"}
Draining  == {"take", "save", "clean"}
Customers == {Buyer[o] : o \in Orders}
OrderRows == [made : 0 .. MaxDay, cancelled : BOOLEAN, binned : BOOLEAN,
              refunded : 0 .. MaxDay, paid : 0 .. MaxDay]
SalesRows == [sold : SUBSET Orders, buyers : SUBSET Customers, fresh : SUBSET Customers,
              refunded : SUBSET Orders, paid : SUBSET Orders]
JobStates == [pc : Stages, todo : Seq(Days), row : SalesRows]
Drains    == [members : SUBSET Counters, taken : CountsOf]

AnonTyped ==
  /\ sent \in [Days -> CountsOf] /\ buffer \in [Days -> CountsOf] /\ stat \in [Days -> CountsOf]
  /\ index \in [Days -> SUBSET Counters]
  /\ drain \in [Jobs -> Drains]
  /\ raced \subseteq Days

SourceTyped ==
  /\ order \in [Orders -> OrderRows] /\ \A o \in Orders : order[o].made <= today
  /\ events \in [Days -> [Kinds -> Nat]]

StoredTyped ==
  /\ sales \in [Days -> SalesRows] /\ funnel \in [Days -> [Kinds -> Nat]]
  /\ job \in [Jobs -> JobStates]
  /\ \A j \in Jobs : job[j].pc # "idle" => job[j].todo # <<>>
  /\ stale \subseteq Days /\ touched \subseteq Jobs

Typed == today \in Days /\ AnonTyped /\ SourceTyped /\ StoredTyped

LEMMA DaysAre ==
  MaxDay \in Nat /\ Days = 1 .. MaxDay /\ 1 \in Days /\ \A d \in Days : d \in Nat /\ d # NoDay
<1>1. MaxDay \in Nat \ {0}
  BY AnonAssumption
<1> QED BY <1>1 DEF Days, NoDay

LEMMA RowsExist ==
  /\ Empty \in SalesRows /\ NoRow \in SalesRows
  /\ \A s \in SUBSET Orders : [Empty EXCEPT !.sold = s] \in SalesRows
  /\ Resting \in JobStates
<1>1. Empty = [sold |-> {}, buyers |-> {}, fresh |-> {}, refunded |-> {}, paid |-> {}]
  BY DEF Empty, NoRow
<1>2. /\ Empty \in SalesRows /\ NoRow \in SalesRows
      /\ \A s \in SUBSET Orders : [Empty EXCEPT !.sold = s] \in SalesRows
  BY <1>1 DEF SalesRows, NoRow
<1>3. <<>> \in Seq(Days)
  BY EmptySeq
<1> QED BY <1>2, <1>3 DEF Resting, JobStates, Stages

LEMMA InitTyped == Init => Typed
<1> SUFFICES ASSUME Init PROVE Typed
  OBVIOUS
<1>1. today \in Days
  BY DaysAre DEF Init, AnonInit
<1>2. AnonTyped
  BY ZeroBalanced DEF Init, AnonInit, AnonTyped, Idle, Drains
<1>3. 0 \in 0 .. MaxDay /\ 1 \in 0 .. MaxDay /\ 0 <= 1 /\ 1 <= 1
  BY DaysAre
<1>4. Unmade = [made |-> 0, cancelled |-> FALSE, binned |-> FALSE, refunded |-> 0, paid |-> 0]
  BY DEF Unmade, NoDay
<1>5. SourceTyped
  <2>1. today = 1 /\ order = [o \in Orders |-> IF o \in Begun THEN [Unmade EXCEPT !.made = 1] ELSE Unmade]
    BY DEF Init, AnonInit
  <2>2. \A o \in Orders : order[o] \in OrderRows /\ order[o].made <= today
    BY <1>3, <1>4, <2>1 DEF OrderRows
  <2>3. events \in [Days -> [Kinds -> Nat]]
    BY DEF Init, Quiet
  <2> QED BY <2>1, <2>2, <2>3 DEF SourceTyped
<1>6. StoredTyped
  <2>1. funnel \in [Days -> [Kinds -> Nat]]
    BY DEF Init, Quiet
  <2>2. job = [j \in Jobs |-> Resting] /\ Resting.pc = "idle"
    BY DEF Init, Resting
  <2> QED BY <2>1, <2>2, RowsExist DEF Init, StoredTyped
<1> QED BY <1>1, <1>2, <1>5, <1>6 DEF Typed

(* Where a job is, it has days to go.                                      *)
LEMMA AtADay ==
  ASSUME Typed, NEW j \in Jobs
  PROVE  /\ job[j].pc \in Stages /\ job[j].todo \in Seq(Days)
         /\ job[j].pc # "idle" => At(j) \in Days
         /\ AtDay[j] = At(j)
<1>1. job[j].pc \in Stages /\ job[j].todo \in Seq(Days) /\ (job[j].pc # "idle" => job[j].todo # <<>>)
  BY DEF Typed, StoredTyped, JobStates
<1>2. ASSUME job[j].todo # <<>> PROVE Head(job[j].todo) \in Days
  BY <1>1, <1>2, HeadTailProperties
<1>3. At(j) = IF job[j].todo = <<>> THEN NoDay ELSE Head(job[j].todo)
  BY DEF At
<1>4. AtDay[j] = At(j)
  BY DEF AtDay
<1> QED BY <1>1, <1>2, <1>3, <1>4

LEMMA VisitTyped ==
  ASSUME Typed, NEW v \in Visits, RecordAnon(v, Open), today' = today
  PROVE  AnonTyped'
<1>1. Hit(v) \in CountsOf
  BY HitBalanced
<1>2. today \in Days /\ sent[today] \in CountsOf /\ buffer[today] \in CountsOf
  BY DEF Typed, AnonTyped
<1>3. Plus(sent[today], Hit(v)) \in CountsOf /\ Plus(buffer[today], Hit(v)) \in CountsOf
  BY <1>1, <1>2, PlusBalanced
<1>4. Bumps(v) \subseteq Counters
  BY DEF Counters
<1>5. sent' \in [Days -> CountsOf]
  BY <1>3 DEF RecordAnon, Typed, AnonTyped
<1>6. buffer' \in [Days -> CountsOf]
  BY <1>3 DEF RecordAnon, Typed, AnonTyped
<1>7. index' \in [Days -> SUBSET Counters]
  BY <1>4 DEF RecordAnon, Typed, AnonTyped
<1>8. raced' \subseteq Days
  BY <1>2 DEF RecordAnon, Typed, AnonTyped
<1> QED BY <1>5, <1>6, <1>7, <1>8 DEF RecordAnon, Typed, AnonTyped

(* What a drain takes, and what it leaves.                                 *)
LEMMA TakenTyped ==
  ASSUME Typed, NEW j \in Jobs, NEW d \in Days
  PROVE  /\ [c \in Counters |-> IF c \in drain[j].members THEN buffer[d][c] ELSE 0] \in CountsOf
         /\ [c \in Counters |-> IF c \in drain[j].members THEN 0 ELSE buffer[d][c]] \in CountsOf
<1>1. buffer[d] \in CountsOf
  BY DEF Typed, AnonTyped
<1> QED BY <1>1 DEF CountsOf

DrainStep(j, d) ==
  \/ ReadIndex(j, d)
  \/ TakeCounts(j, d)
  \/ UpsertCounts(j, d)
  \/ CleanUp(j, d)
  \/ DrainDies(j, d)

LEMMA DrainTyped ==
  ASSUME Typed, NEW j \in Jobs, NEW d \in Days, DrainStep(j, d)
  PROVE  AnonTyped'
<1> USE DEF Typed, AnonTyped
<1>0. Idle \in Drains /\ Zero \in CountsOf
  BY ZeroBalanced DEF Idle, Drains
<1>1. CASE ReadIndex(j, d)
  BY <1>1 DEF ReadIndex, Drains
<1>2. CASE TakeCounts(j, d)
  <2>1. drain' \in [Jobs -> Drains]
    BY <1>2, TakenTyped DEF TakeCounts, Drains
  <2>2. buffer' \in [Days -> CountsOf]
    BY <1>2, TakenTyped DEF TakeCounts
  <2> QED BY <1>2, <2>1, <2>2 DEF TakeCounts
<1>3. CASE UpsertCounts(j, d)
  <2>1. Plus(stat[d], drain[j].taken) \in CountsOf
    BY PlusBalanced DEF Drains
  <2>2. drain' \in [Jobs -> Drains]
    BY <1>0, <1>3 DEF UpsertCounts, Drains
  <2>3. stat' \in [Days -> CountsOf]
    BY <1>3, <2>1 DEF UpsertCounts
  <2> QED BY <1>3, <2>2, <2>3 DEF UpsertCounts
<1>4. CASE CleanUp(j, d)
  <2>1. drain' \in [Jobs -> Drains]
    BY <1>0, <1>4 DEF CleanUp
  <2>2. buffer' \in [Days -> CountsOf]
    BY <1>4, TakenTyped DEF CleanUp
  <2>3. index' \in [Days -> SUBSET Counters]
    BY <1>4 DEF CleanUp
  <2> QED BY <1>4, <2>1, <2>2, <2>3 DEF CleanUp
<1>5. CASE DrainDies(j, d)
  BY <1>0, <1>5 DEF DrainDies
<1> QED BY <1>1, <1>2, <1>3, <1>4, <1>5 DEF DrainStep

LEMMA ExpiryTyped ==
  ASSUME Typed, NEW d \in Days, ExpireCounters(d)
  PROVE  AnonTyped'
BY ZeroBalanced DEF Typed, AnonTyped, ExpireCounters

(***************************************************************************)
(* Days and sets of orders.                                                *)
(***************************************************************************)
LEMMA DaysGoBack ==
  ASSUME Typed, NEW j \in Jobs
  PROVE  TargetDates(j) \in Seq(Days) /\ TargetDates(j) # <<>>
<1>1. Backfill \in Nat \ {0} /\ Recent \in Nat \ {0}
  BY AnalyticsAssumption
<1>2. today \in Nat /\ today # 0 /\ today <= MaxDay /\ MaxDay \in Nat
  BY DaysAre DEF Typed
<1>3. ASSUME NEW n \in Nat \ {0}
      PROVE  Last(n) \in Seq(Days) /\ Last(n) # <<>>
  <2> DEFINE m == IF n < today THEN n ELSE today
  <2>1. m \in Nat /\ m # 0 /\ m <= today
    BY <1>2
  <2>2. Last(n) = [i \in 1 .. m |-> today - m + i]
    BY DEF Last
  <2> HIDE DEF m
  <2>3. \A i \in 1 .. m : today - m + i \in Days
    BY <1>2, <2>1, DaysAre
  <2>4. Last(n) \in Seq(Days) /\ Len(Last(n)) = m
    BY <2>1, <2>2, <2>3
  <2> QED BY <2>1, <2>4
<1> QED BY <1>1, <1>3 DEF TargetDates

LEMMA ToldTyped ==
  \A d : /\ SoldOn(d) \subseteq Orders /\ RefundedOn(d) \subseteq Orders /\ PaidOn(d) \subseteq Orders
         /\ BuyersOn(d) \subseteq Customers /\ FreshOn(d) \subseteq Customers
BY DEF SoldOn, RefundedOn, PaidOn, BuyersOn, FreshOn, CountableOrders, Made, Customers

LEMMA TurnTyped ==
  ASSUME Typed, NEW j \in Jobs, NEW days \in Seq(Days), Turn(j, days)
  PROVE  /\ job' \in [Jobs -> JobStates]
         /\ \A k \in Jobs : job'[k].pc # "idle" => job'[k].todo # <<>>
         /\ touched' \subseteq Jobs
<1> DEFINE row == [Empty EXCEPT !.sold = SoldOn(Head(days))]
           next == IF days = <<>> THEN Resting ELSE [pc |-> "rest", todo |-> days, row |-> row]
<1>1. row \in SalesRows
  BY RowsExist, ToldTyped
<1>2. next \in JobStates /\ (next.pc # "idle" => next.todo # <<>>)
  <2> HIDE DEF row
  <2> QED BY <1>1, RowsExist DEF JobStates, Stages, Resting
<1>3. job' = [job EXCEPT ![j] = next] /\ touched' = touched \ {j}
  BY DEF Turn
<1> HIDE DEF row, next
<1> QED BY <1>2, <1>3 DEF Typed, StoredTyped

LEMMA ChangeTyped ==
  ASSUME Typed, NEW o \in Orders, NEW new \in OrderRows, new.made <= today, Change(o, new), today' = today
  PROVE  /\ order' \in [Orders -> OrderRows] /\ \A q \in Orders : order'[q].made <= today'
         /\ stale' \subseteq Days /\ touched' \subseteq Jobs
<1>1. \A r \in OrderRows : Tells(r) \subseteq Days
  BY DaysAre DEF OrderRows, Tells, NoDay
<1>2. LaterDays(o, new.made) \subseteq Days
  <2>1. ASSUME NEW q \in Made, order[q].made > new.made PROVE order[q].made \in Days
    BY <2>1, DaysAre DEF Made, Typed, SourceTyped, OrderRows, NoDay
  <2> QED BY <2>1 DEF LaterDays
<1>3. order[o] \in OrderRows
  BY DEF Typed, SourceTyped
<1>4. stale' \subseteq Days
  BY <1>1, <1>2, <1>3 DEF Change, Typed, StoredTyped
<1>5. touched' \subseteq Jobs
  BY DEF Change, Typed, StoredTyped
<1> QED BY <1>4, <1>5 DEF Change, Typed, SourceTyped

-----------------------------------------------------------------------------
(***************************************************************************)
(* The steps, sorted by what they leave alone.                             *)
(***************************************************************************)
Edits   == /\ UNCHANGED <<today, anon, sales, funnel, job>>
           /\ \E o \in Orders : PlaceOrder(o) \/ EditOrder(o)
Comes   == /\ UNCHANGED <<today, anon, order, sales, funnel, job, stale, touched>>
           /\ \E k \in Kinds : IngestEvent(k)
Visit   == UNCHANGED <<today, source, stored, touched>> /\ \E v \in Visits : RecordAnon(v, Open)
Dies(j) == UNCHANGED today /\ JobDies(j)
Night   == UNCHANGED <<anon, source, stored, touched>> /\ Midnight
Expires == UNCHANGED <<today, source, stored, touched>> /\ \E d \in Days : ExpireCounters(d)
Reads(j)  == UNCHANGED <<today, source, anon>> /\ (StartJob(j) \/ TallyRest(j) \/ StoreRow(j))
FlushesOn(j) == UNCHANGED <<today, source>> /\ Flush(j)

LEMMA NextIs ==
  ASSUME Next
  PROVE  \/ Edits \/ Comes \/ Visit \/ Night \/ Expires
         \/ \E j \in Jobs : Dies(j) \/ Reads(j) \/ FlushesOn(j)
<1>1. CASE Midnight
  BY <1>1 DEF Night, Midnight
<1>2. CASE UNCHANGED <<today, acts>> /\ \E d \in Days : ExpireCounters(d) /\ UNCHANGED <<source, stored, touched>>
  BY <1>2 DEF Expires, source, stored
<1>3. CASE UNCHANGED <<today, acts>> /\ \E j \in Jobs : RollupStep(j)
  BY <1>3 DEF RollupStep, Reads, FlushesOn, source, anon
<1>4. CASE Act
  <2>1. UNCHANGED today
    BY <1>4 DEF Act
  <2>2. CASE UNCHANGED anon /\ \E o \in Orders : PlaceOrder(o) \/ EditOrder(o)
    BY <2>1, <2>2 DEF Edits, PlaceOrder, EditOrder, anon
  <2>3. CASE UNCHANGED anon /\ \E k \in Kinds \ {"purchase"} : IngestEvent(k)
    BY <2>1, <2>3 DEF Comes, IngestEvent, anon
  <2>4. CASE (\E v \in Visits : RecordAnon(v, Open)) /\ UNCHANGED <<source, stored, touched>>
    BY <2>1, <2>4 DEF Visit, source, stored
  <2>5. CASE \E j \in Jobs : JobDies(j)
    BY <2>1, <2>5 DEF Dies
  <2> QED BY <1>4, <2>2, <2>3, <2>4, <2>5 DEF Act
<1> QED BY <1>1, <1>2, <1>3, <1>4 DEF Next

(* An edit gives one order a new row; its day is the one it had, or today. *)
NewRow(o, new) ==
  /\ new \in OrderRows /\ new.made <= today
  /\ \/ o \in Made /\ new.made = order[o].made
     \/ o \notin Made /\ new.made # NoDay /\ new.refunded = NoDay /\ new.paid = NoDay

LEMMA EditIs ==
  ASSUME Typed, NEW o \in Orders, PlaceOrder(o) \/ EditOrder(o), UNCHANGED today
  PROVE  /\ \E new : NewRow(o, new) /\ Change(o, new)
         /\ events' \in [Days -> [Kinds -> Nat]]
         /\ \A d \in Days : \A k \in Kinds : events[d][k] <= events'[d][k]
<1>0. /\ today \in Days /\ today \in 0 .. MaxDay /\ 0 \in 0 .. MaxDay /\ today # NoDay /\ today <= today
      /\ order[o] \in OrderRows /\ order[o].made <= today
      /\ events \in [Days -> [Kinds -> Nat]]
  BY DaysAre DEF Typed, SourceTyped
<1>2. CASE PlaceOrder(o)
  <2>1. o \notin Made /\ Change(o, [Unmade EXCEPT !.made = today])
    BY <1>2 DEF PlaceOrder
  <2>2. Unmade \in OrderRows /\ Unmade.refunded = NoDay /\ Unmade.paid = NoDay
    BY <1>0 DEF Unmade, OrderRows, NoDay
  <2>7. /\ [Unmade EXCEPT !.made = today] \in OrderRows
        /\ [Unmade EXCEPT !.made = today].made = today
        /\ [Unmade EXCEPT !.made = today].refunded = NoDay
        /\ [Unmade EXCEPT !.made = today].paid = NoDay
    BY <1>0, <2>2 DEF OrderRows
  <2>3. NewRow(o, [Unmade EXCEPT !.made = today])
    BY <1>0, <2>1, <2>7 DEF NewRow
  <2>4. PurchaseRecorded \/ UNCHANGED events
    BY <1>2 DEF PlaceOrder
  <2>5. CASE PurchaseRecorded
    <3>1. events' = [events EXCEPT ![today]["purchase"] = @ + 1] /\ "purchase" \in Kinds
      BY <2>5 DEF PurchaseRecorded, Kinds
    <3> QED BY <1>0, <2>1, <2>3, <3>1
  <2>6. CASE UNCHANGED events
    BY <1>0, <2>1, <2>3, <2>6
  <2> QED BY <2>4, <2>5, <2>6
<1>3. CASE EditOrder(o)
  <2> DEFINE Rows == {[order[o] EXCEPT !.cancelled = TRUE], [order[o] EXCEPT !.cancelled = FALSE],
                      [order[o] EXCEPT !.binned = TRUE], [order[o] EXCEPT !.binned = FALSE],
                      [order[o] EXCEPT !.refunded = today],
                      [order[o] EXCEPT !.paid = today], [order[o] EXCEPT !.paid = NoDay]}
  <2>1. o \in Made /\ UNCHANGED events
    BY <1>3 DEF EditOrder
  <2>2. \A r \in Rows : r \in OrderRows /\ r.made = order[o].made
    BY <1>0 DEF OrderRows, NoDay
  <2>3. \A r \in Rows : NewRow(o, r)
    BY <1>0, <2>1, <2>2 DEF NewRow
  <2>4. \E r \in Rows : Change(o, r)
    BY <1>3 DEF EditOrder, CancelOrder, ReviveOrder, BinOrder, RestoreOrder, RefundOrder, ConfirmCash
  <2> HIDE DEF Rows
  <2>5. PICK r \in Rows : Change(o, r)
    BY <2>4
  <2>6. NewRow(o, r)
    BY <2>3, <2>5
  <2>7. \E new : NewRow(o, new) /\ Change(o, new)
    BY <2>5, <2>6
  <2>8. /\ events' \in [Days -> [Kinds -> Nat]]
        /\ \A d \in Days : \A k \in Kinds : events[d][k] <= events'[d][k]
    BY <1>0, <2>1
  <2> QED BY <2>7, <2>8
<1> QED BY <1>2, <1>3

(* What a drain step does to the job: on to the next statement, or day.    *)
LEMMA FlushIs ==
  ASSUME Typed, NEW j \in Jobs, Flush(j)
  PROVE  /\ job[j].pc \in {"index", "take", "save", "clean"} /\ At(j) \in Days
         /\ UNCHANGED <<sales, funnel, stale>>
         /\ DrainStep(j, At(j))
         /\ \/ Turn(j, Tail(job[j].todo)) /\ Tail(job[j].todo) \in Seq(Days)
            \/ \E pc \in Draining : Goes(j, pc)
<1>1. job[j].pc \in {"index", "take", "save", "clean"}
  BY DEF Flush
<1>2. At(j) \in Days /\ job[j].todo \in Seq(Days) /\ job[j].todo # <<>>
  BY <1>1, AtADay DEF Typed, StoredTyped
<1>3. Tail(job[j].todo) \in Seq(Days)
  BY <1>2, HeadTailProperties
<1> QED BY <1>1, <1>2, <1>3 DEF Flush, DrainStep, Draining

LEMMA GoesTyped ==
  ASSUME Typed, NEW j \in Jobs, NEW pc \in Draining, Goes(j, pc), job[j].pc # "idle"
  PROVE  /\ job' \in [Jobs -> JobStates]
         /\ \A k \in Jobs : job'[k].pc # "idle" => job'[k].todo # <<>>
         /\ touched' \subseteq Jobs
<1>1. job' = [job EXCEPT ![j].pc = pc] /\ pc \in Stages /\ pc # "idle"
  BY DEF Goes, Draining, Stages
<1>2. job[j] \in JobStates
  BY DEF Typed, StoredTyped
<1>3. job'[j] = [job[j] EXCEPT !.pc = pc]
  BY <1>1 DEF Typed, StoredTyped
<1>4. job'[j] \in JobStates /\ job'[j].todo = job[j].todo
  BY <1>1, <1>2, <1>3 DEF JobStates
<1> QED BY <1>1, <1>4 DEF Typed, StoredTyped, Goes

LEMMA ReadsTyped ==
  ASSUME Typed, NEW j \in Jobs, Reads(j)
  PROVE  StoredTyped'
<1>1. CASE StartJob(j)
  <2>1. Turn(j, TargetDates(j)) /\ UNCHANGED <<sales, funnel, stale>>
    BY <1>1 DEF StartJob
  <2> QED BY <2>1, DaysGoBack, TurnTyped DEF Typed, StoredTyped
<1>2. CASE TallyRest(j)
  <2> DEFINE row == [job[j].row EXCEPT !.buyers = BuyersOn(At(j)), !.fresh = FreshOn(At(j)),
                                       !.refunded = RefundedOn(At(j)), !.paid = PaidOn(At(j))]
  <2>1. job[j].row \in SalesRows /\ job[j].pc = "rest" /\ job[j] \in JobStates
    BY <1>2 DEF Typed, StoredTyped, JobStates, TallyRest
  <2>2. row \in SalesRows
    BY <2>1, ToldTyped DEF SalesRows
  <2>3. job' = [job EXCEPT ![j].pc = "store", ![j].row = row] /\ UNCHANGED <<sales, funnel, stale, touched>>
    BY <1>2 DEF TallyRest
  <2> HIDE DEF row
  <2>4. job'[j] = [job[j] EXCEPT !.pc = "store", !.row = row]
    BY <2>3 DEF Typed, StoredTyped
  <2>5. job'[j] \in JobStates /\ job'[j].todo = job[j].todo /\ "store" \in Stages
    BY <2>1, <2>2, <2>4 DEF JobStates, Stages
  <2> QED BY <2>1, <2>3, <2>5 DEF Typed, StoredTyped
<1>3. CASE StoreRow(j)
  <2>1. job[j].row \in SalesRows /\ job[j].pc = "store" /\ job[j] \in JobStates /\ At(j) \in Days
    BY <1>3, AtADay DEF Typed, StoredTyped, JobStates, StoreRow
  <2>2. /\ sales' = [sales EXCEPT ![At(j)] = job[j].row] /\ funnel' = [funnel EXCEPT ![At(j)] = events[At(j)]]
        /\ stale' \subseteq stale \cup {At(j)}
        /\ job' = [job EXCEPT ![j].pc = "index", ![j].row = Empty] /\ touched' = touched
    BY <1>3 DEF StoreRow, RollupFunnel
  <2>3. job'[j] = [job[j] EXCEPT !.pc = "index", !.row = Empty]
    BY <2>2 DEF Typed, StoredTyped
  <2>4. job'[j] \in JobStates /\ job'[j].todo = job[j].todo
    BY <2>1, <2>3, RowsExist DEF JobStates, Stages
  <2>5. events[At(j)] \in [Kinds -> Nat]
    BY <2>1 DEF Typed, SourceTyped
  <2> QED BY <2>1, <2>2, <2>4, <2>5 DEF Typed, StoredTyped
<1> QED BY <1>1, <1>2, <1>3 DEF Reads

LEMMA NextTyped == Typed /\ [Next]_vars => Typed'
<1> SUFFICES ASSUME Typed, [Next]_vars PROVE Typed'
  OBVIOUS
<1>1. CASE Edits
  <2>1. PICK o \in Orders : PlaceOrder(o) \/ EditOrder(o)
    BY <1>1 DEF Edits
  <2>2. UNCHANGED <<today, anon, sales, funnel, job>>
    BY <1>1 DEF Edits
  <2>3. PICK new : NewRow(o, new) /\ Change(o, new)
    BY <2>1, <2>2, EditIs
  <2>4. events' \in [Days -> [Kinds -> Nat]]
    BY <2>1, <2>2, EditIs
  <2>5. new \in OrderRows /\ new.made <= today
    BY <2>3 DEF NewRow
  <2>6. /\ order' \in [Orders -> OrderRows] /\ \A q \in Orders : order'[q].made <= today'
        /\ stale' \subseteq Days /\ touched' \subseteq Jobs
    BY <2>2, <2>3, <2>5, ChangeTyped
  <2> QED BY <2>2, <2>4, <2>6 DEF Typed, AnonTyped, SourceTyped, StoredTyped, anon
<1>2. CASE Comes
  <2>1. PICK k \in Kinds : IngestEvent(k)
    BY <1>2 DEF Comes
  <2>2. events' = [events EXCEPT ![today][k] = @ + 1]
    BY <2>1 DEF IngestEvent
  <2>3. today \in Days /\ events \in [Days -> [Kinds -> Nat]]
    BY DEF Typed, SourceTyped
  <2>4. events' \in [Days -> [Kinds -> Nat]]
    BY <2>2, <2>3
  <2> QED BY <1>2, <2>4 DEF Comes, Typed, AnonTyped, SourceTyped, StoredTyped, anon
<1>3. CASE Visit
  <2>1. AnonTyped'
    BY <1>3, VisitTyped DEF Visit
  <2> QED BY <1>3, <2>1 DEF Visit, Typed, SourceTyped, StoredTyped, source, stored
<1>4. CASE Night
  <2>1. today' = today + 1 /\ today < MaxDay /\ today \in Days
    BY <1>4 DEF Night, Midnight, Typed
  <2>2. today' \in Days /\ today <= today' /\ today \in Nat /\ today' \in Nat
    BY <2>1, DaysAre
  <2>3. SourceTyped'
    <3>1. order' = order /\ events' = events
      BY <1>4 DEF Night, source
    <3>2. \A o \in Orders : order[o].made \in Nat /\ order[o].made <= today
      BY DaysAre DEF Typed, SourceTyped, OrderRows
    <3>3. \A o \in Orders : order'[o].made <= today'
      BY <2>2, <3>1, <3>2
    <3> QED BY <3>1, <3>3 DEF Typed, SourceTyped
  <2> QED BY <1>4, <2>2, <2>3 DEF Night, Typed, AnonTyped, StoredTyped, anon, stored
<1>5. CASE Expires
  <2>1. AnonTyped'
    BY <1>5, ExpiryTyped DEF Expires
  <2> QED BY <1>5, <2>1 DEF Expires, Typed, SourceTyped, StoredTyped, source, stored
<1>6. ASSUME NEW j \in Jobs, Dies(j) PROVE Typed'
  <2>1. DrainDies(j, At(j)) /\ At(j) \in Days
    BY <1>6, AtADay DEF Dies, JobDies
  <2>2. AnonTyped'
    BY <2>1, DrainTyped DEF DrainStep
  <2>3. /\ UNCHANGED <<today, source, sales, funnel, stale, touched>>
        /\ job' = [job EXCEPT ![j] = Resting] /\ Resting.pc = "idle"
    BY <1>6 DEF Dies, JobDies, Resting
  <2>4. StoredTyped'
    BY <2>3, RowsExist DEF Typed, StoredTyped
  <2> QED BY <2>2, <2>3, <2>4 DEF Typed, SourceTyped, source
<1>7. ASSUME NEW j \in Jobs, Reads(j) PROVE Typed'
  <2>1. StoredTyped'
    BY <1>7, ReadsTyped
  <2> QED BY <1>7, <2>1 DEF Reads, Typed, AnonTyped, SourceTyped, anon, source
<1>8. ASSUME NEW j \in Jobs, FlushesOn(j) PROVE Typed'
  <2>1. Flush(j)
    BY <1>8 DEF FlushesOn
  <2>2. AnonTyped'
    BY <2>1, FlushIs, DrainTyped
  <2>3. /\ job' \in [Jobs -> JobStates]
        /\ \A k \in Jobs : job'[k].pc # "idle" => job'[k].todo # <<>>
        /\ touched' \subseteq Jobs
    <3>1. CASE Turn(j, Tail(job[j].todo)) /\ Tail(job[j].todo) \in Seq(Days)
      BY <3>1, TurnTyped
    <3>2. ASSUME NEW pc \in Draining, Goes(j, pc) PROVE <2>3!1 /\ <2>3!2 /\ <2>3!3
      BY <2>1, <3>2, FlushIs, GoesTyped
    <3> QED BY <2>1, <3>1, <3>2, FlushIs
  <2>4. UNCHANGED <<sales, funnel, stale>>
    BY <2>1, FlushIs
  <2> QED BY <1>8, <2>2, <2>3, <2>4 DEF FlushesOn, Typed, SourceTyped, StoredTyped, source
<1>9. CASE UNCHANGED vars
  BY <1>9 DEF vars, anon, source, stored, Typed, AnonTyped, SourceTyped, StoredTyped
<1> QED BY <1>1, <1>2, <1>3, <1>4, <1>5, <1>6, <1>7, <1>8, <1>9, NextIs

-----------------------------------------------------------------------------
(***************************************************************************)
(* Where every visit is.  A drain holds counts between the take and the    *)
(* save only.  On a day that met no gap every visit is stored, buffered    *)
(* under the index or held; a drain under way knows every counter of the   *)
(* index, so what it deletes is empty; and what moves is whole, devices    *)
(* and total together.                                                     *)
(***************************************************************************)
Held(d, c)     == HeldBy(drain, AtDay, d, c)
Part(j, d, c)  == Share(drain, AtDay, j, d, c)
Tally(d, c)    == stat[d][c] + buffer[d][c] + Held(d, c)

HoldsToSave == \A j \in Jobs : drain[j].taken # Zero => job[j].pc = "save"
Bounded     == \A d \in Days : \A c \in Counters : Tally(d, c) <= sent[d][c]
Found(d) ==
  /\ \A c \in Counters : Tally(d, c) = sent[d][c] /\ (buffer[d][c] # 0 => c \in index[d])
  /\ Balanced(stat[d]) /\ Balanced(buffer[d])
Knows(j) ==
  /\ job[j].pc \in Draining => index[At(j)] \subseteq drain[j].members
  /\ job[j].pc \in {"save", "clean"} => \A c \in drain[j].members : buffer[At(j)][c] = 0
  /\ Balanced(drain[j].taken)

CountInv ==
  /\ HoldsToSave /\ Bounded
  /\ \A d \in Days \ raced : Found(d)
  /\ \A j \in Jobs : At(j) \notin raced => Knows(j)

LEMMA CountsTyped ==
  ASSUME Typed
  PROVE  /\ \A d \in Days : \A c \in Counters :
              sent[d][c] \in Nat /\ buffer[d][c] \in Nat /\ stat[d][c] \in Nat
         /\ \A d \in Days : sent[d] \in CountsOf /\ buffer[d] \in CountsOf /\ stat[d] \in CountsOf
         /\ \A j \in Jobs : drain[j].taken \in CountsOf /\ drain[j].members \subseteq Counters
         /\ \A c \in Counters : Counts(drain, c)
         /\ \A d, c : c \in Counters => Held(d, c) \in Nat
<1>1. \A d \in Days : sent[d] \in CountsOf /\ buffer[d] \in CountsOf /\ stat[d] \in CountsOf
  BY DEF Typed, AnonTyped
<1>2. \A j \in Jobs : drain[j].taken \in CountsOf /\ drain[j].members \subseteq Counters
  BY DEF Typed, AnonTyped, Drains
<1>3. \A c \in Counters : Counts(drain, c)
  BY <1>2 DEF Counts, CountsOf
<1>4. \A d, c : c \in Counters => Held(d, c) \in Nat
  BY <1>3, HeldIsCount DEF Held
<1>5. \A f \in CountsOf : \A c \in Counters : f[c] \in Nat
  BY DEF CountsOf
<1> QED BY <1>1, <1>2, <1>3, <1>4, <1>5

LEMMA OneJobMoves ==
  ASSUME Typed, Typed', NEW j \in Jobs,
         \A k \in Jobs \ {j} : job'[k] = job[k] /\ drain'[k] = drain[k],
         NEW d, NEW c \in Counters
  PROVE  /\ Held(d, c) \in Nat /\ Held(d, c)' \in Nat /\ Part(j, d, c) \in Nat /\ Part(j, d, c)' \in Nat
         /\ Held(d, c)' + Part(j, d, c) = Held(d, c) + Part(j, d, c)'
<1>1. \A k \in Jobs \ {j} : AtDay'[k] = AtDay[k] /\ drain'[k] = drain[k]
  BY DEF AtDay, At
<1>2. Counts(drain, c) /\ Counts(drain', c)
  <2>1. Counts(drain, c)
    BY CountsTyped
  <2>2. \A k \in Jobs : drain'[k].taken \in CountsOf
    BY DEF Typed, AnonTyped, Drains
  <2> QED BY <2>1, <2>2 DEF Counts, CountsOf
<1> QED BY <1>1, <1>2, HeldMoves DEF Held, Part

(* Without counts in hand a job has no part in any day.                    *)
LEMMA NoPart ==
  ASSUME NEW j \in Jobs, drain[j].taken = Zero, NEW d, NEW c \in Counters
  PROVE  Part(j, d, c) = 0
<1>1. Zero[c] = 0
  BY DEF Zero
<1> QED BY <1>1 DEF Part, Share

LEMMA AtRestKnows ==
  ASSUME NEW j \in Jobs, drain[j].taken = Zero, job[j].pc \notin Draining
  PROVE  Knows(j)
BY ZeroBalanced DEF Knows, Draining

(* Others know what they knew while the index and the buffer only shrink.  *)
LEMMA OthersKnow ==
  ASSUME Typed, Typed', CountInv, NEW k \in Jobs, job'[k] = job[k], drain'[k] = drain[k],
         \A d \in Days : index'[d] \subseteq index[d],
         \A d \in Days : \A c \in Counters : buffer[d][c] = 0 => buffer'[d][c] = 0,
         raced \subseteq raced', At(k)' \notin raced'
  PROVE  Knows(k)'
<1>1. At(k)' = At(k) /\ Knows(k)
  BY DEF At, CountInv
<1>2. job[k].pc # "idle" => At(k) \in Days
  BY AtADay
<1>3. drain[k].members \subseteq Counters
  BY CountsTyped
<1>4. job'[k].pc \in Draining => index'[At(k)'] \subseteq drain'[k].members
  BY <1>1, <1>2 DEF Knows, Draining
<1>5. job'[k].pc \in {"save", "clean"} => \A c \in drain'[k].members : buffer'[At(k)'][c] = 0
  BY <1>1, <1>2, <1>3 DEF Knows
<1> QED BY <1>1, <1>4, <1>5 DEF Knows

LEMMA InitCount == Init /\ Typed => CountInv
<1> SUFFICES ASSUME Init, Typed PROVE CountInv
  OBVIOUS
<1>1. /\ sent = [d \in Days |-> Zero] /\ buffer = sent /\ stat = sent /\ raced = {}
      /\ drain = [j \in Jobs |-> Idle] /\ job = [j \in Jobs |-> Resting]
  BY DEF Init, AnonInit
<1>2. \A j \in Jobs : drain[j].taken = Zero /\ job[j].pc = "idle"
  BY <1>1 DEF Idle, Resting
<1>3. ASSUME NEW d \in Days, NEW c \in Counters PROVE Held(d, c) = 0
  <2> DEFINE T == {k \in Jobs : AtDay[k] = d}
             f == [j \in T |-> drain[j].taken[c]]
  <2>1. IsFiniteSet(T)
    <3>1. T \subseteq Jobs
      OBVIOUS
    <3> QED BY <3>1, AnonAssumption, FS_Subset
  <2>2. \A j \in T : f[j] = 0
    BY <1>2 DEF Zero
  <2>3. Held(d, c) = SumFunctionOnSet(f, T)
    BY DEF Held, HeldBy, SumFunction
  <2> HIDE DEF f, T
  <2> QED BY <2>1, <2>2, <2>3, SumOfZeros
<1>4. \A d \in Days : \A c \in Counters : stat[d][c] = 0 /\ buffer[d][c] = 0 /\ sent[d][c] = 0
  BY <1>1 DEF Zero
<1>5. \A d \in Days : \A c \in Counters : Tally(d, c) = 0 /\ sent[d][c] = 0 /\ buffer[d][c] = 0
  BY <1>3, <1>4 DEF Tally
<1>6. Bounded
  BY <1>5 DEF Bounded
<1>7. \A d \in Days : Balanced(stat[d]) /\ Balanced(buffer[d])
  BY <1>1, ZeroBalanced
<1>8. \A d \in Days : Found(d)
  BY <1>5, <1>7 DEF Found
<1>9. \A j \in Jobs : Knows(j)
  BY <1>2, AtRestKnows DEF Draining
<1> QED BY <1>2, <1>6, <1>8, <1>9 DEF CountInv, HoldsToSave

(***************************************************************************)
(* The steps of the counters.                                              *)
(***************************************************************************)
(* A job moves and takes nothing, and the counters only lose what could    *)
(* not be found: Tally is kept or drops, for each day.                     *)
LEMMA StillTally ==
  ASSUME Typed, Typed', NEW j \in Jobs,
         \A k \in Jobs \ {j} : job'[k] = job[k] /\ drain'[k] = drain[k],
         drain[j].taken = Zero, drain'[j].taken = Zero, NEW d, NEW c \in Counters
  PROVE  Held(d, c)' = Held(d, c)
<1>1. Part(j, d, c) = 0
  BY NoPart
<1>2. Zero[c] = 0 /\ drain'[j].taken[c] = 0
  BY DEF Zero
<1>3. Part(j, d, c)' = 0
  BY <1>2 DEF Part, Share
<1>4. /\ Held(d, c) \in Nat /\ Held(d, c)' \in Nat
      /\ Held(d, c)' + Part(j, d, c) = Held(d, c) + Part(j, d, c)'
  BY OneJobMoves
<1> QED BY <1>1, <1>3, <1>4

LEMMA TurnMoves ==
  ASSUME Typed, NEW j \in Jobs, NEW days, Turn(j, days)
  PROVE  /\ \A k \in Jobs \ {j} : job'[k] = job[k]
         /\ job'[j].pc \in {"idle", "rest"}
<1> DEFINE row == [Empty EXCEPT !.sold = SoldOn(Head(days))]
           next == IF days = <<>> THEN Resting ELSE [pc |-> "rest", todo |-> days, row |-> row]
<1>1. job' = [job EXCEPT ![j] = next]
  BY DEF Turn
<1>2. next.pc \in {"idle", "rest"}
  <2> HIDE DEF row
  <2> QED BY DEF Resting
<1>3. DOMAIN job = Jobs
  BY DEF Typed, StoredTyped
<1> HIDE DEF next
<1> QED BY <1>1, <1>2, <1>3

LEMMA CountsStay ==
  ASSUME CountInv, UNCHANGED <<anon, job>>
  PROVE  CountInv'
<1>1. AtDay' = AtDay /\ \A j : At(j)' = At(j)
  BY DEF AtDay, At
<1>2. \A d, c : Held(d, c)' = Held(d, c)
  BY <1>1 DEF Held, anon
<1>3. \A d, c : Tally(d, c)' = Tally(d, c)
  BY <1>2 DEF Tally, anon
<1>4. HoldsToSave' /\ Bounded'
  BY <1>3 DEF CountInv, HoldsToSave, Bounded, anon
<1>5. \A d \in Days \ raced' : Found(d)'
  BY <1>3 DEF CountInv, Found, anon
<1>6. \A j \in Jobs : At(j)' \notin raced' => Knows(j)'
  BY <1>1 DEF CountInv, Knows, anon
<1> QED BY <1>4, <1>5, <1>6 DEF CountInv

LEMMA CountReads ==
  ASSUME Typed, Typed', CountInv, NEW j \in Jobs, Reads(j)
  PROVE  CountInv'
<1>1. UNCHANGED anon
  BY DEF Reads
<1>2. job[j].pc \in {"idle", "rest", "store"}
  BY DEF Reads, StartJob, TallyRest, StoreRow
<1>3. drain[j].taken = Zero /\ drain' = drain
  BY <1>1, <1>2 DEF CountInv, HoldsToSave, anon
<1>4. /\ \A k \in Jobs \ {j} : job'[k] = job[k]
      /\ job'[j].pc \notin Draining
  <2>1. CASE StartJob(j)
    BY <2>1, TurnMoves DEF StartJob, Draining
  <2>2. CASE TallyRest(j)
    <3>1. \E w : job' = [job EXCEPT ![j].pc = "store", ![j].row = w]
      BY <2>2 DEF TallyRest
    <3>2. job[j] \in JobStates
      BY DEF Typed, StoredTyped
    <3> QED BY <3>1, <3>2 DEF Typed, StoredTyped, Draining, JobStates
  <2>3. CASE StoreRow(j)
    <3>1. job' = [job EXCEPT ![j].pc = "index", ![j].row = Empty]
      BY <2>3 DEF StoreRow
    <3>2. job[j] \in JobStates
      BY DEF Typed, StoredTyped
    <3> QED BY <3>1, <3>2 DEF Typed, StoredTyped, Draining, JobStates
  <2> QED BY <2>1, <2>2, <2>3 DEF Reads
<1>5. \A d : \A c \in Counters : Held(d, c)' = Held(d, c)
  BY <1>3, <1>4, StillTally
<1>6. \A d : \A c \in Counters : Tally(d, c)' = Tally(d, c)
  BY <1>1, <1>5 DEF Tally, anon
<1>7. HoldsToSave'
  BY <1>3, <1>4 DEF CountInv, HoldsToSave
<1>8. Bounded'
  BY <1>1, <1>6 DEF CountInv, Bounded, anon
<1>9. \A d \in Days \ raced' : Found(d)'
  BY <1>1, <1>6 DEF CountInv, Found, anon
<1>10. ASSUME NEW k \in Jobs, At(k)' \notin raced' PROVE Knows(k)'
  <2>1. CASE k = j
    <3>1. drain'[k].taken = Zero /\ job'[k].pc \notin Draining
      BY <1>3, <1>4, <2>1
    <3>2. Balanced(Zero) /\ job'[k].pc \notin {"save", "clean"}
      BY <3>1, ZeroBalanced DEF Draining
    <3> QED BY <3>1, <3>2 DEF Knows
  <2>2. CASE k # j
    <3>1. job'[k] = job[k] /\ drain'[k] = drain[k] /\ index' = index /\ buffer' = buffer /\ raced' = raced
      BY <1>1, <1>3, <1>4, <2>2 DEF anon
    <3> QED BY <1>10, <3>1, OthersKnow
  <2> QED BY <2>1, <2>2
<1> QED BY <1>7, <1>8, <1>9, <1>10 DEF CountInv

LEMMA CountVisit ==
  ASSUME Typed, Typed', CountInv, Visit
  PROVE  CountInv'
<1>1. PICK v \in Visits : RecordAnon(v, Open)
  BY DEF Visit
<1>2. UNCHANGED <<today, job, stat, drain>> /\ today \in Days
  BY <1>1 DEF Visit, stored, RecordAnon, Typed
<1>3. AtDay' = AtDay /\ \A j : At(j)' = At(j)
  BY <1>2 DEF AtDay, At
<1>4. \A d, c : Held(d, c)' = Held(d, c)
  BY <1>2, <1>3 DEF Held
<1>5. /\ \A d \in Days \ {today} : sent'[d] = sent[d] /\ buffer'[d] = buffer[d] /\ index'[d] = index[d]
      /\ sent'[today] = Plus(sent[today], Hit(v)) /\ buffer'[today] = Plus(buffer[today], Hit(v))
      /\ index'[today] = index[today] \cup Bumps(v)
  BY <1>1, <1>2 DEF RecordAnon, Typed, AnonTyped
<1>6. \A c \in Counters : /\ sent'[today][c] = sent[today][c] + Hit(v)[c]
                          /\ buffer'[today][c] = buffer[today][c] + Hit(v)[c]
                          /\ Hit(v)[c] = IF c \in Bumps(v) THEN 1 ELSE 0
  BY <1>5 DEF Plus, Hit
<1>7. \A d \in Days : \A c \in Counters :
        /\ sent[d][c] \in Nat /\ buffer[d][c] \in Nat /\ stat[d][c] \in Nat /\ Held(d, c) \in Nat
        /\ stat'[d][c] = stat[d][c]
  BY <1>2, CountsTyped
<1>8. ASSUME NEW d \in Days, NEW c \in Counters
      PROVE  \E n \in Nat : Tally(d, c)' = Tally(d, c) + n /\ sent'[d][c] = sent[d][c] + n
  <2>1. Tally(d, c)' = stat[d][c] + buffer'[d][c] + Held(d, c)
    BY <1>4, <1>7 DEF Tally
  <2>2. CASE d = today
    <3>1. Hit(v)[c] \in Nat /\ buffer'[d][c] = buffer[d][c] + Hit(v)[c] /\ sent'[d][c] = sent[d][c] + Hit(v)[c]
      BY <1>6, <2>2
    <3>2. Tally(d, c)' = Tally(d, c) + Hit(v)[c]
      BY <1>7, <2>1, <3>1 DEF Tally
    <3> QED BY <3>1, <3>2
  <2>3. CASE d # today
    <3>1. buffer'[d][c] = buffer[d][c] /\ sent'[d][c] = sent[d][c]
      BY <1>5, <2>3
    <3>2. Tally(d, c) \in Nat /\ Tally(d, c)' = Tally(d, c)
      BY <1>7, <2>1, <3>1 DEF Tally
    <3>3. Tally(d, c)' = Tally(d, c) + 0 /\ sent'[d][c] = sent[d][c] + 0
      BY <1>7, <3>1, <3>2
    <3> QED BY <3>3
  <2> QED BY <2>2, <2>3
<1>9. \A d \in Days : \A c \in Counters : Tally(d, c) \in Nat
  BY <1>7 DEF Tally
<1>10. HoldsToSave'
  BY <1>2 DEF CountInv, HoldsToSave
<1>11. Bounded'
  <2>1. ASSUME NEW d \in Days, NEW c \in Counters PROVE Tally(d, c)' <= sent'[d][c]
    <3>1. PICK n \in Nat : Tally(d, c)' = Tally(d, c) + n /\ sent'[d][c] = sent[d][c] + n
      BY <1>8
    <3>2. Tally(d, c) <= sent[d][c]
      BY DEF CountInv, Bounded
    <3> QED BY <1>7, <1>9, <3>1, <3>2
  <2> QED BY <2>1 DEF Bounded
<1>12. raced \subseteq raced' /\ raced' = raced \cup ({today} \cap Open)
  BY <1>1 DEF RecordAnon
<1>13. ASSUME NEW d \in Days \ raced' PROVE Found(d)'
  <2>1. Found(d)
    BY <1>12 DEF CountInv
  <2>2. ASSUME NEW c \in Counters
        PROVE  Tally(d, c)' = sent'[d][c] /\ (buffer'[d][c] # 0 => c \in index'[d])
    <3>1. PICK n \in Nat : Tally(d, c)' = Tally(d, c) + n /\ sent'[d][c] = sent[d][c] + n
      BY <1>8
    <3>2. Tally(d, c) = sent[d][c]
      BY <2>1 DEF Found
    <3>3. buffer'[d][c] # 0 => c \in index'[d]
      <4>1. CASE d = today
        <5>1. c \notin Bumps(v) => buffer'[d][c] = buffer[d][c]
          <6>1. c \notin Bumps(v) => buffer'[d][c] = buffer[d][c] + 0
            BY <1>6, <4>1
          <6> QED BY <1>7, <6>1
        <5> QED BY <1>5, <2>1, <4>1, <5>1 DEF Found
      <4>2. CASE d # today
        BY <1>5, <2>1, <4>2 DEF Found
      <4> QED BY <4>1, <4>2
    <3> QED BY <3>1, <3>2, <3>3
  <2>3. Balanced(buffer'[d])
    <3>1. CASE d = today
      <4>1. Balanced(Hit(v)) /\ Hit(v) \in CountsOf
        BY HitBalanced
      <4>2. buffer[d] \in CountsOf /\ Balanced(buffer[d])
        BY <2>1, CountsTyped DEF Found
      <4>3. Balanced(Plus(buffer[d], Hit(v)))
        BY <4>1, <4>2, PlusBalanced
      <4> QED BY <1>5, <3>1, <4>3
    <3>2. CASE d # today
      BY <1>5, <2>1, <3>2 DEF Found
    <3> QED BY <3>1, <3>2
  <2>4. Balanced(stat'[d])
    BY <1>2, <2>1 DEF Found
  <2> QED BY <2>2, <2>3, <2>4 DEF Found
<1>14. ASSUME NEW j \in Jobs, At(j)' \notin raced' PROVE Knows(j)'
  <2>1. At(j)' = At(j) /\ At(j) \notin raced /\ Knows(j)
    BY <1>3, <1>12, <1>14 DEF CountInv
  <2>2. job[j].pc \in Draining => At(j) # today
    <3>1. job[j].pc \in Draining => At(j) \in Open
      BY DEF Open, Draining
    <3> QED BY <1>12, <1>14, <2>1, <3>1
  <2>3. job[j].pc \in Draining => At(j) \in Days \ {today}
    BY <2>2, AtADay DEF Draining
  <2>4. job[j].pc \in Draining => index'[At(j)] = index[At(j)] /\ buffer'[At(j)] = buffer[At(j)]
    BY <1>5, <2>3
  <2>5. drain' = drain /\ job' = job
    BY <1>2
  <2> QED BY <2>1, <2>4, <2>5 DEF Knows, Draining
<1> QED BY <1>10, <1>11, <1>13, <1>14 DEF CountInv

LEMMA CountExpires ==
  ASSUME Typed, Typed', CountInv, Expires
  PROVE  CountInv'
<1>1. PICK e \in Days : ExpireCounters(e)
  BY DEF Expires
<1>2. UNCHANGED <<job, stat, drain, sent>>
  BY <1>1 DEF Expires, stored, ExpireCounters
<1>3. AtDay' = AtDay /\ \A j : At(j)' = At(j)
  BY <1>2 DEF AtDay, At
<1>4. \A d, c : Held(d, c)' = Held(d, c)
  BY <1>2, <1>3 DEF Held
<1>5. /\ \A d \in Days \ {e} : buffer'[d] = buffer[d] /\ index'[d] = index[d]
      /\ buffer'[e] = Zero /\ index'[e] = {}
      /\ raced' = IF buffer[e] # Zero THEN raced \cup {e} ELSE raced
  BY <1>1 DEF ExpireCounters, Typed, AnonTyped
<1>6. \A d \in Days : \A c \in Counters :
        /\ buffer[d][c] \in Nat /\ stat[d][c] \in Nat /\ Held(d, c) \in Nat /\ sent[d][c] \in Nat
        /\ buffer'[d][c] \in {0, buffer[d][c]}
  <2>1. \A c \in Counters : Zero[c] = 0
    BY DEF Zero
  <2> QED BY <1>5, <2>1, CountsTyped
<1>7. ASSUME NEW d \in Days, NEW c \in Counters PROVE Tally(d, c)' <= sent'[d][c]
  <2>1. Tally(d, c)' = stat[d][c] + buffer'[d][c] + Held(d, c)
    BY <1>2, <1>4 DEF Tally
  <2>2. Tally(d, c) <= sent[d][c] /\ Tally(d, c) = stat[d][c] + buffer[d][c] + Held(d, c)
    BY DEF CountInv, Bounded, Tally
  <2>3. buffer'[d][c] <= buffer[d][c] /\ buffer'[d][c] \in Nat
    BY <1>6
  <2> QED BY <1>2, <1>6, <2>1, <2>2, <2>3
<1>8. raced \subseteq raced'
  BY <1>5
<1>9. ASSUME NEW d \in Days \ raced' PROVE Found(d)'
  <2>1. Found(d)
    BY <1>8 DEF CountInv
  <2>2. buffer'[d] = buffer[d]
    BY <1>5
  <2>3. \A c \in Counters : Tally(d, c)' = Tally(d, c)
    BY <1>2, <1>4, <2>2 DEF Tally
  <2>4. \A c \in Counters : buffer'[d][c] # 0 => c \in index'[d]
    BY <1>5, <2>1, <2>2 DEF Found, Zero
  <2> QED BY <1>2, <2>1, <2>2, <2>3, <2>4 DEF Found
<1>10. ASSUME NEW j \in Jobs, At(j)' \notin raced' PROVE Knows(j)'
  <2>1. \A d \in Days : index'[d] \subseteq index[d]
    BY <1>5
  <2>2. \A d \in Days : \A c \in Counters : buffer[d][c] = 0 => buffer'[d][c] = 0
    BY <1>6
  <2> QED BY <1>2, <1>8, <1>10, <2>1, <2>2, OthersKnow
<1> QED BY <1>2, <1>7, <1>9, <1>10 DEF CountInv, HoldsToSave, Bounded

LEMMA GoesMoves ==
  ASSUME Typed, NEW j \in Jobs, NEW pc, Goes(j, pc)
  PROVE  /\ \A k \in Jobs \ {j} : job'[k] = job[k]
         /\ job'[j].pc = pc /\ At(j)' = At(j)
<1>1. job' = [job EXCEPT ![j].pc = pc] /\ job[j] \in JobStates /\ DOMAIN job = Jobs
  BY DEF Goes, Typed, StoredTyped
<1>2. job'[j] = [job[j] EXCEPT !.pc = pc]
  BY <1>1
<1>3. job'[j].pc = pc /\ job'[j].todo = job[j].todo
  BY <1>1, <1>2 DEF JobStates
<1> QED BY <1>1, <1>3 DEF At

(* A drain step whose counts neither come nor go: it suffices that the     *)
(* buffer and the index only lose what no quiet day has.                   *)
LEMMA CountKept ==
  ASSUME Typed, Typed', CountInv, NEW j \in Jobs,
         \A k \in Jobs \ {j} : job'[k] = job[k] /\ drain'[k] = drain[k],
         drain[j].taken = Zero, drain'[j].taken = Zero,
         UNCHANGED <<sent, stat, raced>>,
         \A d \in Days : index'[d] \subseteq index[d],
         \A d \in Days : \A c \in Counters : buffer'[d][c] \in {0, buffer[d][c]},
         \A d \in Days \ raced : /\ buffer'[d] = buffer[d]
                                 /\ \A c \in Counters : buffer[d][c] # 0 => c \in index'[d],
         At(j)' \notin raced => Knows(j)'
  PROVE  CountInv'
<1>1. \A d : \A c \in Counters : Held(d, c)' = Held(d, c)
  BY StillTally
<1>2. \A d \in Days : \A c \in Counters :
        buffer[d][c] \in Nat /\ stat[d][c] \in Nat /\ Held(d, c) \in Nat /\ sent[d][c] \in Nat
  BY CountsTyped
<1>3. HoldsToSave'
  BY DEF CountInv, HoldsToSave
<1>4. ASSUME NEW d \in Days, NEW c \in Counters PROVE Tally(d, c)' <= sent'[d][c]
  <2>1. Tally(d, c)' = stat[d][c] + buffer'[d][c] + Held(d, c)
    BY <1>1 DEF Tally
  <2>2. Tally(d, c) <= sent[d][c] /\ Tally(d, c) = stat[d][c] + buffer[d][c] + Held(d, c)
    BY DEF CountInv, Bounded, Tally
  <2>3. buffer'[d][c] <= buffer[d][c] /\ buffer'[d][c] \in Nat
    BY <1>2
  <2> QED BY <1>2, <2>1, <2>2, <2>3
<1>5. ASSUME NEW d \in Days \ raced' PROVE Found(d)'
  <2>1. Found(d) /\ buffer'[d] = buffer[d]
    BY DEF CountInv
  <2>2. \A c \in Counters : Tally(d, c)' = Tally(d, c)
    BY <1>1, <2>1 DEF Tally
  <2> QED BY <2>1, <2>2 DEF Found
<1>6. ASSUME NEW k \in Jobs, At(k)' \notin raced' PROVE Knows(k)'
  <2>1. CASE k = j
    BY <1>6, <2>1
  <2>2. CASE k # j
    <3>1. \A d \in Days : \A c \in Counters : buffer[d][c] = 0 => buffer'[d][c] = 0
      OBVIOUS
    <3> QED BY <1>6, <2>2, <3>1, OthersKnow
  <2> QED BY <2>1, <2>2
<1> QED BY <1>3, <1>4, <1>5, <1>6 DEF CountInv, Bounded

LEMMA CountIndex ==
  ASSUME Typed, Typed', CountInv, NEW j \in Jobs, job[j].pc = "index", ReadIndex(j, At(j)),
         IF index[At(j)] = {} THEN Turn(j, Tail(job[j].todo)) ELSE Goes(j, "take")
  PROVE  CountInv'
<1>1. drain[j].taken = Zero /\ At(j) \in Days
  BY AtADay DEF CountInv, HoldsToSave
<1>2. /\ drain'[j].taken = Zero /\ drain'[j].members = index[At(j)]
      /\ \A k \in Jobs \ {j} : drain'[k] = drain[k]
  BY <1>1 DEF ReadIndex, Typed, AnonTyped, Drains
<1>3. UNCHANGED <<sent, buffer, index, stat, raced>>
  BY DEF ReadIndex
<1>4. /\ \A k \in Jobs \ {j} : job'[k] = job[k]
      /\ \/ job'[j].pc = "take" /\ At(j)' = At(j)
         \/ job'[j].pc \in {"idle", "rest"}
  BY TurnMoves, GoesMoves
<1>5. Balanced(drain'[j].taken)
  BY <1>2, ZeroBalanced
<1>6. Knows(j)'
  BY <1>2, <1>3, <1>4, <1>5 DEF Knows, Draining
<1>7. /\ \A d \in Days : index'[d] \subseteq index[d]
      /\ \A d \in Days : \A c \in Counters : buffer'[d][c] \in {0, buffer[d][c]}
  BY <1>3
<1>8. \A d \in Days \ raced : /\ buffer'[d] = buffer[d]
                              /\ \A c \in Counters : buffer[d][c] # 0 => c \in index'[d]
  BY <1>3 DEF CountInv, Found
<1> QED BY <1>1, <1>2, <1>3, <1>4, <1>6, <1>7, <1>8, CountKept

LEMMA CountClean ==
  ASSUME Typed, Typed', CountInv, NEW j \in Jobs, job[j].pc = "clean", CleanUp(j, At(j)),
         Turn(j, Tail(job[j].todo))
  PROVE  CountInv'
<1>1. drain[j].taken = Zero /\ At(j) \in Days
  BY AtADay DEF CountInv, HoldsToSave
<1>2. /\ drain'[j].taken = Zero
      /\ \A k \in Jobs \ {j} : drain'[k] = drain[k]
  BY <1>1 DEF CleanUp, Typed, AnonTyped, Idle
<1>3. UNCHANGED <<sent, stat, raced>>
  BY DEF CleanUp
<1>4. /\ \A k \in Jobs \ {j} : job'[k] = job[k]
      /\ job'[j].pc \in {"idle", "rest"}
  BY TurnMoves
<1>5. Balanced(drain'[j].taken)
  BY <1>2, ZeroBalanced
<1>6. Knows(j)'
  BY <1>4, <1>5 DEF Knows, Draining
<1>7. /\ \A d \in Days \ {At(j)} : index'[d] = index[d] /\ buffer'[d] = buffer[d]
      /\ index'[At(j)] = {}
      /\ \A c \in Counters : buffer'[At(j)][c] = IF c \in drain[j].members THEN 0 ELSE buffer[At(j)][c]
  BY <1>1 DEF CleanUp, Typed, AnonTyped
<1>8. /\ \A d \in Days : index'[d] \subseteq index[d]
      /\ \A d \in Days : \A c \in Counters : buffer'[d][c] \in {0, buffer[d][c]}
  BY <1>7
<1>9. ASSUME NEW d \in Days \ raced
      PROVE  /\ buffer'[d] = buffer[d]
             /\ \A c \in Counters : buffer[d][c] # 0 => c \in index'[d]
  <2>1. Found(d)
    BY DEF CountInv
  <2>2. CASE d # At(j)
    BY <1>7, <2>1, <2>2 DEF Found
  <2>3. CASE d = At(j)
    <3>1. Knows(j)
      BY <2>3 DEF CountInv
    <3>2. index[d] \subseteq drain[j].members /\ \A c \in drain[j].members : buffer[d][c] = 0
      BY <2>3, <3>1 DEF Knows, Draining
    <3>3. \A c \in Counters : buffer[d][c] = 0
      BY <2>1, <3>2 DEF Found
    <3>4. \A c \in Counters : buffer'[d][c] = buffer[d][c]
      BY <1>7, <2>3, <3>3
    <3>5. buffer[d] \in CountsOf /\ buffer'[d] \in CountsOf
      BY DEF Typed, AnonTyped
    <3>6. buffer'[d] = buffer[d]
      BY <3>4, <3>5 DEF CountsOf
    <3> QED BY <3>3, <3>6
  <2> QED BY <2>2, <2>3
<1> QED BY <1>1, <1>2, <1>3, <1>4, <1>6, <1>8, <1>9, CountKept

LEMMA CountTake ==
  ASSUME Typed, Typed', CountInv, NEW j \in Jobs, job[j].pc = "take", TakeCounts(j, At(j)), Goes(j, "save")
  PROVE  CountInv'
<1> DEFINE e == At(j)
           M == drain[j].members
<1>1. drain[j].taken = Zero /\ e \in Days /\ M \subseteq Counters
  BY AtADay, CountsTyped DEF CountInv, HoldsToSave
<1>2. /\ \A c \in Counters : drain'[j].taken[c] = IF c \in M THEN buffer[e][c] ELSE 0
      /\ drain'[j].members = M
      /\ \A k \in Jobs \ {j} : drain'[k] = drain[k]
  BY <1>1 DEF TakeCounts, Typed, AnonTyped, Drains
<1>3. UNCHANGED <<sent, stat, raced, index>>
  BY DEF TakeCounts
<1>4. /\ \A d \in Days \ {e} : buffer'[d] = buffer[d]
      /\ \A c \in Counters : buffer'[e][c] = IF c \in M THEN 0 ELSE buffer[e][c]
  BY <1>1 DEF TakeCounts, Typed, AnonTyped
<1>5. /\ \A k \in Jobs \ {j} : job'[k] = job[k]
      /\ job'[j].pc = "save" /\ At(j)' = e
  BY GoesMoves
<1>6. \A d \in Days : \A c \in Counters :
        buffer[d][c] \in Nat /\ stat[d][c] \in Nat /\ Held(d, c) \in Nat /\ sent[d][c] \in Nat
  BY CountsTyped
<1>7. ASSUME NEW d \in Days, NEW c \in Counters PROVE Tally(d, c)' = Tally(d, c)
  <2>1. /\ Held(d, c) \in Nat /\ Held(d, c)' \in Nat /\ Part(j, d, c)' \in Nat
        /\ Held(d, c)' + Part(j, d, c) = Held(d, c) + Part(j, d, c)'
    BY <1>2, <1>5, OneJobMoves
  <2>2. Part(j, d, c) = 0
    BY <1>1, NoPart
  <2>3. AtDay'[j] = e
    BY <1>5 DEF AtDay
  <2>4. Part(j, d, c)' = IF d = e /\ c \in M THEN buffer[e][c] ELSE 0
    BY <1>2, <2>3 DEF Part, Share
  <2>5. buffer'[d][c] = IF d = e /\ c \in M THEN 0 ELSE buffer[d][c]
    BY <1>4
  <2>6. Tally(d, c)' = stat[d][c] + buffer'[d][c] + Held(d, c)' /\ Tally(d, c) = stat[d][c] + buffer[d][c] + Held(d, c)
    BY <1>3 DEF Tally
  <2>7. CASE d = e /\ c \in M
    <3>1. Held(d, c)' = Held(d, c) + buffer[d][c] /\ buffer'[d][c] = 0
      BY <2>1, <2>2, <2>4, <2>5, <2>7, <1>6
    <3> HIDE DEF e, M
    <3> QED BY <1>6, <2>6, <3>1
  <2>8. CASE ~(d = e /\ c \in M)
    <3>1. Held(d, c)' = Held(d, c) /\ buffer'[d][c] = buffer[d][c]
      BY <2>1, <2>2, <2>4, <2>5, <2>8
    <3> QED BY <2>6, <3>1
  <2> QED BY <2>7, <2>8
<1>8. HoldsToSave'
  BY <1>2, <1>5 DEF CountInv, HoldsToSave
<1>9. Bounded'
  BY <1>3, <1>7 DEF CountInv, Bounded
<1>10. ASSUME e \notin raced
       PROVE  /\ drain'[j].taken = buffer[e] /\ buffer'[e] = Zero
              /\ index[e] \subseteq M
  <2>1. Found(e) /\ Knows(j)
    BY <1>1, <1>10 DEF CountInv
  <2>2. index[e] \subseteq M
    BY <2>1 DEF Knows, Draining
  <2>3. \A c \in Counters : c \notin M => buffer[e][c] = 0
    BY <2>1, <2>2 DEF Found
  <2>4. \A c \in Counters : drain'[j].taken[c] = buffer[e][c] /\ buffer'[e][c] = Zero[c]
    BY <1>2, <1>4, <2>3 DEF Zero
  <2>5. drain'[j].taken \in CountsOf /\ buffer[e] \in CountsOf /\ buffer'[e] \in CountsOf /\ Zero \in CountsOf
    BY <1>1, ZeroBalanced DEF Typed, AnonTyped, Drains
  <2>6. \A f \in CountsOf : \A g \in CountsOf : (\A c \in Counters : f[c] = g[c]) => f = g
    BY DEF CountsOf
  <2> HIDE DEF e, M
  <2>7. drain'[j].taken = buffer[e]
    BY <2>4, <2>5, <2>6
  <2>8. buffer'[e] = Zero
    BY <2>4, <2>5, <2>6
  <2> QED BY <2>2, <2>7, <2>8
<1>11. ASSUME NEW d \in Days \ raced' PROVE Found(d)'
  <2>1. Found(d)
    BY <1>3 DEF CountInv
  <2>2. \A c \in Counters : buffer'[d][c] # 0 => buffer[d][c] # 0
    BY <1>4
  <2>3. \A c \in Counters : Tally(d, c)' = sent'[d][c] /\ (buffer'[d][c] # 0 => c \in index'[d])
    BY <1>3, <1>7, <2>1, <2>2 DEF Found
  <2>4. Balanced(buffer'[d])
    <3>1. CASE d = e
      BY <1>3, <1>10, <3>1, ZeroBalanced
    <3>2. CASE d # e
      BY <1>4, <2>1, <3>2 DEF Found
    <3> QED BY <3>1, <3>2
  <2> QED BY <1>3, <2>1, <2>3, <2>4 DEF Found
<1>12. ASSUME NEW k \in Jobs, At(k)' \notin raced' PROVE Knows(k)'
  <2>1. CASE k = j
    <3>1. e \notin raced
      BY <1>3, <1>5, <1>12, <2>1
    <3>2. Found(e)
      BY <1>1, <3>1 DEF CountInv
    <3>3. Balanced(drain'[j].taken)
      BY <1>10, <3>1, <3>2 DEF Found
    <3>4. index'[e] \subseteq drain'[j].members /\ \A c \in drain'[j].members : buffer'[e][c] = 0
      BY <1>1, <1>2, <1>3, <1>4, <1>10, <3>1
    <3>5. At(k)' = e
      BY <1>5, <2>1
    <3> HIDE DEF e, M
    <3> QED BY <2>1, <3>3, <3>4, <3>5 DEF Knows
  <2>2. CASE k # j
    <3>1. \A d \in Days : index'[d] \subseteq index[d]
      BY <1>3
    <3>2. \A d \in Days : \A c \in Counters : buffer[d][c] = 0 => buffer'[d][c] = 0
      BY <1>4
    <3>3. job'[k] = job[k] /\ drain'[k] = drain[k] /\ raced' = raced
      BY <1>2, <1>3, <1>5, <2>2
    <3> QED BY <1>12, <3>1, <3>2, <3>3, OthersKnow
  <2> QED BY <2>1, <2>2
<1> QED BY <1>8, <1>9, <1>11, <1>12 DEF CountInv

LEMMA CountSave ==
  ASSUME Typed, Typed', CountInv, NEW j \in Jobs, job[j].pc = "save", UpsertCounts(j, At(j)), Goes(j, "clean")
  PROVE  CountInv'
<1> DEFINE e == At(j)
<1>1. e \in Days /\ drain[j].taken \in CountsOf
  BY AtADay, CountsTyped
<1>2. /\ drain'[j].taken = Zero /\ drain'[j].members = drain[j].members
      /\ \A k \in Jobs \ {j} : drain'[k] = drain[k]
  BY <1>1 DEF UpsertCounts, Typed, AnonTyped, Drains
<1>3. UNCHANGED <<sent, buffer, raced, index>>
  BY DEF UpsertCounts
<1>4. /\ \A d \in Days \ {e} : stat'[d] = stat[d]
      /\ stat'[e] = Plus(stat[e], drain[j].taken)
  BY <1>1 DEF UpsertCounts, Typed, AnonTyped
<1>5. /\ \A k \in Jobs \ {j} : job'[k] = job[k]
      /\ job'[j].pc = "clean" /\ At(j)' = e
  BY GoesMoves
<1>6. \A d \in Days : \A c \in Counters :
        buffer[d][c] \in Nat /\ stat[d][c] \in Nat /\ Held(d, c) \in Nat /\ sent[d][c] \in Nat
  BY CountsTyped
<1>7. ASSUME NEW d \in Days, NEW c \in Counters PROVE Tally(d, c)' = Tally(d, c)
  <2>1. /\ Held(d, c) \in Nat /\ Held(d, c)' \in Nat /\ Part(j, d, c) \in Nat
        /\ Held(d, c)' + Part(j, d, c) = Held(d, c) + Part(j, d, c)'
    BY <1>2, <1>5, OneJobMoves
  <2>2. Part(j, d, c)' = 0
    BY <1>2 DEF Part, Share, Zero
  <2>3. AtDay[j] = e
    BY AtADay
  <2>4. Part(j, d, c) = IF d = e THEN drain[j].taken[c] ELSE 0
    BY <2>3 DEF Part, Share
  <2>5. Tally(d, c)' = stat'[d][c] + buffer[d][c] + Held(d, c)' /\ Tally(d, c) = stat[d][c] + buffer[d][c] + Held(d, c)
    BY <1>3 DEF Tally
  <2>6. CASE d = e
    <3>1. stat'[d][c] = stat[d][c] + drain[j].taken[c] /\ Part(j, d, c) = drain[j].taken[c]
      BY <1>4, <2>4, <2>6 DEF Plus
    <3>2. Held(d, c)' + drain[j].taken[c] = Held(d, c) /\ drain[j].taken[c] \in Nat
      BY <2>1, <2>2, <3>1
    <3>3. stat[d][c] \in Nat /\ buffer[d][c] \in Nat
      BY <1>6
    <3> HIDE DEF e
    <3> QED BY <2>1, <2>5, <3>1, <3>2, <3>3
  <2>7. CASE d # e
    <3>1. stat'[d][c] = stat[d][c] /\ Part(j, d, c) = 0
      BY <1>4, <2>4, <2>7
    <3>2. Held(d, c)' = Held(d, c)
      BY <2>1, <2>2, <3>1
    <3> QED BY <2>5, <3>1, <3>2
  <2> QED BY <2>6, <2>7
<1>8. HoldsToSave'
  BY <1>2, <1>5 DEF CountInv, HoldsToSave
<1>9. Bounded'
  BY <1>3, <1>7 DEF CountInv, Bounded
<1>10. ASSUME NEW d \in Days \ raced' PROVE Found(d)'
  <2>1. Found(d)
    BY <1>3 DEF CountInv
  <2>2. \A c \in Counters : Tally(d, c)' = sent'[d][c] /\ (buffer'[d][c] # 0 => c \in index'[d])
    BY <1>3, <1>7, <2>1 DEF Found
  <2>3. Balanced(stat'[d])
    <3>1. CASE d = e
      <4>1. Balanced(drain[j].taken)
        BY <1>3, <3>1 DEF CountInv, Knows
      <4>2. Balanced(stat[d]) /\ stat[d] \in CountsOf
        BY <2>1, CountsTyped DEF Found
      <4>3. Balanced(Plus(stat[d], drain[j].taken))
        BY <1>1, <4>1, <4>2, PlusBalanced
      <4> QED BY <1>4, <3>1, <4>3
    <3>2. CASE d # e
      BY <1>4, <2>1, <3>2 DEF Found
    <3> QED BY <3>1, <3>2
  <2> QED BY <1>3, <2>1, <2>2, <2>3 DEF Found
<1>11. ASSUME NEW k \in Jobs, At(k)' \notin raced' PROVE Knows(k)'
  <2>1. CASE k = j
    <3>1. Knows(j)
      BY <1>3, <1>5, <1>11, <2>1 DEF CountInv
    <3>2. Balanced(drain'[j].taken)
      BY <1>2, ZeroBalanced
    <3> QED BY <1>2, <1>3, <1>5, <2>1, <3>1, <3>2 DEF Knows, Draining
  <2>2. CASE k # j
    <3>1. \A d \in Days : index'[d] \subseteq index[d]
      BY <1>3
    <3>2. \A d \in Days : \A c \in Counters : buffer[d][c] = 0 => buffer'[d][c] = 0
      BY <1>3
    <3>3. job'[k] = job[k] /\ drain'[k] = drain[k] /\ raced' = raced
      BY <1>2, <1>3, <1>5, <2>2
    <3> QED BY <1>11, <3>1, <3>2, <3>3, OthersKnow
  <2> QED BY <2>1, <2>2
<1> QED BY <1>8, <1>9, <1>10, <1>11 DEF CountInv

LEMMA CountDies ==
  ASSUME Typed, Typed', CountInv, NEW j \in Jobs, Dies(j)
  PROVE  CountInv'
<1> DEFINE e == At(j)
<1>1. /\ DrainDies(j, e) /\ e \in Days /\ drain[j].taken \in CountsOf
      /\ job' = [job EXCEPT ![j] = Resting]
  BY AtADay, CountsTyped DEF Dies, JobDies
<1>2. /\ drain'[j].taken = Zero
      /\ \A k \in Jobs \ {j} : drain'[k] = drain[k]
  BY <1>1 DEF DrainDies, Typed, AnonTyped, Idle
<1>3. UNCHANGED <<sent, buffer, stat, index>>
  BY <1>1 DEF DrainDies
<1>4. /\ \A k \in Jobs \ {j} : job'[k] = job[k]
      /\ job'[j].pc = "idle"
  BY <1>1 DEF Typed, StoredTyped, Resting
<1>5. raced \subseteq raced' /\ (drain[j].taken # Zero => e \in raced')
  BY <1>1 DEF DrainDies
<1>6. \A d \in Days : \A c \in Counters :
        buffer[d][c] \in Nat /\ stat[d][c] \in Nat /\ Held(d, c) \in Nat /\ sent[d][c] \in Nat
  BY CountsTyped
<1>7. ASSUME NEW d \in Days, NEW c \in Counters
      PROVE  Tally(d, c)' <= Tally(d, c) /\ (d \notin raced' => Tally(d, c)' = Tally(d, c))
  <2>1. /\ Held(d, c) \in Nat /\ Held(d, c)' \in Nat /\ Part(j, d, c) \in Nat
        /\ Held(d, c)' + Part(j, d, c) = Held(d, c) + Part(j, d, c)'
    BY <1>2, <1>4, OneJobMoves
  <2>2. Part(j, d, c)' = 0
    BY <1>2 DEF Part, Share, Zero
  <2>3. AtDay[j] = e
    BY AtADay
  <2>4. d \notin raced' => Part(j, d, c) = 0
    <3>1. CASE drain[j].taken = Zero
      BY <3>1, NoPart
    <3>2. CASE drain[j].taken # Zero
      BY <1>5, <2>3, <3>2 DEF Part, Share
    <3> QED BY <3>1, <3>2
  <2>5. Tally(d, c)' = stat[d][c] + buffer[d][c] + Held(d, c)' /\ Tally(d, c) = stat[d][c] + buffer[d][c] + Held(d, c)
    BY <1>3 DEF Tally
  <2>6. Held(d, c)' <= Held(d, c) /\ (d \notin raced' => Held(d, c)' = Held(d, c))
    BY <2>1, <2>2, <2>4
  <2> HIDE DEF e
  <2> QED BY <1>6, <2>1, <2>5, <2>6
<1>8. HoldsToSave'
  BY <1>2, <1>4 DEF CountInv, HoldsToSave
<1>9. ASSUME NEW d \in Days, NEW c \in Counters PROVE Tally(d, c)' <= sent'[d][c]
  <2>1. Tally(d, c) <= sent[d][c] /\ sent'[d][c] = sent[d][c] /\ Tally(d, c)' <= Tally(d, c)
    BY <1>3, <1>7 DEF CountInv, Bounded
  <2>2. Tally(d, c) \in Nat /\ Tally(d, c)' \in Nat
    <3>1. Held(d, c)' \in Nat
      BY <1>2, <1>4, OneJobMoves
    <3> QED BY <1>3, <1>6, <3>1 DEF Tally
  <2> QED BY <1>6, <2>1, <2>2
<1>10. ASSUME NEW d \in Days \ raced' PROVE Found(d)'
  <2>1. Found(d)
    BY <1>5 DEF CountInv
  <2> QED BY <1>3, <1>7, <2>1 DEF Found
<1>11. ASSUME NEW k \in Jobs, At(k)' \notin raced' PROVE Knows(k)'
  <2>1. CASE k = j
    <3>1. Balanced(drain'[j].taken)
      BY <1>2, ZeroBalanced
    <3> QED BY <1>4, <2>1, <3>1 DEF Knows, Draining
  <2>2. CASE k # j
    <3>1. \A d \in Days : index'[d] \subseteq index[d]
      BY <1>3
    <3>2. \A d \in Days : \A c \in Counters : buffer[d][c] = 0 => buffer'[d][c] = 0
      BY <1>3
    <3>3. job'[k] = job[k] /\ drain'[k] = drain[k]
      BY <1>2, <1>4, <2>2
    <3> QED BY <1>5, <1>11, <3>1, <3>2, <3>3, OthersKnow
  <2> QED BY <2>1, <2>2
<1> QED BY <1>8, <1>9, <1>10, <1>11 DEF CountInv, Bounded

LEMMA NextCount == Typed /\ CountInv /\ [Next]_vars => CountInv'
<1> SUFFICES ASSUME Typed, CountInv, [Next]_vars PROVE CountInv'
  OBVIOUS
<1>0. Typed'
  BY NextTyped
<1>1. CASE Edits
  BY <1>1, CountsStay DEF Edits
<1>2. CASE Comes
  BY <1>2, CountsStay DEF Comes
<1>3. CASE Visit
  BY <1>0, <1>3, CountVisit
<1>4. CASE Night
  BY <1>4, CountsStay DEF Night, stored
<1>5. CASE Expires
  BY <1>0, <1>5, CountExpires
<1>6. ASSUME NEW j \in Jobs, Dies(j) PROVE CountInv'
  BY <1>0, <1>6, CountDies
<1>7. ASSUME NEW j \in Jobs, Reads(j) PROVE CountInv'
  BY <1>0, <1>7, CountReads
<1>8. ASSUME NEW j \in Jobs, FlushesOn(j) PROVE CountInv'
  BY <1>0, <1>8, CountIndex, CountTake, CountSave, CountClean DEF FlushesOn, Flush
<1>9. CASE UNCHANGED vars
  BY <1>9, CountsStay DEF vars, stored
<1> QED BY <1>1, <1>2, <1>3, <1>4, <1>5, <1>6, <1>7, <1>8, <1>9, NextIs

(* However many visits, counters, jobs and days, whatever overlaps, dies,  *)
(* expires or runs again (anon.flush_anon_to_db): no visit is counted      *)
(* twice; outside the gap each is stored, held or found by the next drain; *)
(* and the bars of the device breakdown add up to their total.             *)
THEOREM EachVisitIsCounted == Spec => []VisitsCounted
<1>1. Init => Typed /\ CountInv
  BY InitTyped, InitCount
<1>2. Typed /\ CountInv /\ [Next]_vars => (Typed /\ CountInv)'
  BY NextTyped, NextCount
<1>3. Typed /\ CountInv => VisitsCounted
  <2> SUFFICES ASSUME Typed, CountInv PROVE VisitsCounted
    OBVIOUS
  <2>1. \A d \in Days : \A c \in Counters :
          /\ Kept(d, AtDay, c) = Tally(d, c) /\ Tally(d, c) \in Nat /\ sent[d][c] \in Nat /\ buffer[d][c] \in Nat
          /\ Tally(d, c) <= sent[d][c]
    <3>1. ASSUME NEW d \in Days, NEW c \in Counters PROVE Kept(d, AtDay, c) = Tally(d, c)
      BY KeptIs DEF Tally, Held
    <3>2. ASSUME NEW d \in Days, NEW c \in Counters
          PROVE  Tally(d, c) \in Nat /\ sent[d][c] \in Nat /\ buffer[d][c] \in Nat
      BY CountsTyped DEF Tally
    <3> QED BY <3>1, <3>2 DEF CountInv, Bounded
  <2>2. CountedOnce
    BY <2>1 DEF CountedOnce, Overcounted
  <2>3. LostOnlyInTheGap
    <3>1. ASSUME NEW d \in Days, d \notin raced, NEW c \in Counters
          PROVE  Kept(d, AtDay, c) = sent[d][c] /\ ~(buffer[d][c] > 0 /\ c \notin index[d])
      <4>1. Tally(d, c) = sent[d][c] /\ (buffer[d][c] # 0 => c \in index[d])
        BY <3>1 DEF CountInv, Found
      <4> QED BY <2>1, <4>1
    <3> QED BY <3>1 DEF LostOnlyInTheGap, Lost
  <2>4. DevicesAddUp
    <3>1. ASSUME NEW d \in Days, d \notin raced, NEW m \in Metrics, DimsOf(m) # {}
          PROVE  MetricTotal(m, d) = Breakdown(m, d)
      <4> DEFINE v == [x \in DimsOf(m) |-> stat[d][<<m, x>>]]
                 w == [x \in Devices |-> stat[d][<<m, x>>]]
      <4>1. Breakdown(m, d) = SumFunctionOnSet(v, DimsOf(m))
        BY DEF Breakdown, SumFunction
      <4>2. Integral(w, DimsOf(m)) /\ IsFiniteSet(DimsOf(m)) /\ \A x \in DimsOf(m) : v[x] = w[x]
        BY BarsAre, CountsTyped, DevicesAreFew
      <4>3. SumFunctionOnSet(v, DimsOf(m)) = SumFunctionOnSet(w, DimsOf(m))
        <5> HIDE DEF v, w
        <5> QED BY <4>2, SumAgrees
      <4>4. Bars(stat[d], m) = SumFunctionOnSet(w, DimsOf(m))
        BY DEF Bars
      <4>5. stat[d][<<m, "">>] = Bars(stat[d], m)
        BY <3>1 DEF CountInv, Found, Balanced
      <4> QED BY <4>1, <4>3, <4>4, <4>5 DEF MetricTotal
    <3> QED BY <3>1 DEF DevicesAddUp, AddsUp
  <2> QED BY <2>2, <2>3, <2>4 DEF VisitsCounted
<1> QED BY <1>1, <1>2, <1>3, PTL DEF Spec

-----------------------------------------------------------------------------
(***************************************************************************)
(* The rows of the days.                                                   *)
(***************************************************************************)
Told(d) == [sold |-> SoldOn(d), buyers |-> BuyersOn(d), fresh |-> FreshOn(d),
            refunded |-> RefundedOn(d), paid |-> PaidOn(d)]

RowSound(d) == sales[d] # NoRow /\ d \notin stale => sales[d] = Told(d)
JobSound(j) ==
  j \notin touched =>
    /\ job[j].pc = "rest" => job[j].row = [Empty EXCEPT !.sold = SoldOn(At(j))]
    /\ job[j].pc = "store" => job[j].row = Told(At(j))

RowInv ==
  /\ \A d \in Days : RowSound(d)
  /\ \A j \in Jobs : JobSound(j)
  /\ FunnelHonest

LEMMA SameRow ==
  ASSUME NEW r \in SalesRows, NEW s \in SalesRows,
         r.sold = s.sold, r.buyers = s.buyers, r.fresh = s.fresh, r.refunded = s.refunded, r.paid = s.paid
  PROVE  r = s
BY DEF SalesRows

LEMMA ToldSays ==
  \A d : Told(d).sold = SoldOn(d) /\ Told(d).fresh = FreshOn(d) /\ Told(d).refunded = RefundedOn(d)
BY DEF Told

LEMMA ToldIsRow == \A d : Told(d) \in SalesRows
BY ToldTyped DEF Told, SalesRows

(* A change tells of no other day than those it makes stale: a customer is *)
(* new or old on a later day only where they bought again.                 *)
LEMMA ChangeTells ==
  ASSUME Typed, NEW o \in Orders, NEW new, NewRow(o, new), order' = [order EXCEPT ![o] = new],
         NEW d \in Days, d \notin Tells(order[o]) \cup Tells(new) \cup LaterDays(o, new.made)
  PROVE  Told(d)' = Told(d)
<1>1. /\ \A q \in Orders \ {o} : order'[q] = order[q]
      /\ order'[o] = new
  BY DEF Typed, SourceTyped
<1>2. d # NoDay /\ d \in Nat
  BY DaysAre
<1>3. /\ d # order[o].made /\ d # order[o].refunded /\ d # order[o].paid
      /\ d # new.made /\ d # new.refunded /\ d # new.paid
  BY <1>2 DEF Tells
<1>4. SoldOn(d)' = SoldOn(d)
  BY <1>1, <1>3 DEF SoldOn, CountableOrders, Made
<1>5. BuyersOn(d)' = BuyersOn(d)
  BY <1>4 DEF BuyersOn
<1>6. RefundedOn(d)' = RefundedOn(d)
  BY <1>1, <1>3 DEF RefundedOn, Made
<1>7. PaidOn(d)' = PaidOn(d)
  BY <1>1, <1>3 DEF PaidOn, CountableOrders, Made
<1>8. ASSUME NEW b \in BuyersOn(d)
      PROVE  (\A q \in CountableOrders : Buyer[q] = b => order[q].made >= d)
               <=> (\A q \in CountableOrders' : Buyer[q] = b => order'[q].made >= d)
  <2>1. PICK p \in SoldOn(d) : Buyer[p] = b
    BY DEF BuyersOn
  <2>2. p \in Made /\ order[p].made = d
    BY <2>1 DEF SoldOn, CountableOrders
  <2>3. new.made \in Nat
    BY DaysAre DEF NewRow, OrderRows
  <2>4. Buyer[o] = b => new.made >= d
    BY <1>2, <2>1, <2>2, <2>3 DEF LaterDays
  <2>5. o \in CountableOrders => order[o].made = new.made
    BY DEF NewRow, CountableOrders
  <2>6. \A q \in Orders \ {o} : (q \in CountableOrders' <=> q \in CountableOrders) /\ order'[q].made = order[q].made
    BY <1>1 DEF CountableOrders, Made
  <2>7. CountableOrders \subseteq Orders /\ CountableOrders' \subseteq Orders
    BY DEF CountableOrders, Made
  <2> QED BY <1>1, <2>4, <2>5, <2>6, <2>7
<1>9. FreshOn(d)' = FreshOn(d)
  BY <1>5, <1>8 DEF FreshOn
<1> QED BY <1>4, <1>5, <1>6, <1>7, <1>9 DEF Told

LEMMA ToldStays == UNCHANGED order => \A d : Told(d)' = Told(d) /\ SoldOn(d)' = SoldOn(d)
BY DEF Told, SoldOn, BuyersOn, FreshOn, RefundedOn, PaidOn, CountableOrders, Made

LEMMA RowTurns ==
  ASSUME Typed, NEW j \in Jobs, NEW days, Turn(j, days), UNCHANGED order
  PROVE  JobSound(j)'
<1> DEFINE row == [Empty EXCEPT !.sold = SoldOn(Head(days))]
           next == IF days = <<>> THEN Resting ELSE [pc |-> "rest", todo |-> days, row |-> row]
<1>1. job' = [job EXCEPT ![j] = next] /\ touched' = touched \ {j} /\ DOMAIN job = Jobs
  BY DEF Turn, Typed, StoredTyped
<1>2. job'[j] = next
  BY <1>1
<1>3. CASE days = <<>>
  <2>1. job'[j].pc = "idle"
    BY <1>2, <1>3 DEF Resting
  <2> QED BY <2>1 DEF JobSound
<1>4. CASE days # <<>>
  <2>1. job'[j].pc = "rest" /\ job'[j].todo = days /\ job'[j].row = row
    <3> HIDE DEF row
    <3> QED BY <1>2, <1>4
  <2>2. At(j)' = Head(days)
    BY <1>4, <2>1 DEF At
  <2>3. SoldOn(At(j))' = SoldOn(Head(days))
    BY <2>2, ToldStays DEF SoldOn, CountableOrders, Made
  <2>4. job'[j].row = [Empty EXCEPT !.sold = SoldOn(At(j))]'
    BY <2>1, <2>3 DEF Empty, NoRow
  <2> QED BY <2>1, <2>4 DEF JobSound
<1> HIDE DEF next
<1> QED BY <1>3, <1>4

(* Without a change of the orders, a job that stays is as sound as it was. *)
LEMMA JobStays ==
  ASSUME NEW k \in Jobs, JobSound(k), UNCHANGED order, job'[k] = job[k], k \notin touched' => k \notin touched
  PROVE  JobSound(k)'
<1>1. At(k)' = At(k)
  BY DEF At
<1>2. Told(At(k))' = Told(At(k)) /\ SoldOn(At(k))' = SoldOn(At(k))
  BY <1>1, ToldStays DEF Told, SoldOn, BuyersOn, FreshOn, RefundedOn, PaidOn, CountableOrders, Made
<1>3. Empty' = Empty
  BY DEF Empty, NoRow
<1> QED BY <1>2, <1>3 DEF JobSound

LEMMA RowsStay ==
  ASSUME Typed, RowInv, UNCHANGED <<order, sales, funnel, job, stale, touched>>,
         \A d \in Days : \A k \in Kinds : events[d][k] <= events'[d][k],
         events' \in [Days -> [Kinds -> Nat]]
  PROVE  RowInv'
<1>1. \A d \in Days : RowSound(d)'
  BY ToldStays DEF RowInv, RowSound, NoRow
<1>2. \A j \in Jobs : JobSound(j)'
  BY JobStays DEF RowInv
<1>3. ASSUME NEW d \in Days, NEW k \in Kinds PROVE funnel'[d][k] <= events'[d][k]
  <2>1. funnel[d][k] \in Nat /\ events[d][k] \in Nat /\ events'[d][k] \in Nat
    BY DEF Typed, SourceTyped, StoredTyped
  <2>2. funnel[d][k] <= events[d][k] /\ events[d][k] <= events'[d][k] /\ funnel'[d][k] = funnel[d][k]
    BY <1>3 DEF RowInv, FunnelHonest
  <2> QED BY <2>1, <2>2
<1> QED BY <1>1, <1>2, <1>3 DEF RowInv, FunnelHonest

LEMMA RowEdits ==
  ASSUME Typed, Typed', RowInv, Edits
  PROVE  RowInv'
<1>1. PICK o \in Orders : PlaceOrder(o) \/ EditOrder(o)
  BY DEF Edits
<1>2. UNCHANGED <<today, sales, funnel, job>>
  BY DEF Edits
<1>3. PICK new : NewRow(o, new) /\ Change(o, new)
  BY <1>1, <1>2, EditIs
<1>4. \A d \in Days : \A k \in Kinds : events[d][k] <= events'[d][k]
  BY <1>1, <1>2, EditIs
<1> DEFINE days == Tells(order[o]) \cup Tells(new) \cup LaterDays(o, new.made)
<1>5. /\ order' = [order EXCEPT ![o] = new] /\ stale' = stale \cup days
      /\ touched' = touched \cup {j \in Jobs : At(j) \in days /\ job[j].pc \in {"rest", "store"}}
  BY <1>3 DEF Change
<1>6. \A d \in Days \ days : Told(d)' = Told(d)
  BY <1>3, <1>5, ChangeTells
<1> HIDE DEF days
<1>7. ASSUME NEW d \in Days PROVE RowSound(d)'
  <2>1. CASE d \in days
    BY <1>5, <2>1 DEF RowSound
  <2>2. CASE d \notin days
    <3>1. RowSound(d) /\ Told(d)' = Told(d)
      BY <1>6, <2>2 DEF RowInv
    <3>2. NoRow' = NoRow
      BY DEF NoRow
    <3> QED BY <1>2, <1>5, <3>1, <3>2 DEF RowSound
  <2> QED BY <2>1, <2>2
<1>8. ASSUME NEW j \in Jobs PROVE JobSound(j)'
  <2>1. CASE job[j].pc \notin {"rest", "store"}
    BY <1>2, <2>1 DEF JobSound
  <2>2. CASE job[j].pc \in {"rest", "store"} /\ At(j) \in days
    BY <1>5, <2>2 DEF JobSound
  <2>3. CASE job[j].pc \in {"rest", "store"} /\ At(j) \notin days
    <3>1. At(j) \in Days /\ At(j)' = At(j)
      BY <1>2, <2>3, AtADay DEF At
    <3>2. Told(At(j))' = Told(At(j))
      BY <1>6, <2>3, <3>1 DEF Told, SoldOn, BuyersOn, FreshOn, RefundedOn, PaidOn, CountableOrders, Made
    <3>3. SoldOn(At(j))' = SoldOn(At(j))
      BY <3>2 DEF Told
    <3>4. JobSound(j) /\ (j \notin touched' => j \notin touched)
      BY <1>5 DEF RowInv
    <3>5. Empty' = Empty
      BY DEF Empty, NoRow
    <3> QED BY <1>2, <3>2, <3>3, <3>4, <3>5 DEF JobSound
  <2> QED BY <2>1, <2>2, <2>3
<1>9. ASSUME NEW d \in Days, NEW k \in Kinds PROVE funnel'[d][k] <= events'[d][k]
  <2>1. funnel[d][k] \in Nat /\ events[d][k] \in Nat /\ events'[d][k] \in Nat
    BY DEF Typed, SourceTyped, StoredTyped
  <2>2. funnel[d][k] <= events[d][k] /\ events[d][k] <= events'[d][k] /\ funnel'[d][k] = funnel[d][k]
    BY <1>2, <1>4 DEF RowInv, FunnelHonest
  <2> QED BY <2>1, <2>2
<1> QED BY <1>7, <1>8, <1>9 DEF RowInv, FunnelHonest

LEMMA RowReads ==
  ASSUME Typed, Typed', RowInv, NEW j \in Jobs, Reads(j)
  PROVE  RowInv'
<1>1. UNCHANGED <<order, events>>
  BY DEF Reads, source
<1>2. \A d : Told(d)' = Told(d) /\ SoldOn(d)' = SoldOn(d)
  BY <1>1, ToldStays
<1>3. NoRow' = NoRow /\ Empty' = Empty
  BY DEF NoRow, Empty
<1>4. CASE StartJob(j)
  <2>1. Turn(j, TargetDates(j)) /\ UNCHANGED <<sales, funnel, stale>>
    BY <1>4 DEF StartJob
  <2>2. JobSound(j)'
    BY <1>1, <2>1, RowTurns
  <2>3. \A k \in Jobs \ {j} : job'[k] = job[k] /\ (k \notin touched' => k \notin touched)
    BY <2>1, TurnMoves DEF Turn
  <2>4. \A k \in Jobs : JobSound(k)'
    BY <1>1, <2>2, <2>3, JobStays DEF RowInv
  <2>5. \A d \in Days : RowSound(d)'
    BY <1>2, <1>3, <2>1 DEF RowInv, RowSound
  <2> QED BY <1>1, <2>1, <2>4, <2>5 DEF RowInv, FunnelHonest
<1>5. CASE TallyRest(j)
  <2> DEFINE row == [job[j].row EXCEPT !.buyers = BuyersOn(At(j)), !.fresh = FreshOn(At(j)),
                                       !.refunded = RefundedOn(At(j)), !.paid = PaidOn(At(j))]
  <2>1. job[j].row \in SalesRows /\ job[j].pc = "rest" /\ job[j] \in JobStates /\ JobSound(j)
    BY <1>5 DEF Typed, StoredTyped, JobStates, TallyRest, RowInv
  <2>2. /\ row \in SalesRows /\ row.sold = job[j].row.sold /\ row.buyers = BuyersOn(At(j)) /\ row.fresh = FreshOn(At(j))
        /\ row.refunded = RefundedOn(At(j)) /\ row.paid = PaidOn(At(j))
    BY <2>1, ToldTyped DEF SalesRows
  <2>3. job' = [job EXCEPT ![j].pc = "store", ![j].row = row] /\ UNCHANGED <<sales, funnel, stale, touched>>
    BY <1>5 DEF TallyRest
  <2>4. ASSUME j \notin touched PROVE row = Told(At(j))
    <3>1. Empty \in SalesRows
      BY RowsExist
    <3>2. [Empty EXCEPT !.sold = SoldOn(At(j))].sold = SoldOn(At(j))
      BY <3>1 DEF SalesRows
    <3>3. job[j].row.sold = SoldOn(At(j))
      BY <2>1, <2>4, <3>2 DEF JobSound
    <3>4. /\ Told(At(j)) \in SalesRows /\ Told(At(j)).sold = SoldOn(At(j)) /\ Told(At(j)).buyers = BuyersOn(At(j))
          /\ Told(At(j)).fresh = FreshOn(At(j)) /\ Told(At(j)).refunded = RefundedOn(At(j)) /\ Told(At(j)).paid = PaidOn(At(j))
      BY ToldIsRow DEF Told
    <3> HIDE DEF row
    <3> QED BY <2>2, <3>3, <3>4, SameRow
  <2> HIDE DEF row
  <2>5. job'[j] = [job[j] EXCEPT !.pc = "store", !.row = row]
    BY <2>3 DEF Typed, StoredTyped
  <2>6. job'[j].pc = "store" /\ job'[j].row = row /\ job'[j].todo = job[j].todo
    BY <2>1, <2>5 DEF JobStates
  <2>7. At(j)' = At(j)
    BY <2>6 DEF At
  <2>8. Told(At(j))' = Told(At(j))
    BY <1>1, <2>7 DEF Told, SoldOn, BuyersOn, FreshOn, RefundedOn, PaidOn, CountableOrders, Made
  <2>9. JobSound(j)'
    BY <2>3, <2>4, <2>6, <2>8 DEF JobSound
  <2>10. \A k \in Jobs \ {j} : job'[k] = job[k]
    BY <2>3 DEF Typed, StoredTyped
  <2>11. \A k \in Jobs : JobSound(k)'
    BY <1>1, <2>3, <2>9, <2>10, JobStays DEF RowInv
  <2>12. \A d \in Days : RowSound(d)'
    BY <1>2, <1>3, <2>3 DEF RowInv, RowSound
  <2> QED BY <1>1, <2>3, <2>11, <2>12 DEF RowInv, FunnelHonest
<1>6. CASE StoreRow(j)
  <2> DEFINE e == At(j)
  <2>1. job[j].pc = "store" /\ job[j] \in JobStates /\ e \in Days /\ JobSound(j)
    BY <1>6, AtADay DEF Typed, StoredTyped, StoreRow, RowInv
  <2>2. /\ sales' = [sales EXCEPT ![e] = job[j].row] /\ funnel' = [funnel EXCEPT ![e] = events[e]]
        /\ stale' = IF j \in touched THEN stale \cup {e} ELSE stale \ {e}
        /\ job' = [job EXCEPT ![j].pc = "index", ![j].row = Empty] /\ touched' = touched
    BY <1>6 DEF StoreRow, RollupFunnel
  <2> HIDE DEF e
  <2>3. job'[j] = [job[j] EXCEPT !.pc = "index", !.row = Empty] /\ \A k \in Jobs \ {j} : job'[k] = job[k]
    BY <2>2 DEF Typed, StoredTyped
  <2>4. job'[j].pc = "index"
    BY <2>1, <2>3 DEF JobStates
  <2>5. \A k \in Jobs : JobSound(k)'
    <3>1. JobSound(j)'
      BY <2>4 DEF JobSound
    <3> QED BY <1>1, <2>2, <2>3, <3>1, JobStays DEF RowInv
  <2>6. ASSUME NEW d \in Days PROVE RowSound(d)'
    <3>1. CASE d = e
      <4>1. sales'[d] = job[j].row
        BY <2>2, <3>1 DEF Typed, StoredTyped
      <4>2. d \notin stale' => j \notin touched
        BY <2>2, <3>1
      <4>3. j \notin touched => job[j].row = Told(d)
        BY <2>1, <3>1 DEF JobSound, e
      <4> QED BY <1>2, <4>1, <4>2, <4>3 DEF RowSound
    <3>2. CASE d # e
      <4>1. sales'[d] = sales[d] /\ (d \notin stale' => d \notin stale)
        BY <2>2, <3>2 DEF Typed, StoredTyped
      <4> QED BY <1>2, <1>3, <4>1 DEF RowInv, RowSound
    <3> QED BY <3>1, <3>2
  <2>7. ASSUME NEW d \in Days, NEW k \in Kinds PROVE funnel'[d][k] <= events'[d][k]
    <3>1. CASE d = e
      <4>1. funnel'[d][k] = events[d][k] /\ events[d][k] \in Nat
        BY <2>2, <3>1 DEF Typed, StoredTyped, SourceTyped
      <4> QED BY <1>1, <4>1
    <3>2. CASE d # e
      BY <1>1, <2>2, <3>2 DEF Typed, StoredTyped, RowInv, FunnelHonest
    <3> QED BY <3>1, <3>2
  <2> QED BY <2>5, <2>6, <2>7 DEF RowInv, FunnelHonest
<1> QED BY <1>4, <1>5, <1>6 DEF Reads

LEMMA RowFlushes ==
  ASSUME Typed, Typed', RowInv, NEW j \in Jobs, FlushesOn(j)
  PROVE  RowInv'
<1>1. UNCHANGED <<order, events>> /\ Flush(j)
  BY DEF FlushesOn, source
<1>2. UNCHANGED <<sales, funnel, stale>>
  BY <1>1, FlushIs
<1>3. /\ JobSound(j)'
      /\ \A k \in Jobs \ {j} : job'[k] = job[k] /\ (k \notin touched' => k \notin touched)
  <2>1. ASSUME NEW pc \in Draining, Goes(j, pc) PROVE <1>3
    <3>1. /\ \A k \in Jobs \ {j} : job'[k] = job[k]
          /\ job'[j].pc = pc /\ pc \notin {"rest", "store"}
      BY <2>1, GoesMoves DEF Draining
    <3>2. touched' = touched
      BY <2>1 DEF Goes
    <3> QED BY <3>1, <3>2 DEF JobSound
  <2>2. ASSUME Turn(j, Tail(job[j].todo)) PROVE <1>3
    <3>1. \A k \in Jobs \ {j} : job'[k] = job[k]
      BY <2>2, TurnMoves
    <3>2. touched' = touched \ {j}
      BY <2>2 DEF Turn
    <3>3. JobSound(j)'
      BY <1>1, <2>2, RowTurns
    <3> QED BY <3>1, <3>2, <3>3
  <2> QED BY <1>1, <2>1, <2>2, FlushIs
<1>4. \A k \in Jobs : JobSound(k)'
  BY <1>1, <1>3, JobStays DEF RowInv
<1>5. \A d : Told(d)' = Told(d)
  BY <1>1, ToldStays
<1>6. \A d \in Days : RowSound(d)'
  BY <1>2, <1>5 DEF RowInv, RowSound, NoRow
<1> QED BY <1>1, <1>2, <1>4, <1>6 DEF RowInv, FunnelHonest

LEMMA NextRow == Typed /\ RowInv /\ [Next]_vars => RowInv'
<1> SUFFICES ASSUME Typed, RowInv, [Next]_vars PROVE RowInv'
  OBVIOUS
<1>0. Typed' /\ \A d \in Days : \A k \in Kinds : events[d][k] \in Nat /\ events[d][k] <= events[d][k]
  BY NextTyped DEF Typed, SourceTyped
<1>1. CASE Edits
  BY <1>0, <1>1, RowEdits
<1>2. CASE Comes
  <2>1. PICK k \in Kinds : IngestEvent(k)
    BY <1>2 DEF Comes
  <2>2. events' = [events EXCEPT ![today][k] = @ + 1] /\ today \in Days
    BY <2>1 DEF IngestEvent, Typed
  <2>3. ASSUME NEW d \in Days, NEW q \in Kinds PROVE events[d][q] <= events'[d][q]
    <3>1. events'[d][q] \in {events[d][q], events[d][q] + 1}
      BY <2>2 DEF Typed, SourceTyped
    <3> QED BY <1>0, <3>1
  <2>4. events' \in [Days -> [Kinds -> Nat]]
    BY <1>0 DEF Typed, SourceTyped
  <2> QED BY <1>2, <2>3, <2>4, RowsStay DEF Comes
<1>3. CASE Visit
  BY <1>0, <1>3, RowsStay DEF Visit, source, stored, Typed, SourceTyped
<1>4. CASE Night
  BY <1>0, <1>4, RowsStay DEF Night, source, stored, Typed, SourceTyped
<1>5. CASE Expires
  BY <1>0, <1>5, RowsStay DEF Expires, source, stored, Typed, SourceTyped
<1>6. ASSUME NEW j \in Jobs, Dies(j) PROVE RowInv'
  <2>1. UNCHANGED <<order, events, sales, funnel, stale, touched>> /\ job' = [job EXCEPT ![j] = Resting]
    BY <1>6 DEF Dies, JobDies, source
  <2>2. job'[j].pc = "idle" /\ \A k \in Jobs \ {j} : job'[k] = job[k]
    BY <2>1 DEF Resting, Typed, StoredTyped
  <2>3. JobSound(j)'
    BY <2>2 DEF JobSound
  <2>4. \A k \in Jobs : JobSound(k)'
    BY <2>1, <2>2, <2>3, JobStays DEF RowInv
  <2>5. \A d : Told(d)' = Told(d)
    BY <2>1, ToldStays
  <2>6. \A d \in Days : RowSound(d)'
    BY <2>1, <2>5 DEF RowInv, RowSound, NoRow
  <2> QED BY <2>1, <2>4, <2>6 DEF RowInv, FunnelHonest
<1>7. ASSUME NEW j \in Jobs, Reads(j) PROVE RowInv'
  BY <1>0, <1>7, RowReads
<1>8. ASSUME NEW j \in Jobs, FlushesOn(j) PROVE RowInv'
  BY <1>0, <1>8, RowFlushes
<1>9. CASE UNCHANGED vars
  BY <1>0, <1>9, RowsStay DEF vars, source, stored, Typed, SourceTyped
<1> QED BY <1>1, <1>2, <1>3, <1>4, <1>5, <1>6, <1>7, <1>8, <1>9, NextIs

LEMMA InitRow == Init => RowInv
<1> SUFFICES ASSUME Init PROVE RowInv
  OBVIOUS
<1>1. /\ sales = [d \in Days |-> NoRow] /\ job = [j \in Jobs |-> Resting]
      /\ funnel = events /\ events = [d \in Days |-> Quiet]
  BY DEF Init
<1>2. \A d \in Days : RowSound(d)
  BY <1>1 DEF RowSound
<1>3. \A j \in Jobs : JobSound(j)
  BY <1>1 DEF JobSound, Resting
<1>4. FunnelHonest
  BY <1>1 DEF FunnelHonest, Quiet
<1> QED BY <1>2, <1>3, <1>4 DEF RowInv

-----------------------------------------------------------------------------
(***************************************************************************)
(* What the panels read.                                                   *)
(***************************************************************************)
LEMMA RowsAreExact == RowInv => RowsExact
<1> SUFFICES ASSUME RowInv, NEW d \in Days, sales[d] # NoRow, d \notin stale
    PROVE  sales[d] = [sold |-> {o \in Made : order[o].made = d /\ ~order[o].cancelled /\ ~order[o].binned},
                buyers |-> {Buyer[o] : o \in sales[d].sold},
                fresh |-> FreshOn(d),
                refunded |-> {o \in Made : order[o].refunded = d /\ ~order[o].binned},
                paid |-> {o \in Made : order[o].paid = d /\ ~order[o].cancelled /\ ~order[o].binned}]
  BY DEF RowsExact
<1>1. sales[d] = Told(d)
  BY DEF RowInv, RowSound
<1>2. sales[d].sold = SoldOn(d)
  BY <1>1 DEF Told
<1>3. SoldOn(d) = {o \in Made : order[o].made = d /\ ~order[o].cancelled /\ ~order[o].binned}
  BY DEF SoldOn, CountableOrders
<1>4. PaidOn(d) = {o \in Made : order[o].paid = d /\ ~order[o].cancelled /\ ~order[o].binned}
  BY DEF PaidOn, CountableOrders
<1>5. RefundedOn(d) = {o \in Made : order[o].refunded = d /\ ~order[o].binned}
  BY DEF RefundedOn
<1>6. BuyersOn(d) = {Buyer[o] : o \in sales[d].sold}
  BY <1>2 DEF BuyersOn
<1> QED BY <1>1, <1>3, <1>4, <1>5, <1>6 DEF Told

(* A day that is not stale has its orders in its row, or none of either.   *)
LEMMA FreshDay ==
  ASSUME Typed, RowInv, NEW f \in 1 .. today, NEW t \in f .. today, Fresh(f, t), NEW d \in f .. t
  PROVE  /\ d \in Days /\ d \in 1 .. today
         /\ sales[d] # NoRow => sales[d] = Told(d)
         /\ sales[d] = NoRow => SoldOn(d) = {}
<1>1. d \in Days /\ d \in 1 .. today
  BY DaysAre DEF Typed
<1> QED BY <1>1 DEF Fresh, RowInv, RowSound

LEMMA PanelsDoAgree == Typed /\ RowInv => PanelsAgree
<1> SUFFICES ASSUME Typed, RowInv, NEW f \in 1 .. today, NEW t \in f .. today, Fresh(f, t)
    PROVE  Revenue(f, t) = TopCustomers(f, t) /\ Drifted \cap (f .. t) = {}
  BY DEF PanelsAgree
<1>1. \A d \in f .. t : /\ sales[d] # NoRow => sales[d].sold = SoldOn(d) /\ sales[d].refunded = RefundedOn(d)
                        /\ sales[d] = NoRow => SoldOn(d) = {}
  BY FreshDay, ToldSays
<1>2. Revenue(f, t) = UNION {SoldOn(d) : d \in f .. t}
  <2>1. ASSUME NEW o \in Revenue(f, t) PROVE \E d \in f .. t : o \in SoldOn(d)
    <3>1. PICK d \in Between(f, t) : o \in sales[d].sold
      BY DEF Revenue
    <3>2. d \in f .. t /\ sales[d] # NoRow
      BY DEF Between
    <3> QED BY <1>1, <3>1, <3>2
  <2>2. ASSUME NEW d \in f .. t, NEW o \in SoldOn(d) PROVE o \in Revenue(f, t)
    <3>1. sales[d] # NoRow /\ o \in sales[d].sold
      BY <1>1
    <3>2. d \in Between(f, t)
      BY <3>1 DEF Between
    <3> QED BY <3>1, <3>2 DEF Revenue
  <2> QED BY <2>1, <2>2
<1>3. TopCustomers(f, t) = UNION {SoldOn(d) : d \in f .. t}
  BY DEF TopCustomers, SoldOn, CountableOrders
<1>4. Drifted \cap (f .. t) = {}
  <2>1. ASSUME NEW d \in Drifted, d \in f .. t PROVE FALSE
    <3>1. IF sales[d] = NoRow THEN SoldOn(d) # {}
          ELSE sales[d].sold # SoldOn(d) \/ sales[d].refunded # RefundedOn(d)
      BY DEF Drifted, Recompute
    <3> QED BY <1>1, <2>1, <3>1
  <2> QED BY <2>1
<1> QED BY <1>2, <1>3, <1>4

LEMMA NewOnlyOnce == Typed /\ RowInv => NewOnce
<1> SUFFICES ASSUME Typed, RowInv, Fresh(1, today), NEW o \in CountableOrders
    PROVE  Cardinality(NewDays(Buyer[o], 1, today)) = 1
  BY DEF NewOnce
<1> DEFINE b == Buyer[o]
           mine == {q \in CountableOrders : Buyer[q] = b}
           S == {order[q].made : q \in mine}
<1>0. today \in Nat /\ 1 \in 1 .. today /\ today \in 1 .. today
  BY DaysAre DEF Typed
<1>1. ASSUME NEW q \in CountableOrders PROVE order[q].made \in 1 .. today
  <2>1. q \in Orders /\ order[q].made # NoDay
    BY DEF CountableOrders, Made
  <2>2. order[q].made \in 0 .. MaxDay /\ order[q].made <= today
    BY <2>1 DEF Typed, SourceTyped, OrderRows
  <2> QED BY <1>0, <2>1, <2>2, DaysAre DEF NoDay
<1>2. S \subseteq Nat /\ S # {}
  BY <1>1
<1>3. PICK m \in S : \A n \in S : m <= n
  <2> HIDE DEF S
  <2> QED BY <1>2, Least
<1>4. PICK p \in mine : order[p].made = m
  BY <1>3
<1>5. \A d \in 1 .. today : /\ sales[d] # NoRow => sales[d].fresh = FreshOn(d)
                            /\ sales[d] = NoRow => SoldOn(d) = {}
  BY <1>0, FreshDay, ToldSays
<1>6. m \in 1 .. today /\ p \in SoldOn(m)
  BY <1>1, <1>4 DEF SoldOn
<1>7. b \in FreshOn(m)
  <2>1. b \in BuyersOn(m)
    BY <1>4, <1>6 DEF BuyersOn
  <2>2. \A q \in CountableOrders : Buyer[q] = b => order[q].made >= m
    BY <1>1, <1>3, <1>6
  <2> QED BY <2>1, <2>2 DEF FreshOn
<1>8. m \in NewDays(b, 1, today)
  <2>1. sales[m] # NoRow /\ sales[m].fresh = FreshOn(m)
    BY <1>5, <1>6
  <2>2. m \in Between(1, today)
    BY <1>6, <2>1 DEF Between
  <2> QED BY <1>7, <2>1, <2>2 DEF NewDays
<1>9. ASSUME NEW d \in NewDays(b, 1, today) PROVE d = m
  <2>1. d \in 1 .. today /\ b \in FreshOn(d)
    <3>1. d \in Between(1, today) /\ b \in sales[d].fresh
      BY DEF NewDays
    <3>2. d \in 1 .. today /\ sales[d] # NoRow
      BY <3>1 DEF Between
    <3> QED BY <1>5, <3>1, <3>2
  <2>2. PICK q \in SoldOn(d) : Buyer[q] = b
    BY <2>1 DEF FreshOn, BuyersOn
  <2>3. q \in mine /\ order[q].made = d
    BY <2>2 DEF SoldOn
  <2>4. m <= d
    BY <1>3, <2>3
  <2>5. d <= m
    BY <1>0, <1>4, <1>6, <2>1 DEF FreshOn
  <2> QED BY <1>0, <1>6, <2>1, <2>4, <2>5
<1>10. NewDays(b, 1, today) = {m}
  BY <1>8, <1>9
<1> QED BY <1>10, FS_Singleton

(* However many orders, customers, days and overlapping or dying runs      *)
(* (rollup_analytics, insights, check_rollup_drift): a stored row is what  *)
(* its orders, refunds and cash say unless one of them changed since the   *)
(* run began to read; over fresh days the chart, the panel and the drift   *)
(* check agree, and a customer is new on one day.                          *)
THEOREM TheRowsTell == Spec => []RowsTell
<1>1. Init => Typed /\ RowInv
  BY InitTyped, InitRow
<1>2. Typed /\ RowInv /\ [Next]_vars => (Typed /\ RowInv)'
  BY NextTyped, NextRow
<1>3. Typed => TypeOK
  <2> SUFFICES ASSUME Typed PROVE TypeOK
    OBVIOUS
  <2>1. AnonTypeOK
    BY DEF Typed, AnonTyped, AnonTypeOK, Drains, CountsOf
  <2>2. \A d \in Days : sales[d].sold \subseteq Orders
    BY DEF Typed, StoredTyped, SalesRows
  <2>3. ASSUME NEW j \in Jobs, NEW i \in 1 .. Len(job[j].todo) PROVE job[j].todo[i] \in Days
    <3>1. job[j].todo \in Seq(Days)
      BY AtADay
    <3> QED BY <3>1, <2>3, ElementOfSeq
  <2> QED BY <2>1, <2>2, <2>3 DEF Typed, SourceTyped, StoredTyped, OrderRows, TypeOK
<1>4. Typed /\ RowInv => RowsTell
  BY <1>3, RowsAreExact, PanelsDoAgree, NewOnlyOnce DEF RowsTell, RowInv
<1> QED BY <1>1, <1>2, <1>4, PTL DEF Spec

=============================================================================
