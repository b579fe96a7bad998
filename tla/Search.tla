------------------------------- MODULE Search --------------------------------
(***************************************************************************)
(* Search, autocomplete and the personal row of the shop (products/        *)
(* recommendations.py, personalization.py): pure functions of the          *)
(* catalogue, of a corpus built from it earlier, and of a customer's taste.*)
(*                                                                         *)
(* Texts are words; how alike two of them are, and which begins with or    *)
(* contains which, is given.  A score counts a hundredth of a point once   *)
(* it is weighted.  Equal scores are told apart by the item's number; the  *)
(* code leaves them in the order of the query, which is as good as any.    *)
(*                                                                         *)
(* The catalogue: the product of ShopTools and its combo, in shop; the     *)
(* product's name; the other products that are active and in stock.        *)
(***************************************************************************)
EXTENDS ShopTools

CONSTANTS
  Texts,
  Short,      (* Queries of up to three letters.                           *)
  Likeness,   (* Of a query and a text, in percent.                        *)
  Begins,     (* <<query, text>> that begins with, or contains, it.        *)
  Tokens,     (* The words of a name.                                      *)
  Others,     (* Other products.                                           *)
  NameOf,     (* Their names, and the combo's.                             *)
  CategoryOf, (* Of every product.                                         *)
  Featured,   (* The products that are featured.                           *)
  Together    (* How many orders have <<bought, also>>.                    *)

Products == Others \cup {TheProduct}
Things   == Products \cup {TheCombo}

ASSUME SearchAssumption ==
  /\ Others \subseteq Nat \ {TheProduct} /\ IsFiniteSet(Others) /\ Featured \subseteq Products
  /\ Short \subseteq Texts /\ Begins \subseteq Texts \X Texts
  /\ \A q \in Texts, t \in Texts : Likeness[q][t] \in 0 .. 100
  /\ \A t \in Texts : Tokens[t] \subseteq Texts
  /\ \A b \in Products, p \in Products : Together[b][p] \in Nat

Name(cat, t) == IF t = TheProduct THEN cat.name ELSE NameOf[t]

Active(cat, t) ==
  CASE t = TheProduct -> cat.shop.listed
    [] t = TheCombo   -> cat.shop.combo
    [] OTHER          -> TRUE

(* Active and in stock; a combo has no stock.                              *)
Live(cat, t) ==
  CASE t = TheProduct -> cat.shop.listed /\ cat.shop.shown.stock > 0
    [] t = TheCombo   -> cat.shop.combo
    [] OTHER          -> t \in cat.shelf

LiveProducts(cat) == {t \in Products : Live(cat, t)}

(* The k highest of a set of <<value, item>>, and the items of one.        *)
Top(ranked, k) ==
  LET Ahead(v) == {u \in ranked : u[1] > v[1] \/ (u[1] = v[1] /\ u[2] < v[2])}
  IN {v \in ranked : Cardinality(Ahead(v)) < k}

Listed(ranked) == {v[2] : v \in ranked}

(* k of S, as they come.                                                   *)
Some(S, k) == Listed(Top({<<0, t>> : t \in S}, k))

Most(S) == IF S = {} THEN 0 ELSE CHOOSE x \in S : \A y \in S : x >= y

(***************************************************************************)
(* The corpus                                                              *)
(***************************************************************************)
Kinds  == <<"name", "token", "category", "synonym">>
Weight == [name |-> 100, token |-> 95, category |-> 90, synonym |-> 85]
Rank   == [name |-> 0, token |-> 1, category |-> 2, synonym |-> 3]

(* A combo goes by the names of its parts, and has no category.            *)
TextsOf(cat, terms, t) ==
  [name     |-> {Name(cat, t)},
   token    |-> Tokens[Name(cat, t)] \cup IF t = TheCombo THEN {cat.name} ELSE {},
   category |-> IF t = TheCombo THEN {} ELSE {CategoryOf[t]},
   synonym  |-> IF t = TheProduct THEN terms ELSE {}]

(* Of a text that an item says twice, the first kind counts.               *)
EntriesOf(cat, terms, t) ==
  LET said == TextsOf(cat, terms, t)
  IN {[text |-> x[1], item |-> t, kind |-> Kinds[x[2]]] :
        x \in {x \in Texts \X (1 .. 4) : /\ x[1] \in said[Kinds[x[2]]]
                                        /\ \A j \in 1 .. x[2] - 1 : x[1] \notin said[Kinds[j]]}}

(* As a bug would have it: what is sold out is left out.                   *)
BuildInStock(cat, terms) == UNION {EntriesOf(cat, terms, t) : t \in {u \in Things : Live(cat, u)}}
(* Stock is not looked at.                                                 *)
BuildCorpus(cat, terms) == UNION {EntriesOf(cat, terms, t) : t \in {u \in Things : Active(cat, u)}}

(***************************************************************************)
(* Scores                                                                  *)
(***************************************************************************)
Capped(score) == IF score > 100 THEN 100 ELSE score

(* A short query has to begin the text or be all but equal to it.          *)
Base(q, e) ==
  IF q \notin Short THEN Likeness[q][e.text]
  ELSE IF <<q, e.text>> \in Begins THEN 90
  ELSE IF Likeness[q][e.text] >= 90 THEN Likeness[q][e.text] ELSE 0

(* A word shared with a name earns none.                                   *)
Bonus(q, e) ==
  IF e.kind = "token" \/ q \in Short THEN 0
  ELSE IF Likeness[q][e.text] > 95 THEN 30
  ELSE IF <<q, e.text>> \in Begins THEN 15
  ELSE 0

ScoreOf(q, e) == Capped((Base(q, e) * Weight[e.kind]) \div 100 + Bonus(q, e))

(* _score_matches: the best entry of each item, if it is over the          *)
(* threshold; one of a longer query is over it before it is weighted, too. *)
Best(corpus, q, t, threshold) ==
  Most({ScoreOf(q, e) : e \in {e \in corpus : e.item = t /\ (q \notin Short => Base(q, e) >= threshold)}})

Scores(corpus, q, threshold) ==
  LET least == IF q \in Short /\ threshold < 85 THEN 85 ELSE threshold
  IN {v \in {<<Best(corpus, q, t, threshold), t>> : t \in Things} : v[1] > 0 /\ v[1] >= least}

(* _fuzzy_search_all: the best are taken, and then what is not live is     *)
(* dropped.                                                                *)
TakeDirect(cat, scores, k) ==
  LET combos == IF k < 2 THEN 1 ELSE k \div 2
      best   == Top({v \in scores : v[2] # TheCombo}, k) \cup Top({v \in scores : v[2] = TheCombo}, combos)
  IN Top({v \in best : Live(cat, v[2])}, k)

Direct(cat, corpus, q, k, threshold) == TakeDirect(cat, Scores(corpus, q, threshold), k)

(***************************************************************************)
(* The results                                                             *)
(***************************************************************************)
ScoreWeights == [direct |-> 100, category |-> 80, trending |-> 50]

(* _other_recommendations: a few of the category, a few that are featured. *)
OtherRecommendations(cat, q, k) ==
  LET few   == IF k < 4 THEN 1 ELSE k \div 4
      kin   == Some({t \in LiveProducts(cat) : <<q, CategoryOf[t]>> \in Begins}, few)
      trend == IF Cardinality(kin) >= k THEN {} ELSE Some(LiveProducts(cat) \cap Featured, few)
  IN {<<75 * ScoreWeights.category, t>> : t \in kin} \cup {<<60 * ScoreWeights.trending, t>> : t \in trend}

(* _rank_and_dedupe: an item that comes twice counts where it is higher.   *)
RankAndDedupe(results, k) ==
  Top({v \in results : \A u \in results : u[2] = v[2] => u[1] <= v[1]}, k)

(* unified_search: padded when it found one or two.                        *)
Padded(cat, q, direct, k) ==
  RankAndDedupe({<<v[1] * ScoreWeights.direct, v[2]>> : v \in direct}
                \cup IF Cardinality(direct) \in {1, 2} THEN OtherRecommendations(cat, q, k \div 2) ELSE {}, k)

UnifiedSearch(cat, corpus, q, k, threshold) == Padded(cat, q, Direct(cat, corpus, q, k, threshold), k)

(* build_suggestions: what begins with the query by the kind of its text,  *)
(* then what is like it.                                                   *)
Suggested(cat, corpus, q, limit) ==
  LET begun == {<<1000 - Rank[e.kind], e.item>> : e \in {e \in corpus : <<q, e.text>> \in Begins}}
      alike == IF Cardinality(Listed(begun)) >= limit THEN {}
               ELSE {<<Likeness[q][e.text], e.item>> : e \in {e \in corpus : Likeness[q][e.text] >= 75}}
  IN Listed(RankAndDedupe({v \in begun \cup alike : Live(cat, v[2])}, limit))

(***************************************************************************)
(* The personal row.  A taste is what the customer [bought, viewed, kept]  *)
(* as a favourite and [holds] in the cart.                                 *)
(***************************************************************************)
(* Points are doubled so that the halves are whole.                        *)
Affinity(taste, c) ==
  LET In(S) == Cardinality({p \in S : CategoryOf[p] = c})
  IN 6 * In(taste.bought) + 4 * In(taste.kept) + 3 * In(taste.holds) + 2 * In(taste.viewed)

Copurchase(taste, p) ==
  IF p \in taste.bought THEN 0 ELSE SumFunction([b \in taste.bought |-> Together[b][p]])

Popularity(taste, p) == Together[p][p] + IF p \in taste.bought THEN 1 ELSE 0

AtLeastOne(n) == IF n = 0 THEN 1 ELSE n

Liking(taste, p) ==
  LET co  == AtLeastOne(Most({Copurchase(taste, x) : x \in Products}))
      pop == AtLeastOne(Most({Popularity(taste, x) : x \in Products}))
  IN co * pop * 3 * Affinity(taste, CategoryOf[p]) + 5 * pop * Copurchase(taste, p)
       + (IF p \in taste.viewed THEN 3 * co * pop ELSE 0) + 2 * co * Popularity(taste, p)
       + (IF p \in Featured THEN co * pop ELSE 0)

(* _fallback_queryset: featured ones first, then any.                      *)
Fallback(cat, n) ==
  LET featured == Some(LiveProducts(cat) \cap Featured, n)
  IN featured \cup Some(LiveProducts(cat) \ featured, n - Cardinality(featured))

(* The row is filled from twice as many as it wants.                       *)
Pad(cat, top, limit) ==
  Listed(Top({<<IF t \in Featured THEN 1 ELSE 0, t>> : t \in Fallback(cat, 2 * limit) \ top},
             limit - Cardinality(top)))

Recommend(cat, taste, limit) ==
  IF taste.bought \cup taste.kept \cup taste.viewed \cup taste.holds = {} THEN Fallback(cat, limit)
  ELSE LET liked == {v \in {<<Liking(taste, p), p>> : p \in LiveProducts(cat)} : v[1] > 0}
           top   == Listed(Top(liked, limit))
       IN top \cup Pad(cat, top, limit)
=============================================================================
