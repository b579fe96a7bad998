------------------------------ MODULE Discovery ------------------------------
(***************************************************************************)
(* The shop as customers and the assistant find it while staff edit it:    *)
(* the cached corpus of Search, the synonyms a background thread asks a    *)
(* language model for, and the cards of ShopTools, built now and tapped    *)
(* later (products/signals.py, cache.py, recommendations.py; assistant/    *)
(* tools.py; cart/views.py).                                               *)
(*                                                                         *)
(* A save of the product or the combo is seen at once and drops the corpus *)
(* afterwards; so does a save of synonyms.  A save of a size, and a draw   *)
(* of its stock, leaves it.                                                *)
(***************************************************************************)
EXTENDS Search

CONSTANTS
  Names,      (* The names the product may bear.                           *)
  Slang,      (* What a language model may say of a name.                  *)
  Boosts,     (* COMMON_BOOSTS of a name.                                  *)
  Generic,    (* GENERIC_BLOCKLIST: words that any product may bear.       *)
  Asks,       (* BOUND: what the model may ask to put in a cart.           *)
  TopK,       (* SEARCH_TOP_K_MAX.                                         *)
  Threshold,  (* The threshold of a search, 70.                            *)
  MaxRow,     (* BOUND: lengths of the personal row.                       *)
  MaxTasks,   (* BOUND: background threads.                                *)
  MaxChanges  (* BOUND: edits, asks, views and deaths.                     *)

ASSUME DiscoveryAssumption ==
  /\ Names \subseteq Texts /\ CategoryOf[TheProduct] \in Texts
  /\ \A n \in Names : Slang[n] \subseteq Texts /\ Boosts[n] \subseteq Texts
  /\ Asks \subseteq [item : Items, qty : Int]
  /\ Threshold > 60 /\ {TopK, Threshold, MaxRow, MaxTasks, MaxChanges} \subseteq Nat

VARIABLES
  cat,        (* The catalogue: [shop, name, shelf].                       *)
  kb,         (* ProductSearchKB of the product: [there, terms, old], and, *)
              (* as history, the name it was last filled for.              *)
  task,       (* Threads that run a_ensure_search_kb: [at, name].          *)
  corpus,     (* The cached corpus, or NoCorpus.                           *)
  reader,     (* What a search that missed has built, or NoCorpus.         *)
  dropping,   (* Signals that have yet to drop the corpus.                 *)
  excused,    (* History: the cached corpus met a change on its way.       *)
  cart,       (* The customer's cart: how many of each item.               *)
  card,       (* A card shown to the customer, or NoCard.                  *)
  seen,       (* Products the customer [viewed, bought, kept] as favourite.*)
  changes

index    == <<kb, task, corpus, reader, dropping, excused>>
customer == <<cart, card, seen>>
discoveryVars == <<cat, index, customer, changes>>

NoCorpus == {[text |-> "none", item |-> TheProduct, kind |-> "name"]}
Tasks    == 1 .. MaxTasks
NoTask   == [at |-> "idle", name |-> "none"]

DiscoveryInit ==
  /\ cat \in {[shop |-> Mirror(s), name |-> n, shelf |-> Others] :
                s \in {s \in Shops : /\ s.listed /\ s.combo
                                     /\ \A v \in Sizes : s.size[v] = [active |-> TRUE, stock |-> 1, price |-> v]},
                n \in Names}
  /\ kb = [there |-> FALSE, terms |-> {}, old |-> FALSE, name |-> "none"]
  /\ task = [i \in Tasks |-> NoTask]
  /\ corpus = NoCorpus /\ reader = NoCorpus /\ dropping = 0 /\ excused = FALSE
  /\ cart = [i \in Items |-> 0] /\ card = NoCard
  /\ seen = [viewed |-> {}, bought |-> {}, kept |-> {}] /\ changes = 0

(***************************************************************************)
(* Edits                                                                   *)
(***************************************************************************)
OneChange == changes < MaxChanges /\ changes' = changes + 1

(* on_variant_change follows every save of a size.                         *)
EditSize(v, row) ==
  /\ row # cat.shop.size[v]
  /\ cat' = [cat EXCEPT !.shop = Mirror([@ EXCEPT !.size[v] = row])]
  /\ UNCHANGED <<index, customer>>

SetSize(v) ==
  LET s == cat.shop.size[v]
  IN \/ EditSize(v, [s EXCEPT !.active = ~@])
     \/ \E n \in 0 .. MaxStock : EditSize(v, [s EXCEPT !.stock = n])
     \/ \E n \in Prices : EditSize(v, [s EXCEPT !.price = n])

(* The last of another product is sold, or it is stocked again.            *)
Restock(p) ==
  /\ cat' = [cat EXCEPT !.shelf = IF p \in @ THEN @ \ {p} ELSE @ \cup {p}]
  /\ UNCHANGED <<index, customer>>

(* A thread is started when the product is active and in stock.            *)
Starts(name) ==
  \E i \in Tasks : task[i].at = "idle" /\ task' = [task EXCEPT ![i] = [at |-> "begun", name |-> name]]

SaveProduct(name, listed) ==
  /\ cat' = [cat EXCEPT !.name = name, !.shop.listed = listed]
  /\ IF Live(cat', TheProduct) THEN Starts(name) ELSE UNCHANGED task
  /\ dropping' = dropping + 1
  /\ UNCHANGED <<kb, corpus, reader, excused, customer>>

SaveCombo ==
  /\ cat' = [cat EXCEPT !.shop.combo = ~@]
  /\ dropping' = dropping + 1
  /\ UNCHANGED <<kb, task, corpus, reader, excused, customer>>

(***************************************************************************)
(* Synonyms: a_ensure_search_kb                                            *)
(***************************************************************************)
Continues(i, at) == task' = [task EXCEPT ![i].at = at]

(* get_or_create commits an empty row; one that is not old is left alone.  *)
EnsureRow(i) ==
  /\ task[i].at = "begun"
  /\ kb' = [kb EXCEPT !.there = TRUE, !.old = kb.there /\ @]
  /\ IF kb.there /\ ~kb.old THEN task' = [task EXCEPT ![i] = NoTask] ELSE Continues(i, "asking")
  /\ dropping' = IF kb.there THEN dropping ELSE dropping + 1
  /\ UNCHANGED <<cat, corpus, reader, excused, customer>>

(* What the product gives without the model: its name, the words of it,    *)
(* its category.                                                           *)
Deterministic(name) == {name, CategoryOf[TheProduct]} \cup Tokens[name]

(* The name itself is in the corpus already.                               *)
Cleaned(terms, name) == terms \ ({name} \cup Generic)

(* generate_synonyms: what the model says, if it says anything, and more.  *)
TermsOf(name, said) == Cleaned(said \cup Boosts[name] \cup Deterministic(name), name)

Fills(name, said) == kb' = [there |-> TRUE, terms |-> TermsOf(name, said), old |-> FALSE, name |-> name]

(* As a bug would have it: the corpus is not dropped for the synonyms.     *)
SaveSilently(i, said) == Fills(task[i].name, said) /\ UNCHANGED dropping
SaveSynonyms(i, said) ==
  /\ Fills(task[i].name, said)
  /\ dropping' = dropping + 1

(* The name is that of the save that started the thread.                   *)
Generate(i) ==
  /\ task[i].at = "asking"
  /\ \E said \in SUBSET Slang[task[i].name] : SaveSynonyms(i, said)
  /\ task' = [task EXCEPT ![i] = NoTask]
  /\ UNCHANGED <<cat, corpus, reader, excused, customer>>

(* The thread is a daemon and dies with its worker.                        *)
TaskDies(i) ==
  /\ task[i].at \in {"begun", "asking"}
  /\ Continues(i, "dead")
  /\ UNCHANGED <<cat, kb, corpus, reader, dropping, excused, customer>>

(* More than seven days pass.                                              *)
Ages ==
  /\ kb.there /\ ~kb.old /\ \A i \in Tasks : task[i].at # "asking"
  /\ kb' = [kb EXCEPT !.old = TRUE]
  /\ UNCHANGED <<cat, task, corpus, reader, dropping, excused, customer>>

(***************************************************************************)
(* The cached corpus                                                       *)
(***************************************************************************)
Truth == BuildCorpus(cat, kb.terms)

ReadCorpus ==
  /\ corpus = NoCorpus /\ reader = NoCorpus
  /\ reader' = Truth
  /\ UNCHANGED <<cat, kb, task, corpus, dropping, excused, customer>>

StoreCorpus ==
  /\ reader # NoCorpus
  /\ corpus' = reader /\ reader' = NoCorpus
  /\ excused' = (reader # Truth)
  /\ UNCHANGED <<cat, kb, task, dropping, customer>>

DropCorpus ==
  /\ dropping > 0
  /\ dropping' = dropping - 1
  /\ corpus' = NoCorpus /\ excused' = FALSE
  /\ UNCHANGED <<cat, kb, task, reader, customer>>

(* The worker dies, or the cache is away, between the save and the drop.   *)
DropFails ==
  /\ dropping > 0
  /\ dropping' = dropping - 1
  /\ excused' = (corpus # NoCorpus)
  /\ UNCHANGED <<cat, kb, task, corpus, reader, customer>>

Expire ==
  /\ corpus # NoCorpus
  /\ corpus' = NoCorpus /\ excused' = FALSE
  /\ UNCHANGED <<cat, kb, task, reader, dropping, customer>>

(***************************************************************************)
(* The customer                                                            *)
(***************************************************************************)
(* Any card the model's asks can make.                                     *)
Propose ==
  /\ \E a, b \in Asks, build \in 1 .. 3 :
       /\ card' = CASE build = 1 -> BuildAddToCart(cat.shop, a)
                    [] build = 2 -> BuildCartProposal(cat.shop, <<a, b>>)
                    [] OTHER     -> BuildEditCart(cat.shop, <<a, b>>)
       /\ card' # NoCard
  /\ UNCHANGED <<cat, index, cart, seen>>

(* The card is worked through a line at a time.                            *)
Tap ==
  /\ card.lines # <<>>
  /\ LET l == Head(card.lines)
     IN cart' = IF card.type = "edit_cart" THEN UpdateItem(cat.shop, cart, l) ELSE AddItem(cat.shop, cart, l)
  /\ card' = IF Len(card.lines) = 1 THEN NoCard ELSE [card EXCEPT !.lines = Tail(@)]
  /\ UNCHANGED <<cat, index, seen>>

(* A page the assistant leads to, or one found.                            *)
ViewProduct(p) ==
  /\ p \notin seen.viewed
  /\ seen' = [seen EXCEPT !.viewed = @ \cup {p}]
  /\ UNCHANGED <<cat, index, cart, card>>

(* An order of it, placed from another cart.                               *)
BuyProduct(p) ==
  /\ p \notin seen.bought
  /\ seen' = [seen EXCEPT !.bought = @ \cup {p}]
  /\ UNCHANGED <<cat, index, cart, card>>

(* Favourites.  A product off the shop is hidden from the list, and kept.  *)
FavouriteList == {p \in seen.kept : Active(cat, p)}

KeepFavourites(kept) ==
  /\ kept # seen.kept
  /\ seen' = [seen EXCEPT !.kept = kept]
  /\ UNCHANGED <<cat, index, cart, card>>

AddFavourite(p) == Active(cat, p) /\ KeepFavourites(seen.kept \cup {p})

RemoveFavourite(p) == KeepFavourites(seen.kept \ {p})

(* As a bug would have it: the list of this device is the list.            *)
SyncReplaces(list) == KeepFavourites({p \in list : Active(cat, p)})
(* A device sends its list; what it does not know of stays.                *)
SyncFavourites(list) == KeepFavourites(seen.kept \cup {p \in list : Active(cat, p)})

Edits ==
  \/ \E v \in Sizes : SetSize(v)
  \/ \E p \in Others : Restock(p)
  \/ \E name \in Names : SaveProduct(name, cat.shop.listed)
  \/ SaveProduct(cat.name, ~cat.shop.listed)
  \/ SaveCombo

DiscoveryNext ==
  \/ /\ \/ Edits \/ Propose \/ Ages
        \/ \E i \in Tasks : TaskDies(i)
        \/ \E p \in Products : ViewProduct(p) \/ BuyProduct(p) \/ AddFavourite(p) \/ RemoveFavourite(p)
        \/ \E list \in SUBSET Products : SyncFavourites(list)
     /\ OneChange
  \/ /\ \/ \E i \in Tasks : EnsureRow(i) \/ Generate(i)
        \/ ReadCorpus \/ StoreCorpus \/ DropCorpus \/ DropFails \/ Expire
        \/ Tap
     /\ UNCHANGED changes

DiscoverySpec == DiscoveryInit /\ [][DiscoveryNext]_discoveryVars
-----------------------------------------------------------------------------
DiscoveryTypeOK ==
  /\ cat.shop \in Shops /\ cat.name \in Names /\ cat.shelf \subseteq Others
  /\ kb.terms \subseteq Texts /\ dropping \in Nat
  /\ \A i \in DOMAIN card.lines : card.lines[i].qty \in 0 .. MaxPropose
  /\ \A i \in Items : cart[i] \in Nat /\ (i # TheCombo => cart[i] <= MaxStock)

(* A corpus that no longer tells the names, categories and synonyms of     *)
(* what is active is about to be dropped, was built before what changed    *)
(* it, or its drop failed.                                                 *)
CorpusTrue == corpus \notin {NoCorpus, Truth} => dropping > 0 \/ excused

(* Whatever is active and in stock is found by its name, in the search     *)
(* with the highest score and in the autocomplete, however its stock has   *)
(* changed since the corpus was built.                                     *)
FoundByName ==
  corpus # NoCorpus /\ dropping = 0 /\ ~excused =>
    \A t \in {u \in Things : Live(cat, u)} :
      LET found == UnifiedSearch(cat, corpus, Name(cat, t), TopK, Threshold)
      IN /\ \E top \in found : top[2] = t /\ \A u \in found : u[1] <= top[1]
         /\ t \in Suggested(cat, corpus, Name(cat, t), Cardinality(Things))

(* recommendations.py:621: "a genuine match always outranks a padded       *)
(* recommendation": at the threshold a search has unless it names another. *)
Outranks(threshold) ==
  corpus # NoCorpus =>
    \A q \in Texts :
      LET direct == Listed(Direct(cat, corpus, q, TopK, threshold))
          found  == UnifiedSearch(cat, corpus, q, TopK, threshold)
      IN \A v, u \in found : v[2] \in direct /\ u[2] \notin direct => v[1] > u[1]

MatchesOutrank == Outranks(Threshold)

(* recommendations.py:313: "a KB row is never empty even when the LLM is   *)
(* down".  Cleaning drops the name itself and words that any product may   *)
(* bear, so there are names that give nothing: of the others the row is    *)
(* empty only while a thread is to fill it, or after that thread died.     *)
Mute     == {n \in Names : TermsOf(n, {}) = {}}
KbFilled == kb.there /\ kb.terms = {} => kb.name \in Mute \/ \E i \in Tasks : task[i].at \in {"asking", "dead"}

(* The personal row is as long as asked for, or has all that is active and *)
(* in stock; what is left out of it is liked no better than what is in.    *)
RowFull ==
  LET taste == [bought |-> seen.bought, viewed |-> seen.viewed, kept |-> seen.kept,
                holds |-> {p \in {TheProduct} : \E i \in Sizes \cup {TheProduct} : cart[i] > 0}]
  IN \A limit \in 1 .. MaxRow :
       LET row == Recommend(cat, taste, limit)
       IN /\ row \subseteq LiveProducts(cat)
          /\ Cardinality(row) = limit \/ row = LiveProducts(cat)
          /\ taste.bought \cup taste.kept \cup taste.viewed \cup taste.holds # {} =>
               \A p \in row, u \in LiveProducts(cat) \ row : Liking(taste, u) <= Liking(taste, p)

(* A favourite is lost by being taken off, alone, and in no other way: not  *)
(* to the list of a device that never heard of it, nor to the shop, which  *)
(* shows it again when the product is back.                                *)
FavouritesKept ==
  [][\A p \in seen.kept :
       \/ p \in FavouriteList'
       \/ p \in seen'.kept /\ (p = TheProduct /\ ~cat'.shop.listed)
       \/ seen' = [seen EXCEPT !.kept = @ \ {p}]]_discoveryVars

(* What a tool says is in stock can be proposed, at the price it said.     *)
ShownCanBeProposed ==
  \A r \in SearchTool(cat.shop) \cup BrowseTool(cat.shop, TRUE) \cup BrowseTool(cat.shop, FALSE) \cup DetailsTool(cat.shop) :
    r.inStock =>
      LET c == BuildAddToCart(cat.shop, [item |-> r.item, qty |-> 1])
      IN c # NoCard /\ c.lines[1].price = r.price

(* A line of a card enters the cart only as far as the stock at the tap    *)
(* allows, whatever it was when the card was made.                         *)
TapsAreChecked ==
  [][\A i \in Items : cart'[i] > cart[i] => OnSale(cat.shop, i) /\ Holds(cat.shop, i, cart'[i])]_discoveryVars

(* What the search has in its cache is true or about to be, and what it,   *)
(* the personal row and the assistant show is ranked as it should be, and  *)
(* can be bought as shown.                                                 *)
ShownTrue == DiscoveryTypeOK /\ CorpusTrue /\ KbFilled /\ MatchesOutrank /\ RowFull /\ ShownCanBeProposed

(* A tap does what the shop then allows, to the cart and to the            *)
(* favourites.                                                             *)
TapsHold == TapsAreChecked /\ FavouritesKept

=============================================================================
