----------------------------- MODULE ShopTools ------------------------------
(***************************************************************************)
(* What the assistant may tell of the shop and propose to put in a cart    *)
(* (assistant/tools.py): pure functions of the shop at the moment of the   *)
(* call.  A read tool shows rows; an action builder checks what the model  *)
(* asked for and makes a card, or refuses it; nothing is done until the    *)
(* customer taps the card (AddItem, UpdateItem).                           *)
(*                                                                         *)
(* The shop: the sizes of one product, by weight, each [active, stock,     *)
(* price]; whether the product is listed and what its row mirrors of its   *)
(* default size, the smallest active one; whether a combo is active.       *)
(***************************************************************************)
EXTENDS Integers, FiniteSets, Sequences, Functions

CONSTANTS
  Sizes,      (* The sizes of the product, by weight.                      *)
  Prices,
  MaxStock,   (* BOUND: units of a size.                                   *)
  MaxPropose, (* MAX_PROPOSE_QTY, 10.                                      *)
  CardLines   (* CART_PROPOSAL_MAX_LINES, 5.                               *)

TheProduct == 0    (* A line that names the product and no size.           *)
TheCombo   == -1
Items      == Sizes \cup {TheProduct, TheCombo}
ComboPrice == 0    (* That of its parts (Pricing): no price of a size.     *)

ASSUME ShopAssumption == /\ Sizes \subseteq Nat \ {TheProduct} /\ IsFiniteSet(Sizes)
                         /\ Prices \subseteq Nat \ {ComboPrice} /\ MaxStock \in Nat
                         /\ MaxPropose \in Nat \ {0} /\ CardLines \in Nat \ {0}

Shown == [stock : 0 .. MaxStock, price : Prices]
Shops == [size : [Sizes -> [active : BOOLEAN, stock : 0 .. MaxStock, price : Prices]],
          listed : BOOLEAN, shown : Shown, combo : BOOLEAN]

Actives(shop) == {v \in Sizes : shop.size[v].active}

(* default_variant_for: what a line that names no size means.              *)
SizeOf(shop, item) ==
  IF item # TheProduct \/ Actives(shop) = {} THEN item
  ELSE CHOOSE v \in Actives(shop) : \A w \in Actives(shop) : v <= w

(* Every save of a size and every draw of its stock is followed by this;   *)
(* a product with no active size keeps the last it showed.                 *)
Mirror(shop) ==
  LET v == SizeOf(shop, TheProduct)
  IN IF v = TheProduct THEN shop
     ELSE [shop EXCEPT !.shown = [stock |-> shop.size[v].stock, price |-> shop.size[v].price]]

(***************************************************************************)
(* Read tools                                                              *)
(***************************************************************************)
Row(item, price, inStock) == [item |-> item, price |-> price, inStock |-> inStock]

ComboRow(shop)   == IF shop.combo THEN {Row(TheCombo, ComboPrice, TRUE)} ELSE {}
ProductRow(shop) ==
  IF shop.listed THEN {Row(TheProduct, shop.shown.price, shop.shown.stock > 0)} ELSE {}

(* build_suggestions drops what the product row shows to be sold out; a    *)
(* hit carries the active sizes.                                           *)
SearchTool(shop) ==
  ComboRow(shop) \cup
  IF shop.listed /\ shop.shown.stock > 0
    THEN ProductRow(shop) \cup {Row(v, shop.size[v].price, shop.size[v].stock > 0) : v \in Actives(shop)}
    ELSE {}

(* Combos have no stock of their own, and are left out when it is asked.   *)
BrowseTool(shop, inStock) ==
  IF inStock THEN {r \in ProductRow(shop) : r.inStock} ELSE ProductRow(shop) \cup ComboRow(shop)

DetailsTool(shop) == ProductRow(shop) \cup ComboRow(shop)

(***************************************************************************)
(* Action builders.  An ask is [item, qty]; qty may be anything the model  *)
(* says.                                                                   *)
(***************************************************************************)
NoCard == [type |-> "none", lines |-> <<>>]

Clamp(qty, least) ==
  IF qty < least THEN least ELSE IF qty > MaxPropose THEN MaxPropose ELSE qty

OnSale(shop, item) ==
  \/ item = TheCombo /\ shop.combo
  \/ item = TheProduct /\ shop.listed
  \/ item \in Actives(shop) /\ shop.listed

(* A line is priced by its size; by the product row when there is none.    *)
Priced(shop, item) == IF item \in Sizes THEN shop.size[item] ELSE shop.shown

StockOk(shop, item) == item = TheCombo \/ Priced(shop, SizeOf(shop, item)).stock > 0

PriceOf(shop, item) == IF item = TheCombo THEN ComboPrice ELSE Priced(shop, SizeOf(shop, item)).price

Line(shop, ask, least) ==
  [item |-> SizeOf(shop, ask.item), qty |-> Clamp(ask.qty, least), price |-> PriceOf(shop, ask.item)]

Lines(shop, asks, least) == [i \in DOMAIN asks |-> Line(shop, asks[i], least)]

BuildAddToCart(shop, ask) ==
  IF OnSale(shop, ask.item) /\ StockOk(shop, ask.item)
    THEN [type |-> "add_to_cart", lines |-> <<Line(shop, ask, 1)>>]
    ELSE NoCard

(* All the lines or none.                                                  *)
BuildCartProposal(shop, asks) ==
  IF /\ Len(asks) \in 1 .. CardLines
     /\ \A i \in DOMAIN asks : OnSale(shop, asks[i].item) /\ StockOk(shop, asks[i].item)
    THEN [type |-> "cart_proposal", lines |-> Lines(shop, asks, 1)]
    ELSE NoCard

(* A change of the cart may remove a line; stock is not looked at.         *)
BuildEditCart(shop, asks) ==
  IF Len(asks) \in 1 .. CardLines /\ \A i \in DOMAIN asks : OnSale(shop, asks[i].item)
    THEN [type |-> "edit_cart", lines |-> Lines(shop, asks, 0)]
    ELSE NoCard

(***************************************************************************)
(* The endpoints a tap calls, one line at a time.                          *)
(***************************************************************************)
(* _resolve_variant and the stock that bounds a line: that of the size, of *)
(* the product row when it has no active size, none for a combo.           *)
Holds(shop, item, qty) ==
  OnSale(shop, item) /\ (item # TheCombo => qty <= Priced(shop, SizeOf(shop, item)).stock)

(* The cart after a line is added, or as it was when it is refused.        *)
AddItem(shop, cart, l) ==
  LET v == SizeOf(shop, l.item)
  IN IF Holds(shop, v, cart[v] + l.qty) THEN [cart EXCEPT ![v] = @ + l.qty] ELSE cart

(* A line put in while the product had no size is still found by it.       *)
Found(shop, cart, item) ==
  LET v == SizeOf(shop, item) IN IF cart[v] = 0 THEN item ELSE v

UpdateItem(shop, cart, l) ==
  IF /\ OnSale(shop, l.item)
     /\ cart[Found(shop, cart, l.item)] > 0
     /\ l.qty = 0 \/ Holds(shop, l.item, l.qty)
    THEN [cart EXCEPT ![Found(shop, cart, l.item)] = l.qty]
    ELSE cart
=============================================================================
