------------------------------- MODULE Checkout -------------------------------
(***************************************************************************)
(* Placing an order, which OrderPayments takes as one step that reserves a *)
(* unit, opened up: the cart and the recipes of combos are read without a  *)
(* lock, twice, and only the last part of the request is a transaction.    *)
(*                                                                         *)
(*   - the request              orders/views.py  OrderViewSet.create       *)
(*   - the way back of stock    orders/views.py  restore_order_stock       *)
(*   - the cart                 cart/views.py    CartViewSet               *)
(*   - editors of the stock     products/views.py, products/bulk_views.py  *)
(*   - editors of a recipe      products/serializers.py                    *)
(*                                                                         *)
(* A line of a cart is a size (ProductVariant) or a combo; a combo has no  *)
(* stock of its own and draws the sizes of its recipe.  Prices are left    *)
(* out: a coupon is worth a part of the cart or all of it.  Product.stock, *)
(* which mirrors the default size for display, is left out: nothing is     *)
(* sold from it.                                                           *)
(***************************************************************************)
EXTENDS Naturals, FiniteSets, FiniteSetsExt

CONSTANTS
  Sizes, Combos,   (* What is sold.                                         *)
  Customers, Requests, Orders,
  Nobody,          (* Not a customer.                                       *)
  Recipes,         (* Recipes staff may give a combo.                       *)
  FirstStock,      (* Units of each size to begin with.                     *)
  FirstRecipe,     (* The recipe of each combo to begin with.               *)
  Tenders,         (* Pairs of a payment method and of what the coupon pays.*)
  MaxUsage,        (* Coupon.max_usage.                                     *)
  CodMaxOpen,      (* COD_MAX_OPEN: unfinished COD orders per customer.     *)
  Counts,          (* Bound: the numbers a stock take may come up with.     *)
  Edits,           (* Bound: the kinds of edit staff make.                  *)
  MaxEdits,        (* Bound: edits begun.                                   *)
  MaxQuantity      (* Bound: units in a line, below MAX_ITEM_QUANTITY.       *)

ASSUME LinesAssumption   == Sizes \cap Combos = {} /\ Nobody \notin Customers
ASSUME BoundsAssumption  == MaxQuantity \in Nat /\ CodMaxOpen \in Nat /\ MaxUsage \in Nat
ASSUME StockAssumption   == FirstStock \in [Sizes -> Nat] /\ Counts \subseteq Nat
ASSUME OrdersAssumption  == IsFiniteSet(Orders) /\ IsFiniteSet(Combos)
ASSUME RecipesAssumption == Recipes \subseteq [Sizes -> Nat] \ {[v \in Sizes |-> 0]}
ASSUME RecipeAssumption  == FirstRecipe \in [Combos -> Recipes]
ASSUME EditsAssumption   == Edits \subseteq {"count", "size", "recipe"} /\ MaxEdits \in Nat
ASSUME TendersAssumption == Tenders \subseteq {"ONLINE", "COD"} \X {"none", "part", "full"}

VARIABLES
  stock,      (* ProductVariant.stock.                                      *)
  recipe,     (* ProductComboItem rows of a combo: units per combo.         *)
  cart,       (* CartItem rows of a customer.                               *)
  used,       (* Coupon.usage_count.                                        *)
  req,        (* Checkout requests: what each has read.                     *)
  order,      (* Order rows with their OrderItem, OrderItemComponent rows.  *)
  form,       (* The stock an edit form of a size was loaded with.          *)
  editing,    (* The recipe a combo's edit has still to write.              *)
  units,      (* History: units of a size there are, reserved ones too.     *)
  clobbered,  (* History: sizes whose stock a form took back to older one.  *)
  edits       (* Edits begun, to bound them.                                *)

vars  == <<stock, recipe, cart, used, req, order, form, editing, units, clobbered, edits>>
staff == <<recipe, form, editing, units, clobbered, edits>>

Lines    == Sizes \cup Combos
NoUnits  == [v \in Sizes |-> 0]
NoParts  == [k \in Combos |-> NoUnits]
Empty    == [l \in Lines |-> 0]
Closed   == [open |-> FALSE, stock |-> 0]
Idle     == [pc |-> "idle", customer |-> Nobody, method |-> "ONLINE", discount |-> "none",
             lines |-> Empty, parts |-> NoParts, snapshot |-> NoParts]
Absent   == [status |-> "absent", pay |-> "pending", customer |-> Nobody, method |-> "ONLINE",
             discount |-> "none", lines |-> Empty, parts |-> NoParts, snapshot |-> NoParts]

Init ==
  /\ stock = FirstStock /\ units = FirstStock
  /\ recipe = FirstRecipe
  /\ cart = [c \in Customers |-> Empty]
  /\ used = 0
  /\ req = [q \in Requests |-> Idle]
  /\ order = [o \in Orders |-> Absent]
  /\ form = [v \in Sizes |-> Closed]
  /\ editing = [k \in Combos |-> NoUnits]
  /\ clobbered = {} /\ edits = 0

Placed(o)   == order[o].status # "absent"
Live(o)     == order[o].status \in {"pending", "confirmed"}
Awaiting(o) == order[o].method = "ONLINE" /\ order[o].status = "pending" /\ order[o].pay = "pending"
OpenCod(c)  == {o \in Orders : order[o].customer = c /\ order[o].method = "COD" /\ Live(o)}

-----------------------------------------------------------------------------
(***************************************************************************)
(* The cart.  A size is added within its stock; a combo has no column of   *)
(* that name and counts as plenty.                                         *)
(***************************************************************************)
Enough(l, n) == l \in Sizes => n <= stock[l]

AddItem(c, l, n) ==
  /\ n > 0 /\ cart[c][l] + n <= MaxQuantity
  /\ Enough(l, cart[c][l] + n)
  /\ cart' = [cart EXCEPT ![c][l] = @ + n]
  /\ UNCHANGED <<stock, used, req, order, staff>>

(* A quantity of none removes the line.                                    *)
UpdateItem(c, l, n) ==
  /\ cart[c][l] > 0 /\ n # cart[c][l]
  /\ Enough(l, n)
  /\ cart' = [cart EXCEPT ![c][l] = n]
  /\ UNCHANGED <<stock, used, req, order, staff>>

ClearCart(c) ==
  /\ cart[c] # Empty
  /\ cart' = [cart EXCEPT ![c] = Empty]
  /\ UNCHANGED <<stock, used, req, order, staff>>

(* What the first phase of a sync lets through: each line within the limit *)
(* of a line, and within its stock then.  The stock may have moved by the  *)
(* transaction that replaces the cart, so any such lines may be put there. *)
Validated == [Lines -> 0..MaxQuantity]

SyncCart(c, lines) ==
  /\ cart' = [cart EXCEPT ![c] = lines]
  /\ UNCHANGED <<stock, used, req, order, staff>>

-----------------------------------------------------------------------------
(***************************************************************************)
(* The request.                                                            *)
(***************************************************************************)
(* Units a size gives to lines whose combos are made of parts.             *)
Drawn(lines, parts, v) == lines[v] + SumFunction([k \in Combos |-> parts[k][v]])

Components(lines) == [k \in Combos |-> [v \in Sizes |-> lines[k] * recipe[k][v]]]

Redeemable == used < MaxUsage

(* The cart and its recipes, read and validated line by line, no lock held.*)
ReadCart(q, c, method, discount) ==
  /\ req[q] = Idle
  /\ cart[c] # Empty
  /\ discount # "none" => Redeemable
  /\ \A v \in Sizes : cart[c][v] <= stock[v]
  /\ \A k \in Combos, v \in Sizes : cart[c][k] * recipe[k][v] <= stock[v]
  /\ req' = [req EXCEPT ![q] = [pc |-> "read", customer |-> c, method |-> method,
                                discount |-> discount, lines |-> cart[c],
                                parts |-> Components(cart[c]), snapshot |-> NoParts]]
  /\ UNCHANGED <<stock, cart, used, order, staff>>

(* The recipes again, to split the price of the combos over their parts; a *)
(* cart that costs nothing has nothing to split.  Then the gates of COD.   *)
PriceCart(q) ==
  LET free == req[q].discount = "full"
  IN  /\ req[q].pc = "read"
      /\ req[q].method = "COD" => Cardinality(OpenCod(req[q].customer)) < CodMaxOpen
      /\ req' = [req EXCEPT ![q].pc = "priced",
                            ![q].snapshot = IF free THEN NoParts ELSE Components(req[q].lines)]
      /\ UNCHANGED <<stock, cart, used, order, staff>>

(* Mutant: every combo line is given back by the recipe of today.          *)
CreditedFromRecipe(o, v) ==
  Drawn(order[o].lines, Components(order[o].lines), v)

(* What restore_order_stock gives back: the snapshot of a combo line, or,  *)
(* if it has none, the recipe of today.                                    *)
Credited(o, v) ==
  LET given(k) == IF order[o].snapshot[k] # NoUnits THEN order[o].snapshot[k]
                                                    ELSE Components(order[o].lines)[k]
  IN  Drawn(order[o].lines, [k \in Combos |-> given(k)], v)

Restocked(released) ==
  [v \in Sizes |-> stock[v] + SumFunction([o \in released |-> Credited(o, v)])]

(* Mutant: an order abandoned by the customer is left as it is.            *)
NoneStale(c) == {}

Stale(c) == {o \in Orders : order[o].customer = c /\ Awaiting(o)}

Suffices(shelf, r) == \A v \in Sizes : Drawn(r.lines, r.parts, v) <= shelf[v]

(* Mutant: the coupon is not looked at again under its lock.               *)
StillRedeemable(discount) == TRUE

CouponHolds(discount) == discount # "none" => Redeemable

(* The order with its lines, and what a combo line was made of.  A cart    *)
(* that costs nothing needs no gateway.                                    *)
NewOrder(r) ==
  [status   |-> IF r.discount = "full" THEN "confirmed" ELSE "pending",
   pay      |-> IF r.discount = "full" THEN "paid" ELSE "pending",
   customer |-> r.customer, method |-> r.method, discount |-> r.discount,
   lines    |-> r.lines, parts |-> r.parts, snapshot |-> r.snapshot]

Superseded(o) == [order[o] EXCEPT !.status = "cancelled", !.pay = "rejected"]

(* The units of every line are taken off the locked rows of their sizes.   *)
Taken(shelf, r) == [v \in Sizes |-> shelf[v] - Drawn(r.lines, r.parts, v)]

UseOf(discount) == IF discount = "none" THEN 0 ELSE 1

(* What awaits payment keeps the cart, to be paid or given up.             *)
CompleteAtOnce(r) == r.method = "COD" \/ r.discount = "full"

(* The transaction, the Cart row locked first.  Only whether the cart has  *)
(* a line is looked at again; the order is made of what was read.          *)
PlaceOrder(q, o) ==
  LET r     == req[q]
      c     == r.customer
      shelf == Restocked(Stale(c))
  IN  /\ r.pc = "priced" /\ ~Placed(o)
      /\ cart[c] # Empty
      /\ Suffices(shelf, r)
      /\ CouponHolds(r.discount)
      /\ stock' = Taken(shelf, r)
      /\ used' = used + UseOf(r.discount)
      /\ order' = [x \in Orders |-> CASE x = o        -> NewOrder(r)
                                      [] x \in Stale(c) -> Superseded(x)
                                      [] OTHER         -> order[x]]
      /\ cart' = IF CompleteAtOnce(r) THEN [cart EXCEPT ![c] = Empty] ELSE cart
      /\ req' = [req EXCEPT ![q] = Idle]
      /\ UNCHANGED staff

(* Refused, rolled back or dead: a request that fails leaves no trace.     *)
CheckoutFails(q) ==
  /\ req[q] # Idle
  /\ req' = [req EXCEPT ![q] = Idle]
  /\ UNCHANGED <<stock, cart, used, order, staff>>

(* The payment of an ONLINE order empties the cart it finds.               *)
PaymentCaptured(o) ==
  /\ Awaiting(o)
  /\ order' = [order EXCEPT ![o].status = "confirmed", ![o].pay = "paid"]
  /\ cart' = [cart EXCEPT ![order[o].customer] = Empty]
  /\ UNCHANGED <<stock, used, req, staff>>

(* The coupon stays used.                                                  *)
Cancel(o) ==
  /\ Live(o)
  /\ stock' = Restocked({o})
  /\ order' = [order EXCEPT ![o].status = "cancelled"]
  /\ UNCHANGED <<cart, used, req, staff>>

-----------------------------------------------------------------------------
(***************************************************************************)
(* Staff.                                                                  *)
(***************************************************************************)
Reserved(v) ==
  SumFunction([o \in {x \in Orders : Live(x)} |-> Drawn(order[o].lines, order[o].parts, v)])

Begin(kind) == kind \in Edits /\ edits < MaxEdits /\ edits' = edits + 1

(* bulk_products_apply writes a count under the lock of the row.           *)
StockTake(v, n) ==
  /\ Begin("count")
  /\ stock' = [stock EXCEPT ![v] = n]
  /\ units' = [units EXCEPT ![v] = n + Reserved(v)]
  /\ clobbered' = clobbered \ {v}
  /\ UNCHANGED <<recipe, cart, used, req, order, form, editing>>

(* A PATCH of a size that leaves its stock alone (a new price) reads the   *)
(* row, and saves all of it.                                               *)
EditSize(v) ==
  /\ Begin("size")
  /\ ~form[v].open
  /\ form' = [form EXCEPT ![v] = [open |-> TRUE, stock |-> stock[v]]]
  /\ UNCHANGED <<stock, recipe, cart, used, req, order, editing, units, clobbered>>

SaveSize(v) ==
  /\ form[v].open
  /\ stock' = [stock EXCEPT ![v] = form[v].stock]
  /\ clobbered' = IF form[v].stock = stock[v] THEN clobbered ELSE clobbered \cup {v}
  /\ form' = [form EXCEPT ![v] = Closed]
  /\ UNCHANGED <<recipe, cart, used, req, order, editing, units, edits>>

(* The rows of a recipe are deleted and written again one by one, each     *)
(* seen by others as soon as it is done.                                   *)
EditRecipe(k, new) ==
  /\ Begin("recipe")
  /\ editing[k] = NoUnits
  /\ new # recipe[k]
  /\ recipe' = [recipe EXCEPT ![k] = NoUnits]
  /\ editing' = [editing EXCEPT ![k] = new]
  /\ UNCHANGED <<stock, cart, used, req, order, form, units, clobbered>>

WriteComponent(k, v) ==
  /\ editing[k][v] > 0
  /\ recipe' = [recipe EXCEPT ![k][v] = editing[k][v]]
  /\ editing' = [editing EXCEPT ![k][v] = 0]
  /\ UNCHANGED <<stock, cart, used, req, order, form, units, clobbered, edits>>

-----------------------------------------------------------------------------
Next ==
  \/ \E c \in Customers, l \in Lines, n \in 0..MaxQuantity : AddItem(c, l, n) \/ UpdateItem(c, l, n)
  \/ \E c \in Customers : ClearCart(c) \/ \E lines \in Validated : SyncCart(c, lines)
  \/ \E q \in Requests, c \in Customers, ch \in Tenders : ReadCart(q, c, ch[1], ch[2])
  \/ \E q \in Requests : PriceCart(q) \/ CheckoutFails(q)
  \/ \E q \in Requests, o \in Orders : PlaceOrder(q, o)
  \/ \E o \in Orders : PaymentCaptured(o) \/ Cancel(o)
  \/ \E v \in Sizes, n \in Counts : StockTake(v, n)
  \/ \E v \in Sizes : EditSize(v) \/ SaveSize(v)
  \/ \E k \in Combos, new \in Recipes : EditRecipe(k, new)
  \/ \E k \in Combos, v \in Sizes : WriteComponent(k, v)

Spec == Init /\ [][Next]_vars

TypeOK ==
  /\ stock \in [Sizes -> Nat]
  /\ recipe \in [Combos -> [Sizes -> Nat]] /\ editing \in [Combos -> [Sizes -> Nat]]
  /\ cart \in [Customers -> [Lines -> 0..MaxQuantity]]
  /\ used \in Nat
  /\ \A q \in Requests : req[q].pc \in {"idle", "read", "priced"}
  /\ \A o \in Orders : /\ order[o].status \in {"absent", "pending", "confirmed", "cancelled"}
                       /\ order[o].lines \in [Lines -> 0..MaxQuantity]
  /\ form \in [Sizes -> [open : BOOLEAN, stock : Nat]]
  /\ units \in [Sizes -> Nat]
  /\ clobbered \subseteq Sizes /\ edits \in 0..MaxEdits

-----------------------------------------------------------------------------
(* An order whose combo lines left a snapshot other than what they drew: a *)
(* recipe edited while it was being placed, or nothing to pay.             *)
Loose(o) == \E k \in Combos : /\ order[o].lines[k] > 0
                             /\ \/ order[o].snapshot[k] # order[o].parts[k]
                                \/ order[o].snapshot[k] = NoUnits

(* Whatever checkouts, superseding ones, cancels, stock takes and recipe   *)
(* edits do, a unit is on the shelf or in a live order, and only there.    *)
(* The two known leaks are set apart: loose orders, and a size saved from  *)
(* a form older than its row, until it is counted again.                   *)
StockConserved ==
  (\A o \in Orders : ~Loose(o)) =>
    \A v \in Sizes \ clobbered : stock[v] + Reserved(v) = units[v]

(* Every use of the coupon is an order's, and however many checkouts were  *)
(* shown it was free, no more than max_usage of them got it.               *)
CouponCounted ==
  /\ used = Cardinality({o \in Orders : Placed(o) /\ order[o].discount # "none"})
  /\ used <= MaxUsage

(* Two tabs leave a customer one order awaiting payment, not two: the      *)
(* later checkout cancels the earlier order under the lock of the cart.    *)
OneAwaiting ==
  \A o, p \in Orders : /\ Awaiting(o) /\ Awaiting(p)
                      /\ order[o].customer = order[p].customer => o = p

(* The stock adds up and never runs below zero, whatever two checkouts,    *)
(* cancels and staff do to it.                                             *)
StockAddsUp == TypeOK /\ StockConserved

=============================================================================
