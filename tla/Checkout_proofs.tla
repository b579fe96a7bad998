--------------------------- MODULE Checkout_proofs ---------------------------
(***************************************************************************)
(* Theorems about Checkout, for any number of customers, requests, orders, *)
(* sizes and combos, any limit of the coupon, and any edits of staff: what *)
(* the transaction checks again under its locks is enough for the coupon   *)
(* and for the orders a customer may have awaiting payment, whatever was   *)
(* read before it.                                                         *)
(***************************************************************************)
EXTENDS Checkout, NumberFacts

Methods   == {"ONLINE", "COD"}
Discounts == {"none", "part", "full"}
Counted   == [Combos -> [Sizes -> Nat]]

ReqRows == [pc : {"idle", "read", "priced"}, customer : Customers \cup {Nobody},
            method : Methods, discount : Discounts,
            lines : [Lines -> 0..MaxQuantity], parts : Counted, snapshot : Counted]

OrderRows == [status : {"absent", "pending", "confirmed", "cancelled"},
              pay : {"pending", "paid", "rejected"}, customer : Customers \cup {Nobody},
              method : Methods, discount : Discounts,
              lines : [Lines -> 0..MaxQuantity], parts : Counted, snapshot : Counted]

CartsTyped    == cart \in [Customers -> [Lines -> 0..MaxQuantity]]
RecipesTyped  == recipe \in Counted /\ editing \in Counted
RequestsTyped == req \in [Requests -> ReqRows]
OrdersTyped   == order \in [Orders -> OrderRows]

(* What a request carries and what an order keeps has the shape of what    *)
(* they were read from.  The stock is not in it: that it does not run      *)
(* below zero is a matter of sums over the lines.                          *)
RowsTyped == CartsTyped /\ RecipesTyped /\ RequestsTyped /\ OrdersTyped

(* The orders that used the coupon.                                        *)
Redeemers == {o \in Orders : Placed(o) /\ order[o].discount # "none"}

CouponInv == RowsTyped /\ used \in Nat /\ CouponCounted

-----------------------------------------------------------------------------
(* A cart's combos are made of whole units.                                *)
LEMMA ComponentsType ==
  ASSUME RecipesTyped, NEW lines \in [Lines -> 0..MaxQuantity]
  PROVE  Components(lines) \in Counted
<1>1. ASSUME NEW k \in Combos, NEW v \in Sizes
      PROVE  lines[k] * recipe[k][v] \in Nat
  <2>1. lines[k] \in Nat
    BY BoundsAssumption DEF Lines
  <2>2. recipe[k][v] \in Nat
    BY DEF RecipesTyped, Counted
  <2> QED BY <2>1, <2>2
<1> QED BY <1>1 DEF Components, Counted

LEMMA NothingType == NoParts \in Counted /\ NoUnits \in [Sizes -> Nat] /\ Empty \in [Lines -> 0..MaxQuantity]
BY BoundsAssumption DEF NoParts, NoUnits, Empty, Counted

LEMMA IdleType == Idle \in ReqRows
BY NothingType DEF Idle, ReqRows, Methods, Discounts

-----------------------------------------------------------------------------
(***************************************************************************)
(* Types.                                                                  *)
(***************************************************************************)
LEMMA TypeInit == Init => RowsTyped
<1> SUFFICES ASSUME Init PROVE RowsTyped
  OBVIOUS
<1>1. CartsTyped
  BY NothingType DEF Init, CartsTyped
<1>2. recipe \in Counted
  BY RecipesAssumption, RecipeAssumption DEF Init, Counted
<1>3. editing \in Counted
  BY NothingType DEF Init, Counted
<1>4. RequestsTyped
  BY IdleType DEF Init, RequestsTyped
<1>5. Absent \in OrderRows
  BY NothingType DEF Absent, OrderRows, Methods, Discounts
<1>6. OrdersTyped
  BY <1>5 DEF Init, OrdersTyped
<1> QED BY <1>1, <1>2, <1>3, <1>4, <1>6 DEF RowsTyped, RecipesTyped

(* The request: each of its steps leaves rows of the same shape.           *)
LEMMA TypeRead ==
  ASSUME RowsTyped, NEW q \in Requests, NEW c \in Customers, NEW ch \in Tenders, ReadCart(q, c, ch[1], ch[2])
  PROVE  RowsTyped'
<1>1. cart[c] \in [Lines -> 0..MaxQuantity] /\ Components(cart[c]) \in Counted
  BY ComponentsType DEF RowsTyped, CartsTyped
<1>2. ch[1] \in Methods /\ ch[2] \in Discounts
  BY TendersAssumption DEF Methods, Discounts
<1>3. [pc |-> "read", customer |-> c, method |-> ch[1], discount |-> ch[2], lines |-> cart[c],
       parts |-> Components(cart[c]), snapshot |-> NoParts] \in ReqRows
  BY <1>1, <1>2, NothingType DEF ReqRows
<1>4. RequestsTyped'
  BY <1>3 DEF RowsTyped, RequestsTyped, ReadCart
<1> QED BY <1>4 DEF RowsTyped, ReadCart, CartsTyped, RecipesTyped, OrdersTyped, staff

LEMMA TypePrice ==
  ASSUME RowsTyped, NEW q \in Requests, PriceCart(q)
  PROVE  RowsTyped'
<1> DEFINE taken == IF req[q].discount = "full" THEN NoParts ELSE Components(req[q].lines)
<1>1. req[q] \in ReqRows
  BY DEF RowsTyped, RequestsTyped
<1>2. req[q].lines \in [Lines -> 0..MaxQuantity]
  BY <1>1 DEF ReqRows
<1>3. taken \in Counted
  BY <1>2, ComponentsType, NothingType DEF RowsTyped
<1>4. req' = [req EXCEPT ![q].pc = "priced", ![q].snapshot = taken]
  BY DEF PriceCart
<1> HIDE DEF taken
<1>5. [req[q] EXCEPT !.pc = "priced", !.snapshot = taken] \in ReqRows
  BY <1>1, <1>3 DEF ReqRows
<1>6. req' = [req EXCEPT ![q] = [req[q] EXCEPT !.pc = "priced", !.snapshot = taken]]
  BY <1>4 DEF RowsTyped, RequestsTyped
<1>7. RequestsTyped'
  BY <1>5, <1>6 DEF RowsTyped, RequestsTyped
<1> QED BY <1>7 DEF RowsTyped, PriceCart, CartsTyped, RecipesTyped, OrdersTyped, staff

LEMMA TypePlace ==
  ASSUME RowsTyped, NEW q \in Requests, NEW o \in Orders, PlaceOrder(q, o)
  PROVE  RowsTyped'
<1> DEFINE r == req[q]
<1>1. r \in ReqRows
  BY DEF RowsTyped, RequestsTyped
<1>2. NewOrder(r) \in OrderRows
  BY <1>1 DEF NewOrder, ReqRows, OrderRows
<1>3. ASSUME NEW x \in Orders PROVE order[x] \in OrderRows /\ Superseded(x) \in OrderRows
  BY DEF RowsTyped, OrdersTyped, Superseded, OrderRows
<1>4. order' = [x \in Orders |-> CASE x = o -> NewOrder(r)
                                   [] x \in Stale(r.customer) -> Superseded(x)
                                   [] OTHER -> order[x]]
  BY DEF PlaceOrder
<1>5. OrdersTyped'
  BY <1>2, <1>3, <1>4 DEF OrdersTyped
<1>6. CartsTyped'
  BY NothingType DEF RowsTyped, CartsTyped, PlaceOrder
<1>7. RequestsTyped'
  BY IdleType DEF RowsTyped, RequestsTyped, PlaceOrder
<1> QED BY <1>5, <1>6, <1>7 DEF RowsTyped, PlaceOrder, RecipesTyped, staff

(* The orders: a payment, a cancel.                                        *)
LEMMA TypeOrders ==
  ASSUME RowsTyped, NEW o \in Orders, PaymentCaptured(o) \/ Cancel(o)
  PROVE  RowsTyped'
<1>1. order[o] \in OrderRows
  BY DEF RowsTyped, OrdersTyped
<1>2. [order[o] EXCEPT !.status = "cancelled"] \in OrderRows
  BY <1>1 DEF OrderRows
<1>3. [[order[o] EXCEPT !.status = "confirmed"] EXCEPT !.pay = "paid"] \in OrderRows
  BY <1>1 DEF OrderRows
<1>4. CASE PaymentCaptured(o)
  <2>1. order' = [order EXCEPT ![o] = [[order[o] EXCEPT !.status = "confirmed"] EXCEPT !.pay = "paid"]]
    BY <1>4 DEF PaymentCaptured, RowsTyped, OrdersTyped
  <2>2. OrdersTyped'
    BY <1>3, <2>1 DEF RowsTyped, OrdersTyped
  <2>3. CartsTyped'
    BY <1>4, NothingType DEF PaymentCaptured, RowsTyped, CartsTyped
  <2> QED BY <1>4, <2>2, <2>3 DEF PaymentCaptured, RowsTyped, RequestsTyped, RecipesTyped, staff
<1>5. CASE Cancel(o)
  <2>1. OrdersTyped'
    BY <1>2, <1>5 DEF Cancel, RowsTyped, OrdersTyped
  <2> QED BY <1>5, <2>1 DEF Cancel, RowsTyped, CartsTyped, RequestsTyped, RecipesTyped, staff
<1> QED BY <1>4, <1>5

(* What customers do to their carts, and staff to the shop.                *)
Carts == \E c \in Customers :
  \/ \E l \in Lines, n \in 0..MaxQuantity : AddItem(c, l, n) \/ UpdateItem(c, l, n)
  \/ ClearCart(c) \/ \E lines \in Validated : SyncCart(c, lines)

Staff ==
  \/ \E v \in Sizes, n \in Counts : StockTake(v, n)
  \/ \E v \in Sizes : EditSize(v) \/ SaveSize(v)
  \/ \E k \in Combos, new \in Recipes : EditRecipe(k, new)
  \/ \E k \in Combos, v \in Sizes : WriteComponent(k, v)

LEMMA TypeCarts == RowsTyped /\ Carts => RowsTyped'
<1> SUFFICES ASSUME RowsTyped, NEW c \in Customers,
                    \/ \E l \in Lines, n \in 0..MaxQuantity : AddItem(c, l, n) \/ UpdateItem(c, l, n)
                    \/ ClearCart(c) \/ \E lines \in Validated : SyncCart(c, lines)
             PROVE  RowsTyped'
  BY DEF Carts
<1>1. UNCHANGED <<stock, used, req, order, staff>>
  BY DEF AddItem, UpdateItem, ClearCart, SyncCart
<1>2. cart[c] \in [Lines -> 0..MaxQuantity]
  BY DEF RowsTyped, CartsTyped
<1>3. CartsTyped'
  <2>1. ASSUME NEW l \in Lines, NEW n \in 0..MaxQuantity, AddItem(c, l, n) PROVE CartsTyped'
    <3>1. cart[c][l] + n \in 0..MaxQuantity
      BY <1>2, <2>1, BoundsAssumption DEF AddItem
    <3> QED BY <1>2, <2>1, <3>1 DEF AddItem, RowsTyped, CartsTyped
  <2>2. ASSUME NEW l \in Lines, NEW n \in 0..MaxQuantity, UpdateItem(c, l, n) PROVE CartsTyped'
    BY <1>2, <2>2 DEF UpdateItem, RowsTyped, CartsTyped
  <2>3. CASE ClearCart(c)
    BY <2>3, NothingType DEF ClearCart, RowsTyped, CartsTyped
  <2>4. ASSUME NEW lines \in Validated, SyncCart(c, lines) PROVE CartsTyped'
    BY <2>4 DEF SyncCart, Validated, RowsTyped, CartsTyped
  <2> QED BY <2>1, <2>2, <2>3, <2>4
<1> QED BY <1>1, <1>3 DEF RowsTyped, RecipesTyped, RequestsTyped, OrdersTyped, staff

LEMMA TypeStaff == RowsTyped /\ Staff => RowsTyped'
<1> SUFFICES ASSUME RowsTyped, Staff PROVE RowsTyped'
  OBVIOUS
<1>1. UNCHANGED <<cart, used, req, order>>
  BY DEF Staff, StockTake, EditSize, SaveSize, EditRecipe, WriteComponent
<1>2. RecipesTyped'
  <2>1. ASSUME NEW k \in Combos, NEW new \in Recipes, EditRecipe(k, new) PROVE RecipesTyped'
    <3>1. new \in [Sizes -> Nat]
      BY RecipesAssumption
    <3> QED BY <2>1, <3>1, NothingType DEF EditRecipe, RowsTyped, RecipesTyped, Counted
  <2>2. ASSUME NEW k \in Combos, NEW v \in Sizes, WriteComponent(k, v) PROVE RecipesTyped'
    BY <2>2 DEF WriteComponent, RowsTyped, RecipesTyped, Counted
  <2>3. CASE UNCHANGED <<recipe, editing>>
    BY <2>3 DEF RowsTyped, RecipesTyped
  <2> QED BY <2>1, <2>2, <2>3 DEF Staff, StockTake, EditSize, SaveSize
<1> QED BY <1>1, <1>2 DEF RowsTyped, CartsTyped, RequestsTyped, OrdersTyped

(* Next, by what a step is about.                                          *)
LEMMA Steps ==
  Next => \/ Carts \/ Staff
          \/ \E q \in Requests, c \in Customers, ch \in Tenders : ReadCart(q, c, ch[1], ch[2])
          \/ \E q \in Requests : PriceCart(q) \/ CheckoutFails(q)
          \/ \E q \in Requests, o \in Orders : PlaceOrder(q, o)
          \/ \E o \in Orders : PaymentCaptured(o) \/ Cancel(o)
BY DEF Next, Carts, Staff

LEMMA TypeStep == RowsTyped /\ [Next]_vars => RowsTyped'
<1> SUFFICES ASSUME RowsTyped, [Next]_vars PROVE RowsTyped'
  OBVIOUS
<1>1. ASSUME NEW q \in Requests, CheckoutFails(q) PROVE RowsTyped'
  BY <1>1, IdleType
  DEF CheckoutFails, RowsTyped, CartsTyped, RecipesTyped, RequestsTyped, OrdersTyped, staff
<1>2. CASE UNCHANGED vars
  BY <1>2 DEF vars, RowsTyped, CartsTyped, RecipesTyped, RequestsTyped, OrdersTyped
<1> QED
  BY <1>1, <1>2, Steps, TypeCarts, TypeStaff, TypeRead, TypePrice, TypePlace, TypeOrders

(* What a request carries and an order keeps is of its type, whatever is   *)
(* edited between its reads and its transaction (orders/views.py:600-700). *)
THEOREM RowsAreTyped == Spec => []RowsTyped
<1>1. Init => RowsTyped
  BY TypeInit
<1>2. RowsTyped /\ [Next]_vars => RowsTyped'
  BY TypeStep
<1> QED BY <1>1, <1>2, PTL DEF Spec

-----------------------------------------------------------------------------
(***************************************************************************)
(* The coupon.  A request was shown a use that may be gone when it places  *)
(* its order; the transaction looks again at the count under its lock.     *)
(***************************************************************************)
(* A step that leaves the count alone makes no redeemer and loses none.    *)
LEMMA CouponKept ==
  ASSUME CouponInv, RowsTyped', UNCHANGED used,
         \A o \in Orders : /\ order'[o].discount = order[o].discount
                           /\ order'[o].status = "absent" <=> order[o].status = "absent"
  PROVE  CouponInv'
<1>1. Redeemers' = Redeemers
  BY DEF Redeemers, Placed
<1> QED BY <1>1 DEF CouponInv, CouponCounted, Redeemers

LEMMA CouponPlace ==
  ASSUME CouponInv, NEW q \in Requests, NEW o \in Orders, PlaceOrder(q, o)
  PROVE  CouponInv'
<1> DEFINE r == req[q]
<1>1. RowsTyped'
  BY TypePlace DEF CouponInv
<1>2. r.discount \in Discounts
  BY DEF CouponInv, RowsTyped, RequestsTyped, ReqRows
<1>3. /\ order' = [x \in Orders |-> CASE x = o -> NewOrder(r)
                                      [] x \in Stale(r.customer) -> Superseded(x)
                                      [] OTHER -> order[x]]
      /\ ~Placed(o)
      /\ used' = used + UseOf(r.discount)
      /\ CouponHolds(r.discount)
  BY DEF PlaceOrder
<1>4. order'[o].discount = r.discount /\ order'[o].status # "absent"
  <2>1. o \notin Stale(r.customer)
    BY <1>3 DEF Stale, Awaiting, Placed
  <2>2. order'[o] = NewOrder(r)
    BY <1>3, <2>1
  <2> QED BY <2>2 DEF NewOrder
<1>5. ASSUME NEW x \in Orders, x # o
      PROVE  /\ order'[x].discount = order[x].discount
             /\ order'[x].status = "absent" <=> order[x].status = "absent"
  <2>1. order[x] \in OrderRows
    BY DEF CouponInv, RowsTyped, OrdersTyped
  <2>2. CASE x \in Stale(r.customer)
    <3>1. order'[x] = Superseded(x)
      BY <1>3, <1>5, <2>2
    <3>2. order[x].status = "pending"
      BY <2>2 DEF Stale, Awaiting
    <3> QED BY <2>1, <3>1, <3>2 DEF Superseded, OrderRows
  <2>3. CASE x \notin Stale(r.customer)
    BY <1>3, <1>5, <2>3
  <2> QED BY <2>2, <2>3
<1>6. IsFiniteSet(Redeemers)
  BY OrdersAssumption, FS_Subset DEF Redeemers
<1>7. used = Cardinality(Redeemers) /\ used <= MaxUsage /\ used \in Nat
  BY DEF CouponInv, CouponCounted, Redeemers
<1>8. CASE r.discount = "none"
  <2>1. Redeemers' = Redeemers
    BY <1>3, <1>4, <1>5, <1>8 DEF Redeemers, Placed
  <2>2. used' = used
    BY <1>3, <1>7, <1>8 DEF UseOf
  <2> QED BY <1>1, <1>7, <2>1, <2>2 DEF CouponInv, CouponCounted, Redeemers
<1>9. CASE r.discount # "none"
  <2>1. Redeemers' = Redeemers \cup {o} /\ o \notin Redeemers
    BY <1>3, <1>4, <1>5, <1>9 DEF Redeemers, Placed
  <2>2. Cardinality(Redeemers') = Cardinality(Redeemers) + 1
    BY <1>6, <2>1, FS_AddElement
  <2>3. used' = used + 1 /\ used < MaxUsage
    BY <1>3, <1>9 DEF UseOf, CouponHolds, Redeemable
  <2>4. used' = Cardinality(Redeemers') /\ used' <= MaxUsage /\ used' \in Nat
    BY <1>7, <2>2, <2>3, BoundsAssumption
  <2> QED BY <1>1, <2>4 DEF CouponInv, CouponCounted, Redeemers
<1> QED BY <1>8, <1>9

LEMMA CouponStep == CouponInv /\ [Next]_vars => CouponInv'
<1> SUFFICES ASSUME CouponInv, [Next]_vars PROVE CouponInv'
  OBVIOUS
<1>1. RowsTyped'
  BY TypeStep DEF CouponInv
<1>2. ASSUME NEW o \in Orders, PaymentCaptured(o) \/ Cancel(o) PROVE CouponInv'
  <2>1. ASSUME NEW x \in Orders
        PROVE  /\ order'[x].discount = order[x].discount
               /\ order'[x].status = "absent" <=> order[x].status = "absent"
    <3>1. order[x] \in OrderRows /\ order \in [Orders -> OrderRows]
      BY DEF CouponInv, RowsTyped, OrdersTyped
    <3>2. order[o].status \in {"pending", "confirmed"}
      BY <1>2 DEF PaymentCaptured, Cancel, Awaiting, Live
    <3> QED BY <1>2, <3>1, <3>2 DEF PaymentCaptured, Cancel, OrderRows
  <2>2. UNCHANGED used
    BY <1>2 DEF PaymentCaptured, Cancel
  <2> QED BY <1>1, <2>1, <2>2, CouponKept
<1>3. CASE UNCHANGED <<order, used>>
  BY <1>1, <1>3, CouponKept
<1>4. Carts \/ Staff => UNCHANGED <<order, used>>
  BY DEF Carts, Staff, AddItem, UpdateItem, ClearCart, SyncCart, StockTake, EditSize, SaveSize,
         EditRecipe, WriteComponent
<1>5. ASSUME NEW q \in Requests, PriceCart(q) \/ CheckoutFails(q)
      PROVE  UNCHANGED <<order, used>>
  BY <1>5 DEF PriceCart, CheckoutFails
<1>6. ASSUME NEW q \in Requests, NEW c \in Customers, NEW ch \in Tenders, ReadCart(q, c, ch[1], ch[2])
      PROVE  UNCHANGED <<order, used>>
  BY <1>6 DEF ReadCart
<1>7. CASE UNCHANGED vars
  BY <1>7, <1>3 DEF vars
<1> QED
  BY <1>2, <1>3, <1>4, <1>5, <1>6, <1>7, Steps, CouponPlace

(* Every use of the coupon is an order's, and no more than max_usage of    *)
(* the checkouts that were shown it free get it (orders/views.py:1069).    *)
THEOREM CouponIsCounted == Spec => []CouponCounted
<1>1. Init => CouponInv
  <2> SUFFICES ASSUME Init PROVE CouponInv
    OBVIOUS
  <2>1. {o \in Orders : Placed(o) /\ order[o].discount # "none"} = {}
    BY DEF Init, Placed, Absent
  <2>2. Cardinality({}) = 0
    BY FS_EmptySet
  <2> QED BY <2>1, <2>2, TypeInit, BoundsAssumption DEF Init, CouponInv, CouponCounted
<1>2. CouponInv /\ [Next]_vars => CouponInv'
  BY CouponStep
<1>3. CouponInv => CouponCounted
  BY DEF CouponInv
<1> QED BY <1>1, <1>2, <1>3, PTL DEF Spec

-----------------------------------------------------------------------------
(***************************************************************************)
(* Orders that await payment.  A checkout closes, under the lock of the    *)
(* cart, those its customer left; nothing else opens one.                  *)
(***************************************************************************)
LEMMA AwaitingPlace ==
  ASSUME RowsTyped, OneAwaiting, NEW q \in Requests, NEW o \in Orders, PlaceOrder(q, o)
  PROVE  OneAwaiting'
<1> DEFINE r == req[q]
<1>1. order' = [x \in Orders |-> CASE x = o -> NewOrder(r)
                                   [] x \in Stale(r.customer) -> Superseded(x)
                                   [] OTHER -> order[x]]
  BY DEF PlaceOrder
<1>2. order'[o].customer = r.customer
  <2>1. o \notin Stale(r.customer)
    BY DEF Stale, Awaiting, Placed, PlaceOrder
  <2>2. order'[o] = NewOrder(r)
    BY <1>1, <2>1
  <2> QED BY <2>2 DEF NewOrder
<1>3. ASSUME NEW x \in Orders, x # o, Awaiting(x)'
      PROVE  /\ order'[x] = order[x] /\ Awaiting(x)
             /\ order[x].customer # r.customer
  <2>1. CASE x \in Stale(r.customer)
    <3>1. order[x] \in OrderRows
      BY DEF RowsTyped, OrdersTyped
    <3>2. order'[x].status = "cancelled"
      BY <1>1, <1>3, <2>1, <3>1 DEF Superseded, OrderRows
    <3> QED BY <1>3, <3>2 DEF Awaiting
  <2>2. CASE x \notin Stale(r.customer)
    <3>1. order'[x] = order[x]
      BY <1>1, <1>3, <2>2
    <3>2. Awaiting(x)
      BY <1>3, <3>1 DEF Awaiting
    <3> QED BY <2>2, <3>1, <3>2 DEF Stale
  <2> QED BY <2>1, <2>2
<1>4. SUFFICES ASSUME NEW x \in Orders, NEW y \in Orders, Awaiting(x)', Awaiting(y)',
                      order'[x].customer = order'[y].customer
               PROVE  x = y
  BY DEF OneAwaiting
<1>5. CASE x # o /\ y # o
  BY <1>3, <1>4, <1>5 DEF OneAwaiting
<1>6. CASE x = o \/ y = o
  BY <1>2, <1>3, <1>4, <1>6
<1> QED BY <1>5, <1>6

(* Nothing else makes an order wait for its payment.                       *)
LEMMA AwaitingKept ==
  ASSUME OneAwaiting,
         \A x \in Orders : Awaiting(x)' => Awaiting(x) /\ order'[x].customer = order[x].customer
  PROVE  OneAwaiting'
BY DEF OneAwaiting

LEMMA AwaitingStep == RowsTyped /\ OneAwaiting /\ [Next]_vars => OneAwaiting'
<1> SUFFICES ASSUME RowsTyped, OneAwaiting, [Next]_vars PROVE OneAwaiting'
  OBVIOUS
<1>1. ASSUME NEW o \in Orders, PaymentCaptured(o) \/ Cancel(o) PROVE OneAwaiting'
  <2>1. ASSUME NEW x \in Orders, Awaiting(x)'
        PROVE  Awaiting(x) /\ order'[x].customer = order[x].customer
    <3>1. order[o] \in OrderRows /\ order \in [Orders -> OrderRows]
      BY DEF RowsTyped, OrdersTyped
    <3>2. order'[o].status # "pending"
      BY <1>1, <3>1 DEF PaymentCaptured, Cancel, OrderRows
    <3>3. x # o
      BY <2>1, <3>2 DEF Awaiting
    <3>4. order'[x] = order[x]
      BY <1>1, <3>1, <3>3 DEF PaymentCaptured, Cancel
    <3> QED BY <2>1, <3>4 DEF Awaiting
  <2> QED BY <2>1, AwaitingKept
<1>2. CASE UNCHANGED order
  BY <1>2, AwaitingKept DEF Awaiting
<1>3. Carts \/ Staff => UNCHANGED order
  BY DEF Carts, Staff, AddItem, UpdateItem, ClearCart, SyncCart, StockTake, EditSize, SaveSize,
         EditRecipe, WriteComponent
<1>4. ASSUME NEW q \in Requests, PriceCart(q) \/ CheckoutFails(q)
      PROVE  UNCHANGED order
  BY <1>4 DEF PriceCart, CheckoutFails
<1>5. ASSUME NEW q \in Requests, NEW c \in Customers, NEW ch \in Tenders, ReadCart(q, c, ch[1], ch[2])
      PROVE  UNCHANGED order
  BY <1>5 DEF ReadCart
<1>6. CASE UNCHANGED vars
  BY <1>6, <1>2 DEF vars
<1> QED
  BY <1>1, <1>2, <1>3, <1>4, <1>5, <1>6, Steps, AwaitingPlace

(* Two tabs of one customer leave one order awaiting payment               *)
(* (orders/views.py:811), although neither tab sees the other's.           *)
THEOREM OneIsAwaiting == Spec => []OneAwaiting
<1>1. Init => OneAwaiting
  BY DEF Init, OneAwaiting, Awaiting, Absent
<1>2. RowsTyped /\ OneAwaiting /\ [Next]_vars => OneAwaiting'
  BY AwaitingStep
<1> QED BY <1>1, <1>2, RowsAreTyped, PTL DEF Spec

-----------------------------------------------------------------------------
(***************************************************************************)
(* The stock.  A line of a combo that holds none of it draws nothing, so   *)
(* an order that is not loose gives back what it drew, and the units that  *)
(* live orders hold are a sum that a checkout or a cancel moves to or from *)
(* the shelf one order at a time.                                          *)
(***************************************************************************)
DrawsNothing(r) ==
  \A k \in Combos : r.lines[k] = 0 => r.parts[k] = NoUnits /\ r.snapshot[k] = NoUnits

LinesMatch ==
  /\ \A q \in Requests : DrawsNothing(req[q])
  /\ \A o \in Orders : DrawsNothing(order[o]) /\ (~Placed(o) => order[o].lines = Empty)

Shelved ==
  /\ stock \in [Sizes -> Nat] /\ units \in [Sizes -> Nat] /\ used \in Nat
  /\ form \in [Sizes -> [open : BOOLEAN, stock : Nat]]
  /\ clobbered \subseteq Sizes /\ edits \in 0..MaxEdits

StockInv == RowsTyped /\ LinesMatch /\ Shelved /\ StockConserved

(* The live orders of a table of orders, and the units of a size in them.  *)
LiveIn(table)   == {o \in Orders : table[o].status \in {"pending", "confirmed"}}
Draws(table, v) == [o \in Orders |-> Drawn(table[o].lines, table[o].parts, v)]
InOrders(table, v) == SumFunctionOnSet(Draws(table, v), LiveIn(table))

LEMMA DrawnType ==
  ASSUME NEW lines \in [Lines -> 0..MaxQuantity], NEW parts \in Counted, NEW v \in Sizes
  PROVE  Drawn(lines, parts, v) \in Nat
<1> DEFINE w == [k \in Combos |-> parts[k][v]]
<1>1. \A k \in Combos : w[k] \in Nat
  BY DEF Counted
<1>2. SumFunctionOnSet(w, Combos) \in Nat
  BY <1>1, OrdersAssumption, SumIsNatural
<1>3. SumFunction(w) = SumFunctionOnSet(w, Combos)
  BY DEF SumFunction
<1>4. lines[v] \in Nat
  BY BoundsAssumption DEF Lines
<1> QED BY <1>2, <1>3, <1>4 DEF Drawn

(* Two shapes of the parts that agree on a size draw the same of it.       *)
LEMMA DrawnAgrees ==
  ASSUME NEW lines \in [Lines -> 0..MaxQuantity], NEW parts \in Counted, NEW given \in Counted,
         NEW v \in Sizes, \A k \in Combos : given[k][v] = parts[k][v]
  PROVE  Drawn(lines, given, v) = Drawn(lines, parts, v)
<1>1. [k \in Combos |-> given[k][v]] = [k \in Combos |-> parts[k][v]]
  OBVIOUS
<1> QED BY <1>1 DEF Drawn

(* The way back (orders/views.py:95-160) of an order that is not loose.    *)
LEMMA CreditedExactly ==
  ASSUME RowsTyped, LinesMatch, NEW o \in Orders, NEW v \in Sizes
  PROVE  /\ Credited(o, v) \in Nat
         /\ ~Loose(o) => Credited(o, v) = Drawn(order[o].lines, order[o].parts, v)
<1>1. /\ order[o].lines \in [Lines -> 0..MaxQuantity]
      /\ order[o].parts \in Counted /\ order[o].snapshot \in Counted
  BY DEF RowsTyped, OrdersTyped, OrderRows
<1>2. Components(order[o].lines) \in Counted
  BY <1>1, ComponentsType DEF RowsTyped
<1> DEFINE given == [k \in Combos |-> IF order[o].snapshot[k] # NoUnits THEN order[o].snapshot[k]
                                       ELSE Components(order[o].lines)[k]]
<1>3. given \in Counted
  BY <1>1, <1>2 DEF Counted
<1>4. Credited(o, v) = Drawn(order[o].lines, given, v)
  BY DEF Credited
<1>5. ASSUME ~Loose(o), NEW k \in Combos PROVE given[k][v] = order[o].parts[k][v]
  <2>1. order[o].lines[k] \in Nat
    BY <1>1, BoundsAssumption DEF Lines
  <2>2. CASE order[o].lines[k] > 0
    BY <1>5, <2>2 DEF Loose
  <2>3. CASE order[o].lines[k] = 0
    <3>1. order[o].parts[k] = NoUnits /\ order[o].snapshot[k] = NoUnits
      BY <2>3 DEF LinesMatch, DrawsNothing
    <3>2. given[k] = Components(order[o].lines)[k]
      BY <3>1
    <3>3. Components(order[o].lines)[k][v] = 0 * recipe[k][v]
      BY <2>3 DEF Components
    <3>4. recipe[k][v] \in Nat
      BY DEF RowsTyped, RecipesTyped, Counted
    <3> QED BY <3>1, <3>2, <3>3, <3>4 DEF NoUnits
  <2> QED BY <2>1, <2>2, <2>3
<1> HIDE DEF given
<1>6. Credited(o, v) \in Nat
  BY <1>1, <1>3, <1>4, DrawnType
<1>7. ~Loose(o) => Credited(o, v) = Drawn(order[o].lines, order[o].parts, v)
  BY <1>1, <1>3, <1>4, <1>5, DrawnAgrees
<1> QED BY <1>6, <1>7

(* Reserved, as a sum over part of the orders.                             *)
LEMMA InOrdersIs ==
  ASSUME NEW table \in [Orders -> OrderRows], NEW v \in Sizes, NEW live, live = LiveIn(table)
  PROVE  /\ SumFunction([o \in live |-> Drawn(table[o].lines, table[o].parts, v)]) = InOrders(table, v)
         /\ InOrders(table, v) \in Nat
<1> DEFINE w == [o \in live |-> Drawn(table[o].lines, table[o].parts, v)]
<1>1. live \in SUBSET Orders /\ IsFiniteSet(live)
  BY OrdersAssumption, FS_Subset DEF LiveIn
<1>2. ASSUME NEW o \in Orders PROVE Draws(table, v)[o] \in Nat
  BY DrawnType DEF Draws, OrderRows
<1>3. \A o \in live : w[o] = Draws(table, v)[o]
  BY <1>1 DEF Draws
<1>4. Integral(Draws(table, v), live)
  BY <1>1, <1>2 DEF Integral
<1> HIDE DEF w
<1>5. SumFunctionOnSet(w, live) = SumFunctionOnSet(Draws(table, v), live)
  BY <1>1, <1>3, <1>4, SumAgrees
<1>6. SumFunction(w) = SumFunctionOnSet(w, live)
  BY DEF SumFunction, w
<1>7. SumFunctionOnSet(Draws(table, v), live) \in Nat
  BY <1>1, <1>2, SumIsNatural
<1> QED BY <1>5, <1>6, <1>7 DEF InOrders, w

LEMMA ReservedIs ==
  ASSUME RowsTyped, NEW v \in Sizes
  PROVE  Reserved(v) = InOrders(order, v)
<1>1. order \in [Orders -> OrderRows]
  BY DEF RowsTyped, OrdersTyped
<1>2. {x \in Orders : Live(x)} = LiveIn(order)
  BY DEF Live, LiveIn
<1> QED BY <1>1, <1>2, InOrdersIs DEF Reserved

LEMMA ReservedIsNext ==
  ASSUME RowsTyped', NEW v \in Sizes
  PROVE  Reserved(v)' = InOrders(order', v)
<1>1. order' \in [Orders -> OrderRows]
  BY DEF RowsTyped, OrdersTyped
<1>2. {x \in Orders : Live(x)'} = LiveIn(order')
  BY DEF Live, LiveIn
<1> QED BY <1>1, <1>2, InOrdersIs DEF Reserved

(* Orders set apart: those released, and the others, which are unchanged   *)
(* in the new table.                                                       *)
LEMMA InOrdersMoves ==
  ASSUME NEW old \in [Orders -> OrderRows], NEW new \in [Orders -> OrderRows], NEW v \in Sizes,
         NEW gone \in SUBSET LiveIn(old), NEW come \in SUBSET LiveIn(new),
         LiveIn(new) \ come = LiveIn(old) \ gone,
         \A o \in LiveIn(old) \ gone : new[o].lines = old[o].lines /\ new[o].parts = old[o].parts
  PROVE  /\ InOrders(new, v) + SumFunctionOnSet(Draws(old, v), gone)
               = InOrders(old, v) + SumFunctionOnSet(Draws(new, v), come)
         /\ SumFunctionOnSet(Draws(old, v), gone) \in Nat
         /\ SumFunctionOnSet(Draws(new, v), come) \in Nat
<1> DEFINE kept == LiveIn(old) \ gone
<1>1. ASSUME NEW table \in [Orders -> OrderRows], NEW part \in SUBSET Orders
      PROVE  /\ IsFiniteSet(part) /\ Integral(Draws(table, v), part)
             /\ \A o \in part : Draws(table, v)[o] \in Nat
  <2>1. \A o \in part : Draws(table, v)[o] \in Nat
    BY DrawnType DEF Draws, OrderRows
  <2> QED BY <2>1, OrdersAssumption, FS_Subset DEF Integral
<1>2. /\ LiveIn(old) \in SUBSET Orders /\ LiveIn(new) \in SUBSET Orders /\ kept \in SUBSET Orders
      /\ gone \in SUBSET Orders /\ come \in SUBSET Orders
  BY DEF LiveIn
<1>3. InOrders(old, v) = SumFunctionOnSet(Draws(old, v), gone) + SumFunctionOnSet(Draws(old, v), kept)
  BY <1>1, <1>2, SumInParts DEF InOrders
<1>4. InOrders(new, v) = SumFunctionOnSet(Draws(new, v), come) + SumFunctionOnSet(Draws(new, v), kept)
  <2>1. IsFiniteSet(LiveIn(new)) /\ Integral(Draws(new, v), LiveIn(new))
    BY <1>1, <1>2
  <2>2. SumFunctionOnSet(Draws(new, v), LiveIn(new))
          = SumFunctionOnSet(Draws(new, v), come) + SumFunctionOnSet(Draws(new, v), LiveIn(new) \ come)
    BY <2>1, SumInParts
  <2> QED BY <2>2 DEF InOrders
<1>5. SumFunctionOnSet(Draws(new, v), kept) = SumFunctionOnSet(Draws(old, v), kept)
  <2>1. \A o \in kept : Draws(new, v)[o] = Draws(old, v)[o]
    BY <1>2 DEF Draws
  <2> QED BY <1>1, <1>2, <2>1, SumAgrees
<1>6. /\ SumFunctionOnSet(Draws(old, v), gone) \in Nat /\ SumFunctionOnSet(Draws(old, v), kept) \in Nat
      /\ SumFunctionOnSet(Draws(new, v), come) \in Nat
  BY <1>1, <1>2, SumIsNatural
<1> QED BY <1>3, <1>4, <1>5, <1>6

(* What restore_order_stock puts on the shelf for some orders.             *)
LEMMA RestockedIs ==
  ASSUME RowsTyped, LinesMatch, Shelved, NEW released \in SUBSET Orders, NEW v \in Sizes
  PROVE  /\ Restocked(released)[v] \in Nat
         /\ (\A o \in released : ~Loose(o)) =>
               Restocked(released)[v] = stock[v] + SumFunctionOnSet(Draws(order, v), released)
<1> DEFINE w == [o \in released |-> Credited(o, v)]
<1>1. IsFiniteSet(released)
  BY OrdersAssumption, FS_Subset
<1>2. \A o \in released : w[o] \in Nat
  BY CreditedExactly
<1>3. Restocked(released)[v] = stock[v] + SumFunctionOnSet(w, released)
  BY DEF Restocked, SumFunction
<1>4. SumFunctionOnSet(w, released) \in Nat
  BY <1>1, <1>2, SumIsNatural
<1>5. stock[v] \in Nat
  BY DEF Shelved
<1>6. ASSUME \A o \in released : ~Loose(o)
      PROVE  SumFunctionOnSet(w, released) = SumFunctionOnSet(Draws(order, v), released)
  <2>1. \A o \in released : w[o] = Draws(order, v)[o]
    BY <1>6, CreditedExactly DEF Draws
  <2>2. Integral(Draws(order, v), released)
    BY <1>2, <2>1 DEF Integral
  <2> QED BY <1>1, <2>1, <2>2, SumAgrees
<1> QED BY <1>3, <1>4, <1>5, <1>6

-----------------------------------------------------------------------------
(* What an order is made of is fixed when it is placed.                    *)
Fixed(x) == /\ order'[x].lines = order[x].lines /\ order'[x].parts = order[x].parts
            /\ order'[x].snapshot = order[x].snapshot
            /\ order'[x].status = "absent" => order[x].status = "absent"

LEMMA FixedLines ==
  ASSUME LinesMatch, NEW x \in Orders, Fixed(x)
  PROVE  DrawsNothing(order'[x]) /\ (order'[x].status = "absent" => order'[x].lines = Empty)
BY DEF Fixed, LinesMatch, DrawsNothing, Placed

LEMMA NoneLoose ==
  ASSUME LinesMatch, NEW x \in Orders, ~Placed(x)
  PROVE  ~Loose(x)
BY DEF LinesMatch, Loose, Empty, Lines

LEMMA SettledFixed ==
  ASSUME RowsTyped, NEW o \in Orders, PaymentCaptured(o) \/ Cancel(o), NEW x \in Orders
  PROVE  Fixed(x)
<1>1. order[x] \in OrderRows /\ order \in [Orders -> OrderRows]
  BY DEF RowsTyped, OrdersTyped
<1>2. CASE PaymentCaptured(o)
  <2>1. order' = [order EXCEPT ![o] = [[order[o] EXCEPT !.status = "confirmed"] EXCEPT !.pay = "paid"]]
    BY <1>1, <1>2 DEF PaymentCaptured
  <2> QED BY <1>1, <2>1 DEF Fixed, OrderRows
<1>3. CASE Cancel(o)
  BY <1>1, <1>3 DEF Cancel, Fixed, OrderRows
<1> QED BY <1>2, <1>3

LEMMA NothingOfNone ==
  ASSUME RecipesTyped, NEW lines, NEW k \in Combos, lines[k] = 0
  PROVE  Components(lines)[k] = NoUnits /\ NoParts[k] = NoUnits
<1>1. \A v \in Sizes : recipe[k][v] \in Nat
  BY DEF RecipesTyped, Counted
<1>2. Components(lines)[k] = [v \in Sizes |-> 0 * recipe[k][v]]
  BY DEF Components
<1>3. [v \in Sizes |-> 0 * recipe[k][v]] = NoUnits
  BY <1>1 DEF NoUnits
<1> QED BY <1>2, <1>3 DEF NoParts

LEMMA LinesPlace ==
  ASSUME RowsTyped, LinesMatch, NEW q \in Requests, NEW o \in Orders, PlaceOrder(q, o)
  PROVE  LinesMatch'
<1> DEFINE r == req[q]
<1>1. DrawsNothing(Idle) /\ DrawsNothing(r)
  BY DEF DrawsNothing, LinesMatch, Idle, NoParts
<1>2. DrawsNothing(NewOrder(r))
  BY <1>1 DEF DrawsNothing, NewOrder
<1>3. order' = [x \in Orders |-> CASE x = o -> NewOrder(r)
                                   [] x \in Stale(r.customer) -> Superseded(x)
                                   [] OTHER -> order[x]]
  BY DEF PlaceOrder
<1>4. ASSUME NEW x \in Orders, x # o PROVE Fixed(x)
  <2>1. order[x] \in OrderRows
    BY DEF RowsTyped, OrdersTyped
  <2>2. CASE x \in Stale(r.customer)
    <3>1. order'[x] = Superseded(x)
      BY <1>3, <1>4, <2>2
    <3> QED BY <2>1, <3>1 DEF Superseded, OrderRows, Fixed
  <2>3. CASE x \notin Stale(r.customer)
    BY <1>3, <1>4, <2>3 DEF Fixed
  <2> QED BY <2>2, <2>3
<1>5. ASSUME NEW x \in Orders
      PROVE  DrawsNothing(order'[x]) /\ (order'[x].status = "absent" => order'[x].lines = Empty)
  <2>1. CASE x = o
    <3>1. order'[o] = NewOrder(r)
      <4>1. o \notin Stale(r.customer)
        BY DEF Stale, Awaiting, Placed, PlaceOrder
      <4> QED BY <1>3, <4>1
    <3> QED BY <1>2, <2>1, <3>1 DEF NewOrder
  <2> QED BY <1>4, <2>1, FixedLines
<1>6. \A x \in Requests : DrawsNothing(req'[x])
  BY <1>1 DEF PlaceOrder, RowsTyped, RequestsTyped, LinesMatch
<1> QED BY <1>5, <1>6 DEF LinesMatch, Placed

LEMMA LinesRead ==
  ASSUME RowsTyped, LinesMatch, NEW q \in Requests, NEW c \in Customers, NEW ch, ReadCart(q, c, ch[1], ch[2])
  PROVE  LinesMatch'
<1> DEFINE r == [pc |-> "read", customer |-> c, method |-> ch[1], discount |-> ch[2], lines |-> cart[c],
                 parts |-> Components(cart[c]), snapshot |-> NoParts]
<1>1. DrawsNothing(r)
  BY NothingOfNone DEF DrawsNothing, RowsTyped
<1>2. req' = [req EXCEPT ![q] = r] /\ UNCHANGED order
  BY DEF ReadCart
<1>3. \A x \in Requests : DrawsNothing(req'[x])
  BY <1>1, <1>2 DEF RowsTyped, RequestsTyped, LinesMatch
<1> QED BY <1>2, <1>3 DEF LinesMatch, Placed

LEMMA LinesPrice ==
  ASSUME RowsTyped, LinesMatch, NEW q \in Requests, PriceCart(q)
  PROVE  LinesMatch'
<1> DEFINE taken == IF req[q].discount = "full" THEN NoParts ELSE Components(req[q].lines)
           r == [req[q] EXCEPT !.pc = "priced", !.snapshot = taken]
<1>1. req[q] \in ReqRows /\ DrawsNothing(req[q])
  BY DEF RowsTyped, RequestsTyped, LinesMatch
<1>2. \A k \in Combos : req[q].lines[k] = 0 => taken[k] = NoUnits
  BY NothingOfNone DEF RowsTyped
<1>3. r.lines = req[q].lines /\ r.parts = req[q].parts /\ r.snapshot = taken
  BY <1>1 DEF ReqRows
<1>4. DrawsNothing(r)
  BY <1>1, <1>2, <1>3 DEF DrawsNothing
<1>5. UNCHANGED order
  BY DEF PriceCart
<1>6. req' = [req EXCEPT ![q] = r]
  BY DEF PriceCart, RowsTyped, RequestsTyped
<1> HIDE DEF r
<1>7. \A x \in Requests : DrawsNothing(req'[x])
  BY <1>4, <1>6 DEF RowsTyped, RequestsTyped, LinesMatch
<1> QED BY <1>5, <1>7 DEF LinesMatch, Placed

LEMMA LinesStep == RowsTyped /\ LinesMatch /\ [Next]_vars => LinesMatch'
<1> SUFFICES ASSUME RowsTyped, LinesMatch, [Next]_vars PROVE LinesMatch'
  OBVIOUS
<1>1. ASSUME NEW o \in Orders, PaymentCaptured(o) \/ Cancel(o) PROVE LinesMatch'
  <2>1. UNCHANGED req
    BY <1>1 DEF PaymentCaptured, Cancel
  <2>2. \A x \in Orders : Fixed(x)
    BY <1>1, SettledFixed
  <2> QED BY <2>1, <2>2, FixedLines DEF LinesMatch, Placed
<1>2. CASE UNCHANGED <<order, req>>
  BY <1>2 DEF LinesMatch, Placed
<1>3. Carts \/ Staff => UNCHANGED <<order, req>>
  BY DEF Carts, Staff, AddItem, UpdateItem, ClearCart, SyncCart, StockTake, EditSize, SaveSize,
         EditRecipe, WriteComponent
<1>4. ASSUME NEW q \in Requests, CheckoutFails(q) PROVE LinesMatch'
  <2>1. DrawsNothing(Idle)
    BY DEF DrawsNothing, Idle, NoParts
  <2> QED BY <1>4, <2>1 DEF CheckoutFails, RowsTyped, RequestsTyped, LinesMatch, Placed
<1>5. CASE UNCHANGED vars
  BY <1>5, <1>2 DEF vars
<1> QED
  BY <1>1, <1>2, <1>3, <1>4, <1>5, Steps, LinesRead, LinesPrice, LinesPlace

-----------------------------------------------------------------------------
LEMMA StockPlace ==
  ASSUME StockInv, NEW q \in Requests, NEW o \in Orders, PlaceOrder(q, o)
  PROVE  Shelved' /\ StockConserved'
<1> DEFINE r == req[q]
           gone == Stale(r.customer)
<1>1. RowsTyped /\ LinesMatch /\ Shelved /\ StockConserved
  BY DEF StockInv
<1>2. RowsTyped'
  BY <1>1, TypePlace
<1>3. /\ order' = [x \in Orders |-> CASE x = o -> NewOrder(r)
                                      [] x \in gone -> Superseded(x)
                                      [] OTHER -> order[x]]
      /\ ~Placed(o) /\ Suffices(Restocked(gone), r)
      /\ stock' = Taken(Restocked(gone), r)
      /\ used' = used + UseOf(r.discount)
      /\ UNCHANGED staff
  BY DEF PlaceOrder
<1>4. /\ order \in [Orders -> OrderRows] /\ order' \in [Orders -> OrderRows] /\ r \in ReqRows
      /\ r.lines \in [Lines -> 0..MaxQuantity] /\ r.parts \in Counted
  BY <1>1, <1>2 DEF RowsTyped, OrdersTyped, RequestsTyped, ReqRows
<1>5. o \notin gone /\ order'[o] = NewOrder(r) /\ o \in LiveIn(order') /\ o \notin LiveIn(order)
  <2>1. o \notin gone /\ o \notin LiveIn(order)
    BY <1>3 DEF Stale, Awaiting, Placed, LiveIn
  <2>2. order'[o] = NewOrder(r)
    BY <1>3, <2>1
  <2>3. order'[o].status \in {"pending", "confirmed"}
    BY <2>2 DEF NewOrder
  <2> QED BY <2>1, <2>2, <2>3 DEF LiveIn
<1>6. ASSUME NEW x \in Orders, x # o
      PROVE  /\ Fixed(x)
             /\ x \in gone => order'[x].status = "cancelled" /\ x \in LiveIn(order)
             /\ x \notin gone => order'[x] = order[x]
  <2>1. order[x] \in OrderRows
    BY <1>4
  <2>2. CASE x \in gone
    <3>1. order'[x] = Superseded(x)
      BY <1>3, <1>6, <2>2
    <3>2. x \in LiveIn(order)
      BY <2>2 DEF Stale, Awaiting, LiveIn
    <3> QED BY <2>1, <2>2, <3>1, <3>2 DEF Superseded, OrderRows, Fixed
  <2>3. CASE x \notin gone
    BY <1>3, <1>6, <2>3 DEF Fixed
  <2> QED BY <2>2, <2>3
<1>7. LiveIn(order') \ {o} = LiveIn(order) \ gone
  <2>1. ASSUME NEW x \in Orders, x # o
        PROVE  x \in LiveIn(order') <=> x \in LiveIn(order) /\ x \notin gone
    BY <1>6, <2>1 DEF LiveIn
  <2>2. LiveIn(order') \subseteq Orders /\ LiveIn(order) \subseteq Orders
    BY DEF LiveIn
  <2> QED BY <1>5, <2>1, <2>2
<1>8. gone \in SUBSET LiveIn(order) /\ gone \in SUBSET Orders
  BY DEF Stale, Awaiting, LiveIn
<1>9. ASSUME NEW v \in Sizes
      PROVE  /\ Drawn(r.lines, r.parts, v) \in Nat /\ Restocked(gone)[v] \in Nat
             /\ stock'[v] = Restocked(gone)[v] - Drawn(r.lines, r.parts, v)
             /\ stock'[v] \in Nat
  <2>1. Drawn(r.lines, r.parts, v) \in Nat
    BY <1>4, DrawnType
  <2>2. Restocked(gone)[v] \in Nat
    BY <1>1, <1>8, RestockedIs
  <2>3. stock'[v] = Restocked(gone)[v] - Drawn(r.lines, r.parts, v)
    BY <1>3 DEF Taken
  <2>4. Drawn(r.lines, r.parts, v) <= Restocked(gone)[v]
    BY <1>3 DEF Suffices
  <2> QED BY <2>1, <2>2, <2>3, <2>4
<1>10. Shelved'
  <2>1. stock' \in [Sizes -> Nat]
    <3>1. stock' = [v \in Sizes |-> Restocked(gone)[v] - Drawn(r.lines, r.parts, v)]
      BY <1>3 DEF Taken
    <3> QED BY <1>9, <3>1
  <2>2. used' \in Nat
    BY <1>1, <1>3 DEF Shelved, UseOf
  <2> QED BY <1>1, <1>3, <2>1, <2>2 DEF Shelved, staff
<1>11. ASSUME \A x \in Orders : ~Loose(x)', NEW v \in Sizes \ clobbered
       PROVE  stock'[v] + Reserved(v)' = units[v]
  <2>1. ASSUME NEW x \in Orders PROVE ~Loose(x)
    <3>1. CASE x = o
      BY <1>1, <1>3, <3>1, NoneLoose
    <3>2. CASE x # o
      <4>1. Fixed(x) /\ ~Loose(x)'
        BY <1>6, <1>11, <3>2
      <4> QED BY <4>1 DEF Fixed, Loose
    <3> QED BY <3>1, <3>2
  <2>2. stock[v] + InOrders(order, v) = units[v]
    BY <1>1, <2>1, ReservedIs DEF StockConserved
  <2>3. Restocked(gone)[v] = stock[v] + SumFunctionOnSet(Draws(order, v), gone)
    BY <1>1, <1>8, <2>1, RestockedIs
  <2>4. SumFunctionOnSet(Draws(order', v), {o}) = Drawn(r.lines, r.parts, v)
    <3>1. Draws(order', v)[o] = Drawn(r.lines, r.parts, v)
      BY <1>5 DEF Draws, NewOrder
    <3>2. IsFiniteSet({o}) /\ Integral(Draws(order', v), {o}) /\ {o} \ {o} = {}
      <4>1. IsFiniteSet({o}) /\ {o} \ {o} = {}
        BY FS_Singleton
      <4>2. Integral(Draws(order', v), {o})
        BY <1>9, <3>1 DEF Integral
      <4> QED BY <4>1, <4>2
    <3>3. SumFunctionOnSet(Draws(order', v), {o}) = Draws(order', v)[o] + SumFunctionOnSet(Draws(order', v), {o} \ {o})
      BY <3>2, SumWithout
    <3>4. SumFunctionOnSet(Draws(order', v), {o} \ {o}) = 0
      BY <3>2, SumOfNone
    <3> QED BY <1>9, <3>1, <3>3, <3>4
  <2>5. /\ InOrders(order', v) + SumFunctionOnSet(Draws(order, v), gone)
              = InOrders(order, v) + SumFunctionOnSet(Draws(order', v), {o})
        /\ SumFunctionOnSet(Draws(order, v), gone) \in Nat
    <3>1. \A x \in LiveIn(order) \ gone : order'[x].lines = order[x].lines /\ order'[x].parts = order[x].parts
      BY <1>5, <1>6 DEF Fixed, LiveIn
    <3>2. {o} \in SUBSET LiveIn(order')
      BY <1>5
    <3> QED BY <1>4, <1>7, <1>8, <3>1, <3>2, InOrdersMoves
  <2>6. Reserved(v)' = InOrders(order', v) /\ InOrders(order', v) \in Nat /\ InOrders(order, v) \in Nat
    BY <1>2, <1>4, ReservedIsNext, InOrdersIs
  <2>7. stock[v] \in Nat
    BY <1>1 DEF Shelved
  <2> QED BY <1>9, <2>2, <2>3, <2>4, <2>5, <2>6, <2>7
<1>12. StockConserved'
  BY <1>3, <1>11 DEF StockConserved, staff
<1> QED BY <1>10, <1>12

(* A cancel (orders/views.py:1461) gives its units back to the shelf, a    *)
(* payment moves none.                                                     *)
LEMMA StockSettled ==
  ASSUME StockInv, NEW o \in Orders, PaymentCaptured(o) \/ Cancel(o)
  PROVE  Shelved' /\ StockConserved'
<1> DEFINE gone == IF Cancel(o) THEN {o} ELSE {}
<1>1. RowsTyped /\ LinesMatch /\ Shelved /\ StockConserved
  BY DEF StockInv
<1>2. RowsTyped'
  BY <1>1, TypeOrders
<1>3. order \in [Orders -> OrderRows] /\ order' \in [Orders -> OrderRows]
  BY <1>1, <1>2 DEF RowsTyped, OrdersTyped
<1>4. UNCHANGED <<used, staff>>
  BY DEF PaymentCaptured, Cancel
<1>5. \A x \in Orders : Fixed(x)
  BY <1>1, SettledFixed
<1>6. CASE Cancel(o)
  <2>1. \A x \in Orders : order'[x].status = IF x = o THEN "cancelled" ELSE order[x].status
    BY <1>3, <1>6 DEF Cancel, OrderRows
  <2>2. stock' = Restocked({o}) /\ o \in LiveIn(order)
    BY <1>6 DEF Cancel, LiveIn, Live
  <2>3. LiveIn(order') \ {} = LiveIn(order) \ {o}
    BY <2>1 DEF LiveIn
  <2>4. stock' \in [Sizes -> Nat]
    <3>1. \A v \in Sizes : Restocked({o})[v] \in Nat
      BY <1>1, RestockedIs
    <3> QED BY <2>2, <3>1 DEF Restocked
  <2>5. Shelved'
    BY <1>1, <1>4, <2>4 DEF Shelved, staff
  <2>6. ASSUME \A x \in Orders : ~Loose(x)', NEW v \in Sizes \ clobbered
        PROVE  stock'[v] + Reserved(v)' = units[v]
    <3>1. \A x \in Orders : ~Loose(x)
      BY <1>5, <2>6 DEF Fixed, Loose
    <3>2. stock[v] + InOrders(order, v) = units[v]
      BY <1>1, <3>1, ReservedIs DEF StockConserved
    <3>3. stock'[v] = stock[v] + SumFunctionOnSet(Draws(order, v), {o})
      BY <1>1, <2>2, <3>1, RestockedIs
    <3>4. /\ InOrders(order', v) + SumFunctionOnSet(Draws(order, v), {o})
                = InOrders(order, v) + SumFunctionOnSet(Draws(order', v), {})
          /\ SumFunctionOnSet(Draws(order, v), {o}) \in Nat
      <4>1. \A x \in LiveIn(order) \ {o} : order'[x].lines = order[x].lines /\ order'[x].parts = order[x].parts
        BY <1>5 DEF Fixed, LiveIn
      <4>2. {o} \in SUBSET LiveIn(order) /\ {} \in SUBSET LiveIn(order')
        BY <2>2
      <4> QED BY <1>3, <2>3, <4>1, <4>2, InOrdersMoves
    <3>5. SumFunctionOnSet(Draws(order', v), {}) = 0
      BY SumOfNone
    <3>6. Reserved(v)' = InOrders(order', v) /\ InOrders(order', v) \in Nat /\ InOrders(order, v) \in Nat
      BY <1>2, <1>3, ReservedIsNext, InOrdersIs
    <3>7. stock[v] \in Nat
      BY <1>1 DEF Shelved
    <3> QED BY <3>2, <3>3, <3>4, <3>5, <3>6, <3>7
  <2>7. StockConserved'
    BY <1>4, <2>6 DEF StockConserved, staff
  <2> QED BY <2>5, <2>7
<1>7. CASE PaymentCaptured(o)
  <2>1. order' = [order EXCEPT ![o] = [[order[o] EXCEPT !.status = "confirmed"] EXCEPT !.pay = "paid"]]
    BY <1>3, <1>7 DEF PaymentCaptured
  <2>2. UNCHANGED stock /\ o \in LiveIn(order)
    BY <1>7 DEF PaymentCaptured, Awaiting, LiveIn
  <2>3. \A x \in Orders : order'[x].status = IF x = o THEN "confirmed" ELSE order[x].status
    BY <1>3, <2>1 DEF OrderRows
  <2>4. LiveIn(order') \ {} = LiveIn(order) \ {}
    BY <2>2, <2>3 DEF LiveIn
  <2>5. Shelved'
    BY <1>1, <1>4, <2>2 DEF Shelved, staff
  <2>6. ASSUME \A x \in Orders : ~Loose(x)', NEW v \in Sizes \ clobbered
        PROVE  stock'[v] + Reserved(v)' = units[v]
    <3>1. \A x \in Orders : ~Loose(x)
      BY <1>5, <2>6 DEF Fixed, Loose
    <3>2. stock[v] + InOrders(order, v) = units[v]
      BY <1>1, <3>1, ReservedIs DEF StockConserved
    <3>3. InOrders(order', v) + SumFunctionOnSet(Draws(order, v), {})
            = InOrders(order, v) + SumFunctionOnSet(Draws(order', v), {})
      <4>1. \A x \in LiveIn(order) \ {} : order'[x].lines = order[x].lines /\ order'[x].parts = order[x].parts
        BY <1>5 DEF Fixed, LiveIn
      <4>2. {} \in SUBSET LiveIn(order) /\ {} \in SUBSET LiveIn(order')
        OBVIOUS
      <4> QED BY <1>3, <2>4, <4>1, <4>2, InOrdersMoves
    <3>4. SumFunctionOnSet(Draws(order', v), {}) = 0 /\ SumFunctionOnSet(Draws(order, v), {}) = 0
      BY SumOfNone
    <3>5. Reserved(v)' = InOrders(order', v) /\ InOrders(order', v) \in Nat /\ InOrders(order, v) \in Nat
      BY <1>2, <1>3, ReservedIsNext, InOrdersIs
    <3>6. stock'[v] = stock[v]
      BY <2>2
    <3> QED BY <3>2, <3>3, <3>4, <3>5, <3>6
  <2>7. StockConserved'
    BY <1>4, <2>6 DEF StockConserved, staff
  <2> QED BY <2>5, <2>7
<1> QED BY <1>6, <1>7

(* Staff.  A stock take counts the shelf; a form saved over a newer row    *)
(* puts an older count back, and is set apart until the next count.        *)
LEMMA StockStaff ==
  ASSUME StockInv, Staff
  PROVE  Shelved' /\ StockConserved'
<1>1. RowsTyped /\ LinesMatch /\ Shelved /\ StockConserved
  BY DEF StockInv
<1>2. UNCHANGED <<order, used>>
  BY DEF Staff, StockTake, EditSize, SaveSize, EditRecipe, WriteComponent
<1>3. ASSUME NEW v \in Sizes
      PROVE  /\ Reserved(v)' = Reserved(v) /\ Reserved(v) \in Nat
  <2>1. order \in [Orders -> OrderRows]
    BY <1>1 DEF RowsTyped, OrdersTyped
  <2>2. Reserved(v) \in Nat
    BY <1>1, <2>1, ReservedIs, InOrdersIs
  <2>3. Reserved(v)' = Reserved(v)
    BY <1>2 DEF Reserved, Live
  <2> QED BY <2>2, <2>3
<1>4. \A x \in Orders : Loose(x)' <=> Loose(x)
  BY <1>2 DEF Loose
<1>5. \A kind : Begin(kind) => edits' \in 0..MaxEdits
  BY <1>1, EditsAssumption DEF Begin, Shelved
<1>6. ASSUME NEW v \in Sizes, NEW n \in Counts, StockTake(v, n)
      PROVE  Shelved' /\ StockConserved'
  <2>1. n \in Nat /\ n + Reserved(v) \in Nat
    BY <1>3, StockAssumption
  <2>2. /\ stock' = [stock EXCEPT ![v] = n] /\ units' = [units EXCEPT ![v] = n + Reserved(v)]
        /\ clobbered' = clobbered \ {v} /\ Begin("count") /\ UNCHANGED <<form, used>>
    BY <1>6 DEF StockTake
  <2>3. Shelved'
    BY <1>1, <1>5, <2>1, <2>2 DEF Shelved
  <2>4. ASSUME \A x \in Orders : ~Loose(x), NEW s \in Sizes \ clobbered'
        PROVE  stock'[s] + Reserved(s) = units'[s]
    <3>1. CASE s = v
      BY <1>1, <2>1, <2>2, <3>1 DEF Shelved
    <3>2. CASE s # v
      BY <1>1, <2>2, <2>4, <3>2 DEF Shelved, StockConserved
    <3> QED BY <3>1, <3>2
  <2> QED BY <1>3, <1>4, <2>3, <2>4 DEF StockConserved
<1>7. ASSUME NEW v \in Sizes, SaveSize(v)
      PROVE  Shelved' /\ StockConserved'
  <2>1. /\ stock' = [stock EXCEPT ![v] = form[v].stock]
        /\ clobbered' = IF form[v].stock = stock[v] THEN clobbered ELSE clobbered \cup {v}
        /\ form' = [form EXCEPT ![v] = Closed] /\ UNCHANGED <<units, edits>>
    BY <1>7 DEF SaveSize
  <2>2. Shelved'
    BY <1>1, <1>2, <2>1 DEF Shelved, Closed
  <2>3. ASSUME NEW s \in Sizes \ clobbered' PROVE s \notin clobbered /\ stock'[s] = stock[s]
    BY <1>1, <2>1 DEF Shelved
  <2>4. UNCHANGED units
    BY <2>1
  <2> QED BY <1>1, <1>3, <1>4, <2>2, <2>3, <2>4 DEF StockConserved
<1>8. CASE UNCHANGED <<stock, units, clobbered>> /\ form' \in [Sizes -> [open : BOOLEAN, stock : Nat]]
           /\ edits' \in 0..MaxEdits
  <2>1. Shelved'
    BY <1>1, <1>2, <1>8 DEF Shelved
  <2> QED BY <1>1, <1>3, <1>4, <1>8, <2>1 DEF StockConserved
<1>9. ASSUME NEW v \in Sizes, EditSize(v)
      PROVE  form' \in [Sizes -> [open : BOOLEAN, stock : Nat]]
  BY <1>1, <1>9 DEF EditSize, Shelved
<1>10. ASSUME NEW v \in Sizes, EditSize(v) PROVE Shelved' /\ StockConserved'
  BY <1>5, <1>8, <1>9, <1>10 DEF EditSize
<1>11. ASSUME NEW k \in Combos, NEW new \in Recipes, EditRecipe(k, new) PROVE Shelved' /\ StockConserved'
  BY <1>1, <1>5, <1>8, <1>11 DEF EditRecipe, Shelved
<1>12. ASSUME NEW k \in Combos, NEW v \in Sizes, WriteComponent(k, v) PROVE Shelved' /\ StockConserved'
  BY <1>1, <1>8, <1>12 DEF WriteComponent, Shelved
<1> QED BY <1>6, <1>7, <1>10, <1>11, <1>12 DEF Staff

LEMMA StockStep == StockInv /\ [Next]_vars => StockInv'
<1> SUFFICES ASSUME StockInv, [Next]_vars PROVE StockInv'
  OBVIOUS
<1>1. RowsTyped' /\ LinesMatch'
  BY TypeStep, LinesStep DEF StockInv
<1>2. CASE UNCHANGED <<stock, order, used, units, clobbered, form, edits>>
  <2>1. \A v \in Sizes : Reserved(v)' = Reserved(v)
    BY <1>2 DEF Reserved, Live
  <2>2. \A x \in Orders : Loose(x)' <=> Loose(x)
    BY <1>2 DEF Loose
  <2> QED BY <1>1, <1>2, <2>1, <2>2 DEF StockInv, Shelved, StockConserved
<1>3. Carts => UNCHANGED <<stock, order, used, units, clobbered, form, edits>>
  BY DEF Carts, AddItem, UpdateItem, ClearCart, SyncCart, staff
<1>4. ASSUME NEW q \in Requests, PriceCart(q) \/ CheckoutFails(q)
      PROVE  UNCHANGED <<stock, order, used, units, clobbered, form, edits>>
  BY <1>4 DEF PriceCart, CheckoutFails, staff
<1>5. ASSUME NEW q \in Requests, NEW c \in Customers, NEW ch \in Tenders, ReadCart(q, c, ch[1], ch[2])
      PROVE  UNCHANGED <<stock, order, used, units, clobbered, form, edits>>
  BY <1>5 DEF ReadCart, staff
<1>6. CASE UNCHANGED vars
  BY <1>6, <1>2 DEF vars
<1>7. Shelved' /\ StockConserved' => StockInv'
  BY <1>1 DEF StockInv
<1> QED
  BY <1>2, <1>3, <1>4, <1>5, <1>6, <1>7, Steps, StockPlace, StockSettled, StockStaff

(* However checkouts, superseding ones, cancels, stock takes and edits of  *)
(* recipes overlap, the units of a size are on its shelf or in live        *)
(* orders and the shelf never runs below zero (the transaction of          *)
(* OrderViewSet.create, restore_order_stock).                              *)
THEOREM StockIsKept == Spec => []StockAddsUp
<1>1. Init => StockInv
  <2> SUFFICES ASSUME Init PROVE StockInv
    OBVIOUS
  <2>1. RowsTyped
    BY TypeInit
  <2>2. DrawsNothing(Idle) /\ DrawsNothing(Absent) /\ Absent.lines = Empty
    BY DEF DrawsNothing, Idle, Absent, NoParts
  <2>3. LinesMatch
    BY <2>2 DEF Init, LinesMatch
  <2>4. Shelved
    BY StockAssumption, EditsAssumption DEF Init, Shelved, Closed
  <2>5. ASSUME NEW v \in Sizes PROVE stock[v] + Reserved(v) = units[v]
    <3>1. LiveIn(order) = {}
      BY DEF Init, LiveIn, Absent
    <3>2. InOrders(order, v) = 0
      BY <3>1, SumOfNone DEF InOrders
    <3>3. stock[v] \in Nat /\ stock[v] = units[v]
      BY StockAssumption DEF Init
    <3> QED BY <2>1, <3>2, <3>3, ReservedIs
  <2> QED BY <2>1, <2>3, <2>4, <2>5 DEF StockInv, StockConserved
<1>2. StockInv /\ [Next]_vars => StockInv'
  BY StockStep
<1>3. StockInv => StockAddsUp
  <2> SUFFICES ASSUME StockInv PROVE StockAddsUp
    OBVIOUS
  <2>1. \A q \in Requests : req[q].pc \in {"idle", "read", "priced"}
    BY DEF StockInv, RowsTyped, RequestsTyped, ReqRows
  <2>2. \A o \in Orders : /\ order[o].status \in {"absent", "pending", "confirmed", "cancelled"}
                           /\ order[o].lines \in [Lines -> 0..MaxQuantity]
    BY DEF StockInv, RowsTyped, OrdersTyped, OrderRows
  <2>3. recipe \in [Combos -> [Sizes -> Nat]] /\ editing \in [Combos -> [Sizes -> Nat]]
        /\ cart \in [Customers -> [Lines -> 0..MaxQuantity]]
    BY DEF StockInv, RowsTyped, RecipesTyped, CartsTyped, Counted
  <2>4. TypeOK
    BY <2>1, <2>2, <2>3 DEF StockInv, Shelved, TypeOK
  <2> QED BY <2>4 DEF StockInv, StockAddsUp
<1> QED BY <1>1, <1>2, <1>3, PTL DEF Spec

=============================================================================
