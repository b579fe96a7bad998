------------------------------ MODULE Pricing ------------------------------
(* The money of one order, to the paisa: the quotes a cart is shown, the bill *)
(* checkout writes, the invoice frozen from it, refunds and the tax they give *)
(* back, and the credit notes that reverse the invoice.                       *)
(*                                                                            *)
(* When documents are due, lost and issued again is TaxDocuments'; how an     *)
(* order gets paid is OrderPayments'. Here both simply happen, so that the    *)
(* figures can be followed from the shelf to the tax return while staff edit  *)
(* the catalogue, correct the place of supply and move the shop itself.       *)
EXTENDS Money, Sequences

CONSTANTS
  Goods,          \* sizes of products: positive numbers, in the order of their keys
  Combos,         \* bundles of them, numbers too
  Shelves,        \* what the catalogue may hold at first
  Recipes,        \* what a bundle may be changed to hold
  Rates, Prices, Headings,  \* what staff may set a rate, a price and an HSN code to
  Coupons, Carts, RefundAmounts,
  FreeFrom, Fee,  \* spices_backend/limits.py
  ShippingRate, DefaultRate,
  Places, Homes,  \* states of the country, and where the shop may start
  MaxRefunds, MaxEdits, MaxMonth

VARIABLES shelf, home, quote, order, invoice, refunds, notes, month, edits
vars == <<shelf, home, quote, order, invoice, refunds, notes, month, edits>>

Items == Goods \union Combos
None == [none |-> TRUE]
NoRate == 101                       \* the row of what no line accounts for; sorts last
NoCoupon == [kind |-> "none", value |-> 0, minimum |-> 0]

\* What the columns admit: nothing costs less than nothing, rates are percents.
Percent == 0 .. 100
ShelfRows == [mrp : [Goods -> Nat], offer : [Items -> Nat], rate : [Goods -> Percent],
              hsn : [Goods -> STRING], recipe : [Combos -> [Goods -> Nat]]]
CouponRows == {NoCoupon} \union [kind : {"percent"}, value : 1 .. 100, minimum : Nat]
                         \union [kind : {"fixed"}, value : Nat, minimum : Nat]

\* What a combo line was made of (OrderItemComponent), each at the rate and HSN code it
\* was billed with; of a line of few paise one may be given less than nothing.
PartRows == [count : Nat, amount : Int, rate : Percent, hsn : STRING, tax : Nat]

ASSUME PricingAssumption ==
  /\ IsFiniteSet(Items) /\ Items \subseteq Nat \ {0} /\ Goods \intersect Combos = {}
  /\ Shelves \subseteq ShelfRows /\ Carts \subseteq [Items -> Nat] /\ Coupons \subseteq CouponRows
  /\ Recipes \subseteq [Goods -> Nat] /\ Prices \subseteq Nat
  /\ Headings \subseteq STRING /\ Rates \subseteq Percent /\ ShippingRate \in Percent /\ DefaultRate \in Percent
  /\ RefundAmounts \subseteq Nat \ {0} /\ FreeFrom \in Nat /\ Fee \in Nat
  /\ Homes \subseteq Places
  /\ MaxRefunds \in Nat /\ MaxEdits \in Nat /\ MaxMonth \in Nat \ {0}

----------------------------------------------------------------------------
(* The shelf. The MRP of a combo is the sum of its components, never stored.  *)
Holds(c) == {g \in Goods : shelf.recipe[c][g] > 0}
Weights(c) == [g \in Holds(c) |-> shelf.mrp[g] * shelf.recipe[c][g]]
ListPrice(i) == IF i \in Goods THEN shelf.mrp[i] ELSE Total(Weights(i))
UnitPrice(i) == IF shelf.offer[i] > 0 THEN shelf.offer[i] ELSE ListPrice(i)

Lines(cart) == {i \in Items : cart[i] > 0}
LineTotal(cart, i) == UnitPrice(i) * cart[i]
Subtotal(cart) == Total([i \in Lines(cart) |-> LineTotal(cart, i)])

Shipping(goods) == IF goods >= FreeFrom THEN 0 ELSE Fee
ShippingTax(fee) == AddTax(fee, ShippingRate)

\* The share of the discount each line bears. `up` says where a tie falls.
Tilt(near, up) == IF up THEN Max(near) ELSE Min(near)
Cuts(cart, discount, up) ==
  [i \in Lines(cart) |->
    IF discount = 0 THEN 0
    ELSE Tilt(Nearest(LineTotal(cart, i) * discount, Subtotal(cart)), up[i])]

\* The components of a combo line of this amount, each taxed at its own rate.
Parts(c, amount, count) ==
  LET split == Allocate(Weights(c), amount)
  IN  [g \in DOMAIN split |->
        [count |-> shelf.recipe[c][g] * count, amount |-> split[g], rate |-> shelf.rate[g],
         hsn |-> shelf.hsn[g], tax |-> ExtractTax(split[g], shelf.rate[g])]]
PartsTax(parts) == Total([g \in DOMAIN parts |-> parts[g].tax])

----------------------------------------------------------------------------
(* The two quotes. The summary of the cart adds up the components of combos;  *)
(* the preview of a coupon taxes each discounted line, and a combo without    *)
(* components at the default rate.                                            *)
Quote(cart, coupon, discount, fee, tax) ==
  /\ order = None /\ quote = None
  /\ quote' = [cart |-> cart, coupon |-> coupon, subtotal |-> Subtotal(cart), discount |-> discount,
               shipping |-> fee, shipTax |-> ShippingTax(fee), tax |-> tax,
               total |-> Subtotal(cart) - discount + fee + ShippingTax(fee)]
  /\ UNCHANGED <<shelf, home, order, invoice, refunds, notes, month, edits>>

CartTaxBlended(cart) == \* As a bug would have it: a combo is taxed as one thing.
  Total([i \in Lines(cart) |-> ExtractTax(LineTotal(cart, i), IF i \in Goods THEN shelf.rate[i] ELSE DefaultRate)])
CartTax(cart) ==
  Total([i \in Lines(cart) |->
    IF i \in Goods THEN ExtractTax(LineTotal(cart, i), shelf.rate[i])
    ELSE PartsTax(Parts(i, LineTotal(cart, i), cart[i]))])

ViewCart(cart) ==
  Quote(cart, NoCoupon, 0, IF Subtotal(cart) = 0 THEN 0 ELSE Shipping(Subtotal(cart)), CartTax(cart))

QuotedTax(i, amount) ==
  CASE i \in Goods                     -> ExtractTax(amount, shelf.rate[i])
    [] i \in Combos /\ Holds(i) = {} -> ExtractTax(amount, DefaultRate)
    [] OTHER                           -> PartsTax(Parts(i, amount, 1))

ComputeCartTax(cart, cuts) ==
  Total([i \in Lines(cart) |-> QuotedTax(i, LineTotal(cart, i) - cuts[i])])

ValidateCoupon(cart, coupon, up) ==
  LET discount == DiscountFor(coupon, Subtotal(cart))
      free     == Subtotal(cart) <= discount
  IN  /\ coupon # NoCoupon /\ Subtotal(cart) >= coupon.minimum
      /\ Quote(cart, coupon, discount, IF free THEN 0 ELSE Shipping(Subtotal(cart) - discount),
               IF free THEN 0 ELSE ComputeCartTax(cart, Cuts(cart, discount, up)))

\* The QR code of a cart asks for its goods: it knows percentages only, and
\* no delivery.
QrAmount(cart, coupon) ==
  LET off == IF coupon.kind = "percent" THEN coupon.value ELSE 0
  IN  Subtotal(cart) - HalfEven(Subtotal(cart) * off, 100)

----------------------------------------------------------------------------
(* Checkout writes the bill: each line from the shelf of this moment.         *)
Final(price, count, cut) ==
  LET unit == HalfEven(price * count - cut, count)
  IN  [unit |-> unit, final |-> unit * count]

BillLine(cart, i, cut, free) ==
  LET f     == IF free THEN [unit |-> 0, final |-> 0] ELSE Final(UnitPrice(i), cart[i], cut)
      parts == IF i \in Combos /\ ~free THEN Parts(i, f.final, cart[i]) ELSE <<>>
      tax   == IF i \in Combos THEN PartsTax(parts) ELSE ExtractTax(f.final, shelf.rate[i])
  IN  [count |-> cart[i], price |-> UnitPrice(i), discount |-> cut, unit |-> f.unit, final |-> f.final,
       rate |-> IF i \in Goods THEN shelf.rate[i] ELSE BlendedRate(f.final, tax),
       hsn |-> IF i \in Goods THEN shelf.hsn[i] ELSE "", tax |-> tax, parts |-> parts]

\* Checkout judges the address; what it cannot place is billed at home.
PlaceOfSupply(resolved) == IF resolved = "nowhere" THEN home ELSE resolved
Interstate(place) == place # home

CreateOrder(cart, coupon, resolved, up) ==
  LET subtotal == Subtotal(cart)
      free     == coupon # NoCoupon /\ DiscountFor(coupon, subtotal) >= subtotal
      discount == IF free THEN subtotal ELSE DiscountFor(coupon, subtotal)
      fee      == IF free THEN 0 ELSE Shipping(subtotal - discount)
      cuts     == IF free THEN [i \in Lines(cart) |-> LineTotal(cart, i)] ELSE Cuts(cart, discount, up)
      lines    == [i \in Lines(cart) |-> BillLine(cart, i, cuts[i], free)]
  IN  /\ order = None
      /\ subtotal >= coupon.minimum
      /\ quote # None => quote.cart = cart /\ quote.coupon = coupon  \* else it is no quote of this
      /\ order' = [lines |-> lines, subtotal |-> subtotal, discount |-> discount,
                   shipping |-> fee, shipTax |-> ShippingTax(fee),
                   tax |-> Total([i \in Lines(cart) |-> lines[i].tax]),
                   total |-> subtotal - discount + fee + ShippingTax(fee),
                   place |-> PlaceOfSupply(resolved), status |-> "placed",
                   payment |-> IF free THEN "paid" ELSE "pending"]
      /\ quote' = None
      /\ UNCHANGED <<shelf, home, invoice, refunds, notes, month, edits>>

----------------------------------------------------------------------------
(* The breakdown of the order's tax by rate, from the lines as billed: the    *)
(* goods, the components of combos, and the delivery with its tax inside.     *)
Wholes == {<<i, 0>> : i \in {j \in DOMAIN order.lines : order.lines[j].parts = <<>>}}
Components == UNION {{<<i, g>> : g \in DOMAIN order.lines[i].parts} : i \in DOMAIN order.lines}
Delivery == IF order.shipTax > 0 THEN {<<0, 0>>} ELSE {}
Supplies == Wholes \union Components \union Delivery
GrossNet(s) == \* As a bug would have it: the fee without the tax on top of it.
  CASE s = <<0, 0>> -> order.shipping
    [] s[1] > 0 /\ s[2] = 0 -> order.lines[s[1]].final
    [] s[2] > 0 -> order.lines[s[1]].parts[s[2]].amount
Gross(s) ==
  CASE s = <<0, 0>> -> order.shipping + order.shipTax
    [] s[1] > 0 /\ s[2] = 0 -> order.lines[s[1]].final
    [] s[2] > 0 -> order.lines[s[1]].parts[s[2]].amount
RateOf(s) ==
  CASE s = <<0, 0>> -> ShippingRate
    [] s[1] > 0 /\ s[2] = 0 -> order.lines[s[1]].rate
    [] s[2] > 0 -> order.lines[s[1]].parts[s[2]].rate

GroupTaxByRate ==
  [r \in {RateOf(s) : s \in Supplies} |->
    LET slab == {s \in Supplies : RateOf(s) = r}
        tax  == Total([s \in slab |-> ExtractTax(Gross(s), r)])
    IN  [taxable |-> Total([s \in slab |-> Gross(s)]) - tax, tax |-> tax]]

OrderTaxBreakdown ==
  LET rows       == GroupTaxByRate
      unexplained == order.tax + order.shipTax - Total([r \in DOMAIN rows |-> rows[r].tax])
  IN  IF unexplained <= 0 THEN rows
      ELSE [r \in DOMAIN rows \union {NoRate} |->
             IF r = NoRate THEN [taxable |-> 0, tax |-> unexplained] ELSE rows[r]]

\* Rows with their heads, as a document keeps them.
SnapshotRows(rows, interstate) ==
  [r \in DOMAIN rows |->
    LET h == SplitGst(rows[r].tax, interstate)
    IN  [taxable |-> rows[r].taxable, tax |-> rows[r].tax,
         cgst |-> h.cgst, sgst |-> h.sgst, igst |-> h.igst]]

\* A bundle has no heading of its own and shows those of its components.
LineHsn(l) == IF l.hsn # "" THEN {l.hsn} ELSE {l.parts[g].hsn : g \in DOMAIN l.parts} \ {""}

BuildInvoiceSnapshot ==
  [month |-> month, seller |-> home, place |-> order.place, interstate |-> Interstate(order.place),
   lines |-> [i \in DOMAIN order.lines |->
               LET l == order.lines[i]
               IN  [count |-> l.count, rate |-> l.price, amount |-> l.price * l.count, hsn |-> LineHsn(l)]],
   subtotal |-> order.subtotal, discount |-> order.discount,
   shipping |-> order.shipping, shipTax |-> order.shipTax,
   rows |-> SnapshotRows(OrderTaxBreakdown, Interstate(order.place)),
   total |-> order.total, tax |-> order.tax + order.shipTax]
Issued == IF invoice = None THEN BuildInvoiceSnapshot ELSE invoice

Pay ==
  /\ order # None /\ order.payment = "pending" /\ order.status # "cancelled"
  /\ order' = [order EXCEPT !.payment = "paid"]
  /\ invoice' = Issued
  /\ UNCHANGED <<shelf, home, quote, refunds, notes, month, edits>>

Dispatch ==
  /\ order # None /\ order.status = "placed"
  /\ order' = [order EXCEPT !.status = "shipped"]
  /\ invoice' = Issued
  /\ UNCHANGED <<shelf, home, quote, refunds, notes, month, edits>>

----------------------------------------------------------------------------
(* A refund gives back its share of the tax: of the goods first, and of the   *)
(* delivery with what is beyond the value of the goods.                       *)
Refunded == Total([k \in DOMAIN refunds |-> refunds[k].amount])
RefundedTax == Total([k \in DOMAIN refunds |-> refunds[k].tax])
RefundableBalance == order.total - Refunded

RefundGoodsTax(amount) == \* As a bug would have it: the tax on the delivery stays.
  LET goods == order.subtotal - order.discount
  IN  IF goods > 0 THEN Min({HalfUp(order.tax * Min({amount, goods}), goods), order.tax - RefundedTax}) ELSE 0
RefundTaxFor(amount) ==
  LET goods  == order.subtotal - order.discount
      back   == Min({amount, goods})
      gross  == order.shipping + order.shipTax
      beyond == Min({Max({amount - goods, 0}), gross})
      part   == IF goods > 0 THEN HalfUp(order.tax * back, goods) ELSE 0
      fee    == IF order.shipTax > 0 THEN HalfUp(order.shipTax * beyond, gross) ELSE 0
  IN  Max({0, Min({part + fee, order.tax + order.shipTax - RefundedTax})})

\* Rows scaled to num/den of their tax; the largest takes what rounding leaves.
\* The share is one quotient, so all ties fall the same way.
ScaledRows(rows, num, den, up) ==
  LET near(n) == Tilt(Nearest(n * num, den), up)
      out == [r \in DOMAIN rows |-> [taxable |-> near(rows[r].taxable), tax |-> near(rows[r].tax)]]
      biggest == CHOOSE r \in DOMAIN out :
                   \A s \in DOMAIN out : out[s].tax < out[r].tax \/ (out[s].tax = out[r].tax /\ r <= s)
  IN  [out EXCEPT ![biggest].tax = @ + num - Total([r \in DOMAIN out |-> out[r].tax])]

CreditNoteUnscaled(refund, up) == \* As a bug would have it: every note shows the whole order's.
  IF OrderTaxBreakdown = <<>> THEN [r \in {0} |-> [taxable |-> refund.amount, tax |-> 0]] ELSE OrderTaxBreakdown
CreditNoteTaxRows(refund, up) ==
  LET rows    == OrderTaxBreakdown
      charged == Total([r \in DOMAIN rows |-> rows[r].tax])
  IN  IF charged <= 0 \/ refund.tax <= 0 THEN [r \in {0} |-> [taxable |-> refund.amount, tax |-> 0]]
      ELSE ScaledRows(rows, refund.tax, charged, up)

NoteHeads(place) == invoice.interstate

NoteOf(refund, up) ==
  [reason |-> "refund", month |-> refund.month, amount |-> refund.amount, tax |-> refund.tax,
   rows |-> SnapshotRows(CreditNoteTaxRows(refund, up), NoteHeads(order.place))]

\* A refund is clamped to what is left, and its note goes with it unless the
\* document fails; then a repair command issues it, dated as the refund is.
RecordRefund(asked, up, noted) ==
  LET amount == Min({asked, RefundableBalance})
      refund == [amount |-> amount, tax |-> RefundTaxFor(amount), month |-> month]
  IN  /\ order # None /\ order.payment \in {"paid", "refunded"} /\ RefundableBalance > 0
      /\ Len(refunds) < MaxRefunds
      /\ refunds' = Append(refunds, refund)
      /\ order' = [order EXCEPT !.status = "refunded", !.payment = "refunded"]
      /\ notes' = Append(notes, IF noted THEN NoteOf(refund, up) ELSE None)
      /\ UNCHANGED <<shelf, home, quote, invoice, month, edits>>

BackfillNote(k, up) ==
  /\ notes[k] = None
  /\ notes' = [notes EXCEPT ![k] = NoteOf(refunds[k], up)]
  /\ UNCHANGED <<shelf, home, quote, order, invoice, refunds, month, edits>>

Notes == {k \in DOMAIN notes : notes[k] # None}
NotedAmount == Total([k \in Notes |-> notes[k].amount])
NotedTax == Total([k \in Notes |-> notes[k].tax])

\* Cancelling an invoiced order nobody paid reverses what is left of it.
CancellationNote(up) ==
  LET amount == invoice.total - NotedAmount
      tax    == invoice.tax - NotedTax
      nil    == [r \in DOMAIN invoice.rows |-> [taxable |-> 0, tax |-> 0]]
      rows   == IF invoice.tax = 0 THEN nil ELSE ScaledRows(invoice.rows, tax, invoice.tax, up)
  IN  [reason |-> "cancellation", month |-> month, amount |-> amount, tax |-> tax,
       rows |-> SnapshotRows(rows, NoteHeads(order.place))]

Cancel(up) ==
  /\ order # None /\ order.status \in {"placed", "shipped"}
  /\ order' = [order EXCEPT !.status = "cancelled"]
  /\ notes' = IF invoice # None /\ order.payment = "pending" /\ invoice.total > NotedAmount
              THEN Append(notes, CancellationNote(up)) ELSE notes
  /\ UNCHANGED <<shelf, home, quote, invoice, refunds, month, edits>>

----------------------------------------------------------------------------
(* What staff do meanwhile. A quote of an older shelf promises nothing.       *)
Edit(changed) ==
  /\ edits < MaxEdits /\ changed # shelf
  /\ shelf' = changed
  /\ edits' = edits + 1
  /\ quote' = None
  /\ UNCHANGED <<home, order, invoice, refunds, notes, month>>

EditShelf ==
  \/ \E g \in Goods, r \in Rates : Edit([shelf EXCEPT !.rate[g] = r])
  \/ \E g \in Goods, p \in Prices : Edit([shelf EXCEPT !.mrp[g] = p])
  \/ \E g \in Goods, h \in Headings : Edit([shelf EXCEPT !.hsn[g] = h])
  \/ \E c \in Combos, r \in Recipes : Edit([shelf EXCEPT !.recipe[c] = r])

\* The place of supply may be corrected until it is billed.
SetPlace(place) ==
  /\ order # None /\ invoice = None /\ order.place # place /\ edits < MaxEdits
  /\ order' = [order EXCEPT !.place = place]
  /\ edits' = edits + 1
  /\ UNCHANGED <<shelf, home, quote, invoice, refunds, notes, month>>

\* SELLER_STATE_CODE is set to another state.
SellerMoves(place) ==
  /\ home # place /\ edits < MaxEdits
  /\ home' = place
  /\ edits' = edits + 1
  /\ UNCHANGED <<shelf, quote, order, invoice, refunds, notes, month>>

NextMonth ==
  /\ order # None /\ month < MaxMonth
  /\ month' = month + 1
  /\ UNCHANGED <<shelf, home, quote, order, invoice, refunds, notes, edits>>

----------------------------------------------------------------------------
Init ==
  /\ shelf \in Shelves
  /\ home \in Homes
  /\ quote = None /\ order = None /\ invoice = None
  /\ refunds = <<>> /\ notes = <<>>
  /\ month = 1 /\ edits = 0

Tilts(S) == [S -> BOOLEAN]          \* where the ties of these lines fall

Next ==
  \/ \E cart \in Carts : ViewCart(cart)
  \/ \E cart \in Carts, coupon \in Coupons : \E up \in Tilts(Lines(cart)) : ValidateCoupon(cart, coupon, up)
  \/ \E cart \in Carts, coupon \in Coupons, place \in Places \union {"nowhere"} :
       \E up \in Tilts(Lines(cart)) : CreateOrder(cart, coupon, place, up)
  \/ Pay \/ Dispatch
  \/ \E asked \in RefundAmounts, up, noted \in BOOLEAN : RecordRefund(asked, up, noted)
  \/ \E k \in DOMAIN notes, up \in BOOLEAN : BackfillNote(k, up)
  \/ \E up \in BOOLEAN : Cancel(up)
  \/ EditShelf
  \/ \E place \in Places : SetPlace(place) \/ SellerMoves(place)
  \/ NextMonth
Spec == Init /\ [][Next]_vars

----------------------------------------------------------------------------
(* Money is never negative on any line, component, slab or document, tax is   *)
(* within what it is the tax of, and a header is what its columns add up to.  *)
(* A component takes what rounding leaves of all the others, so this is so of *)
(* a combo line that is charged enough for its components: of fewer paise     *)
(* than half the square of their number the largest may get less than none.   *)
Roomy(l) == LET n == Cardinality(DOMAIN l.parts) IN n * n <= 2 * l.final
TypeOK ==
  /\ month \in 1 .. MaxMonth /\ edits \in 0 .. MaxEdits /\ home \in Places
  /\ Len(refunds) <= MaxRefunds
  /\ quote # None => 0 <= quote.total /\ 0 <= quote.tax /\ quote.discount <= quote.subtotal
  /\ order # None =>
       /\ order.total = order.subtotal - order.discount + order.shipping + order.shipTax
       /\ order.tax = Total([i \in DOMAIN order.lines |-> order.lines[i].tax])
       /\ 0 <= order.discount /\ order.discount <= order.subtotal
       /\ \A i \in DOMAIN order.lines :
            LET l == order.lines[i]
            IN  /\ 0 <= l.tax /\ 0 <= l.final /\ l.final <= l.price * l.count
                /\ DOMAIN l.parts \subseteq Goods /\ \A g \in DOMAIN l.parts : l.parts[g] \in PartRows
                /\ Roomy(l) => /\ l.tax <= l.final
                               /\ \A g \in DOMAIN l.parts :
                                    0 <= l.parts[g].tax /\ l.parts[g].tax <= l.parts[g].amount
  /\ invoice # None =>
       \A r \in DOMAIN invoice.rows :
         /\ 0 <= invoice.rows[r].tax
         /\ (\A i \in DOMAIN order.lines : Roomy(order.lines[i])) => 0 <= invoice.rows[r].taxable
  /\ \A k \in Notes : notes[k].amount > 0 /\ notes[k].tax >= 0

(* A combo line is taxed as its components: what was charged for it is split  *)
(* over them without a paisa lost (allocate_combo_components), and the tax of *)
(* the line is theirs.                                                        *)
SplitExact ==
  order # None => \A i \in DOMAIN order.lines \intersect Combos :
    LET l == order.lines[i]
    IN  l.parts # <<>> => /\ Total([g \in DOMAIN l.parts |-> l.parts[g].amount]) = l.final
                          /\ l.tax = PartsTax(l.parts)

(* The rows of a bill and its header are rounded apart: a line's discount is  *)
(* rounded, then its price per unit. They may differ by half a paisa for each *)
(* unit and each line and by no more (orders/views.py says not at all), and a *)
(* bill without a discount, or discounted to nothing, agrees exactly.         *)
RowsNearHeader ==
  order # None =>
    LET lines == order.lines
        units == Total([i \in DOMAIN lines |-> lines[i].count])
        apart == Total([i \in DOMAIN lines |-> lines[i].final]) - (order.subtotal - order.discount)
    IN  /\ 2 * apart <= units + Cardinality(DOMAIN lines)
        /\ -2 * apart <= units + Cardinality(DOMAIN lines)
        /\ order.discount \in {0, order.subtotal} => apart = 0

(* What the customer was quoted is what checkout charges, unless staff edited *)
(* the shelf in between: discount, delivery and total to the paisa, and the   *)
(* tax too where there is no coupon, or it pays for everything; a discount in *)
(* between is rounded at other places by the quote than by the bill. Of goods *)
(* that cost nothing the summary of the cart delivers for nothing too.        *)
QuoteHolds ==
  [][quote # None /\ quote.subtotal > 0 /\ order' # order =>
       /\ quote.discount = order'.discount
       /\ quote.shipping = order'.shipping /\ quote.shipTax = order'.shipTax
       /\ quote.total = order'.total
       /\ quote.coupon = NoCoupon \/ order'.discount = order'.subtotal => quote.tax = order'.tax]_vars

(* The QR code, the preview of a coupon and the summary of a cart price it in *)
(* code of their own: what the code asks for is what the quote says the goods *)
(* cost, but for a coupon of a fixed amount, which it does not take off.      *)
QrAsksForTheGoods ==
  quote # None =>
    QrAmount(quote.cart, quote.coupon)
      = quote.subtotal - IF quote.coupon.kind = "fixed" THEN 0 ELSE quote.discount

(* The breakdown explains the whole tax of the bill: every row has a rate,    *)
(* the rows add up to the tax charged and, with their taxable values, to what *)
(* the lines and the delivery came to; the delivery's row gives back exactly  *)
(* the tax that was put on top of the fee; and the heads of every row, of the *)
(* invoice and of each note, add up to its tax under one place of supply.     *)
SlabsReconcile ==
  invoice # None =>
    LET rows == invoice.rows
    IN  /\ NoRate \notin DOMAIN rows
        /\ Total([r \in DOMAIN rows |-> rows[r].tax]) = invoice.tax
        /\ Total([r \in DOMAIN rows |-> rows[r].taxable + rows[r].tax])
             = Total([s \in Supplies |-> Gross(s)])
        /\ \A r \in DOMAIN rows : Heads(rows[r]) = rows[r].tax

(* Notes stay within the invoice they reverse, in value and in tax; each note *)
(* shows exactly the tax it reverses, under the heads of the invoice, though  *)
(* the shop may have moved or the staff edited the shelf since.               *)
NotesCover ==
  /\ NotedAmount > 0 => NotedAmount <= invoice.total /\ NotedTax <= invoice.tax
  /\ \A k \in Notes :
       LET rows == notes[k].rows
       IN  /\ Total([r \in DOMAIN rows |-> rows[r].tax]) = notes[k].tax
           /\ \A r \in DOMAIN rows :
                /\ Heads(rows[r]) = rows[r].tax
                /\ IF invoice.interstate THEN rows[r].cgst + rows[r].sgst = 0 ELSE rows[r].igst = 0

(* A bill reconciles with its lines, their parts, its slabs and the other  *)
(* prices of the same cart.                                                *)
BillReconciles == TypeOK /\ SplitExact /\ RowsNearHeader /\ SlabsReconcile /\ QrAsksForTheGoods

=============================================================================
