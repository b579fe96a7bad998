----------------------------- MODULE GstLedger -----------------------------
(* The returns a month is filed from (orders/gst_ledger.py, gst_reports.py):  *)
(* read from invoices and credit notes by the month they carry, and from the  *)
(* lines as they were billed, never from the shelf.                           *)
EXTENDS Pricing

InvoicedIn(m) == invoice # None /\ invoice.month = m
CreditNotesIn(m) == {k \in Notes : notes[k].month = m}

Column(rows, field) == Total([r \in DOMAIN rows |-> rows[r][field]])
Block(total, tax, heads) == [taxable |-> total - tax, tax |-> tax, heads |-> heads, total |-> total]
HeadsOf(rows) == [h \in {"cgst", "sgst", "igst"} |-> Column(rows, h)]
NoHeads == [h \in {"cgst", "sgst", "igst"} |-> 0]
SumHeads(hs) == [h \in {"cgst", "sgst", "igst"} |-> Total([k \in DOMAIN hs |-> hs[k][h]])]

InvoiceBlock(m) ==
  IF InvoicedIn(m) THEN Block(invoice.total, invoice.tax, HeadsOf(invoice.rows)) ELSE Block(0, 0, NoHeads)
CreditBlock(m) ==
  LET in == CreditNotesIn(m)
  IN  Block(Total([k \in in |-> notes[k].amount]), Total([k \in in |-> notes[k].tax]),
            SumHeads([k \in in |-> HeadsOf(notes[k].rows)]))

(* The registers list the documents themselves. *)
InvoiceRegister(m) ==
  IF InvoicedIn(m) THEN {[taxable |-> invoice.total - invoice.tax, tax |-> invoice.tax, heads |-> HeadsOf(invoice.rows)]}
  ELSE {}
CreditNoteRegister(m) ==
  [k \in CreditNotesIn(m) |->
    [taxable |-> notes[k].amount - notes[k].tax, tax |-> notes[k].tax, heads |-> HeadsOf(notes[k].rows)]]

----------------------------------------------------------------------------
(* State-wise: a row for each place and rate, gross and credited.             *)
B2cGross(m) == IF InvoicedIn(m) THEN invoice.rows ELSE <<>>
CreditedRates(m) == UNION {DOMAIN notes[k].rows : k \in CreditNotesIn(m)}
B2cCredit(m, r) ==
  LET in == {k \in CreditNotesIn(m) : r \in DOMAIN notes[k].rows}
  IN  [field \in {"taxable", "tax", "cgst", "sgst", "igst"} |-> Total([k \in in |-> notes[k].rows[r][field]])]

----------------------------------------------------------------------------
(* The HSN summary: quantity, value and tax by heading and rate. A combo line *)
(* is its components; the delivery is a heading of its own.                   *)
HsnOfNow(s) == \* As a bug would have it: the heading is the product's today.
  CASE s = <<0, 0>> -> "9968" [] s[2] > 0 -> shelf.hsn[s[2]]
    [] s[2] = 0 /\ s[1] \in Goods -> shelf.hsn[s[1]] [] OTHER -> ""
HsnOf(s) ==
  CASE s = <<0, 0>> -> "9968" [] s[2] > 0 -> order.lines[s[1]].parts[s[2]].hsn
    [] OTHER -> order.lines[s[1]].hsn
BilledTax(s) ==
  CASE s = <<0, 0>> -> order.shipTax [] s[2] > 0 -> order.lines[s[1]].parts[s[2]].tax
    [] OTHER -> order.lines[s[1]].tax
Units(s) ==
  CASE s = <<0, 0>> -> 0 [] s[2] > 0 -> order.lines[s[1]].parts[s[2]].count
    [] OTHER -> order.lines[s[1]].count

\* Delivery is listed whenever it was charged for, taxed or not.
HsnSupplies == Wholes \union Components \union IF order.shipping > 0 THEN {<<0, 0>>} ELSE {}

HsnSummary(m) ==
  LET supplied == IF InvoicedIn(m) THEN HsnSupplies ELSE {}
  IN  [key \in {<<HsnOf(s), RateOf(s)>> : s \in supplied} |->
        LET slab == {s \in supplied : <<HsnOf(s), RateOf(s)>> = key}
        IN  [quantity |-> Total([s \in slab |-> Units(s)]),
             total |-> Total([s \in slab |-> Gross(s)]),
             tax |-> Total([s \in slab |-> BilledTax(s)])]]

----------------------------------------------------------------------------
(* The reports of a month are made from different records and must tell one   *)
(* story: the HSN summary, the state-wise rows and the heads all carry the    *)
(* tax of the invoices, and the value of the HSN rows is off the invoices' by *)
(* the roundings of a bill (RowsNearHeader) and no more.                      *)
ReportsAgree ==
  \A m \in 1 .. month :
    LET hsn == HsnSummary(m)  summary == InvoiceBlock(m)
        units == Total([key \in DOMAIN hsn |-> hsn[key].quantity])
        apart == Column(hsn, "total") - summary.total
        slack == units + Cardinality(Items)
    IN  /\ Column(hsn, "tax") = summary.tax
        /\ \A row \in InvoiceRegister(m) : row.heads = HeadsOf(invoice.rows) /\ Total(row.heads) = row.tax
        /\ Column(CreditNoteRegister(m), "taxable") = CreditBlock(m).taxable
        /\ Column(B2cGross(m), "tax") = summary.tax
        /\ Total(summary.heads) = summary.tax
        /\ Total(CreditBlock(m).heads) = CreditBlock(m).tax
        /\ Total([r \in CreditedRates(m) |-> B2cCredit(m, r).tax]) = CreditBlock(m).tax
        /\ -slack <= 2 * apart /\ 2 * apart <= slack

(* An order reversed by one document is gone from the books: after a          *)
(* cancellation, or a refund of everything at once, its taxable value, tax    *)
(* and heads net to nothing, rate by rate where any tax was charged.          *)
WholeReversalNets ==
  \A k \in Notes : notes[k].amount = invoice.total =>
    /\ notes[k].tax = invoice.tax
    /\ invoice.tax > 0 => notes[k].rows = invoice.rows

(* A return that was filed stands: whatever staff do to the shelf, to the     *)
(* order or to the shop, the invoices, headings and slabs of an earlier month *)
(* never change, and what was credited in it changes only by the late note of *)
(* a refund of that month.                                                    *)
FiledStands ==
  [][\A m \in 1 .. month - 1 :
       /\ HsnSummary(m)' = HsnSummary(m)
       /\ InvoiceBlock(m)' = InvoiceBlock(m)
       /\ B2cGross(m)' = B2cGross(m)
       /\ CreditBlock(m)' # CreditBlock(m) =>
            \E k \in DOMAIN refunds : refunds[k].month = m /\ notes[k] = None /\ notes'[k] # None]_vars

(* What reverses an invoice covers it: never more than it, and all of it   *)
(* when everything goes back at once.                                      *)
ReversalsCover == NotesCover /\ WholeReversalNets

=============================================================================
