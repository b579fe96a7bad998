----------------------------- MODULE Documents -----------------------------
(* What leaves the shop on paper: the invoice as it is printed, today or in   *)
(* two years, the credit note of a refund, and the accountant's export of the *)
(* orders (orders/invoice.py, orders/views.py). An invoice is printed from    *)
(* what was frozen when it was issued; a credit note and the export are made  *)
(* again each time from the order and the shop as they are.                   *)
EXTENDS GstLedger

----------------------------------------------------------------------------
(* The invoice. Two bands say what happened since and are dated as printed;   *)
(* everything else is the snapshot's.                                         *)
\* The strip under its head: the month of its issue, not of the order or print.
PrintedMeta == [issued |-> invoice.month]

PrintedParties ==
  [seller |-> invoice.seller, place |-> invoice.place, interstate |-> invoice.interstate]

PrintedLines == [i \in DOMAIN invoice.lines |-> invoice.lines[i]]

\* The column at the right; what is free or not discounted has no tax or row.
PrintedTotals ==
  [subtotal |-> invoice.subtotal,
   discount |-> IF invoice.discount > 0 THEN -invoice.discount ELSE 0,
   shipping |-> invoice.shipping, shipTax |-> invoice.shipTax]

\* The summary by rate, and under it the sum of what the rows above it show.
SnapshotGstSummaryRows(rows) == [rows |-> rows, total |-> HeadsOf(rows)]

PrintedSlabs == SnapshotGstSummaryRows(invoice.rows)

PrintedBands ==
  [status |-> order.status, returned |-> Total([k \in DOMAIN refunds |-> refunds[k].amount])]

PrintedInvoice ==
  [meta |-> PrintedMeta, parties |-> PrintedParties, lines |-> PrintedLines, totals |-> PrintedTotals,
   grand |-> invoice.total, slabs |-> PrintedSlabs]

----------------------------------------------------------------------------
(* The credit note of refund k. The rows are apportioned again from the order *)
(* and headed by where the shop is now; the band speaks of all its refunds.   *)
GstSummaryRows(rows) ==
  LET headed == SnapshotRows(rows, Interstate(order.place))
  IN  [rows |-> headed, total |-> HeadsOf(headed)]

PrintedNote(k, up) ==
  [scope |-> IF Refunded < order.total THEN "partial" ELSE "full",
   taxable |-> refunds[k].amount - refunds[k].tax, tax |-> refunds[k].tax, amount |-> refunds[k].amount,
   slabs |-> GstSummaryRows(CreditNoteTaxRows(refunds[k], up))]

----------------------------------------------------------------------------
(* The export: a row for the order, its tax goods and delivery together, and  *)
(* split once into the heads of where the shop is now.                        *)
GstHeads == SplitGst(order.tax + order.shipTax, Interstate(order.place))
ExportRow ==
  [taxable |-> order.subtotal - order.discount - order.tax, goodsTax |-> order.tax,
   shipping |-> order.shipping, shipTax |-> order.shipTax, totalTax |-> order.tax + order.shipTax,
   heads |-> GstHeads, total |-> order.total,
   refunded |-> Refunded, reversed |-> RefundedTax, netTax |-> order.tax + order.shipTax - RefundedTax]

----------------------------------------------------------------------------
(* What the customer can check with a pencil: the lines of an invoice add up  *)
(* to its subtotal and the column at the right to its grand total, the slabs  *)
(* to its tax; a credit note's slabs to the tax it says it reverses, slab by  *)
(* slab what its row in the register says, though it was worked out again;    *)
(* and the band shows no more returned than was charged.                      *)
PrintAddsUp ==
  invoice # None =>
    /\ Total([i \in DOMAIN PrintedLines |-> PrintedLines[i].amount]) = PrintedTotals.subtotal
    /\ Total(PrintedTotals) = invoice.total
    /\ Total(PrintedSlabs.total) = invoice.tax
    /\ PrintedBands.returned <= invoice.total
    /\ \A k \in Notes \intersect DOMAIN refunds :
         notes[k].reason = "refund" =>
           \E up \in BOOLEAN :
             LET slabs == PrintedNote(k, up).slabs
             IN  /\ Total(slabs.total) = refunds[k].tax
                 /\ DOMAIN slabs.rows = DOMAIN notes[k].rows
                 /\ \A r \in DOMAIN slabs.rows : slabs.rows[r].tax = notes[k].rows[r].tax

(* A reprint is the invoice: whatever happens to the order, to the shelf or   *)
(* to the shop, only the two bands may ever differ.                           *)
PrintStands == [][invoice # None => PrintedInvoice' = PrintedInvoice]_vars

(* The accountant's file and the returns tell one story. A row's own columns  *)
(* add up to the total and its heads to its tax. Where every refund has its   *)
(* note and nothing was reversed by a cancellation, what it calls net is what *)
(* the registers of all months leave; and while the shop has not moved its    *)
(* heads are the invoice's but for half a paisa a slab, which is split slab   *)
(* by slab.                                                                   *)
ExportAgrees ==
  LET row       == ExportRow
      documents == 1 .. MaxMonth
      left      == Total([m \in documents |-> InvoiceBlock(m).tax]) - Total([m \in documents |-> CreditBlock(m).tax])
  IN  order # None =>
        /\ row.taxable + row.shipping + row.totalTax = row.total
        /\ Heads(row.heads) = row.totalTax
        /\ 0 <= row.netTax
        /\ invoice # None /\ (\A k \in DOMAIN notes : notes[k] # None /\ notes[k].reason = "refund") =>
             row.netTax = left
        /\ invoice # None /\ invoice.seller = home =>
             LET apart == row.heads.cgst - HeadsOf(invoice.rows)["cgst"]
             IN  2 * apart <= Cardinality(DOMAIN invoice.rows) /\ -2 * apart <= Cardinality(DOMAIN invoice.rows)

(* The same figures by different roads: returns, papers and the export.    *)
FiguresAgree == ReportsAgree /\ PrintAddsUp /\ ExportAgrees

(* What was filed or handed out stands: returns of a month and reprints.   *)
PapersStand == FiledStands /\ PrintStands

=============================================================================
