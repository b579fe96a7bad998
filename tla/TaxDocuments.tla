----------------------------- MODULE TaxDocuments -----------------------------
(***************************************************************************)
(* The tax documents of the orders of OrderPayments: which events raise an *)
(* invoice or a credit note, the numbers they draw, and what may happen to *)
(* them afterwards.                                                        *)
(*                                                                         *)
(*   - invoices                  orders/invoicing.py                       *)
(*   - credit notes              orders/credit_notes.py, orders/refunds.py *)
(*   - their callers             orders/views.py, payments/services.py     *)
(*   - repairs run by hand       orders/management/commands                *)
(*   - the nightly purge         admin_panel/.../purge_recycle_bin.py      *)
(*   - the series report         orders/gst_ledger.py                      *)
(*                                                                         *)
(* A handler of OrderPayments and the documents it raises are one step:    *)
(* both are written under the lock of the Order row.  The commands take no *)
(* such lock; backfill_invoices decides on copies of the rows, and the     *)
(* purge looks for an invoice before it deletes.                           *)
(*                                                                         *)
(* One series of each kind of document, as within one financial year.  An  *)
(* invoice is drawn up for the order's total, which nothing changes.  The  *)
(* slabs of tax follow the amounts and are left out.                       *)
(***************************************************************************)
EXTENDS OrderPayments, Sequences, FiniteSetsExt

CONSTANTS
  Places,        (* Place-of-supply state codes.                            *)
  MaxFailures    (* Bound: orders with an issue that failed, for each kind. *)

ASSUME FailuresAssumption == MaxFailures \in Nat
ASSUME PlacesAssumption   == "" \notin Places

VARIABLES
  place,          (* Order.place_of_supply_state_code.                      *)
  invoice,        (* Invoice rows: number in the series, frozen place.      *)
  refunds,        (* OrderRefund rows of an order, each with its note.      *)
  cancelNote,     (* The CreditNote with reason "cancellation".             *)
  invoiceNo,      (* InvoiceCounter of the invoices.                        *)
  creditNo,       (* InvoiceCounter of the credit notes.                    *)
  burned,         (* Invoice numbers drawn by a writer that lost its insert.*)
  invoiceFailed,  (* Orders whose invoice failed and was logged.            *)
  noteFailed,     (* Orders with a credit note that failed and was logged.  *)
  backfill,       (* backfill_invoices: its copies and the order in hand.   *)
  patch,          (* A PATCH of the place between its check and its lock.   *)
  purging,        (* The order purge_recycle_bin is about to delete.        *)
  purged          (* Orders deleted for good.                               *)

invoices == <<invoice, invoiceNo, invoiceFailed>>
notes    == <<refunds, cancelNote, creditNo, noteFailed>>
commands == <<burned, backfill, purging, purged>>
docs     == <<place, patch, invoices, notes, commands>>

NoInvoice == [seq |-> 0, place |-> ""]
NoNote    == [seq |-> 0, amount |-> 0]
NoPatch   == [order |-> NoOrder, place |-> ""]
NoCopy    == [status |-> "absent", pay |-> "pending", place |-> ""]
BackfillIdle == [pc |-> "idle", copies |-> [o \in Orders |-> NoCopy], order |-> NoOrder]

DocInit ==
  /\ Init
  /\ place = [o \in Orders |-> ""]
  /\ invoice = [o \in Orders |-> NoInvoice]
  /\ refunds = [o \in Orders |-> <<>>]
  /\ cancelNote = [o \in Orders |-> NoNote]
  /\ invoiceNo = 0 /\ creditNo = 0
  /\ burned = {} /\ invoiceFailed = {} /\ noteFailed = {}
  /\ backfill = BackfillIdle
  /\ patch = NoPatch
  /\ purging = NoOrder /\ purged = {}

Invoiced(o) == invoice[o].seq > 0

-----------------------------------------------------------------------------
(***************************************************************************)
(* invoice_is_due and maybe_issue_invoice, on the row a caller has in its  *)
(* hands.  A failure is logged and never breaks the caller; it may be a    *)
(* deadlock with backfill_invoices, which locks in the other order.        *)
(***************************************************************************)
DispatchedStatuses    == {"shipped", "delivering", "delivered"}
MoneyReceivedStatuses == {"paid", "refunded"}

InvoiceIsDue(o, row) ==
  /\ row.status # "cancelled" /\ ~Invoiced(o)
  /\ row.pay \in MoneyReceivedStatuses \/ row.status \in DispatchedStatuses

IssueInvoice(o, where) ==
  /\ invoice' = [invoice EXCEPT ![o] = [seq |-> invoiceNo + 1, place |-> where]]
  /\ invoiceNo' = invoiceNo + 1
  /\ UNCHANGED invoiceFailed

InvoiceFails(o) ==
  /\ Cardinality(invoiceFailed \cup {o}) <= MaxFailures
  /\ invoiceFailed' = invoiceFailed \cup {o}
  /\ UNCHANGED <<invoice, invoiceNo>>

(* Mutant: goods that leave before their cash is taken are not billed.     *)
MaybeIssueForMoney(o, row, where) ==
  LET due == row.pay \in MoneyReceivedStatuses /\ InvoiceIsDue(o, row)
  IN  IF due THEN IssueInvoice(o, where) ELSE UNCHANGED invoices

MaybeIssueInvoice(o, row, where) ==
  \/ InvoiceIsDue(o, row) /\ IssueInvoice(o, where)
  \/ InvoiceIsDue(o, row) /\ InvoiceFails(o)
  \/ ~InvoiceIsDue(o, row) /\ UNCHANGED invoices

-----------------------------------------------------------------------------
(***************************************************************************)
(* Credit notes.  They cite the invoice as it is after the caller had the  *)
(* chance to raise it, hence invoice'.                                     *)
(***************************************************************************)
Noted(o)       == {i \in DOMAIN refunds[o] : refunds[o][i].note > 0}
Credited(o)    == SumFunction([i \in Noted(o) |-> refunds[o][i].amount]) + cancelNote[o].amount
(* Mutant: earlier notes are not deducted.                                 *)
WholeInvoice(o) == order[o].total

Remaining(o)   == order[o].total - Credited(o)

(* Mutant: the number drawn by the failed note is not rolled back.         *)
NoteFailsUnrolled(o) ==
  /\ Cardinality(noteFailed \cup {o}) <= MaxFailures
  /\ noteFailed' = noteFailed \cup {o}
  /\ creditNo' = creditNo + 1

NoteFails(o) ==
  /\ Cardinality(noteFailed \cup {o}) <= MaxFailures
  /\ noteFailed' = noteFailed \cup {o}
  /\ UNCHANGED creditNo

DrawCreditNo == creditNo' = creditNo + 1 /\ UNCHANGED noteFailed

Append1(o, amount, note) ==
  refunds' = [refunds EXCEPT ![o] = Append(@, [amount |-> amount, note |-> note])]

(* record_refund and the note of the refund.                               *)
RecordRefund(o, amount) ==
  /\ \/ invoice'[o].seq > 0 /\ Append1(o, amount, creditNo + 1) /\ DrawCreditNo
     \/ invoice'[o].seq > 0 /\ Append1(o, amount, 0) /\ NoteFails(o)
     \/ invoice'[o].seq = 0 /\ Append1(o, amount, 0) /\ UNCHANGED <<creditNo, noteFailed>>
  /\ UNCHANGED cancelNote

CancellationNoteIsDue(o, row) ==
  /\ row.status = "cancelled" /\ invoice'[o].seq > 0
  /\ row.pay \notin MoneyReceivedStatuses
  /\ cancelNote[o].seq = 0 /\ Remaining(o) > 0

MaybeIssueCancellationNote(o, row) ==
  /\ \/ /\ CancellationNoteIsDue(o, row) /\ DrawCreditNo
        /\ cancelNote' = [cancelNote EXCEPT ![o] = [seq |-> creditNo + 1, amount |-> Remaining(o)]]
     \/ CancellationNoteIsDue(o, row) /\ NoteFails(o) /\ UNCHANGED cancelNote
     \/ ~CancellationNoteIsDue(o, row) /\ UNCHANGED <<cancelNote, creditNo, noteFailed>>
  /\ UNCHANGED refunds

-----------------------------------------------------------------------------
(***************************************************************************)
(* The handlers of OrderPayments with the documents they raise.            *)
(***************************************************************************)
(* A free order is paid at placement, and invoiced there.                  *)
PlaceOrder(o, m, t, p) ==
  /\ o \notin purged
  /\ Checkout(o, m, t)
  /\ place' = [place EXCEPT ![o] = p]
  /\ MaybeIssueInvoice(o, order'[o], p)
  /\ UNCHANGED <<patch, notes, commands>>

(* Whoever reports a capture, the payment that becomes completed has its   *)
(* order invoiced.                                                         *)
Completing == {o \in Orders : payment[o].status # "completed" /\ payment'[o].status = "completed"}

CaptureReported ==
  \/ \E o \in Orders, r \in RzpIds : VerifyPayment(o, r)
  \/ \E e \in Events : RazorpayWebhook(e)
  \/ \E o \in Orders : ResyncPayment(o)
  \/ l3.order \in Orders \ purged /\ L3Act

Capture ==
  /\ CaptureReported
  /\ IF Completing = {} THEN UNCHANGED invoices
     ELSE \E o \in Completing : MaybeIssueInvoice(o, order'[o], place[o])
  /\ UNCHANGED <<place, patch, notes, commands>>

CancelOrder(o, who) ==
  /\ Cancel(o, who)
  /\ UNCHANGED invoices
  /\ MaybeIssueCancellationNote(o, order'[o])
  /\ UNCHANGED <<place, patch, commands>>

(* A PATCH that corrects the place of supply looks for an invoice first.   *)
PatchPlaceCheck(o, p) ==
  /\ patch = NoPatch
  /\ Placed(o) /\ ~Invoiced(o)
  /\ patch' = [order |-> o, place |-> p]
  /\ UNCHANGED <<vars, place, invoices, notes, commands>>

(* Then, under the lock, a PATCH (that one, or one without a place) writes *)
(* the row and raises what is due: the invoice, the cancellation note, the *)
(* refund and its note, in this order.                                     *)
PatchPlace(o) ==
  \/ patch.order = o /\ place' = [place EXCEPT ![o] = patch.place] /\ patch' = NoPatch
  \/ UNCHANGED <<place, patch>>

PatchNotes(o, row, amount) ==
  \/ amount > 0 /\ RecordRefund(o, amount)
  \/ /\ amount = 0 /\ row.status = "cancelled" /\ order[o].status # "cancelled"
     /\ MaybeIssueCancellationNote(o, row)
  \/ /\ amount = 0 /\ (row.status = "cancelled" => order[o].status = "cancelled")
     /\ UNCHANGED notes

PatchOrder(o, status, edit, tick, given) ==
  LET row == [Ticked(Edited(order[o], edit), tick) EXCEPT !.status = status]
  IN  /\ AdminUpdate(o, status, edit, tick, given)
      /\ PatchPlace(o)
      /\ MaybeIssueInvoice(o, row, place'[o])
      /\ PatchNotes(o, row, order'[o].refunded - order[o].refunded)
      /\ UNCHANGED commands

-----------------------------------------------------------------------------
(***************************************************************************)
(* backfill_invoices.  The orders without an invoice are read in a batch;  *)
(* each copy is judged, then billed in a transaction of its own.  The      *)
(* number is drawn after the last look for an invoice: an invoice raised   *)
(* in between makes the insert fail and burns the number.                  *)
(***************************************************************************)
Copy(o) == [status |-> order[o].status, pay |-> order[o].pay, place |-> place[o]]

BackfillLoad ==
  /\ backfill.pc = "idle"
  /\ \E o \in Orders : Placed(o) /\ ~Invoiced(o)
  /\ backfill' = [backfill EXCEPT !.pc = "next",
                    !.copies = [o \in Orders |-> IF Placed(o) /\ ~Invoiced(o) THEN Copy(o) ELSE NoCopy]]
  /\ UNCHANGED <<vars, place, patch, invoices, notes, burned, purging, purged>>

Left(o) == [backfill EXCEPT !.pc = "next", !.order = NoOrder, !.copies[o] = NoCopy]

BackfillJudge(o) ==
  /\ backfill.pc = "next" /\ backfill.copies[o] # NoCopy
  /\ backfill' = IF InvoiceIsDue(o, backfill.copies[o])
                   THEN [backfill EXCEPT !.pc = "issue", !.order = o]
                   ELSE Left(o)
  /\ UNCHANGED <<vars, place, patch, invoices, notes, burned, purging, purged>>

BurnNumber(o) ==
  /\ invoiceNo' = invoiceNo + 1
  /\ burned' = burned \cup {invoiceNo + 1}
  /\ UNCHANGED invoice

BackfillIssue ==
  LET o == backfill.order
  IN  /\ backfill.pc = "issue"
      /\ \/ Placed(o) /\ ~Invoiced(o) /\ IssueInvoice(o, backfill.copies[o].place) /\ UNCHANGED burned
         \/ Invoiced(o) /\ BurnNumber(o) /\ UNCHANGED invoiceFailed
         \/ Invoiced(o) /\ UNCHANGED <<invoices, burned>>
         \/ ~Invoiced(o) /\ InvoiceFails(o) /\ UNCHANGED burned
      /\ backfill' = Left(o)
      /\ UNCHANGED <<vars, place, patch, notes, purging, purged>>

(* Through its copies, or killed.                                          *)
BackfillEnds ==
  /\ backfill.pc # "idle"
  /\ backfill' = BackfillIdle
  /\ UNCHANGED <<vars, place, patch, invoices, notes, burned, purging, purged>>

(* backfill_credit_notes: a refund without a note, of an invoiced order.   *)
BackfillCreditNote(o, i) ==
  /\ i \in DOMAIN refunds[o] /\ refunds[o][i].note = 0
  /\ Invoiced(o)
  /\ refunds' = [refunds EXCEPT ![o][i].note = creditNo + 1]
  /\ DrawCreditNo
  /\ UNCHANGED <<vars, place, patch, invoices, cancelNote, commands>>

-----------------------------------------------------------------------------
(***************************************************************************)
(* purge_recycle_bin.  An order past its retention and without an invoice  *)
(* is deleted with its payment, refunds and payment events.  An invoice    *)
(* raised since the check protects it.                                     *)
(***************************************************************************)
PurgeCheck(o) ==
  /\ purging = NoOrder
  /\ Placed(o) /\ order[o].deleted /\ ~Invoiced(o)
  /\ purging' = o
  /\ UNCHANGED <<vars, place, patch, invoices, notes, burned, backfill, purged>>

(* Mutant: the check made before is enough.                                *)
CheckedBefore(o) == FALSE

Protected(o) == Invoiced(o)

DeleteOrder(o) ==
  /\ order' = [order EXCEPT ![o] = Absent]
  /\ payment' = [payment EXCEPT ![o] = [status |-> "none", rzp |-> NoRzp, old |-> {}]]
  /\ ledger' = {row \in ledger : row[1] \in {"orphan_capture", "orphan_failure"}
                                   \/ razorpay[row[2]].order # o}
  /\ refunds' = [refunds EXCEPT ![o] = <<>>]
  /\ purged' = purged \cup {o}
  /\ UNCHANGED <<shelf, processed, mails, razorpay, acked, req, l3,
                 cancelNote, creditNo, noteFailed>>

PurgeDelete ==
  /\ purging # NoOrder
  /\ IF Protected(purging) THEN UNCHANGED <<vars, notes, purged>> ELSE DeleteOrder(purging)
  /\ purging' = NoOrder
  /\ UNCHANGED <<place, patch, invoices, burned, backfill>>

-----------------------------------------------------------------------------
(* Steps of OrderPayments that raise no document.                          *)
Elsewhere ==
  /\ \/ \E q \in Requests, o \in Orders, r \in RzpIds : CreateOrderMint(q, o, r)
     \/ \E q \in Requests : req[q].order \in Orders \ purged /\ CreateOrderCommit(q)
     \/ \E q \in Requests : CreateOrderDies(q)
     \/ \E o \in Binnable : SoftDelete(o) \/ Undelete(o)
     \/ \E r \in RzpIds, amount \in Shortfalls : GatewayCapture(r, amount)
     \/ \E r \in RzpIds : GatewayDecline(r)
     \/ \E due \in SUBSET Orders : L3Query(due)
     \/ \E o \in Orders : L3Fetch(o) \/ L3FetchFails(o)
     \/ \E kept \in SUBSET processed : L3Finish(kept)
     \/ L3Crash
  /\ UNCHANGED docs

DocNext ==
  \/ \E o \in Orders, m \in Methods, t \in Totals, p \in Places : PlaceOrder(o, m, t, p)
  \/ Capture
  \/ \E o \in Orders, who \in Cancellers : CancelOrder(o, who)
  \/ \E o \in Orders, p \in Places : PatchPlaceCheck(o, p)
  \/ \E o \in Orders, status \in AdminStatuses, edit \in HandEdits \cup {"keep"},
        tick \in {"keep", "tick", "untick"} :
       /\ status = "refunded" /\ (tick # "keep" \/ edit # "keep") => CombinedEdits
       /\ \E given \in IF status = "refunded" THEN 0..order[o].total ELSE {0} : PatchOrder(o, status, edit, tick, given)
  \/ BackfillLoad \/ BackfillIssue \/ BackfillEnds
  \/ \E o \in Orders : BackfillJudge(o) \/ PurgeCheck(o)
  \/ \E o \in Orders : \E i \in DOMAIN refunds[o] : BackfillCreditNote(o, i)
  \/ PurgeDelete
  \/ Elsewhere

DocSpec == DocInit /\ [][DocNext]_<<vars, docs>>

DocTypeOK ==
  /\ place \in [Orders -> Places \cup {""}]
  /\ invoice \in [Orders -> [seq : Nat, place : Places \cup {""}]]
  /\ refunds \in [Orders -> Seq([amount : Nat, note : Nat])]
  /\ DOMAIN cancelNote = Orders /\ \A o \in Orders : cancelNote[o].seq \in Nat
  /\ invoiceNo \in Nat /\ creditNo \in Nat
  /\ burned \subseteq Nat
  /\ invoiceFailed \subseteq Orders /\ noteFailed \subseteq Orders
  /\ patch \in [order : Orders \cup {NoOrder}, place : Places \cup {""}]
  /\ backfill \in [pc : {"idle", "next", "issue"}, order : Orders \cup {NoOrder},
                   copies : [Orders -> [status : Statuses \cup {"absent"}, pay : PayStatuses,
                                        place : Places \cup {""}]]]
  /\ purging \in Orders \cup {NoOrder} /\ purged \subseteq Orders

-----------------------------------------------------------------------------
(***************************************************************************)
(* Safety.                                                                 *)
(***************************************************************************)
InvoiceNos == {invoice[o].seq : o \in {x \in Orders : Invoiced(x)}}
(* The notes of an order: of its refunds, and 0 the cancellation note.     *)
NotesOf(o)  == Noted(o) \cup (IF cancelNote[o].seq > 0 THEN {0} ELSE {})
CreditNotes == UNION {{o} \X NotesOf(o) : o \in Orders}
NoteNo(n) == IF n[2] = 0 THEN cancelNote[n[1]].seq ELSE refunds[n[1]][n[2]].note
CreditNos == {NoteNo(n) : n \in CreditNotes}

(* However captures, edits and the backfill interleave, every number up to *)
(* the counter is on one invoice or was burned by a lost insert (the row   *)
(* lock of allocate_invoice_number), and no two invoices share one.        *)
InvoiceSeries ==
  /\ InvoiceNos \cup burned = 1..invoiceNo
  /\ InvoiceNos \cap burned = {}
  /\ \A o, p \in Orders : Invoiced(o) /\ invoice[o].seq = invoice[p].seq => o = p

(* gst_ledger.documents_issued: the numbers missing between the first and  *)
(* the last of a series.                                                   *)
Gap(nos) == IF nos = {} THEN 0 ELSE (Max(nos) - Min(nos) + 1) - Cardinality(nos)

(* The gap the report shows in red is never more than the numbers burned,  *)
(* and the credit notes have none: a failed note gives its number back.    *)
GapsExplained ==
  /\ Gap(InvoiceNos) <= Cardinality(burned)
  /\ CreditNos = 1..creditNo
  /\ Cardinality(CreditNotes) = creditNo

(* A supply that happened (money received or goods sent out, not           *)
(* cancelled) is billed, or its failure was logged for backfill_invoices:  *)
(* no path to "paid" or "shipped" forgets the invoice.                     *)
SupplyInvoiced ==
  \A o \in Orders :
    Placed(o) /\ InvoiceIsDue(o, order[o]) => o \in invoiceFailed

(* A refund of an invoiced order has its credit note, or a failure to      *)
(* raise one of the two was logged.                                        *)
RefundsNoted ==
  \A o \in Orders : Invoiced(o) /\ Noted(o) # DOMAIN refunds[o]
                      => o \in invoiceFailed \cup noteFailed

(* The cancellation note squares the invoice: with the notes numbered      *)
(* before it, exactly the total is credited, however many part refunds     *)
(* came first.  Without one, no more than the total is.                    *)
CreditedBefore(o, seq) ==
  SumFunction([i \in {j \in Noted(o) : refunds[o][j].note < seq} |-> refunds[o][i].amount])

CancellationSquares ==
  \A o \in Orders :
    IF cancelNote[o].seq > 0
      THEN /\ cancelNote[o].amount \in Nat
           /\ CreditedBefore(o, cancelNote[o].seq) + cancelNote[o].amount = order[o].total
      ELSE Credited(o) <= order[o].total

(* An issued invoice is never changed, and its order is never deleted,     *)
(* even when a payment is captured between the purge's check and its       *)
(* delete.                                                                 *)
InvoiceKept ==
  [][\A o \in Orders : Invoiced(o) => invoice'[o] = invoice[o] /\ order'[o].status # "absent"]_<<vars, docs>>

(* What happens to an order is on paper or logged: the supply, and each    *)
(* refund.                                                                 *)
Documented == SupplyInvoiced /\ RefundsNoted

(* Both series of numbers are accounted for, burned ones included.         *)
SeriesAccounted == DocTypeOK /\ InvoiceSeries /\ GapsExplained

=============================================================================
