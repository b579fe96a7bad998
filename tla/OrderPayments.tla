---------------------------- MODULE OrderPayments ----------------------------
(***************************************************************************)
(* The life of one customer's orders and of the Razorpay payments behind   *)
(* them: the Order row, its one-to-one Payment row, the reserved stock,    *)
(* and every handler of the backend that writes them.                      *)
(*                                                                         *)
(*   - checkout                  orders/views.py        OrderViewSet.create*)
(*   - cancel, PATCH, delete     orders/views.py        OrderViewSet       *)
(*   - create-order, verify,     payments/views.py                         *)
(*     webhook (L1 and L2)                                                 *)
(*   - the shared transitions    payments/services.py                      *)
(*   - the L3 job, resync        payments/management/commands              *)
(*   - the refund ledger         orders/refunds.py                         *)
(*                                                                         *)
(* Each database transaction takes the Order lock, then the Payment lock,  *)
(* and is one action.  A handler that reads before it locks, or that calls *)
(* Razorpay between two transactions, is several actions that carry what   *)
(* was read: create-order is CreateOrderMint and CreateOrderCommit, the L3 *)
(* job is L3Query, L3Fetch and L3Act.                                      *)
(*                                                                         *)
(* Left out: the contents of cart and order lines, tax, tax documents and  *)
(* e-mails, none of which is read by a guard of these handlers; an order   *)
(* holds one unit of one variant.                                          *)
(***************************************************************************)
EXTENDS Integers, FiniteSets

CONSTANTS
  Orders,         (* The orders the customer may place.                     *)
  NoOrder,        (* Not an order.                                          *)
  Requests,       (* Requests to create-order that may be in flight.        *)
  MaxRzp,         (* Bound: Razorpay orders minted.                         *)
  Units,          (* Units of the variant on the shelf at the start.        *)
  Totals,         (* Order totals, in units of refund; 0 is a free order.   *)
  Methods,        (* Payment methods customers choose.                      *)
  AdminStatuses,  (* Order statuses that staff select in the panel.         *)
  HandEdits,      (* payment_status values that staff type in the panel.    *)
  CombinedEdits,  (* Whether one PATCH may move the tick and refund at once.*)
  Cancellers,     (* Who uses the cancel endpoint: "customer", "staff".     *)
  Binnable,       (* Orders that staff move to and from the Recycle Bin.    *)
  EventTypes,     (* Webhook events subscribed to at Razorpay.              *)
  Shortfalls      (* Captured amounts: "full", and "short" where possible.  *)

Statuses == {"pending", "confirmed", "processing", "shipped", "delivering",
             "delivered", "cancelled", "refunded"}
PayStatuses == {"pending", "processing", "paid", "failed", "rejected", "refunded"}

WebhookTypes == {"payment.captured", "order.paid", "payment.failed"}

ASSUME NoOrderAssumption  == NoOrder \notin Orders
ASSUME OrdersAssumption   == IsFiniteSet(Orders)
ASSUME BoundsAssumption   == MaxRzp \in Nat /\ Units \in Nat
ASSUME TotalsAssumption   == Totals \subseteq Nat
ASSUME MethodsAssumption  == Methods \subseteq {"ONLINE", "COD"}
ASSUME AdminAssumption    == AdminStatuses \subseteq Statuses /\ HandEdits \subseteq PayStatuses
ASSUME CombinedAssumption == CombinedEdits \in BOOLEAN
ASSUME CancelAssumption   == Cancellers \subseteq {"customer", "staff"}
ASSUME EventAssumption    == Binnable \subseteq Orders /\ EventTypes \subseteq WebhookTypes
ASSUME ShortAssumption    == Shortfalls \subseteq {"full", "short"}

VARIABLES
  order,      (* Order rows.                                                *)
  payment,    (* Payment rows; status "none" when the order has no row.     *)
  shelf,      (* ProductVariant.stock of the unit of sale.                  *)
  processed,  (* ProcessedWebhookEvent: ids of the events handled.          *)
  ledger,     (* PaymentEvent rows <<event_type, Razorpay order>>.          *)
  mails,      (* Order confirmations sent for each Razorpay order.          *)
  razorpay,   (* At Razorpay: the orders minted and what became of them.    *)
  acked,      (* Webhook events answered with 200.                          *)
  req,        (* create-order requests between the mint and the commit.     *)
  l3          (* The reconciliation job between its query and its end.      *)

vars == <<order, payment, shelf, processed, ledger, mails, razorpay, acked, req, l3>>

NoRzp  == 0
RzpIds == 1..MaxRzp
Events == [type : EventTypes, rzp : RzpIds]
LedgerKinds == {"captured", "captured_after_cancel", "amount_mismatch",
                "orphan_capture", "orphan_failure"}
LedgerRows == LedgerKinds \X RzpIds

(* The Order columns the handlers read and write.  "absent": no row yet.   *)
OrderRows == [status : Statuses \cup {"absent"}, pay : PayStatuses,
              method : {"ONLINE", "COD"}, total : Nat, refunded : Nat,
              restored : BOOLEAN,   \* stock_restored_at is set
              cod : BOOLEAN,        \* cod_paid_at is set
              deleted : BOOLEAN]    \* is_deleted

PaymentRows == [status : {"none", "pending", "completed", "failed", "refunded"},
                rzp : RzpIds \cup {NoRzp},    \* payment_id
                old : SUBSET RzpIds]          \* superseded_order_ids

Idle == [order |-> NoOrder, rzp |-> NoRzp]
L3Idle == [pc |-> "idle", todo |-> {}, order |-> NoOrder, rzp |-> NoRzp, captured |-> FALSE]

Absent == [status |-> "absent", pay |-> "pending", method |-> "ONLINE", total |-> 0,
           refunded |-> 0, restored |-> FALSE, cod |-> FALSE, deleted |-> FALSE]

Init ==
  /\ order     = [o \in Orders |-> Absent]
  /\ payment   = [o \in Orders |-> [status |-> "none", rzp |-> NoRzp, old |-> {}]]
  /\ shelf     = Units
  /\ processed = {}
  /\ ledger    = {}
  /\ mails     = [r \in RzpIds |-> 0]
  /\ razorpay  = [r \in RzpIds |-> [order |-> NoOrder, captured |-> "no", declined |-> FALSE]]
  /\ acked     = {}
  /\ req       = [q \in Requests |-> Idle]
  /\ l3        = L3Idle

Placed(o)  == order[o].status # "absent"
Current(r) == {o \in Orders : payment[o].rzp = r /\ payment[o].status # "none"}

-----------------------------------------------------------------------------
(***************************************************************************)
(* Stock.  restore_order_stock is idempotent: stock_restored_at closes the *)
(* door behind it.                                                         *)
(***************************************************************************)
Held(o)      == Placed(o) /\ ~order[o].restored
(* Mutant: stock_restored_at is not consulted.                             *)
RestockAgain(os) == shelf + Cardinality(os)

Restock(os)  == shelf + Cardinality({o \in os : ~order[o].restored})

(***************************************************************************)
(* The shared transitions of payments/services.py.  ev is {} or the set of *)
(* the webhook event being handled; amount is "unchecked" on /verify/.     *)
(***************************************************************************)
(* Mutant: a completed payment is not seen as terminal.                    *)
RefundedOnly(o) == payment[o].status = "refunded"

Terminal(o)  == payment[o].status \in {"completed", "refunded"}
Seen(ev)     == ev # {} /\ ev \subseteq processed
Record(ev)   == processed' = processed \cup ev
(* Mutant: capture and cancel interleave into "cancelled but paid".        *)
AnyStatus(o) == TRUE

Fulfillable(o) == order[o].status # "cancelled"
Completed(o) == [payment EXCEPT ![o].status = "completed"]

(* A terminal payment ignores the capture.                                 *)
CaptureIgnored(o, r, ev) ==
  /\ Terminal(o)
  /\ Record(ev)
  /\ UNCHANGED <<order, payment, ledger, mails>>

(* An event id already on the idempotency ledger changes nothing.          *)
CaptureSeen(o, r, ev) ==
  /\ ~Terminal(o) /\ Seen(ev)
  /\ UNCHANGED <<order, payment, processed, ledger, mails>>

(* Never fulfil on an amount mismatch.                                     *)
CaptureMismatch(o, r, ev, amount) ==
  /\ ~Terminal(o) /\ ~Seen(ev) /\ amount = "short"
  /\ Record(ev)
  /\ ledger' = ledger \cup {<<"amount_mismatch", r>>}
  /\ UNCHANGED <<order, payment, mails>>

(* The money is recorded, the cancelled order is not reopened.             *)
CaptureAfterCancel(o, r, ev, amount) ==
  /\ ~Terminal(o) /\ ~Seen(ev) /\ amount # "short"
  /\ ~Fulfillable(o)
  /\ payment' = Completed(o)
  /\ Record(ev)
  /\ ledger' = ledger \cup {<<"captured_after_cancel", r>>}
  /\ UNCHANGED <<order, mails>>

(* The order is confirmed and paid, from any status but "cancelled".       *)
CaptureConfirm(o, r, ev, amount) ==
  /\ ~Terminal(o) /\ ~Seen(ev) /\ amount # "short"
  /\ Fulfillable(o)
  /\ payment' = Completed(o)
  /\ order' = [order EXCEPT ![o].status = "confirmed", ![o].pay = "paid"]
  /\ Record(ev)
  /\ ledger' = ledger \cup {<<"captured", r>>}
  /\ mails' = [mails EXCEPT ![r] = @ + 1]

MarkCaptured(o, r, ev, amount) ==
  /\ \/ CaptureIgnored(o, r, ev)
     \/ CaptureSeen(o, r, ev)
     \/ CaptureMismatch(o, r, ev, amount)
     \/ CaptureAfterCancel(o, r, ev, amount)
     \/ CaptureConfirm(o, r, ev, amount)
  /\ UNCHANGED shelf

(* Only a pending payment fails; the order keeps its status.               *)
(* Mutant: only a refund, not a capture, outranks a late failure.          *)
NotRefunded(o) == payment[o].status # "refunded"

MayFail(o) == payment[o].status = "pending"

FailApplies(o, ev) ==
  /\ ~Seen(ev) /\ MayFail(o)
  /\ payment' = [payment EXCEPT ![o].status = "failed"]
  /\ order' = [order EXCEPT ![o].pay = "failed"]
  /\ Record(ev)

FailIgnored(o, ev) ==
  /\ ~Seen(ev) /\ ~MayFail(o)
  /\ Record(ev)
  /\ UNCHANGED <<order, payment>>

MarkFailed(o, ev) ==
  /\ \/ Seen(ev) /\ UNCHANGED <<order, payment, processed>>
     \/ FailApplies(o, ev)
     \/ FailIgnored(o, ev)
  /\ UNCHANGED <<shelf, ledger, mails>>

-----------------------------------------------------------------------------
(***************************************************************************)
(* Checkout.  An earlier ONLINE order still pending on both columns is     *)
(* cancelled and restocked in the same transaction.  A free order is born  *)
(* confirmed and paid, with no Payment row.                                *)
(***************************************************************************)
Stale(o) == /\ Placed(o) /\ order[o].method = "ONLINE" /\ ~order[o].deleted
            /\ order[o].status = "pending" /\ order[o].pay = "pending"

NewOrder(m, t) ==
  [Absent EXCEPT !.method = m, !.total = t,
                 !.status = IF t = 0 THEN "confirmed" ELSE "pending",
                 !.pay    = IF t = 0 THEN "paid" ELSE "pending"]

Abandoned(row) == [row EXCEPT !.status = "cancelled", !.pay = "rejected", !.restored = TRUE]

Checkout(o, m, t) ==
  /\ ~Placed(o)
  /\ shelf > 0
  /\ order' = [x \in Orders |-> IF x = o THEN NewOrder(m, t)
                                ELSE IF Stale(x) THEN Abandoned(order[x])
                                ELSE order[x]]
  /\ shelf' = Restock({x \in Orders : Stale(x)}) - 1
  /\ UNCHANGED <<payment, processed, ledger, mails, razorpay, acked, req, l3>>

(***************************************************************************)
(* OrderViewSet.cancel, by the customer or by staff.                       *)
(***************************************************************************)
Uncancellable == {"delivered", "delivering", "cancelled", "refunded"}

MayCancel(o, who) ==
  /\ Placed(o)
  /\ order[o].status \notin Uncancellable
  /\ who = "customer" => ~order[o].deleted /\ payment[o].status # "completed"

Cancel(o, who) ==
  /\ MayCancel(o, who)
  /\ order' = [order EXCEPT ![o].status = "cancelled", ![o].restored = TRUE]
  /\ shelf' = Restock({o})
  /\ UNCHANGED <<payment, processed, ledger, mails, razorpay, acked, req, l3>>

(***************************************************************************)
(* OrderViewSet.update: staff PATCH status, payment_status, the "Paid in   *)
(* cash" tick and a refund amount, any of them at once.                    *)
(***************************************************************************)
RefundableBalance(o) == order[o].total - order[o].refunded

IsRefundablePayment(o) ==
  /\ order[o].pay \in {"paid", "refunded"}
  /\ order[o].method = "COD" => order[o].cod

(* A receipt a refund was made against is not taken back.                  *)
(* Mutant: the un-tick is always allowed.                                  *)
AlwaysUntick(o) == TRUE

MayUntick(o) == order[o].refunded = 0

Edited(row, edit) == IF edit = "keep" THEN row ELSE [row EXCEPT !.pay = edit]

Ticked(row, tick) ==
  CASE tick = "tick"   /\ ~row.cod -> [row EXCEPT !.cod = TRUE, !.pay = "paid"]
    [] tick = "untick" /\ row.cod  -> [row EXCEPT !.cod = FALSE, !.pay = "pending"]
    [] OTHER -> row

(* record_refund(mark_refunded=True): also a part refund moves the order.  *)
Refunded(row, amount) ==
  [row EXCEPT !.refunded = @ + amount, !.status = "refunded", !.pay = "refunded",
              !.restored = TRUE]

AdminUpdate(o, status, edit, tick, given) ==
  LET old        == order[o].status
      cancelling == status = "cancelled" /\ old # "cancelled"
      recording  == status = "refunded" /\ (old # "refunded" \/ given > 0)
      amount     == IF given > 0 THEN given ELSE RefundableBalance(o)
      row        == [Ticked(Edited(order[o], edit), tick) EXCEPT !.status = status]
  IN  /\ Placed(o)
      /\ cancelling => old \notin {"delivered", "delivering"}
      /\ recording => /\ IsRefundablePayment(o)
                      /\ RefundableBalance(o) > 0
                      /\ amount <= RefundableBalance(o)
      /\ tick # "keep" => order[o].method = "COD"
      /\ tick = "untick" /\ order[o].cod => MayUntick(o)
      /\ order' = [order EXCEPT ![o] =
                     IF recording THEN Refunded(row, amount)
                     ELSE IF cancelling THEN [row EXCEPT !.restored = TRUE]
                     ELSE row]
      /\ shelf' = IF cancelling \/ recording THEN Restock({o}) ELSE shelf
      /\ UNCHANGED <<payment, processed, ledger, mails, razorpay, acked, req, l3>>

(* The Recycle Bin: destroy and restore touch nothing but the flag.        *)
SoftDelete(o) ==
  /\ Placed(o) /\ ~order[o].deleted
  /\ order' = [order EXCEPT ![o].deleted = TRUE]
  /\ UNCHANGED <<payment, shelf, processed, ledger, mails, razorpay, acked, req, l3>>

Undelete(o) ==
  /\ Placed(o) /\ order[o].deleted
  /\ order' = [order EXCEPT ![o].deleted = FALSE]
  /\ UNCHANGED <<payment, shelf, processed, ledger, mails, razorpay, acked, req, l3>>

-----------------------------------------------------------------------------
(***************************************************************************)
(* POST /payments/create-order/.  The checks and the reuse of a pending    *)
(* payment are made without a lock, then Razorpay mints an order, then a   *)
(* transaction stores it.  The minted id is unknown to everyone until      *)
(* then, so the checks and the mint are one action.                        *)
(***************************************************************************)
Reusable(o) == payment[o].status = "pending" /\ payment[o].rzp # NoRzp

CreateOrderMint(q, o, r) ==
  /\ req[q] = Idle
  /\ Placed(o)
  /\ order[o].status # "cancelled" /\ order[o].pay # "paid" /\ order[o].total > 0
  /\ ~Reusable(o)
  /\ razorpay[r].order = NoOrder
  /\ \A s \in RzpIds : s < r => razorpay[s].order # NoOrder
  /\ razorpay' = [razorpay EXCEPT ![r].order = o]
  /\ req' = [req EXCEPT ![q] = [order |-> o, rzp |-> r]]
  /\ UNCHANGED <<order, payment, shelf, processed, ledger, mails, acked, l3>>

(* Under the locks only the reuse is checked again.  Otherwise the payment *)
(* is pending on the new id, whatever its status was.                      *)
Superseding(o, r) ==
  [payment EXCEPT ![o] = [status |-> "pending", rzp |-> r,
                          old |-> @.old \cup ({@.rzp} \ {NoRzp})]]

CreateOrderCommit(q) ==
  LET o == req[q].order
  IN  /\ req[q] # Idle
      /\ payment' = IF Reusable(o) THEN payment ELSE Superseding(o, req[q].rzp)
      /\ req' = [req EXCEPT ![q] = Idle]
      /\ UNCHANGED <<order, shelf, processed, ledger, mails, razorpay, acked, l3>>

(* The worker dies, or Razorpay's answer is lost, after the mint.          *)
CreateOrderDies(q) ==
  /\ req[q] # Idle
  /\ req' = [req EXCEPT ![q] = Idle]
  /\ UNCHANGED <<order, payment, shelf, processed, ledger, mails, razorpay, acked, l3>>

-----------------------------------------------------------------------------
(***************************************************************************)
(* Razorpay and the customer's browser.  Whoever was ever given an id may  *)
(* pay it; an attempt may be declined and tried again.  A capture raises   *)
(* two events and a decline one.                                           *)
(***************************************************************************)
Offered(r) == \E o \in Orders : r = payment[o].rzp \/ r \in payment[o].old

GatewayCapture(r, amount) ==
  /\ Offered(r) /\ razorpay[r].captured = "no"
  /\ razorpay' = [razorpay EXCEPT ![r].captured = amount]
  /\ UNCHANGED <<order, payment, shelf, processed, ledger, mails, acked, req, l3>>

GatewayDecline(r) ==
  /\ Offered(r) /\ razorpay[r].captured = "no" /\ ~razorpay[r].declined
  /\ razorpay' = [razorpay EXCEPT ![r].declined = TRUE]
  /\ UNCHANGED <<order, payment, shelf, processed, ledger, mails, acked, req, l3>>

Captured(r) == razorpay[r].captured # "no"
Emitted(e)  == IF e.type = "payment.failed" THEN razorpay[e.rzp].declined ELSE Captured(e.rzp)

(***************************************************************************)
(* POST /payments/webhook/ (L2).  Events arrive in any order, any number   *)
(* of times.  An event of no payment of ours is logged and acknowledged.   *)
(***************************************************************************)
DispatchWebhookEvent(o, e) ==
  IF e.type = "payment.failed"
    THEN MarkFailed(o, {e})
    ELSE MarkCaptured(o, e.rzp, {e}, razorpay[e.rzp].captured)

OrphanKind(e) == IF e.type = "payment.failed" THEN "orphan_failure" ELSE "orphan_capture"

(* Mutant: an event of no payment is acknowledged and dropped.             *)
DropOrphan(e) == UNCHANGED <<ledger, order, payment, shelf, processed, mails>>

LogOrphan(e) ==
  /\ ledger' = ledger \cup {<<OrphanKind(e), e.rzp>>}
  /\ UNCHANGED <<order, payment, shelf, processed, mails>>

RazorpayWebhook(e) ==
  /\ Emitted(e)
  /\ IF Current(e.rzp) = {} THEN LogOrphan(e)
     ELSE \E o \in Current(e.rzp) : DispatchWebhookEvent(o, e)
  /\ acked' = acked \cup {e}
  /\ UNCHANGED <<razorpay, req, l3>>

(* POST /payments/verify/ (L1).  A valid signature exists only for a       *)
(* captured payment.                                                       *)
VerifyPayment(o, r) ==
  /\ o \in Current(r) /\ Captured(r)
  /\ MarkCaptured(o, r, {}, "unchecked")
  /\ UNCHANGED <<razorpay, acked, req, l3>>

-----------------------------------------------------------------------------
(***************************************************************************)
(* reconcile_payments (L3).  The query takes the orders past the TTL; each *)
(* is then looked up at Razorpay; the answer is acted on in a transaction  *)
(* of its own.  A PaymentNotFound ends the run.                            *)
(***************************************************************************)
(* Mutant: the query's status list loses "pending".                        *)
StuckProcessing(o) == /\ Placed(o) /\ order[o].method = "ONLINE"
                      /\ order[o].status = "pending" /\ order[o].pay = "processing"

Stuck(o) == /\ Placed(o) /\ order[o].method = "ONLINE"
            /\ order[o].status = "pending" /\ order[o].pay \in {"pending", "processing"}

L3Query(due) ==
  /\ l3.pc = "idle"
  /\ due # {} /\ \A o \in due : Stuck(o)
  /\ l3' = [L3Idle EXCEPT !.pc = "next", !.todo = due]
  /\ UNCHANGED <<order, payment, shelf, processed, ledger, mails, razorpay, acked, req>>

L3Fetch(o) ==
  LET r == payment[o].rzp
  IN  /\ l3.pc = "next" /\ o \in l3.todo
      /\ l3' = [pc |-> "act", todo |-> l3.todo \ {o}, order |-> o, rzp |-> r,
                captured |-> r # NoRzp /\ Captured(r)]
      /\ UNCHANGED <<order, payment, shelf, processed, ledger, mails, razorpay, acked, req>>

L3FetchFails(o) ==
  /\ l3.pc = "next" /\ o \in l3.todo /\ payment[o].rzp # NoRzp
  /\ l3' = [l3 EXCEPT !.todo = @ \ {o}]
  /\ UNCHANGED <<order, payment, shelf, processed, ledger, mails, razorpay, acked, req>>

(* Mutant: the order is not looked at again under the lock.                *)
CancelUnguarded(o) ==
  /\ order' = [order EXCEPT ![o] = Abandoned(@)]
  /\ shelf' = Restock({o})
  /\ UNCHANGED <<payment, processed, ledger, mails>>

CancelAbandoned(o) ==
  /\ IF order[o].status = "cancelled" \/ order[o].pay = "paid"
       THEN UNCHANGED <<order, shelf>>
       ELSE /\ order' = [order EXCEPT ![o] = Abandoned(@)]
            /\ shelf' = Restock({o})
  /\ UNCHANGED <<payment, processed, ledger, mails>>

L3Act ==
  /\ l3.pc = "act"
  /\ l3' = IF l3.captured /\ Current(l3.rzp) = {} THEN L3Idle
           ELSE [l3 EXCEPT !.pc = "next", !.order = NoOrder, !.rzp = NoRzp, !.captured = FALSE]
  /\ IF ~l3.captured THEN CancelAbandoned(l3.order)
     ELSE IF Current(l3.rzp) = {} THEN UNCHANGED <<order, payment, shelf, processed, ledger, mails>>
     ELSE \E o \in Current(l3.rzp) : MarkCaptured(o, l3.rzp, {}, razorpay[l3.rzp].captured)
  /\ UNCHANGED <<razorpay, acked, req>>

(* The idempotency ledger is pruned of the events past the retry window.   *)
L3Finish(kept) ==
  /\ l3.pc = "next" /\ l3.todo = {}
  /\ kept \subseteq processed
  /\ processed' = kept
  /\ l3' = L3Idle
  /\ UNCHANGED <<order, payment, shelf, ledger, mails, razorpay, acked, req>>

(* The job's process is killed between two of its transactions.            *)
L3Crash ==
  /\ l3 # L3Idle
  /\ l3' = L3Idle
  /\ UNCHANGED <<order, payment, shelf, processed, ledger, mails, razorpay, acked, req>>

(***************************************************************************)
(* resync_payments, run by hand.  Each payment is compared with Razorpay;  *)
(* an order that drifted from a completed payment is only reported.        *)
(***************************************************************************)
ResyncPayment(o) ==
  LET r == payment[o].rzp
  IN  /\ r # NoRzp /\ Captured(r)
      /\ \/ /\ payment[o].status # "completed"
            /\ MarkCaptured(o, r, {}, razorpay[r].captured)
         \/ /\ payment[o].status = "completed" /\ order[o].pay # "paid"
            /\ ledger' = ledger \cup {<<"amount_mismatch", r>>}
            /\ UNCHANGED <<order, payment, shelf, processed, mails>>
      /\ UNCHANGED <<razorpay, acked, req, l3>>

-----------------------------------------------------------------------------
Cancelling == \E o \in Orders, who \in Cancellers : Cancel(o, who)

Customer ==
  \/ \E o \in Orders, m \in Methods, t \in Totals : Checkout(o, m, t)
  \/ \E q \in Requests, o \in Orders, r \in RzpIds : CreateOrderMint(q, o, r)
  \/ \E q \in Requests : CreateOrderCommit(q) \/ CreateOrderDies(q)
  \/ \E o \in Orders, r \in RzpIds : VerifyPayment(o, r)

Staff ==
  \/ \E o \in Orders : ResyncPayment(o)
  \/ \E o \in Binnable : SoftDelete(o) \/ Undelete(o)
  \/ \E o \in Orders, status \in AdminStatuses, edit \in HandEdits \cup {"keep"},
        tick \in {"keep", "tick", "untick"} :
       /\ status = "refunded" /\ tick # "keep" => CombinedEdits
       /\ \E given \in 0..order[o].total : AdminUpdate(o, status, edit, tick, given)

Razorpay ==
  \/ \E r \in RzpIds, amount \in Shortfalls : GatewayCapture(r, amount)
  \/ \E r \in RzpIds : GatewayDecline(r)
  \/ \E e \in Events : RazorpayWebhook(e)

Reconcile ==
  \/ \E due \in SUBSET Orders : L3Query(due)
  \/ \E o \in Orders : L3Fetch(o) \/ L3FetchFails(o)
  \/ L3Act
  \/ \E kept \in SUBSET processed : L3Finish(kept)
  \/ L3Crash

Next == Customer \/ Cancelling \/ Staff \/ Razorpay \/ Reconcile

Spec == Init /\ [][Next]_vars

TypeOK ==
  /\ order \in [Orders -> OrderRows]
  /\ payment \in [Orders -> PaymentRows]
  /\ shelf \in Nat
  /\ processed \subseteq Events
  /\ ledger \subseteq LedgerRows
  /\ mails \in [RzpIds -> Nat]
  /\ razorpay \in [RzpIds -> [order : Orders \cup {NoOrder}, captured : {"no", "full", "short"},
                              declined : BOOLEAN]]
  /\ acked \subseteq Events
  /\ req \in [Requests -> [order : Orders \cup {NoOrder}, rzp : RzpIds \cup {NoRzp}]]
  /\ l3 \in [pc : {"idle", "next", "act"}, todo : SUBSET Orders, order : Orders \cup {NoOrder},
             rzp : RzpIds \cup {NoRzp}, captured : BOOLEAN]

(***************************************************************************)
(* Safety.                                                                 *)
(***************************************************************************)
Sold(r)  == <<"captured", r>> \in ledger

(* Every unit is on the shelf or held by exactly one order: whichever of   *)
(* the five paths that release an order's stock run, and in whatever       *)
(* order, restore_order_stock gives its unit back once.                    *)
StockConserved == shelf + Cardinality({o \in Orders : Held(o)}) = Units

(* Every unit and every amount is a count that adds up: no path of the     *)
(* order, the webhook or the L3 job writes a row out of its type, and none *)
(* loses or doubles a unit (the restored_at flag of restore_order_stock).  *)
UnitsAddUp == TypeOK /\ StockConserved

(* However /verify/, repeated webhooks, L3 and resync race, the customer   *)
(* is told once that a Razorpay order was paid (services.py, the           *)
(* terminal-status guard).                                                 *)
ConfirmedOnce == \A r \in RzpIds : mails[r] <= 1

(* No captured payment is acknowledged to Razorpay, which then stops       *)
(* sending it, without a row that says what became of the money.           *)
CaptureAccounted ==
  \A e \in acked : e.type # "payment.failed" =>
    \E kind \in LedgerKinds \ {"orphan_failure"} : <<kind, e.rzp>> \in ledger

(* An order reads paid or refunded only for money that exists: a capture   *)
(* of one of its Razorpay orders, the cash tick, or nothing to pay.        *)
PaidMoneyExists ==
  \A o \in Orders : Placed(o) /\ order[o].pay \in {"paid", "refunded"} =>
    \/ order[o].total = 0 \/ order[o].cod
    \/ \E r \in RzpIds : razorpay[r].order = o /\ Captured(r)

(* A completed payment whose ONLINE order does not say so, and that was    *)
(* not refunded, is on the exceptions queue: no race of a capture with a   *)
(* cancel or with L3 leaves money that nobody is told of.                  *)
UnbookedMoneyFlagged ==
  \A o \in Orders :
    payment[o].status = "completed" /\ order[o].method = "ONLINE"
      /\ order[o].refunded = 0 /\ order[o].pay # "paid"
    => <<"captured_after_cancel", payment[o].rzp>> \in ledger

(* Refunds, in however many instalments, stay within the total and within  *)
(* money received: a sale through Razorpay or the cash tick, which cannot  *)
(* be taken back after a refund (CombinedEdits FALSE).                     *)
RefundsBacked ==
  \A o \in Orders :
    /\ order[o].refunded <= order[o].total
    /\ order[o].refunded > 0 =>
         order[o].cod \/ \E r \in RzpIds : razorpay[r].order = o /\ Sold(r)

(***************************************************************************)
(* What a step may never do.                                               *)
(***************************************************************************)
(* A transition of a Payment never reopens a cancelled order.              *)
PaymentNeverReopens ==
  [][\A o \in Orders : payment'[o] # payment[o] /\ order[o].status = "cancelled"
                         => order'[o].status = "cancelled"]_vars

(* A completed payment is left only by create-order's commit; no webhook,  *)
(* in whatever order it arrives, downgrades it.                            *)
CompletedIsFinal ==
  [][\A o \in Orders : payment[o].status = "completed" /\ payment'[o].status # "completed"
                         => \E q \in Requests : CreateOrderCommit(q)]_vars

(***************************************************************************)
(* Liveness.  The scheduler starts the L3 job every few minutes, one run   *)
(* at a time; it is not killed in every run, and Razorpay answers now and  *)
(* then.  Razorpay redelivers an event until it is acknowledged.           *)
(***************************************************************************)
ReconcileFairness ==
  \A o \in Orders :
    /\ SF_vars(\E due \in SUBSET Orders : o \in due /\ L3Query(due))
    /\ SF_vars(L3Fetch(o))
    /\ SF_vars(l3.order = o /\ L3Act)
    /\ WF_vars(\E kept \in SUBSET processed : L3Finish(kept))

WebhookFairness == \A e \in Events : WF_vars(e \notin acked /\ RazorpayWebhook(e))

ReconcileSpec == Spec /\ ReconcileFairness

(* Awaiting the gateway, as checkout left it.                              *)
Awaiting(o) == /\ order[o].method = "ONLINE"
               /\ order[o].status = "pending" /\ order[o].pay = "pending"

(* An order awaiting payment is settled by L3 even if every webhook is     *)
(* lost.                                                                   *)
AwaitingSettles == \A o \in Orders : Awaiting(o) ~> ~Awaiting(o)

(***************************************************************************)
(* Refinement.  The outcome of a capture is read off the PaymentEvent rows *)
(* of its Razorpay order.                                                  *)
(***************************************************************************)
OutcomeOf(r) ==
  CASE ~Captured(r) -> "none"
    [] Captured(r) /\ Sold(r) -> "sold"
    [] Captured(r) /\ ~Sold(r) /\ (\E kind \in {"captured_after_cancel", "orphan_capture"} :
                                      <<kind, r>> \in ledger) -> "flagged"
    [] OTHER -> "received"

Outcome == INSTANCE CaptureOutcome
             WITH Captures <- RzpIds, outcome <- [r \in RzpIds |-> OutcomeOf(r)]

(* Every interleaving of L1, L2, L3, cancels, checkouts and refunds gives  *)
(* each capture at most one outcome, which never changes ...               *)
OneOutcome == Outcome!SafeSpec

(* ... and, with webhooks redelivered until acknowledged, exactly one.     *)
EveryCaptureSettles == Outcome!SafeSpec /\ (WebhookFairness => Outcome!Fairness)

(* orders/views.py:1490 "Never let a customer self-cancel an order whose   *)
(* money is actually captured": where staff cancel nothing, no cancelled   *)
(* order had a sale.                                                       *)
SelfCancelKeepsNoCapture ==
  \A o \in Orders, r \in RzpIds :
    order[o].status = "cancelled" /\ razorpay[r].order = o => ~Sold(r)

(* Money is behind what the books say: no order is paid for with money     *)
(* that does not exist, and nothing is given back that was not received.   *)
MoneyBacked == PaidMoneyExists /\ RefundsBacked

=============================================================================
