------------------------- MODULE TaxDocuments_proofs -------------------------
(***************************************************************************)
(* Theorems about the orders and their payments, and then about the tax    *)
(* documents written for them, for any orders, requests, Razorpay orders,  *)
(* places, amounts and failures.  Both inductive invariants are built in   *)
(* layers, each resting on the ones before.                                *)
(*                                                                         *)
(* Of OrderPayments:                                                       *)
(*   TypeInv    TypeOK, and what a request or the L3 job carries exists;   *)
(*   StockInv   every unit is on the shelf or held by one order;           *)
(*   MoneyInv   a Razorpay order is offered for one order at a time, and a *)
(*              payment still open on it has no outcome yet;               *)
(*   BooksInv   an order that reads paid has money behind it.              *)
(*                                                                         *)
(* Of TaxDocuments, whose steps leave the payments as they are or are      *)
(* theirs:                                                                 *)
(*   SeriesInv, BackfillInv  the numbers of the invoices, and the order    *)
(*              backfill_invoices has in hand;                             *)
(*   DocTypeOK  the rows, those of the payments included;                  *)
(*   BillInv    who has an invoice, and who is owed one;                   *)
(*   NoteInv    the same for refunds and credit notes;                     *)
(*   CreditInv  the numbers of the credit notes;                           *)
(*   SquareInv  the amounts they credit.                                   *)
(***************************************************************************)
EXTENDS TaxDocuments, NumberFacts, SequenceTheorems

-----------------------------------------------------------------------------
(***************************************************************************)
(* Layer 1.  What is read before a lock and used after it is carried in    *)
(* req and l3; its type depends on the program counter.                    *)
(***************************************************************************)
RequestsTyped == \A q \in Requests :
  req[q] # Idle => req[q].order \in Orders /\ req[q].rzp \in RzpIds

JobTyped == /\ l3.pc = "act" => l3.order \in Orders
            /\ l3.captured => l3.pc = "act" /\ l3.rzp \in RzpIds

TypeInv == TypeOK /\ RequestsTyped /\ JobTyped

(* A restock counts units, whatever set of orders it is given.             *)
LEMMA RestockType ==
  ASSUME shelf \in Nat, NEW os \in SUBSET Orders
  PROVE  Restock(os) \in Nat /\ Restock(os) >= shelf
<1>1. IsFiniteSet({o \in os : ~order[o].restored})
  BY OrdersAssumption, FS_Subset
<1>2. Cardinality({o \in os : ~order[o].restored}) \in Nat
  BY <1>1, FS_CardinalityType
<1> QED
  BY <1>2 DEF Restock

(* The part of TypeOK that the transitions of payments/services.py write.  *)
RowsTyped ==
  /\ order \in [Orders -> OrderRows]
  /\ payment \in [Orders -> PaymentRows]
  /\ shelf \in Nat
  /\ processed \subseteq Events
  /\ ledger \subseteq LedgerRows
  /\ mails \in [RzpIds -> Nat]

LEMMA MarkCapturedType ==
  ASSUME RowsTyped, NEW o \in Orders, NEW r \in RzpIds, NEW ev \in SUBSET Events,
         NEW amount, MarkCaptured(o, r, ev, amount)
  PROVE  RowsTyped'
<1>1. processed \cup ev \subseteq Events
  BY DEF RowsTyped
<1>2. Completed(o) \in [Orders -> PaymentRows]
  BY DEF RowsTyped, Completed, PaymentRows
<1>3. [order EXCEPT ![o].status = "confirmed", ![o].pay = "paid"] \in [Orders -> OrderRows]
  <2>1. [order[o] EXCEPT !.status = "confirmed", !.pay = "paid"] \in OrderRows
    BY DEF RowsTyped, OrderRows, Statuses, PayStatuses
  <2>2. [order EXCEPT ![o].status = "confirmed", ![o].pay = "paid"]
          = [order EXCEPT ![o] = [order[o] EXCEPT !.status = "confirmed", !.pay = "paid"]]
    BY DEF RowsTyped
  <2> QED
    BY <2>1, <2>2 DEF RowsTyped
<1>4. \A kind \in LedgerKinds : ledger \cup {<<kind, r>>} \subseteq LedgerRows
  BY DEF RowsTyped, LedgerRows
<1>5. {"captured", "captured_after_cancel", "amount_mismatch"} \subseteq LedgerKinds
  BY DEF LedgerKinds
<1>6. [mails EXCEPT ![r] = @ + 1] \in [RzpIds -> Nat]
  BY DEF RowsTyped
<1>7. shelf' = shelf
  BY DEF MarkCaptured
<1>a. CASE CaptureIgnored(o, r, ev)
  BY <1>a, <1>1, <1>7 DEF CaptureIgnored, Record, RowsTyped
<1>b. CASE CaptureSeen(o, r, ev)
  BY <1>b, <1>7 DEF CaptureSeen, RowsTyped
<1>c. CASE CaptureMismatch(o, r, ev, amount)
  BY <1>c, <1>1, <1>4, <1>5, <1>7 DEF CaptureMismatch, Record, RowsTyped
<1>d. CASE CaptureAfterCancel(o, r, ev, amount)
  BY <1>d, <1>1, <1>2, <1>4, <1>5, <1>7 DEF CaptureAfterCancel, Record, RowsTyped
<1>e. CASE CaptureConfirm(o, r, ev, amount)
  BY <1>e, <1>1, <1>2, <1>3, <1>4, <1>5, <1>6, <1>7 DEF CaptureConfirm, Record, RowsTyped
<1> QED
  BY <1>a, <1>b, <1>c, <1>d, <1>e DEF MarkCaptured

LEMMA MarkFailedType ==
  ASSUME RowsTyped, NEW o \in Orders, NEW ev \in SUBSET Events, MarkFailed(o, ev)
  PROVE  RowsTyped'
<1>1. processed \cup ev \subseteq Events
  BY DEF RowsTyped
<1>2. [payment EXCEPT ![o].status = "failed"] \in [Orders -> PaymentRows]
  BY DEF RowsTyped, PaymentRows
<1>3. [order EXCEPT ![o].pay = "failed"] \in [Orders -> OrderRows]
  BY DEF RowsTyped, OrderRows, PayStatuses
<1> QED
  BY <1>1, <1>2, <1>3 DEF MarkFailed, FailApplies, FailIgnored, Record, RowsTyped

LEMMA CancelAbandonedType ==
  ASSUME RowsTyped, NEW o \in Orders, CancelAbandoned(o)
  PROVE  RowsTyped'
<1>1. [order EXCEPT ![o] = Abandoned(@)] \in [Orders -> OrderRows]
  BY DEF RowsTyped, Abandoned, OrderRows, Statuses, PayStatuses
<1>2. Restock({o}) \in Nat
  BY RestockType DEF RowsTyped
<1> QED
  BY <1>1, <1>2 DEF CancelAbandoned, RowsTyped

LEMMA EditType ==
  ASSUME NEW row \in OrderRows, NEW edit \in HandEdits \cup {"keep"},
         NEW tick \in {"keep", "tick", "untick"}, NEW status \in AdminStatuses
  PROVE  [Ticked(Edited(row, edit), tick) EXCEPT !.status = status] \in OrderRows
<1>1. Edited(row, edit) \in OrderRows
  BY AdminAssumption DEF Edited, OrderRows
<1>2. \A x \in OrderRows : Ticked(x, tick) \in OrderRows
  BY DEF Ticked, OrderRows, PayStatuses
<1>3. \A x \in OrderRows : [x EXCEPT !.status = status] \in OrderRows
  BY AdminAssumption DEF OrderRows
<1> QED
  BY <1>1, <1>2, <1>3

LEMMA CheckoutType ==
  ASSUME RowsTyped, NEW o \in Orders, NEW m \in Methods, NEW t \in Totals, Checkout(o, m, t)
  PROVE  RowsTyped'
<1>1. NewOrder(m, t) \in OrderRows
  BY MethodsAssumption, TotalsAssumption DEF NewOrder, Absent, OrderRows, Statuses, PayStatuses
<1>2. \A x \in Orders : Abandoned(order[x]) \in OrderRows
  BY DEF RowsTyped, Abandoned, OrderRows, Statuses, PayStatuses
<1>3. order' \in [Orders -> OrderRows]
  BY <1>1, <1>2 DEF Checkout, RowsTyped
<1>4. Restock({x \in Orders : Stale(x)}) \in Nat /\ Restock({x \in Orders : Stale(x)}) >= shelf
  BY RestockType DEF RowsTyped
<1>5. shelf' \in Nat
  BY <1>4 DEF Checkout, RowsTyped
<1> QED
  BY <1>3, <1>5 DEF Checkout, RowsTyped

LEMMA CancelType ==
  ASSUME RowsTyped, NEW o \in Orders, NEW who, Cancel(o, who)
  PROVE  RowsTyped'
<1>1. [order[o] EXCEPT !.status = "cancelled", !.restored = TRUE] \in OrderRows
  BY DEF RowsTyped, OrderRows, Statuses
<1>2. order' = [order EXCEPT ![o] = [order[o] EXCEPT !.status = "cancelled", !.restored = TRUE]]
  BY DEF RowsTyped, Cancel
<1>3. Restock({o}) \in Nat
  BY RestockType DEF RowsTyped
<1> QED
  BY <1>1, <1>2, <1>3 DEF Cancel, RowsTyped

LEMMA AdminUpdateType ==
  ASSUME RowsTyped, NEW o \in Orders, NEW status \in AdminStatuses,
         NEW edit \in HandEdits \cup {"keep"}, NEW tick \in {"keep", "tick", "untick"},
         NEW given \in 0..order[o].total, AdminUpdate(o, status, edit, tick, given)
  PROVE  RowsTyped'
<1> DEFINE old        == order[o].status
           cancelling == status = "cancelled" /\ old # "cancelled"
           recording  == status = "refunded" /\ (old # "refunded" \/ given > 0)
           amount     == IF given > 0 THEN given ELSE RefundableBalance(o)
           row        == [Ticked(Edited(order[o], edit), tick) EXCEPT !.status = status]
<1>1. order[o] \in OrderRows
  BY DEF RowsTyped
<1>2. row \in OrderRows
  BY <1>1, EditType
<1>3. recording => amount \in Nat
  BY <1>1 DEF AdminUpdate, RefundableBalance, OrderRows
<1>4. recording => Refunded(row, amount) \in OrderRows
  <2>1. ASSUME NEW x \in OrderRows, NEW n \in Nat
        PROVE  Refunded(x, n) \in OrderRows
    <3>1. x.refunded + n \in Nat
      BY DEF OrderRows
    <3> DEFINE sum == x.refunded + n
    <3> HIDE DEF sum
    <3>2. sum \in Nat
      BY <3>1 DEF sum
    <3>3. Refunded(x, n) = [x EXCEPT !.refunded = sum, !.status = "refunded",
                                    !.pay = "refunded", !.restored = TRUE]
      BY DEF Refunded, sum
    <3> QED BY <3>2, <3>3 DEF OrderRows, Statuses, PayStatuses
  <2> QED BY <2>1, <1>2, <1>3
<1>5. [row EXCEPT !.restored = TRUE] \in OrderRows
  <2> HIDE DEF row
  <2> QED BY <1>2 DEF OrderRows
<1>6. /\ order' = [order EXCEPT ![o] = IF recording THEN Refunded(row, amount)
                                       ELSE IF cancelling THEN [row EXCEPT !.restored = TRUE]
                                       ELSE row]
      /\ shelf' = IF cancelling \/ recording THEN Restock({o}) ELSE shelf
      /\ UNCHANGED <<payment, processed, ledger, mails>>
  BY DEF AdminUpdate
<1>7. order' \in [Orders -> OrderRows]
  <2> HIDE DEF amount, row, recording, cancelling
  <2> QED BY <1>2, <1>4, <1>5, <1>6 DEF RowsTyped
<1>8. shelf' \in Nat
  BY <1>6, RestockType DEF RowsTyped
<1> QED
  BY <1>6, <1>7, <1>8 DEF RowsTyped

LEMMA SupersedingType ==
  ASSUME RowsTyped, NEW o \in Orders, NEW r \in RzpIds
  PROVE  Superseding(o, r) \in [Orders -> PaymentRows]
<1>1. payment[o] \in PaymentRows
  BY DEF RowsTyped
<1>2. payment[o].old \cup ({payment[o].rzp} \ {NoRzp}) \in SUBSET RzpIds
  BY <1>1 DEF PaymentRows
<1>3. [status |-> "pending", rzp |-> r,
       old |-> payment[o].old \cup ({payment[o].rzp} \ {NoRzp})] \in PaymentRows
  BY <1>2 DEF PaymentRows
<1> QED
  BY <1>3 DEF Superseding, RowsTyped

-----------------------------------------------------------------------------
LEMMA TypeInit == Init => TypeInv
<1> SUFFICES ASSUME Init PROVE TypeInv
  OBVIOUS
<1>1. Absent \in OrderRows
  BY DEF Absent, OrderRows, PayStatuses
<1>2. RowsTyped
  BY <1>1, BoundsAssumption DEF Init, RowsTyped, PaymentRows
<1>3. TypeOK
  BY <1>2 DEF Init, RowsTyped, TypeOK, Idle, L3Idle
<1> QED
  BY <1>3 DEF Init, TypeInv, RequestsTyped, JobTyped, Idle, L3Idle

(* The rest of TypeInv.                                                    *)
InFlightTyped ==
  /\ razorpay \in [RzpIds -> [order : Orders \cup {NoOrder}, captured : {"no", "full", "short"},
                              declined : BOOLEAN]]
  /\ acked \subseteq Events
  /\ req \in [Requests -> [order : Orders \cup {NoOrder}, rzp : RzpIds \cup {NoRzp}]]
  /\ l3 \in [pc : {"idle", "next", "act"}, todo : SUBSET Orders, order : Orders \cup {NoOrder},
             rzp : RzpIds \cup {NoRzp}, captured : BOOLEAN]
  /\ RequestsTyped /\ JobTyped

LEMMA TypeCustomer == TypeInv /\ (Customer \/ Cancelling) => TypeInv'
<1> SUFFICES ASSUME RowsTyped, InFlightTyped, Customer \/ Cancelling
             PROVE  RowsTyped' /\ InFlightTyped'
  BY DEF TypeInv, TypeOK, RowsTyped, InFlightTyped
<1>1. ASSUME NEW o \in Orders, NEW m \in Methods, NEW t \in Totals, Checkout(o, m, t)
      PROVE  RowsTyped' /\ InFlightTyped'
  <2>1. RowsTyped' BY <1>1, CheckoutType
  <2> QED BY <1>1, <2>1 DEF Checkout, InFlightTyped, RequestsTyped, JobTyped
<1>2. ASSUME NEW q \in Requests, NEW o \in Orders, NEW r \in RzpIds, CreateOrderMint(q, o, r)
      PROVE  RowsTyped' /\ InFlightTyped'
  BY <1>2 DEF CreateOrderMint, RowsTyped, InFlightTyped, RequestsTyped, JobTyped, Idle
<1>3. ASSUME NEW q \in Requests, CreateOrderCommit(q)
      PROVE  RowsTyped' /\ InFlightTyped'
  <2>1. req[q].order \in Orders /\ req[q].rzp \in RzpIds
    BY <1>3 DEF CreateOrderCommit, InFlightTyped, RequestsTyped
  <2>2. payment' \in [Orders -> PaymentRows]
    BY <1>3, <2>1, SupersedingType DEF CreateOrderCommit, RowsTyped
  <2> QED BY <1>3, <2>2 DEF CreateOrderCommit, RowsTyped, InFlightTyped, RequestsTyped, JobTyped, Idle
<1>4. ASSUME NEW q \in Requests, CreateOrderDies(q)
      PROVE  RowsTyped' /\ InFlightTyped'
  BY <1>4 DEF CreateOrderDies, RowsTyped, InFlightTyped, RequestsTyped, JobTyped, Idle
<1>5. ASSUME NEW o \in Orders, NEW r \in RzpIds, VerifyPayment(o, r)
      PROVE  RowsTyped' /\ InFlightTyped'
  <2>1. RowsTyped' BY <1>5, MarkCapturedType DEF VerifyPayment
  <2> QED BY <1>5, <2>1 DEF VerifyPayment, InFlightTyped, RequestsTyped, JobTyped
<1>6. ASSUME NEW o \in Orders, NEW who \in Cancellers, Cancel(o, who)
      PROVE  RowsTyped' /\ InFlightTyped'
  <2>1. RowsTyped' BY <1>6, CancelType
  <2> QED BY <1>6, <2>1 DEF Cancel, InFlightTyped, RequestsTyped, JobTyped
<1> QED
  BY <1>1, <1>2, <1>3, <1>4, <1>5, <1>6 DEF Customer, Cancelling

LEMMA TypeStaff == TypeInv /\ Staff => TypeInv'
<1> SUFFICES ASSUME RowsTyped, InFlightTyped, Staff
             PROVE  RowsTyped' /\ InFlightTyped'
  BY DEF TypeInv, TypeOK, RowsTyped, InFlightTyped
<1>1. ASSUME NEW o \in Orders, ResyncPayment(o)
      PROVE  RowsTyped' /\ InFlightTyped'
  <2>1. payment[o].rzp \in RzpIds
    BY <1>1 DEF ResyncPayment, RowsTyped, PaymentRows
  <2>2. CASE MarkCaptured(o, payment[o].rzp, {}, razorpay[payment[o].rzp].captured)
    <3>1. RowsTyped' BY <2>1, <2>2, MarkCapturedType
    <3> QED BY <1>1, <3>1 DEF ResyncPayment, InFlightTyped, RequestsTyped, JobTyped
  <2>3. CASE /\ ledger' = ledger \cup {<<"amount_mismatch", payment[o].rzp>>}
             /\ UNCHANGED <<order, payment, shelf, processed, mails>>
    <3>1. ledger' \subseteq LedgerRows
      BY <2>1, <2>3 DEF RowsTyped, LedgerRows, LedgerKinds
    <3> QED BY <1>1, <2>3, <3>1 DEF ResyncPayment, RowsTyped, InFlightTyped, RequestsTyped, JobTyped
  <2> QED BY <1>1, <2>2, <2>3 DEF ResyncPayment
<1>2. ASSUME NEW o \in Binnable, SoftDelete(o) \/ Undelete(o)
      PROVE  RowsTyped' /\ InFlightTyped'
  <2>1. \A b \in BOOLEAN : [order[o] EXCEPT !.deleted = b] \in OrderRows
    BY EventAssumption DEF RowsTyped, OrderRows
  <2>2. order' \in [Orders -> OrderRows]
    BY <1>2, <2>1, EventAssumption DEF SoftDelete, Undelete, RowsTyped
  <2> QED BY <1>2, <2>2 DEF SoftDelete, Undelete, RowsTyped, InFlightTyped, RequestsTyped, JobTyped
<1>3. ASSUME NEW o \in Orders, NEW status \in AdminStatuses, NEW edit \in HandEdits \cup {"keep"},
             NEW tick \in {"keep", "tick", "untick"}, NEW given \in 0..order[o].total,
             AdminUpdate(o, status, edit, tick, given)
      PROVE  RowsTyped' /\ InFlightTyped'
  <2>1. RowsTyped' BY <1>3, AdminUpdateType
  <2>2. UNCHANGED <<razorpay, acked, req, l3>> BY <1>3 DEF AdminUpdate
  <2> QED BY <2>1, <2>2 DEF InFlightTyped, RequestsTyped, JobTyped
<1> QED
  BY <1>1, <1>2, <1>3 DEF Staff

LEMMA TypeRazorpay == TypeInv /\ Razorpay => TypeInv'
<1> SUFFICES ASSUME RowsTyped, InFlightTyped, Razorpay
             PROVE  RowsTyped' /\ InFlightTyped'
  BY DEF TypeInv, TypeOK, RowsTyped, InFlightTyped
<1>1. ASSUME NEW r \in RzpIds, NEW amount \in Shortfalls, GatewayCapture(r, amount)
      PROVE  RowsTyped' /\ InFlightTyped'
  BY <1>1, ShortAssumption DEF GatewayCapture, RowsTyped, InFlightTyped, RequestsTyped, JobTyped
<1>2. ASSUME NEW r \in RzpIds, GatewayDecline(r)
      PROVE  RowsTyped' /\ InFlightTyped'
  <2>1. [razorpay[r] EXCEPT !.declined = TRUE]
          \in [order : Orders \cup {NoOrder}, captured : {"no", "full", "short"}, declined : BOOLEAN]
    <3>1. razorpay[r] \in [order : Orders \cup {NoOrder}, captured : {"no", "full", "short"}, declined : BOOLEAN]
      BY DEF InFlightTyped
    <3> QED BY <3>1
  <2> QED BY <1>2, <2>1 DEF GatewayDecline, RowsTyped, InFlightTyped, RequestsTyped, JobTyped
<1>3. ASSUME NEW e \in Events, RazorpayWebhook(e)
      PROVE  RowsTyped' /\ InFlightTyped'
  <2>1. e.rzp \in RzpIds
    BY DEF Events
  <2>2. RowsTyped'
    <3>1. CASE Current(e.rzp) = {}
      <4>1. ledger' \subseteq LedgerRows
        BY <1>3, <2>1, <3>1 DEF RazorpayWebhook, LogOrphan, OrphanKind, RowsTyped, LedgerRows, LedgerKinds
      <4> QED BY <1>3, <3>1, <4>1 DEF RazorpayWebhook, LogOrphan, RowsTyped
    <3>2. CASE Current(e.rzp) # {}
      <4>1. PICK o \in Orders : DispatchWebhookEvent(o, e)
        BY <1>3, <3>2 DEF RazorpayWebhook, Current
      <4> QED BY <4>1, <2>1, MarkCapturedType, MarkFailedType DEF DispatchWebhookEvent
    <3> QED BY <3>1, <3>2
  <2> QED BY <1>3, <2>2 DEF RazorpayWebhook, InFlightTyped, RequestsTyped, JobTyped
<1> QED
  BY <1>1, <1>2, <1>3 DEF Razorpay

LEMMA TypeReconcile == TypeInv /\ Reconcile => TypeInv'
<1> SUFFICES ASSUME RowsTyped, InFlightTyped, Reconcile
             PROVE  RowsTyped' /\ InFlightTyped'
  BY DEF TypeInv, TypeOK, RowsTyped, InFlightTyped
<1>1. ASSUME NEW due \in SUBSET Orders, L3Query(due)
      PROVE  RowsTyped' /\ InFlightTyped'
  BY <1>1 DEF L3Query, L3Idle, RowsTyped, InFlightTyped, RequestsTyped, JobTyped
<1>2. ASSUME NEW o \in Orders, L3Fetch(o)
      PROVE  RowsTyped' /\ InFlightTyped'
  <2>1. payment[o].rzp \in RzpIds \cup {NoRzp}
    BY DEF RowsTyped, PaymentRows
  <2> QED BY <1>2, <2>1 DEF L3Fetch, RowsTyped, InFlightTyped, RequestsTyped, JobTyped, Captured
<1>3. ASSUME NEW o \in Orders, L3FetchFails(o)
      PROVE  RowsTyped' /\ InFlightTyped'
  BY <1>3 DEF L3FetchFails, RowsTyped, InFlightTyped, RequestsTyped, JobTyped
<1>4. ASSUME L3Act
      PROVE  RowsTyped' /\ InFlightTyped'
  <2>1. InFlightTyped'
    BY <1>4 DEF L3Act, L3Idle, InFlightTyped, RequestsTyped, JobTyped
  <2>2. CASE ~l3.captured
    BY <1>4, <2>1, <2>2, CancelAbandonedType DEF L3Act, InFlightTyped, JobTyped
  <2>3. CASE l3.captured /\ Current(l3.rzp) = {}
    BY <1>4, <2>1, <2>3 DEF L3Act, RowsTyped
  <2>4. CASE l3.captured /\ Current(l3.rzp) # {}
    <3>1. PICK o \in Orders : MarkCaptured(o, l3.rzp, {}, razorpay[l3.rzp].captured)
      BY <1>4, <2>4 DEF L3Act, Current
    <3>2. l3.rzp \in RzpIds
      BY <2>4 DEF InFlightTyped, JobTyped
    <3> QED BY <3>1, <3>2, <2>1, MarkCapturedType
  <2> QED BY <2>2, <2>3, <2>4
<1>5. ASSUME NEW kept \in SUBSET processed, L3Finish(kept)
      PROVE  RowsTyped' /\ InFlightTyped'
  BY <1>5 DEF L3Finish, L3Idle, RowsTyped, InFlightTyped, RequestsTyped, JobTyped
<1>6. ASSUME L3Crash
      PROVE  RowsTyped' /\ InFlightTyped'
  BY <1>6 DEF L3Crash, L3Idle, RowsTyped, InFlightTyped, RequestsTyped, JobTyped
<1> QED
  BY <1>1, <1>2, <1>3, <1>4, <1>5, <1>6 DEF Reconcile

LEMMA TypeStep == TypeInv /\ [Next]_vars => TypeInv'
<1>1. TypeInv /\ UNCHANGED vars => TypeInv'
  BY DEF vars, TypeInv, TypeOK, RequestsTyped, JobTyped
<1> QED
  BY <1>1, TypeCustomer, TypeStaff, TypeRazorpay, TypeReconcile DEF Next

(* Whatever the handlers and Razorpay do, every row stays well typed; in   *)
(* particular stock and refunds are never negative.                        *)
THEOREM TypeCorrect == Spec => []TypeOK
<1>1. TypeInv => TypeOK
  BY DEF TypeInv
<1> QED
  BY TypeInit, TypeStep, <1>1, PTL DEF Spec

-----------------------------------------------------------------------------
(***************************************************************************)
(* Layer 2.  A Payment row, a request in flight and the L3 job only ever   *)
(* speak of orders that were placed; without that, a capture could create  *)
(* an order that took no unit from the shelf.                              *)
(***************************************************************************)
JobPlaced == /\ l3.pc = "act" => Placed(l3.order)
             /\ \A o \in l3.todo : Placed(o)

RowsPlaced == /\ \A o \in Orders : payment[o].status # "none" \/ payment[o].rzp # NoRzp => Placed(o)
              /\ \A q \in Requests : req[q] # Idle => Placed(req[q].order)

StockInv == JobPlaced /\ RowsPlaced /\ StockConserved

(* A step that moves no unit, and one that gives back those of os.         *)
SamePlaced == \A x \in Orders : Placed(x)' <=> Placed(x)

NothingMoves == /\ SamePlaced /\ shelf' = shelf
                /\ \A x \in Orders : order'[x].restored = order[x].restored

GivenBack(os) == /\ SamePlaced /\ shelf' = Restock(os)
                 /\ \A x \in Orders : order'[x].restored <=> (order[x].restored \/ x \in os)

LEMMA NothingMovesConserves ==
  ASSUME StockConserved, NothingMoves
  PROVE  StockConserved'
<1>1. {o \in Orders : Held(o)}' = {o \in Orders : Held(o)}
  BY DEF NothingMoves, SamePlaced, Held
<1> QED
  BY <1>1 DEF NothingMoves, StockConserved

LEMMA RestockConserves ==
  ASSUME shelf \in Nat, NEW os \in SUBSET Orders, \A x \in os : Placed(x),
         StockConserved, NEW next, next = {o \in Orders : Held(o)} \ {o \in os : ~order[o].restored}
  PROVE  /\ IsFiniteSet(next)
         /\ Restock(os) + Cardinality(next) = Units
<1> DEFINE held == {o \in Orders : Held(o)}
           back == {o \in os : ~order[o].restored}
<1>1. IsFiniteSet(held) /\ IsFiniteSet(back)
  BY OrdersAssumption, FS_Subset
<1>2. held \cap back = back
  BY DEF Held
<1>3. IsFiniteSet(held \ back) /\ Cardinality(held \ back) = Cardinality(held) - Cardinality(back)
  BY <1>1, <1>2, FS_Difference
<1>4. Cardinality(held) \in Nat /\ Cardinality(back) \in Nat
  BY <1>1, FS_CardinalityType
<1>5. Restock(os) = shelf + Cardinality(back) /\ shelf + Cardinality(held) = Units
  BY DEF Restock, StockConserved
<1> HIDE DEF held, back
<1>6. Restock(os) + Cardinality(held \ back) = Units
  BY <1>3, <1>4, <1>5
<1> QED
  BY <1>3, <1>6 DEF held, back

LEMMA GivenBackConserves ==
  ASSUME shelf \in Nat, NEW os \in SUBSET Orders, \A x \in os : Placed(x),
         StockConserved, GivenBack(os)
  PROVE  StockConserved'
<1>1. {o \in Orders : Held(o)}' = {o \in Orders : Held(o)} \ {o \in os : ~order[o].restored}
  BY DEF GivenBack, SamePlaced, Held
<1>2. Restock(os) + Cardinality({o \in Orders : Held(o)}') = Units
  BY <1>1, RestockConserves
<1> QED
  BY <1>2 DEF GivenBack, StockConserved

LEMMA CheckoutConserves ==
  ASSUME RowsTyped, StockConserved, NEW o \in Orders, NEW m, NEW t, Checkout(o, m, t)
  PROVE  StockConserved' /\ \A x \in Orders : Placed(x) => Placed(x)'
<1> DEFINE stale == {x \in Orders : Stale(x)}
           kept  == {x \in Orders : Held(x)} \ {x \in stale : ~order[x].restored}
<1>1. \A x \in stale : Placed(x)
  BY DEF Stale
<1>2. IsFiniteSet(kept) /\ Restock(stale) + Cardinality(kept) = Units
  BY <1>1, RestockConserves DEF RowsTyped
<1>3. o \notin kept
  BY DEF Checkout, Held
<1>4. \A x \in Orders :
        order'[x] = IF x = o THEN NewOrder(m, t) ELSE IF Stale(x) THEN Abandoned(order[x]) ELSE order[x]
  BY DEF Checkout
<1>5. NewOrder(m, t).status # "absent" /\ NewOrder(m, t).restored = FALSE
  BY DEF NewOrder, Absent
<1>6. \A x \in Orders : Abandoned(order[x]).status = "cancelled" /\ Abandoned(order[x]).restored = TRUE
  BY DEF Abandoned, RowsTyped, OrderRows
<1>7. \A x \in Orders : Placed(x)' <=> Placed(x) \/ x = o
  BY <1>1, <1>4, <1>5, <1>6 DEF Placed
<1>8. {x \in Orders : Held(x)}' = kept \cup {o}
  BY <1>1, <1>3, <1>4, <1>5, <1>6, <1>7 DEF Held
<1>9. Cardinality(kept \cup {o}) = Cardinality(kept) + 1
  BY <1>2, <1>3, FS_AddElement
<1>10. Cardinality(kept) \in Nat /\ Restock(stale) \in Nat /\ shelf' = Restock(stale) - 1
  BY <1>2, FS_CardinalityType, RestockType DEF Checkout, RowsTyped
<1>11. shelf' + Cardinality(kept \cup {o}) = Units
  <2> HIDE DEF kept, stale
  <2> QED BY <1>2, <1>9, <1>10
<1> QED
  BY <1>7, <1>8, <1>11 DEF StockConserved

LEMMA MarkCapturedMoves ==
  ASSUME RowsTyped, NEW o \in Orders, Placed(o), NEW r, NEW ev, NEW amount,
         MarkCaptured(o, r, ev, amount)
  PROVE  NothingMoves
<1>1. \/ order' = order
      \/ order' = [order EXCEPT ![o].status = "confirmed", ![o].pay = "paid"]
  BY DEF MarkCaptured, CaptureIgnored, CaptureSeen, CaptureMismatch, CaptureAfterCancel, CaptureConfirm
<1>2. shelf' = shelf
  BY DEF MarkCaptured
<1> QED
  BY <1>1, <1>2 DEF NothingMoves, SamePlaced, Placed, RowsTyped, OrderRows

LEMMA MarkFailedMoves ==
  ASSUME RowsTyped, NEW o \in Orders, NEW ev, MarkFailed(o, ev)
  PROVE  NothingMoves
BY DEF MarkFailed, FailApplies, FailIgnored, NothingMoves, SamePlaced, Placed, RowsTyped, OrderRows

LEMMA CancelAbandonedMoves ==
  ASSUME RowsTyped, NEW o \in Orders, Placed(o), CancelAbandoned(o)
  PROVE  NothingMoves \/ GivenBack({o})
<1>1. \A x \in Orders : Abandoned(order[x]).status = "cancelled" /\ Abandoned(order[x]).restored = TRUE
  BY DEF Abandoned, RowsTyped, OrderRows
<1> QED
  BY <1>1 DEF CancelAbandoned, NothingMoves, GivenBack, SamePlaced, Placed, RowsTyped

LEMMA AdminUpdateMoves ==
  ASSUME RowsTyped, NEW o \in Orders, NEW status \in AdminStatuses,
         NEW edit \in HandEdits \cup {"keep"}, NEW tick \in {"keep", "tick", "untick"},
         NEW given \in 0..order[o].total, AdminUpdate(o, status, edit, tick, given)
  PROVE  NothingMoves \/ GivenBack({o})
<1> DEFINE old        == order[o].status
           cancelling == status = "cancelled" /\ old # "cancelled"
           recording  == status = "refunded" /\ (old # "refunded" \/ given > 0)
           amount     == IF given > 0 THEN given ELSE RefundableBalance(o)
           row        == [Ticked(Edited(order[o], edit), tick) EXCEPT !.status = status]
<1>1. row \in OrderRows
  BY EditType DEF RowsTyped
<1>2. row.status = status /\ row.restored = order[o].restored
  <2>1. order[o] \in OrderRows
    BY DEF RowsTyped
  <2>2. Edited(order[o], edit) \in OrderRows /\ Edited(order[o], edit).restored = order[o].restored
    BY <2>1, AdminAssumption DEF Edited, OrderRows
  <2>3. \A x \in OrderRows : Ticked(x, tick) \in OrderRows /\ Ticked(x, tick).restored = x.restored
    BY DEF Ticked, OrderRows, PayStatuses
  <2>4. \A x \in OrderRows : [x EXCEPT !.status = status].status = status
                             /\ [x EXCEPT !.status = status].restored = x.restored
    BY DEF OrderRows
  <2> QED BY <2>2, <2>3, <2>4
<1>3. status # "absent" /\ Placed(o)
  BY AdminAssumption DEF AdminUpdate, Statuses
<1>4. Refunded(row, amount).status = "refunded" /\ Refunded(row, amount).restored = TRUE
  <2> HIDE DEF row, amount
  <2> QED BY <1>1 DEF Refunded, OrderRows
<1>5. [row EXCEPT !.restored = TRUE].status = status /\ [row EXCEPT !.restored = TRUE].restored = TRUE
  <2> HIDE DEF row
  <2> QED BY <1>1, <1>2 DEF OrderRows
<1>6. /\ order' = [order EXCEPT ![o] = IF recording THEN Refunded(row, amount)
                                       ELSE IF cancelling THEN [row EXCEPT !.restored = TRUE]
                                       ELSE row]
      /\ shelf' = IF cancelling \/ recording THEN Restock({o}) ELSE shelf
  BY DEF AdminUpdate
<1> HIDE DEF row, amount, recording, cancelling
<1>7. \A x \in Orders : x # o => order'[x] = order[x]
  BY <1>6 DEF RowsTyped
<1>8. order'[o] = IF recording THEN Refunded(row, amount)
                  ELSE IF cancelling THEN [row EXCEPT !.restored = TRUE] ELSE row
  BY <1>6 DEF RowsTyped
<1>9. order'[o].status # "absent"
  BY <1>8, <1>2, <1>3, <1>4, <1>5
<1>10. SamePlaced
  BY <1>3, <1>7, <1>9 DEF SamePlaced, Placed
<1>11. CASE cancelling \/ recording
  BY <1>11, <1>4, <1>5, <1>6, <1>7, <1>8, <1>10 DEF GivenBack
<1>12. CASE ~(cancelling \/ recording)
  BY <1>12, <1>2, <1>6, <1>7, <1>8, <1>10 DEF NothingMoves
<1> QED
  BY <1>11, <1>12

LEMMA StockInit == Init => StockInv
<1> SUFFICES ASSUME Init PROVE StockInv
  OBVIOUS
<1>1. {o \in Orders : Held(o)} = {}
  BY DEF Init, Held, Placed, Absent
<1>2. StockConserved
  <2>1. Cardinality({o \in Orders : Held(o)}) = 0
    BY <1>1, FS_EmptySet
  <2>2. shelf = Units /\ Units \in Nat
    BY BoundsAssumption DEF Init
  <2> QED BY <2>1, <2>2 DEF StockConserved
<1> QED
  BY <1>2 DEF Init, StockInv, JobPlaced, RowsPlaced, Placed, Absent, Idle, L3Idle

(* Units move only where the action says, and a placed order stays placed. *)
LEMMA StockMoves ==
  ASSUME TypeInv, StockInv, Next
  PROVE  StockConserved' /\ \A x \in Orders : Placed(x) => Placed(x)'
<1> USE DEF StockInv
<1>1. RowsTyped
  BY DEF TypeInv, TypeOK, RowsTyped
<1>2. shelf \in Nat
  BY <1>1 DEF RowsTyped
<1>3. ASSUME NothingMoves
      PROVE  StockConserved' /\ \A x \in Orders : Placed(x) => Placed(x)'
  BY <1>3, NothingMovesConserves DEF NothingMoves, SamePlaced
<1>4. ASSUME NEW o \in Orders, Placed(o), GivenBack({o})
      PROVE  StockConserved' /\ \A x \in Orders : Placed(x) => Placed(x)'
  BY <1>2, <1>4, GivenBackConserves DEF GivenBack, SamePlaced
<1>5. ASSUME UNCHANGED <<order, shelf>>
      PROVE  NothingMoves
  BY <1>5 DEF NothingMoves, SamePlaced, Placed
<1>6. CASE Customer \/ Cancelling
  <2>1. ASSUME NEW o \in Orders, NEW m \in Methods, NEW t \in Totals, Checkout(o, m, t)
        PROVE  StockConserved' /\ \A x \in Orders : Placed(x) => Placed(x)'
    BY <1>1, <2>1, CheckoutConserves
  <2>2. ASSUME NEW q \in Requests, NEW o \in Orders, NEW r \in RzpIds,
               CreateOrderMint(q, o, r) \/ CreateOrderCommit(q) \/ CreateOrderDies(q)
        PROVE  NothingMoves
    BY <2>2, <1>5 DEF CreateOrderMint, CreateOrderCommit, CreateOrderDies
  <2>3. ASSUME NEW q \in Requests, CreateOrderCommit(q) \/ CreateOrderDies(q)
        PROVE  NothingMoves
    BY <2>3, <1>5 DEF CreateOrderCommit, CreateOrderDies
  <2>4. ASSUME NEW o \in Orders, NEW r \in RzpIds, VerifyPayment(o, r)
        PROVE  NothingMoves
    <3>1. Placed(o)
      BY <2>4 DEF VerifyPayment, Current, RowsPlaced
    <3> QED BY <1>1, <2>4, <3>1, MarkCapturedMoves DEF VerifyPayment
  <2>5. ASSUME NEW o \in Orders, NEW who \in Cancellers, Cancel(o, who)
        PROVE  Placed(o) /\ GivenBack({o})
    BY <1>1, <2>5 DEF Cancel, MayCancel, GivenBack, SamePlaced, Placed, RowsTyped, OrderRows
  <2> QED BY <1>3, <1>4, <1>6, <2>1, <2>2, <2>3, <2>4, <2>5 DEF Customer, Cancelling
<1>7. CASE Staff
  <2>1. ASSUME NEW o \in Orders, ResyncPayment(o)
        PROVE  NothingMoves
    <3>1. Placed(o)
      BY <2>1 DEF ResyncPayment, RowsPlaced
    <3>2. CASE MarkCaptured(o, payment[o].rzp, {}, razorpay[payment[o].rzp].captured)
      BY <1>1, <3>1, <3>2, MarkCapturedMoves
    <3>3. CASE UNCHANGED <<order, payment, shelf, processed, mails>>
      BY <3>3, <1>5
    <3> QED BY <2>1, <3>2, <3>3 DEF ResyncPayment
  <2>2. ASSUME NEW o \in Binnable, SoftDelete(o) \/ Undelete(o)
        PROVE  NothingMoves
    BY <1>1, <2>2, EventAssumption
       DEF SoftDelete, Undelete, NothingMoves, SamePlaced, Placed, RowsTyped, OrderRows
  <2>3. ASSUME NEW o \in Orders, NEW status \in AdminStatuses, NEW edit \in HandEdits \cup {"keep"},
               NEW tick \in {"keep", "tick", "untick"}, NEW given \in 0..order[o].total,
               AdminUpdate(o, status, edit, tick, given)
        PROVE  Placed(o) /\ (NothingMoves \/ GivenBack({o}))
    <3>1. Placed(o) BY <2>3 DEF AdminUpdate
    <3> QED BY <1>1, <2>3, <3>1, AdminUpdateMoves
  <2> QED BY <1>3, <1>4, <1>7, <2>1, <2>2, <2>3 DEF Staff
<1>8. CASE Razorpay
  <2>1. ASSUME NEW r \in RzpIds, NEW amount, GatewayCapture(r, amount) \/ GatewayDecline(r)
        PROVE  NothingMoves
    BY <2>1, <1>5 DEF GatewayCapture, GatewayDecline
  <2>2. ASSUME NEW e \in Events, RazorpayWebhook(e)
        PROVE  NothingMoves
    <3>1. CASE LogOrphan(e)
      BY <3>1, <1>5 DEF LogOrphan
    <3>2. ASSUME NEW o \in Current(e.rzp), DispatchWebhookEvent(o, e)
          PROVE  NothingMoves
      <4>1. o \in Orders /\ Placed(o)
        BY DEF Current, RowsPlaced
      <4> QED BY <1>1, <3>2, <4>1, MarkCapturedMoves, MarkFailedMoves DEF DispatchWebhookEvent
    <3> QED BY <2>2, <3>1, <3>2 DEF RazorpayWebhook
  <2> QED BY <1>3, <1>8, <2>1, <2>2 DEF Razorpay
<1>9. CASE Reconcile
  <2>1. ASSUME NEW due \in SUBSET Orders, L3Query(due)
        PROVE  NothingMoves
    BY <2>1, <1>5 DEF L3Query
  <2>2. ASSUME NEW o \in Orders, L3Fetch(o) \/ L3FetchFails(o)
        PROVE  NothingMoves
    BY <2>2, <1>5 DEF L3Fetch, L3FetchFails
  <2>3. ASSUME L3Act
        PROVE  NothingMoves \/ (GivenBack({l3.order}) /\ l3.order \in Orders /\ Placed(l3.order))
    <3>1. l3.order \in Orders /\ Placed(l3.order)
      BY <2>3 DEF L3Act, TypeInv, JobTyped, JobPlaced
    <3>2. CASE CancelAbandoned(l3.order)
      BY <1>1, <3>1, <3>2, CancelAbandonedMoves
    <3>3. ASSUME UNCHANGED <<order, payment, shelf, processed, ledger, mails>>
          PROVE  NothingMoves
      BY <3>3, <1>5
    <3>4. ASSUME NEW o \in Current(l3.rzp), MarkCaptured(o, l3.rzp, {}, razorpay[l3.rzp].captured)
          PROVE  NothingMoves
      <4>1. o \in Orders /\ Placed(o)
        BY DEF Current, RowsPlaced
      <4> QED BY <1>1, <3>4, <4>1, MarkCapturedMoves
    <3> QED BY <2>3, <3>1, <3>2, <3>3, <3>4 DEF L3Act
  <2>4. ASSUME NEW kept \in SUBSET processed, L3Finish(kept)
        PROVE  NothingMoves
    BY <2>4, <1>5 DEF L3Finish
  <2>5. ASSUME L3Crash
        PROVE  NothingMoves
    BY <2>5, <1>5 DEF L3Crash
  <2> QED BY <1>3, <1>4, <1>9, <2>1, <2>2, <2>3, <2>4, <2>5 DEF Reconcile
<1> QED
  BY <1>6, <1>7, <1>8, <1>9 DEF Next

(* Who speaks of an order found it placed: create-order and the L3 query   *)
(* check the row, everyone else reaches it through those two.              *)
LEMMA ReferencesPlaced ==
  ASSUME TypeInv, StockInv, Next, \A x \in Orders : Placed(x) => Placed(x)'
  PROVE  JobPlaced' /\ RowsPlaced'
<1> USE DEF StockInv
<1>1. RowsTyped /\ InFlightTyped
  BY DEF TypeInv, TypeOK, RowsTyped, InFlightTyped
<1>2. ASSUME UNCHANGED l3
      PROVE  JobPlaced'
  BY <1>1, <1>2 DEF JobPlaced, InFlightTyped, JobTyped
<1>3. ASSUME UNCHANGED <<payment, req>>
      PROVE  RowsPlaced'
  BY <1>1, <1>3 DEF RowsPlaced, InFlightTyped, RequestsTyped
<1>4. ASSUME UNCHANGED req,
             \A x \in Orders : payment'[x].rzp = payment[x].rzp
                               /\ (payment'[x].status # "none" => payment[x].status # "none")
      PROVE  RowsPlaced'
  BY <1>1, <1>4 DEF RowsPlaced, InFlightTyped, RequestsTyped
<1>5. ASSUME NEW o \in Orders, NEW r, NEW ev, NEW amount, MarkCaptured(o, r, ev, amount),
             UNCHANGED req, payment[o].status # "none" \/ payment[o].rzp # NoRzp
      PROVE  RowsPlaced'
  <2>1. Placed(o)
    BY <1>5 DEF RowsPlaced
  <2>2. payment' = payment \/ payment' = [payment EXCEPT ![o].status = "completed"]
    BY <1>5 DEF MarkCaptured, CaptureIgnored, CaptureSeen, CaptureMismatch, CaptureAfterCancel,
                CaptureConfirm, Completed
  <2>3. \A x \in Orders : payment'[x].rzp = payment[x].rzp
                          /\ (payment'[x].status # "none" => payment[x].status # "none" \/ x = o)
    BY <1>1, <2>2 DEF RowsTyped, PaymentRows
  <2> QED BY <1>1, <1>5, <2>1, <2>3 DEF RowsPlaced, InFlightTyped, RequestsTyped
<1>6. CASE Customer \/ Cancelling
  <2>1. ASSUME NEW o \in Orders, NEW m \in Methods, NEW t \in Totals, Checkout(o, m, t)
        PROVE  JobPlaced' /\ RowsPlaced'
    BY <2>1, <1>2, <1>3 DEF Checkout
  <2>2. ASSUME NEW q \in Requests, NEW o \in Orders, NEW r \in RzpIds, CreateOrderMint(q, o, r)
        PROVE  JobPlaced' /\ RowsPlaced'
    <3>1. UNCHANGED <<l3, payment>> /\ Placed(o) /\ req' = [req EXCEPT ![q] = [order |-> o, rzp |-> r]]
      BY <2>2 DEF CreateOrderMint
    <3>2. RowsPlaced'
      BY <1>1, <3>1 DEF RowsPlaced, InFlightTyped, RequestsTyped
    <3> QED BY <1>2, <3>1, <3>2
  <2>3. ASSUME NEW q \in Requests, CreateOrderCommit(q)
        PROVE  JobPlaced' /\ RowsPlaced'
    <3>1. Placed(req[q].order) /\ req[q].order \in Orders
      BY <1>1, <2>3 DEF CreateOrderCommit, RowsPlaced, InFlightTyped, RequestsTyped
    <3>2. RowsPlaced'
      BY <1>1, <2>3, <3>1
         DEF CreateOrderCommit, Superseding, RowsPlaced, RowsTyped, InFlightTyped, RequestsTyped, Idle
    <3> QED BY <1>2, <2>3, <3>2 DEF CreateOrderCommit
  <2>4. ASSUME NEW q \in Requests, CreateOrderDies(q)
        PROVE  JobPlaced' /\ RowsPlaced'
    <3>1. RowsPlaced'
      BY <1>1, <2>4 DEF CreateOrderDies, RowsPlaced, RowsTyped, InFlightTyped, RequestsTyped, Idle
    <3> QED BY <1>2, <2>4, <3>1 DEF CreateOrderDies
  <2>5. ASSUME NEW o \in Orders, NEW r \in RzpIds, VerifyPayment(o, r)
        PROVE  JobPlaced' /\ RowsPlaced'
    BY <2>5, <1>2, <1>5 DEF VerifyPayment, Current
  <2>6. ASSUME NEW o \in Orders, NEW who \in Cancellers, Cancel(o, who)
        PROVE  JobPlaced' /\ RowsPlaced'
    BY <2>6, <1>2, <1>3 DEF Cancel
  <2> QED BY <1>6, <2>1, <2>2, <2>3, <2>4, <2>5, <2>6 DEF Customer, Cancelling
<1>7. CASE Staff
  <2>1. ASSUME NEW o \in Orders, ResyncPayment(o)
        PROVE  JobPlaced' /\ RowsPlaced'
    <3>1. CASE UNCHANGED <<order, payment, shelf, processed, mails>>
      BY <2>1, <3>1, <1>2, <1>3 DEF ResyncPayment
    <3>2. CASE MarkCaptured(o, payment[o].rzp, {}, razorpay[payment[o].rzp].captured)
      BY <2>1, <3>2, <1>2, <1>5 DEF ResyncPayment
    <3> QED BY <2>1, <3>1, <3>2 DEF ResyncPayment
  <2>2. ASSUME NEW o \in Binnable, SoftDelete(o) \/ Undelete(o)
        PROVE  JobPlaced' /\ RowsPlaced'
    BY <2>2, <1>2, <1>3 DEF SoftDelete, Undelete
  <2>3. ASSUME NEW o \in Orders, NEW status, NEW edit, NEW tick, NEW given,
               AdminUpdate(o, status, edit, tick, given)
        PROVE  JobPlaced' /\ RowsPlaced'
    BY <2>3, <1>2, <1>3 DEF AdminUpdate
  <2> QED BY <1>7, <2>1, <2>2, <2>3 DEF Staff
<1>8. CASE Razorpay
  <2>1. ASSUME NEW r \in RzpIds, NEW amount, GatewayCapture(r, amount) \/ GatewayDecline(r)
        PROVE  JobPlaced' /\ RowsPlaced'
    BY <2>1, <1>2, <1>3 DEF GatewayCapture, GatewayDecline
  <2>2. ASSUME NEW e \in Events, RazorpayWebhook(e)
        PROVE  JobPlaced' /\ RowsPlaced'
    <3>1. UNCHANGED <<l3, req>>
      BY <2>2 DEF RazorpayWebhook
    <3>2. CASE LogOrphan(e)
      BY <3>1, <3>2, <1>2, <1>3 DEF LogOrphan
    <3>3. ASSUME NEW o \in Current(e.rzp), DispatchWebhookEvent(o, e)
          PROVE  RowsPlaced'
      <4>1. o \in Orders /\ payment[o].status # "none"
        BY DEF Current
      <4>2. CASE MarkFailed(o, {e})
        <5>1. \A x \in Orders : payment'[x].rzp = payment[x].rzp
                 /\ (payment'[x].status # "none" => payment[x].status # "none")
          BY <1>1, <4>1, <4>2 DEF MarkFailed, FailApplies, FailIgnored, MayFail, RowsTyped, PaymentRows
        <5> QED BY <3>1, <5>1, <1>4
      <4>3. CASE MarkCaptured(o, e.rzp, {e}, razorpay[e.rzp].captured)
        BY <3>1, <4>1, <4>3, <1>5
      <4> QED BY <3>3, <4>2, <4>3 DEF DispatchWebhookEvent
    <3> QED BY <2>2, <3>1, <3>2, <3>3, <1>2 DEF RazorpayWebhook
  <2> QED BY <1>8, <2>1, <2>2 DEF Razorpay
<1>9. CASE Reconcile
  <2>1. ASSUME NEW due \in SUBSET Orders, L3Query(due)
        PROVE  JobPlaced' /\ RowsPlaced'
    <3>1. \A x \in due : Placed(x)
      BY <2>1 DEF L3Query, Stuck
    <3>2. JobPlaced'
      BY <2>1, <3>1 DEF L3Query, L3Idle, JobPlaced
    <3> QED BY <2>1, <3>2, <1>3 DEF L3Query
  <2>2. ASSUME NEW o \in Orders, L3Fetch(o) \/ L3FetchFails(o)
        PROVE  JobPlaced' /\ RowsPlaced'
    <3>1. Placed(o)
      BY <2>2 DEF L3Fetch, L3FetchFails, JobPlaced
    <3>2. l3.todo \subseteq Orders
      BY <1>1 DEF InFlightTyped
    <3>3. JobPlaced'
      BY <1>1, <2>2, <3>1, <3>2 DEF L3Fetch, L3FetchFails, JobPlaced, InFlightTyped
    <3> QED BY <2>2, <3>3, <1>3 DEF L3Fetch, L3FetchFails
  <2>3. ASSUME L3Act
        PROVE  JobPlaced' /\ RowsPlaced'
    <3>1. UNCHANGED req
      BY <2>3 DEF L3Act
    <3>2. l3.todo \subseteq Orders
      BY <1>1 DEF InFlightTyped
    <3>3. JobPlaced'
      BY <1>1, <2>3, <3>2 DEF L3Act, L3Idle, JobPlaced, InFlightTyped
    <3>4. CASE UNCHANGED payment
      BY <3>1, <3>3, <3>4, <1>3
    <3>5. ASSUME NEW o \in Current(l3.rzp), MarkCaptured(o, l3.rzp, {}, razorpay[l3.rzp].captured)
          PROVE  RowsPlaced'
      BY <3>1, <3>5, <1>5 DEF Current
    <3> QED BY <2>3, <3>3, <3>4, <3>5 DEF L3Act, CancelAbandoned
  <2>4. ASSUME NEW kept \in SUBSET processed, L3Finish(kept)
        PROVE  JobPlaced' /\ RowsPlaced'
    <3>1. JobPlaced'
      BY <2>4 DEF L3Finish, L3Idle, JobPlaced
    <3> QED BY <2>4, <3>1, <1>3 DEF L3Finish
  <2>5. ASSUME L3Crash
        PROVE  JobPlaced' /\ RowsPlaced'
    <3>1. JobPlaced'
      BY <2>5 DEF L3Crash, L3Idle, JobPlaced
    <3> QED BY <2>5, <3>1, <1>3 DEF L3Crash
  <2> QED BY <1>9, <2>1, <2>2, <2>3, <2>4, <2>5 DEF Reconcile
<1> QED
  BY <1>6, <1>7, <1>8, <1>9 DEF Next

LEMMA StockStep == TypeInv /\ StockInv /\ [Next]_vars => StockInv'
<1>1. ASSUME TypeInv, StockInv, UNCHANGED vars
      PROVE  StockInv'
  BY <1>1 DEF vars, StockInv, JobPlaced, RowsPlaced, StockConserved, Held, Placed
<1>2. ASSUME TypeInv, StockInv, Next
      PROVE  StockInv'
  BY <1>2, StockMoves, ReferencesPlaced DEF StockInv
<1> QED
  BY <1>1, <1>2

(* No interleaving of checkout, cancel, refund, status edit, L3 and        *)
(* supersede loses a unit of stock or gives one back twice                 *)
(* (restore_order_stock and its five callers).                             *)
THEOREM StockIsConserved == Spec => []UnitsAddUp
<1>1. TypeInv /\ StockInv => UnitsAddUp
  BY DEF TypeInv, StockInv, UnitsAddUp
<1> QED
  BY TypeInit, TypeStep, StockInit, StockStep, <1>1, PTL DEF Spec

-----------------------------------------------------------------------------
(***************************************************************************)
(* What a step may do to a Payment row.                                    *)
(***************************************************************************)
PaymentStep ==
  \/ UNCHANGED payment
  \/ UNCHANGED order /\ \E q \in Requests : CreateOrderCommit(q)
  \/ \E o \in Orders, r \in RzpIds, ev \in SUBSET Events, amount \in {"full", "short", "no", "unchecked"} :
       MarkCaptured(o, r, ev, amount)
  \/ \E o \in Orders, ev \in SUBSET Events : MarkFailed(o, ev)

LEMMA PaymentSteps == ASSUME TypeInv, Next PROVE PaymentStep
<1>1. /\ \A r \in RzpIds : razorpay[r].captured \in {"full", "short", "no", "unchecked"}
      /\ \A o \in Orders : payment[o].rzp \in RzpIds \cup {NoRzp}
      /\ l3.captured => l3.rzp \in RzpIds
  BY DEF TypeInv, TypeOK, PaymentRows, JobTyped
<1>2. CASE Customer \/ Cancelling
  <2>1. ASSUME NEW o \in Orders, NEW r \in RzpIds, VerifyPayment(o, r)
        PROVE  PaymentStep
    BY <2>1 DEF VerifyPayment, PaymentStep
  <2>2. ASSUME NEW q \in Requests, CreateOrderCommit(q)
        PROVE  PaymentStep
    <3>1. UNCHANGED order
      BY <2>2 DEF CreateOrderCommit
    <3> QED BY <2>2, <3>1 DEF PaymentStep
  <2>3. ASSUME NEW q \in Requests, NEW o \in Orders, NEW r \in RzpIds, CreateOrderMint(q, o, r)
        PROVE  PaymentStep
    BY <2>3 DEF CreateOrderMint, PaymentStep
  <2>4. ASSUME NEW o \in Orders, NEW m, NEW t, NEW who, Checkout(o, m, t) \/ Cancel(o, who)
        PROVE  PaymentStep
    BY <2>4 DEF Checkout, Cancel, PaymentStep
  <2>5. ASSUME NEW q \in Requests, CreateOrderDies(q)
        PROVE  PaymentStep
    BY <2>5 DEF CreateOrderDies, PaymentStep
  <2> QED BY <1>2, <2>1, <2>2, <2>3, <2>4, <2>5 DEF Customer, Cancelling
<1>3. CASE Staff
  <2>1. ASSUME NEW o \in Orders, ResyncPayment(o)
        PROVE  PaymentStep
    <3>1. payment[o].rzp \in RzpIds
      BY <1>1, <2>1 DEF ResyncPayment
    <3>2. CASE MarkCaptured(o, payment[o].rzp, {}, razorpay[payment[o].rzp].captured)
      BY <1>1, <3>1, <3>2 DEF PaymentStep
    <3>3. CASE UNCHANGED <<order, payment, shelf, processed, mails>>
      BY <3>3 DEF PaymentStep
    <3> QED BY <2>1, <3>2, <3>3 DEF ResyncPayment
  <2>2. ASSUME NEW o, SoftDelete(o) \/ Undelete(o)
        PROVE  PaymentStep
    BY <2>2 DEF SoftDelete, Undelete, PaymentStep
  <2>3. ASSUME NEW o, NEW status, NEW edit, NEW tick, NEW given,
               AdminUpdate(o, status, edit, tick, given)
        PROVE  PaymentStep
    BY <2>3 DEF AdminUpdate, PaymentStep
  <2> QED BY <1>3, <2>1, <2>2, <2>3 DEF Staff
<1>4. CASE Razorpay
  <2>1. ASSUME NEW r, NEW amount, GatewayCapture(r, amount) \/ GatewayDecline(r)
        PROVE  PaymentStep
    BY <2>1 DEF GatewayCapture, GatewayDecline, PaymentStep
  <2>2. ASSUME NEW e \in Events, RazorpayWebhook(e)
        PROVE  PaymentStep
    <3>1. e.rzp \in RzpIds
      BY DEF Events
    <3>2. CASE LogOrphan(e)
      BY <3>2 DEF LogOrphan, PaymentStep
    <3>3. ASSUME NEW o \in Current(e.rzp), DispatchWebhookEvent(o, e)
          PROVE  PaymentStep
      <4>1. o \in Orders
        BY DEF Current
      <4> QED BY <1>1, <3>1, <3>3, <4>1 DEF DispatchWebhookEvent, PaymentStep
    <3> QED BY <2>2, <3>2, <3>3 DEF RazorpayWebhook
  <2> QED BY <1>4, <2>1, <2>2 DEF Razorpay
<1>5. CASE Reconcile
  <2>1. ASSUME NEW o, NEW due, NEW kept,
               L3Query(due) \/ L3Fetch(o) \/ L3FetchFails(o) \/ L3Finish(kept) \/ L3Crash
        PROVE  PaymentStep
    BY <2>1 DEF L3Query, L3Fetch, L3FetchFails, L3Finish, L3Crash, PaymentStep
  <2>2. ASSUME L3Act
        PROVE  PaymentStep
    <3>1. CASE UNCHANGED payment
      BY <3>1 DEF PaymentStep
    <3>2. ASSUME l3.captured, NEW o \in Current(l3.rzp),
                 MarkCaptured(o, l3.rzp, {}, razorpay[l3.rzp].captured)
          PROVE  PaymentStep
      <4>1. o \in Orders
        BY DEF Current
      <4> QED BY <1>1, <3>2, <4>1 DEF PaymentStep
    <3> QED BY <2>2, <3>1, <3>2 DEF L3Act, CancelAbandoned
  <2> QED BY <1>5, <2>1, <2>2 DEF Reconcile
<1> QED
  BY <1>2, <1>3, <1>4, <1>5 DEF Next

(* A capture, however late, never brings a cancelled order back            *)
(* (services.py, captured after cancel).                                   *)
THEOREM CancelledStaysCancelled == Spec => PaymentNeverReopens
<1>1. ASSUME TypeInv, Next, NEW o \in Orders, payment'[o] # payment[o], order[o].status = "cancelled"
      PROVE  order'[o].status = "cancelled"
  <2>1. order \in [Orders -> OrderRows] /\ payment \in [Orders -> PaymentRows]
    BY <1>1 DEF TypeInv, TypeOK
  <2>2. ASSUME NEW x \in Orders, NEW r, NEW ev, NEW amount, MarkCaptured(x, r, ev, amount)
        PROVE  order'[o].status = "cancelled"
    <3>1. order' = order \/ (order[x].status # "cancelled" /\ payment' = Completed(x))
      BY <2>2 DEF MarkCaptured, CaptureIgnored, CaptureSeen, CaptureMismatch, CaptureAfterCancel,
                  CaptureConfirm, Fulfillable
    <3> QED BY <1>1, <2>1, <3>1 DEF Completed
  <2>3. ASSUME NEW x \in Orders, NEW ev, MarkFailed(x, ev)
        PROVE  order'[o].status = "cancelled"
    BY <1>1, <2>1, <2>3 DEF MarkFailed, FailApplies, FailIgnored, OrderRows
  <2> QED BY <1>1, <2>2, <2>3, PaymentSteps DEF PaymentStep
<1>2. TypeInv /\ [Next]_vars =>
        [\A o \in Orders : payment'[o] # payment[o] /\ order[o].status = "cancelled"
                             => order'[o].status = "cancelled"]_vars
  BY <1>1
<1> QED
  BY TypeInit, TypeStep, <1>2, PTL DEF Spec, PaymentNeverReopens

(* A payment that completed is left only by create-order's commit: no      *)
(* webhook, in whatever order it arrives, downgrades it.                   *)
THEOREM CompletedStays == Spec => CompletedIsFinal
<1>1. ASSUME TypeInv, Next, NEW o \in Orders, payment[o].status = "completed",
             payment'[o].status # "completed"
      PROVE  \E q \in Requests : CreateOrderCommit(q)
  <2>1. payment \in [Orders -> PaymentRows]
    BY <1>1 DEF TypeInv, TypeOK
  <2>2. ASSUME NEW x \in Orders, NEW r, NEW ev, NEW amount, MarkCaptured(x, r, ev, amount)
        PROVE  FALSE
    <3>1. payment' = payment \/ payment' = Completed(x)
      BY <2>2 DEF MarkCaptured, CaptureIgnored, CaptureSeen, CaptureMismatch, CaptureAfterCancel,
                  CaptureConfirm
    <3> QED BY <1>1, <2>1, <3>1 DEF Completed, PaymentRows
  <2>3. ASSUME NEW x \in Orders, NEW ev, MarkFailed(x, ev)
        PROVE  FALSE
    BY <1>1, <2>1, <2>3 DEF MarkFailed, FailApplies, FailIgnored, MayFail, PaymentRows
  <2> QED BY <1>1, <2>2, <2>3, PaymentSteps DEF PaymentStep
<1>2. TypeInv /\ [Next]_vars =>
        [\A o \in Orders : payment[o].status = "completed" /\ payment'[o].status # "completed"
                             => \E q \in Requests : CreateOrderCommit(q)]_vars
  BY <1>1
<1> QED
  BY TypeInit, TypeStep, <1>2, PTL DEF Spec, CompletedIsFinal

(***************************************************************************)
(* What becomes of captured money: a capture is confirmed to the customer  *)
(* at most once, is accounted for before its event is acknowledged, and    *)
(* has one outcome that never changes (the safety part of CaptureOutcome). *)
(*                                                                         *)
(* None of these is inductive.  The strengthening, MoneyInv, says why the  *)
(* handlers need no lock across Razorpay's API calls: an id minted there   *)
(* is untouched until create-order's commit gives it to one Payment, and   *)
(* stays without an outcome exactly while that Payment is open on it.      *)
(*                                                                         *)
(* And what the orders say of their money: BooksInv, that an order that    *)
(* reads paid has the sale or the cash behind it.                          *)
(***************************************************************************)
SettledKinds == {"captured", "captured_after_cancel", "orphan_capture"}
Settled(r)   == \E kind \in SettledKinds : <<kind, r>> \in ledger
Accounted(r) == Settled(r) \/ <<"amount_mismatch", r>> \in ledger

(* Not yet given to a Payment.                                             *)
Untouched(r) == ~Offered(r) /\ mails[r] = 0 /\ ~Settled(r) /\ ~Captured(r)

MintedFresh == \A q \in Requests : req[q] # Idle =>
                 Untouched(req[q].rzp) /\ razorpay[req[q].rzp].order # NoOrder

RequestsApart == \A q, p \in Requests :
                   req[q] # Idle /\ req[p] # Idle /\ req[q].rzp = req[p].rzp => q = p

UnmintedFresh == \A r \in RzpIds : razorpay[r].order = NoOrder => Untouched(r)

PaymentsApart == \A o, p \in Orders :
                   payment[o].rzp # NoRzp /\ payment[o].rzp = payment[p].rzp => o = p

RowHasId == \A o \in Orders : payment[o].status # "none" <=> payment[o].rzp # NoRzp

OpenUnsettled == \A o \in Orders : payment[o].rzp # NoRzp /\ ~Terminal(o) =>
                   mails[payment[o].rzp] = 0 /\ ~Settled(payment[o].rzp)

ClosedSettled == \A o \in Orders : Terminal(o) => Settled(payment[o].rzp)

SettledCaptured == \A r \in RzpIds : Settled(r) => Captured(r)

ProcessedAccounted == \A e \in processed : e.type # "payment.failed" => Accounted(e.rzp)

JobCaptured == l3.captured => Captured(l3.rzp)

(* What the create-order handlers maintain, what the transitions do, and   *)
(* what is carried by the job and promised to Razorpay.                    *)
IdsInv    == MintedFresh /\ RequestsApart /\ UnmintedFresh /\ PaymentsApart /\ RowHasId
SettleInv == /\ OpenUnsettled /\ ClosedSettled /\ SettledCaptured
             /\ ProcessedAccounted /\ ConfirmedOnce
MoneyInv  == IdsInv /\ SettleInv /\ JobCaptured /\ CaptureAccounted

(* What a step may do to the outcomes: nothing, a capture at Razorpay, or  *)
(* the first settling row of a captured order; an orphan may come later.   *)
OutcomesKept ==
  \A x \in RzpIds : /\ Captured(x)' <=> Captured(x)
                    /\ \A kind \in SettledKinds : <<kind, x>> \in ledger' <=> <<kind, x>> \in ledger

NewCapture(r) ==
  /\ ~Captured(r) /\ ledger' = ledger
  /\ \A x \in RzpIds : Captured(x)' <=> Captured(x) \/ x = r

NewOutcome(r, kind) ==
  /\ Captured(r)
  /\ Settled(r) => kind = "orphan_capture"
  /\ ledger' = ledger \cup {<<kind, r>>}
  /\ \A x \in RzpIds : Captured(x)' <=> Captured(x)

OutcomeStep ==
  \/ OutcomesKept
  \/ \E r \in RzpIds : NewCapture(r) \/ \E kind \in SettledKinds : NewOutcome(r, kind)

-----------------------------------------------------------------------------
LEMMA MoneyInit == TypeInv /\ Init => MoneyInv
<1> SUFFICES ASSUME TypeInv, Init PROVE MoneyInv
  OBVIOUS
<1>1. \A r \in RzpIds : r # NoRzp
  BY BoundsAssumption DEF RzpIds, NoRzp
<1>2. \A r \in RzpIds : Untouched(r)
  BY <1>1 DEF Init, Untouched, Offered, Settled, Captured
<1>3. IdsInv
  BY <1>2 DEF Init, IdsInv, MintedFresh, RequestsApart, UnmintedFresh, PaymentsApart, RowHasId, Idle
<1>4. SettleInv
  BY DEF Init, SettleInv, OpenUnsettled, ClosedSettled, SettledCaptured, ProcessedAccounted,
         ConfirmedOnce, Terminal, Settled
<1>5. JobCaptured /\ CaptureAccounted
  BY DEF Init, JobCaptured, CaptureAccounted, L3Idle
<1> QED
  BY <1>3, <1>4, <1>5 DEF MoneyInv

(* A step on rows that the payment handlers do not own.                    *)
LEMMA QuietStep ==
  ASSUME TypeInv, MoneyInv, UNCHANGED <<payment, ledger, mails, razorpay, acked, req>>,
         processed' \subseteq processed, JobCaptured'
  PROVE  MoneyInv' /\ OutcomeStep
<1>1. IdsInv'
  BY DEF MoneyInv, IdsInv, MintedFresh, RequestsApart, UnmintedFresh, PaymentsApart, RowHasId,
         Untouched, Offered, Settled, Captured
<1>2. SettleInv'
  BY DEF MoneyInv, SettleInv, OpenUnsettled, ClosedSettled, SettledCaptured, ProcessedAccounted,
         ConfirmedOnce, Terminal, Settled, Accounted, Captured
<1>3. CaptureAccounted'
  BY DEF MoneyInv, CaptureAccounted
<1>4. OutcomesKept
  BY DEF OutcomesKept, Captured
<1> QED
  BY <1>1, <1>2, <1>3, <1>4 DEF MoneyInv, OutcomeStep

LEMMA MintMoney ==
  ASSUME TypeInv, MoneyInv, NEW q \in Requests, NEW o \in Orders, NEW r \in RzpIds,
         CreateOrderMint(q, o, r)
  PROVE  MoneyInv' /\ OutcomeStep
<1>1. /\ razorpay[r].order = NoOrder
      /\ razorpay' = [razorpay EXCEPT ![r].order = o]
      /\ req[q] = Idle
      /\ req' = [req EXCEPT ![q] = [order |-> o, rzp |-> r]]
      /\ UNCHANGED <<order, payment, shelf, processed, ledger, mails, acked, l3>>
  BY DEF CreateOrderMint
<1>2. Untouched(r)
  BY <1>1 DEF MoneyInv, IdsInv, UnmintedFresh
<1>3. o # NoOrder
  BY NoOrderAssumption
<1>4. razorpay \in [RzpIds -> [order : Orders \cup {NoOrder}, captured : {"no", "full", "short"},
                               declined : BOOLEAN]]
  BY DEF TypeInv, TypeOK
<1>5. req \in [Requests -> [order : Orders \cup {NoOrder}, rzp : RzpIds \cup {NoRzp}]]
  BY DEF TypeInv, TypeOK
<1>6. \A x \in RzpIds : /\ razorpay'[x].captured = razorpay[x].captured
                        /\ razorpay'[x].order = IF x = r THEN o ELSE razorpay[x].order
  BY <1>1, <1>4
<1>7. \A x \in RzpIds : /\ Untouched(x)' <=> Untouched(x)
                        /\ Captured(x)' <=> Captured(x)
                        /\ Settled(x)' <=> Settled(x)
  BY <1>1, <1>6 DEF Untouched, Offered, Settled, Captured
<1>8. \A p \in Requests : req'[p] = IF p = q THEN [order |-> o, rzp |-> r] ELSE req[p]
  BY <1>1, <1>5
<1>9. \A p \in Requests : req[p] # Idle => req[p].rzp \in RzpIds /\ req[p].rzp # r
  BY <1>1 DEF TypeInv, RequestsTyped, MoneyInv, IdsInv, MintedFresh
<1>10. MintedFresh'
  BY <1>2, <1>3, <1>6, <1>7, <1>8, <1>9 DEF MoneyInv, IdsInv, MintedFresh
<1>11. RequestsApart'
  BY <1>8, <1>9 DEF MoneyInv, IdsInv, RequestsApart
<1>12. UnmintedFresh'
  BY <1>6, <1>7, <1>3 DEF MoneyInv, IdsInv, UnmintedFresh
<1>13. PaymentsApart' /\ RowHasId'
  BY <1>1 DEF MoneyInv, IdsInv, PaymentsApart, RowHasId
<1>14. SettleInv'
  BY <1>1, <1>7 DEF MoneyInv, SettleInv, OpenUnsettled, ClosedSettled, SettledCaptured,
                    ProcessedAccounted, ConfirmedOnce, Terminal, Settled, Accounted
<1>15. JobCaptured' /\ CaptureAccounted'
  BY <1>1, <1>7 DEF TypeInv, JobTyped, MoneyInv, JobCaptured, CaptureAccounted
<1>16. OutcomesKept
  BY <1>1, <1>7 DEF OutcomesKept
<1> QED
  BY <1>10, <1>11, <1>12, <1>13, <1>14, <1>15, <1>16 DEF MoneyInv, IdsInv, OutcomeStep

LEMMA CommitMoney ==
  ASSUME TypeInv, MoneyInv, NEW q \in Requests, CreateOrderCommit(q)
  PROVE  MoneyInv' /\ OutcomeStep
<1> DEFINE o == req[q].order
           r == req[q].rzp
<1>1. /\ req[q] # Idle
      /\ payment' = IF Reusable(o) THEN payment ELSE Superseding(o, r)
      /\ req' = [req EXCEPT ![q] = Idle]
      /\ UNCHANGED <<order, shelf, processed, ledger, mails, razorpay, acked, l3>>
  BY DEF CreateOrderCommit
<1>2. o \in Orders /\ r \in RzpIds
  BY <1>1 DEF TypeInv, RequestsTyped
<1>3. Untouched(r) /\ razorpay[r].order # NoOrder
  BY <1>1 DEF MoneyInv, IdsInv, MintedFresh
<1>4. payment \in [Orders -> PaymentRows]
  BY DEF TypeInv, TypeOK
<1>5. \A x \in Orders : /\ payment[x] \in PaymentRows
                        /\ payment[x].rzp # r
  BY <1>3, <1>4 DEF Untouched, Offered
<1>6. \A p \in Requests : /\ p # q => req'[p] = req[p]
                          /\ req'[q] = Idle
  BY <1>1 DEF TypeInv, TypeOK
<1>7. r # NoRzp
  BY <1>2, BoundsAssumption DEF RzpIds, NoRzp
<1>8. CASE Reusable(o)
  <2>1. payment' = payment
    BY <1>1, <1>8
  <2>2. IdsInv'
    BY <1>1, <1>6, <2>1
       DEF MoneyInv, IdsInv, MintedFresh, RequestsApart, UnmintedFresh, PaymentsApart, RowHasId,
           Untouched, Offered, Settled, Captured
  <2>3. SettleInv'
    BY <1>1, <2>1
       DEF MoneyInv, SettleInv, OpenUnsettled, ClosedSettled, SettledCaptured, ProcessedAccounted,
           ConfirmedOnce, Terminal, Settled, Accounted, Captured
  <2>4. JobCaptured' /\ CaptureAccounted' /\ OutcomesKept
    BY <1>1 DEF MoneyInv, JobCaptured, CaptureAccounted, OutcomesKept, Captured
  <2> QED BY <2>2, <2>3, <2>4 DEF MoneyInv, OutcomeStep
<1>9. CASE ~Reusable(o)
  <2>1. \A x \in Orders : x # o => payment'[x] = payment[x]
    BY <1>1, <1>4, <1>9 DEF Superseding
  <2>2. /\ payment'[o].status = "pending" /\ payment'[o].rzp = r
        /\ payment'[o].old = payment[o].old \cup ({payment[o].rzp} \ {NoRzp})
    BY <1>1, <1>2, <1>4, <1>9 DEF Superseding
  <2>3. \A x \in RzpIds : Offered(x)' => Offered(x) \/ x = r
    BY <2>1, <2>2 DEF Offered
  <2>4. \A x \in RzpIds : Untouched(x) /\ x # r => Untouched(x)'
    BY <1>1, <2>3 DEF Untouched, Settled, Captured
  <2>5. \A p \in Requests : p # q /\ req[p] # Idle => req[p].rzp \in RzpIds /\ req[p].rzp # r
    BY <1>1 DEF TypeInv, RequestsTyped, MoneyInv, IdsInv, RequestsApart
  <2>6. MintedFresh'
    BY <1>1, <1>6, <2>4, <2>5 DEF MoneyInv, IdsInv, MintedFresh
  <2>7. RequestsApart'
    BY <1>6 DEF MoneyInv, IdsInv, RequestsApart
  <2>8. UnmintedFresh'
    BY <1>1, <1>3, <2>4 DEF MoneyInv, IdsInv, UnmintedFresh
  <2>9. PaymentsApart'
    BY <1>2, <1>5, <2>1, <2>2 DEF MoneyInv, IdsInv, PaymentsApart
  <2>10. RowHasId'
    BY <1>2, <1>7, <2>1, <2>2 DEF MoneyInv, IdsInv, RowHasId
  <2>11. OpenUnsettled'
    BY <1>1, <1>2, <1>3, <2>1, <2>2
       DEF MoneyInv, SettleInv, OpenUnsettled, Terminal, Settled, Untouched
  <2>12. ClosedSettled'
    BY <1>1, <1>2, <2>1, <2>2 DEF MoneyInv, SettleInv, ClosedSettled, Terminal, Settled
  <2>13. SettledCaptured' /\ ProcessedAccounted' /\ ConfirmedOnce'
    BY <1>1 DEF MoneyInv, SettleInv, SettledCaptured, ProcessedAccounted, ConfirmedOnce,
                Settled, Accounted, Captured
  <2>14. JobCaptured' /\ CaptureAccounted' /\ OutcomesKept
    BY <1>1 DEF MoneyInv, JobCaptured, CaptureAccounted, OutcomesKept, Captured
  <2> QED BY <2>6, <2>7, <2>8, <2>9, <2>10, <2>11, <2>12, <2>13, <2>14
          DEF MoneyInv, IdsInv, SettleInv, OutcomeStep
<1> QED
  BY <1>8, <1>9

LEMMA DiesMoney ==
  ASSUME TypeInv, MoneyInv, NEW q \in Requests, CreateOrderDies(q)
  PROVE  MoneyInv' /\ OutcomeStep
<1>1. \A p \in Requests : /\ p # q => req'[p] = req[p]
                          /\ req'[q] = Idle
  BY DEF CreateOrderDies, TypeInv, TypeOK
<1>2. UNCHANGED <<payment, processed, ledger, mails, razorpay, acked, l3>>
  BY DEF CreateOrderDies
<1>3. IdsInv'
  BY <1>1, <1>2
     DEF MoneyInv, IdsInv, MintedFresh, RequestsApart, UnmintedFresh, PaymentsApart, RowHasId,
         Untouched, Offered, Settled, Captured
<1>4. SettleInv'
  BY <1>2
     DEF MoneyInv, SettleInv, OpenUnsettled, ClosedSettled, SettledCaptured, ProcessedAccounted,
         ConfirmedOnce, Terminal, Settled, Accounted, Captured
<1>5. JobCaptured' /\ CaptureAccounted' /\ OutcomesKept
  BY <1>2 DEF MoneyInv, JobCaptured, CaptureAccounted, OutcomesKept, Captured
<1> QED
  BY <1>3, <1>4, <1>5 DEF MoneyInv, OutcomeStep

LEMMA GatewayMoney ==
  ASSUME TypeInv, MoneyInv, NEW r \in RzpIds,
         (\E amount \in Shortfalls : GatewayCapture(r, amount)) \/ GatewayDecline(r)
  PROVE  MoneyInv' /\ OutcomeStep
<1>1. razorpay \in [RzpIds -> [order : Orders \cup {NoOrder}, captured : {"no", "full", "short"},
                               declined : BOOLEAN]]
  BY DEF TypeInv, TypeOK
<1>2. /\ Offered(r) /\ ~Captured(r)
      /\ UNCHANGED <<order, payment, shelf, processed, ledger, mails, acked, req, l3>>
  BY DEF GatewayCapture, GatewayDecline, Captured
<1>3. \A x \in RzpIds : razorpay'[x].order = razorpay[x].order
  BY <1>1 DEF GatewayCapture, GatewayDecline
<1>4. \/ \A x \in RzpIds : Captured(x)' <=> Captured(x)
      \/ \A x \in RzpIds : Captured(x)' <=> Captured(x) \/ x = r
  <2>1. ASSUME NEW amount \in Shortfalls, GatewayCapture(r, amount)
        PROVE  \A x \in RzpIds : Captured(x)' <=> Captured(x) \/ x = r
    <3>1. amount # "no"
      BY ShortAssumption
    <3> QED BY <1>1, <2>1, <3>1 DEF GatewayCapture, Captured
  <2>2. CASE GatewayDecline(r)
    BY <1>1, <2>2 DEF GatewayDecline, Captured
  <2> QED BY <2>1, <2>2
<1>5. \A x \in RzpIds : Untouched(x) => Untouched(x)'
  BY <1>2, <1>4 DEF Untouched, Offered, Settled
<1>6. \A q \in Requests : req[q] # Idle => req[q].rzp \in RzpIds
  BY DEF TypeInv, RequestsTyped
<1>7. IdsInv'
  BY <1>2, <1>3, <1>5, <1>6
     DEF MoneyInv, IdsInv, MintedFresh, RequestsApart, UnmintedFresh, PaymentsApart, RowHasId
<1>8. SettleInv'
  BY <1>2, <1>4
     DEF MoneyInv, SettleInv, OpenUnsettled, ClosedSettled, SettledCaptured, ProcessedAccounted,
         ConfirmedOnce, Terminal, Settled, Accounted
<1>9. JobCaptured' /\ CaptureAccounted'
  BY <1>2, <1>4 DEF TypeInv, JobTyped, MoneyInv, JobCaptured, CaptureAccounted
<1>10. OutcomeStep
  BY <1>2, <1>4 DEF OutcomeStep, OutcomesKept, NewCapture
<1> QED
  BY <1>7, <1>8, <1>9, <1>10 DEF MoneyInv

(* What the handlers of the rows leave alone.                              *)
Untouching == UNCHANGED <<razorpay, req>>

(* The conjuncts of MoneyInv that do not speak of acked and l3.            *)
LEMMA IdsKept ==
  ASSUME TypeInv, MoneyInv, Untouching,
         \A o \in Orders : /\ payment'[o].rzp = payment[o].rzp /\ payment'[o].old = payment[o].old
                           /\ payment'[o].status = "none" <=> payment[o].status = "none",
         \A r \in RzpIds : ~Untouched(r) \/ (mails'[r] = mails[r] /\ (Settled(r)' <=> Settled(r)))
  PROVE  IdsInv'
<1>1. \A q \in Requests : req[q] # Idle => req[q].rzp \in RzpIds
  BY DEF TypeInv, RequestsTyped
<1>2. \A r \in RzpIds : Untouched(r) => Untouched(r)'
  BY DEF Untouching, Untouched, Offered, Captured
<1> QED
  BY <1>1, <1>2
     DEF Untouching, MoneyInv, IdsInv, MintedFresh, RequestsApart, UnmintedFresh, PaymentsApart, RowHasId

(* What a capture does to payment, ledger, mails and processed.            *)
LEMMA CaptureEffect ==
  ASSUME TypeInv, NEW o \in Orders, NEW r \in RzpIds, NEW ev, NEW amount, MarkCaptured(o, r, ev, amount)
  PROVE  \/ /\ Terminal(o) /\ processed' = processed \cup ev
            /\ UNCHANGED <<payment, ledger, mails>>
         \/ /\ ev # {} /\ ev \subseteq processed
            /\ UNCHANGED <<payment, processed, ledger, mails>>
         \/ /\ processed' = processed \cup ev /\ ledger' = ledger \cup {<<"amount_mismatch", r>>}
            /\ UNCHANGED <<payment, mails>>
         \/ /\ ~Terminal(o) /\ processed' = processed \cup ev
            /\ payment' = [payment EXCEPT ![o].status = "completed"]
            /\ \/ ledger' = ledger \cup {<<"captured", r>>} /\ mails' = [mails EXCEPT ![r] = @ + 1]
               \/ ledger' = ledger \cup {<<"captured_after_cancel", r>>} /\ mails' = mails
BY DEF MarkCaptured, CaptureIgnored, CaptureSeen, CaptureMismatch, CaptureAfterCancel, CaptureConfirm,
       Record, Seen, Completed

(* Every caller of mark_payment_captured names the Razorpay order that the *)
(* payment is on, and has it captured.                                     *)
LEMMA CaptureMoney ==
  ASSUME TypeInv, MoneyInv, Untouching, NEW o \in Orders, NEW r \in RzpIds,
         payment[o].rzp = r, payment[o].status # "none", Captured(r),
         NEW ev \in SUBSET Events, \A e \in ev : e.rzp = r /\ e.type # "payment.failed",
         NEW amount, MarkCaptured(o, r, ev, amount)
  PROVE  /\ IdsInv' /\ SettleInv' /\ OutcomeStep
         /\ ledger \subseteq ledger' /\ Accounted(r)'
<1>1. /\ payment \in [Orders -> PaymentRows] /\ mails \in [RzpIds -> Nat]
      /\ \A e \in processed : e \in Events
  BY DEF TypeInv, TypeOK
<1>2. \A x \in RzpIds : Captured(x)' <=> Captured(x)
  BY DEF Untouching, Captured
<1>3. ~Untouched(r) /\ r # NoRzp
  BY BoundsAssumption DEF Untouched, RzpIds, NoRzp
<1>4. \A p \in Orders : payment[p].rzp = r => p = o
  BY <1>3 DEF MoneyInv, IdsInv, PaymentsApart
<1>5. CASE /\ Terminal(o) /\ processed' = processed \cup ev
           /\ UNCHANGED <<payment, ledger, mails>>
  <2>1. Settled(r)
    BY <1>5 DEF MoneyInv, SettleInv, ClosedSettled
  <2>2. IdsInv'
    BY <1>5, IdsKept DEF Settled
  <2>3. SettleInv'
    BY <1>2, <1>5, <2>1
       DEF MoneyInv, SettleInv, OpenUnsettled, ClosedSettled, SettledCaptured, ProcessedAccounted,
           ConfirmedOnce, Terminal, Settled, Accounted
  <2>4. OutcomesKept
    BY <1>2, <1>5 DEF OutcomesKept
  <2> QED BY <1>5, <2>1, <2>2, <2>3, <2>4 DEF OutcomeStep, Accounted, Settled
<1>6. CASE /\ ev # {} /\ ev \subseteq processed
           /\ UNCHANGED <<payment, processed, ledger, mails>>
  <2>1. Accounted(r)
    BY <1>6 DEF MoneyInv, SettleInv, ProcessedAccounted
  <2>2. IdsInv'
    BY <1>6, IdsKept DEF Settled
  <2>3. SettleInv'
    BY <1>2, <1>6
       DEF MoneyInv, SettleInv, OpenUnsettled, ClosedSettled, SettledCaptured, ProcessedAccounted,
           ConfirmedOnce, Terminal, Settled, Accounted
  <2>4. OutcomesKept
    BY <1>2, <1>6 DEF OutcomesKept
  <2> QED BY <1>6, <2>1, <2>2, <2>3, <2>4 DEF OutcomeStep, Accounted, Settled
<1>7. CASE /\ processed' = processed \cup ev /\ ledger' = ledger \cup {<<"amount_mismatch", r>>}
           /\ UNCHANGED <<payment, mails>>
  <2>1. \A x \in RzpIds, kind \in SettledKinds : <<kind, x>> \in ledger' <=> <<kind, x>> \in ledger
    BY <1>7 DEF SettledKinds
  <2>2. \A x : Settled(x)' <=> Settled(x)
    BY <1>7 DEF Settled, SettledKinds
  <2>3. Accounted(r)' /\ \A x : Accounted(x) => Accounted(x)'
    BY <1>7, <2>2 DEF Accounted
  <2>4. IdsInv'
    BY <1>7, <2>2, IdsKept
  <2>5. SettleInv'
    BY <1>2, <1>7, <2>2, <2>3
       DEF MoneyInv, SettleInv, OpenUnsettled, ClosedSettled, SettledCaptured, ProcessedAccounted,
           ConfirmedOnce, Terminal
  <2>6. OutcomesKept
    BY <1>2, <2>1 DEF OutcomesKept
  <2> QED BY <1>7, <2>3, <2>4, <2>5, <2>6 DEF OutcomeStep
<1>8. ASSUME NEW kind \in {"captured", "captured_after_cancel"}, ~Terminal(o),
             processed' = processed \cup ev, payment' = [payment EXCEPT ![o].status = "completed"],
             ledger' = ledger \cup {<<kind, r>>},
             mails' = mails \/ mails' = [mails EXCEPT ![r] = @ + 1]
      PROVE  /\ IdsInv' /\ SettleInv' /\ OutcomeStep
             /\ ledger \subseteq ledger' /\ Accounted(r)'
  <2>1. mails[r] = 0 /\ ~Settled(r)
    BY <1>3, <1>8 DEF MoneyInv, SettleInv, OpenUnsettled
  <2>2. kind \in SettledKinds
    BY DEF SettledKinds
  <2>3. \A x : Settled(x)' <=> Settled(x) \/ x = r
    BY <1>8, <2>2 DEF Settled
  <2>4. \A x : Accounted(x) => Accounted(x)'
    BY <1>8, <2>3 DEF Accounted
  <2>5. \A p \in Orders : /\ payment'[p].rzp = payment[p].rzp /\ payment'[p].old = payment[p].old
                          /\ payment'[p].status = IF p = o THEN "completed" ELSE payment[p].status
    BY <1>1, <1>8 DEF PaymentRows
  <2>6. \A x \in RzpIds : mails'[x] = mails[x] \/ (x = r /\ mails'[x] = 1)
    BY <1>1, <1>8, <2>1
  <2>7. IdsInv'
    BY <1>3, <2>3, <2>5, <2>6, IdsKept
  <2>8. OpenUnsettled'
    <3>1. \A p \in Orders : payment[p].rzp \in RzpIds \cup {NoRzp}
      BY <1>1 DEF PaymentRows
    <3> QED BY <1>4, <2>3, <2>5, <2>6, <3>1 DEF MoneyInv, SettleInv, OpenUnsettled, Terminal
  <2>9. ClosedSettled'
    BY <1>4, <2>3, <2>5 DEF MoneyInv, SettleInv, ClosedSettled, Terminal
  <2>10. SettledCaptured'
    BY <1>2, <2>3 DEF MoneyInv, SettleInv, SettledCaptured
  <2>11. Accounted(r)'
    BY <2>3 DEF Accounted
  <2>12. ProcessedAccounted'
    BY <1>8, <2>4, <2>11 DEF MoneyInv, SettleInv, ProcessedAccounted
  <2>13. ConfirmedOnce'
    BY <2>6 DEF MoneyInv, SettleInv, ConfirmedOnce
  <2>14. NewOutcome(r, kind)
    BY <1>2, <1>8, <2>1 DEF NewOutcome
  <2> QED BY <1>8, <2>2, <2>7, <2>8, <2>9, <2>10, <2>11, <2>12, <2>13, <2>14
          DEF SettleInv, OutcomeStep
<1> QED
  <2>1. ASSUME ~Terminal(o), processed' = processed \cup ev,
               payment' = [payment EXCEPT ![o].status = "completed"],
               \/ ledger' = ledger \cup {<<"captured", r>>} /\ mails' = [mails EXCEPT ![r] = @ + 1]
               \/ ledger' = ledger \cup {<<"captured_after_cancel", r>>} /\ mails' = mails
        PROVE  /\ IdsInv' /\ SettleInv' /\ OutcomeStep
               /\ ledger \subseteq ledger' /\ Accounted(r)'
    BY <1>8, <2>1
  <2> QED BY <1>5, <1>6, <1>7, <2>1, CaptureEffect

(* payment.failed, in whatever order it comes, takes no outcome away.      *)
LEMMA FailMoney ==
  ASSUME TypeInv, MoneyInv, Untouching, NEW o \in Orders,
         NEW ev, \A e \in ev : e.type = "payment.failed", MarkFailed(o, ev)
  PROVE  IdsInv' /\ SettleInv' /\ OutcomeStep /\ ledger' = ledger
<1>1. payment \in [Orders -> PaymentRows]
  BY DEF TypeInv, TypeOK
<1>2. /\ UNCHANGED <<ledger, mails>>
      /\ \A e \in processed' : e \in processed \/ e.type = "payment.failed"
      /\ \A x \in Orders :
           /\ payment'[x].rzp = payment[x].rzp /\ payment'[x].old = payment[x].old
           /\ \/ payment'[x].status = payment[x].status
              \/ payment[x].status = "pending" /\ payment'[x].status = "failed"
  BY <1>1 DEF MarkFailed, FailApplies, FailIgnored, MayFail, Record, PaymentRows
<1>3. \A x \in Orders : payment'[x].status = "none" <=> payment[x].status = "none"
  BY <1>2
<1>4. \A x : Settled(x)' <=> Settled(x)
  BY <1>2 DEF Settled
<1>5. IdsInv'
  BY <1>2, <1>3, <1>4, IdsKept
<1>6. \A x \in Orders : Terminal(x)' <=> Terminal(x)
  BY <1>2 DEF Terminal
<1>7. SettleInv'
  BY <1>2, <1>4, <1>6
     DEF MoneyInv, SettleInv, OpenUnsettled, ClosedSettled, SettledCaptured, ProcessedAccounted,
         ConfirmedOnce, Accounted, Untouching, Captured
<1>8. OutcomesKept
  BY <1>2 DEF OutcomesKept, Untouching, Captured
<1> QED
  BY <1>2, <1>5, <1>7, <1>8 DEF OutcomeStep

(* An event of no payment settles an order that no open payment is on.     *)
LEMMA OrphanMoney ==
  ASSUME TypeInv, MoneyInv, Untouching, NEW e \in Events, Emitted(e), Current(e.rzp) = {},
         LogOrphan(e)
  PROVE  /\ IdsInv' /\ SettleInv' /\ OutcomeStep /\ ledger \subseteq ledger'
         /\ e.type # "payment.failed" => Accounted(e.rzp)'
<1> DEFINE r == e.rzp
<1>1. r \in RzpIds
  BY DEF Events
<1>2. /\ ledger' = ledger \cup {<<OrphanKind(e), r>>}
      /\ UNCHANGED <<payment, mails, processed>>
  BY DEF LogOrphan
<1>3. CASE e.type = "payment.failed"
  <2>1. OrphanKind(e) = "orphan_failure" /\ "orphan_failure" \notin SettledKinds
    BY <1>3 DEF OrphanKind, SettledKinds
  <2>2. \A x : \A kind \in SettledKinds : <<kind, x>> \in ledger' <=> <<kind, x>> \in ledger
    BY <1>2, <2>1
  <2>3. \A x : /\ Settled(x)' <=> Settled(x)
               /\ Accounted(x) => Accounted(x)'
    BY <1>2, <2>2 DEF Settled, Accounted
  <2>4. IdsInv'
    BY <1>2, <2>3, IdsKept
  <2>5. SettleInv'
    BY <1>2, <2>3
       DEF MoneyInv, SettleInv, OpenUnsettled, ClosedSettled, SettledCaptured, ProcessedAccounted,
           ConfirmedOnce, Terminal, Untouching, Captured
  <2>6. OutcomesKept
    BY <2>2 DEF OutcomesKept, Untouching, Captured
  <2> QED BY <1>2, <1>3, <2>4, <2>5, <2>6 DEF OutcomeStep
<1>4. CASE e.type # "payment.failed"
  <2>1. OrphanKind(e) = "orphan_capture" /\ "orphan_capture" \in SettledKinds /\ Captured(r)
    BY <1>4 DEF OrphanKind, SettledKinds, Emitted
  <2>2. \A x : /\ Settled(x)' <=> Settled(x) \/ x = r
               /\ Accounted(x) => Accounted(x)'
               /\ Accounted(r)'
    BY <1>2, <2>1 DEF Settled, Accounted
  <2>3. \A o \in Orders : payment[o].rzp # r
    BY <1>1, BoundsAssumption DEF Current, MoneyInv, IdsInv, RowHasId, RzpIds, NoRzp
  <2>4. IdsInv'
    BY <1>2, <2>1, <2>2, IdsKept DEF Untouched
  <2>5. SettleInv'
    BY <1>2, <2>1, <2>2, <2>3
       DEF MoneyInv, SettleInv, OpenUnsettled, ClosedSettled, SettledCaptured, ProcessedAccounted,
           ConfirmedOnce, Terminal, Untouching, Captured
  <2>6. NewOutcome(r, "orphan_capture")
    BY <1>2, <2>1 DEF NewOutcome, Untouching, Captured
  <2> QED BY <1>1, <1>2, <2>1, <2>2, <2>4, <2>5, <2>6 DEF OutcomeStep
<1> QED
  BY <1>3, <1>4

(* Rows are only added, so what was acknowledged stays accounted for.      *)
LEMMA AckedKept ==
  ASSUME CaptureAccounted, ledger \subseteq ledger',
         \A e \in acked' : e \in acked \/ (e.type # "payment.failed" => Accounted(e.rzp)')
  PROVE  CaptureAccounted'
<1>1. \A r : Accounted(r)' => \E kind \in LedgerKinds \ {"orphan_failure"} : <<kind, r>> \in ledger'
  BY DEF Accounted, Settled, SettledKinds, LedgerKinds
<1> QED
  BY <1>1 DEF CaptureAccounted

-----------------------------------------------------------------------------
LEMMA CustomerMoney == ASSUME TypeInv, MoneyInv, Customer \/ Cancelling
                       PROVE  MoneyInv' /\ OutcomeStep
<1>1. ASSUME NEW o \in Orders, NEW m \in Methods, NEW t \in Totals, Checkout(o, m, t)
      PROVE  MoneyInv' /\ OutcomeStep
  BY <1>1, QuietStep DEF Checkout, MoneyInv, JobCaptured, Captured
<1>2. ASSUME NEW q \in Requests, NEW o \in Orders, NEW r \in RzpIds, CreateOrderMint(q, o, r)
      PROVE  MoneyInv' /\ OutcomeStep
  BY <1>2, MintMoney
<1>3. ASSUME NEW q \in Requests, CreateOrderCommit(q) \/ CreateOrderDies(q)
      PROVE  MoneyInv' /\ OutcomeStep
  BY <1>3, CommitMoney, DiesMoney
<1>4. ASSUME NEW o \in Orders, NEW r \in RzpIds, VerifyPayment(o, r)
      PROVE  MoneyInv' /\ OutcomeStep
  <2>1. /\ Untouching /\ payment[o].rzp = r /\ payment[o].status # "none" /\ Captured(r)
        /\ MarkCaptured(o, r, {}, "unchecked") /\ UNCHANGED <<acked, l3>>
    BY <1>4 DEF VerifyPayment, Untouching, Current
  <2>2. IdsInv' /\ SettleInv' /\ OutcomeStep /\ ledger \subseteq ledger'
    BY <2>1, CaptureMoney
  <2>3. CaptureAccounted'
    BY <2>1, <2>2, AckedKept DEF MoneyInv
  <2> QED BY <2>1, <2>2, <2>3 DEF MoneyInv, JobCaptured, Captured, Untouching
<1>5. ASSUME NEW o \in Orders, NEW who \in Cancellers, Cancel(o, who)
      PROVE  MoneyInv' /\ OutcomeStep
  BY <1>5, QuietStep DEF Cancel, MoneyInv, JobCaptured, Captured
<1> QED
  BY <1>1, <1>2, <1>3, <1>4, <1>5 DEF Customer, Cancelling

LEMMA StaffMoney == ASSUME TypeInv, MoneyInv, Staff
                    PROVE  MoneyInv' /\ OutcomeStep
<1>1. ASSUME NEW o \in Orders, ResyncPayment(o)
      PROVE  MoneyInv' /\ OutcomeStep
  <2> DEFINE r == payment[o].rzp
  <2>1. Untouching /\ r # NoRzp /\ Captured(r) /\ UNCHANGED <<acked, l3>>
    BY <1>1 DEF ResyncPayment, Untouching
  <2>2. r \in RzpIds /\ payment[o].status # "none"
    BY <2>1 DEF TypeInv, TypeOK, PaymentRows, MoneyInv, IdsInv, RowHasId
  <2>3. CASE MarkCaptured(o, r, {}, razorpay[r].captured)
    <3>1. IdsInv' /\ SettleInv' /\ OutcomeStep /\ ledger \subseteq ledger'
      BY <2>1, <2>2, <2>3, CaptureMoney
    <3>2. CaptureAccounted'
      BY <2>1, <3>1, AckedKept DEF MoneyInv
    <3> QED BY <2>1, <3>1, <3>2 DEF MoneyInv, JobCaptured, Captured, Untouching
  <2>4. CASE /\ ledger' = ledger \cup {<<"amount_mismatch", r>>}
             /\ UNCHANGED <<order, payment, shelf, processed, mails>>
    <3>1. \A x : \A kind \in SettledKinds : <<kind, x>> \in ledger' <=> <<kind, x>> \in ledger
      BY <2>4 DEF SettledKinds
    <3>2. \A x : /\ Settled(x)' <=> Settled(x)
                 /\ Accounted(x) => Accounted(x)'
      BY <2>4, <3>1 DEF Settled, Accounted
    <3>3. IdsInv'
      BY <2>1, <2>4, <3>2, IdsKept
    <3>4. SettleInv'
      BY <2>1, <2>4, <3>2
         DEF MoneyInv, SettleInv, OpenUnsettled, ClosedSettled, SettledCaptured, ProcessedAccounted,
             ConfirmedOnce, Terminal, Untouching, Captured
    <3>5. CaptureAccounted'
      BY <2>1, <2>4, AckedKept DEF MoneyInv
    <3>6. OutcomesKept
      BY <2>1, <3>1 DEF OutcomesKept, Untouching, Captured
    <3> QED BY <2>1, <3>3, <3>4, <3>5, <3>6 DEF MoneyInv, JobCaptured, Captured, Untouching, OutcomeStep
  <2> QED BY <1>1, <2>3, <2>4 DEF ResyncPayment
<1>2. ASSUME NEW o \in Binnable, SoftDelete(o) \/ Undelete(o)
      PROVE  MoneyInv' /\ OutcomeStep
  BY <1>2, QuietStep DEF SoftDelete, Undelete, MoneyInv, JobCaptured, Captured
<1>3. ASSUME NEW o \in Orders, NEW status, NEW edit, NEW tick, NEW given,
             AdminUpdate(o, status, edit, tick, given)
      PROVE  MoneyInv' /\ OutcomeStep
  <2>1. UNCHANGED <<payment, processed, ledger, mails, razorpay, acked, req, l3>>
    BY <1>3 DEF AdminUpdate
  <2> QED BY <2>1, QuietStep DEF MoneyInv, JobCaptured, Captured
<1> QED
  BY <1>1, <1>2, <1>3 DEF Staff

LEMMA RazorpayMoney == ASSUME TypeInv, MoneyInv, Razorpay
                       PROVE  MoneyInv' /\ OutcomeStep
<1>1. ASSUME NEW r \in RzpIds, NEW amount \in Shortfalls, GatewayCapture(r, amount)
      PROVE  MoneyInv' /\ OutcomeStep
  BY <1>1, GatewayMoney
<1>2. ASSUME NEW r \in RzpIds, GatewayDecline(r)
      PROVE  MoneyInv' /\ OutcomeStep
  BY <1>2, GatewayMoney
<1>3. ASSUME NEW e \in Events, RazorpayWebhook(e)
      PROVE  MoneyInv' /\ OutcomeStep
  <2>1. Untouching /\ Emitted(e) /\ acked' = acked \cup {e} /\ UNCHANGED l3 /\ e.rzp \in RzpIds
    BY <1>3 DEF RazorpayWebhook, Untouching, Events
  <2>2. /\ IdsInv' /\ SettleInv' /\ OutcomeStep /\ ledger \subseteq ledger'
        /\ e.type # "payment.failed" => Accounted(e.rzp)'
    <3>1. CASE Current(e.rzp) = {}
      BY <1>3, <2>1, <3>1, OrphanMoney DEF RazorpayWebhook
    <3>2. CASE Current(e.rzp) # {}
      <4>1. PICK o \in Current(e.rzp) : DispatchWebhookEvent(o, e)
        BY <1>3, <3>2 DEF RazorpayWebhook
      <4>2. o \in Orders /\ payment[o].rzp = e.rzp /\ payment[o].status # "none"
        BY DEF Current
      <4>3. CASE e.type = "payment.failed"
        <5>1. MarkFailed(o, {e})
          BY <4>1, <4>3 DEF DispatchWebhookEvent
        <5> QED BY <2>1, <4>2, <4>3, <5>1, FailMoney
      <4>4. CASE e.type # "payment.failed"
        <5>1. MarkCaptured(o, e.rzp, {e}, razorpay[e.rzp].captured) /\ Captured(e.rzp)
          BY <2>1, <4>1, <4>4 DEF DispatchWebhookEvent, Emitted
        <5> QED BY <2>1, <4>2, <4>4, <5>1, CaptureMoney
      <4> QED BY <4>3, <4>4
    <3> QED BY <3>1, <3>2
  <2>3. CaptureAccounted'
    BY <2>1, <2>2, AckedKept DEF MoneyInv
  <2> QED BY <2>1, <2>2, <2>3 DEF MoneyInv, JobCaptured, Captured, Untouching
<1> QED
  BY <1>1, <1>2, <1>3 DEF Razorpay

LEMMA ReconcileMoney == ASSUME TypeInv, MoneyInv, Reconcile
                        PROVE  MoneyInv' /\ OutcomeStep
<1>1. ASSUME NEW due \in SUBSET Orders, L3Query(due)
      PROVE  MoneyInv' /\ OutcomeStep
  BY <1>1, QuietStep DEF L3Query, L3Idle, JobCaptured
<1>2. ASSUME NEW o \in Orders, L3Fetch(o) \/ L3FetchFails(o)
      PROVE  MoneyInv' /\ OutcomeStep
  <2>1. CASE L3Fetch(o)
    <3>1. JobCaptured'
      BY <2>1 DEF L3Fetch, JobCaptured, Captured
    <3> QED BY <2>1, <3>1, QuietStep DEF L3Fetch
  <2>2. CASE L3FetchFails(o)
    <3>1. l3'.captured = l3.captured /\ l3'.rzp = l3.rzp /\ UNCHANGED razorpay
      BY <2>2 DEF L3FetchFails, TypeInv, TypeOK
    <3>2. JobCaptured'
      BY <3>1 DEF MoneyInv, JobCaptured, Captured
    <3> QED BY <2>2, <3>2, QuietStep DEF L3FetchFails
  <2> QED BY <1>2, <2>1, <2>2
<1>3. ASSUME L3Act
      PROVE  MoneyInv' /\ OutcomeStep
  <2>1. Untouching /\ UNCHANGED acked
    BY <1>3 DEF L3Act, Untouching
  <2>2. JobCaptured'
    BY <1>3 DEF L3Act, L3Idle, JobCaptured
  <2>3. CASE UNCHANGED <<payment, processed, ledger, mails>>
    BY <2>1, <2>2, <2>3, QuietStep DEF Untouching
  <2>4. ASSUME l3.captured, NEW o \in Current(l3.rzp),
               MarkCaptured(o, l3.rzp, {}, razorpay[l3.rzp].captured)
        PROVE  MoneyInv' /\ OutcomeStep
    <3>1. /\ o \in Orders /\ payment[o].rzp = l3.rzp /\ payment[o].status # "none"
          /\ l3.rzp \in RzpIds /\ Captured(l3.rzp)
      BY <2>4 DEF Current, TypeInv, JobTyped, MoneyInv, JobCaptured
    <3>2. IdsInv' /\ SettleInv' /\ OutcomeStep /\ ledger \subseteq ledger'
      BY <2>1, <2>4, <3>1, CaptureMoney
    <3>3. CaptureAccounted'
      BY <2>1, <3>2, AckedKept DEF MoneyInv
    <3> QED BY <2>2, <3>2, <3>3 DEF MoneyInv
  <2> QED BY <1>3, <2>3, <2>4 DEF L3Act, CancelAbandoned
<1>4. ASSUME NEW kept \in SUBSET processed, L3Finish(kept)
      PROVE  MoneyInv' /\ OutcomeStep
  BY <1>4, QuietStep DEF L3Finish, L3Idle, JobCaptured
<1>5. ASSUME L3Crash
      PROVE  MoneyInv' /\ OutcomeStep
  BY <1>5, QuietStep DEF L3Crash, L3Idle, JobCaptured
<1> QED
  BY <1>1, <1>2, <1>3, <1>4, <1>5 DEF Reconcile

LEMMA MoneyStep == ASSUME TypeInv, MoneyInv, [Next]_vars
                   PROVE  MoneyInv' /\ OutcomeStep
<1>1. CASE UNCHANGED vars
  BY <1>1, QuietStep DEF vars, MoneyInv, JobCaptured, Captured
<1> QED
  BY <1>1, CustomerMoney, StaffMoney, RazorpayMoney, ReconcileMoney DEF Next

-----------------------------------------------------------------------------
(* However /verify/, repeated webhooks, L3 and resync race, a capture is   *)
(* confirmed to the customer at most once.                                 *)
THEOREM ConfirmedAtMostOnce == Spec => []ConfirmedOnce
<1>1. TypeInv /\ MoneyInv /\ [Next]_vars => MoneyInv'
  BY MoneyStep
<1>2. MoneyInv => ConfirmedOnce
  BY DEF MoneyInv, SettleInv
<1> QED
  BY TypeInit, TypeStep, MoneyInit, <1>1, <1>2, PTL DEF Spec

(* No capture is acknowledged to Razorpay without a row that says what     *)
(* became of the money, orphans and repeated events included.              *)
THEOREM CapturesAreAccounted == Spec => []CaptureAccounted
<1>1. TypeInv /\ MoneyInv /\ [Next]_vars => MoneyInv'
  BY MoneyStep
<1>2. MoneyInv => CaptureAccounted
  BY DEF MoneyInv
<1> QED
  BY TypeInit, TypeStep, MoneyInit, <1>1, <1>2, PTL DEF Spec

(***************************************************************************)
(* The safety part of the refinement.                                      *)
(***************************************************************************)
LEMMA OutcomeValue ==
  ASSUME NEW r \in RzpIds
  PROVE  /\ ~Captured(r) => OutcomeOf(r) = "none"
         /\ Captured(r) /\ <<"captured", r>> \in ledger => OutcomeOf(r) = "sold"
         /\ Captured(r) /\ <<"captured", r>> \notin ledger /\ Settled(r) => OutcomeOf(r) = "flagged"
         /\ Captured(r) /\ ~Settled(r) => OutcomeOf(r) = "received"
BY DEF OutcomeOf, Sold, Settled, SettledKinds

LEMMA OutcomeValueNext ==
  ASSUME NEW r \in RzpIds
  PROVE  /\ ~Captured(r)' => OutcomeOf(r)' = "none"
         /\ Captured(r)' /\ <<"captured", r>> \in ledger' => OutcomeOf(r)' = "sold"
         /\ Captured(r)' /\ <<"captured", r>> \notin ledger' /\ Settled(r)' => OutcomeOf(r)' = "flagged"
         /\ Captured(r)' /\ ~Settled(r)' => OutcomeOf(r)' = "received"
BY DEF OutcomeOf, Sold, Settled, SettledKinds

Outcomes == [r \in RzpIds |-> OutcomeOf(r)]

LEMMA OutcomeStepRefines ==
  ASSUME MoneyInv, OutcomeStep
  PROVE  \/ Outcomes' = Outcomes
         \/ \E r \in RzpIds :
              \/ Outcomes[r] = "none" /\ Outcomes' = [Outcomes EXCEPT ![r] = "received"]
              \/ \E result \in {"sold", "flagged"} :
                   Outcomes[r] = "received" /\ Outcomes' = [Outcomes EXCEPT ![r] = result]
<1>1. CASE OutcomesKept
  <2>1. ASSUME NEW x \in RzpIds PROVE OutcomeOf(x)' = OutcomeOf(x)
    <3>1. Settled(x)' <=> Settled(x)
      BY <1>1 DEF OutcomesKept, Settled
    <3>2. /\ <<"captured", x>> \in ledger' <=> <<"captured", x>> \in ledger
          /\ Captured(x)' <=> Captured(x)
      BY <1>1 DEF OutcomesKept, SettledKinds
    <3> QED BY <3>1, <3>2, OutcomeValue, OutcomeValueNext
  <2> QED BY <2>1 DEF Outcomes
<1>2. ASSUME NEW r \in RzpIds, NewCapture(r)
      PROVE  Outcomes[r] = "none" /\ Outcomes' = [Outcomes EXCEPT ![r] = "received"]
  <2>1. ~Captured(r) /\ ~Settled(r)
    BY <1>2 DEF NewCapture, MoneyInv, SettleInv, SettledCaptured
  <2>2. \A x : Settled(x)' <=> Settled(x)
    BY <1>2 DEF NewCapture, Settled
  <2>3. Captured(r)' /\ ~Settled(r)'
    BY <1>2, <2>1, <2>2 DEF NewCapture
  <2>4. OutcomeOf(r) = "none" /\ OutcomeOf(r)' = "received"
    BY <2>1, <2>3, OutcomeValue, OutcomeValueNext
  <2>5. ASSUME NEW x \in RzpIds, x # r PROVE OutcomeOf(x)' = OutcomeOf(x)
    <3>1. /\ Captured(x)' <=> Captured(x)
          /\ <<"captured", x>> \in ledger' <=> <<"captured", x>> \in ledger
      BY <1>2, <2>5 DEF NewCapture
    <3> QED BY <2>2, <3>1, OutcomeValue, OutcomeValueNext
  <2> QED BY <2>4, <2>5 DEF Outcomes
<1>3. ASSUME NEW r \in RzpIds, NEW kind \in SettledKinds, NewOutcome(r, kind)
      PROVE  \/ Outcomes' = Outcomes
             \/ \E result \in {"sold", "flagged"} :
                  Outcomes[r] = "received" /\ Outcomes' = [Outcomes EXCEPT ![r] = result]
  <2>1. /\ Captured(r) /\ ledger' = ledger \cup {<<kind, r>>}
        /\ \A x \in RzpIds : Captured(x)' <=> Captured(x)
    BY <1>3 DEF NewOutcome
  <2>2. \A x : Settled(x)' <=> Settled(x) \/ x = r
    BY <2>1 DEF Settled
  <2>3. ASSUME NEW x \in RzpIds, x # r PROVE OutcomeOf(x)' = OutcomeOf(x)
    <3>1. <<"captured", x>> \in ledger' <=> <<"captured", x>> \in ledger
      BY <2>1, <2>3
    <3> QED BY <2>1, <2>2, <2>3, <3>1, OutcomeValue, OutcomeValueNext
  <2>4. CASE Settled(r)
    <3>1. kind = "orphan_capture"
      BY <1>3, <2>4 DEF NewOutcome
    <3>2. <<"captured", r>> \in ledger' <=> <<"captured", r>> \in ledger
      BY <2>1, <3>1
    <3>3. OutcomeOf(r)' = OutcomeOf(r)
      BY <2>1, <2>2, <2>4, <3>2, OutcomeValue, OutcomeValueNext
    <3> QED BY <2>3, <3>3 DEF Outcomes
  <2>5. CASE ~Settled(r)
    <3>1. OutcomeOf(r) = "received"
      BY <2>1, <2>5, OutcomeValue
    <3>2. OutcomeOf(r)' \in {"sold", "flagged"}
      BY <2>1, <2>2, OutcomeValueNext
    <3>3. Outcomes' = [Outcomes EXCEPT ![r] = OutcomeOf(r)']
      BY <2>3 DEF Outcomes
    <3> QED BY <3>1, <3>2, <3>3 DEF Outcomes
  <2> QED BY <2>4, <2>5
<1> QED
  BY <1>1, <1>2, <1>3 DEF OutcomeStep

(* Each capture has at most one outcome, which never changes: every step   *)
(* of the handlers is a step of CaptureOutcome or stutters.                *)
THEOREM OutcomesAreFinal == Spec => OneOutcome
<1>1. Init /\ TypeInv => Outcome!Init
  <2> SUFFICES ASSUME Init, TypeInv PROVE Outcome!Init
    OBVIOUS
  <2>1. \A r \in RzpIds : ~Captured(r)
    BY DEF Init, Captured
  <2>2. \A r \in RzpIds : OutcomeOf(r) = "none"
    BY <2>1, OutcomeValue
  <2> QED BY <2>2 DEF Outcome!Init
<1>2. TypeInv /\ MoneyInv /\ [Next]_vars => [Outcome!Next]_([r \in RzpIds |-> OutcomeOf(r)])
  <2> SUFFICES ASSUME TypeInv, MoneyInv, [Next]_vars
               PROVE  [Outcome!Next]_([r \in RzpIds |-> OutcomeOf(r)])
    OBVIOUS
  <2>1. OutcomeStep
    BY MoneyStep
  <2> QED BY <2>1, OutcomeStepRefines DEF Outcomes, Outcome!Next, Outcome!Receive, Outcome!Settle
<1>3. TypeInv /\ MoneyInv /\ [Next]_vars => MoneyInv'
  BY MoneyStep
<1> QED
  BY TypeInit, TypeStep, MoneyInit, <1>1, <1>2, <1>3, PTL DEF Spec, OneOutcome, Outcome!SafeSpec

-----------------------------------------------------------------------------
(***************************************************************************)
(* The books: what the Order row says of the money.  A step of Next does   *)
(* one of these things to what it says.                                    *)
(***************************************************************************)
MoneyIn == {"paid", "refunded"}

SameSale(x) == order'[x].method = order[x].method /\ order'[x].total = order[x].total

SameFunds(x) == /\ SameSale(x)
                /\ order'[x].refunded = order[x].refunded
                /\ order'[x].cod = order[x].cod

Unmoved(x) == SameFunds(x) /\ order'[x].pay = order[x].pay

(* At checkout: only a free order starts as paid.                          *)
Born(x) == /\ ~Placed(x) /\ order'[x].refunded = 0
           /\ order'[x].pay \in MoneyIn => order'[x].total = 0

(* Abandoned, or its payment failed: never when the money is in.           *)
Lost(x) == /\ SameFunds(x)
           /\ order'[x].pay \notin MoneyIn
           /\ order[x].pay = "paid" => payment'[x].status # "completed"

Typed(x) == SameFunds(x) /\ order'[x].pay \in HandEdits

(* The sale is on the ledger, for a captured Razorpay order of this order. *)
Backed(x) == \E r \in RzpIds : razorpay[r].order = x /\ Sold(r) /\ Captured(r)

Sale(x) == SameFunds(x) /\ order'[x].pay = "paid" /\ Backed(x)'

CashIn(x) == /\ SameSale(x) /\ order[x].method = "COD"
             /\ order'[x].refunded = order[x].refunded
             /\ order'[x].cod /\ order'[x].pay = "paid"

CashOut(x) == /\ SameSale(x) /\ order[x].method = "COD"
              /\ order[x].refunded = 0 /\ order'[x].refunded = 0
              /\ order'[x].pay = "pending"

MoneyBack(x) == /\ SameSale(x)
                /\ Placed(x) /\ IsRefundablePayment(x)
                /\ order[x].refunded < order'[x].refunded
                /\ order'[x].refunded <= order[x].total
                /\ order'[x].pay = "refunded"
                /\ CombinedEdits \/ order'[x].cod = order[x].cod

RowStep(x) == \/ Unmoved(x) \/ Born(x) \/ Lost(x) \/ Typed(x)
              \/ Sale(x) \/ CashIn(x) \/ CashOut(x) \/ MoneyBack(x)

(* ... and this to what backs it.                                          *)
RecordsKept ==
  /\ ledger \subseteq ledger'
  /\ \A r \in RzpIds : /\ Captured(r) => Captured(r)'
                       /\ razorpay[r].order \in {NoOrder, razorpay'[r].order}

(* Each id belongs to the order that create-order minted it for.           *)
Owned == /\ \A o \in Orders : payment[o].rzp # NoRzp => razorpay[payment[o].rzp].order = o
         /\ \A q \in Requests : req[q] # Idle => razorpay[req[q].rzp].order = req[q].order

-----------------------------------------------------------------------------
LEMMA AdminUpdateRow ==
  ASSUME TypeInv, NEW o \in Orders, NEW status \in AdminStatuses,
         NEW edit \in HandEdits \cup {"keep"}, NEW tick \in {"keep", "tick", "untick"},
         NEW given \in 0..order[o].total, status = "refunded" /\ tick # "keep" => CombinedEdits,
         AdminUpdate(o, status, edit, tick, given)
  PROVE  \A x \in Orders : RowStep(x)
<1> DEFINE old        == order[o].status
           cancelling == status = "cancelled" /\ old # "cancelled"
           recording  == status = "refunded" /\ (old # "refunded" \/ given > 0)
           amount     == IF given > 0 THEN given ELSE RefundableBalance(o)
           edited     == Edited(order[o], edit)
           ticked     == Ticked(edited, tick)
           row        == [ticked EXCEPT !.status = status]
<1>1. order \in [Orders -> OrderRows] /\ order[o] \in OrderRows
  BY DEF TypeInv, TypeOK
<1>2. /\ edited \in OrderRows
      /\ edited.method = order[o].method /\ edited.total = order[o].total
      /\ edited.refunded = order[o].refunded /\ edited.cod = order[o].cod
      /\ edited.pay = order[o].pay \/ edited.pay \in HandEdits
  BY <1>1, AdminAssumption DEF Edited, OrderRows
<1> HIDE DEF edited
<1>3. /\ ticked \in OrderRows
      /\ ticked.method = edited.method /\ ticked.total = edited.total
      /\ ticked.refunded = edited.refunded
      /\ \/ ticked.cod = edited.cod /\ ticked.pay = edited.pay
         \/ tick = "tick" /\ ticked.cod = TRUE /\ ticked.pay = "paid"
         \/ tick = "untick" /\ edited.cod /\ ticked.cod = FALSE /\ ticked.pay = "pending"
      /\ tick = "keep" => ticked.cod = edited.cod
  BY <1>2 DEF Ticked, OrderRows, PayStatuses
<1> HIDE DEF ticked
<1>4. /\ row \in OrderRows /\ row.status = status
      /\ row.method = ticked.method /\ row.total = ticked.total
      /\ row.refunded = ticked.refunded /\ row.cod = ticked.cod /\ row.pay = ticked.pay
  BY <1>3, AdminAssumption DEF OrderRows
<1> HIDE DEF row
<1>5. /\ Placed(o) /\ status # "absent"
      /\ recording => /\ IsRefundablePayment(o) /\ RefundableBalance(o) > 0
                      /\ amount <= RefundableBalance(o)
      /\ tick # "keep" => order[o].method = "COD"
      /\ tick = "untick" /\ order[o].cod => MayUntick(o)
      /\ order' = [order EXCEPT ![o] = IF recording THEN Refunded(row, amount)
                                       ELSE IF cancelling THEN [row EXCEPT !.restored = TRUE]
                                       ELSE row]
  BY AdminAssumption DEF AdminUpdate, row, ticked, edited, Statuses
<1>6. /\ amount \in Int /\ (recording => amount > 0)
      /\ order[o].refunded \in Nat /\ order[o].total \in Nat
  BY <1>1, <1>5 DEF RefundableBalance, OrderRows
<1>7. recording => order[o].refunded + amount <= order[o].total
  BY <1>5, <1>6 DEF RefundableBalance
<1> HIDE DEF amount
<1>8. \A x \in Orders : x # o => order'[x] = order[x]
  BY <1>1, <1>5
<1>9. order'[o] = IF recording THEN Refunded(row, amount)
                  ELSE IF cancelling THEN [row EXCEPT !.restored = TRUE] ELSE row
  BY <1>1, <1>5
<1>10. \A x \in Orders : x # o => Unmoved(x)
  BY <1>8 DEF Unmoved, SameFunds, SameSale
<1> SUFFICES RowStep(o)
  BY <1>10 DEF RowStep
<1>11. CASE recording
  <2> DEFINE sum == row.refunded + amount
  <2>1. sum = order[o].refunded + amount
    BY <1>2, <1>3, <1>4
  <2> HIDE DEF sum
  <2>2. Refunded(row, amount) = [row EXCEPT !.refunded = sum, !.status = "refunded",
                                            !.pay = "refunded", !.restored = TRUE]
    BY DEF Refunded, sum
  <2>3. order'[o] = [row EXCEPT !.refunded = sum, !.status = "refunded",
                                !.pay = "refunded", !.restored = TRUE]
    BY <1>9, <1>11, <2>2
  <2>4. /\ order'[o].refunded = sum /\ order'[o].status = "refunded" /\ order'[o].pay = "refunded"
        /\ order'[o].method = row.method /\ order'[o].total = row.total /\ order'[o].cod = row.cod
    BY <2>3, <1>4 DEF OrderRows
  <2>5. SameSale(o)
    BY <1>2, <1>3, <1>4, <1>5, <2>4 DEF SameSale
  <2>6. order[o].refunded < sum /\ sum <= order[o].total
    BY <1>6, <1>7, <1>11, <2>1
  <2>7. CombinedEdits \/ order'[o].cod = order[o].cod
    BY <1>2, <1>3, <1>4, <1>11, <2>4
  <2>8. MoneyBack(o)
    BY <1>5, <1>11, <2>4, <2>5, <2>6, <2>7 DEF MoneyBack
  <2> QED BY <2>8 DEF RowStep
<1>12. CASE ~recording
  <2>1. /\ order'[o].status = row.status /\ order'[o].pay = row.pay
        /\ order'[o].method = row.method /\ order'[o].total = row.total
        /\ order'[o].refunded = row.refunded /\ order'[o].cod = row.cod
    BY <1>4, <1>9, <1>12 DEF OrderRows
  <2>2. SameSale(o) /\ order'[o].refunded = order[o].refunded
    BY <1>2, <1>3, <1>4, <1>5, <2>1 DEF SameSale
  <2>3. CASE ticked.cod = edited.cod /\ ticked.pay = edited.pay
    BY <1>2, <1>4, <2>1, <2>2, <2>3 DEF SameFunds, Unmoved, Typed, RowStep
  <2>4. CASE tick = "tick" /\ ticked.cod = TRUE /\ ticked.pay = "paid"
    BY <1>4, <1>5, <2>1, <2>2, <2>4 DEF CashIn, RowStep
  <2>5. CASE tick = "untick" /\ edited.cod /\ ticked.cod = FALSE /\ ticked.pay = "pending"
    BY <1>2, <1>4, <1>5, <2>1, <2>2, <2>5 DEF CashOut, MayUntick, RowStep
  <2> QED BY <1>3, <2>3, <2>4, <2>5
<1> QED
  BY <1>11, <1>12

(* A payment that completes is paid for on the order's row or flagged.     *)
Reported(x) == payment'[x].status = "completed" =>
  \/ payment[x].status = "completed" /\ payment'[x].rzp = payment[x].rzp
  \/ order'[x].pay = "paid"
  \/ <<"captured_after_cancel", payment'[x].rzp>> \in ledger'

BookStep == /\ RecordsKept /\ Owned' /\ JobCaptured'
            /\ \A x \in Orders : RowStep(x) /\ Reported(x)

BookBase == TypeInv /\ Owned /\ JobCaptured

LEMMA RowsUnmoved ==
  ASSUME UNCHANGED <<order, payment>> PROVE \A x \in Orders : RowStep(x) /\ Reported(x)
BY DEF RowStep, Unmoved, SameFunds, SameSale, Reported

LEMMA CaptureRow ==
  ASSUME BookBase, NEW o \in Orders, NEW r \in RzpIds, payment[o].rzp = r, Captured(r),
         razorpay' = razorpay, NEW ev, NEW amount, MarkCaptured(o, r, ev, amount)
  PROVE  /\ \A x \in Orders : RowStep(x) /\ Reported(x) /\ payment'[x].rzp = payment[x].rzp
         /\ ledger \subseteq ledger'
<1>1. order \in [Orders -> OrderRows] /\ payment \in [Orders -> PaymentRows]
  BY DEF BookBase, TypeInv, TypeOK
<1>2. CASE UNCHANGED <<order, payment>> /\ ledger \subseteq ledger'
  BY <1>2, RowsUnmoved
<1>3. CASE CaptureAfterCancel(o, r, ev, amount)
  <2>1. \A x \in Orders : /\ x # o => payment'[x] = payment[x]
                          /\ payment'[x].rzp = payment[x].rzp
    BY <1>1, <1>3 DEF CaptureAfterCancel, Completed, PaymentRows
  <2> QED BY <1>3, <2>1 DEF CaptureAfterCancel, RowStep, Unmoved, SameFunds, SameSale, Reported
<1>4. CASE CaptureConfirm(o, r, ev, amount)
  <2>1. \A x \in Orders : /\ x # o => payment'[x] = payment[x] /\ order'[x] = order[x]
                          /\ payment'[x].rzp = payment[x].rzp
    BY <1>1, <1>4 DEF CaptureConfirm, Completed, PaymentRows
  <2>2. /\ order'[o].status = "confirmed" /\ order'[o].pay = "paid"
        /\ order'[o].method = order[o].method /\ order'[o].total = order[o].total
        /\ order'[o].refunded = order[o].refunded /\ order'[o].cod = order[o].cod
    BY <1>1, <1>4 DEF CaptureConfirm, OrderRows
  <2>3. r # NoRzp
    BY BoundsAssumption DEF RzpIds, NoRzp
  <2>4. Backed(o)'
    BY <1>4, <2>3 DEF CaptureConfirm, Backed, Sold, Captured, BookBase, Owned
  <2>5. Sale(o)
    BY <2>2, <2>4 DEF Sale, SameFunds, SameSale
  <2> QED BY <1>4, <2>1, <2>2, <2>5
          DEF RowStep, Unmoved, SameFunds, SameSale, Reported, CaptureConfirm
<1> QED
  BY <1>2, <1>3, <1>4 DEF MarkCaptured, CaptureIgnored, CaptureSeen, CaptureMismatch

LEMMA FailRow ==
  ASSUME BookBase, NEW o \in Orders, NEW ev, MarkFailed(o, ev)
  PROVE  \A x \in Orders : RowStep(x) /\ Reported(x) /\ payment'[x].rzp = payment[x].rzp
<1>1. order \in [Orders -> OrderRows] /\ payment \in [Orders -> PaymentRows]
  BY DEF BookBase, TypeInv, TypeOK
<1>2. CASE UNCHANGED <<order, payment>>
  BY <1>2, RowsUnmoved
<1>3. CASE FailApplies(o, ev)
  <2>1. \A x \in Orders : /\ x # o => payment'[x] = payment[x] /\ order'[x] = order[x]
                          /\ payment'[x].rzp = payment[x].rzp
    BY <1>1, <1>3 DEF FailApplies, PaymentRows
  <2>2. /\ order'[o].pay = "failed" /\ payment'[o].status = "failed"
        /\ order'[o].method = order[o].method /\ order'[o].total = order[o].total
        /\ order'[o].refunded = order[o].refunded /\ order'[o].cod = order[o].cod
    BY <1>1, <1>3 DEF FailApplies, OrderRows, PaymentRows
  <2>3. Lost(o) /\ Reported(o)
    BY <2>2 DEF Lost, SameFunds, SameSale, MoneyIn, Reported
  <2> QED BY <2>1, <2>3 DEF RowStep, Unmoved, SameFunds, SameSale, Reported
<1> QED
  BY <1>2, <1>3 DEF MarkFailed, FailIgnored

(* Checkout and L3 abandon orders that are not paid for.                   *)
LEMMA AbandonedRow ==
  ASSUME BookBase, NEW x \in Orders, order'[x] = Abandoned(order[x]), order[x].pay # "paid"
  PROVE  RowStep(x)
<1>1. order[x] \in OrderRows
  BY DEF BookBase, TypeInv, TypeOK
<1>2. /\ order'[x].pay = "rejected"
      /\ order'[x].method = order[x].method /\ order'[x].total = order[x].total
      /\ order'[x].refunded = order[x].refunded /\ order'[x].cod = order[x].cod
  BY <1>1 DEF Abandoned, OrderRows
<1> QED
  BY <1>2 DEF Lost, SameFunds, SameSale, MoneyIn, RowStep

LEMMA SamePaymentReported ==
  ASSUME payment' = payment PROVE \A x \in Orders : Reported(x)
BY DEF Reported

LEMMA CheckoutRow ==
  ASSUME BookBase, NEW o \in Orders, NEW m \in Methods, NEW t \in Totals, Checkout(o, m, t)
  PROVE  \A x \in Orders : RowStep(x)
<1>1. \A x \in Orders : order'[x] = IF x = o THEN NewOrder(m, t)
                                    ELSE IF Stale(x) THEN Abandoned(order[x]) ELSE order[x]
  BY DEF Checkout
<1>2. /\ NewOrder(m, t).refunded = 0 /\ NewOrder(m, t).total = t
      /\ NewOrder(m, t).pay = IF t = 0 THEN "paid" ELSE "pending"
  BY DEF NewOrder, Absent
<1>3. Born(o)
  BY <1>1, <1>2 DEF Checkout, Born, MoneyIn
<1>4. \A x \in Orders : x # o /\ Stale(x) => RowStep(x)
  BY <1>1, AbandonedRow DEF Stale
<1> QED
  BY <1>1, <1>3, <1>4 DEF RowStep, Unmoved, SameFunds, SameSale

LEMMA CancelRow ==
  ASSUME BookBase, NEW o \in Orders, NEW who, Cancel(o, who) \/ SoftDelete(o) \/ Undelete(o)
  PROVE  \A x \in Orders : RowStep(x)
<1>1. order \in [Orders -> OrderRows]
  BY DEF BookBase, TypeInv, TypeOK
<1>2. \/ order' = [order EXCEPT ![o].status = "cancelled", ![o].restored = TRUE]
      \/ order' = [order EXCEPT ![o].deleted = TRUE]
      \/ order' = [order EXCEPT ![o].deleted = FALSE]
  BY DEF Cancel, SoftDelete, Undelete
<1> QED
  BY <1>1, <1>2 DEF RowStep, Unmoved, SameFunds, SameSale, OrderRows

LEMMA CancelAbandonedRow ==
  ASSUME BookBase, NEW o \in Orders, CancelAbandoned(o)
  PROVE  \A x \in Orders : RowStep(x)
<1>1. order \in [Orders -> OrderRows]
  BY DEF BookBase, TypeInv, TypeOK
<1>2. CASE order' = order
  BY <1>2 DEF RowStep, Unmoved, SameFunds, SameSale
<1>3. CASE order' = [order EXCEPT ![o] = Abandoned(@)] /\ order[o].pay # "paid"
  <2>1. order'[o] = Abandoned(order[o]) /\ \A x \in Orders : x # o => order'[x] = order[x]
    BY <1>1, <1>3
  <2> QED BY <1>3, <2>1, AbandonedRow DEF RowStep, Unmoved, SameFunds, SameSale
<1> QED
  BY <1>2, <1>3 DEF CancelAbandoned

-----------------------------------------------------------------------------
(* The steps that write none of payment, req, razorpay and l3.             *)
LEMMA SameIds ==
  ASSUME BookBase, razorpay' = razorpay, req' = req, l3' = l3,
         \A x \in Orders : payment'[x].rzp = payment[x].rzp
  PROVE  Owned' /\ JobCaptured'
BY DEF BookBase, Owned, JobCaptured, Captured

LEMMA CustomerBooks == ASSUME BookBase, Customer \/ Cancelling PROVE BookStep
<1>1. ASSUME NEW o \in Orders, NEW m \in Methods, NEW t \in Totals, Checkout(o, m, t)
      PROVE  BookStep
  <2>1. UNCHANGED <<payment, ledger, razorpay, req, l3>>
    BY <1>1 DEF Checkout
  <2> QED BY <1>1, <2>1, CheckoutRow, SamePaymentReported, SameIds DEF BookStep, RecordsKept, Captured
<1>2. ASSUME NEW o \in Orders, NEW who, Cancel(o, who)
      PROVE  BookStep
  <2>1. UNCHANGED <<payment, ledger, razorpay, req, l3>>
    BY <1>2 DEF Cancel
  <2> QED BY <1>2, <2>1, CancelRow, SamePaymentReported, SameIds DEF BookStep, RecordsKept, Captured
<1>3. ASSUME NEW q \in Requests, NEW o \in Orders, NEW r \in RzpIds, CreateOrderMint(q, o, r)
      PROVE  BookStep
  <2>1. /\ razorpay[r].order = NoOrder /\ razorpay' = [razorpay EXCEPT ![r].order = o]
        /\ req' = [req EXCEPT ![q] = [order |-> o, rzp |-> r]]
        /\ UNCHANGED <<order, payment, ledger, l3>>
    BY <1>3 DEF CreateOrderMint
  <2>2. \A x \in RzpIds : /\ razorpay'[x].captured = razorpay[x].captured
                          /\ razorpay'[x].order = IF x = r THEN o ELSE razorpay[x].order
    BY <2>1 DEF BookBase, TypeInv, TypeOK
  <2>3. \A p \in Requests : req'[p] = IF p = q THEN [order |-> o, rzp |-> r] ELSE req[p]
    BY <2>1 DEF BookBase, TypeInv, TypeOK
  <2>4. RecordsKept
    BY <2>1, <2>2 DEF RecordsKept, Captured
  <2>5. /\ \A p \in Requests : req[p] # Idle =>
             req[p].rzp \in RzpIds /\ req[p].order # NoOrder
        /\ \A x \in Orders : payment[x].rzp # NoRzp => payment[x].rzp \in RzpIds /\ x # NoOrder
    BY NoOrderAssumption DEF BookBase, TypeInv, TypeOK, RequestsTyped, PaymentRows
  <2>6. Owned'
    BY <2>1, <2>2, <2>3, <2>5 DEF BookBase, Owned
  <2>7. JobCaptured'
    BY <2>1, <2>2 DEF BookBase, TypeInv, JobTyped, JobCaptured, Captured
  <2> QED BY <2>1, <2>4, <2>6, <2>7, RowsUnmoved DEF BookStep
<1>4. ASSUME NEW q \in Requests, CreateOrderCommit(q) \/ CreateOrderDies(q)
      PROVE  BookStep
  <2>1. /\ req[q] # Idle
        /\ payment' = payment \/ payment' = Superseding(req[q].order, req[q].rzp)
        /\ req' = [req EXCEPT ![q] = Idle]
        /\ UNCHANGED <<order, ledger, razorpay, l3>>
    BY <1>4 DEF CreateOrderCommit, CreateOrderDies
  <2>2. \A p \in Requests : req'[p] = IF p = q THEN Idle ELSE req[p]
    BY <2>1 DEF BookBase, TypeInv, TypeOK
  <2>3. \A x \in Orders : \/ payment'[x] = payment[x]
                          \/ /\ x = req[q].order /\ payment'[x].rzp = req[q].rzp
                             /\ payment'[x].status = "pending"
    BY <2>1 DEF BookBase, TypeInv, TypeOK, Superseding
  <2>4. Owned'
    BY <2>1, <2>2, <2>3 DEF BookBase, Owned
  <2>5. JobCaptured' /\ RecordsKept
    BY <2>1 DEF BookBase, JobCaptured, RecordsKept, Captured
  <2>6. \A x \in Orders : RowStep(x)
    BY <2>1 DEF RowStep, Unmoved, SameFunds, SameSale
  <2>7. \A x \in Orders : Reported(x)
    BY <2>3 DEF Reported
  <2> QED BY <2>4, <2>5, <2>6, <2>7 DEF BookStep
<1>5. ASSUME NEW o \in Orders, NEW r \in RzpIds, VerifyPayment(o, r)
      PROVE  BookStep
  <2>1. /\ payment[o].rzp = r /\ Captured(r) /\ MarkCaptured(o, r, {}, "unchecked")
        /\ UNCHANGED <<razorpay, req, l3>>
    BY <1>5 DEF VerifyPayment, Current
  <2> QED BY <2>1, CaptureRow, SameIds DEF BookStep, RecordsKept, Captured
<1> QED
  BY <1>1, <1>2, <1>3, <1>4, <1>5 DEF Customer, Cancelling

LEMMA StaffBooks == ASSUME BookBase, Staff PROVE BookStep
<1>1. ASSUME NEW o \in Orders, ResyncPayment(o)
      PROVE  BookStep
  <2> DEFINE r == payment[o].rzp
  <2>1. Captured(r) /\ r \in RzpIds /\ UNCHANGED <<razorpay, req, l3>>
    BY <1>1 DEF ResyncPayment, BookBase, TypeInv, TypeOK, PaymentRows
  <2>2. CASE MarkCaptured(o, r, {}, razorpay[r].captured)
    BY <2>1, <2>2, CaptureRow, SameIds DEF BookStep, RecordsKept, Captured
  <2>3. CASE ledger' = ledger \cup {<<"amount_mismatch", r>>} /\ UNCHANGED <<order, payment>>
    BY <2>1, <2>3, RowsUnmoved, SameIds DEF BookStep, RecordsKept, Captured
  <2> QED BY <1>1, <2>2, <2>3 DEF ResyncPayment
<1>2. ASSUME NEW o \in Orders, SoftDelete(o) \/ Undelete(o)
      PROVE  BookStep
  <2>1. UNCHANGED <<payment, ledger, razorpay, req, l3>>
    BY <1>2 DEF SoftDelete, Undelete
  <2> QED BY <1>2, <2>1, CancelRow, SamePaymentReported, SameIds DEF BookStep, RecordsKept, Captured
<1>3. ASSUME NEW o \in Orders, NEW status \in AdminStatuses, NEW edit \in HandEdits \cup {"keep"},
             NEW tick \in {"keep", "tick", "untick"}, NEW given \in 0..order[o].total,
             status = "refunded" /\ tick # "keep" => CombinedEdits,
             AdminUpdate(o, status, edit, tick, given)
      PROVE  BookStep
  <2>1. UNCHANGED <<payment, ledger, razorpay, req, l3>>
    BY <1>3 DEF AdminUpdate
  <2>2. \A x \in Orders : RowStep(x)
    BY <1>3, AdminUpdateRow DEF BookBase
  <2> QED BY <2>1, <2>2, SamePaymentReported, SameIds DEF BookStep, RecordsKept, Captured
<1> QED
  BY <1>1, <1>2, <1>3, EventAssumption DEF Staff

LEMMA RazorpayBooks == ASSUME BookBase, Razorpay PROVE BookStep
<1>1. ASSUME NEW r \in RzpIds,
             GatewayDecline(r) \/ \E amount \in Shortfalls : GatewayCapture(r, amount)
      PROVE  BookStep
  <2>1. /\ \/ \E amount \in Shortfalls : razorpay' = [razorpay EXCEPT ![r].captured = amount]
           \/ razorpay' = [razorpay EXCEPT ![r].declined = TRUE]
        /\ UNCHANGED <<order, payment, ledger, req, l3>>
    BY <1>1 DEF GatewayCapture, GatewayDecline
  <2>2. \A x \in RzpIds : /\ razorpay'[x].order = razorpay[x].order
                          /\ Captured(x) => Captured(x)'
    BY <2>1, ShortAssumption DEF BookBase, TypeInv, TypeOK, Captured
  <2>3. /\ \A x \in Orders : payment[x].rzp # NoRzp => payment[x].rzp \in RzpIds
        /\ \A q \in Requests : req[q] # Idle => req[q].rzp \in RzpIds
    BY DEF BookBase, TypeInv, TypeOK, RequestsTyped, PaymentRows
  <2>4. Owned'
    BY <2>1, <2>2, <2>3 DEF BookBase, Owned
  <2>5. JobCaptured' /\ RecordsKept
    BY <2>1, <2>2 DEF BookBase, TypeInv, JobTyped, JobCaptured, RecordsKept
  <2> QED BY <2>1, <2>4, <2>5, RowsUnmoved DEF BookStep
<1>2. ASSUME NEW e \in Events, RazorpayWebhook(e)
      PROVE  BookStep
  <2>1. UNCHANGED <<razorpay, req, l3>> /\ Emitted(e) /\ e.rzp \in RzpIds
    BY <1>2 DEF RazorpayWebhook, Events
  <2>2. CASE LogOrphan(e)
    BY <2>1, <2>2, RowsUnmoved, SameIds DEF LogOrphan, BookStep, RecordsKept, Captured
  <2>3. ASSUME NEW o \in Current(e.rzp), DispatchWebhookEvent(o, e)
        PROVE  BookStep
    <3>1. o \in Orders /\ payment[o].rzp = e.rzp
      BY DEF Current
    <3>2. CASE MarkFailed(o, {e})
      <4>1. UNCHANGED ledger
        BY <3>2 DEF MarkFailed
      <4> QED BY <2>1, <3>1, <3>2, <4>1, FailRow, SameIds DEF BookStep, RecordsKept, Captured
    <3>3. CASE MarkCaptured(o, e.rzp, {e}, razorpay[e.rzp].captured) /\ Captured(e.rzp)
      BY <2>1, <3>1, <3>3, CaptureRow, SameIds DEF BookStep, RecordsKept, Captured
    <3> QED BY <2>1, <2>3, <3>2, <3>3 DEF DispatchWebhookEvent, Emitted
  <2> QED BY <1>2, <2>2, <2>3 DEF RazorpayWebhook
<1> QED
  BY <1>1, <1>2 DEF Razorpay

LEMMA ReconcileBooks == ASSUME BookBase, Reconcile PROVE BookStep
<1>1. ASSUME NEW o, NEW due, NEW kept,
             L3Query(due) \/ L3Fetch(o) \/ L3FetchFails(o) \/ L3Finish(kept) \/ L3Crash
      PROVE  BookStep
  <2>1. UNCHANGED <<order, payment, ledger, razorpay, req>>
    BY <1>1 DEF L3Query, L3Fetch, L3FetchFails, L3Finish, L3Crash
  <2>2. JobCaptured'
    <3>1. CASE L3Fetch(o)
      BY <3>1 DEF L3Fetch, JobCaptured, Captured
    <3>2. CASE L3FetchFails(o)
      <4>1. l3'.captured = l3.captured /\ l3'.rzp = l3.rzp
        BY <3>2 DEF L3FetchFails, BookBase, TypeInv, TypeOK
      <4> QED BY <2>1, <4>1 DEF BookBase, JobCaptured, Captured
    <3>3. CASE L3Query(due)
      BY <3>3 DEF L3Query, L3Idle, JobCaptured
    <3>4. CASE L3Finish(kept) \/ L3Crash
      BY <3>4 DEF L3Finish, L3Crash, L3Idle, JobCaptured
    <3> QED BY <1>1, <3>1, <3>2, <3>3, <3>4
  <2>3. Owned' /\ RecordsKept
    BY <2>1 DEF BookBase, Owned, RecordsKept, Captured
  <2> QED BY <2>1, <2>2, <2>3, RowsUnmoved DEF BookStep
<1>2. ASSUME L3Act
      PROVE  BookStep
  <2>1. UNCHANGED <<razorpay, req>> /\ JobCaptured'
    BY <1>2 DEF L3Act, L3Idle, JobCaptured
  <2>2. l3.order \in Orders /\ (l3.captured => l3.rzp \in RzpIds /\ Captured(l3.rzp))
    BY <1>2 DEF L3Act, BookBase, TypeInv, JobTyped, JobCaptured
  <2>3. ASSUME \A x \in Orders : RowStep(x) /\ Reported(x) /\ payment'[x].rzp = payment[x].rzp,
               ledger \subseteq ledger'
        PROVE  BookStep
    BY <2>1, <2>3 DEF BookBase, Owned, BookStep, RecordsKept, Captured
  <2>4. CASE CancelAbandoned(l3.order)
    BY <2>2, <2>3, <2>4, CancelAbandonedRow, SamePaymentReported DEF CancelAbandoned
  <2>5. CASE UNCHANGED <<order, payment, shelf, processed, ledger, mails>>
    BY <2>3, <2>5, RowsUnmoved
  <2>6. ASSUME l3.captured, NEW o \in Current(l3.rzp),
               MarkCaptured(o, l3.rzp, {}, razorpay[l3.rzp].captured)
        PROVE  BookStep
    <3>1. o \in Orders /\ payment[o].rzp = l3.rzp
      BY DEF Current
    <3> QED BY <2>1, <2>2, <2>3, <2>6, <3>1, CaptureRow
  <2> QED BY <1>2, <2>4, <2>5, <2>6 DEF L3Act
<1> QED
  BY <1>1, <1>2 DEF Reconcile

LEMMA BookSteps == ASSUME BookBase, [Next]_vars PROVE BookStep
<1>1. CASE UNCHANGED vars
  BY <1>1, RowsUnmoved, SameIds DEF vars, BookStep, RecordsKept, Captured
<1> QED
  BY <1>1, CustomerBooks, StaffBooks, RazorpayBooks, ReconcileBooks DEF Next

-----------------------------------------------------------------------------
(***************************************************************************)
(* What the books say is backed.  PaidSold is why a refund is: an ONLINE   *)
(* order that reads paid was sold.                                         *)
(***************************************************************************)
PaidSold == \A o \in Orders :
  order[o].pay \in MoneyIn /\ order[o].total # 0 /\ ~order[o].cod => Backed(o)

BooksInv == Owned /\ JobCaptured /\ PaidSold /\ RefundsBacked

(* What staff do not do by hand: type that money came or went, or take the *)
(* cash back and refund it in one PATCH.                                   *)
PlainEdits == HandEdits \cap MoneyIn = {} /\ ~CombinedEdits

LEMMA BooksInit == Init => BooksInv
<1> SUFFICES ASSUME Init PROVE BooksInv
  OBVIOUS
<1>1. Owned
  BY DEF Init, Owned, Idle
<1>2. JobCaptured
  BY DEF Init, JobCaptured, L3Idle
<1>3. \A o \in Orders : order[o].pay = "pending" /\ order[o].refunded = 0 /\ order[o].total = 0
  BY DEF Init, Absent
<1>4. PaidSold /\ RefundsBacked
  BY <1>3 DEF PaidSold, RefundsBacked, MoneyIn
<1> QED
  BY <1>1, <1>2, <1>4 DEF BooksInv

LEMMA BackedKept ==
  ASSUME RecordsKept, NEW o \in Orders, Backed(o)
  PROVE  Backed(o)'
BY NoOrderAssumption DEF RecordsKept, Backed, Sold

LEMMA BooksStep ==
  ASSUME PlainEdits, TypeInv, TypeInv', BooksInv, BookStep
  PROVE  BooksInv'
<1>1. ASSUME NEW o \in Orders
      PROVE  /\ order'[o].pay \in MoneyIn /\ order'[o].total # 0 /\ ~order'[o].cod => Backed(o)'
             /\ order'[o].refunded <= order'[o].total
             /\ order'[o].refunded > 0 =>
                  order'[o].cod \/ \E r \in RzpIds : razorpay'[r].order = o /\ Sold(r)'
  <2>1. /\ order[o].total \in Nat /\ order'[o].total \in Nat
        /\ order[o].refunded \in Nat /\ order'[o].refunded \in Nat
    BY DEF TypeInv, TypeOK, OrderRows
  <2>2. /\ order[o].pay \in MoneyIn /\ order[o].total # 0 /\ ~order[o].cod => Backed(o)
        /\ order[o].refunded <= order[o].total
        /\ order[o].refunded > 0 =>
             order[o].cod \/ \E r \in RzpIds : razorpay[r].order = o /\ Sold(r)
    BY DEF BooksInv, PaidSold, RefundsBacked
  <2>3. Backed(o) => Backed(o)'
    BY BackedKept DEF BookStep
  <2>4. (\E r \in RzpIds : razorpay[r].order = o /\ Sold(r))
          => \E r \in RzpIds : razorpay'[r].order = o /\ Sold(r)'
    BY NoOrderAssumption DEF BookStep, RecordsKept, Sold
  <2>5. Backed(o)' => \E r \in RzpIds : razorpay'[r].order = o /\ Sold(r)'
    BY DEF Backed
  <2>6. CASE Unmoved(o)
    BY <2>2, <2>3, <2>4, <2>6 DEF Unmoved, SameFunds, SameSale
  <2>7. CASE Born(o)
    BY <2>1, <2>7 DEF Born
  <2>8. CASE Lost(o)
    BY <2>2, <2>4, <2>8 DEF Lost, SameFunds, SameSale
  <2>9. CASE Typed(o)
    BY <2>2, <2>4, <2>9 DEF Typed, SameFunds, SameSale, PlainEdits
  <2>10. CASE Sale(o)
    BY <2>2, <2>5, <2>10 DEF Sale, SameFunds, SameSale
  <2>11. CASE CashIn(o)
    BY <2>2, <2>11 DEF CashIn, SameSale
  <2>12. CASE CashOut(o)
    BY <2>1, <2>12 DEF CashOut, SameSale, MoneyIn
  <2>13. CASE MoneyBack(o)
    <3>1. order[o].total # 0 /\ order[o].pay \in MoneyIn /\ order'[o].cod = order[o].cod
      BY <2>1, <2>13 DEF MoneyBack, IsRefundablePayment, MoneyIn, PlainEdits
    <3>2. order[o].cod \/ Backed(o)'
      BY <2>2, <2>3, <3>1
    <3> QED BY <2>5, <2>13, <3>1, <3>2 DEF MoneyBack, SameSale
  <2> QED BY <2>6, <2>7, <2>8, <2>9, <2>10, <2>11, <2>12, <2>13 DEF BookStep, RowStep
<1>2. PaidSold' /\ RefundsBacked'
  BY <1>1 DEF PaidSold, RefundsBacked
<1> QED
  BY <1>2 DEF BookStep, BooksInv

(* An order that reads paid or refunded has the money behind it, and what  *)
(* is refunded is within the total and within money received, in whatever  *)
(* order captures, cancels, L3, ticks and refunds run.                     *)
THEOREM MoneyIsBacked == ASSUME PlainEdits PROVE Spec => []MoneyBacked
<1>1. TypeInv /\ TypeInv' /\ BooksInv /\ [Next]_vars => BooksInv'
  BY BookSteps, BooksStep DEF BooksInv, BookBase
<1>2. BooksInv => MoneyBacked
  BY DEF BooksInv, PaidSold, RefundsBacked, MoneyBacked, PaidMoneyExists, Backed, MoneyIn
<1>3. Init => TypeInv /\ BooksInv
  BY TypeInit, BooksInit
<1> QED
  BY <1>1, <1>2, <1>3, TypeStep, PTL DEF Spec

(* Whatever staff type and combine, no more than the total is refunded.    *)
THEOREM RefundsWithinTotal == Spec => [](\A o \in Orders : order[o].refunded <= order[o].total)
<1> DEFINE Within == \A o \in Orders : order[o].refunded <= order[o].total
<1>1. ASSUME TypeInv, TypeInv', Owned, JobCaptured, Within, [Next]_vars
      PROVE  Within'
  <2>1. \A o \in Orders : RowStep(o)
    BY <1>1, BookSteps DEF BookBase, BookStep
  <2>2. \A o \in Orders : order[o] \in OrderRows /\ order'[o] \in OrderRows
    BY <1>1 DEF TypeInv, TypeOK
  <2> QED BY <1>1, <2>1, <2>2
          DEF RowStep, Unmoved, Born, Lost, Typed, Sale, CashIn, CashOut, MoneyBack,
              SameFunds, SameSale, OrderRows
<1>2. TypeInv /\ Owned /\ JobCaptured /\ [Next]_vars => Owned' /\ JobCaptured'
  BY BookSteps DEF BookBase, BookStep
<1>3. Init => Owned /\ JobCaptured /\ Within
  BY BooksInit DEF BooksInv, RefundsBacked
<1>4. TypeInv /\ TypeInv' /\ Owned /\ JobCaptured /\ Within /\ [Next]_vars => Within'
  BY <1>1
<1> HIDE DEF Within
<1>5. Spec => []Within
  BY <1>2, <1>3, <1>4, TypeInit, TypeStep, PTL DEF Spec
<1> QED
  BY <1>5 DEF Within

-----------------------------------------------------------------------------
LEMMA FlagStep ==
  ASSUME HandEdits \subseteq {"paid"}, TypeInv, TypeInv', RowsPlaced, UnbookedMoneyFlagged, BookStep
  PROVE  UnbookedMoneyFlagged'
<1> SUFFICES ASSUME NEW o \in Orders,
                    payment'[o].status = "completed", order'[o].method = "ONLINE",
                    order'[o].refunded = 0, order'[o].pay # "paid"
             PROVE  <<"captured_after_cancel", payment'[o].rzp>> \in ledger'
  BY DEF UnbookedMoneyFlagged
<1>1. order[o].refunded \in Nat /\ order'[o].refunded \in Nat
  BY DEF TypeInv, TypeOK, OrderRows
<1>2. RowStep(o) /\ Reported(o) /\ ledger \subseteq ledger'
  BY DEF BookStep, RecordsKept
<1>3. CASE payment[o].status = "completed" /\ payment'[o].rzp = payment[o].rzp
  <2>1. order[o].method = "ONLINE" /\ order[o].refunded = 0 /\ order[o].pay # "paid"
          => <<"captured_after_cancel", payment'[o].rzp>> \in ledger'
    BY <1>2, <1>3 DEF UnbookedMoneyFlagged
  <2>2. ~Born(o)
    BY <1>3 DEF RowsPlaced, Born
  <2>3. ~Typed(o) /\ ~Sale(o) /\ ~CashIn(o)
    BY DEF Typed, Sale, CashIn
  <2>4. ~CashOut(o) /\ ~MoneyBack(o)
    BY <1>1 DEF CashOut, MoneyBack, SameSale
  <2>5. Unmoved(o) \/ Lost(o)
    BY <1>2, <2>2, <2>3, <2>4 DEF RowStep
  <2> QED BY <2>1, <2>5 DEF Unmoved, Lost, SameFunds, SameSale
<1> QED
  BY <1>2, <1>3 DEF Reported

(* As long as staff do not type that a paid order is unpaid: no race of a  *)
(* capture with a cancel, with a new checkout or with L3 leaves money that *)
(* nobody is told of.                                                      *)
THEOREM UnbookedMoneyIsFlagged ==
  ASSUME HandEdits \subseteq {"paid"} PROVE Spec => []UnbookedMoneyFlagged
<1>1. TypeInv /\ Owned /\ JobCaptured /\ [Next]_vars => Owned' /\ JobCaptured'
  BY BookSteps DEF BookBase, BookStep
<1>2. TypeInv /\ TypeInv' /\ StockInv /\ Owned /\ JobCaptured /\ UnbookedMoneyFlagged /\ [Next]_vars
        => UnbookedMoneyFlagged'
  BY BookSteps, FlagStep DEF BookBase, StockInv
<1>3. Init => Owned /\ JobCaptured /\ UnbookedMoneyFlagged
  BY BooksInit DEF BooksInv, Init, UnbookedMoneyFlagged
<1> QED
  BY <1>1, <1>2, <1>3, TypeInit, TypeStep, StockInit, StockStep, PTL DEF Spec


-----------------------------------------------------------------------------
(***************************************************************************)
(* The tax documents.                                                      *)
(***************************************************************************)

series == <<invoice, invoiceNo, burned>>

(* The counter and the numbers under it; what else an invoice says does    *)
(* not matter here.                                                        *)
SeriesInv ==
  /\ DOMAIN invoice = Orders /\ \A o \in Orders : invoice[o].seq \in Nat
  /\ invoiceNo \in Nat
  /\ InvoiceSeries

(* A step is sound for the series if it leaves it, gives the next number   *)
(* to an order that has none, or burns it.                                 *)
Issues(o) ==
  /\ ~Invoiced(o)
  /\ \E where : invoice' = [invoice EXCEPT ![o] = [seq |-> invoiceNo + 1, place |-> where]]
  /\ invoiceNo' = invoiceNo + 1 /\ burned' = burned

Burns ==
  /\ invoice' = invoice /\ invoiceNo' = invoiceNo + 1
  /\ burned' = burned \cup {invoiceNo + 1}

Sound == UNCHANGED series \/ Burns \/ \E o \in Orders : Issues(o)

-----------------------------------------------------------------------------
(***************************************************************************)
(* Sound steps keep the invariant.                                         *)
(***************************************************************************)
LEMMA SeriesBounded ==
  ASSUME SeriesInv
  PROVE  /\ \A n \in InvoiceNos \cup burned : n \in Nat /\ n <= invoiceNo
         /\ 1..(invoiceNo + 1) = (1..invoiceNo) \cup {invoiceNo + 1}
BY DEF SeriesInv, InvoiceSeries

LEMMA IssueSound ==
  ASSUME SeriesInv, NEW o \in Orders, Issues(o)
  PROVE  SeriesInv'
<1> DEFINE next == invoiceNo + 1
<1>1. invoiceNo \in Nat /\ next \notin InvoiceNos \cup burned
  BY SeriesBounded DEF SeriesInv
<1>2. PICK where : invoice' = [invoice EXCEPT ![o] = [seq |-> next, place |-> where]]
  BY DEF Issues
<1>3. DOMAIN invoice' = Orders /\ invoice'[o].seq = next
  BY <1>2 DEF SeriesInv
<1>4. \A p \in Orders : p # o => invoice'[p] = invoice[p]
  BY <1>2 DEF SeriesInv
<1>5. \A p \in Orders : invoice'[p].seq \in Nat
  BY <1>1, <1>3, <1>4 DEF SeriesInv
<1>6. InvoiceNos' = InvoiceNos \cup {next}
  <2>1. \A p \in Orders : Invoiced(p)' <=> p = o \/ Invoiced(p)
    BY <1>1, <1>3, <1>4 DEF Invoiced
  <2>2. ASSUME NEW n \in InvoiceNos' PROVE n \in InvoiceNos \cup {next}
    BY <1>3, <1>4, <2>1 DEF InvoiceNos
  <2>3. ASSUME NEW n \in InvoiceNos PROVE n \in InvoiceNos'
    <3>1. PICK p \in Orders : Invoiced(p) /\ n = invoice[p].seq
      BY <2>3 DEF InvoiceNos
    <3>2. p # o
      BY <3>1 DEF Issues
    <3> QED BY <1>4, <2>1, <3>1, <3>2 DEF InvoiceNos
  <2>4. next \in InvoiceNos'
    BY <1>3, <2>1 DEF InvoiceNos
  <2> QED BY <2>2, <2>3, <2>4
<1>7. InvoiceNos' \cup burned' = 1..invoiceNo' /\ InvoiceNos' \cap burned' = {}
  BY <1>1, <1>6, SeriesBounded DEF SeriesInv, InvoiceSeries, Issues
<1>8. ASSUME NEW p \in Orders, NEW q \in Orders, Invoiced(p)', invoice'[p].seq = invoice'[q].seq
      PROVE  p = q
  <2>1. ASSUME NEW x \in Orders, x # o PROVE invoice'[x].seq # next
    <3>1. CASE Invoiced(x)
      <4>1. invoice[x].seq \in InvoiceNos
        BY <3>1 DEF InvoiceNos
      <4> QED BY <1>1, <1>4, <2>1, <4>1
    <3>2. CASE ~Invoiced(x)
      BY <1>1, <1>4, <2>1, <3>2 DEF Invoiced, SeriesInv
    <3> QED BY <3>1, <3>2
  <2>2. CASE p = o \/ q = o
    BY <1>3, <1>8, <2>1, <2>2
  <2>3. CASE p # o /\ q # o
    BY <1>4, <1>8, <2>3 DEF Invoiced, SeriesInv, InvoiceSeries
  <2> QED BY <2>2, <2>3
<1>9. invoiceNo' \in Nat
  BY <1>1 DEF Issues
<1> QED BY <1>3, <1>5, <1>7, <1>8, <1>9 DEF SeriesInv, InvoiceSeries

LEMMA BurnSound ==
  ASSUME SeriesInv, Burns
  PROVE  SeriesInv'
<1>1. InvoiceNos' = InvoiceNos /\ \A o \in Orders : Invoiced(o)' <=> Invoiced(o)
  BY DEF Burns, InvoiceNos, Invoiced
<1>2. invoiceNo \in Nat /\ invoiceNo + 1 \notin InvoiceNos \cup burned
  BY SeriesBounded DEF SeriesInv
<1>3. InvoiceNos' \cup burned' = 1..invoiceNo' /\ InvoiceNos' \cap burned' = {}
  BY <1>1, <1>2, SeriesBounded DEF SeriesInv, InvoiceSeries, Burns
<1> QED BY <1>1, <1>2, <1>3 DEF SeriesInv, InvoiceSeries, Burns

LEMMA SoundKeepsSeries == SeriesInv /\ Sound => SeriesInv'
<1>1. SeriesInv /\ UNCHANGED series => SeriesInv'
  BY DEF SeriesInv, InvoiceSeries, InvoiceNos, Invoiced, series
<1> QED BY <1>1, IssueSound, BurnSound DEF Sound

-----------------------------------------------------------------------------
(***************************************************************************)
(* Every step is sound.  All but one caller goes through invoice_is_due,   *)
(* which looks for an invoice under the lock of the order; the backfill    *)
(* looks again before it draws the number, and burns it if it lost.        *)
(***************************************************************************)
LEMMA MaybeSound ==
  ASSUME NEW o \in Orders, NEW row, NEW where, MaybeIssueInvoice(o, row, where), UNCHANGED burned
  PROVE  Sound
BY DEF MaybeIssueInvoice, InvoiceIsDue, IssueInvoice, InvoiceFails, invoices, Sound, Issues, series

LEMMA BackfillSound == BackfillIssue /\ backfill.order \in Orders => Sound
BY DEF BackfillIssue, IssueInvoice, InvoiceFails, BurnNumber, invoices, Sound, Issues, Burns, series

LEMMA StepSound == DocNext /\ (backfill.pc = "issue" => backfill.order \in Orders) => Sound
<1> SUFFICES ASSUME DocNext, backfill.pc = "issue" => backfill.order \in Orders PROVE Sound
  OBVIOUS
<1>1. ASSUME NEW o \in Orders, NEW m \in Methods, NEW t \in Totals, NEW p \in Places, PlaceOrder(o, m, t, p)
      PROVE  Sound
  BY <1>1, MaybeSound DEF PlaceOrder, commands
<1>2. CASE Capture
  <2>1. UNCHANGED burned
    BY <1>2 DEF Capture, commands
  <2>2. CASE Completing = {}
    BY <1>2, <2>1, <2>2 DEF Capture, invoices, Sound, series
  <2>3. CASE Completing # {}
    <3>1. PICK o \in Completing : MaybeIssueInvoice(o, order'[o], place[o])
      BY <1>2, <2>3 DEF Capture
    <3>2. o \in Orders
      BY DEF Completing
    <3> QED BY <2>1, <3>1, <3>2, MaybeSound
  <2> QED BY <2>2, <2>3
<1>3. ASSUME NEW o \in Orders, NEW who \in Cancellers, CancelOrder(o, who) PROVE Sound
  BY <1>3 DEF CancelOrder, commands, invoices, Sound, series
<1>4. ASSUME NEW o \in Orders, NEW status \in AdminStatuses, NEW edit \in HandEdits \cup {"keep"},
             NEW tick \in {"keep", "tick", "untick"}, NEW given, PatchOrder(o, status, edit, tick, given)
      PROVE  Sound
  BY <1>4, MaybeSound DEF PatchOrder, commands
<1>5. ASSUME NEW o \in Orders, NEW p \in Places, PatchPlaceCheck(o, p) PROVE Sound
  BY <1>5 DEF PatchPlaceCheck, commands, invoices, Sound, series
<1>6. ASSUME BackfillLoad \/ BackfillEnds \/ \E o \in Orders : BackfillJudge(o) \/ PurgeCheck(o) PROVE Sound
  BY <1>6 DEF BackfillLoad, BackfillEnds, BackfillJudge, PurgeCheck, invoices, Sound, series
<1>7. CASE BackfillIssue
  BY <1>7, BackfillSound DEF BackfillIssue
<1>8. ASSUME NEW o \in Orders, NEW i, BackfillCreditNote(o, i) PROVE Sound
  BY <1>8 DEF BackfillCreditNote, commands, invoices, Sound, series
<1>9. CASE PurgeDelete
  BY <1>9 DEF PurgeDelete, invoices, Sound, series
<1>10. CASE Elsewhere
  BY <1>10 DEF Elsewhere, docs, commands, invoices, Sound, series
<1> QED
  BY <1>1, <1>2, <1>3, <1>4, <1>5, <1>6, <1>7, <1>8, <1>9, <1>10 DEF DocNext

-----------------------------------------------------------------------------
(***************************************************************************)
(* The backfill bills only an order it judged, so an order of the shop.    *)
(***************************************************************************)
BackfillInv ==
  /\ DOMAIN backfill = {"pc", "copies", "order"}
  /\ backfill.pc = "issue" => backfill.order \in Orders

LEMMA BackfillStep == BackfillInv /\ DocNext => BackfillInv'
<1> SUFFICES ASSUME BackfillInv, DocNext PROVE BackfillInv'
  OBVIOUS
<1> USE DEF BackfillInv
<1>1. CASE backfill' = backfill
  BY <1>1
<1>2. ASSUME NEW o \in Orders, BackfillJudge(o) PROVE BackfillInv'
  BY <1>2 DEF BackfillJudge, Left
<1>3. CASE BackfillLoad
  BY <1>3 DEF BackfillLoad
<1>4. CASE BackfillIssue
  BY <1>4 DEF BackfillIssue, Left
<1>5. CASE BackfillEnds
  BY <1>5 DEF BackfillEnds, BackfillIdle
<1>6. ASSUME NEW o \in Orders, NEW m \in Methods, NEW t \in Totals, NEW p \in Places, PlaceOrder(o, m, t, p)
      PROVE  backfill' = backfill
  BY <1>6 DEF PlaceOrder, commands
<1>7. Capture => backfill' = backfill
  BY DEF Capture, commands
<1>8. ASSUME NEW o \in Orders, NEW who \in Cancellers, CancelOrder(o, who) PROVE backfill' = backfill
  BY <1>8 DEF CancelOrder, commands
<1>9. ASSUME NEW o \in Orders, NEW status \in AdminStatuses, NEW edit \in HandEdits \cup {"keep"},
             NEW tick \in {"keep", "tick", "untick"}, NEW given, PatchOrder(o, status, edit, tick, given)
      PROVE  backfill' = backfill
  BY <1>9 DEF PatchOrder, commands
<1>10. ASSUME NEW o \in Orders, NEW p \in Places, PatchPlaceCheck(o, p) PROVE backfill' = backfill
  BY <1>10 DEF PatchPlaceCheck, commands
<1>11. ASSUME NEW o \in Orders, PurgeCheck(o) PROVE backfill' = backfill
  BY <1>11 DEF PurgeCheck
<1>12. ASSUME NEW o \in Orders, NEW i, BackfillCreditNote(o, i) PROVE backfill' = backfill
  BY <1>12 DEF BackfillCreditNote, commands
<1>13. PurgeDelete \/ Elsewhere => backfill' = backfill
  BY DEF PurgeDelete, Elsewhere, docs, commands
<1> QED
  BY <1>1, <1>2, <1>3, <1>4, <1>5, <1>6, <1>7, <1>8, <1>9, <1>10, <1>11, <1>12, <1>13 DEF DocNext

-----------------------------------------------------------------------------
(***************************************************************************)
(* The rows of OrderPayments.  A step of the documents is a step of the    *)
(* payments, or the purge deletes an order without an invoice.             *)
(***************************************************************************)
Deletes(o) == ~Invoiced(o) /\ DeleteOrder(o) /\ UNCHANGED invoices

LEMMA DocStepIs ==
  ASSUME TypeInv, purging \in Orders \cup {NoOrder}, DocNext
  PROVE  [Next]_vars \/ \E o \in Orders : Deletes(o)
<1>1. ASSUME NEW o \in Orders, NEW m \in Methods, NEW t \in Totals, NEW p \in Places, PlaceOrder(o, m, t, p)
      PROVE  Next
  BY <1>1 DEF PlaceOrder, Next, Customer
<1>2. CASE Capture
  BY <1>2 DEF Capture, CaptureReported, Next, Customer, Razorpay, Staff, Reconcile
<1>3. ASSUME NEW o \in Orders, NEW who \in Cancellers, CancelOrder(o, who) PROVE Next
  BY <1>3 DEF CancelOrder, Next, Cancelling
<1>4. ASSUME NEW o \in Orders, NEW status \in AdminStatuses, NEW edit \in HandEdits \cup {"keep"},
             NEW tick \in {"keep", "tick", "untick"},
             status = "refunded" /\ (tick # "keep" \/ edit # "keep") => CombinedEdits,
             NEW given \in IF status = "refunded" THEN 0..order[o].total ELSE {0},
             PatchOrder(o, status, edit, tick, given)
      PROVE  Next
  <2>1. order[o].total \in Nat
    BY DEF TypeInv, TypeOK, OrderRows
  <2>2. given \in 0..order[o].total
    BY <2>1
  <2>3. AdminUpdate(o, status, edit, tick, given)
    BY <1>4 DEF PatchOrder
  <2>4. status = "refunded" /\ tick # "keep" => CombinedEdits
    BY <1>4
  <2>5. Staff
    BY <2>2, <2>3, <2>4 DEF Staff
  <2> QED BY <2>5 DEF Next
<1>5. ASSUME NEW o \in Orders, NEW p, NEW i,
             PatchPlaceCheck(o, p) \/ BackfillJudge(o) \/ PurgeCheck(o) \/ BackfillCreditNote(o, i)
      PROVE  UNCHANGED vars
  BY <1>5 DEF PatchPlaceCheck, BackfillJudge, PurgeCheck, BackfillCreditNote
<1>6. BackfillLoad \/ BackfillIssue \/ BackfillEnds => UNCHANGED vars
  BY DEF BackfillLoad, BackfillIssue, BackfillEnds
<1>7. CASE PurgeDelete
  <2>1. CASE Protected(purging)
    BY <1>7, <2>1 DEF PurgeDelete
  <2>2. CASE ~Protected(purging)
    BY <1>7, <2>2 DEF PurgeDelete, Protected, Deletes, invoices
  <2> QED BY <2>1, <2>2
<1>8. CASE Elsewhere
  BY <1>8 DEF Elsewhere, Next, Customer, Staff, Razorpay, Reconcile
<1> QED
  BY <1>1, <1>2, <1>3, <1>4, <1>5, <1>6, <1>7, <1>8 DEF DocNext

LEMMA DeleteRows ==
  ASSUME TypeInv, NEW o \in Orders, DeleteOrder(o)
  PROVE  /\ \A x \in Orders : order'[x] = IF x = o THEN Absent ELSE order[x]
         /\ \A x \in Orders : x # o => payment'[x] = payment[x]
         /\ payment'[o].rzp = NoRzp /\ payment'[o].status = "none"
         /\ \A row \in ledger : row \in ledger' \/ razorpay[row[2]].order = o
         /\ ledger' \subseteq ledger
         /\ UNCHANGED <<shelf, processed, mails, razorpay, acked, req, l3>>
BY DEF DeleteOrder, TypeInv, TypeOK

LEMMA DeleteType == ASSUME TypeInv, NEW o \in Orders, DeleteOrder(o) PROVE TypeInv'
<1>1. Absent \in OrderRows
  BY DEF Absent, OrderRows, PayStatuses
<1>2. [status |-> "none", rzp |-> NoRzp, old |-> {}] \in PaymentRows
  BY DEF PaymentRows
<1>3. order' \in [Orders -> OrderRows] /\ payment' \in [Orders -> PaymentRows]
  BY <1>1, <1>2 DEF DeleteOrder, TypeInv, TypeOK
<1>4. ledger' \subseteq LedgerRows
  BY DEF DeleteOrder, TypeInv, TypeOK
<1>5. TypeOK'
  BY <1>3, <1>4 DEF DeleteOrder, TypeInv, TypeOK
<1>6. RequestsTyped' /\ JobTyped'
  BY DEF DeleteOrder, TypeInv, RequestsTyped, JobTyped
<1> QED
  BY <1>5, <1>6 DEF TypeInv

(* The rows that go with an order back no other order.                     *)
LEMMA DeleteBooks == ASSUME TypeInv, BooksInv, NEW o \in Orders, DeleteOrder(o) PROVE BooksInv'
<1>1. Absent.pay = "pending" /\ Absent.refunded = 0 /\ Absent.total = 0
  BY DEF Absent
<1>2. Owned' /\ JobCaptured'
  BY DeleteRows DEF BooksInv, Owned, JobCaptured, Captured
<1>3. \A x \in Orders, r \in RzpIds : x # o /\ razorpay[r].order = x /\ Sold(r) => Sold(r)'
  BY DeleteRows DEF Sold
<1>4. PaidSold'
  <2>1. ASSUME NEW x \in Orders, x # o, Backed(x) PROVE Backed(x)'
    BY <1>3, <2>1, DeleteRows DEF Backed, Captured
  <2> QED BY <1>1, <2>1, DeleteRows DEF BooksInv, PaidSold, MoneyIn
<1>5. RefundsBacked'
  <2>1. ASSUME NEW x \in Orders, x # o, \E r \in RzpIds : razorpay[r].order = x /\ Sold(r)
        PROVE  \E r \in RzpIds : razorpay'[r].order = x /\ Sold(r)'
    BY <1>3, <2>1, DeleteRows
  <2> QED BY <1>1, <2>1, DeleteRows DEF BooksInv, RefundsBacked
<1> QED
  BY <1>2, <1>4, <1>5 DEF BooksInv

-----------------------------------------------------------------------------
(***************************************************************************)
(* Types.  The amount of a cancellation note is a sum, and left out.       *)
(***************************************************************************)
Where == Places \cup {""}

PlacesTyped == place \in [Orders -> Where] /\ patch \in [order : Orders \cup {NoOrder}, place : Where]

BillsTyped == /\ invoice \in [Orders -> [seq : Nat, place : Where]]
              /\ invoiceNo \in Nat /\ invoiceFailed \subseteq Orders

NotesTyped == /\ refunds \in [Orders -> Seq([amount : Nat, note : Nat])]
              /\ DOMAIN cancelNote = Orders /\ \A o \in Orders : cancelNote[o].seq \in Nat
              /\ creditNo \in Nat /\ noteFailed \subseteq Orders

Copies == [status : Statuses \cup {"absent"}, pay : PayStatuses, place : Where]

CommandsTyped == /\ burned \subseteq Nat
                 /\ backfill \in [pc : {"idle", "next", "issue"}, order : Orders \cup {NoOrder},
                                  copies : [Orders -> Copies]]
                 /\ purging \in Orders \cup {NoOrder} /\ purged \subseteq Orders

LEMMA DocTypeParts == DocTypeOK <=> PlacesTyped /\ BillsTyped /\ NotesTyped /\ CommandsTyped
BY DEF DocTypeOK, PlacesTyped, BillsTyped, NotesTyped, CommandsTyped, Where, Copies

LEMMA BillsType ==
  ASSUME BillsTyped, NEW o \in Orders, NEW row, NEW where \in Where, MaybeIssueInvoice(o, row, where)
  PROVE  BillsTyped'
<1>1. CASE IssueInvoice(o, where)
  <2>1. [seq |-> invoiceNo + 1, place |-> where] \in [seq : Nat, place : Where]
    BY DEF BillsTyped
  <2> QED BY <1>1, <2>1 DEF IssueInvoice, BillsTyped
<1>2. CASE InvoiceFails(o)
  BY <1>2 DEF InvoiceFails, BillsTyped
<1>3. CASE UNCHANGED invoices
  BY <1>3 DEF invoices, BillsTyped
<1> QED
  BY <1>1, <1>2, <1>3 DEF MaybeIssueInvoice

LEMMA NoteFailsType ==
  ASSUME NotesTyped, NEW o \in Orders, NoteFails(o)
  PROVE  creditNo' \in Nat /\ noteFailed' \subseteq Orders
BY DEF NoteFails, NotesTyped

LEMMA RefundType ==
  ASSUME NotesTyped, NEW o \in Orders, NEW amount \in Nat, RecordRefund(o, amount)
  PROVE  /\ NotesTyped'
         /\ \E note \in {0, creditNo + 1} : Append1(o, amount, note)
<1>1. creditNo \in Nat /\ creditNo + 1 \in Nat
  BY DEF NotesTyped
<1>2. PICK note \in {0, creditNo + 1} : Append1(o, amount, note)
  BY DEF RecordRefund
<1>3. [amount |-> amount, note |-> note] \in [amount : Nat, note : Nat]
  BY <1>1
<1>4. Append(refunds[o], [amount |-> amount, note |-> note]) \in Seq([amount : Nat, note : Nat])
  BY <1>3, AppendProperties DEF NotesTyped
<1>5. refunds' \in [Orders -> Seq([amount : Nat, note : Nat])]
  BY <1>2, <1>4 DEF Append1, NotesTyped
<1>6. creditNo' \in Nat /\ noteFailed' \subseteq Orders /\ cancelNote' = cancelNote
  BY <1>1, NoteFailsType DEF RecordRefund, DrawCreditNo, NotesTyped
<1> QED
  BY <1>2, <1>5, <1>6 DEF NotesTyped

LEMMA CancelNoteType ==
  ASSUME NotesTyped, NEW o \in Orders, NEW row, MaybeIssueCancellationNote(o, row)
  PROVE  NotesTyped'
<1>1. CASE /\ DrawCreditNo /\ refunds' = refunds
           /\ cancelNote' = [cancelNote EXCEPT ![o] = [seq |-> creditNo + 1, amount |-> Remaining(o)]]
  <2>1. creditNo + 1 \in Nat
    BY DEF NotesTyped
  <2>2. DOMAIN cancelNote' = Orders /\ \A x \in Orders : cancelNote'[x].seq \in Nat
    BY <1>1, <2>1 DEF NotesTyped
  <2> QED BY <1>1, <2>1, <2>2 DEF DrawCreditNo, NotesTyped
<1>2. CASE NoteFails(o) /\ UNCHANGED <<cancelNote, refunds>>
  BY <1>2, NoteFailsType DEF NotesTyped
<1>3. CASE UNCHANGED <<cancelNote, creditNo, noteFailed, refunds>>
  BY <1>3 DEF NotesTyped
<1> QED
  BY <1>1, <1>2, <1>3 DEF MaybeIssueCancellationNote

LEMMA SameNotesType == ASSUME NotesTyped, UNCHANGED notes PROVE NotesTyped'
BY DEF NotesTyped, notes

LEMMA SameBillsType == ASSUME BillsTyped, UNCHANGED invoices PROVE BillsTyped'
BY DEF BillsTyped, invoices

LEMMA SameCommandsType == ASSUME CommandsTyped, UNCHANGED commands PROVE CommandsTyped'
BY DEF CommandsTyped, commands

LEMMA DocTypeStep ==
  ASSUME TypeInv, TypeInv', DocTypeOK, BackfillInv, DocNext
  PROVE  DocTypeOK'
<1>0. PlacesTyped /\ BillsTyped /\ NotesTyped /\ CommandsTyped
  BY DocTypeParts
<1> SUFFICES PlacesTyped' /\ BillsTyped' /\ NotesTyped' /\ CommandsTyped'
  BY DocTypeParts, PTL
<1>1. /\ \A o \in Orders : place[o] \in Where /\ backfill.copies[o].place \in Where
      /\ patch.place \in Where
      /\ order \in [Orders -> OrderRows]
  BY <1>0 DEF PlacesTyped, CommandsTyped, Copies, TypeInv, TypeOK
<1>2. ASSUME NEW o \in Orders, NEW m \in Methods, NEW t \in Totals, NEW p \in Places, PlaceOrder(o, m, t, p)
      PROVE  PlacesTyped' /\ BillsTyped' /\ NotesTyped' /\ CommandsTyped'
  <2>1. p \in Where
    BY DEF Where
  <2>2. BillsTyped'
    BY <1>0, <1>2, <2>1, BillsType DEF PlaceOrder
  <2>3. PlacesTyped'
    BY <1>0, <1>2, <2>1 DEF PlaceOrder, PlacesTyped
  <2> QED BY <1>0, <1>2, <2>2, <2>3, SameNotesType, SameCommandsType DEF PlaceOrder
<1>3. ASSUME Capture
      PROVE  PlacesTyped' /\ BillsTyped' /\ NotesTyped' /\ CommandsTyped'
  <2>1. BillsTyped'
    <3>1. CASE UNCHANGED invoices
      BY <1>0, <3>1, SameBillsType
    <3>2. ASSUME NEW o \in Completing, MaybeIssueInvoice(o, order'[o], place[o])
          PROVE  BillsTyped'
      <4>1. o \in Orders
        BY DEF Completing
      <4> QED BY <1>0, <1>1, <3>2, <4>1, BillsType
    <3> QED BY <1>3, <3>1, <3>2 DEF Capture
  <2> QED BY <1>0, <1>3, <2>1, SameNotesType, SameCommandsType DEF Capture, PlacesTyped
<1>4. ASSUME NEW o \in Orders, NEW who \in Cancellers, CancelOrder(o, who)
      PROVE  PlacesTyped' /\ BillsTyped' /\ NotesTyped' /\ CommandsTyped'
  BY <1>0, <1>4, SameBillsType, CancelNoteType, SameCommandsType DEF CancelOrder, PlacesTyped
<1>5. ASSUME NEW o \in Orders, NEW p \in Places, PatchPlaceCheck(o, p)
      PROVE  PlacesTyped' /\ BillsTyped' /\ NotesTyped' /\ CommandsTyped'
  BY <1>0, <1>5, SameBillsType, SameNotesType, SameCommandsType DEF PatchPlaceCheck, PlacesTyped, Where
<1>6. ASSUME NEW o \in Orders, NEW status \in AdminStatuses, NEW edit \in HandEdits \cup {"keep"},
             NEW tick \in {"keep", "tick", "untick"}, NEW given, PatchOrder(o, status, edit, tick, given)
      PROVE  PlacesTyped' /\ BillsTyped' /\ NotesTyped' /\ CommandsTyped'
  <2> DEFINE row == [Ticked(Edited(order[o], edit), tick) EXCEPT !.status = status]
             amount == order'[o].refunded - order[o].refunded
  <2>1. /\ PatchPlace(o) /\ MaybeIssueInvoice(o, row, place'[o]) /\ PatchNotes(o, row, amount)
        /\ UNCHANGED commands
    BY <1>6 DEF PatchOrder
  <2> HIDE DEF row
  <2>2. PlacesTyped'
    <3>1. CASE UNCHANGED <<place, patch>>
      BY <1>0, <3>1 DEF PlacesTyped
    <3>2. CASE place' = [place EXCEPT ![o] = patch.place] /\ patch' = NoPatch
      BY <1>0, <3>2 DEF PlacesTyped, NoPatch, Where
    <3> QED BY <2>1, <3>1, <3>2 DEF PatchPlace
  <2>3. place'[o] \in Where
    BY <2>2 DEF PlacesTyped
  <2>4. BillsTyped'
    BY <1>0, <2>1, <2>3, BillsType
  <2>5. amount \in Int
    BY DEF TypeInv, TypeOK, OrderRows
  <2> HIDE DEF amount
  <2>6. NotesTyped'
    <3>1. CASE amount > 0 /\ RecordRefund(o, amount)
      <4>1. amount \in Nat
        BY <2>5, <3>1
      <4> QED BY <1>0, <3>1, <4>1, RefundType
    <3>2. CASE MaybeIssueCancellationNote(o, row)
      BY <1>0, <3>2, CancelNoteType
    <3>3. CASE UNCHANGED notes
      BY <1>0, <3>3, SameNotesType
    <3> QED BY <2>1, <3>1, <3>2, <3>3 DEF PatchNotes
  <2> QED BY <1>0, <2>1, <2>2, <2>4, <2>6, SameCommandsType
<1>7. ASSUME BackfillLoad
      PROVE  PlacesTyped' /\ BillsTyped' /\ NotesTyped' /\ CommandsTyped'
  <2>1. NoCopy \in Copies
    BY DEF NoCopy, Copies, PayStatuses, Where
  <2>2. \A o \in Orders : Copy(o) \in Copies
    BY <1>1 DEF Copy, Copies, OrderRows
  <2>3. [o \in Orders |-> IF Placed(o) /\ ~Invoiced(o) THEN Copy(o) ELSE NoCopy] \in [Orders -> Copies]
    BY <2>1, <2>2
  <2>4. CommandsTyped'
    BY <1>0, <1>7, <2>3 DEF BackfillLoad, CommandsTyped
  <2> QED BY <1>0, <1>7, <2>4, SameBillsType, SameNotesType DEF BackfillLoad, PlacesTyped
<1>8. ASSUME NEW o \in Orders
      PROVE  Left(o) \in [pc : {"idle", "next", "issue"}, order : Orders \cup {NoOrder},
                          copies : [Orders -> Copies]]
  <2>1. NoCopy \in Copies
    BY DEF NoCopy, Copies, PayStatuses, Where
  <2>2. [backfill.copies EXCEPT ![o] = NoCopy] \in [Orders -> Copies]
    BY <1>0, <2>1 DEF CommandsTyped
  <2>3. Left(o) = [backfill EXCEPT !.pc = "next", !.order = NoOrder,
                                   !.copies = [backfill.copies EXCEPT ![o] = NoCopy]]
    BY <1>0 DEF Left, CommandsTyped
  <2> QED BY <1>0, <2>2, <2>3 DEF CommandsTyped
<1>9. ASSUME NEW o \in Orders, BackfillJudge(o)
      PROVE  PlacesTyped' /\ BillsTyped' /\ NotesTyped' /\ CommandsTyped'
  <2>1. CommandsTyped'
    BY <1>0, <1>8, <1>9 DEF BackfillJudge, CommandsTyped
  <2> QED BY <1>0, <1>9, <2>1, SameBillsType, SameNotesType DEF BackfillJudge, PlacesTyped
<1>10. ASSUME BackfillIssue
       PROVE  PlacesTyped' /\ BillsTyped' /\ NotesTyped' /\ CommandsTyped'
  <2> DEFINE o == backfill.order
  <2>1. o \in Orders
    BY <1>10 DEF BackfillInv, BackfillIssue
  <2>2. BillsTyped' /\ burned' \subseteq Nat
    <3>1. CASE IssueInvoice(o, backfill.copies[o].place) /\ UNCHANGED burned
      <4>1. [seq |-> invoiceNo + 1, place |-> backfill.copies[o].place] \in [seq : Nat, place : Where]
        BY <1>0, <1>1, <2>1 DEF BillsTyped
      <4> QED BY <1>0, <2>1, <3>1, <4>1 DEF IssueInvoice, BillsTyped, CommandsTyped
    <3>2. CASE BurnNumber(o) /\ UNCHANGED invoiceFailed
      BY <1>0, <3>2 DEF BurnNumber, BillsTyped, CommandsTyped
    <3>3. CASE UNCHANGED <<invoices, burned>>
      BY <1>0, <3>3 DEF invoices, BillsTyped, CommandsTyped
    <3>4. CASE InvoiceFails(o) /\ UNCHANGED burned
      BY <1>0, <2>1, <3>4 DEF InvoiceFails, BillsTyped, CommandsTyped
    <3> QED BY <1>10, <3>1, <3>2, <3>3, <3>4 DEF BackfillIssue
  <2>3. CommandsTyped'
    BY <1>0, <1>8, <1>10, <2>1, <2>2 DEF BackfillIssue, CommandsTyped
  <2> QED BY <1>0, <1>10, <2>2, <2>3, SameNotesType DEF BackfillIssue, PlacesTyped
<1>11. ASSUME BackfillEnds
       PROVE  PlacesTyped' /\ BillsTyped' /\ NotesTyped' /\ CommandsTyped'
  <2>1. NoCopy \in Copies
    BY DEF NoCopy, Copies, PayStatuses, Where
  <2>2. BackfillIdle \in [pc : {"idle", "next", "issue"}, order : Orders \cup {NoOrder},
                          copies : [Orders -> Copies]]
    BY <2>1 DEF BackfillIdle
  <2>3. CommandsTyped'
    BY <1>0, <1>11, <2>2 DEF BackfillEnds, CommandsTyped
  <2> QED BY <1>0, <1>11, <2>3, SameBillsType, SameNotesType DEF BackfillEnds, PlacesTyped
<1>12. ASSUME NEW o \in Orders, NEW i \in DOMAIN refunds[o], BackfillCreditNote(o, i)
       PROVE  PlacesTyped' /\ BillsTyped' /\ NotesTyped' /\ CommandsTyped'
  <2>1. creditNo + 1 \in Nat /\ refunds[o] \in Seq([amount : Nat, note : Nat])
    BY <1>0 DEF NotesTyped
  <2>2. [refunds[o][i] EXCEPT !.note = creditNo + 1] \in [amount : Nat, note : Nat]
    <3>1. i \in 1..Len(refunds[o])
      BY <2>1
    <3>2. refunds[o][i] \in [amount : Nat, note : Nat]
      BY <2>1, <3>1, ElementOfSeq
    <3> QED BY <2>1, <3>2
  <2>3. [refunds[o] EXCEPT ![i] = [refunds[o][i] EXCEPT !.note = creditNo + 1]]
          \in Seq([amount : Nat, note : Nat])
    BY <2>1, <2>2
  <2>4. refunds' = [refunds EXCEPT ![o] = [refunds[o] EXCEPT ![i] =
                      [refunds[o][i] EXCEPT !.note = creditNo + 1]]]
    BY <1>0, <1>12 DEF BackfillCreditNote, NotesTyped
  <2>5. NotesTyped'
    BY <1>0, <1>12, <2>1, <2>3, <2>4 DEF BackfillCreditNote, DrawCreditNo, NotesTyped
  <2> QED BY <1>0, <1>12, <2>5, SameBillsType, SameCommandsType DEF BackfillCreditNote, PlacesTyped
<1>13. ASSUME NEW o \in Orders, PurgeCheck(o)
       PROVE  PlacesTyped' /\ BillsTyped' /\ NotesTyped' /\ CommandsTyped'
  <2>1. CommandsTyped'
    BY <1>0, <1>13 DEF PurgeCheck, CommandsTyped
  <2> QED BY <1>0, <1>13, <2>1, SameBillsType, SameNotesType DEF PurgeCheck, PlacesTyped
<1>14. ASSUME PurgeDelete
       PROVE  PlacesTyped' /\ BillsTyped' /\ NotesTyped' /\ CommandsTyped'
  <2>1. purging \in Orders
    BY <1>0, <1>14 DEF PurgeDelete, CommandsTyped
  <2>2. NotesTyped' /\ purged' \subseteq Orders
    <3>1. CASE DeleteOrder(purging)
      BY <1>0, <2>1, <3>1 DEF DeleteOrder, NotesTyped, CommandsTyped
    <3>2. CASE UNCHANGED <<vars, notes, purged>>
      BY <1>0, <3>2, SameNotesType DEF CommandsTyped
    <3> QED BY <1>14, <3>1, <3>2 DEF PurgeDelete
  <2>3. CommandsTyped'
    BY <1>0, <1>14, <2>2 DEF PurgeDelete, CommandsTyped
  <2> QED BY <1>0, <1>14, <2>2, <2>3, SameBillsType DEF PurgeDelete, PlacesTyped
<1>15. ASSUME Elsewhere
       PROVE  PlacesTyped' /\ BillsTyped' /\ NotesTyped' /\ CommandsTyped'
  BY <1>0, <1>15, SameBillsType, SameNotesType, SameCommandsType DEF Elsewhere, docs, PlacesTyped
<1> QED
  BY <1>2, <1>3, <1>4, <1>5, <1>6, <1>7, <1>9, <1>10, <1>11, <1>12, <1>13, <1>14, <1>15 DEF DocNext

-----------------------------------------------------------------------------
(***************************************************************************)
(* What the reports of a payment (/verify/, webhooks, resync, L3) do to    *)
(* the rows.                                                               *)
(***************************************************************************)
Reports == \/ \E o \in Orders, r \in RzpIds : VerifyPayment(o, r)
           \/ \E e \in Events : RazorpayWebhook(e)
           \/ \E o \in Orders : ResyncPayment(o)
           \/ L3Act

TooLate(o)   == /\ ~Terminal(o) /\ order[o].status = "cancelled"
                /\ payment' = Completed(o) /\ order' = order
Confirmed(o) == /\ ~Terminal(o) /\ order[o].status # "cancelled"
                /\ payment' = Completed(o)
                /\ order' = [order EXCEPT ![o].status = "confirmed", ![o].pay = "paid"]
Failed(o)    == /\ payment[o].status = "pending"
                /\ payment' = [payment EXCEPT ![o].status = "failed"]
                /\ order' = [order EXCEPT ![o].pay = "failed"]
GivenUp(o)   == payment' = payment /\ order' = [order EXCEPT ![o] = Abandoned(@)]

ReportMoves == \/ UNCHANGED <<order, payment>>
               \/ \E o \in Orders : TooLate(o) \/ Confirmed(o) \/ Failed(o) \/ GivenUp(o)

LEMMA CaptureMoves ==
  ASSUME NEW o \in Orders, NEW r, NEW ev, NEW amount, MarkCaptured(o, r, ev, amount)
  PROVE  ReportMoves
BY DEF MarkCaptured, CaptureIgnored, CaptureSeen, CaptureMismatch, CaptureAfterCancel, CaptureConfirm,
       Fulfillable, TooLate, Confirmed, ReportMoves

LEMMA FailMoves ==
  ASSUME NEW o \in Orders, NEW ev, MarkFailed(o, ev)
  PROVE  ReportMoves
BY DEF MarkFailed, FailApplies, FailIgnored, MayFail, Failed, ReportMoves

LEMMA ReportsMove == ASSUME TypeInv, Reports PROVE ReportMoves
<1>1. ASSUME NEW o \in Orders, NEW r \in RzpIds, VerifyPayment(o, r) PROVE ReportMoves
  BY <1>1, CaptureMoves DEF VerifyPayment
<1>2. ASSUME NEW e \in Events, RazorpayWebhook(e) PROVE ReportMoves
  <2>1. CASE LogOrphan(e)
    BY <2>1 DEF LogOrphan, ReportMoves
  <2>2. ASSUME NEW o \in Current(e.rzp), DispatchWebhookEvent(o, e) PROVE ReportMoves
    <3>1. o \in Orders
      BY DEF Current
    <3> QED BY <2>2, <3>1, CaptureMoves, FailMoves DEF DispatchWebhookEvent
  <2> QED BY <1>2, <2>1, <2>2 DEF RazorpayWebhook
<1>3. ASSUME NEW o \in Orders, ResyncPayment(o) PROVE ReportMoves
  <2>1. CASE UNCHANGED <<order, payment, shelf, processed, mails>>
    BY <2>1 DEF ReportMoves
  <2> QED BY <1>3, <2>1, CaptureMoves DEF ResyncPayment
<1>4. ASSUME L3Act PROVE ReportMoves
  <2>1. l3.order \in Orders
    BY <1>4 DEF L3Act, TypeInv, JobTyped
  <2>2. CASE CancelAbandoned(l3.order)
    BY <2>1, <2>2 DEF CancelAbandoned, GivenUp, ReportMoves
  <2>3. CASE UNCHANGED <<order, payment, shelf, processed, ledger, mails>>
    BY <2>3 DEF ReportMoves
  <2>4. ASSUME NEW o \in Current(l3.rzp), MarkCaptured(o, l3.rzp, {}, razorpay[l3.rzp].captured)
        PROVE  ReportMoves
    <3>1. o \in Orders
      BY DEF Current
    <3> QED BY <2>4, <3>1, CaptureMoves
  <2> QED BY <1>4, <2>2, <2>3, <2>4 DEF L3Act
<1> QED
  BY <1>1, <1>2, <1>3, <1>4 DEF Reports

(***************************************************************************)
(* What a report does to one order: what it says of the payment, and       *)
(* whether it is a supply to be billed.                                    *)
(***************************************************************************)
Supplied(row) == /\ row.status \notin {"absent", "cancelled"}
                 /\ row.pay \in MoneyReceivedStatuses \/ row.status \in DispatchedStatuses

Unpaid(x) == ~Placed(x) => order[x].pay \notin MoneyReceivedStatuses

LEMMA ReportedRows ==
  ASSUME TypeInv, ReportMoves, NEW x \in Orders
  PROVE  /\ Placed(x) => Placed(x)'
         /\ Unpaid(x) => Unpaid(x)'
         /\ payment'[x].status = "completed" /\ payment[x].status # "completed" => x \in Completing
         /\ Supplied(order'[x]) => Supplied(order[x]) \/ Completing = {x}
<1>1. order \in [Orders -> OrderRows] /\ payment \in [Orders -> PaymentRows]
  BY DEF TypeInv, TypeOK
<1>2. payment'[x].status = "completed" /\ payment[x].status # "completed" => x \in Completing
  BY DEF Completing
<1>3. CASE order' = order
  BY <1>2, <1>3 DEF Placed, Unpaid
<1>4. ASSUME NEW o \in Orders, Confirmed(o)
      PROVE  /\ Placed(x) => Placed(x)'
             /\ Unpaid(x) => Unpaid(x)'
             /\ Supplied(order'[x]) => Supplied(order[x]) \/ Completing = {x}
  <2>1. Completing = {o}
    BY <1>1, <1>4 DEF Confirmed, Terminal, Completed, Completing, PaymentRows
  <2>2. x # o => order'[x] = order[x]
    BY <1>1, <1>4 DEF Confirmed
  <2>3. order'[o].status = "confirmed"
    BY <1>1, <1>4 DEF Confirmed, OrderRows
  <2> QED BY <2>1, <2>2, <2>3 DEF Placed, Unpaid
<1>5. ASSUME NEW o \in Orders, Failed(o)
      PROVE  /\ Placed(x) => Placed(x)'
             /\ Unpaid(x) => Unpaid(x)'
             /\ Supplied(order'[x]) => Supplied(order[x]) \/ Completing = {x}
  <2>1. x # o => order'[x] = order[x]
    BY <1>1, <1>5 DEF Failed
  <2>2. order'[o].status = order[o].status /\ order'[o].pay = "failed"
    BY <1>1, <1>5 DEF Failed, OrderRows
  <2> QED BY <2>1, <2>2 DEF Placed, Unpaid, Supplied, MoneyReceivedStatuses
<1>6. ASSUME NEW o \in Orders, GivenUp(o)
      PROVE  /\ Placed(x) => Placed(x)'
             /\ Unpaid(x) => Unpaid(x)'
             /\ Supplied(order'[x]) => Supplied(order[x]) \/ Completing = {x}
  <2>1. x # o => order'[x] = order[x]
    BY <1>1, <1>6 DEF GivenUp
  <2>2. order'[o].status = "cancelled"
    BY <1>1, <1>6 DEF GivenUp, Abandoned, OrderRows
  <2> QED BY <2>1, <2>2 DEF Placed, Unpaid, Supplied
<1> QED
  BY <1>2, <1>3, <1>4, <1>5, <1>6 DEF ReportMoves, TooLate

(***************************************************************************)
(* What the customer and staff do to an order.                             *)
(***************************************************************************)
LEMMA PlaceRows ==
  ASSUME TypeInv, NEW o \in Orders, NEW m \in Methods, NEW t \in Totals, Checkout(o, m, t)
  PROVE  /\ ~Placed(o) /\ Placed(o)'
         /\ \A x \in Orders : x # o => order'[x] = order[x] \/ order'[x].status = "cancelled"
<1>1. NewOrder(m, t).status # "absent"
  BY DEF NewOrder, Absent
<1>2. \A x \in Orders : order'[x] = IF x = o THEN NewOrder(m, t)
                                    ELSE IF Stale(x) THEN Abandoned(order[x]) ELSE order[x]
  BY DEF Checkout
<1>3. \A x \in Orders : Abandoned(order[x]).status = "cancelled"
  BY DEF TypeInv, TypeOK, Abandoned, OrderRows
<1> QED
  BY <1>1, <1>2, <1>3 DEF Checkout, Placed

LEMMA CancelRows ==
  ASSUME TypeInv, NEW o \in Orders, NEW who, Cancel(o, who)
  PROVE  /\ order'[o].status = "cancelled"
         /\ \A x \in Orders : x # o => order'[x] = order[x]
BY DEF TypeInv, TypeOK, Cancel, OrderRows

LEMMA BinRows ==
  ASSUME TypeInv, NEW o \in Orders, SoftDelete(o) \/ Undelete(o)
  PROVE  \A x \in Orders : order'[x].status = order[x].status /\ order'[x].pay = order[x].pay
<1>1. order \in [Orders -> OrderRows]
  BY DEF TypeInv, TypeOK
<1>2. \/ order' = [order EXCEPT ![o].deleted = TRUE]
      \/ order' = [order EXCEPT ![o].deleted = FALSE]
  BY DEF SoftDelete, Undelete
<1> QED
  BY <1>1, <1>2 DEF OrderRows

(* The row a PATCH bills is the row it leaves, but for a refund; and that  *)
(* is of money received (where edits and refunds are not combined).        *)
LEMMA PatchRows ==
  ASSUME TypeInv, TypeInv', NEW o \in Orders, NEW status \in AdminStatuses,
         NEW edit \in HandEdits \cup {"keep"}, NEW tick \in {"keep", "tick", "untick"}, NEW given \in Int,
         AdminUpdate(o, status, edit, tick, given)
  PROVE  LET row == [Ticked(Edited(order[o], edit), tick) EXCEPT !.status = status]
         IN  /\ Placed(o) /\ Placed(o)' /\ row.status = status
             /\ \A x \in Orders : x # o => order'[x] = order[x]
             /\ order'[o].refunded > order[o].refunded =>
                  /\ status = "refunded" /\ order[o].pay \in MoneyReceivedStatuses
                  /\ edit = "keep" /\ tick = "keep" => row.pay = order[o].pay
             /\ order'[o].refunded <= order[o].refunded =>
                  order'[o].status = row.status /\ order'[o].pay = row.pay
<1> DEFINE old        == order[o].status
           cancelling == status = "cancelled" /\ old # "cancelled"
           recording  == status = "refunded" /\ (old # "refunded" \/ given > 0)
           amount     == IF given > 0 THEN given ELSE RefundableBalance(o)
           row        == [Ticked(Edited(order[o], edit), tick) EXCEPT !.status = status]
<1>1. order \in [Orders -> OrderRows] /\ order[o] \in OrderRows /\ order'[o] \in OrderRows
  BY DEF TypeInv, TypeOK
<1>2. /\ row \in OrderRows /\ row.status = status /\ row.refunded = order[o].refunded
      /\ edit = "keep" /\ tick = "keep" => row.pay = order[o].pay
  <2>1. /\ Edited(order[o], edit) \in OrderRows
        /\ Edited(order[o], edit).refunded = order[o].refunded
        /\ edit = "keep" => Edited(order[o], edit).pay = order[o].pay
    BY <1>1, AdminAssumption DEF Edited, OrderRows
  <2>2. ASSUME NEW y \in OrderRows
        PROVE  /\ Ticked(y, tick) \in OrderRows
               /\ Ticked(y, tick).refunded = y.refunded
               /\ tick = "keep" => Ticked(y, tick).pay = y.pay
    BY DEF Ticked, OrderRows, PayStatuses
  <2>3. ASSUME NEW y \in OrderRows
        PROVE  /\ [y EXCEPT !.status = status] \in OrderRows
               /\ [y EXCEPT !.status = status].status = status
               /\ [y EXCEPT !.status = status].refunded = y.refunded
               /\ [y EXCEPT !.status = status].pay = y.pay
    BY AdminAssumption DEF OrderRows
  <2> QED BY <2>1, <2>2, <2>3
<1>3. /\ Placed(o) /\ status # "absent"
      /\ recording => IsRefundablePayment(o) /\ RefundableBalance(o) > 0
      /\ order' = [order EXCEPT ![o] = IF recording THEN Refunded(row, amount)
                                       ELSE IF cancelling THEN [row EXCEPT !.restored = TRUE]
                                       ELSE row]
  BY AdminAssumption DEF AdminUpdate, Statuses
<1> HIDE DEF row, amount
<1>4. \A x \in Orders : x # o => order'[x] = order[x]
  BY <1>1, <1>3
<1>5. order'[o] = IF recording THEN Refunded(row, amount)
                  ELSE IF cancelling THEN [row EXCEPT !.restored = TRUE] ELSE row
  BY <1>1, <1>3
<1>6. CASE recording
  <2>1. order'[o].status = "refunded"
    BY <1>2, <1>5, <1>6 DEF Refunded, OrderRows
  <2>2. Placed(o)'
    BY <2>1 DEF Placed
  <2>3. order[o].pay \in MoneyReceivedStatuses
    BY <1>3, <1>6 DEF IsRefundablePayment, MoneyReceivedStatuses
  <2>4. order'[o].refunded > order[o].refunded
    <3>1. amount \in Int /\ amount > 0
      BY <1>1, <1>3, <1>6 DEF amount, RefundableBalance, OrderRows
    <3>2. order'[o].refunded = row.refunded + amount
      BY <1>2, <1>5, <1>6 DEF Refunded, OrderRows
    <3> QED BY <1>1, <1>2, <3>1, <3>2 DEF OrderRows
  <2>5. order'[o].refunded \in Nat /\ order[o].refunded \in Nat
    BY <1>1 DEF OrderRows
  <2>6. ~(order'[o].refunded <= order[o].refunded)
    BY <2>4, <2>5
  <2> QED BY <1>2, <1>3, <1>4, <1>6, <2>2, <2>3, <2>6 DEF row
<1>7. CASE ~recording
  <2>1. /\ order'[o].status = row.status /\ order'[o].pay = row.pay
        /\ order'[o].refunded = row.refunded
    BY <1>2, <1>5, <1>7 DEF OrderRows
  <2>2. Placed(o)'
    BY <1>2, <1>3, <2>1 DEF Placed
  <2>3. ~(order'[o].refunded > order[o].refunded)
    BY <1>1, <1>2, <2>1 DEF OrderRows
  <2> QED BY <1>2, <1>3, <1>4, <2>1, <2>2, <2>3 DEF row
<1> QED
  BY <1>6, <1>7

-----------------------------------------------------------------------------
(***************************************************************************)
(* Layer 2.  An invoice is of an order that exists and was a supply; a     *)
(* supply that happened has its invoice, or the failure was logged.        *)
(***************************************************************************)
Billed(x) == Supplied(order[x]) /\ ~Invoiced(x) => x \in invoiceFailed

BillOf(x) == Unpaid(x) /\ (Invoiced(x) => Placed(x)) /\ (CombinedEdits \/ Billed(x))
BillInv   == \A x \in Orders : BillOf(x)

LEMMA BilledSupply == (\A x \in Orders : Billed(x)) <=> SupplyInvoiced
BY DEF Billed, SupplyInvoiced, Supplied, InvoiceIsDue, Placed

LEMMA SupplyIsDue ==
  ASSUME NEW o \in Orders, NEW row
  PROVE  /\ Supplied(row) => InvoiceIsDue(o, row) \/ Invoiced(o)
         /\ InvoiceIsDue(o, row) => ~Invoiced(o) /\ (Supplied(row) \/ row.status = "absent")
         /\ InvoiceIsDue(o, row) /\ row.status = "absent" => row.pay \in MoneyReceivedStatuses
BY DEF Supplied, InvoiceIsDue, DispatchedStatuses

LEMMA MaybeBills ==
  ASSUME BillsTyped, NEW o \in Orders, NEW row, NEW where, MaybeIssueInvoice(o, row, where)
  PROVE  /\ \A x \in Orders : x # o => invoice'[x] = invoice[x]
         /\ Invoiced(o) => invoice'[o] = invoice[o]
         /\ Invoiced(o)' => Invoiced(o) \/ InvoiceIsDue(o, row)
         /\ InvoiceIsDue(o, row) => Invoiced(o)' \/ o \in invoiceFailed'
         /\ invoiceFailed \subseteq invoiceFailed'
<1>1. CASE InvoiceIsDue(o, row) /\ IssueInvoice(o, where)
  <2>1. invoice'[o].seq = invoiceNo + 1 /\ invoiceNo \in Nat
    BY <1>1 DEF IssueInvoice, BillsTyped
  <2> QED BY <1>1, <2>1 DEF IssueInvoice, BillsTyped, Invoiced, InvoiceIsDue
<1>2. CASE InvoiceIsDue(o, row) /\ InvoiceFails(o)
  BY <1>2 DEF InvoiceFails, Invoiced
<1>3. CASE ~InvoiceIsDue(o, row) /\ UNCHANGED invoices
  BY <1>3 DEF invoices, Invoiced
<1> QED
  BY <1>1, <1>2, <1>3 DEF MaybeIssueInvoice

(* Nothing that matters to the bill of x moves.                            *)
LEMMA BillStays ==
  ASSUME NEW x \in Orders, BillOf(x), invoice'[x] = invoice[x], invoiceFailed \subseteq invoiceFailed',
         \/ order'[x].status = order[x].status /\ order'[x].pay = order[x].pay
         \/ order'[x].status = "cancelled"
  PROVE  BillOf(x)'
BY DEF BillOf, Unpaid, Billed, Supplied, Invoiced, Placed

(* The order a handler bills, on the row it leaves or on a better one.     *)
LEMMA BillMade ==
  ASSUME BillsTyped, NEW o \in Orders, BillOf(o), NEW row, NEW where, MaybeIssueInvoice(o, row, where),
         Placed(o)', CombinedEdits \/ (Supplied(order'[o]) => Supplied(row))
  PROVE  BillOf(o)'
BY MaybeBills, SupplyIsDue DEF BillOf, Unpaid, Billed, Invoiced

LEMMA PlaceBills ==
  ASSUME TypeInv, BillsTyped, BillInv, NEW o \in Orders, NEW m \in Methods, NEW t \in Totals, NEW p,
         PlaceOrder(o, m, t, p)
  PROVE  BillInv'
<1>1. Checkout(o, m, t) /\ MaybeIssueInvoice(o, order'[o], p)
  BY DEF PlaceOrder
<1>2. BillOf(o)'
  BY <1>1, PlaceRows, BillMade DEF BillInv
<1>3. ASSUME NEW x \in Orders, x # o PROVE BillOf(x)'
  BY <1>1, <1>3, PlaceRows, MaybeBills, BillStays DEF BillInv
<1> QED
  BY <1>2, <1>3 DEF BillInv

LEMMA CaptureBills == ASSUME TypeInv, BillsTyped, BillInv, Capture PROVE BillInv'
<1>1. ReportMoves
  BY ReportsMove DEF Capture, CaptureReported, Reports
<1>2. ASSUME NEW x \in Orders
      PROVE  /\ BillOf(x)
             /\ Placed(x) => Placed(x)'
             /\ Unpaid(x)'
             /\ Supplied(order'[x]) => Supplied(order[x]) \/ Completing = {x}
  BY <1>1, ReportedRows DEF BillInv, BillOf
<1>3. CASE Completing = {} /\ UNCHANGED invoices
  <2>1. ASSUME NEW x \in Orders PROVE BillOf(x)'
    BY <1>2, <1>3 DEF BillOf, Billed, Invoiced, invoices
  <2> QED BY <2>1 DEF BillInv
<1>4. ASSUME NEW o \in Completing, MaybeIssueInvoice(o, order'[o], place[o])
      PROVE  BillInv'
  <2>1. o \in Orders
    BY DEF Completing
  <2>2. ASSUME NEW x \in Orders, x # o PROVE BillOf(x)'
    <3>1. invoice'[x] = invoice[x] /\ invoiceFailed \subseteq invoiceFailed'
      BY <1>4, <2>1, <2>2, MaybeBills
    <3>2. Supplied(order'[x]) => Supplied(order[x])
      BY <1>2, <1>4, <2>2
    <3> QED BY <1>2, <3>1, <3>2 DEF BillOf, Billed, Invoiced
  <2>3. CASE Placed(o)'
    <3>1. BillOf(o)'
      BY <1>2, <1>4, <2>1, <2>3, BillMade
    <3> QED BY <2>2, <3>1 DEF BillInv
  <2>4. CASE ~Placed(o)'
    <3>1. ~InvoiceIsDue(o, order'[o]) /\ ~Supplied(order'[o])
      BY <1>2, <2>1, <2>4, SupplyIsDue DEF Unpaid, Placed, Supplied
    <3>2. ~Invoiced(o)'
      BY <1>2, <1>4, <2>1, <2>4, <3>1, MaybeBills DEF BillOf
    <3> QED BY <1>2, <2>1, <2>2, <3>1, <3>2 DEF BillInv, BillOf, Billed
  <2> QED BY <2>1, <2>2, <2>3, <2>4 DEF BillInv
<1> QED
  BY <1>3, <1>4 DEF Capture

LEMMA PatchBills ==
  ASSUME TypeInv, TypeInv', BillsTyped, BillInv, NEW o \in Orders, NEW status \in AdminStatuses,
         NEW edit \in HandEdits \cup {"keep"}, NEW tick \in {"keep", "tick", "untick"}, NEW given \in Int,
         status = "refunded" /\ (tick # "keep" \/ edit # "keep") => CombinedEdits,
         PatchOrder(o, status, edit, tick, given)
  PROVE  /\ BillInv'
         /\ CombinedEdits \/ (order'[o].refunded > order[o].refunded /\ ~Invoiced(o)' => o \in invoiceFailed')
<1> DEFINE row == [Ticked(Edited(order[o], edit), tick) EXCEPT !.status = status]
<1>1. /\ AdminUpdate(o, status, edit, tick, given)
      /\ MaybeIssueInvoice(o, row, place'[o])
  BY DEF PatchOrder
<1>2. /\ Placed(o) /\ Placed(o)' /\ row.status = status
      /\ \A x \in Orders : x # o => order'[x] = order[x]
      /\ order'[o].refunded > order[o].refunded =>
           /\ status = "refunded" /\ order[o].pay \in MoneyReceivedStatuses
           /\ edit = "keep" /\ tick = "keep" => row.pay = order[o].pay
      /\ order'[o].refunded <= order[o].refunded =>
           order'[o].status = row.status /\ order'[o].pay = row.pay
  BY <1>1, PatchRows
<1> HIDE DEF row
<1>3. order'[o].refunded > order[o].refunded => CombinedEdits \/ Supplied(row)
  BY <1>2 DEF Supplied
<1>4. order'[o].refunded > order[o].refunded \/ order'[o].refunded <= order[o].refunded
  BY DEF TypeInv, TypeOK, OrderRows
<1>5. CombinedEdits \/ (Supplied(order'[o]) => Supplied(row))
  BY <1>2, <1>3, <1>4 DEF Supplied
<1>6. BillOf(o)'
  BY <1>1, <1>2, <1>5, BillMade DEF BillInv
<1>7. ASSUME NEW x \in Orders, x # o PROVE BillOf(x)'
  BY <1>1, <1>2, <1>7, MaybeBills, BillStays DEF BillInv
<1>8. CombinedEdits \/ (order'[o].refunded > order[o].refunded /\ ~Invoiced(o)' => o \in invoiceFailed')
  BY <1>1, <1>3, MaybeBills, SupplyIsDue DEF Invoiced
<1> QED
  BY <1>6, <1>7, <1>8 DEF BillInv

LEMMA BackfillBills ==
  ASSUME BillsTyped, BillInv, NEW o \in Orders, o = backfill.order, BackfillIssue
  PROVE  BillInv'
<1>1. order' = order
  BY DEF BackfillIssue, vars
<1>2. CASE Placed(o) /\ ~Invoiced(o) /\ IssueInvoice(o, backfill.copies[o].place)
  <2>1. /\ invoice'[o].seq = invoiceNo + 1 /\ invoiceNo \in Nat
        /\ \A x \in Orders : x # o => invoice'[x] = invoice[x]
        /\ invoiceFailed' = invoiceFailed
    BY <1>2 DEF IssueInvoice, BillsTyped
  <2>2. Invoiced(o)' /\ Placed(o)'
    BY <1>1, <1>2, <2>1 DEF Invoiced, Placed
  <2>3. BillOf(o)'
    BY <2>2 DEF BillOf, Unpaid, Billed
  <2> QED BY <1>1, <2>1, <2>3, BillStays DEF BillInv
<1>3. CASE invoice' = invoice /\ invoiceFailed \subseteq invoiceFailed'
  BY <1>1, <1>3, BillStays DEF BillInv
<1>4. \/ Placed(o) /\ ~Invoiced(o) /\ IssueInvoice(o, backfill.copies[o].place)
      \/ invoice' = invoice /\ invoiceFailed \subseteq invoiceFailed'
  BY DEF BackfillIssue, BurnNumber, InvoiceFails, invoices
<1> QED
  BY <1>2, <1>3, <1>4

LEMMA DeleteBills == ASSUME TypeInv, BillInv, NEW o \in Orders, Deletes(o) PROVE BillInv'
<1>1. Absent.status = "absent" /\ Absent.pay = "pending"
  BY DEF Absent
<1>2. /\ ~Invoiced(o) /\ UNCHANGED <<invoice, invoiceFailed>>
      /\ \A x \in Orders : order'[x] = IF x = o THEN Absent ELSE order[x]
  BY DeleteRows DEF Deletes, invoices
<1>3. BillOf(o)'
  BY <1>1, <1>2 DEF BillOf, Unpaid, Billed, Supplied, Placed, Invoiced, MoneyReceivedStatuses
<1> QED
  BY <1>2, <1>3, BillStays DEF BillInv

(* The rest bills nothing and leaves the rows as they are, but the bin.    *)
LEMMA QuietBills ==
  ASSUME BillInv, UNCHANGED invoices,
         \A x \in Orders : order'[x].status = order[x].status /\ order'[x].pay = order[x].pay
  PROVE  BillInv'
BY BillStays DEF BillInv, invoices

LEMMA BillStep ==
  ASSUME TypeInv, TypeInv', DocTypeOK, BackfillInv, BillInv, DocNext
  PROVE  BillInv'
<1>1. BillsTyped
  BY DocTypeParts
<1>2. ASSUME NEW o \in Orders, NEW m \in Methods, NEW t \in Totals, NEW p \in Places, PlaceOrder(o, m, t, p)
      PROVE  BillInv'
  BY <1>1, <1>2, PlaceBills
<1>3. ASSUME NEW o \in Orders, NEW who \in Cancellers, CancelOrder(o, who) PROVE BillInv'
  BY <1>3, CancelRows, BillStays DEF CancelOrder, invoices, BillInv
<1>4. ASSUME NEW o \in Orders, NEW status \in AdminStatuses, NEW edit \in HandEdits \cup {"keep"},
             NEW tick \in {"keep", "tick", "untick"},
             status = "refunded" /\ (tick # "keep" \/ edit # "keep") => CombinedEdits,
             NEW given \in IF status = "refunded" THEN 0..order[o].total ELSE {0},
             PatchOrder(o, status, edit, tick, given)
      PROVE  BillInv'
  <2>1. given \in Int
    OBVIOUS
  <2> QED BY <1>1, <1>4, <2>1, PatchBills
<1>5. ASSUME NEW o \in Orders, NEW p, NEW i,
             PatchPlaceCheck(o, p) \/ BackfillJudge(o) \/ PurgeCheck(o) \/ BackfillCreditNote(o, i)
      PROVE  BillInv'
  BY <1>5, QuietBills DEF PatchPlaceCheck, BackfillJudge, PurgeCheck, BackfillCreditNote, vars
<1>6. BackfillLoad \/ BackfillEnds => BillInv'
  BY QuietBills DEF BackfillLoad, BackfillEnds, vars
<1>7. BackfillIssue => BillInv'
  BY <1>1, BackfillBills DEF BackfillInv, BackfillIssue
<1>8. CASE PurgeDelete
  <2>0. UNCHANGED invoices
    BY <1>8 DEF PurgeDelete
  <2>1. CASE Protected(purging)
    <3>1. order' = order
      BY <1>8, <2>1 DEF PurgeDelete, vars
    <3> QED BY <2>0, <3>1, QuietBills
  <2>2. CASE ~Protected(purging)
    <3>1. purging \in Orders
      BY <1>8 DEF PurgeDelete, DocTypeOK
    <3>2. Deletes(purging)
      BY <1>8, <2>0, <2>2 DEF PurgeDelete, Protected, Deletes
    <3> QED BY <3>1, <3>2, DeleteBills
  <2> QED BY <2>1, <2>2
<1>9. CASE Elsewhere
  <2>1. ASSUME NEW o \in Binnable, SoftDelete(o) \/ Undelete(o)
        PROVE  \A x \in Orders : order'[x].status = order[x].status /\ order'[x].pay = order[x].pay
    BY <2>1, BinRows, EventAssumption
  <2>2. CASE order' = order
    BY <1>9, <2>2, QuietBills DEF Elsewhere, docs
  <2>3. order' = order \/ \E o \in Binnable : SoftDelete(o) \/ Undelete(o)
    BY <1>9 DEF Elsewhere, CreateOrderMint, CreateOrderCommit, CreateOrderDies, GatewayCapture,
                GatewayDecline, L3Query, L3Fetch, L3FetchFails, L3Finish, L3Crash
  <2> QED BY <1>9, <2>1, <2>2, <2>3, QuietBills DEF Elsewhere, docs
<1> QED
  BY <1>1, <1>2, <1>3, <1>4, <1>5, <1>6, <1>7, <1>8, <1>9, CaptureBills DEF DocNext

-----------------------------------------------------------------------------
(***************************************************************************)
(* Layer 3.  The notes.  A step leaves them, or draws the next number for  *)
(* one note that had none; only invoiced orders have notes, and a refund   *)
(* without one was logged.                                                 *)
(***************************************************************************)
SameNotes(x) == refunds'[x] = refunds[x] /\ cancelNote'[x] = cancelNote[x]

Kept == /\ creditNo' = creditNo
        /\ \A x \in Orders : /\ NotesOf(x)' = NotesOf(x)
                             /\ \A j \in NotesOf(x) : NoteNo(<<x, j>>)' = NoteNo(<<x, j>>)

Drawn(o, i) ==
  /\ i \notin NotesOf(o) /\ NotesOf(o)' = NotesOf(o) \cup {i}
  /\ NoteNo(<<o, i>>)' = creditNo + 1 /\ creditNo' = creditNo + 1
  /\ \A j \in NotesOf(o) : NoteNo(<<o, j>>)' = NoteNo(<<o, j>>)
  /\ \A x \in Orders : x # o => SameNotes(x)

Unnoted(x) == Noted(x) # DOMAIN refunds[x]

(* A handler's step on the notes of its order.                             *)
NoteStep(o) ==
  /\ \A x \in Orders : x # o => SameNotes(x)
  /\ Kept \/ (Invoiced(o)' /\ \E i : Drawn(o, i))
  /\ Unnoted(o)' => Unnoted(o) \/ o \in noteFailed' \/ (~Invoiced(o)' /\ refunds' # refunds)

LEMMA NotesStand ==
  ASSUME NEW x \in Orders, SameNotes(x)
  PROVE  /\ Noted(x)' = Noted(x) /\ NotesOf(x)' = NotesOf(x) /\ (Unnoted(x)' <=> Unnoted(x))
         /\ \A j : NoteNo(<<x, j>>)' = NoteNo(<<x, j>>)
<1>1. Noted(x)' = Noted(x)
  BY DEF SameNotes, Noted
<1> QED
  BY <1>1 DEF SameNotes, NotesOf, NoteNo, Unnoted

LEMMA NotesKept ==
  ASSUME creditNo' = creditNo, \A x \in Orders : SameNotes(x)
  PROVE  Kept
BY NotesStand DEF Kept

LEMMA Appended ==
  ASSUME NotesTyped, NEW o \in Orders, NEW amount, NEW note \in Nat, Append1(o, amount, note)
  PROVE  /\ \A x \in Orders : x # o => refunds'[x] = refunds[x]
         /\ \E k \in Nat \ {0} :
              /\ k \notin DOMAIN refunds[o] /\ DOMAIN refunds'[o] = DOMAIN refunds[o] \cup {k}
              /\ \A i \in DOMAIN refunds[o] : refunds'[o][i] = refunds[o][i]
              /\ refunds'[o][k].note = note /\ refunds'[o][k].amount = amount
              /\ Noted(o)' = Noted(o) \cup (IF note > 0 THEN {k} ELSE {})
<1> DEFINE k == Len(refunds[o]) + 1
           row == [amount |-> amount, note |-> note]
<1>1. refunds[o] \in Seq([amount : Nat, note : Nat]) /\ DOMAIN refunds = Orders
  BY DEF NotesTyped
<1>2. Len(refunds[o]) \in Nat /\ DOMAIN refunds[o] = 1..Len(refunds[o])
  BY <1>1, LenProperties
<1>3. refunds' = [refunds EXCEPT ![o] = Append(refunds[o], row)]
  BY DEF Append1
<1>4. refunds'[o] = Append(refunds[o], row) /\ \A x \in Orders : x # o => refunds'[x] = refunds[x]
  BY <1>1, <1>3
<1>5. /\ Len(refunds'[o]) = k /\ DOMAIN refunds'[o] = 1..k
      /\ \A i \in 1..Len(refunds[o]) : refunds'[o][i] = refunds[o][i]
      /\ refunds'[o][k] = row
  BY <1>1, <1>2, <1>4
<1>6. k \in Nat \ {0} /\ k \notin DOMAIN refunds[o] /\ DOMAIN refunds'[o] = DOMAIN refunds[o] \cup {k}
  BY <1>2, <1>5
<1>7. refunds'[o][k].note = note /\ refunds'[o][k].amount = amount
  BY <1>5
<1>8. \A i \in DOMAIN refunds[o] : refunds'[o][i] = refunds[o][i]
  BY <1>2, <1>5
<1> HIDE DEF k, row
<1>9. Noted(o)' = Noted(o) \cup (IF note > 0 THEN {k} ELSE {})
  BY <1>6, <1>7, <1>8 DEF Noted
<1> QED
  BY <1>4, <1>6, <1>7, <1>8, <1>9

LEMMA RefundNotes ==
  ASSUME NotesTyped, NEW o \in Orders, NEW amount, RecordRefund(o, amount)
  PROVE  NoteStep(o)
<1>1. creditNo \in Nat /\ creditNo + 1 \in Nat /\ creditNo + 1 > 0 /\ cancelNote' = cancelNote
  BY DEF NotesTyped, RecordRefund
<1>2. CASE Append1(o, amount, creditNo + 1) /\ DrawCreditNo /\ invoice'[o].seq > 0
  <2>1. PICK k \in Nat \ {0} :
              /\ k \notin DOMAIN refunds[o] /\ DOMAIN refunds'[o] = DOMAIN refunds[o] \cup {k}
              /\ \A i \in DOMAIN refunds[o] : refunds'[o][i] = refunds[o][i]
              /\ refunds'[o][k].note = creditNo + 1
              /\ Noted(o)' = Noted(o) \cup {k}
    BY <1>1, <1>2, Appended
  <2>2. \A x \in Orders : x # o => SameNotes(x)
    BY <1>1, <1>2, Appended DEF SameNotes
  <2>3. k \notin NotesOf(o) /\ NotesOf(o)' = NotesOf(o) \cup {k}
    BY <1>1, <2>1 DEF NotesOf, Noted
  <2>4. \A j \in NotesOf(o) : NoteNo(<<o, j>>)' = NoteNo(<<o, j>>)
    BY <1>1, <2>1 DEF NotesOf, Noted, NoteNo
  <2>5. NoteNo(<<o, k>>)' = creditNo + 1
    BY <2>1 DEF NoteNo
  <2>6. Drawn(o, k)
    BY <1>2, <2>2, <2>3, <2>4, <2>5 DEF Drawn, DrawCreditNo
  <2>7. Unnoted(o)' => Unnoted(o)
    BY <2>1 DEF Unnoted
  <2> QED BY <1>2, <2>2, <2>6, <2>7 DEF NoteStep, Invoiced
<1>3. CASE Append1(o, amount, 0) /\ creditNo' = creditNo /\ (invoice'[o].seq = 0 \/ o \in noteFailed')
  <2>1. PICK k \in Nat \ {0} :
              /\ k \notin DOMAIN refunds[o] /\ DOMAIN refunds'[o] = DOMAIN refunds[o] \cup {k}
              /\ \A i \in DOMAIN refunds[o] : refunds'[o][i] = refunds[o][i]
              /\ Noted(o)' = Noted(o)
    <3>1. Append1(o, amount, 0) /\ 0 \in Nat /\ ~(0 > 0)
      BY <1>3
    <3>2. \E k \in Nat \ {0} :
              /\ k \notin DOMAIN refunds[o] /\ DOMAIN refunds'[o] = DOMAIN refunds[o] \cup {k}
              /\ \A i \in DOMAIN refunds[o] : refunds'[o][i] = refunds[o][i]
              /\ Noted(o)' = Noted(o) \cup (IF 0 > 0 THEN {k} ELSE {})
      BY <3>1, Appended
    <3> QED BY <3>1, <3>2
  <2>2. \A x \in Orders : x # o => SameNotes(x)
    BY <1>1, <1>3, Appended DEF SameNotes
  <2>3. NotesOf(o)' = NotesOf(o)
    BY <1>1, <2>1 DEF NotesOf
  <2>4. \A j \in NotesOf(o) : NoteNo(<<o, j>>)' = NoteNo(<<o, j>>)
    BY <1>1, <2>1 DEF NotesOf, Noted, NoteNo
  <2>5. Kept
    BY <1>3, <2>2, <2>3, <2>4, NotesStand DEF Kept
  <2>6. refunds' # refunds
    BY <2>1
  <2> QED BY <1>3, <2>2, <2>5, <2>6 DEF NoteStep, Invoiced
<1>4. \/ Append1(o, amount, creditNo + 1) /\ DrawCreditNo /\ invoice'[o].seq > 0
      \/ Append1(o, amount, 0) /\ creditNo' = creditNo /\ (invoice'[o].seq = 0 \/ o \in noteFailed')
  BY DEF RecordRefund, NoteFails
<1> QED
  BY <1>2, <1>3, <1>4

LEMMA CancelNotes ==
  ASSUME NotesTyped, NEW o \in Orders, NEW row, MaybeIssueCancellationNote(o, row)
  PROVE  NoteStep(o)
<1>0. DOMAIN cancelNote = Orders /\ creditNo \in Nat /\ refunds' = refunds
  BY DEF NotesTyped, MaybeIssueCancellationNote
<1>1. Unnoted(o)' => Unnoted(o)
  BY <1>0 DEF Unnoted, Noted
<1>2. CASE CancellationNoteIsDue(o, row) /\ DrawCreditNo
           /\ cancelNote' = [cancelNote EXCEPT ![o] = [seq |-> creditNo + 1, amount |-> Remaining(o)]]
  <2>1. cancelNote'[o].seq = creditNo + 1 /\ creditNo + 1 > 0
    BY <1>0, <1>2
  <2>2. \A x \in Orders : x # o => SameNotes(x)
    BY <1>0, <1>2 DEF SameNotes
  <2>3. Noted(o)' = Noted(o) /\ \A j \in Noted(o) : j # 0
    BY <1>0 DEF Noted, NotesTyped
  <2>4. 0 \notin NotesOf(o) /\ NotesOf(o)' = NotesOf(o) \cup {0}
    BY <1>2, <2>1, <2>3 DEF NotesOf, CancellationNoteIsDue
  <2>5. \A j \in NotesOf(o) : NoteNo(<<o, j>>)' = NoteNo(<<o, j>>)
    BY <1>0, <2>4 DEF NoteNo
  <2>6. NoteNo(<<o, 0>>)' = creditNo + 1
    BY <2>1 DEF NoteNo
  <2>7. Drawn(o, 0)
    BY <1>2, <2>2, <2>4, <2>5, <2>6 DEF Drawn, DrawCreditNo
  <2> QED BY <1>1, <1>2, <2>2, <2>7 DEF NoteStep, CancellationNoteIsDue, Invoiced
<1>3. CASE cancelNote' = cancelNote /\ creditNo' = creditNo
  <2>1. \A x \in Orders : SameNotes(x)
    BY <1>0, <1>3 DEF SameNotes
  <2> QED BY <1>1, <1>3, <2>1, NotesKept DEF NoteStep
<1>4. \/ CancellationNoteIsDue(o, row) /\ DrawCreditNo
         /\ cancelNote' = [cancelNote EXCEPT ![o] = [seq |-> creditNo + 1, amount |-> Remaining(o)]]
      \/ cancelNote' = cancelNote /\ creditNo' = creditNo
  BY DEF MaybeIssueCancellationNote, NoteFails
<1> QED
  BY <1>2, <1>3, <1>4

(* backfill_credit_notes.                                                  *)
LEMMA BackfillNotes ==
  ASSUME NotesTyped, NEW o \in Orders, NEW i, BackfillCreditNote(o, i)
  PROVE  NoteStep(o) /\ Invoiced(o)'
<1>1. /\ DOMAIN refunds = Orders /\ refunds[o] \in Seq([amount : Nat, note : Nat])
      /\ creditNo \in Nat /\ creditNo + 1 > 0
      /\ cancelNote' = cancelNote
  BY DEF NotesTyped, BackfillCreditNote
<1>2. DOMAIN refunds[o] = 1..Len(refunds[o]) /\ Len(refunds[o]) \in Nat
  BY <1>1, LenProperties
<1>3. i \in DOMAIN refunds[o] /\ refunds[o][i].note = 0 /\ i # 0
  BY <1>2 DEF BackfillCreditNote
<1>4. refunds' = [refunds EXCEPT ![o] = [refunds[o] EXCEPT ![i] = [refunds[o][i] EXCEPT !.note = creditNo + 1]]]
  BY DEF BackfillCreditNote
<1>5. /\ refunds'[o] = [refunds[o] EXCEPT ![i] = [refunds[o][i] EXCEPT !.note = creditNo + 1]]
      /\ \A x \in Orders : x # o => refunds'[x] = refunds[x]
  BY <1>1, <1>4
<1>6. refunds[o][i] \in [amount : Nat, note : Nat]
  BY <1>1, <1>2, <1>3, ElementOfSeq
<1>7. /\ DOMAIN refunds'[o] = DOMAIN refunds[o]
      /\ \A j \in DOMAIN refunds[o] : j # i => refunds'[o][j] = refunds[o][j]
      /\ refunds'[o][i].note = creditNo + 1
  <2>1. [refunds[o][i] EXCEPT !.note = creditNo + 1].note = creditNo + 1
    BY <1>6
  <2> QED BY <1>3, <1>5, <2>1
<1>8. Noted(o)' = Noted(o) \cup {i} /\ i \notin Noted(o)
  BY <1>1, <1>3, <1>7 DEF Noted
<1>9. i \notin NotesOf(o) /\ NotesOf(o)' = NotesOf(o) \cup {i}
  BY <1>1, <1>3, <1>8 DEF NotesOf
<1>10. \A j \in NotesOf(o) : NoteNo(<<o, j>>)' = NoteNo(<<o, j>>)
  <2>1. \A j \in NotesOf(o) : j = 0 \/ (j \in DOMAIN refunds[o] /\ j # i)
    BY <1>8 DEF NotesOf, Noted
  <2> QED BY <1>1, <1>7, <2>1 DEF NoteNo
<1>11. NoteNo(<<o, i>>)' = creditNo + 1
  BY <1>3, <1>7 DEF NoteNo
<1>12. \A x \in Orders : x # o => SameNotes(x)
  BY <1>1, <1>5 DEF SameNotes
<1>13. Drawn(o, i)
  BY <1>9, <1>10, <1>11, <1>12 DEF Drawn, BackfillCreditNote, DrawCreditNo
<1>14. Invoiced(o)'
  BY DEF BackfillCreditNote, invoices, Invoiced
<1>15. Unnoted(o)' => Unnoted(o)
  BY <1>7, <1>8 DEF Unnoted, Noted
<1> QED
  BY <1>12, <1>13, <1>14, <1>15 DEF NoteStep

(* The order of a handler's step is billed or its failure logged when its  *)
(* refund gets no note.                                                    *)
Excused(o) == CombinedEdits \/ (~Invoiced(o)' /\ refunds' # refunds => o \in invoiceFailed')

LEMMA NoteMoves ==
  ASSUME TypeInv, TypeInv', DocTypeOK, BillInv, DocNext
  PROVE  \/ UNCHANGED notes
         \/ \E o \in Orders : (NoteStep(o) /\ Excused(o)) \/ Deletes(o)
<1>0. BillsTyped /\ NotesTyped
  BY DocTypeParts
<1>1. ASSUME NEW o \in Orders, NEW m \in Methods, NEW t \in Totals, NEW p \in Places, PlaceOrder(o, m, t, p)
      PROVE  UNCHANGED notes
  BY <1>1 DEF PlaceOrder
<1>2. ASSUME NEW o \in Orders, NEW who \in Cancellers, CancelOrder(o, who) PROVE NoteStep(o) /\ Excused(o)
  <2>1. NoteStep(o)
    BY <1>0, <1>2, CancelNotes DEF CancelOrder
  <2>2. refunds' = refunds
    BY <1>2 DEF CancelOrder, MaybeIssueCancellationNote
  <2> QED BY <2>1, <2>2 DEF Excused
<1>3. ASSUME NEW o \in Orders, NEW status \in AdminStatuses, NEW edit \in HandEdits \cup {"keep"},
             NEW tick \in {"keep", "tick", "untick"},
             status = "refunded" /\ (tick # "keep" \/ edit # "keep") => CombinedEdits,
             NEW given \in IF status = "refunded" THEN 0..order[o].total ELSE {0},
             PatchOrder(o, status, edit, tick, given)
      PROVE  UNCHANGED notes \/ (NoteStep(o) /\ Excused(o))
  <2> DEFINE row    == [Ticked(Edited(order[o], edit), tick) EXCEPT !.status = status]
             amount == order'[o].refunded - order[o].refunded
  <2>1. given \in Int
    OBVIOUS
  <2>2. CombinedEdits \/ (order'[o].refunded > order[o].refunded /\ ~Invoiced(o)' => o \in invoiceFailed')
    BY <1>0, <1>3, <2>1, PatchBills
  <2>3. order'[o].refunded \in Nat /\ order[o].refunded \in Nat
    BY DEF TypeInv, TypeOK, OrderRows
  <2>4. PatchNotes(o, row, amount)
    BY <1>3 DEF PatchOrder
  <2> HIDE DEF row
  <2>5. CASE amount > 0 /\ RecordRefund(o, amount)
    <3>1. order'[o].refunded > order[o].refunded
      BY <2>3, <2>5
    <3> QED BY <1>0, <2>2, <2>5, <3>1, RefundNotes DEF Excused
  <2>6. CASE MaybeIssueCancellationNote(o, row)
    <3>1. refunds' = refunds
      BY <2>6 DEF MaybeIssueCancellationNote
    <3> QED BY <1>0, <2>6, <3>1, CancelNotes DEF Excused
  <2> HIDE DEF amount
  <2> QED BY <2>4, <2>5, <2>6 DEF PatchNotes
<1>4. ASSUME NEW o \in Orders, NEW i, BackfillCreditNote(o, i) PROVE NoteStep(o) /\ Excused(o)
  BY <1>0, <1>4, BackfillNotes DEF Excused
<1>5. ASSUME NEW o \in Orders, NEW p, PatchPlaceCheck(o, p) \/ BackfillJudge(o) \/ PurgeCheck(o)
      PROVE  UNCHANGED notes
  BY <1>5 DEF PatchPlaceCheck, BackfillJudge, PurgeCheck
<1>6. BackfillLoad \/ BackfillIssue \/ BackfillEnds \/ Capture \/ Elsewhere => UNCHANGED notes
  BY DEF BackfillLoad, BackfillIssue, BackfillEnds, Capture, Elsewhere, docs
<1>7. CASE PurgeDelete
  <2>1. CASE Protected(purging)
    BY <1>7, <2>1 DEF PurgeDelete
  <2>2. CASE ~Protected(purging)
    <3>1. purging \in Orders
      BY <1>7 DEF PurgeDelete, DocTypeOK
    <3>2. Deletes(purging)
      BY <1>7, <2>2 DEF PurgeDelete, Protected, Deletes
    <3> QED BY <3>1, <3>2
  <2> QED BY <2>1, <2>2
<1> QED
  BY <1>1, <1>2, <1>3, <1>4, <1>5, <1>6, <1>7 DEF DocNext

(* Paper stays.                                                            *)
LEMMA PaperStays ==
  ASSUME SeriesInv, BackfillInv, DocNext
  PROVE  /\ \A x \in Orders : Invoiced(x) => invoice'[x] = invoice[x] /\ Invoiced(x)'
         /\ invoiceFailed \subseteq invoiceFailed' /\ noteFailed \subseteq noteFailed'
<1>1. \A x \in Orders : Invoiced(x) => invoice'[x] = invoice[x]
  <2>1. Sound
    BY StepSound DEF BackfillInv
  <2>2. ASSUME NEW o \in Orders, Issues(o), NEW x \in Orders, Invoiced(x) PROVE invoice'[x] = invoice[x]
    BY <2>2 DEF Issues, SeriesInv
  <2> QED BY <2>1, <2>2 DEF Sound, series, Burns
<1>2. \A x \in Orders : Invoiced(x) => Invoiced(x)'
  BY <1>1 DEF Invoiced
<1>3. ASSUME NEW o, NEW row, NEW where, MaybeIssueInvoice(o, row, where) PROVE invoiceFailed \subseteq invoiceFailed'
  BY <1>3 DEF MaybeIssueInvoice, IssueInvoice, InvoiceFails, invoices
<1>4. ASSUME NEW o, NEW row, MaybeIssueCancellationNote(o, row) PROVE noteFailed \subseteq noteFailed'
  BY <1>4 DEF MaybeIssueCancellationNote, DrawCreditNo, NoteFails
<1>5. ASSUME NEW o, NEW row, NEW amount, PatchNotes(o, row, amount) PROVE noteFailed \subseteq noteFailed'
  BY <1>4, <1>5 DEF PatchNotes, RecordRefund, DrawCreditNo, NoteFails, notes
<1>6. ASSUME NEW o, NEW m, NEW t, NEW p, PlaceOrder(o, m, t, p)
      PROVE  invoiceFailed \subseteq invoiceFailed' /\ noteFailed \subseteq noteFailed'
  BY <1>3, <1>6 DEF PlaceOrder, notes
<1>7. ASSUME NEW o, NEW status, NEW edit, NEW tick, NEW given, PatchOrder(o, status, edit, tick, given)
      PROVE  invoiceFailed \subseteq invoiceFailed' /\ noteFailed \subseteq noteFailed'
  BY <1>3, <1>5, <1>7 DEF PatchOrder
<1>8. ASSUME NEW o, NEW who, CancelOrder(o, who)
      PROVE  invoiceFailed \subseteq invoiceFailed' /\ noteFailed \subseteq noteFailed'
  BY <1>4, <1>8 DEF CancelOrder, invoices
<1>9. Capture => invoiceFailed \subseteq invoiceFailed' /\ noteFailed \subseteq noteFailed'
  BY <1>3 DEF Capture, invoices, notes
<1>10. BackfillIssue => invoiceFailed \subseteq invoiceFailed' /\ noteFailed \subseteq noteFailed'
  BY DEF BackfillIssue, IssueInvoice, InvoiceFails, invoices, notes
<1>11. ASSUME NEW o, NEW p, NEW i,
              PatchPlaceCheck(o, p) \/ BackfillJudge(o) \/ PurgeCheck(o) \/ BackfillCreditNote(o, i)
      PROVE  invoiceFailed \subseteq invoiceFailed' /\ noteFailed \subseteq noteFailed'
  BY <1>11 DEF PatchPlaceCheck, BackfillJudge, PurgeCheck, BackfillCreditNote, DrawCreditNo, invoices, notes
<1>12. BackfillLoad \/ BackfillEnds \/ PurgeDelete \/ Elsewhere
         => invoiceFailed \subseteq invoiceFailed' /\ noteFailed \subseteq noteFailed'
  BY DEF BackfillLoad, BackfillEnds, PurgeDelete, DeleteOrder, Elsewhere, docs, invoices, notes
<1> QED
  BY <1>1, <1>2, <1>6, <1>7, <1>8, <1>9, <1>10, <1>11, <1>12 DEF DocNext

NotesFor(x) == /\ ~Invoiced(x) => NotesOf(x) = {}
               /\ CombinedEdits \/ (Unnoted(x) => x \in invoiceFailed \cup noteFailed)
NoteInv     == \A x \in Orders : NotesFor(x)

LEMMA DeleteNotes ==
  ASSUME NotesTyped, NEW o \in Orders, ~Invoiced(o) => NotesOf(o) = {}, Deletes(o)
  PROVE  /\ \A x \in Orders : x # o => SameNotes(x)
         /\ NotesOf(o)' = {} /\ NotesOf(o) = {} /\ ~Unnoted(o)'
<1>1. /\ refunds' = [refunds EXCEPT ![o] = <<>>] /\ cancelNote' = cancelNote /\ ~Invoiced(o)
      /\ DOMAIN refunds = Orders
  BY DEF Deletes, DeleteOrder, NotesTyped
<1>2. refunds'[o] = <<>> /\ \A x \in Orders : x # o => refunds'[x] = refunds[x]
  BY <1>1
<1>3. DOMAIN refunds'[o] = {}
  BY <1>2
<1>4. Noted(o)' = {}
  BY <1>3 DEF Noted
<1>5. ~(cancelNote[o].seq > 0)
  BY <1>1 DEF NotesOf
<1>6. NotesOf(o)' = {}
  BY <1>1, <1>4, <1>5 DEF NotesOf
<1> QED
  BY <1>1, <1>2, <1>3, <1>4, <1>6 DEF SameNotes, Unnoted

LEMMA NoteInvStep ==
  ASSUME TypeInv, TypeInv', DocTypeOK, SeriesInv, BackfillInv, BillInv, NoteInv, DocNext
  PROVE  NoteInv'
<1>0. NotesTyped
  BY DocTypeParts
<1>1. ASSUME NEW x \in Orders, SameNotes(x) PROVE NotesFor(x)'
  BY <1>1, NotesStand, PaperStays DEF NoteInv, NotesFor
<1>2. ASSUME NEW o \in Orders, NoteStep(o), Excused(o) PROVE NoteInv'
  <2>1. NotesFor(o)'
    <3>1. ~Invoiced(o)' => NotesOf(o)' = {}
      BY <1>2, PaperStays DEF NoteStep, Kept, NoteInv, NotesFor
    <3>2. CombinedEdits \/ (Unnoted(o)' => o \in invoiceFailed' \cup noteFailed')
      BY <1>2, PaperStays DEF NoteStep, Excused, NoteInv, NotesFor
    <3> QED BY <3>1, <3>2 DEF NotesFor
  <2> QED BY <1>1, <1>2, <2>1 DEF NoteInv, NoteStep
<1>3. ASSUME NEW o \in Orders, Deletes(o) PROVE NoteInv'
  <2>1. \A x \in Orders : x # o => SameNotes(x)
    BY <1>0, <1>3, DeleteNotes DEF NoteInv, NotesFor
  <2>2. NotesOf(o)' = {} /\ ~Unnoted(o)'
    BY <1>0, <1>3, DeleteNotes DEF NoteInv, NotesFor
  <2> QED BY <1>1, <2>1, <2>2 DEF NoteInv, NotesFor
<1>4. UNCHANGED notes => NoteInv'
  BY <1>1 DEF NoteInv, SameNotes, notes
<1> QED
  BY <1>2, <1>3, <1>4, NoteMoves

-----------------------------------------------------------------------------
(***************************************************************************)
(* Layer 4.  The series of the credit notes has every number up to the     *)
(* counter, once.                                                          *)
(***************************************************************************)
CreditInv == /\ IsFiniteSet(CreditNotes) /\ Cardinality(CreditNotes) = creditNo
             /\ CreditNos = 1..creditNo

LEMMA CreditNotesAre == \A n : n \in CreditNotes <=> \E x \in Orders : \E j \in NotesOf(x) : n = <<x, j>>
BY DEF CreditNotes

LEMMA KeptCredits == ASSUME CreditInv, Kept PROVE CreditInv'
<1>1. CreditNotes' = CreditNotes
  BY DEF CreditNotes, Kept
<1>2. \A n \in CreditNotes : NoteNo(n)' = NoteNo(n)
  BY CreditNotesAre DEF Kept
<1>3. CreditNos' = CreditNos
  BY <1>1, <1>2 DEF CreditNos
<1> QED
  BY <1>1, <1>3 DEF CreditInv, Kept

LEMMA DrawnCredits ==
  ASSUME CreditInv, creditNo \in Nat, NEW o \in Orders, NEW i, Drawn(o, i)
  PROVE  CreditInv'
<1>1. /\ NotesOf(o)' = NotesOf(o) \cup {i} /\ i \notin NotesOf(o)
      /\ \A x \in Orders : x # o => NotesOf(x)' = NotesOf(x)
  BY NotesStand DEF Drawn
<1>2. CreditNotes' = CreditNotes \cup {<<o, i>>} /\ <<o, i>> \notin CreditNotes
  <2>1. \A n : n \in CreditNotes' <=> \E x \in Orders : \E j \in NotesOf(x)' : n = <<x, j>>
    BY DEF CreditNotes
  <2>2. ASSUME NEW n \in CreditNotes' PROVE n \in CreditNotes \cup {<<o, i>>}
    <3>0. PICK x \in Orders : \E j \in NotesOf(x)' : n = <<x, j>>
      BY <2>1, <2>2
    <3>1. PICK j \in NotesOf(x)' : n = <<x, j>>
      BY <3>0
    <3>2. CASE j \in NotesOf(x)
      BY <3>1, <3>2, CreditNotesAre
    <3>3. CASE j \notin NotesOf(x)
      BY <1>1, <3>1, <3>3
    <3> QED BY <3>2, <3>3
  <2>3. ASSUME NEW n \in CreditNotes PROVE n \in CreditNotes'
    <3>0. PICK x \in Orders : \E j \in NotesOf(x) : n = <<x, j>>
      BY <2>3, CreditNotesAre
    <3>1. PICK j \in NotesOf(x) : n = <<x, j>>
      BY <3>0
    <3>2. j \in NotesOf(x)'
      BY <1>1
    <3> QED BY <2>1, <3>1, <3>2
  <2>4. <<o, i>> \in CreditNotes'
    BY <1>1, <2>1
  <2>5. <<o, i>> \notin CreditNotes
    BY <1>1, CreditNotesAre
  <2> QED BY <2>2, <2>3, <2>4, <2>5
<1>3. \A n \in CreditNotes : NoteNo(n)' = NoteNo(n)
  <2>1. ASSUME NEW x \in Orders, NEW j \in NotesOf(x) PROVE NoteNo(<<x, j>>)' = NoteNo(<<x, j>>)
    BY NotesStand DEF Drawn
  <2> QED BY <2>1, CreditNotesAre
<1>4. CreditNos' = CreditNos \cup {creditNo + 1}
  BY <1>2, <1>3 DEF CreditNos, Drawn
<1>5. CreditNos' = 1..creditNo'
  BY <1>4 DEF CreditInv, Drawn
<1>6. IsFiniteSet(CreditNotes') /\ Cardinality(CreditNotes') = creditNo'
  BY <1>2, FS_AddElement DEF CreditInv, Drawn
<1> QED
  BY <1>5, <1>6 DEF CreditInv

LEMMA CreditStep ==
  ASSUME TypeInv, TypeInv', DocTypeOK, BillInv, NoteInv, CreditInv, DocNext
  PROVE  CreditInv'
<1>0. NotesTyped /\ creditNo \in Nat
  BY DocTypeParts DEF NotesTyped
<1>1. ASSUME NEW o \in Orders, NoteStep(o) PROVE CreditInv'
  BY <1>0, <1>1, KeptCredits, DrawnCredits DEF NoteStep
<1>2. ASSUME NEW o \in Orders, Deletes(o) PROVE CreditInv'
  <2>1. \A x \in Orders : x # o => SameNotes(x)
    BY <1>0, <1>2, DeleteNotes DEF NoteInv, NotesFor
  <2>2. NotesOf(o)' = NotesOf(o) /\ NotesOf(o) = {}
    BY <1>0, <1>2, DeleteNotes DEF NoteInv, NotesFor
  <2>3. creditNo' = creditNo
    BY <1>2 DEF Deletes, DeleteOrder
  <2>4. Kept
    BY <2>1, <2>2, <2>3, NotesStand DEF Kept
  <2> QED BY <2>4, KeptCredits
<1>3. CASE UNCHANGED notes
  BY <1>3, NotesKept, KeptCredits DEF notes, SameNotes
<1> QED
  BY <1>1, <1>2, <1>3, NoteMoves

(***************************************************************************)
(* The amounts credited.  The refunds of an order add up to its refunded   *)
(* total; the cancellation note was cut to what the notes before it left.  *)
(***************************************************************************)
SumOver(rows, S) == SumFunction([i \in S |-> rows[i].amount])

Before(x, n) == {i \in Noted(x) : refunds[x][i].note < n}

SquareOf(x) ==
  /\ SumOver(refunds[x], DOMAIN refunds[x]) = order[x].refunded
  /\ order[x].refunded <= order[x].total
  /\ ~Placed(x) => order[x].refunded = 0
  /\ IF cancelNote[x].seq > 0
       THEN /\ cancelNote[x].amount \in Nat
            /\ SumOver(refunds[x], Before(x, cancelNote[x].seq)) + cancelNote[x].amount = order[x].total
       ELSE cancelNote[x].amount = 0

SquareInv == \A x \in Orders : SquareOf(x)

(* Sums of amounts.                                                        *)
LEMMA SumOverIs ==
  ASSUME NEW rows, NEW S, IsFiniteSet(S), \A i \in S : rows[i].amount \in Nat
  PROVE  /\ SumOver(rows, S) \in Nat
         /\ \A k \in S : SumOver(rows, S) = rows[k].amount + SumOver(rows, S \ {k})
         /\ \A A \in SUBSET S : SumOver(rows, A) <= SumOver(rows, S)
<1> DEFINE w == [i \in S |-> rows[i].amount]
<1>1. /\ \A i \in S : w[i] = rows[i].amount /\ w[i] \in Nat
      /\ Integral(w, S)
  BY DEF Integral
<1>2. ASSUME NEW A \in SUBSET S
      PROVE  SumOver(rows, A) = SumFunctionOnSet(w, A) /\ SumOver(rows, A) \in Nat
  <2> DEFINE v == [i \in A |-> rows[i].amount]
  <2>1. IsFiniteSet(A) /\ Integral(w, A) /\ \A i \in A : w[i] \in Nat /\ v[i] = w[i]
    BY <1>1, FS_Subset DEF Integral
  <2>2. SumOver(rows, A) = SumFunctionOnSet(v, A)
    BY DEF SumOver, SumFunction
  <2> HIDE DEF v, w
  <2>3. SumFunctionOnSet(v, A) = SumFunctionOnSet(w, A)
    BY <2>1, SumAgrees
  <2>4. SumFunctionOnSet(w, A) \in Nat
    BY <2>1, SumIsNatural
  <2> QED BY <2>2, <2>3, <2>4
<1> HIDE DEF w
<1>3. SumOver(rows, S) = SumFunctionOnSet(w, S) /\ SumOver(rows, S) \in Nat
  BY <1>2
<1>4. ASSUME NEW k \in S PROVE SumOver(rows, S) = rows[k].amount + SumOver(rows, S \ {k})
  <2>1. SumFunctionOnSet(w, S) = w[k] + SumFunctionOnSet(w, S \ {k})
    BY <1>1, SumWithout
  <2>2. SumOver(rows, S \ {k}) = SumFunctionOnSet(w, S \ {k})
    BY <1>2
  <2> QED BY <1>1, <1>3, <2>1, <2>2
<1>5. ASSUME NEW A \in SUBSET S PROVE SumOver(rows, A) <= SumOver(rows, S)
  <2>1. SumFunctionOnSet(w, S) = SumFunctionOnSet(w, A) + SumFunctionOnSet(w, S \ A)
    BY <1>1, SumInParts
  <2>2. SumOver(rows, A) = SumFunctionOnSet(w, A) /\ SumOver(rows, A) \in Nat
    BY <1>2
  <2>3. S \ A \in SUBSET S
    OBVIOUS
  <2>4. SumOver(rows, S \ A) = SumFunctionOnSet(w, S \ A) /\ SumOver(rows, S \ A) \in Nat
    BY <1>2, <2>3
  <2> QED BY <1>3, <2>1, <2>2, <2>4
<1> QED
  BY <1>3, <1>4, <1>5

LEMMA SumOverSame ==
  ASSUME NEW rows, NEW others, NEW S, \A i \in S : others[i].amount = rows[i].amount
  PROVE  SumOver(others, S) = SumOver(rows, S)
<1>1. [i \in S |-> others[i].amount] = [i \in S |-> rows[i].amount]
  OBVIOUS
<1> QED
  BY <1>1 DEF SumOver

LEMMA CreditedIs ==
  /\ \A x : Credited(x) = SumOver(refunds[x], Noted(x)) + cancelNote[x].amount
  /\ \A x, n : CreditedBefore(x, n) = SumOver(refunds[x], Before(x, n))
BY DEF Credited, CreditedBefore, SumOver, Before

LEMMA RefundRows ==
  ASSUME NotesTyped, NEW x \in Orders
  PROVE  /\ IsFiniteSet(DOMAIN refunds[x]) /\ 0 \notin DOMAIN refunds[x]
         /\ \A i \in DOMAIN refunds[x] : /\ refunds[x][i] \in [amount : Nat, note : Nat]
                                         /\ refunds[x][i].amount \in Nat /\ refunds[x][i].note \in Nat
         /\ Noted(x) \subseteq DOMAIN refunds[x]
<1>1. refunds[x] \in Seq([amount : Nat, note : Nat])
  BY DEF NotesTyped
<1>2. Len(refunds[x]) \in Nat /\ DOMAIN refunds[x] = 1..Len(refunds[x])
  BY <1>1, LenProperties
<1>3. \A i \in DOMAIN refunds[x] : refunds[x][i] \in [amount : Nat, note : Nat]
  BY <1>1, <1>2, ElementOfSeq
<1>4. IsFiniteSet(DOMAIN refunds[x]) /\ 0 \notin DOMAIN refunds[x]
  BY <1>2, FS_Interval
<1> QED
  BY <1>3, <1>4 DEF Noted

LEMMA NumbersDrawn ==
  ASSUME NotesTyped, CreditInv, NEW x \in Orders
  PROVE  /\ cancelNote[x].seq <= creditNo
         /\ \A i \in Noted(x) : refunds[x][i].note <= creditNo
<1>1. \A j \in NotesOf(x) : NoteNo(<<x, j>>) <= creditNo
  <2>1. ASSUME NEW j \in NotesOf(x) PROVE NoteNo(<<x, j>>) \in 1..creditNo
    BY CreditNotesAre DEF CreditInv, CreditNos
  <2> QED BY <2>1
<1>2. ASSUME NEW i \in Noted(x) PROVE refunds[x][i].note <= creditNo
  <2>1. i \in NotesOf(x) /\ i # 0
    BY RefundRows DEF NotesOf
  <2> QED BY <1>1, <2>1 DEF NoteNo
<1>3. cancelNote[x].seq <= creditNo
  <2>1. CASE cancelNote[x].seq > 0
    <3>1. 0 \in NotesOf(x)
      BY <2>1 DEF NotesOf
    <3> QED BY <1>1, <3>1 DEF NoteNo
  <2>2. CASE ~(cancelNote[x].seq > 0)
    BY <2>2 DEF NotesTyped
  <2> QED BY <2>1, <2>2
<1> QED
  BY <1>2, <1>3

(* What a step may do to an order and its notes.                           *)
Funds(x) == /\ order'[x].total = order[x].total /\ order'[x].refunded = order[x].refunded
            /\ Placed(x) => Placed(x)'

LEMMA SquareStays ==
  ASSUME NEW x \in Orders, SquareOf(x), SameNotes(x), Funds(x)
  PROVE  SquareOf(x)'
<1>1. \A n : Before(x, n)' = Before(x, n)
  BY DEF SameNotes, Before, Noted
<1>2. SumOver(refunds[x], DOMAIN refunds[x])' = SumOver(refunds[x], DOMAIN refunds[x])
  BY DEF SameNotes
<1>3. SumOver(refunds[x], Before(x, cancelNote[x].seq))' = SumOver(refunds[x], Before(x, cancelNote[x].seq))
  BY <1>1 DEF SameNotes
<1> QED
  BY <1>2, <1>3 DEF SquareOf, SameNotes, Funds

LEMMA SquareBorn ==
  ASSUME TypeInv', NEW x \in Orders, SquareOf(x), SameNotes(x), cancelNote[x].seq = 0,
         ~Placed(x), order'[x].refunded = 0
  PROVE  SquareOf(x)'
<1>1. SumOver(refunds[x], DOMAIN refunds[x])' = SumOver(refunds[x], DOMAIN refunds[x])
  BY DEF SameNotes
<1>2. order'[x].total >= 0
  BY DEF TypeInv, TypeOK, OrderRows
<1> QED
  BY <1>1, <1>2 DEF SquareOf, SameNotes

LEMMA SquareRefund ==
  ASSUME TypeInv, NotesTyped, CreditInv, NEW o \in Orders, SquareOf(o), NEW amount \in Nat,
         RecordRefund(o, amount), order'[o].refunded = order[o].refunded + amount,
         order'[o].total = order[o].total, order'[o].refunded <= order[o].total, Placed(o)'
  PROVE  SquareOf(o)'
<1>0. creditNo \in Nat /\ cancelNote' = cancelNote /\ cancelNote[o].seq \in Nat
  BY DEF NotesTyped, RecordRefund
<1>1. PICK note \in {0, creditNo + 1} : Append1(o, amount, note)
  BY RefundType
<1>2. note \in Nat
  BY <1>0
<1>3. PICK k \in Nat \ {0} :
         /\ k \notin DOMAIN refunds[o] /\ DOMAIN refunds'[o] = DOMAIN refunds[o] \cup {k}
         /\ \A i \in DOMAIN refunds[o] : refunds'[o][i] = refunds[o][i]
         /\ refunds'[o][k].note = note /\ refunds'[o][k].amount = amount
         /\ Noted(o)' = Noted(o) \cup (IF note > 0 THEN {k} ELSE {})
  BY <1>1, <1>2, Appended
<1>4. /\ IsFiniteSet(DOMAIN refunds[o]) /\ \A i \in DOMAIN refunds[o] : refunds[o][i].amount \in Nat
      /\ Noted(o) \subseteq DOMAIN refunds[o]
  BY RefundRows
<1>5. SumOver(refunds'[o], DOMAIN refunds'[o]) = amount + SumOver(refunds[o], DOMAIN refunds[o])
  <2>1. IsFiniteSet(DOMAIN refunds'[o]) /\ k \in DOMAIN refunds'[o] /\ DOMAIN refunds'[o] \ {k} = DOMAIN refunds[o]
    BY <1>3, <1>4, FS_AddElement
  <2>2. \A i \in DOMAIN refunds'[o] : refunds'[o][i].amount \in Nat
    BY <1>3, <1>4
  <2>3. SumOver(refunds'[o], DOMAIN refunds'[o]) = refunds'[o][k].amount + SumOver(refunds'[o], DOMAIN refunds'[o] \ {k})
    BY <2>1, <2>2, SumOverIs
  <2>4. SumOver(refunds'[o], DOMAIN refunds[o]) = SumOver(refunds[o], DOMAIN refunds[o])
    BY <1>3, SumOverSame
  <2> QED BY <1>3, <2>1, <2>3, <2>4
<1>6. SumOver(refunds[o], DOMAIN refunds[o]) \in Nat /\ order[o].refunded \in Nat
  BY <1>4, SumOverIs DEF TypeInv, TypeOK, OrderRows
<1>7. SumOver(refunds'[o], DOMAIN refunds'[o]) = order'[o].refunded
  BY <1>5, <1>6 DEF SquareOf
<1>8. ASSUME cancelNote[o].seq > 0
      PROVE  SumOver(refunds'[o], Before(o, cancelNote[o].seq)') = SumOver(refunds[o], Before(o, cancelNote[o].seq))
  <2>1. \A i \in Noted(o) : refunds'[o][i] = refunds[o][i]
    BY <1>3, <1>4
  <2>2. note > 0 => ~(note < cancelNote[o].seq)
    BY <1>0, NumbersDrawn
  <2>3. Before(o, cancelNote[o].seq)' = Before(o, cancelNote[o].seq)
    BY <1>0, <1>3, <2>1, <2>2 DEF Before
  <2>4. \A i \in Before(o, cancelNote[o].seq) : refunds'[o][i].amount = refunds[o][i].amount
    BY <2>1 DEF Before
  <2> QED BY <2>3, <2>4, SumOverSame
<1> QED
  BY <1>0, <1>7, <1>8 DEF SquareOf

LEMMA SquareCancelled ==
  ASSUME TypeInv, NotesTyped, CreditInv, NEW o \in Orders, SquareOf(o), NEW row,
         MaybeIssueCancellationNote(o, row), Funds(o)
  PROVE  SquareOf(o)'
<1>0. refunds' = refunds /\ DOMAIN cancelNote = Orders /\ creditNo \in Nat
  BY DEF NotesTyped, MaybeIssueCancellationNote
<1>1. CASE cancelNote' = cancelNote
  BY <1>0, <1>1, SquareStays DEF SameNotes
<1>2. CASE /\ CancellationNoteIsDue(o, row)
           /\ cancelNote' = [cancelNote EXCEPT ![o] = [seq |-> creditNo + 1, amount |-> Remaining(o)]]
  <2>1. cancelNote'[o].seq = creditNo + 1 /\ cancelNote'[o].amount = Remaining(o)
    BY <1>0, <1>2
  <2>2. cancelNote[o].seq = 0 /\ Remaining(o) > 0
    BY <1>2 DEF CancellationNoteIsDue
  <2>3. cancelNote[o].amount = 0
    BY <2>2 DEF SquareOf
  <2>4. Before(o, cancelNote[o].seq)' = Noted(o)
    <3>1. Noted(o)' = Noted(o)
      BY <1>0 DEF Noted
    <3>2. \A i \in Noted(o) : refunds[o][i].note <= creditNo /\ refunds[o][i].note \in Nat
      BY NumbersDrawn, RefundRows
    <3>3. \A i \in Noted(o) : refunds'[o][i].note < cancelNote'[o].seq
      BY <1>0, <2>1, <3>2
    <3> QED BY <3>1, <3>3 DEF Before
  <2>5. SumOver(refunds[o], Noted(o)) \in Nat
    <3>1. IsFiniteSet(Noted(o)) /\ \A i \in Noted(o) : refunds[o][i].amount \in Nat
      BY RefundRows, FS_Subset
    <3> QED BY <3>1, SumOverIs
  <2>6. order[o].total \in Nat
    BY DEF TypeInv, TypeOK, OrderRows
  <2>7. Remaining(o) = order[o].total - SumOver(refunds[o], Noted(o))
    BY <2>3, <2>5, CreditedIs DEF Remaining
  <2>8. Remaining(o) \in Nat /\ SumOver(refunds[o], Noted(o)) + Remaining(o) = order[o].total
    BY <2>2, <2>5, <2>6, <2>7
  <2>9. SumOver(refunds[o], Before(o, cancelNote[o].seq))' = SumOver(refunds[o], Noted(o))
    BY <1>0, <2>4
  <2>10. SumOver(refunds[o], DOMAIN refunds[o])' = SumOver(refunds[o], DOMAIN refunds[o])
    BY <1>0
  <2> QED BY <1>0, <2>1, <2>8, <2>9, <2>10 DEF SquareOf, Funds
<1> QED
  BY <1>1, <1>2 DEF MaybeIssueCancellationNote

LEMMA SquareBackfilled ==
  ASSUME NotesTyped, CreditInv, NEW o \in Orders, SquareOf(o), NEW i, BackfillCreditNote(o, i)
  PROVE  SquareOf(o)'
<1>0. creditNo \in Nat /\ cancelNote' = cancelNote /\ order' = order /\ cancelNote[o].seq \in Nat
  BY DEF NotesTyped, BackfillCreditNote, vars
<1>1. i \in DOMAIN refunds[o] /\ refunds[o][i].note = 0 /\ refunds[o][i] \in [amount : Nat, note : Nat]
  BY RefundRows DEF BackfillCreditNote
<1>2. refunds'[o] = [refunds[o] EXCEPT ![i] = [refunds[o][i] EXCEPT !.note = creditNo + 1]]
  BY DEF BackfillCreditNote, NotesTyped
<1>3. /\ DOMAIN refunds'[o] = DOMAIN refunds[o]
      /\ \A j \in DOMAIN refunds[o] : j # i => refunds'[o][j] = refunds[o][j]
      /\ refunds'[o][i].note = creditNo + 1 /\ refunds'[o][i].amount = refunds[o][i].amount
  <2>1. /\ [refunds[o][i] EXCEPT !.note = creditNo + 1].note = creditNo + 1
        /\ [refunds[o][i] EXCEPT !.note = creditNo + 1].amount = refunds[o][i].amount
    BY <1>1
  <2> QED BY <1>1, <1>2, <2>1
<1>4. \A j \in DOMAIN refunds[o] : refunds'[o][j].amount = refunds[o][j].amount
  BY <1>3
<1>5. SumOver(refunds'[o], DOMAIN refunds'[o]) = SumOver(refunds[o], DOMAIN refunds[o])
  BY <1>3, <1>4, SumOverSame
<1>6. SumOver(refunds'[o], Before(o, cancelNote[o].seq)') = SumOver(refunds[o], Before(o, cancelNote[o].seq))
  <2>1. Noted(o)' = Noted(o) \cup {i} /\ i \notin Noted(o)
    BY <1>0, <1>1, <1>3 DEF Noted
  <2>2. ~(creditNo + 1 < cancelNote[o].seq)
    BY <1>0, NumbersDrawn
  <2>3. \A j \in Noted(o) : refunds'[o][j] = refunds[o][j]
    BY <1>3, <2>1 DEF Noted
  <2>4. Before(o, cancelNote[o].seq)' = Before(o, cancelNote[o].seq)
    BY <1>0, <1>3, <2>1, <2>2, <2>3 DEF Before
  <2>5. \A j \in Before(o, cancelNote[o].seq) : refunds'[o][j].amount = refunds[o][j].amount
    BY <2>3 DEF Before
  <2> QED BY <2>4, <2>5, SumOverSame
<1> QED
  BY <1>0, <1>5, <1>6 DEF SquareOf, Placed

LEMMA SquareDeleted ==
  ASSUME TypeInv, NotesTyped, NEW o \in Orders, SquareOf(o), ~Invoiced(o) => NotesOf(o) = {}, Deletes(o)
  PROVE  SquareOf(o)'
<1>1. /\ refunds'[o] = <<>> /\ cancelNote' = cancelNote /\ order'[o] = Absent
      /\ NotesOf(o) = {} /\ DOMAIN refunds'[o] = {}
  <2>1. DeleteOrder(o) /\ ~Invoiced(o)
    BY DEF Deletes
  <2>2. refunds' = [refunds EXCEPT ![o] = <<>>] /\ cancelNote' = cancelNote /\ DOMAIN refunds = Orders
    BY <2>1 DEF DeleteOrder, NotesTyped
  <2>3. order'[o] = Absent
    BY <2>1, DeleteRows
  <2>4. refunds'[o] = <<>>
    BY <2>2
  <2> QED BY <2>1, <2>2, <2>3, <2>4
<1>2. ~(cancelNote[o].seq > 0)
  BY <1>1 DEF NotesOf
<1>3. SumOver(refunds'[o], DOMAIN refunds'[o]) = 0
  <2>1. IsFiniteSet({}) /\ DOMAIN [i \in {} |-> refunds'[o][i].amount] = {}
    BY FS_EmptySet
  <2> QED BY <1>1, <2>1, SumOfNone DEF SumOver, SumFunction
<1> QED
  BY <1>1, <1>2, <1>3 DEF SquareOf, Absent

(* Outside the refunding PATCH and the purge, an order keeps its funds or  *)
(* is placed with none given back.                                         *)
Moved(x) == Funds(x) \/ (~Placed(x) /\ order'[x].refunded = 0)

LEMMA ReportFunds == ASSUME TypeInv, ReportMoves, NEW x \in Orders PROVE Funds(x)
<1>0. order[x] \in OrderRows /\ DOMAIN order = Orders
  BY DEF TypeInv, TypeOK
<1>1. ASSUME NEW o \in Orders, Confirmed(o) PROVE Funds(x)
  <2>1. order' = [order EXCEPT ![o] = [[order[o] EXCEPT !.status = "confirmed"] EXCEPT !.pay = "paid"]]
    BY <1>1 DEF Confirmed
  <2> QED BY <1>0, <2>1 DEF Funds, Placed, OrderRows
<1>2. ASSUME NEW o \in Orders, Failed(o) PROVE Funds(x)
  <2>1. order' = [order EXCEPT ![o] = [order[o] EXCEPT !.pay = "failed"]]
    BY <1>2 DEF Failed
  <2> QED BY <1>0, <2>1 DEF Funds, Placed, OrderRows
<1>3. ASSUME NEW o \in Orders, GivenUp(o) PROVE Funds(x)
  BY <1>0, <1>3 DEF GivenUp, Funds, Placed, OrderRows, Abandoned
<1>4. ASSUME NEW o \in Orders, TooLate(o) PROVE Funds(x)
  BY <1>4 DEF TooLate, Funds, Placed
<1> QED
  BY <1>1, <1>2, <1>3, <1>4 DEF ReportMoves, Funds, Placed

LEMMA HandlerFunds ==
  ASSUME TypeInv, NEW x \in Orders,
         \/ Capture \/ Elsewhere \/ UNCHANGED vars
         \/ \E o \in Orders, who \in Cancellers : CancelOrder(o, who)
         \/ \E o \in Orders, m \in Methods, t \in Totals, p \in Places : PlaceOrder(o, m, t, p)
  PROVE  Moved(x)
<1>0. order[x] \in OrderRows /\ DOMAIN order = Orders
  BY DEF TypeInv, TypeOK
<1>1. CASE Capture
  <2>1. Reports
    BY <1>1 DEF Capture, CaptureReported, Reports
  <2> QED BY <2>1, ReportsMove, ReportFunds DEF Moved
<1>2. ASSUME order' = order PROVE Moved(x)
  BY <1>2 DEF Moved, Funds, Placed
<1>3. CASE Elsewhere
  <2>1. ASSUME NEW o \in Binnable, SoftDelete(o) \/ Undelete(o) PROVE Moved(x)
    BY <1>0, <2>1 DEF SoftDelete, Undelete, OrderRows, Moved, Funds, Placed
  <2>2. order' = order \/ \E o \in Binnable : SoftDelete(o) \/ Undelete(o)
    BY <1>3 DEF Elsewhere, CreateOrderMint, CreateOrderCommit, CreateOrderDies, GatewayCapture,
                GatewayDecline, L3Query, L3Fetch, L3FetchFails, L3Finish, L3Crash
  <2> QED BY <1>2, <2>1, <2>2
<1>4. ASSUME NEW o \in Orders, NEW who \in Cancellers, CancelOrder(o, who) PROVE Moved(x)
  <2>1. order' = [order EXCEPT ![o] = [[order[o] EXCEPT !.status = "cancelled"] EXCEPT !.restored = TRUE]]
    BY <1>4 DEF CancelOrder, Cancel
  <2> QED BY <1>0, <2>1 DEF OrderRows, Moved, Funds, Placed
<1>5. ASSUME NEW o \in Orders, NEW m \in Methods, NEW t \in Totals, NEW p \in Places, PlaceOrder(o, m, t, p)
      PROVE  Moved(x)
  <2>1. ~Placed(o) /\ order'[x] = IF x = o THEN NewOrder(m, t)
                                  ELSE IF Stale(x) THEN Abandoned(order[x]) ELSE order[x]
    BY <1>5 DEF PlaceOrder, Checkout
  <2>2. NewOrder(m, t).refunded = 0
    BY DEF NewOrder, Absent
  <2>3. /\ Abandoned(order[x]).total = order[x].total /\ Abandoned(order[x]).refunded = order[x].refunded
        /\ Abandoned(order[x]).status = "cancelled"
    BY <1>0 DEF Abandoned, OrderRows
  <2> QED BY <2>1, <2>2, <2>3 DEF Moved, Funds, Placed
<1> QED
  BY <1>1, <1>2, <1>3, <1>4, <1>5 DEF vars

LEMMA SquareQuiet ==
  ASSUME TypeInv', NotesTyped, BillInv, NoteInv, SquareInv, NEW x \in Orders, Moved(x), SameNotes(x)
  PROVE  SquareOf(x)'
<1>1. SquareOf(x) /\ BillOf(x) /\ NotesFor(x) /\ cancelNote[x].seq \in Nat
  BY DEF SquareInv, BillInv, NoteInv, NotesTyped
<1>2. ~Placed(x) => cancelNote[x].seq = 0
  BY <1>1 DEF BillOf, NotesFor, NotesOf
<1> QED
  BY <1>1, <1>2, SquareStays, SquareBorn DEF Moved

LEMMA SquarePatched ==
  ASSUME TypeInv, TypeInv', NotesTyped, CreditInv, SquareInv,
         NEW o \in Orders, NEW status \in AdminStatuses,
         NEW edit \in HandEdits \cup {"keep"}, NEW tick \in {"keep", "tick", "untick"},
         status = "refunded" /\ (tick # "keep" \/ edit # "keep") => CombinedEdits,
         NEW given \in 0..order[o].total, PatchOrder(o, status, edit, tick, given)
  PROVE  SquareInv'
<1> DEFINE row    == [Ticked(Edited(order[o], edit), tick) EXCEPT !.status = status]
           amount == order'[o].refunded - order[o].refunded
<1>0. /\ order[o].refunded \in Nat /\ order'[o].refunded \in Nat /\ order[o].total \in Nat
      /\ DOMAIN refunds = Orders /\ DOMAIN cancelNote = Orders /\ SquareOf(o)
  BY DEF TypeInv, TypeOK, OrderRows, NotesTyped, SquareInv
<1>1. AdminUpdate(o, status, edit, tick, given) /\ PatchNotes(o, row, amount)
  BY DEF PatchOrder
<1>2. /\ Placed(o) /\ Placed(o)'
      /\ \A x \in Orders : x # o => order'[x] = order[x]
  <2>1. given \in Int /\ AdminUpdate(o, status, edit, tick, given)
    BY <1>0, <1>1
  <2> HIDE DEF row, amount
  <2> QED BY <2>1, PatchRows
<1>3. RowStep(o)
  <2>1. status = "refunded" /\ tick # "keep" => CombinedEdits
    OBVIOUS
  <2> QED BY <1>1, <2>1, AdminUpdateRow
<1>4. /\ order'[o].total = order[o].total
      /\ \/ order'[o].refunded = order[o].refunded
         \/ order[o].refunded < order'[o].refunded /\ order'[o].refunded <= order[o].total
  BY <1>2, <1>3 DEF RowStep, Unmoved, Born, Lost, Typed, Sale, CashIn, CashOut, MoneyBack, SameFunds, SameSale
<1>5. amount \in Int /\ order'[o].refunded = order[o].refunded + amount /\ (amount = 0 => Funds(o))
  BY <1>0, <1>2, <1>4 DEF Funds
<1> HIDE DEF row, amount
<1>6. \A x \in Orders : x # o => SameNotes(x)
  BY <1>0, <1>1 DEF PatchNotes, RecordRefund, MaybeIssueCancellationNote, Append1, notes, SameNotes
<1>7. \A x \in Orders : x # o => SquareOf(x)'
  BY <1>2, <1>6, SquareStays DEF SquareInv, Funds, Placed
<1>8. SquareOf(o)'
  <2>1. CASE amount > 0 /\ RecordRefund(o, amount)
    <3>1. amount \in Nat /\ order'[o].refunded <= order[o].total
      BY <1>0, <1>4, <1>5, <2>1
    <3> QED BY <1>0, <1>2, <1>4, <1>5, <2>1, <3>1, SquareRefund
  <2>2. CASE amount = 0 /\ MaybeIssueCancellationNote(o, row)
    BY <1>0, <1>5, <2>2, SquareCancelled
  <2>3. CASE amount = 0 /\ UNCHANGED notes
    BY <1>0, <1>5, <2>3, SquareStays DEF SameNotes, notes
  <2> QED BY <1>1, <2>1, <2>2, <2>3 DEF PatchNotes
<1> QED
  BY <1>7, <1>8 DEF SquareInv

LEMMA SquareStep ==
  ASSUME TypeInv, TypeInv', DocTypeOK, BillInv, NoteInv, CreditInv, SquareInv, DocNext
  PROVE  SquareInv'
<1>0. NotesTyped /\ \A x \in Orders : SquareOf(x)
  BY DocTypeParts DEF SquareInv
<1>1. ASSUME UNCHANGED notes, \A x \in Orders : Moved(x) PROVE SquareInv'
  BY <1>0, <1>1, SquareQuiet DEF SquareInv, SameNotes, notes
<1>2. ASSUME NEW o \in Orders, NEW m \in Methods, NEW t \in Totals, NEW p \in Places, PlaceOrder(o, m, t, p)
      PROVE  SquareInv'
  <2>1. UNCHANGED notes
    BY <1>2 DEF PlaceOrder
  <2> QED BY <1>1, <1>2, <2>1, HandlerFunds
<1>3. CASE Capture \/ Elsewhere
  <2>1. UNCHANGED notes
    BY <1>3 DEF Capture, Elsewhere, docs
  <2> QED BY <1>1, <1>3, <2>1, HandlerFunds
<1>4. ASSUME UNCHANGED vars, UNCHANGED notes PROVE SquareInv'
  BY <1>1, <1>4, HandlerFunds
<1>5. ASSUME NEW o \in Orders, NEW who \in Cancellers, CancelOrder(o, who) PROVE SquareInv'
  <2>1. MaybeIssueCancellationNote(o, order'[o])
    BY <1>5 DEF CancelOrder
  <2>2. \A x \in Orders : x # o => SameNotes(x)
    BY <1>0, <2>1 DEF MaybeIssueCancellationNote, NotesTyped, SameNotes
  <2>3. \A x \in Orders : Moved(x)
    BY <1>5, HandlerFunds
  <2>4. Funds(o)
    BY <1>5, <2>3 DEF CancelOrder, Cancel, MayCancel, Moved
  <2>5. SquareOf(o)'
    BY <1>0, <2>1, <2>4, SquareCancelled
  <2>6. \A x \in Orders : x # o => SquareOf(x)'
    BY <1>0, <2>2, <2>3, SquareQuiet
  <2> QED BY <2>5, <2>6 DEF SquareInv
<1>6. ASSUME NEW o \in Orders, NEW i, BackfillCreditNote(o, i) PROVE SquareInv'
  <2>1. SquareOf(o)'
    BY <1>0, <1>6, SquareBackfilled
  <2>2. \A x \in Orders : x # o => SameNotes(x)
    BY <1>0, <1>6 DEF BackfillCreditNote, NotesTyped, SameNotes
  <2>3. \A x \in Orders : Moved(x)
    BY <1>6, HandlerFunds DEF BackfillCreditNote
  <2>4. \A x \in Orders : x # o => SquareOf(x)'
    BY <1>0, <2>2, <2>3, SquareQuiet
  <2> QED BY <2>1, <2>4 DEF SquareInv
<1>7. ASSUME NEW o \in Orders, Deletes(o) PROVE SquareInv'
  <2>1. NotesFor(o) /\ SquareOf(o) /\ DeleteOrder(o)
    BY <1>0, <1>7 DEF NoteInv, Deletes
  <2>2. SquareOf(o)'
    BY <1>0, <1>7, <2>1, SquareDeleted DEF NotesFor
  <2>3. \A x \in Orders : x # o => SameNotes(x) /\ Funds(x)
    BY <1>0, <1>7, <2>1, DeleteNotes, DeleteRows DEF NotesFor, Funds, Placed
  <2>4. \A x \in Orders : x # o => SquareOf(x)'
    BY <1>0, <2>3, SquareStays
  <2> QED BY <2>2, <2>4 DEF SquareInv
<1>8. CASE PurgeDelete
  <2>1. CASE Protected(purging)
    BY <1>4, <1>8, <2>1 DEF PurgeDelete
  <2>2. CASE ~Protected(purging)
    <3>1. purging \in Orders
      BY <1>8 DEF PurgeDelete, DocTypeOK
    <3>2. Deletes(purging)
      BY <1>8, <2>2 DEF PurgeDelete, Protected, Deletes
    <3> QED BY <1>7, <3>1, <3>2
  <2> QED BY <2>1, <2>2
<1>9. ASSUME NEW o \in Orders, NEW p, PatchPlaceCheck(o, p) \/ BackfillJudge(o) \/ PurgeCheck(o)
      PROVE  SquareInv'
  <2>1. UNCHANGED vars /\ UNCHANGED notes
    BY <1>9 DEF PatchPlaceCheck, BackfillJudge, PurgeCheck
  <2> QED BY <1>4, <2>1
<1>10. CASE BackfillLoad \/ BackfillIssue \/ BackfillEnds
  <2>1. UNCHANGED vars /\ UNCHANGED notes
    BY <1>10 DEF BackfillLoad, BackfillIssue, BackfillEnds
  <2> QED BY <1>4, <2>1
<1>11. ASSUME NEW o \in Orders, NEW status \in AdminStatuses, NEW edit \in HandEdits \cup {"keep"},
              NEW tick \in {"keep", "tick", "untick"},
              status = "refunded" /\ (tick # "keep" \/ edit # "keep") => CombinedEdits,
              NEW given \in IF status = "refunded" THEN 0..order[o].total ELSE {0},
              PatchOrder(o, status, edit, tick, given)
       PROVE  SquareInv'
  <2>1. order[o].total \in Nat
    BY DEF TypeInv, TypeOK, OrderRows
  <2>2. given \in 0..order[o].total
    BY <2>1
  <2> QED BY <1>0, <1>11, <2>2, SquarePatched
<1> QED
  BY <1>2, <1>3, <1>5, <1>6, <1>8, <1>9, <1>10, <1>11 DEF DocNext

(* Then the notes never credit more than the invoice.                      *)
LEMMA SquaresUp == ASSUME TypeInv, NotesTyped, SquareInv PROVE CancellationSquares
<1> SUFFICES ASSUME NEW x \in Orders
    PROVE  IF cancelNote[x].seq > 0
             THEN /\ cancelNote[x].amount \in Nat
                  /\ CreditedBefore(x, cancelNote[x].seq) + cancelNote[x].amount = order[x].total
             ELSE Credited(x) <= order[x].total
  BY DEF CancellationSquares
<1>1. SquareOf(x) /\ order[x].refunded \in Nat /\ order[x].total \in Nat
  BY DEF SquareInv, TypeInv, TypeOK, OrderRows
<1>2. CASE cancelNote[x].seq > 0
  BY <1>1, <1>2, CreditedIs DEF SquareOf
<1>3. CASE ~(cancelNote[x].seq > 0)
  <2>1. /\ IsFiniteSet(DOMAIN refunds[x]) /\ \A i \in DOMAIN refunds[x] : refunds[x][i].amount \in Nat
        /\ Noted(x) \in SUBSET DOMAIN refunds[x] /\ IsFiniteSet(Noted(x))
        /\ \A i \in Noted(x) : refunds[x][i].amount \in Nat
    BY RefundRows, FS_Subset
  <2>2. SumOver(refunds[x], Noted(x)) <= SumOver(refunds[x], DOMAIN refunds[x])
    BY <2>1, SumOverIs
  <2>3. SumOver(refunds[x], Noted(x)) \in Nat
    BY <2>1, SumOverIs
  <2>4. Credited(x) = SumOver(refunds[x], Noted(x)) + cancelNote[x].amount
    BY CreditedIs
  <2>5. cancelNote[x].amount = 0 /\ SumOver(refunds[x], DOMAIN refunds[x]) = order[x].refunded
        /\ order[x].refunded <= order[x].total
    BY <1>1, <1>3 DEF SquareOf
  <2>6. Credited(x) <= order[x].total
    BY <1>1, <2>2, <2>3, <2>4, <2>5
  <2> QED BY <1>3, <2>6
<1> QED
  BY <1>2, <1>3

-----------------------------------------------------------------------------
(***************************************************************************)
(* The gap the report shows.                                               *)
(***************************************************************************)
LEMMA GapBounded ==
  ASSUME NEW last \in Nat, NEW nos, NEW missing,
         nos \cup missing = 1..last, nos \cap missing = {}
  PROVE  Gap(nos) <= Cardinality(missing)
<1>1. IsFiniteSet(1..last) /\ Cardinality(1..last) = last
  BY FS_Interval
<1>2. IsFiniteSet(nos) /\ IsFiniteSet(missing)
  BY <1>1, FS_Subset
<1>3. Cardinality(nos) \in Nat /\ Cardinality(missing) \in Nat
  BY <1>2, FS_CardinalityType
<1>4. Cardinality(nos) + Cardinality(missing) = last
  <2>1. Cardinality(nos \cup missing) = Cardinality(nos) + Cardinality(missing) - Cardinality(nos \cap missing)
    BY <1>2, FS_Union
  <2>2. Cardinality(nos \cap missing) = 0 /\ Cardinality(nos \cup missing) = last
    BY <1>1, FS_EmptySet
  <2> QED BY <1>3, <2>1, <2>2
<1>5. CASE nos = {}
  BY <1>3, <1>5 DEF Gap
<1>6. CASE nos # {}
  <2>1. nos \in SUBSET Nat /\ \A n \in nos : 1 <= n /\ n <= last
    OBVIOUS
  <2>2. Min(nos) \in nos
    BY <1>6, <2>1, MinIsLeast
  <2>3. Max(nos) \in nos
    BY <1>6, <2>1, MaxIsGreatest
  <2>4. Min(nos) \in Nat /\ Max(nos) \in Nat /\ 1 <= Min(nos) /\ Max(nos) <= last
    BY <2>1, <2>2, <2>3
  <2>5. Gap(nos) = (Max(nos) - Min(nos) + 1) - Cardinality(nos)
    BY <1>6 DEF Gap
  <2> QED BY <1>3, <1>4, <2>4, <2>5
<1> QED
  BY <1>5, <1>6

-----------------------------------------------------------------------------
(***************************************************************************)
(* The layers together.                                                    *)
(***************************************************************************)
DocInv == /\ TypeInv /\ DocTypeOK /\ SeriesInv /\ BackfillInv /\ BillInv /\ NoteInv
          /\ CreditInv /\ SquareInv

LEMMA DocTypeStart == DocInit => DocTypeOK
<1> SUFFICES ASSUME DocInit PROVE DocTypeOK
  OBVIOUS
<1>1. PlacesTyped
  <2>1. place = [o \in Orders |-> ""] /\ patch = NoPatch
    BY DEF DocInit
  <2> QED BY <2>1 DEF PlacesTyped, NoPatch, Where
<1>2. BillsTyped
  <2>1. invoice = [o \in Orders |-> NoInvoice] /\ invoiceNo = 0 /\ invoiceFailed = {}
    BY DEF DocInit
  <2>2. NoInvoice \in [seq : Nat, place : Where]
    BY DEF NoInvoice, Where
  <2> QED BY <2>1, <2>2 DEF BillsTyped
<1>3. NotesTyped
  <2>1. /\ refunds = [o \in Orders |-> <<>>] /\ cancelNote = [o \in Orders |-> NoNote]
        /\ creditNo = 0 /\ noteFailed = {}
    BY DEF DocInit
  <2>2. NoNote.seq = 0
    BY DEF NoNote
  <2>3. refunds \in [Orders -> Seq([amount : Nat, note : Nat])]
    BY <2>1, EmptySeq
  <2> QED BY <2>1, <2>2, <2>3 DEF NotesTyped
<1>4. CommandsTyped
  <2>1. burned = {} /\ backfill = BackfillIdle /\ purging = NoOrder /\ purged = {}
    BY DEF DocInit
  <2>2. NoCopy \in Copies
    BY DEF NoCopy, Copies, Where, PayStatuses
  <2>3. BackfillIdle \in [pc : {"idle", "next", "issue"}, order : Orders \cup {NoOrder},
                          copies : [Orders -> Copies]]
    BY <2>2 DEF BackfillIdle
  <2> QED BY <2>1, <2>3 DEF CommandsTyped
<1> QED
  BY <1>1, <1>2, <1>3, <1>4, DocTypeParts

LEMMA DocStart == DocInit => DocInv
<1> SUFFICES ASSUME DocInit PROVE DocInv
  OBVIOUS
<1>1. TypeInv /\ DocTypeOK
  BY TypeInit, DocTypeStart DEF DocInit
<1>2. /\ invoice = [o \in Orders |-> NoInvoice] /\ invoiceNo = 0 /\ burned = {}
      /\ refunds = [o \in Orders |-> <<>>] /\ cancelNote = [o \in Orders |-> NoNote] /\ creditNo = 0
  BY DEF DocInit
<1>3. NoInvoice.seq = 0 /\ NoNote.seq = 0
  BY DEF NoInvoice, NoNote
<1>4. ASSUME NEW o \in Orders
      PROVE  /\ invoice[o].seq = 0 /\ ~Invoiced(o)
             /\ DOMAIN refunds[o] = {} /\ Noted(o) = {} /\ NotesOf(o) = {} /\ ~Unnoted(o)
  <2>1. invoice[o] = NoInvoice /\ refunds[o] = <<>> /\ cancelNote[o] = NoNote
    BY <1>2
  <2>2. DOMAIN refunds[o] = {}
    BY <2>1
  <2>3. Noted(o) = {}
    BY <2>2 DEF Noted
  <2> QED BY <1>3, <2>1, <2>2, <2>3 DEF Invoiced, NotesOf, Unnoted
<1>5. SeriesInv
  <2>1. InvoiceNos = {} /\ 1..invoiceNo = {}
    BY <1>2, <1>4 DEF InvoiceNos
  <2>2. InvoiceSeries
    BY <1>2, <1>4, <2>1 DEF InvoiceSeries
  <2> QED BY <1>2, <1>4, <2>2 DEF SeriesInv
<1>6. BackfillInv
  <2>1. backfill = BackfillIdle
    BY DEF DocInit
  <2> QED BY <2>1 DEF BackfillInv, BackfillIdle
<1>7. BillInv
  <2>1. \A o \in Orders : order[o].status = "absent" /\ order[o].pay = "pending"
    BY DEF DocInit, Init, Absent
  <2> QED BY <1>4, <2>1 DEF BillInv, BillOf, Unpaid, Billed, Supplied, MoneyReceivedStatuses
<1>8. NoteInv
  BY <1>4 DEF NoteInv, NotesFor
<1>9. CreditInv
  <2>1. CreditNotes = {}
    BY <1>4 DEF CreditNotes
  <2>2. CreditNos = {} /\ 1..creditNo = {}
    BY <1>2, <2>1 DEF CreditNos
  <2> QED BY <1>2, <2>1, <2>2, FS_EmptySet DEF CreditInv
<1>10. SquareInv
  <2>1. ASSUME NEW o \in Orders PROVE SquareOf(o)
    <3>1. order[o] = Absent /\ cancelNote[o] = NoNote /\ refunds[o] = <<>>
      BY <1>2 DEF DocInit, Init
    <3>2. Absent.refunded = 0 /\ Absent.total = 0 /\ NoNote.amount = 0
      BY DEF Absent, NoNote
    <3>3. SumOver(refunds[o], {}) = 0
      <4>1. DOMAIN [i \in {} |-> refunds[o][i].amount] = {}
        OBVIOUS
      <4> QED BY <4>1, SumOfNone DEF SumOver, SumFunction
    <3> QED BY <1>3, <1>4, <3>1, <3>2, <3>3 DEF SquareOf
  <2> QED BY <2>1 DEF SquareInv
<1> QED
  BY <1>1, <1>5, <1>6, <1>7, <1>8, <1>9, <1>10 DEF DocInv

LEMMA RowsStep == ASSUME TypeInv, DocTypeOK, DocNext PROVE TypeInv'
<1>1. [Next]_vars \/ \E o \in Orders : Deletes(o)
  BY DocStepIs DEF DocTypeOK
<1> QED
  BY <1>1, TypeStep, DeleteType DEF Deletes

LEMMA DocStep == DocInv /\ [DocNext]_<<vars, docs>> => DocInv'
<1>1. ASSUME DocInv, DocNext PROVE DocInv'
  <2>1. /\ TypeInv /\ DocTypeOK /\ SeriesInv /\ BackfillInv /\ BillInv /\ NoteInv /\ CreditInv
        /\ TypeInv' /\ SquareInv
    BY <1>1, RowsStep DEF DocInv
  <2>2. SeriesInv' /\ BackfillInv'
    BY <1>1, <2>1, StepSound, SoundKeepsSeries, BackfillStep DEF BackfillInv
  <2>3. DocTypeOK' /\ BillInv' /\ NoteInv' /\ CreditInv' /\ SquareInv'
    BY <1>1, <2>1, DocTypeStep, BillStep, NoteInvStep, CreditStep, SquareStep
  <2> QED BY <2>1, <2>2, <2>3 DEF DocInv
<1>2. ASSUME DocInv, UNCHANGED <<vars, docs>> PROVE DocInv'
  <2>1. /\ UNCHANGED <<order, payment, shelf, processed, ledger, mails, razorpay, acked, req, l3>>
        /\ UNCHANGED <<place, patch, invoice, invoiceNo, invoiceFailed>>
        /\ UNCHANGED <<refunds, cancelNote, creditNo, noteFailed, burned, backfill, purging, purged>>
    BY <1>2 DEF vars, docs, invoices, notes, commands
  <2>2. TypeInv'
    BY <1>2, TypeStep DEF DocInv
  <2>3. SeriesInv' /\ BackfillInv'
    BY <1>2, <2>1, SoundKeepsSeries DEF DocInv, Sound, series, BackfillInv
  <2>4. DocTypeOK'
    BY <1>2, <2>1 DEF DocInv, DocTypeOK
  <2>5. BillInv'
    BY <1>2, <2>1, QuietBills DEF DocInv, invoices
  <2>6. \A x \in Orders : SameNotes(x)
    BY <2>1 DEF SameNotes
  <2>7. NoteInv'
    BY <1>2, <2>1, <2>6, NotesStand DEF DocInv, NoteInv, NotesFor, Invoiced
  <2>8. CreditInv'
    BY <1>2, <2>1, <2>6, NotesKept, KeptCredits DEF DocInv
  <2>9. SquareInv'
    BY <1>2, <2>1, <2>6, SquareStays DEF DocInv, SquareInv, Funds, Placed
  <2> QED BY <2>2, <2>3, <2>4, <2>5, <2>7, <2>8, <2>9 DEF DocInv
<1> QED
  BY <1>1, <1>2

LEMMA DocInvariant == DocSpec => []DocInv
BY DocStart, DocStep, PTL DEF DocSpec

-----------------------------------------------------------------------------
(***************************************************************************)
(* The theorems.                                                           *)
(***************************************************************************)
(* However captures, edits, purges and the backfill interleave, every      *)
(* number allocate_invoice_number gave is on one invoice or was burned by  *)
(* an insert that lost, and no two invoices share one; the gap the report  *)
(* shows is within the burned numbers; and the credit notes have every     *)
(* number up to their counter, once, whichever notes fail.                 *)
THEOREM SeriesAreAccounted == DocSpec => []SeriesAccounted
<1>1. ASSUME DocInv PROVE SeriesAccounted
  <2>1. DocTypeOK /\ InvoiceSeries /\ invoiceNo \in Nat /\ CreditInv
    BY <1>1 DEF DocInv, SeriesInv
  <2>2. Gap(InvoiceNos) <= Cardinality(burned)
    BY <2>1, GapBounded DEF InvoiceSeries
  <2> QED BY <2>1, <2>2 DEF SeriesAccounted, GapsExplained, CreditInv
<1> QED BY <1>1, DocInvariant, PTL

(* No path to "paid" or "shipped" forgets the invoice, and no refund       *)
(* forgets its credit note, unless the failure was logged; as long as a    *)
(* PATCH does not both type a payment status and refund.                   *)
THEOREM DocumentsAreRaised == ASSUME ~CombinedEdits PROVE DocSpec => []Documented
<1>1. ASSUME DocInv PROVE Documented
  <2>1. \A x \in Orders : BillOf(x) /\ NotesFor(x)
    BY <1>1 DEF DocInv, BillInv, NoteInv
  <2>2. SupplyInvoiced
    BY <2>1, BilledSupply DEF BillOf
  <2>3. RefundsNoted
    BY <2>1 DEF NotesFor, Unnoted, RefundsNoted
  <2> QED BY <2>2, <2>3 DEF Documented
<1> QED BY <1>1, DocInvariant, PTL

(* However many part refunds come before, and whichever notes fail or are  *)
(* backfilled after, a cancellation note squares the invoice exactly; an   *)
(* order without one is never credited more than its total.                *)
THEOREM CancellationsSquare == DocSpec => []CancellationSquares
<1>1. DocInv => CancellationSquares
  BY SquaresUp, DocTypeParts DEF DocInv
<1> QED BY <1>1, DocInvariant, PTL

(* The number and the place of supply of an issued invoice stand: no later *)
(* capture, PATCH, repair command or purge writes the Invoice row again,   *)
(* and none deletes its order.                                             *)
THEOREM InvoicesAreKept == DocSpec => InvoiceKept
<1> DEFINE Keeps == \A o \in Orders : Invoiced(o) => invoice'[o] = invoice[o] /\ order'[o].status # "absent"
<1>1. ASSUME DocInv, DocInv', DocNext PROVE Keeps
  <2>1. \A o \in Orders : Invoiced(o) => invoice'[o] = invoice[o] /\ Invoiced(o)'
    BY <1>1, PaperStays DEF DocInv
  <2>2. \A o \in Orders : Invoiced(o)' => order'[o].status # "absent"
    BY <1>1 DEF DocInv, BillInv, BillOf, Placed
  <2> QED BY <2>1, <2>2
<1>2. DocInv /\ DocInv' /\ [DocNext]_<<vars, docs>> => [Keeps]_<<vars, docs>>
  BY <1>1
<1> QED BY <1>2, DocInvariant, PTL DEF DocSpec, InvoiceKept

(* With the purge of the Recycle Bin too, an order that reads paid or      *)
(* refunded has the money behind it: the rows the purge deletes with an    *)
(* order back no other order.                                              *)
THEOREM MoneyOutlivesPurge == ASSUME PlainEdits PROVE DocSpec => []MoneyBacked
<1>1. ASSUME TypeInv, TypeInv', DocTypeOK, BooksInv, DocNext PROVE BooksInv'
  <2>1. CASE [Next]_vars
    BY <1>1, <2>1, BookSteps, BooksStep DEF BooksInv, BookBase
  <2>2. ASSUME NEW o \in Orders, Deletes(o) PROVE BooksInv'
    BY <1>1, <2>2, DeleteBooks DEF Deletes
  <2> QED BY <1>1, <2>1, <2>2, DocStepIs DEF DocTypeOK
<1>2. ASSUME TypeInv, TypeInv', BooksInv, UNCHANGED <<vars, docs>> PROVE BooksInv'
  BY <1>2, BookSteps, BooksStep DEF BooksInv, BookBase
<1>3. DocInv /\ DocInv' /\ BooksInv /\ [DocNext]_<<vars, docs>> => BooksInv'
  BY <1>1, <1>2 DEF DocInv
<1>4. DocInit => BooksInv
  BY BooksInit DEF DocInit
<1>5. BooksInv => MoneyBacked
  BY DEF BooksInv, PaidSold, RefundsBacked, MoneyBacked, PaidMoneyExists, Backed, MoneyIn
<1> QED
  BY <1>3, <1>4, <1>5, DocInvariant, PTL DEF DocSpec

=============================================================================
