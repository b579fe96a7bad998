--------------------------- MODULE MCOrderPayments ---------------------------
(***************************************************************************)
(* OrderPayments on small instances.  The orders of one customer are alike *)
(* until they are placed, and so are the requests in flight; the instances *)
(* that check safety are reduced by that symmetry.                         *)
(***************************************************************************)
EXTENDS OrderPayments, TLC

CONSTANTS o1, o2, q1, q2

OneOrder    == {o1}
TwoOrders   == {o1, o2}
OneRequest  == {q1}
TwoRequests == {q1, q2}

Symmetric == Permutations(Orders) \cup Permutations(Requests)

(***************************************************************************)
(* The bound of the run with two orders.  While both are placed, the older *)
(* is superseded, paid or binned; what needs one order only (declined      *)
(* attempts, staff's statuses, a second request) is explored on that one,  *)
(* and a capture short of the total on an order with one Razorpay order.   *)
(***************************************************************************)
Pair == \A o \in Orders : order[o].status # "absent"

PairIsPlain ==
  IF Pair THEN /\ \A r \in RzpIds : ~razorpay[r].declined
               /\ \A o \in Orders : order[o].status \in {"pending", "confirmed", "cancelled"}
                                   /\ order[o].refunded = 0
               /\ \E q \in Requests : req[q].order = NoOrder
               /\ processed = acked
          ELSE \A o \in Orders : ~order[o].deleted

ShortIsAlone ==
  (\E r \in RzpIds : razorpay[r].captured = "short") => ~Pair /\ razorpay[2].order = NoOrder

=============================================================================
