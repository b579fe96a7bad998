---------------------------- MODULE MCTaxDocuments ----------------------------
(***************************************************************************)
(* TaxDocuments on small instances.                                        *)
(***************************************************************************)
EXTENDS TaxDocuments

CONSTANTS o1, o2, q1

OneOrder   == {o1}
TwoOrders  == {o1, o2}
OneRequest == {q1}

(***************************************************************************)
(* The bound of the run with two orders.  While both are placed they are   *)
(* cash orders with something to bill, the first is billed for its cash    *)
(* and the second for its dispatch, or either by the backfill, and nothing *)
(* is cancelled or refunded; the rest is explored on the first alone.      *)
(***************************************************************************)
Pair == \A o \in Orders : order[o].status # "absent"

PairIsCash ==
  IF Pair THEN /\ \A o \in Orders : /\ order[o].method = "COD" /\ order[o].total > 0
                                    /\ order[o].refunded = 0 /\ order[o].status # "cancelled"
               /\ order[o1].status # "shipped" /\ order[o2].pay # "paid"
               /\ patch = NoPatch
          ELSE /\ \A o \in Orders : ~order[o].deleted
               /\ order[o2].status # "absent" => purged = {o1}

=============================================================================
