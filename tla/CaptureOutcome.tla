---------------------------- MODULE CaptureOutcome ----------------------------
(***************************************************************************)
(* What the payments app promises about the money Razorpay takes, with no  *)
(* orders, rows, locks or messages in sight: each capture gets one outcome *)
(* and keeps it.  It is either sold, its order being confirmed and paid,   *)
(* or flagged, on the exceptions queue for a refund; and it does not stay  *)
(* in between.                                                             *)
(***************************************************************************)
CONSTANT Captures   (* What may be captured: the Razorpay orders.          *)

VARIABLE outcome

Init == outcome = [r \in Captures |-> "none"]

Receive(r) ==
  /\ outcome[r] = "none"
  /\ outcome' = [outcome EXCEPT ![r] = "received"]

Settle(r, result) ==
  /\ outcome[r] = "received"
  /\ outcome' = [outcome EXCEPT ![r] = result]

Next == \E r \in Captures : \/ Receive(r)
                            \/ \E result \in {"sold", "flagged"} : Settle(r, result)

Fairness ==
  \A r \in Captures :
    WF_outcome(\E result \in {"sold", "flagged"} : Settle(r, result))

SafeSpec == Init /\ [][Next]_outcome

Spec == SafeSpec /\ Fairness
=============================================================================
