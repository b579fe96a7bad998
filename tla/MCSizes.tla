------------------------------ MODULE MCSizes ------------------------------
(***************************************************************************)
(* Sizes on a small instance: two staff requests are alike.                *)
(***************************************************************************)
EXTENDS Sizes, TLC

CONSTANTS q1, q2

TwoRequests == {q1, q2}

Symmetric == Permutations(Requests)

=============================================================================
