------------------------------ MODULE MCCheckout ------------------------------
(***************************************************************************)
(* Checkout on small instances: one size, sold by itself or in a box that  *)
(* holds one or two of it.                                                 *)
(***************************************************************************)
EXTENDS Checkout, TLC

CONSTANTS tin, box, c1, q1, q2, o1, o2

Tins(n) == tin :> n

OneTin  == Tins(1)
TwoTins == Tins(2)
Boxes   == {OneTin, TwoTins}
BoxOfOne == box :> OneTin

OnlineOrFree == {<<"ONLINE", "none">>, <<"COD", "full">>}

Symmetric == Permutations(Requests) \cup Permutations(Orders)

=============================================================================
