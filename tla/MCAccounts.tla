------------------------------ MODULE MCAccounts ------------------------------
(***************************************************************************)
(* Accounts on a small instance.  Requests are alike, and so are           *)
(* passwords and addresses.                                                *)
(***************************************************************************)
EXTENDS Accounts, TLC

CONSTANTS q1, q2, p1, p2, a1, a2

TwoRequests  == {q1, q2}
TwoPasswords == {p1, p2}
TwoAddresses == {a1, a2}

Symmetric == Permutations(TwoRequests) \cup Permutations(TwoPasswords)
               \cup Permutations(TwoAddresses)

=============================================================================
