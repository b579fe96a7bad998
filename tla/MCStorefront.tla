---------------------------- MODULE MCStorefront ----------------------------
(***************************************************************************)
(* Storefront on a small shop: two products and three slugs, three reviews *)
(* for a strip of two.                                                     *)
(***************************************************************************)
EXTENDS Storefront, TLC

CONSTANTS p1, p2, s1, s2, s3, e1, h1, h2

MCProducts == {p1, p2}
MCSlugs    == {s1, s2, s3}
MCEditors  == {e1}
MCHands    == {h1, h2}
MCSymmetry == Permutations(MCProducts) \cup Permutations(MCSlugs) \cup Permutations(MCHands)
=============================================================================
