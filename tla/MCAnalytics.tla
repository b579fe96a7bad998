---------------------------- MODULE MCAnalytics -----------------------------
(***************************************************************************)
(* Analytics over two days: two orders of one customer, one of them made,  *)
(* searches from two devices, of which one finds nothing and has a source, *)
(* and a metric nobody counts.                                             *)
(***************************************************************************)
EXTENDS Analytics

CONSTANTS o1, o2, b1

MCOrders == {o1, o2}
MCBuyer  == [o \in MCOrders |-> b1]
MCBegun  == {o1}
MCVisits ==
  {[metric |-> "search", zero |-> TRUE, dims |-> {"", "mobile", "direct"}],
   [metric |-> "search", zero |-> FALSE, dims |-> {"", "desktop"}],
   [metric |-> "hover", zero |-> FALSE, dims |-> {"", "mobile"}]}
=============================================================================
