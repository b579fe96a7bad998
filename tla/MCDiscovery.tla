---------------------------- MODULE MCDiscovery ------------------------------
(* A product of two sizes that is renamed, its combo, and two others, of   *)
(* which one is featured.  Its category bears a generic name, so of its    *)
(* own names the one of a single word gives no synonym.                    *)
EXTENDS Discovery

Words == {"saunf", "fennel", "mirch", "jeera", "spices", "kit", "whole", "sonf"}

(* Spellings of one thing are near to one another, and so are some words.  *)
Alike == {{"saunf", "fennel"}, {"mirch", "jeera"}, {"spices", "sonf"}}
MCLikeness == [q \in Words |-> [t \in Words |->
                 IF q = t THEN 100 ELSE IF {q, t} = {"saunf", "kit"} THEN 62 ELSE IF {q, t} \in Alike THEN 80 ELSE 20]]
MCBegins == {<<w, w>> : w \in Words} \cup {<<"whole", "saunf">>, <<"kit", "spices">>, <<"sonf", "whole">>}
MCTokens == [w \in Words |-> IF w = "fennel" THEN {"saunf"} ELSE {}]
MCNameOf == [t \in {-1, 5, 6} |-> CASE t = -1 -> "kit" [] t = 5 -> "mirch" [] OTHER -> "jeera"]
MCCategoryOf == [t \in {0, 5, 6} |-> IF t = 6 THEN "whole" ELSE "spices"]
MCTogether == [b \in {0, 5, 6} |-> [p \in {0, 5, 6} |-> IF b = p /\ p # 6 THEN 1 ELSE IF b + p = 5 THEN 2 ELSE 0]]
MCSlang == [n \in {"saunf", "fennel"} |-> {"sonf"}]
MCBoosts == [n \in {"saunf", "fennel"} |-> {}]
MCAsks  == {[item |-> 0, qty |-> 1], [item |-> 1, qty |-> 3], [item |-> 2, qty |-> 1], [item |-> -1, qty |-> 0]}
=============================================================================
