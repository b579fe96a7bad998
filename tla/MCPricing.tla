------------------------------ MODULE MCPricing ------------------------------
EXTENDS Documents

Papad == 1
Masala == 2
Box == 11
TwoGoods == {Papad, Masala}

Shelf(papad, masala, box) ==
  [mrp |-> [g \in TwoGoods |-> IF g = Papad THEN papad ELSE masala],
   offer |-> [i \in {Papad, Masala, Box} |-> IF i = Box THEN box ELSE 0],
   rate |-> [g \in TwoGoods |-> IF g = Papad THEN 0 ELSE 5],
   hsn |-> [g \in TwoGoods |-> IF g = Papad THEN "1905" ELSE ""],
   recipe |-> [c \in {Box} |-> [g \in TwoGoods |-> IF g = Papad THEN 2 ELSE 1]]]
TwoShelves == {Shelf(105, 333, 0), Shelf(100, 200, 333)}

Cart(papad, masala, box) ==
  [i \in {Papad, Masala, Box} |-> CASE i = Papad -> papad [] i = Masala -> masala [] i = Box -> box]
ThreeCarts == {Cart(3, 0, 0), Cart(1, 0, 3), Cart(0, 2, 2)}
FourCoupons == {NoCoupon, [kind |-> "percent", value |-> 15, minimum |-> 0],
                [kind |-> "fixed", value |-> 100, minimum |-> 300], [kind |-> "fixed", value |-> 1000, minimum |-> 0]}
BoxOfOne == {[g \in TwoGoods |-> IF g = Papad THEN 1 ELSE 0], [g \in TwoGoods |-> 0]}
=============================================================================
