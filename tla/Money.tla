------------------------------- MODULE Money -------------------------------
(* The arithmetic every bill of the shop goes through: orders/pricing.py, the *)
(* discount of a coupon and the split of a tax into its heads.                *)
(*                                                                            *)
(* Amounts are whole paise and rates whole percents, so nothing here is a     *)
(* Decimal: what the code does with one is kept, its rounding to the paisa.   *)
(* quantize() rounds half to even unless it is told ROUND_HALF_UP, and the    *)
(* code does one in some places and the other in others.                      *)
EXTENDS Integers, FiniteSets, FiniteSetsExt, Functions

Total(f) == SumFunction(f)

\* n/d to the nearest paisa, for n >= 0 and d > 0.
HalfUp(n, d) == (2 * n + d) \div (2 * d)
HalfEven(n, d) ==
  LET q == n \div d  twice == 2 * (n % d)
  IN  IF twice > d \/ (twice = d /\ q % 2 = 1) THEN q + 1 ELSE q
\* A quotient that Decimal has cut to 28 digits before it is multiplied and
\* rounded: what lies exactly between two paise may fall either way.
Nearest(n, d) ==
  LET q == n \div d
  IN  {p \in {q, q + 1} : 2 * (p * d - n) <= d /\ 2 * (n - p * d) <= d}

----------------------------------------------------------------------------
(* Tax on top of a net amount, and the tax inside a gross one. *)
AddTax(net, rate) == HalfUp(net * rate, 100)
ExtractTax(gross, rate) == IF gross <= 0 THEN 0 ELSE HalfUp(gross * rate, 100 + rate)

\* What a coupon takes off an amount: never more than the amount.
DiscountFor(coupon, amount) ==
  CASE coupon.kind = "none"    -> 0
    [] coupon.kind = "fixed"   -> Min({coupon.value, amount})
    [] coupon.kind = "percent" -> HalfEven(amount * Min({coupon.value, 100}), 100)

\* The rate that would produce this tax out of this gross: for display.
BlendedRate(gross, tax) == IF gross <= tax THEN 0 ELSE HalfUp(tax * 100, gross - tax)

----------------------------------------------------------------------------
(* The split of a combo line over its components, by their share of the MRP.  *)
(* `weights` maps each component to price times count; an MRP of nothing is   *)
(* split evenly, and what rounding leaves goes to the largest component.      *)
Allocate(weights, amount) ==
  LET even    == [g \in DOMAIN weights |-> 1]
      share   == IF Total(weights) = 0 THEN even ELSE weights
      parts   == [g \in DOMAIN share |-> HalfUp(amount * share[g], Total(share))]
      biggest == CHOOSE g \in DOMAIN share :
                   \A h \in DOMAIN share : share[h] < share[g] \/ (share[h] = share[g] /\ g <= h)
  IN  IF amount <= 0 \/ DOMAIN weights = {} THEN <<>>
      ELSE [parts EXCEPT ![biggest] = @ + amount - Total(parts)]

(* The heads of a tax: IGST between states, else CGST and SGST, the odd paisa *)
(* of which goes to one of them.                                              *)
SplitGst(tax, interstate) ==
  LET half == HalfUp(tax, 2)
  IN  IF interstate THEN [cgst |-> 0, sgst |-> 0, igst |-> tax]
      ELSE [cgst |-> half, sgst |-> tax - half, igst |-> 0]

Heads(row) == row.cgst + row.sgst + row.igst
=============================================================================
