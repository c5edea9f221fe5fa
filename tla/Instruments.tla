------------------------------ MODULE Instruments ------------------------------
(***************************************************************************)
(* What the exchange takes (botdca/instruments.py, sizing.py,              *)
(* order_plan.py): quantities in whole steps, prices in whole ticks, and   *)
(* the bounds on both.  The program computes both as sums and products of  *)
(* floats, which drift: a ratio within a Grain-th of a whole number is     *)
(* that number.  A quantity not yet rounded is counted in units, of which  *)
(* Lot make a step.                                                        *)
(***************************************************************************)
EXTENDS Integers

CONSTANTS
  Grain,       \* reciprocal of _RATIO_NOISE
  Lot,         \* units in a quantity step
  MinQty,      \* min_order_qty, in steps
  MaxQty,      \* max_market_order_qty
  MinNotional  \* min_notional_value

ASSUME InstrumentsAssumption ==
  /\ Grain \in Nat /\ Grain > 100
  /\ Lot \in Nat \ {0}
  /\ {MinQty, MaxQty, MinNotional} \subseteq Nat

Distance(a, b) == IF a < b THEN b - a ELSE a - b

\* The ratio a over b rounded as it comes.  Mutant: that is all _increments does.
Rounded(a, b, up) == IF up THEN -((-a) \div b) ELSE a \div b

\* _increments of the ratio a over b, rounded up or down.
Increments(a, b, up) ==
  LET nearest == (2 * a + b) \div (2 * b) IN
  IF Distance(a, nearest * b) * Grain <= b THEN nearest
  ELSE IF up THEN -((-a) \div b) ELSE a \div b

\* floor_qty does not raise.
LegalQty(qty) == qty \in MinQty .. MaxQty

\* Nor does the check of the notional, of any order.
Legal(qty, price) == LegalQty(qty) /\ qty * price >= MinNotional

\* raw_initial_qty, in steps: a ratio of the allocation, a quantity in units or a
\* margin as the notional it pays for, in Grain-ths of a tick times a unit.
RawQty(allocation, price) ==
  IF allocation.mode = "margin" THEN <<allocation.value, price * Lot * Grain>>
  ELSE <<allocation.value, Lot>>

Unsized == 0

\* size_initial_order: the first order of a basket, or none.
InitialQty(allocation, price) ==
  LET raw == RawQty(allocation, price)
      qty == Increments(raw[1], raw[2], FALSE)
  IN IF Legal(qty, price) THEN qty ELSE Unsized
===============================================================================
