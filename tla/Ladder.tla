-------------------------------- MODULE Ladder --------------------------------
(***************************************************************************)
(* The basket arithmetic that the live service, the backtest and the       *)
(* forecast share: TradingCycle (botdca/domain.py) and DcaStrategy         *)
(* (botdca/strategy.py).                                                   *)
(*                                                                         *)
(* Prices are whole ticks, and quantities whole units, of which Lot make a *)
(* step of the exchange: the product of a quantity and a multiplier is     *)
(* taken down to the unit, and only an order is rounded to steps.  The     *)
(* ratios of a ladder are counted in Whole-ths: with Whole = 10000, the    *)
(* first step of DEFAULT_DCA_STEPS (domain.py:33), 1.05 percent and 1.339, *)
(* is a drop of 105 and a multiplier of 13390.  A threshold that falls     *)
(* between two ticks is taken as the order plan rounds it (order_plan.py,  *)
(* instruments.py): a DCA trigger down, a take profit up.  The engine      *)
(* (backtest.py:263, 284) and evaluate_next_dca (risk.py:85) compute with  *)
(* the threshold itself.                                                   *)
(***************************************************************************)
EXTENDS Instruments, Sequences, FiniteSetsExt

CONSTANTS
  Whole,     \* what drops, multipliers and the take profit are parts of
  Steps,     \* the ladder: the drop and the multiplier of each DCA
  MaxLive,   \* max_live_dca_level: deeper steps are for research only
  TpPercent, \* tp_percent: the take profit above the average entry
  MaxMargin, \* max_strategy_margin_usdt; margins are counted as their notional,
             \* a tick times a unit
  MinAvailable, ReservePercent \* of an account, what a DCA must leave

ASSUME LadderAssumption ==
  /\ Whole \in Nat \ {0} /\ Grain > Whole
  \* StrategyVersion: a multiplier is greater than 1.
  /\ Steps \in Seq([drop : 1 .. Whole - 1, multiplier : {m \in Nat : m > Whole}])
  /\ MaxLive \in 0 .. Len(Steps)
  /\ TpPercent \in Nat \ {0}
  /\ {MaxMargin, MinAvailable, ReservePercent} \subseteq Nat

\* DcaTriggerReference
References == {"weighted-average", "previous-fill", "initial-entry"}

\* A fill keeps its cost, price times quantity: the fill that stands for a
\* restored position has an average price, which need not be a whole tick.
Fill(price, qty) == [cost |-> price * qty, qty |-> qty]

\* Of a cycle whose fills show its level and last order quantity.
NoOverride == [level |-> -1, last |-> 0]

\* TradingCycle
Cycle(fills, override) == [fills |-> fills, override |-> override]

NoCycle == Cycle(<<>>, NoOverride)

Cost(c) == MapThenSumSet(LAMBDA i : c.fills[i].cost, DOMAIN c.fills)

TotalQty(c) == MapThenSumSet(LAMBDA i : c.fills[i].qty, DOMAIN c.fills)

DcaLevel(c) == IF c.override = NoOverride THEN Len(c.fills) - 1
               ELSE c.override.level

LastOrderQty(c) == IF c.override = NoOverride THEN c.fills[Len(c.fills)].qty
                   ELSE c.override.last

\* The ladder is exhausted: no trigger, no quantity.
AtMax(c) == DcaLevel(c) >= MaxLive

\* tp_price of the average entry, rounded up.
TpPrice(c) == Increments(Cost(c) * (Whole + TpPercent), TotalQty(c) * Whole, TRUE)

\* _next_dca_reference_price, as a cost and the quantity to divide it by.
ReferenceFill(c, reference) ==
  CASE reference = "weighted-average" -> [cost |-> Cost(c), qty |-> TotalQty(c)]
    [] reference = "previous-fill" -> c.fills[Len(c.fills)]
    [] reference = "initial-entry" -> c.fills[1]

\* next_dca_trigger_price, rounded down.
Trigger(c, reference) ==
  LET base == ReferenceFill(c, reference)
  IN  Increments(base.cost * (Whole - Steps[DcaLevel(c) + 1].drop), base.qty * Whole,
                 FALSE)

\* next_dca_qty
NextQty(c) == (LastOrderQty(c) * Steps[DcaLevel(c) + 1].multiplier) \div Whole

\* begin_cycle
Begun(price, qty) == Cycle(<<Fill(price, qty)>>, NoOverride)

\* apply_dca_fill
WithDca(c, price, qty) ==
  Cycle(Append(c.fills, Fill(price, qty)),
        IF c.override = NoOverride THEN NoOverride
        ELSE [level |-> c.override.level + 1, last |-> qty])

\* One fill for a position of whole steps, at its average entry as the exchange
\* gives it: to a Lot-th of a tick, which it may have rounded either way.
AverageFill(c, up) ==
  [cost |-> Rounded(Cost(c) * Lot, TotalQty(c), up) * (TotalQty(c) \div Lot),
   qty |-> TotalQty(c)]

\* Mutant: the whole position is taken for its last order.
RestoredWithTotal(c, up) ==
  Cycle(<<AverageFill(c, up)>>, [level |-> DcaLevel(c), last |-> TotalQty(c)])

\* restore_cycle, from what reconciliation knows of the basket: the position's
\* average entry and size, and the journal's level and last order quantity.
RestoredCycle(c, up) ==
  Cycle(<<AverageFill(c, up)>>, [level |-> DcaLevel(c), last |-> LastOrderQty(c)])

\* The quantity of a take profit in steps, when the sum of the fills has drifted
\* by as many Grain-ths of a step.
TpQty(c, drift) == Increments(TotalQty(c) * Grain + drift * Lot, Lot * Grain, FALSE)

\* The quantity of a DCA in steps, when its product has drifted.
DcaQty(c, drift) ==
  Increments(LastOrderQty(c) * Steps[DcaLevel(c) + 1].multiplier * Grain
               + drift * Lot * Whole,
             Lot * Whole * Grain, FALSE)

\* evaluate_next_dca, of a ladder with a step left: the margin of the strategy
\* and what the account keeps available bound the next DCA.
DcaAllowed(c, account) ==
  LET extra == Trigger(c, "weighted-average") * NextQty(c) IN
  /\ Cost(c) + extra <= MaxMargin
  /\ account.available - extra >= MinAvailable
  /\ 100 * (account.available - extra) >= ReservePercent * account.equity

Refused == [refused |-> TRUE]

NoDca == <<>>

\* build_resting_order_plan, which raises when either order is illegal, the take
\* profit's along with the DCA's; and without a DCA when none is left or allowed.
Plan(c, drift, account) ==
  LET tp == <<TpQty(c, drift), TpPrice(c)>>
      dca == IF AtMax(c) \/ ~DcaAllowed(c, account) THEN NoDca
             ELSE <<DcaQty(c, drift), Trigger(c, "weighted-average")>>
  IN IF ~Legal(tp[1], tp[2]) \/ (dca # NoDca /\ ~Legal(dca[1], dca[2])) THEN Refused
     ELSE [tp |-> tp, dca |-> dca]

\* What the DCA of a plan makes of a basket, at its limit.
Deepened(c, plan) ==
  IF plan = Refused \/ plan.dca = NoDca THEN c
  ELSE WithDca(c, plan.dca[2], plan.dca[1] * Lot)

\* The basket of the live service that begins with so many steps and takes every
\* DCA it plans, from the basket it restores before each one.
LiveBasket(price, steps, up, drift, account) ==
  LET basket[level \in 0 .. MaxLive] ==
        IF level = 0 THEN Begun(price, steps * Lot)
        ELSE Deepened(basket[level - 1],
                      Plan(RestoredCycle(basket[level - 1], up), drift, account))
  IN basket
===============================================================================
