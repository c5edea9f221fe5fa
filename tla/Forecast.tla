------------------------------- MODULE Forecast -------------------------------
(***************************************************************************)
(* Margin forecasts (botdca/forecast.py): the ladder walked from a         *)
(* reference price, and the scenarios of several symbols.  Margin is       *)
(* notional over leverage, and the leverage is one constant of a strategy  *)
(* version: notional stands for it.                                        *)
(***************************************************************************)
EXTENDS Ladder

CONSTANTS
  UniformLevels, \* the depths of the combined scenarios
  StressDrops,   \* STRESS_DROPS, in percent
  Maintenance    \* maintenance_margin_rate, in thousandths

ASSUME ForecastAssumption ==
  /\ UniformLevels \subseteq Nat /\ IsFiniteSet(UniformLevels) /\ UniformLevels # {}
  /\ StressDrops \subseteq 0 .. 100 /\ Maintenance \in 0 .. 1000

Levels == 0 .. Len(Steps)

\* Mutant: every drop is taken from the reference price.
NextRowFromEntry(rows, level, price) ==
  LET row == rows[level - 1]
      fill == (price * (Whole - Steps[level].drop)) \div Whole
      qty == (row.qty * Steps[level].multiplier) \div Whole
  IN [price |-> fill, qty |-> qty, total |-> row.total + qty,
      notional |-> row.notional + fill * qty]

\* One step of forecast_symbol's loop: the drop is taken from the weighted
\* average of the rows so far.
NextRow(rows, level, price) ==
  LET row == rows[level - 1]
      fill == (row.notional * (Whole - Steps[level].drop)) \div (row.total * Whole)
      qty == (row.qty * Steps[level].multiplier) \div Whole
  IN [price |-> fill, qty |-> qty, total |-> row.total + qty,
      notional |-> row.notional + fill * qty]

\* forecast_symbol, from an initial quantity at a reference price.
Rows(price, qty) ==
  LET rows[level \in Levels] ==
        IF level = 0
        THEN [price |-> price, qty |-> qty, total |-> qty, notional |-> price * qty]
        ELSE NextRow(rows, level, price)
  IN rows

\* Deeper than any live basket.
ResearchOnly(level) == level > MaxLive

\* _stress: what a notional loses, in hundredths, when its price falls, and what
\* it then takes of the account's equity, with its maintenance margin.
Stress(notional, drop) ==
  LET after == notional * (100 - drop)
      floating == after - 100 * notional
  IN [floating |-> floating, taken |-> Maintenance * after - 1000 * floating]

\* build_scenario: forecasts gives each symbol's rows, levels its depth.
Scenario(forecasts, levels, cap) ==
  LET at(s) == forecasts[s][levels[s]]
      symbols == DOMAIN levels
      notional == MapThenSumSet(LAMBDA s : at(s).notional, symbols)
  IN [notional |-> notional,
      stress |-> [drop \in StressDrops |-> Stress(notional, drop)],
      qty |-> [s \in symbols |-> at(s).total],
      research |-> \E s \in symbols : ResearchOnly(levels[s]),
      exceeds |-> \E s \in symbols : levels[s] > cap]

Capped(level) == IF level < Len(Steps) THEN level ELSE Len(Steps)

\* portfolio_scenarios: every symbol at one depth, and one deep among shallow.
Scenarios(forecasts, cap) ==
  LET deep == Max(UniformLevels)
      shallow == Min(UniformLevels)
      uniform == {[s \in DOMAIN forecasts |-> Capped(level)] : level \in UniformLevels}
      mixed == {[s \in DOMAIN forecasts |-> Capped(IF s = one THEN deep ELSE shallow)] :
                  one \in DOMAIN forecasts}
  IN {Scenario(forecasts, levels, cap) : levels \in uniform \union mixed}

\* worst_case_scenario: every symbol at the deepest live level.
WorstCase(forecasts, cap) ==
  Scenario(forecasts, [s \in DOMAIN forecasts |-> Capped(cap)], cap)
===============================================================================
