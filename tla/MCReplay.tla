------------------------------- MODULE MCReplay -------------------------------
(* Candles that rise, fall, turn and gap; from an entry at 100 the take profit *)
(* and the triggers fall between and onto their points.  From an entry of two  *)
(* steps the DCAs are 2.8 and 4.2 steps unrounded; the live service makes them *)
(* 2, and of that 3.                                                           *)
EXTENDS Replay

MCSteps == <<[drop |-> 2, multiplier |-> 14], [drop |-> 1, multiplier |-> 15],
             [drop |-> 3, multiplier |-> 20]>>

Candle(o, h, l, c) == [open |-> o, high |-> h, low |-> l, close |-> c]

MCCandles ==
  {Candle(100, 100, 100, 100), Candle(100, 125, 75, 110), Candle(110, 110, 60, 60),
   Candle(60, 110, 60, 100), Candle(75, 100, 60, 75), Candle(60, 75, 40, 60),
   Candle(110, 125, 110, 125), Candle(100, 100, 40, 55)}

Config(order, base, wait, again, most) ==
  [path |-> order, reference |-> base, delay |-> wait, auto |-> again,
   maxCycles |-> most]

MCConfigs ==
  {Config("low-first", "weighted-average", 0, TRUE, 0),
   Config("high-first", "weighted-average", 2, TRUE, 2),
   Config("high-first", "previous-fill", 0, TRUE, 2),
   Config("low-first", "initial-entry", 0, FALSE, 0)}

MCAccounts == {[available |-> 4500, equity |-> 5000], [available |-> 1500, equity |-> 5000]}

MCForeign ==
  {[symbol |-> "HYPEUSDT", link |-> "manual", side |-> "Sell", fee |-> 1, realized |-> 5],
   [symbol |-> "BTCUSDT", link |-> "botdca-", side |-> "Sell", fee |-> -1, realized |-> 3]}

MCLog ==
  {[symbol |-> "", type |-> "DEPOSIT", cash |-> 7],
   [symbol |-> "BTCUSDT", type |-> "FUNDING", cash |-> 2],
   [symbol |-> "HYPEUSDT", type |-> "TRADE", cash |-> 4]}
===============================================================================
