-------------------------------- MODULE Replay --------------------------------
(***************************************************************************)
(* The backtest engine (botdca/backtest.py): candles traversed segment by  *)
(* segment, with a fill at every threshold inside a segment, and the book  *)
(* kept of equity, fees and funding.  Its fills also make the executions   *)
(* that the accounting of a live account would fold.                       *)
(*                                                                         *)
(* Money is counted so that a tick times a unit of quantity is Scale of    *)
(* it, and a fee is a whole number.                                        *)
(***************************************************************************)
EXTENDS Forecast, Accounting

CONSTANTS
  Candles,    \* open, high, low and close of the candles that occur
  Configs,    \* engine configurations
  EntryQty,   \* FIXED_BASE_QUANTITY of the initial allocation, in units
  Scale,      \* money of one tick times one unit
  FeeRate,    \* taker_fee_rate, in money of the same
  Payments,   \* what the funding model may charge per unit held
  ForeignExecutions, \* executions of the account that the ladder did not cause
  Accounts,   \* balances the account may have when a plan is made
  LogRows,    \* rows of the exchange's transaction log
  MaxCandles, \* bound: candles
  MaxRows     \* bound: foreign executions and log rows

ASSUME ReplayAssumption ==
  /\ Candles \subseteq [open : Nat, high : Nat, low : Nat, close : Nat]
  /\ \A c \in Candles : c.low <= c.open /\ c.low <= c.close /\ 0 < c.low
                        /\ c.open <= c.high /\ c.close <= c.high
  /\ Configs \subseteq [path : {"low-first", "high-first"}, reference : References,
                        delay : Nat, auto : BOOLEAN, maxCycles : Nat]
  /\ {EntryQty, Scale} \subseteq Nat \ {0} /\ FeeRate \in Nat
  /\ 0 \in Payments /\ Payments \subseteq Int
  /\ {MaxCandles, MaxRows} \subseteq Nat
  /\ Accounts \subseteq [available : Int, equity : Int]
  /\ "HYPEUSDT" \in Tracked /\ IsFiniteSet(Tracked)
  /\ ForeignExecutions \subseteq [symbol : STRING, link : STRING, side : STRING,
                                  fee : Int, realized : Int]
  /\ \A row \in ForeignExecutions :
       row.symbol = "HYPEUSDT" => Role(row.link) = "unattributed"
  /\ LogRows \subseteq [symbol : STRING, type : STRING, cash : Int]
  /\ \A row \in LogRows : row.symbol = "HYPEUSDT" => row.type \notin FundingTypes

VARIABLES
  config,    \* of the engine
  now,       \* start of the candle in hand; candles start one unit apart or more
  price,     \* _last_price, and where a segment has got to
  start,     \* where the segment in hand started
  path,      \* the points of the candle still to reach
  cycle,     \* strategy.current_cycle
  opened,    \* _current_opened_ms
  book,      \* the running figures
  replays,   \* _cycles
  eligible,  \* _next_entry_eligible_ms
  stopped,   \* _stopped
  rows,      \* observation: executions the account has
  log,       \* observation: its transaction log
  marks,     \* observation: every equity marked, and when
  behind     \* observation: thresholds the price is beyond without a fill

vars == <<config, now, price, start, path, cycle, opened, book, replays, eligible,
          stopped, rows, log, marks, behind>>

-----------------------------------------------------------------------------
(* The book *)

Never == -1

Held(c) == c # NoCycle

Fee(cost) == cost * FeeRate

\* What the cycle's fills gain at a price, before fees.
Gross(c, p) == Scale * (p * TotalQty(c) - Cost(c))

\* _estimated_exit_fee, which is also what a close at this price pays.
ExitFee(c, p) == Fee(p * TotalQty(c))

\* _current_unrealized_net
Unrealized(b, c, p) ==
  IF Held(c) THEN Gross(c, p) - b.openFees - ExitFee(c, p) ELSE 0

Equity(b, c, p) == b.net - b.funding + Unrealized(b, c, p)

MaxOf(a, b) == IF a > b THEN a ELSE b
MinOf(a, b) == IF a < b THEN a ELSE b

\* _mark_position_risk: the cycle's excursions, in money, and notional.
AtRisk(b, c, p) ==
  IF ~Held(c) THEN b
  ELSE [b EXCEPT !.notional = MaxOf(@, p * TotalQty(c)),
                 !.maxNotional = MaxOf(@, p * TotalQty(c)),
                 !.adverse = MaxOf(@, -Gross(c, p)),
                 !.favorable = MaxOf(@, Gross(c, p))]

\* _mark_equity: a new peak ends the time under water.
Mark(b, c, p, t) ==
  LET equity == Equity(b, c, p)
      recovered == equity >= b.peak /\ b.underwater # Never
  IN AtRisk([b EXCEPT
        !.peak = MaxOf(@, equity),
        !.recoveries = IF recovered THEN Append(@, t - b.underwater) ELSE @,
        !.underwater = IF equity >= b.peak THEN Never
                       ELSE IF @ = Never THEN t ELSE @,
        !.drawdown = MaxOf(@, MaxOf(b.peak, equity) - equity),
        !.worst = MinOf(@, Unrealized(b, c, p))], c, p)

\* What a mark has seen, for the record.
Seen(b, c, p, t) ==
  [equity |-> Equity(b, c, p), floating |-> Unrealized(b, c, p), at |-> t,
   gross |-> IF Held(c) THEN Gross(c, p) ELSE 0, notional |-> p * TotalQty(c),
   cycle |-> Len(replays)]

\* The book after a fill that adds to the cycle c: fees and deployed margin, the
\* latter as its notional.
Bought(b, c) ==
  LET cost == c.fills[Len(c.fills)].cost IN
  [b EXCEPT !.openFees = @ + Fee(cost), !.entryFees = @ + Fee(cost),
            !.deployed = @ + cost, !.maxDeployed = MaxOf(@, b.deployed + cost),
            !.maxLevel = MaxOf(@, DcaLevel(c))]

\* Mutant: a cycle begins with the excursions of the one before.
OpenedKeeping(b, c) == Bought(b, c)

\* _open_cycle: the cycle's own figures start over.
Opened(b, c) ==
  [Bought(b, c) EXCEPT !.notional = 0, !.adverse = 0, !.favorable = 0]

\* Mutant: the fees of the fills of one cycle are carried into the next.
ClosedKeepingFees(b, c, p) ==
  LET net == Gross(c, p) - b.openFees - ExitFee(c, p) IN
  [b EXCEPT !.gross = @ + Gross(c, p), !.fees = @ + b.openFees + ExitFee(c, p),
            !.exitFees = @ + ExitFee(c, p), !.net = @ + net,
            !.peak = MaxOf(@, b.net + net - b.funding), !.deployed = 0]

\* _close_cycle
Closed(b, c, p) ==
  LET net == Gross(c, p) - b.openFees - ExitFee(c, p) IN
  [b EXCEPT !.gross = @ + Gross(c, p), !.fees = @ + b.openFees + ExitFee(c, p),
            !.exitFees = @ + ExitFee(c, p), !.net = @ + net,
            !.peak = MaxOf(@, b.net + net - b.funding),
            !.openFees = 0, !.deployed = 0]

\* CycleReplay
Replayed(b, c, p) ==
  [opened |-> opened, closed |-> now, exit |-> p, entry |-> c.fills[1].cost \div EntryQty,
   gross |-> Gross(c, p), fees |-> b.openFees + ExitFee(c, p),
   net |-> Gross(c, p) - b.openFees - ExitFee(c, p),
   level |-> DcaLevel(c), deployed |-> b.deployed]

\* The executions of an account that trades as the engine does; the exchange
\* realizes the whole result with the close.
Execution(link, side, cost, realized) ==
  [symbol |-> "HYPEUSDT", link |-> link, side |-> side, fee |-> Fee(cost),
   realized |-> realized]

-----------------------------------------------------------------------------
(* _process_candle *)

Points(c) == IF config.path = "low-first" THEN <<c.open, c.low, c.high, c.close>>
             ELSE <<c.open, c.high, c.low, c.close>>

\* Thresholds of the cycle c that the price p is at or beyond.
Passed(c, p) ==
  IF ~Held(c) THEN {}
  ELSE {x \in {"tp", "dca"} :
          \/ x = "tp" /\ TpPrice(c) <= p
          \/ x = "dca" /\ ~AtMax(c) /\ Trigger(c, config.reference) >= p}

\* A candle starts, perhaps after a pause of the data; an open cycle pays
\* funding, a missing one is begun, or the candle is skipped.
NextCandle(c, t, payment) ==
  LET paid == IF Held(cycle) THEN [book EXCEPT !.funding = @ + payment * TotalQty(cycle)]
              ELSE book
      skip == ~Held(cycle) /\ ((~config.auto /\ replays # <<>>) \/ t < eligible)
      begun == IF Held(cycle) THEN cycle ELSE Begun(c.open, EntryQty)
      bought == IF Held(cycle) THEN paid ELSE Opened(paid, begun)
  IN
  /\ path = <<>> /\ ~stopped /\ now < t /\ t <= MaxCandles
  /\ Held(cycle) \/ payment = 0
  /\ now' = t
  /\ IF skip
     THEN UNCHANGED <<price, start, path, cycle, opened, book, rows, marks, behind>>
     ELSE /\ price' = c.open /\ start' = c.open /\ path' = Tail(Points(c))
          /\ cycle' = begun
          /\ opened' = IF Held(cycle) THEN opened ELSE t
          /\ book' = Mark(bought, begun, c.open, t)
          /\ marks' = Append(marks, Seen(bought, begun, c.open, t))
          /\ rows' = IF Held(cycle) THEN rows
                     ELSE Append(rows, Execution("botdca-open-", "Buy",
                                                 c.open * EntryQty, 0))
          /\ behind' = Passed(begun, c.open)
  /\ log' = IF Held(cycle) /\ payment # 0
            THEN Append(log, [symbol |-> "HYPEUSDT", type |-> "SETTLEMENT",
                              cash |-> -payment * TotalQty(cycle)])
            ELSE log
  /\ UNCHANGED <<config, replays, eligible, stopped>>

InSegment == path # <<>>
End == Head(path)
Rising == InSegment /\ End > start
Falling == InSegment /\ End < start

\* The take profit lies ahead in a rising segment.
TakesProfit == Rising /\ Held(cycle) /\ TpPrice(cycle) \in price .. End

\* Mutant: the threshold must lie strictly inside the segment.
FallsOnto == /\ Falling /\ Held(cycle) /\ ~AtMax(cycle)
             /\ Trigger(cycle, config.reference) \in (End + 1) .. price

\* The next trigger lies ahead in a falling segment.
Falls == /\ Falling /\ Held(cycle) /\ ~AtMax(cycle)
         /\ Trigger(cycle, config.reference) \in End .. price

\* Mutant: the delay counts from the entry of the closed cycle.
EligibleFromEntry == opened + config.delay

Eligible == now + config.delay

\* A close at the take profit: the engine stops, waits for a candle after the
\* delay, or begins the next cycle at the same price.
TakeProfit ==
  LET tp == TpPrice(cycle)
      marked == Mark(book, cycle, tp, now)
      closed == Closed(marked, cycle, tp)
      last == \/ config.maxCycles # 0 /\ Len(replays) + 1 >= config.maxCycles
              \/ ~config.auto
      again == ~last /\ config.delay = 0
      next == Begun(tp, EntryQty)
      close == Execution("botdca-tp-", "Sell", tp * TotalQty(cycle), Gross(cycle, tp))
  IN
  /\ TakesProfit
  /\ price' = tp
  /\ replays' = Append(replays, Replayed(marked, cycle, tp))
  /\ stopped' = last
  /\ eligible' = IF last THEN eligible ELSE Eligible
  /\ cycle' = IF again THEN next ELSE NoCycle
  /\ opened' = IF again THEN now ELSE Never
  /\ book' = IF again THEN Opened(closed, next) ELSE closed
  /\ rows' = Append(rows, close) \o
             (IF again THEN <<Execution("botdca-open-", "Buy", tp * EntryQty, 0)>>
              ELSE <<>>)
  /\ marks' = Append(marks, Seen(book, cycle, tp, now))
  /\ behind' = {}
  /\ UNCHANGED <<config, now, start, path, log>>

\* A DCA at its trigger, with a mark on either side of it.
AddDca ==
  LET trigger == Trigger(cycle, config.reference)
      deeper == WithDca(cycle, trigger, NextQty(cycle))
      before == Mark(book, cycle, trigger, now)
      bought == Bought(before, deeper)
  IN
  /\ Falls
  /\ price' = trigger
  /\ cycle' = deeper
  /\ book' = Mark(bought, deeper, trigger, now)
  /\ marks' = marks \o <<Seen(book, cycle, trigger, now), Seen(bought, deeper, trigger, now)>>
  /\ rows' = Append(rows, Execution("botdca-dca-", "Buy",
                                    deeper.fills[Len(deeper.fills)].cost, 0))
  /\ behind' = {x \in Passed(deeper, trigger) :
                  IF x = "tp" THEN x \in behind
                  ELSE Trigger(deeper, config.reference) > trigger}
  /\ UNCHANGED <<config, now, start, path, opened, replays, eligible, stopped, log>>

\* The rest of a segment; the equity is marked at its end.
EndSegment ==
  /\ InSegment /\ ~TakesProfit /\ ~Falls
  /\ price' = End /\ start' = End /\ path' = Tail(path)
  /\ book' = Mark(book, cycle, End, now)
  /\ marks' = Append(marks, Seen(book, cycle, End, now))
  /\ behind' = behind \intersect Passed(cycle, End)
  /\ UNCHANGED <<config, now, cycle, opened, replays, eligible, stopped, rows, log>>

\* run, after the last candle: BacktestResult.
LastTime == IF marks = <<>> THEN 0 ELSE marks[Len(marks)].at

Report ==
  LET ongoing == IF book.underwater = Never THEN 0 ELSE LastTime - book.underwater
  IN [fees |-> book.fees + book.openFees,
      unrealized |-> Unrealized(book, cycle, price),
      longestUnderwater |-> Max({ongoing} \union
        {book.recoveries[i] : i \in DOMAIN book.recoveries}),
      afterFunding |-> book.net - book.funding]

-----------------------------------------------------------------------------
(* The rest of the account *)

Foreign == Len(SelectSeq(rows, LAMBDA r : r \in ForeignExecutions))
             + Len(SelectSeq(log, LAMBDA r : r \in LogRows))

\* Executions of orders that are not the ladder's, and rows of the log.  Where
\* they stand among the others does not matter to a fold of sums: they come last.
Stranger ==
  /\ now = MaxCandles /\ path = <<>> /\ Foreign < MaxRows
  /\ \/ \E row \in ForeignExecutions : rows' = Append(rows, row) /\ log' = log
     \/ \E row \in LogRows : log' = Append(log, row) /\ rows' = rows
  /\ UNCHANGED <<config, now, price, start, path, cycle, opened, book, replays,
                 eligible, stopped, marks, behind>>

Init ==
  /\ config \in Configs
  /\ now = 0 /\ price = 0 /\ start = 0 /\ path = <<>>
  /\ cycle = NoCycle /\ opened = Never
  /\ book = [gross |-> 0, fees |-> 0, entryFees |-> 0, exitFees |-> 0, openFees |-> 0,
             net |-> 0, funding |-> 0, deployed |-> 0, maxDeployed |-> 0, maxLevel |-> 0,
             peak |-> 0, drawdown |-> 0, worst |-> 0, underwater |-> Never,
             recoveries |-> <<>>, notional |-> 0, maxNotional |-> 0, adverse |-> 0,
             favorable |-> 0]
  /\ replays = <<>> /\ eligible = 0 /\ stopped = FALSE
  /\ rows = <<>> /\ log = <<>> /\ marks = <<>> /\ behind = {}

Next ==
  \/ \E c \in Candles, t \in 1 .. MaxCandles, payment \in Payments :
       NextCandle(c, t, payment)
  \/ TakeProfit \/ AddDca \/ EndSegment \/ Stranger

Spec == Init /\ [][Next]_vars

-----------------------------------------------------------------------------
(* Properties *)

\* Accounting and engine agree on the strategy, whatever else the account does:
\* gross result, fees by role and funding; what the engine reports as paid fees
\* is what the cycles and the open cycle paid.
LedgerAgrees ==
  LET hype == Of(Accounted(rows, log), "HYPEUSDT")
      sum(f(_)) == MapThenSumSet(LAMBDA i : f(replays[i]), DOMAIN replays)
  IN
  /\ hype.realized = book.gross /\ hype.close = book.exitFees
  /\ hype.entry + hype.dca = book.entryFees
  /\ NetPnl(hype) = book.net - book.funding - book.openFees
  /\ Report.fees = book.entryFees + book.exitFees
  /\ book.gross = sum(LAMBDA r : r.gross) /\ book.net = sum(LAMBDA r : r.net)

\* Every cash flow of the account is in one bucket: the strategies' results and
\* the unattributed adjustments add up to it, but for funding of symbols that
\* are not tracked and log rows of other types (accounting.py: "preserved in an
\* explicit bucket rather than silently absorbed").  An execution without a
\* symbol is skipped by the fold (accounting.py:157): it counts for no flow here.
NothingLost ==
  LET total == Total(Accounted(rows, log))
      flow(row) == IF row.symbol = NoSymbol THEN 0 ELSE row.realized - row.fee
      kept == {i \in DOMAIN log :
                 \/ log[i].type \in NonStrategyTypes
                 \/ log[i].type \in FundingTypes /\ log[i].symbol \in Tracked}
  IN NetPnl(total) + total.unattributed =
       MapThenSumSet(LAMBDA i : flow(rows[i]), DOMAIN rows)
         + MapThenSumSet(LAMBDA i : log[i].cash, kept)

\* No threshold stays behind the price without a fill ("when a TP or DCA
\* threshold lies inside a segment, the engine fills at that threshold"), but
\* for one a candle opened beyond, and a DCA whose trigger lies above the fill
\* before it: those wait for the price to come back and cross them again.
NothingLeftBehind ==
  ~TakesProfit /\ ~Falls => Passed(cycle, price) \subseteq behind

\* The running figures are those of the whole record of marks: peak, drawdown,
\* when the time under water began and how long each one before it lasted, and
\* the excursions of the cycle in hand since its own entry.
EquityMeasured ==
  LET n == Len(marks)
      peak == [i \in 1 .. n |-> Max({0} \union {marks[j].equity : j \in 1 .. i})]
      under == {i \in 1 .. n : marks[i].equity < peak[i]}
      since(i) == marks[1 + Max({0} \union {j \in 1 .. i : j \notin under})].at
      ends == {i \in 2 .. n : i - 1 \in under /\ i \notin under}
      own == {marks[i].gross : i \in {j \in 1 .. n : marks[j].cycle = Len(replays)}}
  IN
  marks # <<>> =>
    /\ book.peak = peak[n]
    /\ book.drawdown = Max({peak[i] - marks[i].equity : i \in 1 .. n})
    /\ book.worst = Min({0} \union {marks[i].floating : i \in 1 .. n})
    /\ book.maxNotional = Max({marks[i].notional : i \in 1 .. n})
    /\ book.underwater = IF n \in under THEN since(n) ELSE Never
    /\ Len(book.recoveries) = Cardinality(ends)
    /\ \A i \in ends :
         book.recoveries[Cardinality({j \in ends : j <= i})]
           = marks[i].at - since(i - 1)
    /\ Held(cycle) => /\ book.adverse = Max({0} \union {-g : g \in own})
                      /\ book.favorable = Max({0} \union own)
    /\ path = <<>> =>
         /\ Report.unrealized + Report.afterFunding = marks[n].equity
         /\ Report.longestUnderwater = Max({0} \union
              {marks[IF i + 1 \in 1 .. n THEN i + 1 ELSE i].at - since(i) : i \in under})

\* The basket in hand, and all baskets so far, as a forecast sees them.
Basket == [entry |-> cycle.fills[1].cost \div EntryQty, level |-> DcaLevel(cycle),
           deployed |-> book.deployed]

Baskets == {replays[i] : i \in DOMAIN replays}
             \union (IF Held(cycle) THEN {Basket} ELSE {})

\* The forecast is what the engine deploys when triggers follow the weighted
\* average, and never less when they follow the previous fill; baskets of
\* several symbols together stay within the worst case, as every scenario does
\* that is no deeper, under stress too; and the stress of a basket's row is what
\* the engine loses on it at that price (forecast.py, strategy.py).
ForecastBounds ==
  config.reference # "initial-entry" =>
    /\ \A b \in Baskets :
         LET row == Rows(b.entry, EntryQty)[b.level] IN
         /\ b.deployed <= row.notional
         /\ config.reference = "weighted-average" => b.deployed = row.notional
    /\ LET forecasts == [b \in Baskets |-> Rows(b.entry, EntryQty)]
           worst == WorstCase(forecasts, MaxLive)
       IN /\ MapThenSumSet(LAMBDA b : b.deployed, Baskets) <= worst.notional
          /\ \A s \in Scenarios(forecasts, MaxLive) :
               ~s.exceeds => /\ s.notional <= worst.notional
                             /\ \A drop \in StressDrops :
                                  s.stress[drop].taken <= worst.stress[drop].taken
    /\ Held(cycle) /\ config.reference = "weighted-average" =>
         LET row == Rows(Basket.entry, EntryQty)[Basket.level] IN
         \A drop \in StressDrops :
           LET stressed == (Cost(cycle) * (100 - drop)) \div (100 * TotalQty(cycle)) IN
           100 * TotalQty(cycle) * stressed = Cost(cycle) * (100 - drop) =>
             100 * Gross(cycle, stressed) = Scale * Stress(row.notional, drop).floating

\* By how many Grain-ths of a step the sums of floats have drifted.
Drifts == -1 .. 1

\* The steps of the entry the live service makes where this cycle was entered.
EntryPrice == cycle.fills[1].cost \div EntryQty
EntrySteps == InitialQty([mode |-> "quantity", value |-> EntryQty], EntryPrice)

\* The live service makes this entry too; the rest follows from the entry's price,
\* so it is looked at while the engine's is at that price.
LiveEntry == /\ Held(cycle) /\ DcaLevel(cycle) = 0 /\ price = EntryPrice
             /\ EntrySteps # Unsized

\* The live baskets of this entry, level by level.
LiveBaskets(drift) ==
  {LiveBasket(EntryPrice, EntrySteps, up, drift, account) :
     up \in BOOLEAN, account \in Accounts}

\* A basket has no more than the row of the forecast at its level.
Within(c, row) == TotalQty(c) <= row.total /\ Cost(c) < row.notional + row.total

\* The live service, which rounds every DCA down to steps and goes on from the
\* rounded quantity and from the average entry the exchange rounds, deploys no
\* more than the forecast of the same entry, which rounds nothing: not in
\* quantity, and in notional by less than a tick a unit (forecast.py:88,
\* order_plan.py:124, reconciliation.py:55).
LiveWithinForecast ==
  LiveEntry =>
    \A forecast \in {Rows(EntryPrice, EntryQty)} :
      \A drift \in Drifts : \A live \in LiveBaskets(drift) : \A level \in DOMAIN live :
        Within(live[level], forecast[DcaLevel(live[level])])

\* A plan of a basket, if there is one, takes profit of all of it; there is none
\* only over its DCA.
CoveredBy(plan, c, drift) ==
  IF plan # Refused THEN plan.tp[1] * Lot = TotalQty(c)
  ELSE ~Legal(DcaQty(c, drift), Trigger(c, "weighted-average"))

\* A live basket whose whole forecast the exchange takes as one order can be
\* closed at every level: its take profit is legal and covers all of it
\* (instruments.py: "for a take profit that leaves part of the position
\* uncovered"), so that a plan fails only over its DCA; and the margin of its
\* entry buys the same quantity.
EveryBasketCovered ==
  LiveEntry /\ Rows(EntryPrice, EntryQty)[MaxLive].total <= MaxQty * Lot =>
    \A drift \in Drifts :
      /\ InitialQty([mode |-> "margin",
                     value |-> EntryQty * EntryPrice * Grain + drift * EntryPrice * Lot],
                    EntryPrice) = EntrySteps
      /\ \A live \in LiveBaskets(drift) : \A level \in DOMAIN live :
           \A c \in {RestoredCycle(live[level], up) : up \in BOOLEAN} :
             \A account \in Accounts : CoveredBy(Plan(c, drift, account), c, drift)

\* A step that begins a cycle, perhaps closing another.
Begins == Held(cycle') /\ (~Held(cycle) \/ replays' # replays)

\* A cycle begins only when the last one is closed and its delay is over, and
\* none begins once the engine has stopped.
ReentryWaits ==
  [][ Begins => /\ ~stopped'
                /\ config.maxCycles # 0 => Len(replays') < config.maxCycles
                /\ replays' # <<>> =>
                     config.auto /\ opened' - Last(replays').closed >= config.delay ]_vars
===============================================================================
