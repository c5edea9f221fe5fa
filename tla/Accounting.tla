------------------------------ MODULE Accounting ------------------------------
(***************************************************************************)
(* Strategy accounting (botdca/accounting.py): persisted executions and    *)
(* the exchange's transaction log, folded into buckets per symbol.         *)
(***************************************************************************)
EXTENDS Integers, SequencesExt, FiniteSetsExt

CONSTANT Tracked \* the configured symbols

\* Rows without a symbol, and where their cash flows go.
NoSymbol == ""
Unknown == "UNKNOWN"

\* Types of transaction-log rows the fold knows.
FundingTypes == {"SETTLEMENT", "FUNDING"}
NonStrategyTypes == {"TRANSFER_IN", "TRANSFER_OUT", "DEPOSIT", "WITHDRAW", "AIRDROP"}

\* classify_order_link_id, of the prefix an order link identity has.
Role(link) == CASE link = "botdca-open-" -> "entry"
                [] link = "botdca-dca-" -> "dca"
                [] link \in {"botdca-tp-", "botdca-close-"} -> "close"
                [] link = "botdca-" -> "other_bot"
                [] OTHER -> "unattributed"

FeeRoles == {"entry", "dca", "close", "other_bot"}

\* SymbolAccounting
Empty == [realized |-> 0, entry |-> 0, dca |-> 0, close |-> 0, other_bot |-> 0,
          funding |-> 0, rebates |-> 0, unattributed |-> 0,
          buys |-> 0, sells |-> 0, strangers |-> 0]

\* for_symbol: a bucket is made when it is first asked for.
Of(accounting, symbol) ==
  IF symbol \in DOMAIN accounting THEN accounting[symbol] ELSE Empty

With(accounting, symbol, entry) ==
  [s \in DOMAIN accounting \union {symbol} |->
     IF s = symbol THEN entry ELSE accounting[s]]

\* Mutant: a rebate is booked as a negative fee too.
BookTwice(entry, row) ==
  IF Role(row.link) = "unattributed"
  THEN [entry EXCEPT !.unattributed = @ + row.realized - row.fee, !.strangers = @ + 1]
  ELSE [entry EXCEPT
          !.realized = @ + row.realized,
          !.buys = IF row.side = "Buy" THEN @ + 1 ELSE @,
          !.sells = IF row.side = "Sell" THEN @ + 1 ELSE @,
          !.rebates = IF row.fee < 0 THEN @ - row.fee ELSE @,
          ![Role(row.link)] = @ + row.fee]

\* What an execution adds to its symbol: a manual order's cash flow stays out of
\* the strategy, and a negative fee is a rebate.
Book(entry, row) ==
  IF Role(row.link) = "unattributed"
  THEN [entry EXCEPT !.unattributed = @ + row.realized - row.fee, !.strangers = @ + 1]
  ELSE [entry EXCEPT
          !.realized = @ + row.realized,
          !.buys = IF row.side = "Buy" THEN @ + 1 ELSE @,
          !.sells = IF row.side = "Sell" THEN @ + 1 ELSE @,
          !.rebates = IF row.fee < 0 THEN @ - row.fee ELSE @,
          ![Role(row.link)] = IF row.fee < 0 THEN @ ELSE @ + row.fee]

\* One row of accumulate_executions, which skips a row without a symbol.
WithExecution(accounting, row) ==
  IF row.symbol = NoSymbol THEN accounting
  ELSE With(accounting, row.symbol, Book(Of(accounting, row.symbol), row))

\* The symbol whose bucket a log row goes to.
Owner(row) == IF row.symbol = NoSymbol THEN Unknown ELSE row.symbol

\* One row of accumulate_transaction_log: trades are known from the executions,
\* and funding of symbols that are not tracked is someone else's.  A row's cash
\* is the amount the fold takes of it: cashFlow, and of a funding row its field
\* funding when that is not zero (accounting.py:218).
WithLogRow(accounting, row) ==
  LET entry == Of(accounting, Owner(row)) IN
  CASE row.type \in FundingTypes ->
         IF Tracked # {} /\ row.symbol \notin Tracked THEN accounting
         ELSE With(accounting, Owner(row), [entry EXCEPT !.funding = @ + row.cash])
    [] row.type \in NonStrategyTypes ->
         With(accounting, Owner(row), [entry EXCEPT !.unattributed = @ + row.cash])
    [] OTHER -> accounting

\* build_accounting
Accounted(executions, log) ==
  FoldLeft(WithLogRow,
           FoldLeft(WithExecution, [s \in Tracked |-> Empty], executions), log)

\* PortfolioAccounting.totals
Total(accounting) ==
  [f \in DOMAIN Empty |->
     MapThenSumSet(LAMBDA s : accounting[s][f], DOMAIN accounting)]

TotalFees(entry) == entry.entry + entry.dca + entry.close + entry.other_bot

\* net_pnl_usdt: the unattributed bucket is not in it.
NetPnl(entry) == entry.realized - TotalFees(entry) + entry.funding + entry.rebates
===============================================================================
