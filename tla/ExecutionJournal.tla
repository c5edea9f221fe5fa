--------------------------- MODULE ExecutionJournal ---------------------------
(***************************************************************************)
(* The durable execution journal (botdca/persistence.py) as pure           *)
(* operators.  The executions of one symbol are a sequence in exchange     *)
(* order; the journal is the set of positions of that sequence which have  *)
(* reached the database.  Rows are keyed by execution id, so a set says    *)
(* exactly what deduplication leaves, and the two queries below sort by    *)
(* execution time, so arrival order is forgotten, as in the code.          *)
(* The executions are taken to have distinct times, or ids in exchange     *)
(* order: the code orders those of one millisecond by id, an order of its  *)
(* own that is not modelled.                                               *)
(***************************************************************************)
EXTENDS Integers, Sequences, FiniteSets

\* order 0 is an order this bot did not place (no "botdca-" client identity).
Manual == 0
Execution == [side : {"Buy", "Sell"}, qty : Nat \ {0}, order : Nat]

\* record_execution: a row already present is not written twice.
RecordExecution(journal, i) == journal \cup {i}

\* The loop of open_cycle_execution_summary, one row: Buys open, Sells reduce,
\* and a Sell of the rest or more closes.
NetWith(net, e) ==
  IF e.side = "Buy" THEN net + e.qty
  ELSE IF net - e.qty <= 0 THEN 0
  ELSE net - e.qty

\* net_qty after each execution, those not journaled being skipped.
NetQty(execs, journal) ==
  LET net[i \in 0 .. Len(execs)] ==
        IF i = 0 THEN 0
        ELSE IF i \in journal THEN NetWith(net[i - 1], execs[i])
        ELSE net[i - 1]
  IN  net

OpenNet(execs, journal) == NetQty(execs, journal)[Len(execs)]

\* Mutant: a Sell of exactly the rest does not close.
ClosesBelowZero(execs, net, i) ==
  execs[i].side = "Sell" /\ net[i - 1] - execs[i].qty < 0

\* Execution i is where the loop forgets the rows so far.
Closes(execs, net, i) ==
  execs[i].side = "Sell" /\ net[i - 1] - execs[i].qty <= 0

\* The Buy rows still open at the end of the loop.
OpenRows(execs, journal) ==
  LET net == NetQty(execs, journal) IN
  {i \in journal : /\ execs[i].side = "Buy"
                   /\ \A j \in journal : j > i => ~Closes(execs, net, j)}

\* Do not automatically take ownership of a manually opened basket.
Owned(execs, rows) == \A i \in rows : execs[i].order # Manual

OrdersOf(execs, rows) == {execs[i].order : i \in rows}

\* dca_level: distinct orders behind the open rows, less the initial entry.
LevelOf(execs, rows) ==
  LET count == Cardinality(OrdersOf(execs, rows))
  IN  IF count = 0 THEN 0 ELSE count - 1

FirstRow(execs, rows, o) ==
  CHOOSE i \in rows : /\ execs[i].order = o
                      /\ \A j \in rows : execs[j].order = o => i <= j

\* The order whose first open row is the latest one (order_sequence[-1]).
LastOrder(execs, rows) ==
  CHOOSE o \in OrdersOf(execs, rows) :
    \A p \in OrdersOf(execs, rows) :
      FirstRow(execs, rows, p) <= FirstRow(execs, rows, o)

\* The quantity of a set of executions, counted unit by unit.
TotalQty(execs, rows) ==
  Cardinality(UNION {{i} \X (1 .. execs[i].qty) : i \in rows})

LastOrderQty(execs, rows) ==
  TotalQty(execs, {i \in rows : execs[i].order = LastOrder(execs, rows)})

\* Mutant: any execution starts a new generation.
LatestExecution(execs, journal) == {i \in journal : \A j \in journal : j <= i}

\* entry_generation: the latest journaled Sell, the empty set for "initial".
EntryGeneration(execs, journal) ==
  LET sells == {i \in journal : execs[i].side = "Sell"}
  IN  {i \in sells : \A j \in sells : j <= i}
===============================================================================
