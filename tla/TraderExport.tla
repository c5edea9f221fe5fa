----------------------------- MODULE TraderExport -----------------------------
(***************************************************************************)
(* A trader's exported rows grouped into closed cycles                     *)
(* (botdca/trader_export.py), the cycles split into regimes                *)
(* (historical_profile.py), and the greedy comparison of a replay with     *)
(* them.  A row is one order of a position; the position's average entry,  *)
(* and nearly its closing price and time, are on each of its rows.         *)
(***************************************************************************)
EXTENDS Integers, SequencesExt, FiniteSetsExt

CONSTANTS
  TimeTolerance,  \* close_time_tolerance
  PriceTolerance, \* close_price_tolerance_usdt
  Threshold,      \* change of a cycle's take profit that makes a regime
  CloseWindow     \* maximum_close_time_error

ASSUME TraderExportAssumption ==
  {TimeTolerance, PriceTolerance, Threshold, CloseWindow} \subseteq Nat

Apart(a, b) == IF a < b THEN b - a ELSE a - b

\* Rows of the same symbol, side, leverage and average entry.
Bucket(row) == <<row.leverage, row.entry>>

Close(row) == <<row.closed, row.price>>

Within(row, member) == /\ Apart(row.closed, member.closed) <= TimeTolerance
                       /\ Apart(row.price, member.price) <= PriceTolerance

\* Mutant: a fragment near one of the component's is enough.
FitsAny(row, component) == \E i \in DOMAIN component : Within(row, component[i])

Fits(row, component) == \A i \in DOMAIN component : Within(row, component[i])

\* No sequence of components: none of theirs is empty.
Ambiguous == << <<>> >>

\* A row joins the one component it fits.
Place(components, row) ==
  LET compatible == {i \in DOMAIN components : Fits(row, components[i])} IN
  IF components = Ambiguous \/ Cardinality(compatible) > 1 THEN Ambiguous
  ELSE IF compatible = {} THEN Append(components, <<row>>)
  ELSE LET i == CHOOSE i \in compatible : TRUE
       IN [components EXCEPT ![i] = Append(@, row)]

\* The order of a sort: by the first key, then by the second.
Before(a, b) == a[1] < b[1] \/ (a[1] = b[1] /\ a[2] < b[2])

\* sorted(): the positions I by their keys, those of equal keys as they stand.
InOrder(I, keys) ==
  LET earlier(i, j) == Before(keys[i], keys[j]) \/ (keys[i] = keys[j] /\ i < j)
      place(i) == Cardinality({j \in I : earlier(j, i)}) + 1
  IN [r \in 1 .. Cardinality(I) |-> CHOOSE i \in I : place(i) = r]

\* _close_components, of the rows at the positions of a bucket.
Components(rows, bucket) ==
  LET order == InOrder(bucket, [i \in DOMAIN rows |-> Close(rows[i])])
  IN FoldLeft(Place, <<>>, [r \in DOMAIN order |-> rows[order[r]]])

\* _group_close_fragments: for each bucket its components.
Grouped(rows) ==
  [b \in {Bucket(rows[i]) : i \in DOMAIN rows} |->
     Components(rows, {i \in DOMAIN rows : Bucket(rows[i]) = b})]

\* _build_cycle: the take profit in whole percent, of closes weighted by quantity.
TakeProfit(group) ==
  LET qty == MapThenSumSet(LAMBDA i : group[i].qty, DOMAIN group)
      proceeds == MapThenSumSet(LAMBDA i : group[i].price * group[i].qty, DOMAIN group)
  IN (100 * proceeds) \div (qty * group[1].entry) - 100

\* _build_cycle
BuiltCycle(group) ==
  [opened |-> Min({group[i].opened : i \in DOMAIN group}),
   closed |-> Max({group[i].closed : i \in DOMAIN group}),
   depth |-> Len(group) - 1, leverage |-> group[1].leverage, tp |-> TakeProfit(group)]

\* An export with rows has cycles.
Rejected == <<>>

Overlap(cycles) == \E i \in 2 .. Len(cycles) : cycles[i].opened < cycles[i - 1].closed

\* parse_trader_export, load_trader_cycles: the cycles by close and opening, if
\* the grouping is clear and no two of them overlap.
Cycles(rows) ==
  LET grouped == Grouped(rows)
      groups == UNION {ToSet(grouped[b]) : b \in DOMAIN grouped}
      built == [i \in 1 .. Cardinality(groups) |->
                  BuiltCycle(SetToSeq(groups)[i])]
      order == InOrder(DOMAIN built, [i \in DOMAIN built |->
                                        <<built[i].closed, built[i].opened>>])
      sorted == [r \in DOMAIN order |-> built[order[r]]]
  IN IF (\E b \in DOMAIN grouped : grouped[b] = Ambiguous) \/ Overlap(sorted)
     THEN Rejected ELSE sorted

\* Twice the median of a sequence, so that it is a whole number.
TwiceMedian(values) ==
  LET order == InOrder(DOMAIN values, [i \in DOMAIN values |-> <<values[i], 0>>])
      lower == (Len(values) + 1) \div 2
  IN values[order[lower]] + values[order[Len(values) + 1 - lower]]

\* A regime ends with its leverage, or when the take profit moves away from its
\* median.
Split(runs, cycle) ==
  LET run == runs[Len(runs)]
      median == TwiceMedian([i \in DOMAIN run |-> run[i].tp])
  IN IF runs = <<>> \/ cycle.leverage # run[Len(run)].leverage
        \/ Apart(2 * cycle.tp, median) > 2 * Threshold
     THEN Append(runs, <<cycle>>)
     ELSE [runs EXCEPT ![Len(runs)] = Append(@, cycle)]

\* split_regimes
Regimes(cycles) == FoldLeft(Split, <<>>, cycles)

\* compare_replay_to_trader: each cycle takes the nearest close still available,
\* if that is near enough.
GreedyStep(state, cycle, simulated) ==
  LET apart(j) == Apart(simulated[j].closed, cycle.closed)
      nearest == Min({j \in state.available :
                        \A k \in state.available : apart(j) <= apart(k)})
  IN IF state.available = {} \/ apart(nearest) > CloseWindow THEN state
     ELSE [available |-> state.available \ {nearest}, matched |-> state.matched + 1]

GreedyMatched(actual, simulated) ==
  FoldLeft(LAMBDA state, cycle : GreedyStep(state, cycle, simulated),
           [available |-> DOMAIN simulated, matched |-> 0], actual).matched
===============================================================================
