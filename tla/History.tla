------------------------------- MODULE History -------------------------------
(***************************************************************************)
(* The validation of a strategy against a trader's history                 *)
(* (botdca/historical_validation.py): the export is read row by row, its   *)
(* cycles are replayed one by one from their own openings, or regime by    *)
(* regime without interruption, and the closes of both are matched.        *)
(*                                                                         *)
(* What the engine replays in a window of candles is any sequence of       *)
(* closes in it: module Replay has the engine.                             *)
(***************************************************************************)
EXTENDS TraderExport

CONSTANTS
  ExportRows,  \* rows an export may have
  Minute,      \* time units of one candle
  Depths,      \* DCA levels a replayed cycle may have reached
  CloseTarget, \* target of the median close error
  MaxRows,     \* bound: rows of the export
  MaxReplayed  \* bound: closes of one replay

ASSUME HistoryAssumption ==
  /\ \A row \in ExportRows : /\ {row.opened, row.closed, row.price} \subseteq Int
                             /\ row.opened <= row.closed
  /\ {Minute, MaxRows} \subseteq Nat \ {0} /\ MaxReplayed \in Nat
  /\ Depths \subseteq Nat /\ CloseTarget \in Nat

VARIABLES
  rows,      \* of the export, as far as it is read
  mode,      \* "export", then "anchored" or "continuous", or "rejected"
  regimes,   \* still to evaluate
  actual,    \* cycles evaluated so far
  simulated, \* cycles replayed for them
  pairs,     \* matched indices of the two
  diagnosed, \* candidate_diagnostics: how many cycles have a reason instead
  evaluated  \* of a continuous evaluation: what each regime had on its own

vars == <<rows, mode, regimes, actual, simulated, pairs, diagnosed, evaluated>>

-----------------------------------------------------------------------------
(* Matching closes *)

Error(cycle, replayed) == Apart(cycle.closed, replayed.closed)

\* Mutant: of two matchings with as many pairs the first is kept.
BetterByCount(left, right) == left.n > right.n

Better(left, right) ==
  left.n > right.n \/ (left.n = right.n /\ left.error < right.error)

\* _ordered_close_matches: the best of the first i cycles and the first j closes,
\* which ends by leaving out one or the other, or by a pair.
OrderedMatches(cycles, closes) ==
  LET best[p \in (0 .. Len(cycles)) \X (0 .. Len(closes))] ==
        IF p[1] = 0 \/ p[2] = 0 THEN [n |-> 0, error |-> 0, pairs |-> <<>>]
        ELSE LET i == p[1]
                 j == p[2]
                 skipActual == best[<<i - 1, j>>]
                 skipSimulated == best[<<i, j - 1>>]
                 skip == IF Better(skipSimulated, skipActual) THEN skipSimulated
                         ELSE skipActual
                 error == Error(cycles[i], closes[j])
                 previous == best[<<i - 1, j - 1>>]
                 match == [n |-> previous.n + 1, error |-> previous.error + error,
                           pairs |-> Append(previous.pairs, <<i, j>>)]
             IN IF error <= CloseWindow /\ Better(match, skip) THEN match ELSE skip
  IN best[<<Len(cycles), Len(closes)>>].pairs

-----------------------------------------------------------------------------
(* Reading the export *)

ReadRow(row) ==
  /\ mode = "export" /\ Len(rows) < MaxRows
  /\ rows' = Append(rows, row)
  /\ UNCHANGED <<mode, regimes, actual, simulated, pairs, diagnosed, evaluated>>

\* The export is complete: its cycles, or an error.
Parse(kind) ==
  LET cycles == Cycles(rows) IN
  /\ mode = "export" /\ rows # <<>>
  /\ mode' = IF cycles = Rejected THEN "rejected" ELSE kind
  /\ regimes' = IF cycles = Rejected THEN <<>> ELSE Regimes(cycles)
  /\ rows' = <<>>
  /\ UNCHANGED <<actual, simulated, pairs, diagnosed, evaluated>>

-----------------------------------------------------------------------------
(* Evaluation *)

MinuteOf(time) == Minute * (time \div Minute)

\* Starts of the candles of a window, to which a replay quantizes a close.
Starts(opened, closed) ==
  {t \in MinuteOf(opened) .. MinuteOf(closed) + CloseWindow : t % Minute = 0}

ReplayedAt(t, depth) == [closed |-> t, depth |-> depth]

\* _validate_anchored, for one cycle: the candles are missing, the replay is
\* still open at their end, or it closes once.
Anchored ==
  LET cycle == regimes[1][1]
      rest == IF Len(regimes[1]) > 1 THEN <<Tail(regimes[1])>> \o Tail(regimes)
              ELSE Tail(regimes)
  IN
  /\ mode = "anchored" /\ regimes # <<>>
  /\ regimes' = rest /\ actual' = Append(actual, cycle)
  /\ \/ /\ diagnosed' = diagnosed + 1
        /\ UNCHANGED <<simulated, pairs>>
     \/ \E t \in Starts(cycle.opened, cycle.closed), depth \in Depths :
          LET candidate == ReplayedAt(t, depth)
              near == Error(cycle, candidate) <= CloseWindow
          IN /\ simulated' = Append(simulated, candidate)
             /\ pairs' = IF near THEN Append(pairs, <<Len(actual) + 1, Len(simulated) + 1>>)
                         ELSE pairs
             /\ diagnosed' = IF near THEN diagnosed ELSE diagnosed + 1
  /\ UNCHANGED <<rows, mode, evaluated>>

\* Sequences of closes that one replay of a window may have.
Replays(opened, closed) ==
  LET closes == {ReplayedAt(t, depth) : t \in Starts(opened, closed), depth \in Depths}
  IN {s \in UNION {[1 .. n -> closes] : n \in 0 .. MaxReplayed} :
        \A i \in 2 .. Len(s) : s[i - 1].closed <= s[i].closed}

\* Mutant: the offsets are taken after the lists have grown.
ShiftedLate(matches, run, replay) ==
  [k \in DOMAIN matches |-> <<Len(actual) + Len(run) + matches[k][1],
                              Len(simulated) + Len(replay) + matches[k][2]>>]

\* A regime's pairs among those of all regimes.
Shifted(matches, run, replay) ==
  [k \in DOMAIN matches |-> <<Len(actual) + matches[k][1],
                              Len(simulated) + matches[k][2]>>]

\* _validate_continuous, for one regime whose window holds a candle; on an empty
\* window run raises (backtest.py:173), and there is no report.
Continuous ==
  LET run == regimes[1] IN
  /\ mode = "continuous" /\ regimes # <<>>
  /\ \E replay \in Replays(run[1].opened, run[Len(run)].closed) :
       LET matches == OrderedMatches(run, replay) IN
       /\ evaluated' = Append(evaluated,
                              [actual |-> run, simulated |-> replay, pairs |-> matches])
       /\ pairs' = pairs \o Shifted(matches, run, replay)
       /\ simulated' = simulated \o replay
  /\ actual' = actual \o run /\ regimes' = Tail(regimes)
  /\ UNCHANGED <<rows, mode, diagnosed>>

\* _comparison_metrics, but for the price errors: rates in percent are kept as
\* the two numbers they are of.
Metrics(cycles, closes, matches) ==
  LET errors == [k \in DOMAIN matches |->
                   Error(cycles[matches[k][1]], closes[matches[k][2]])]
      exact == {k \in DOMAIN matches :
                  cycles[matches[k][1]].depth = closes[matches[k][2]].depth}
  IN [cycles |-> Len(cycles), matched |-> Len(matches),
      unmatchedActual |-> Len(cycles) - Cardinality({m[1] : m \in ToSet(matches)}),
      unmatchedSimulated |-> Len(closes) - Cardinality({m[2] : m \in ToSet(matches)}),
      exact |-> Cardinality(exact),
      twiceMedian |-> IF matches = <<>> THEN <<>> ELSE <<TwiceMedian(errors)>>]

\* _target_evaluation: a target without a value is missed.
MeetsTargets(metrics) ==
  /\ metrics.cycles # 0 /\ 100 * metrics.matched >= 90 * metrics.cycles
  /\ metrics.matched # 0 /\ 100 * metrics.exact >= 85 * metrics.matched
  /\ metrics.twiceMedian[1] <= 2 * CloseTarget

Init ==
  /\ rows = <<>> /\ mode = "export" /\ regimes = <<>>
  /\ actual = <<>> /\ simulated = <<>> /\ pairs = <<>> /\ diagnosed = 0
  /\ evaluated = <<>>

Next ==
  \/ \E row \in ExportRows : ReadRow(row)
  \/ \E kind \in {"anchored", "continuous"} : Parse(kind)
  \/ Anchored \/ Continuous

Spec == Init /\ [][Next]_vars

-----------------------------------------------------------------------------
(* Properties *)

Swapped(i) == [rows EXCEPT ![i] = rows[i + 1], ![i + 1] = rows[i]]

SetsOf(components) == {ToSet(components[k]) : k \in DOMAIN components}

\* The groups of a bucket are the positions: rows with the same close are never
\* apart, all rows of a group are within both tolerances of each other, no two
\* groups are one, and the order of the rows in the file makes no difference
\* (trader_export.py: "rows are merged only when ... both close tolerances are
\* satisfied").
GroupsArePositions ==
  LET grouped == Grouped(rows) IN
  \A b \in DOMAIN grouped :
    /\ \A i \in 1 .. Len(rows) - 1 :
         LET other == Grouped(Swapped(i))[b] IN
         IF grouped[b] = Ambiguous THEN other = Ambiguous
         ELSE other # Ambiguous /\ SetsOf(other) = SetsOf(grouped[b])
    /\ grouped[b] # Ambiguous =>
         /\ \A k, l \in DOMAIN grouped[b] :
              LET together == \A x \in ToSet(grouped[b][k]), y \in ToSet(grouped[b][l]) :
                                Within(x, y)
              IN together <=> k = l
         /\ \A k, l \in DOMAIN grouped[b] :
              k # l => {Close(x) : x \in ToSet(grouped[b][k])}
                         \intersect {Close(y) : y \in ToSet(grouped[b][l])} = {}

\* Matchings that keep the order of both sequences and the window.
Matchings(cycles, closes) ==
  {m \in SUBSET {p \in (DOMAIN cycles) \X (DOMAIN closes) :
                   Error(cycles[p[1]], closes[p[2]]) <= CloseWindow} :
     \A p, q \in m : p # q => /\ p[1] # q[1] /\ p[2] # q[2]
                              /\ (p[1] < q[1] <=> p[2] < q[2])}

TotalError(cycles, closes, m) ==
  MapThenSumSet(LAMBDA p : Error(cycles[p[1]], closes[p[2]]), m)

\* The matching of a regime is the best one: no ordered matching has more pairs,
\* nor as many with a smaller total error, and the greedy comparison of the same
\* sequences never finds more (historical_validation.py: "maximize ordered
\* matches, then minimize total absolute close error").
MatchesOptimal ==
  \A k \in DOMAIN evaluated :
    LET e == evaluated[k]
        found == ToSet(e.pairs)
        all == Matchings(e.actual, e.simulated)
    IN /\ found \in all
       /\ \A m \in all :
            /\ Cardinality(m) <= Len(e.pairs)
            /\ Cardinality(m) = Len(e.pairs) =>
                 TotalError(e.actual, e.simulated, found)
                   <= TotalError(e.actual, e.simulated, m)
       /\ GreedyMatched(e.actual, e.simulated) <= Len(e.pairs)

\* The pairs of all regimes together are pairs of the cycles they name: each
\* cycle in one of them at most, in order, close enough, and the counts add up;
\* a verdict that all targets are met means that nearly all cycles have a close
\* and half of those are within the target.
PairsOfTheirCycles ==
  LET metrics == Metrics(actual, simulated, pairs)
      near == {k \in DOMAIN pairs :
                 Error(actual[pairs[k][1]], simulated[pairs[k][2]]) <= CloseTarget}
  IN
  /\ \A k \in DOMAIN pairs : pairs[k] \in (DOMAIN actual) \X (DOMAIN simulated)
  /\ ToSet(pairs) \in Matchings(actual, simulated)
  /\ \A k \in 2 .. Len(pairs) : pairs[k - 1][1] < pairs[k][1]
  /\ metrics.unmatchedActual + metrics.matched = Len(actual)
  /\ metrics.unmatchedSimulated + metrics.matched = Len(simulated)
  /\ mode = "anchored" => diagnosed = metrics.unmatchedActual
  /\ mode = "continuous" =>
       metrics.matched = MapThenSumSet(LAMBDA k : Len(evaluated[k].pairs), DOMAIN evaluated)
  /\ MeetsTargets(metrics) =>
       /\ 10 * Len(pairs) >= 9 * Len(actual)
       /\ 2 * Cardinality(near) >= Len(pairs)
===============================================================================
