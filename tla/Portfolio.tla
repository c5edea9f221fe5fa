------------------------------ MODULE Portfolio ------------------------------
(***************************************************************************)
(* The portfolio coordinator (botdca/portfolio.py) over the symbols of one *)
(* account: what it counts as committed (the exposures the strategies have *)
(* reconciled, and its pending reservations) against what the exchange     *)
(* really holds (positions and resting entry orders).                      *)
(*                                                                         *)
(* Atomicity: one action is one sync of one symbol, reduced to what it     *)
(* does to capital.  Every sync runs under the lock all symbols share, so  *)
(* syncs do not interleave with each other; fills, closes, cancellations,  *)
(* the clock and restarts come between them.  The order of the calls       *)
(* inside one sync is the subject of LiveService.                          *)
(*                                                                         *)
(* Margin is counted in units of the order it is reserved for.  A DCA is a *)
(* limit order and costs what was reserved; an entry is a market order and *)
(* costs what it fills at.  The equity of the account is constant: what    *)
(* closed baskets earn or lose is not here.                                *)
(***************************************************************************)
EXTENDS Integers, FiniteSets, Functions

CONSTANTS
  Symbols,       \* the enabled strategy slots
  MaxLevel,      \* length of the live DCA ladder
  Cost,          \* margin reserved for the entry (0) and for each DCA level
  MaxQuotes,     \* entries of one basket that differ in identity, by symbol
  Slippage,      \* by how much a market fill may exceed the margin reserved
  Leverage,      \* of each symbol
  MarginLimit,   \* max_total_bot_margin_usdt
  NotionalLimit, \* max_total_bot_notional_usdt
  Equity,        \* total equity of the account
  Floor,         \* the reserve floor: absolute, or the ratio of that equity
  DeepLevel,     \* deep_dca_level
  MaxDeep,       \* max_simultaneous_deep_baskets
  MaxFaults,     \* bound: submissions that raise
  MaxRestarts,   \* bound: process restarts
  MaxOutside     \* bound: baskets closed, orders cancelled, entries sent beside
                 \* another and fills above the price

ASSUME PortfolioAssumption ==
  /\ IsFiniteSet(Symbols)
  /\ MaxLevel \in Nat
  /\ Cost \in [0 .. MaxLevel -> Nat \ {0}]
  /\ MaxQuotes \in [Symbols -> Nat \ {0}]
  /\ Slippage \in [Symbols -> Nat]
  /\ Leverage \in [Symbols -> Nat \ {0}]
  /\ {MarginLimit, NotionalLimit, Equity, Floor, MaxDeep} \subseteq Nat
  /\ DeepLevel \in Nat \ {0}
  /\ {MaxFaults, MaxRestarts, MaxOutside} \subseteq Nat

VARIABLES
  held,     \* exchange: buy orders behind each position, and its margin
  resting,  \* exchange: each symbol's unfilled entry and DCA orders
  unseen,   \* margin of accepted orders the account balance does not show yet
  basket,   \* baskets each symbol has closed, to tell old orders from new
  seen,     \* the cycle each strategy has reconciled, as its exposure
  reserved, \* _reservations
  slips,    \* observation: what has escaped the coordinator so far
  budget    \* remaining faults, restarts and events from outside

vars == <<held, resting, unseen, basket, seen, reserved, slips, budget>>

-----------------------------------------------------------------------------
(* What is counted, and what there is *)

Flat == [orders |-> 0, margin |-> 0]

NoReservation == [level |-> 0, margin |-> 0, expired |-> FALSE]

\* Mutant: the level is the one after the candidate's.
ReserveNext(level) == [level |-> level + 1, margin |-> Cost[level], expired |-> FALSE]

\* _reserve: the entry for this symbol is overwritten.
Reserve(level) == [level |-> level, margin |-> Cost[level], expired |-> FALSE]

\* SymbolExposure.dca_level of a reconciled cycle.
LevelOf(position) == IF position.orders = 0 THEN 0 ELSE position.orders - 1

\* is_deep
Deep(position) == position.orders > 0 /\ LevelOf(position) >= DeepLevel

\* Mutant: a reservation has landed as soon as the symbol is open.
LandedWhenOpen(reservation, position) == position.orders > 0

\* The reservation has landed once the symbol's own exposure reaches the level
\* it was taken for.
Landed(reservation, position) ==
  /\ LevelOf(position) >= reservation.level
  /\ reservation.level > 0 \/ position.orders > 0

\* Mutant: reservations never expire.
PrunedWhenLanded(exposures) ==
  [s \in Symbols |-> IF Landed(reserved[s], exposures[s])
                     THEN NoReservation ELSE reserved[s]]

\* _prune_reservations
Pruned(exposures) ==
  [s \in Symbols |-> IF reserved[s].expired \/ Landed(reserved[s], exposures[s])
                     THEN NoReservation ELSE reserved[s]]

RestingMargin(s) == SumFunction([o \in resting[s] |-> o.left])

\* What symbol s really commits.
Committed(s) == held[s].margin + RestingMargin(s)

\* What the coordinator counts for it.
Counted(s) == seen[s].margin + reserved[s].margin

TotalCommitted == SumFunction([s \in Symbols |-> Committed(s)])

TotalNotional == SumFunction([s \in Symbols |-> Leverage[s] * Committed(s)])

\* totalAvailableBalance, as the account reports it.
Available == Equity - TotalCommitted + SumFunction(unseen)

\* Mutant: pending reservations are left out of the projection.
UnreservedAllowed(s, level, exposures, reservations) ==
  /\ SumFunction([t \in Symbols |-> exposures[t].margin]) + Cost[level]
       <= MarginLimit
  /\ Available - Cost[level] >= Floor

\* _evaluate_locked.  The floating-loss guard is not there: exposures never
\* carry an unrealized profit or loss, so it refuses nothing.
Allowed(s, level, exposures, reservations) ==
  LET exposed == [t \in Symbols |-> exposures[t].margin + reservations[t].margin]
      deep == {t \in Symbols : Deep(exposures[t])}
      projectedDeep == IF level >= DeepLevel THEN deep \cup {s} ELSE deep
      reservedMargin == SumFunction([t \in Symbols |-> reservations[t].margin])
  IN
  /\ SumFunction(exposed) + Cost[level] <= MarginLimit
  /\ SumFunction([t \in Symbols |-> Leverage[t] * exposed[t]])
       + Leverage[s] * Cost[level] <= NotionalLimit
  /\ Available - reservedMargin - Cost[level] >= Floor
  /\ Cardinality(projectedDeep) <= MaxDeep

-----------------------------------------------------------------------------
(* One sync *)

\* What identifies an entry beside its basket: the quantity rounded at the last
\* price and the latest journaled Sell.  A DCA (0) is identified by its level.
Quotes(s) ==
  {quote \in 1 .. MaxQuotes[s] :
     quote <= 1 + Cardinality({o \in resting[s] : o.level = 0 /\ o.basket = basket[s]})}

\* An order as sent: priced for this basket, filled in none.
Order(s, level, quote) ==
  [level |-> level, quote |-> quote, left |-> Cost[level], basket |-> basket[s],
   filledIn |-> -1]

\* The order is on the exchange already, filled in part perhaps: the same
\* client identity is acknowledged again.
Sent(s, level, quote) ==
  \E o \in resting[s] : o.level = level /\ o.quote = quote /\ o.basket = basket[s]

\* Mutant: the reservation is taken for the level the basket has.
ReserveCurrent(s, level, reservations) ==
  [reservations EXCEPT ![s] = Reserve(IF level = 0 THEN 0 ELSE level - 1)]

\* _reserve, left in place by a submission that returns.
ReserveFor(s, level, reservations) ==
  [reservations EXCEPT ![s] = Reserve(level)]

\* The order reaches the exchange beside the orders in kept; what the balance
\* did not show of cancelled ones it never will.
Accept(s, level, quote, kept) ==
  IF Sent(s, level, quote)
  THEN resting' = [resting EXCEPT ![s] = kept] /\ UNCHANGED unseen
  ELSE /\ resting' = [resting EXCEPT ![s] = kept \cup {Order(s, level, quote)}]
       /\ unseen' = [unseen EXCEPT ![s] = (IF kept = {} THEN 0 ELSE @) + Cost[level]]

\* _reserve replaces the reservation of an order that still rests by that of
\* another one, perhaps before the balance shows the first.
Doubled(s, level, quote, kept) ==
  IF Sent(s, level, quote) \/ kept = {} THEN {}
  ELSE {"second"} \cup (IF unseen[s] > 0 THEN {"blind"} ELSE {})

Faulted == budget.faults > 0 /\ budget' = [budget EXCEPT !.faults = @ - 1]

Intervened == budget.outside > 0 /\ budget' = [budget EXCEPT !.outside = @ - 1]

\* Pruning forgets an expired reservation although the symbol commits more than
\* its exposure shows.
Forgotten(exposures) ==
  IF \E s \in Symbols : /\ reserved[s].expired
                        /\ ~Landed(reserved[s], exposures[s])
                        /\ Committed(s) > exposures[s].margin
  THEN {"expiry"} ELSE {}

\* authorize, for a sync that has just published its exposure and cancelled all
\* its orders but those in kept.
Authorize(s, level, quote, exposures, kept) ==
  LET pruned == Pruned(exposures) IN
  \/ \* refused
     /\ ~Allowed(s, level, exposures, pruned)
     /\ reserved' = pruned
     /\ resting' = [resting EXCEPT ![s] = kept]
     /\ slips' = slips \cup Forgotten(exposures)
     /\ UNCHANGED <<unseen, budget>>
  \/ \* submitted
     /\ Allowed(s, level, exposures, pruned)
     /\ reserved' = ReserveFor(s, level, pruned)
     /\ Accept(s, level, quote, kept)
     /\ slips' = slips \cup Forgotten(exposures) \cup Doubled(s, level, quote, kept)
     /\ IF quote > 1 /\ ~Sent(s, level, quote) THEN Intervened ELSE UNCHANGED budget
  \/ \* the submission raises: released, whether or not the order was accepted
     /\ Allowed(s, level, exposures, pruned)
     /\ Faulted
     /\ reserved' = [pruned EXCEPT ![s] = NoReservation]
     /\ \/ Accept(s, level, quote, kept)
        \/ resting' = [resting EXCEPT ![s] = kept] /\ UNCHANGED unseen
     /\ slips' = slips \cup Forgotten(exposures)
                       \cup IF resting'[s] # {} THEN {"lost"} ELSE {}

\* A sync of a flat symbol closes the cycle; resting DCA orders stay.
SyncFlat(s) ==
  /\ held[s] = Flat
  /\ seen' = [seen EXCEPT ![s] = Flat]
  /\ UNCHANGED <<held, resting, unseen, basket, reserved, slips, budget>>

\* The same sync, when the strategy is neither paused nor waiting.
SyncEnter(s) ==
  LET exposures == [seen EXCEPT ![s] = Flat] IN
  /\ held[s] = Flat
  /\ seen' = exposures
  /\ \E quote \in Quotes(s) : Authorize(s, 0, quote, exposures, resting[s])
  /\ UNCHANGED <<held, basket>>

\* The DCA orders a sync at this level keeps: one filled in part, else the one
\* for the next level of this basket, none at the end of the ladder.
KeptOrders(s, level) ==
  LET partial == {o \in resting[s] : o.level > 0 /\ o.left < Cost[o.level]}
  IN  IF level = MaxLevel THEN {}
      ELSE IF partial # {} THEN {CHOOSE o \in partial : TRUE}
      ELSE {o \in resting[s] : o.level = level + 1 /\ o.basket = basket[s]}

\* Orders that are not DCA orders are left alone.
EntriesOf(s) == {o \in resting[s] : o.level = 0}

\* A sync of an open symbol: reconcile, cancel what is stale, and submit the
\* next DCA if none is kept.
SyncOpen(s) ==
  LET level == LevelOf(held[s])
      kept == KeptOrders(s, level)
      exposures == [seen EXCEPT ![s] = held[s]]
  IN
  /\ held[s].orders > 0
  /\ level <= MaxLevel
  /\ seen' = exposures
  /\ \/ /\ level = MaxLevel \/ kept # {}
        /\ resting' = [resting EXCEPT ![s] = EntriesOf(s) \cup kept]
        /\ UNCHANGED <<unseen, reserved, slips, budget>>
     \/ /\ level < MaxLevel /\ kept = {}
        /\ Authorize(s, level + 1, 0, exposures, EntriesOf(s))
  /\ UNCHANGED <<held, basket>>

\* snapshot, read by the operations API.
Snapshot ==
  /\ reserved' = Pruned(seen)
  /\ slips' = slips \cup Forgotten(seen)
  /\ UNCHANGED <<held, resting, unseen, basket, seen, budget>>

-----------------------------------------------------------------------------
(* Environment *)

\* What q of an order may cost: a limit order its limit, a market order less or
\* more than was reserved for it.
Paid(s, o, q) == IF o.level = 0 THEN 1 .. q + Slippage[s] ELSE {q}

\* An order fills, whole or in part; by then the balance shows it.  The journal
\* counts it among the orders of the basket it fills in.
Fill(s) ==
  \E o \in resting[s] : \E q \in 1 .. o.left : \E paid \in Paid(s, o, q) :
    /\ held' = [held EXCEPT ![s] =
                  [orders |-> IF o.filledIn = basket[s] THEN @.orders ELSE @.orders + 1,
                   margin |-> @.margin + paid]]
    /\ resting' = [resting EXCEPT ![s] =
                     (@ \ {o}) \cup (IF q = o.left THEN {}
                                     ELSE {[o EXCEPT !.left = @ - q,
                                                     !.filledIn = basket[s]]})]
    /\ unseen' = [unseen EXCEPT ![s] = 0]
    /\ slips' = slips \cup (IF q = o.left THEN {} ELSE {"partial"})
                      \cup (IF paid > q THEN {"price"} ELSE {})
    /\ IF paid > q THEN Intervened ELSE UNCHANGED budget
    /\ UNCHANGED <<basket, seen, reserved>>

BalanceCatchesUp(s) ==
  /\ unseen[s] > 0
  /\ unseen' = [unseen EXCEPT ![s] = 0]
  /\ UNCHANGED <<held, resting, basket, seen, reserved, slips, budget>>

\* The take profit fills, or the position is closed by hand.
Close(s) ==
  /\ Intervened
  /\ held[s].orders > 0
  /\ held' = [held EXCEPT ![s] = Flat]
  /\ basket' = [basket EXCEPT ![s] = @ + 1]
  /\ slips' = slips \cup (IF resting[s] = {} THEN {} ELSE {"orphan"})
  /\ UNCHANGED <<resting, unseen, seen, reserved>>

\* An order is cancelled by hand or by the exchange.
Cancel(s) ==
  /\ Intervened
  /\ \E o \in resting[s] : resting' = [resting EXCEPT ![s] = @ \ {o}]
  /\ unseen' = [unseen EXCEPT ![s] = 0]
  /\ UNCHANGED <<held, basket, seen, reserved, slips>>

\* reservation_ttl_seconds have passed.
Expire(s) ==
  /\ reserved[s] # NoReservation /\ ~reserved[s].expired
  /\ unseen[s] = 0
  /\ reserved' = [reserved EXCEPT ![s].expired = TRUE]
  /\ UNCHANGED <<held, resting, unseen, basket, seen, slips, budget>>

\* Reservations and cycles live in the process.  Starting takes longer than the
\* balance needs.
Restart ==
  /\ budget.restarts > 0
  /\ budget' = [budget EXCEPT !.restarts = @ - 1]
  /\ seen' = [s \in Symbols |-> Flat]
  /\ reserved' = [s \in Symbols |-> NoReservation]
  /\ unseen' = [s \in Symbols |-> 0]
  /\ slips' = slips \cup {"restart"}
  /\ UNCHANGED <<held, resting, basket>>

-----------------------------------------------------------------------------
(* Specification *)

Init ==
  /\ held = [s \in Symbols |-> Flat]
  /\ resting = [s \in Symbols |-> {}]
  /\ unseen = [s \in Symbols |-> 0]
  /\ basket = [s \in Symbols |-> 0]
  /\ seen = [s \in Symbols |-> Flat]
  /\ reserved = [s \in Symbols |-> NoReservation]
  /\ slips = {}
  /\ budget = [faults |-> MaxFaults, restarts |-> MaxRestarts, outside |-> MaxOutside]

Next ==
  \/ \E s \in Symbols :
       \/ SyncFlat(s) \/ SyncEnter(s) \/ SyncOpen(s)
       \/ Fill(s) \/ BalanceCatchesUp(s) \/ Close(s) \/ Cancel(s) \/ Expire(s)
  \/ Snapshot
  \/ Restart

Spec == Init /\ [][Next]_vars

-----------------------------------------------------------------------------
(* Properties *)

Position == [orders : Nat, margin : Nat]

RestingOrder == [level : 0 .. MaxLevel, quote : Nat, left : Nat \ {0},
                 basket : Nat, filledIn : Nat \cup {-1}]

Slips == {"expiry", "lost", "partial", "orphan", "restart", "second", "blind", "price"}

Reservation == [level : 0 .. MaxLevel, margin : Nat, expired : BOOLEAN]

\* Type invariant.
TypeOK ==
  /\ held \in [Symbols -> Position]
  /\ resting \in [Symbols -> SUBSET RestingOrder]
  /\ unseen \in [Symbols -> Nat]
  /\ basket \in [Symbols -> Nat]
  /\ seen \in [Symbols -> Position]
  /\ reserved \in [Symbols -> Reservation]
  /\ slips \subseteq Slips
  /\ budget \in [faults : Nat, restarts : Nat, outside : Nat]

\* The coordinator counts, for every symbol, at least what the symbol commits,
\* from the submission to the close (authorize: "a concurrent worker can never
\* observe the capital as free while this order is in flight"), as long as no
\* reservation expired under a resting order or was replaced by that of a second
\* one, no accepted submission raised, no order filled in part, above the price
\* it was reserved at or after its basket, and the process lived.
EveryOrderCounted ==
  slips = {} => \A s \in Symbols : Committed(s) <= Counted(s)

\* Then the portfolio limits bound what all symbols really commit, entries and
\* DCAs still resting included.
WithinLimits ==
  slips = {} => TotalCommitted <= MarginLimit /\ TotalNotional <= NotionalLimit

\* What the bot commits never spends the reserve floor, although balances lag,
\* processes restart, orders fill in part or late and reservations expire.  Only
\* an accepted submission that raises, an entry filled above its price, or a
\* second order sent before the balance shows the first can do it.
ReserveKept ==
  slips \cap {"lost", "price", "blind"} = {}
    => TotalCommitted = 0 \/ Equity - TotalCommitted >= Floor

\* The deep-basket guard bounds the deep baskets there are at once.
DeepBounded == Cardinality({s \in Symbols : Deep(held[s])}) <= MaxDeep

-----------------------------------------------------------------------------
(* Liveness *)

\* The worker of each symbol keeps syncing, balances catch up and time passes;
\* entries, fills and closes are owed nothing.
Fairness ==
  \A s \in Symbols : /\ WF_vars(SyncFlat(s)) /\ WF_vars(SyncOpen(s))
                     /\ WF_vars(BalanceCatchesUp(s)) /\ WF_vars(Expire(s))

FairSpec == Spec /\ Fairness

\* The basket wants its next DCA, and what the account really commits leaves
\* room for it.
Wants(s) == /\ held[s].orders > 0
            /\ LevelOf(held[s]) < MaxLevel
            /\ resting[s] = {}

Room(s) ==
  LET level == LevelOf(held[s]) + 1
      deep == {t \in Symbols : Deep(held[t])}
  IN
  /\ TotalCommitted + Cost[level] <= MarginLimit
  /\ TotalNotional + Leverage[s] * Cost[level] <= NotionalLimit
  /\ Equity - TotalCommitted - Cost[level] >= Floor
  /\ Cardinality(IF level >= DeepLevel THEN deep \cup {s} ELSE deep) <= MaxDeep

\* A reservation without an order behind it blocks a DCA only until it expires:
\* no basket wants for ever a DCA there is room for.
NoPhantomBlocks == \A s \in Symbols : []<>~(Wants(s) /\ Room(s))

===============================================================================
