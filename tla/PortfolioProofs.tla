--------------------------- MODULE PortfolioProofs ---------------------------
(***************************************************************************)
(* The capital bounds of Portfolio, proved for any number of symbols, any  *)
(* ladder and any limits.  A portfolio guard compares sums over all        *)
(* symbols, so the argument is pointwise first (what the coordinator       *)
(* counts of each symbol is at least what it commits) and summed by the    *)
(* lemmas of SumTheorems.                                                  *)
(***************************************************************************)
EXTENDS Portfolio, SumTheorems

-----------------------------------------------------------------------------
(* The inductive invariant *)

\* The buy orders behind the position give the level of the next order.
NextLevel(s) == held[s].orders

\* With an order resting and no slip, the order is this basket's next one, the
\* strategy has reconciled the position, and the reservation still covers it.
Covered(s) ==
  \E o \in RestingOrder :
    /\ resting[s] = {o}
    /\ o.level = NextLevel(s) /\ o.left = Cost[o.level] /\ o.basket = basket[s]
    /\ seen[s] = held[s]
    /\ reserved[s].level = o.level /\ reserved[s].margin = Cost[o.level]

\* Without one, the exposure has caught up, or the reservation of the order that
\* filled is still there because it has not landed in that exposure.
CaughtUp(s) ==
  /\ resting[s] = {}
  /\ \/ held[s].margin <= seen[s].margin
     \/ /\ held[s].margin <= seen[s].margin + reserved[s].margin
        /\ ~Landed(reserved[s], seen[s])

CountedOK == slips = {} => \A s \in Symbols : Covered(s) \/ CaughtUp(s)

\* Margin the balance does not show belongs to the order of a pending
\* reservation, and a sync that could replace that reservation finds the order.
Pending(s) ==
  /\ reserved[s].margin = unseen[s] /\ ~reserved[s].expired
  /\ reserved[s].margin = Cost[reserved[s].level]
  /\ ~Landed(reserved[s], seen[s])
  /\ \/ /\ held[s].orders = 0
        /\ resting[s] # {}
        /\ (\E o \in resting[s] : o.level = 0 /\ o.basket = basket[s])
             => reserved[s].level = 0
     \/ /\ held[s].orders > 0
        /\ reserved[s].level = NextLevel(s)
        /\ \E o \in resting[s] : \/ o.level = NextLevel(s) /\ o.basket = basket[s]
                                 \/ o.level > 0 /\ o.left < Cost[o.level]

UnseenOK ==
  slips \cap {"lost", "blind"} = {} => \A s \in Symbols : unseen[s] > 0 => Pending(s)

\* Orders are of this basket or of earlier ones.
BasketsOK == \A s \in Symbols : \A o \in resting[s] : o.basket <= basket[s]

\* Types, and finitely many orders, so that their margins have a sum.
Typed == TypeOK /\ \A s \in Symbols : IsFiniteSet(resting[s])

-----------------------------------------------------------------------------
(* What one authorization does, symbol by symbol *)

\* The order is on the exchange after the submission.
Taken(s, level, quote, kept) ==
  \/ /\ Sent(s, level, quote)
     /\ resting'[s] = kept /\ unseen'[s] = unseen[s]
  \/ /\ ~Sent(s, level, quote)
     /\ resting'[s] = kept \cup {Order(s, level, quote)}
     /\ unseen'[s] = (IF kept = {} THEN 0 ELSE unseen[s]) + Cost[level]

Refused(s, exposures, kept) ==
  /\ reserved'[s] = Pruned(exposures)[s]
  /\ resting'[s] = kept /\ unseen'[s] = unseen[s]

Submitted(s, level, quote, exposures, kept) ==
  /\ Allowed(s, level, exposures, Pruned(exposures))
  /\ reserved'[s] = Reserve(level)
  /\ Taken(s, level, quote, kept)
  /\ Doubled(s, level, quote, kept) \subseteq slips'

Raised(s, level, quote, kept) ==
  /\ reserved'[s] = NoReservation
  /\ \/ Taken(s, level, quote, kept)
     \/ resting'[s] = kept /\ unseen'[s] = unseen[s]
  /\ resting'[s] # {} => "lost" \in slips'

\* The other symbols are pruned and left alone.
Others(s, exposures) ==
  \A t \in Symbols \ {s} : /\ resting'[t] = resting[t] /\ unseen'[t] = unseen[t]
                           /\ reserved'[t] = Pruned(exposures)[t]

\* The functions are still functions on the symbols.
Shaped ==
  /\ DOMAIN resting' = Symbols /\ DOMAIN unseen' = Symbols
  /\ DOMAIN reserved' = Symbols
  /\ resting' = [t \in Symbols |-> resting'[t]]
  /\ unseen' = [t \in Symbols |-> unseen'[t]]
  /\ reserved' = [t \in Symbols |-> reserved'[t]]

\* Pruning leaves each reservation as it was or drops it.
LEMMA PrunedTyped ==
  ASSUME Typed, NEW exposures
  PROVE  /\ Pruned(exposures) \in [Symbols -> Reservation]
         /\ \A t \in Symbols : Pruned(exposures)[t] \in {reserved[t], NoReservation}
BY PortfolioAssumption DEF Typed, TypeOK, Pruned, Reservation, NoReservation

\* A new reservation is well formed and worth the margin of its level.
LEMMA ReserveTyped ==
  ASSUME NEW level \in 0 .. MaxLevel
  PROVE  /\ Cost[level] \in Nat \ {0}
         /\ Reserve(level) \in Reservation
         /\ Reserve(level).level = level /\ Reserve(level).margin = Cost[level]
         /\ Reserve(level).expired = FALSE
         /\ NoReservation \in Reservation
BY PortfolioAssumption DEF Reserve, Reservation, NoReservation

\* Authorising an order refuses it, submits it, or raises; the other symbols are left alone.
LEMMA Authorized ==
  ASSUME Typed, NEW s \in Symbols, NEW level \in 0 .. MaxLevel, NEW quote \in Nat,
         NEW exposures, NEW kept, Authorize(s, level, quote, exposures, kept)
  PROVE  /\ Shaped
         /\ Others(s, exposures)
         /\ Forgotten(exposures) \subseteq slips' /\ slips \subseteq slips'
         /\ slips' \subseteq slips \cup Slips
         /\ budget' \in [faults : Nat, restarts : Nat, outside : Nat]
         /\ \/ Refused(s, exposures, kept)
            \/ Submitted(s, level, quote, exposures, kept)
            \/ Raised(s, level, quote, kept)
<1> DEFINE P == Pruned(exposures)
<1>1. P \in [Symbols -> Reservation] BY PrunedTyped
<1>2. /\ resting \in [Symbols -> SUBSET RestingOrder] /\ unseen \in [Symbols -> Nat]
      /\ budget \in [faults : Nat, restarts : Nat, outside : Nat]
  BY DEF Typed, TypeOK
<1>3. /\ Forgotten(exposures) \subseteq Slips /\ Doubled(s, level, quote, kept) \subseteq Slips
      /\ "lost" \in Slips
  BY DEF Forgotten, Doubled, Slips
<1>4. ASSUME Accept(s, level, quote, kept)
      PROVE  /\ resting' = [t \in Symbols |-> resting'[t]]
             /\ unseen' = [t \in Symbols |-> unseen'[t]]
             /\ Taken(s, level, quote, kept)
             /\ \A t \in Symbols \ {s} : resting'[t] = resting[t] /\ unseen'[t] = unseen[t]
  BY <1>2, <1>4 DEF Accept, Taken
<1>5. ASSUME resting' = [resting EXCEPT ![s] = kept], UNCHANGED unseen
      PROVE  /\ resting' = [t \in Symbols |-> resting'[t]]
             /\ unseen' = [t \in Symbols |-> unseen'[t]]
             /\ resting'[s] = kept /\ unseen'[s] = unseen[s]
             /\ \A t \in Symbols \ {s} : resting'[t] = resting[t] /\ unseen'[t] = unseen[t]
  BY <1>2, <1>5
<1>6. Faulted \/ Intervened => budget' \in [faults : Nat, restarts : Nat, outside : Nat]
  <2>1. /\ budget.faults > 0 => budget.faults - 1 \in Nat
        /\ budget.outside > 0 => budget.outside - 1 \in Nat
    BY <1>2
  <2>2. QED BY <1>2, <2>1 DEF Faulted, Intervened
<1> HIDE DEF P
<1>7. CASE /\ ~Allowed(s, level, exposures, P)
           /\ reserved' = P
           /\ resting' = [resting EXCEPT ![s] = kept]
           /\ slips' = slips \cup Forgotten(exposures)
           /\ UNCHANGED <<unseen, budget>>
  BY <1>1, <1>2, <1>3, <1>5, <1>7 DEF Shaped, Others, Refused, P
<1>8. CASE /\ Allowed(s, level, exposures, P)
           /\ reserved' = ReserveFor(s, level, P)
           /\ Accept(s, level, quote, kept)
           /\ slips' = slips \cup Forgotten(exposures) \cup Doubled(s, level, quote, kept)
           /\ IF quote > 1 /\ ~Sent(s, level, quote) THEN Intervened ELSE UNCHANGED budget
  <2>1. /\ reserved' = [t \in Symbols |-> reserved'[t]]
        /\ reserved'[s] = Reserve(level)
        /\ \A t \in Symbols \ {s} : reserved'[t] = P[t]
    BY <1>1, <1>8 DEF ReserveFor
  <2>2. budget' \in [faults : Nat, restarts : Nat, outside : Nat] BY <1>2, <1>6, <1>8
  <2>3. QED BY <1>2, <1>3, <1>4, <1>8, <2>1, <2>2 DEF Shaped, Others, Submitted, P
<1>9. CASE /\ Allowed(s, level, exposures, P)
           /\ Faulted
           /\ reserved' = [P EXCEPT ![s] = NoReservation]
           /\ \/ Accept(s, level, quote, kept)
              \/ resting' = [resting EXCEPT ![s] = kept] /\ UNCHANGED unseen
           /\ slips' = slips \cup Forgotten(exposures)
                             \cup IF resting'[s] # {} THEN {"lost"} ELSE {}
  <2>1. /\ reserved' = [t \in Symbols |-> reserved'[t]]
        /\ reserved'[s] = NoReservation
        /\ \A t \in Symbols \ {s} : reserved'[t] = P[t]
    BY <1>1, <1>9
  <2>2. /\ resting' = [t \in Symbols |-> resting'[t]]
        /\ unseen' = [t \in Symbols |-> unseen'[t]]
        /\ \/ Taken(s, level, quote, kept)
           \/ resting'[s] = kept /\ unseen'[s] = unseen[s]
        /\ \A t \in Symbols \ {s} : resting'[t] = resting[t] /\ unseen'[t] = unseen[t]
    BY <1>4, <1>5, <1>9
  <2>3. resting'[s] # {} => "lost" \in slips' BY <1>9
  <2>4. Shaped BY <2>1, <2>2 DEF Shaped
  <2>5. Others(s, exposures) BY <2>1, <2>2 DEF Others, P
  <2>6. Raised(s, level, quote, kept) BY <2>1, <2>2, <2>3 DEF Raised
  <2>7. QED BY <1>3, <1>6, <1>9, <2>4, <2>5, <2>6
<1>10. QED BY <1>7, <1>8, <1>9 DEF Authorize, P

-----------------------------------------------------------------------------
(* Syncs *)

\* The exposures a sync of s publishes before it authorizes anything.
Reconciled(s) == [seen EXCEPT ![s] = held[s]]

\* The orders a sync keeps are among those that rest.
LEMMA KeptResting ==
  ASSUME NEW s, NEW level
  PROVE  KeptOrders(s, level) \subseteq resting[s] /\ EntriesOf(s) \subseteq resting[s]
<1> DEFINE partial == {o \in resting[s] : o.level > 0 /\ o.left < Cost[o.level]}
<1>1. partial # {} => (CHOOSE o \in partial : TRUE) \in partial OBVIOUS
<1>2. partial \subseteq resting[s] OBVIOUS
<1>3. KeptOrders(s, level) =
        IF level = MaxLevel THEN {}
        ELSE IF partial # {} THEN {CHOOSE o \in partial : TRUE}
        ELSE {o \in resting[s] : o.level = level + 1 /\ o.basket = basket[s]}
  BY DEF KeptOrders
<1> HIDE DEF partial
<1>4. KeptOrders(s, level) \subseteq resting[s] BY <1>1, <1>2, <1>3
<1>5. QED BY <1>4 DEF EntriesOf

\* An entering sync holds nothing and authorises level zero beside whatever rests.
LEMMA EnterFacts ==
  ASSUME Typed, NEW s \in Symbols, SyncEnter(s)
  PROVE  /\ held[s] = Flat
         /\ seen' = Reconciled(s)
         /\ UNCHANGED <<held, basket>>
         /\ 0 \in 0 .. MaxLevel
         /\ \E quote \in Nat : Authorize(s, 0, quote, Reconciled(s), resting[s])
BY PortfolioAssumption DEF SyncEnter, Quotes, Reconciled

\* An open sync keeps the order it has, or cancels its DCAs and authorises the next level.
LEMMA OpenFacts ==
  ASSUME Typed, NEW s \in Symbols, SyncOpen(s)
  PROVE  /\ held[s].orders \in Nat /\ held[s].orders > 0
         /\ held[s].orders - 1 <= MaxLevel
         /\ seen' = Reconciled(s)
         /\ UNCHANGED <<held, basket>>
         /\ \/ /\ held[s].orders - 1 = MaxLevel \/ KeptOrders(s, held[s].orders - 1) # {}
               /\ resting' = [resting EXCEPT ![s] =
                                EntriesOf(s) \cup KeptOrders(s, held[s].orders - 1)]
               /\ UNCHANGED <<unseen, reserved, slips, budget>>
            \/ /\ held[s].orders \in 0 .. MaxLevel
               /\ KeptOrders(s, held[s].orders - 1) = {}
               /\ Authorize(s, held[s].orders, 0, Reconciled(s), EntriesOf(s))
<1>1. held[s].orders \in Nat BY DEF Typed, TypeOK, Position
<1>2. held[s].orders > 0 BY DEF SyncOpen
<1>3. LevelOf(held[s]) = held[s].orders - 1 BY <1>1, <1>2 DEF LevelOf
<1>4. LevelOf(held[s]) + 1 = held[s].orders BY <1>1, <1>3
<1>5. MaxLevel \in Nat BY PortfolioAssumption
<1>6. LevelOf(held[s]) < MaxLevel => held[s].orders \in 0 .. MaxLevel
  BY <1>1, <1>3, <1>5
<1>7. QED BY ONLY <1>1, <1>2, <1>3, <1>4, <1>6, SyncOpen(s) DEF SyncOpen, Reconciled

-----------------------------------------------------------------------------
(* Types *)

\* Everything that is not the sync's own doing stays as it was.
LEMMA AuthorizedTyped ==
  ASSUME Typed, NEW s \in Symbols, NEW level \in 0 .. MaxLevel, NEW quote \in Nat,
         NEW kept, kept \subseteq resting[s],
         Authorize(s, level, quote, Reconciled(s), kept),
         seen' = Reconciled(s), UNCHANGED <<held, basket>>
  PROVE  Typed'
<1> DEFINE E == Reconciled(s)
<1>1. /\ Shaped
      /\ Others(s, E)
      /\ slips \subseteq slips' /\ slips' \subseteq slips \cup Slips
      /\ budget' \in [faults : Nat, restarts : Nat, outside : Nat]
      /\ \/ Refused(s, E, kept)
         \/ Submitted(s, level, quote, E, kept)
         \/ Raised(s, level, quote, kept)
  BY Authorized
<1>2. seen' \in [Symbols -> Position]
  BY DEF Typed, TypeOK, Reconciled
<1>3. Pruned(E) \in [Symbols -> Reservation] BY PrunedTyped
<1>4. Order(s, level, quote) \in RestingOrder
  BY ReserveTyped DEF Order, RestingOrder, Typed, TypeOK
<1>5. /\ Cost[level] \in Nat /\ Reserve(level) \in Reservation
      /\ NoReservation \in Reservation
  BY ReserveTyped
<1>6. /\ resting[s] \subseteq RestingOrder /\ unseen[s] \in Nat
      /\ IsFiniteSet(kept)
  BY FS_Subset DEF Typed, TypeOK
<1>7. /\ resting'[s] \subseteq RestingOrder /\ IsFiniteSet(resting'[s])
      /\ unseen'[s] \in Nat /\ reserved'[s] \in Reservation
  <2>1. IsFiniteSet(kept \cup {Order(s, level, quote)}) BY <1>6, FS_AddElement
  <2> HIDE DEF E
  <2>2. ASSUME Taken(s, level, quote, kept)
        PROVE  /\ resting'[s] \subseteq RestingOrder /\ IsFiniteSet(resting'[s])
               /\ unseen'[s] \in Nat
    <3>1. (IF kept = {} THEN 0 ELSE unseen[s]) + Cost[level] \in Nat BY <1>5, <1>6
    <3>2. QED BY <1>4, <1>6, <2>1, <2>2, <3>1 DEF Taken
  <2>3. CASE Refused(s, E, kept) BY <1>3, <1>6, <2>3 DEF Refused
  <2>4. CASE Submitted(s, level, quote, E, kept) BY <1>5, <2>2, <2>4 DEF Submitted
  <2>5. CASE Raised(s, level, quote, kept) BY <1>5, <1>6, <2>2, <2>5 DEF Raised
  <2>6. QED BY <1>1, <2>3, <2>4, <2>5
<1>8. \A t \in Symbols : /\ resting'[t] \subseteq RestingOrder /\ IsFiniteSet(resting'[t])
                         /\ unseen'[t] \in Nat /\ reserved'[t] \in Reservation
  BY <1>1, <1>3, <1>7 DEF Others, Typed, TypeOK
<1>9. /\ resting' \in [Symbols -> SUBSET RestingOrder]
      /\ unseen' \in [Symbols -> Nat] /\ reserved' \in [Symbols -> Reservation]
  BY <1>1, <1>8 DEF Shaped
<1>10. QED BY <1>1, <1>2, <1>8, <1>9 DEF Typed, TypeOK

\* Initially every variable is in its range.
LEMMA TypedInit == Init => Typed
<1> SUFFICES ASSUME Init PROVE Typed OBVIOUS
<1>1. /\ Flat \in Position /\ NoReservation \in Reservation
  BY PortfolioAssumption DEF Flat, Position, NoReservation, Reservation
<1>2. budget \in [faults : Nat, restarts : Nat, outside : Nat]
  BY PortfolioAssumption DEF Init
<1>3. \A s \in Symbols : resting[s] = {} BY DEF Init
<1>4. QED BY <1>1, <1>2, <1>3, FS_EmptySet DEF Init, Typed, TypeOK


\* A fill takes q off an order's margin and moves what was paid into the position.
Filled(s, o, q, paid, orders) ==
  /\ o \in RestingOrder /\ o.left \in Nat \ {0} /\ q \in Nat /\ paid \in Nat
  /\ held' = [held EXCEPT ![s] = [orders |-> orders, margin |-> held[s].margin + paid]]
  /\ q = o.left => resting' = [resting EXCEPT ![s] = @ \ {o}]
  /\ q # o.left =>
       \E r \in RestingOrder :
         /\ r.left = o.left - q /\ r.basket = o.basket /\ r.level = o.level
         /\ resting' = [resting EXCEPT ![s] = (@ \ {o}) \cup {r}]
  /\ unseen' = [unseen EXCEPT ![s] = 0]
  /\ slips' = slips \cup (IF q = o.left THEN {} ELSE {"partial"})
                    \cup (IF paid > q THEN {"price"} ELSE {})
  /\ budget' = budget \/ Intervened
  /\ UNCHANGED <<basket, seen, reserved>>

\* A fill takes a quantity of one resting order of its symbol.
LEMMA FillFacts ==
  ASSUME Typed, NEW s \in Symbols, Fill(s)
  PROVE  \E o \in resting[s] : \E q \in 1 .. o.left : \E paid, orders \in Nat :
           Filled(s, o, q, paid, orders)
<1>1. PICK o \in resting[s] : \E q \in 1 .. o.left : \E paid \in Paid(s, o, q) :
        /\ held' = [held EXCEPT ![s] =
                      [orders |-> IF o.filledIn = basket[s] THEN @.orders ELSE @.orders + 1,
                       margin |-> @.margin + paid]]
        /\ resting' = [resting EXCEPT ![s] =
                         (@ \ {o}) \cup (IF q = o.left THEN {}
                                         ELSE {[o EXCEPT !.left = @ - q,
                                                         !.filledIn = basket[s]]})]
        /\ unseen' = [unseen EXCEPT ![s] = 0]
        /\ slips' = slips \cup (IF q = o.left THEN {} ELSE {"partial"})
                          \cup (IF paid > q THEN {"price"} ELSE {})
        /\ IF paid > q THEN Intervened ELSE UNCHANGED budget
        /\ UNCHANGED <<basket, seen, reserved>>
  BY DEF Fill
<1>b. PICK q \in 1 .. o.left : \E paid \in Paid(s, o, q) :
        /\ held' = [held EXCEPT ![s] =
                      [orders |-> IF o.filledIn = basket[s] THEN @.orders ELSE @.orders + 1,
                       margin |-> @.margin + paid]]
        /\ resting' = [resting EXCEPT ![s] =
                         (@ \ {o}) \cup (IF q = o.left THEN {}
                                         ELSE {[o EXCEPT !.left = @ - q,
                                                         !.filledIn = basket[s]]})]
        /\ unseen' = [unseen EXCEPT ![s] = 0]
        /\ slips' = slips \cup (IF q = o.left THEN {} ELSE {"partial"})
                          \cup (IF paid > q THEN {"price"} ELSE {})
        /\ IF paid > q THEN Intervened ELSE UNCHANGED budget
        /\ UNCHANGED <<basket, seen, reserved>>
  BY <1>1
<1>2. PICK paid \in Paid(s, o, q) :
        /\ held' = [held EXCEPT ![s] =
                      [orders |-> IF o.filledIn = basket[s] THEN @.orders ELSE @.orders + 1,
                       margin |-> @.margin + paid]]
        /\ resting' = [resting EXCEPT ![s] =
                         (@ \ {o}) \cup (IF q = o.left THEN {}
                                         ELSE {[o EXCEPT !.left = @ - q,
                                                         !.filledIn = basket[s]]})]
        /\ unseen' = [unseen EXCEPT ![s] = 0]
        /\ slips' = slips \cup (IF q = o.left THEN {} ELSE {"partial"})
                          \cup (IF paid > q THEN {"price"} ELSE {})
        /\ IF paid > q THEN Intervened ELSE UNCHANGED budget
        /\ UNCHANGED <<basket, seen, reserved>>
  BY <1>b
<1>3. /\ o \in RestingOrder /\ basket[s] \in Nat
      /\ held \in [Symbols -> Position] /\ resting \in [Symbols -> SUBSET RestingOrder]
  BY DEF Typed, TypeOK
<1>4. /\ o.left \in Nat \ {0} /\ o.level \in 0 .. MaxLevel /\ o.basket \in Nat
      /\ q \in Nat /\ held[s].orders \in Nat
  BY <1>3, <1>b DEF RestingOrder, Position
<1>a. paid \in Nat
  <2>1. Slippage[s] \in Nat BY PortfolioAssumption
  <2>2. q + Slippage[s] \in Nat BY <1>4, <2>1
  <2>3. QED BY <1>2, <1>4, <2>2 DEF Paid
<1> DEFINE orders == IF o.filledIn = basket[s] THEN held[s].orders ELSE held[s].orders + 1
           r == [o EXCEPT !.left = o.left - q, !.filledIn = basket[s]]
<1>5. orders \in Nat BY <1>4
<1>6. held' = [held EXCEPT ![s] = [orders |-> orders, margin |-> held[s].margin + paid]]
  BY <1>2, <1>3
<1>7. q # o.left => /\ r \in RestingOrder
                    /\ r.left = o.left - q /\ r.basket = o.basket /\ r.level = o.level
  <2>1. q # o.left => o.left - q \in Nat \ {0} BY <1>b, <1>4
  <2>2. o \in [level : 0 .. MaxLevel, quote : Nat, left : Nat \ {0},
               basket : Nat, filledIn : Nat \cup {-1}]
    BY <1>3 DEF RestingOrder
  <2>3. QED BY ONLY <1>3, <2>1, <2>2 DEF RestingOrder
<1>8. q = o.left => resting' = [resting EXCEPT ![s] = @ \ {o}]
  BY <1>2, <1>3
<1>9. q # o.left => resting' = [resting EXCEPT ![s] = (@ \ {o}) \cup {r}]
  BY <1>2, <1>3
<1> HIDE DEF orders, r
<1>10. Filled(s, o, q, paid, orders)
  BY <1>2, <1>3, <1>4, <1>a, <1>6, <1>7, <1>8, <1>9 DEF Filled
<1>11. QED BY <1>b, <1>a, <1>5, <1>10

\* Every step keeps the types.
LEMMA TypedStep == Typed /\ [Next]_vars => Typed'
<1> SUFFICES ASSUME Typed, [Next]_vars PROVE Typed' OBVIOUS
<1>a. /\ Flat \in Position /\ NoReservation \in Reservation
  BY PortfolioAssumption DEF Flat, Position, NoReservation, Reservation
<1>0. /\ held \in [Symbols -> Position]
      /\ resting \in [Symbols -> SUBSET RestingOrder]
      /\ unseen \in [Symbols -> Nat] /\ basket \in [Symbols -> Nat]
      /\ seen \in [Symbols -> Position] /\ reserved \in [Symbols -> Reservation]
      /\ slips \subseteq Slips
      /\ budget \in [faults : Nat, restarts : Nat, outside : Nat]
      /\ \A s \in Symbols : IsFiniteSet(resting[s])
      /\ Flat \in Position /\ NoReservation \in Reservation
  BY <1>a DEF Typed, TypeOK
<1>6. Intervened => budget' \in [faults : Nat, restarts : Nat, outside : Nat]
  <2>1. budget.outside > 0 => budget.outside - 1 \in Nat BY <1>0
  <2>2. QED BY <1>0, <2>1 DEF Intervened
<1>1. ASSUME NEW s \in Symbols, SyncFlat(s) PROVE Typed'
  BY <1>0, <1>1 DEF SyncFlat, Typed, TypeOK
<1>2. ASSUME NEW s \in Symbols, SyncEnter(s) PROVE Typed'
  <2>1. PICK quote \in Nat : Authorize(s, 0, quote, Reconciled(s), resting[s])
    BY <1>2, EnterFacts
  <2>2. QED BY <1>2, <2>1, EnterFacts, AuthorizedTyped
<1>3. ASSUME NEW s \in Symbols, SyncOpen(s) PROVE Typed'
  <2> DEFINE kept == EntriesOf(s) \cup KeptOrders(s, held[s].orders - 1)
  <2>1. /\ seen' \in [Symbols -> Position]
        /\ kept \subseteq resting[s] /\ IsFiniteSet(kept)
    BY <1>0, <1>3, OpenFacts, KeptResting, FS_Subset DEF Reconciled
  <2>2. CASE /\ resting' = [resting EXCEPT ![s] = kept]
             /\ UNCHANGED <<unseen, reserved, slips, budget>>
    <3>1. UNCHANGED <<held, basket>> BY <1>3, OpenFacts
    <3> HIDE DEF kept
    <3>2. \A t \in Symbols : resting'[t] \subseteq RestingOrder /\ IsFiniteSet(resting'[t])
      BY <1>0, <2>1, <2>2
    <3>3. QED BY <1>0, <2>1, <2>2, <3>1, <3>2 DEF Typed, TypeOK
  <2>3. CASE /\ held[s].orders \in 0 .. MaxLevel
             /\ Authorize(s, held[s].orders, 0, Reconciled(s), EntriesOf(s))
    BY <1>3, <2>3, OpenFacts, KeptResting, AuthorizedTyped
  <2>4. QED BY <1>3, <2>2, <2>3, OpenFacts
<1>4. ASSUME NEW s \in Symbols, Fill(s) PROVE Typed'
  <2>0. PICK o \in resting[s] : \E q \in 1 .. o.left : \E paid, orders \in Nat :
                                   Filled(s, o, q, paid, orders)
    BY <1>4, FillFacts
  <2>1. PICK q \in 1 .. o.left, paid \in Nat, orders \in Nat : Filled(s, o, q, paid, orders)
    BY <2>0
  <2>2. held' \in [Symbols -> Position]
    <3>1. held[s].margin + paid \in Nat BY <1>0, <2>1 DEF Position, Filled
    <3>2. QED BY <1>0, <2>1, <3>1 DEF Position, Filled
  <2>3. \A r : IsFiniteSet(resting[s] \ {o}) /\ IsFiniteSet((resting[s] \ {o}) \cup {r})
    BY <1>0, FS_Subset, FS_AddElement
  <2>4. /\ resting' \in [Symbols -> SUBSET RestingOrder]
        /\ \A t \in Symbols : IsFiniteSet(resting'[t])
    <3>1. CASE q = o.left BY <1>0, <2>1, <2>3, <3>1 DEF Filled
    <3>2. CASE q # o.left
      <4>1. PICK r \in RestingOrder : resting' = [resting EXCEPT ![s] = (@ \ {o}) \cup {r}]
        BY <2>1, <3>2 DEF Filled
      <4>2. (resting[s] \ {o}) \cup {r} \subseteq RestingOrder BY <1>0
      <4>3. QED BY <1>0, <2>3, <4>1, <4>2
    <3>3. QED BY <3>1, <3>2
  <2>5. /\ unseen' \in [Symbols -> Nat]
        /\ slips' \subseteq Slips
    BY <1>0, <2>1 DEF Filled, Slips
  <2>6. budget' \in [faults : Nat, restarts : Nat, outside : Nat]
    BY <1>0, <1>6, <2>1 DEF Filled
  <2>7. QED BY <1>0, <2>1, <2>2, <2>4, <2>5, <2>6 DEF Filled, Typed, TypeOK
<1>5. ASSUME NEW s \in Symbols, BalanceCatchesUp(s) PROVE Typed'
  BY <1>0, <1>5 DEF BalanceCatchesUp, Typed, TypeOK
<1>7. ASSUME NEW s \in Symbols, Close(s) PROVE Typed'
  <2>1. /\ held' \in [Symbols -> Position] /\ basket' \in [Symbols -> Nat]
        /\ slips' \subseteq Slips
        /\ UNCHANGED <<resting, unseen, seen, reserved>>
    BY <1>0, <1>7 DEF Close, Slips
  <2>2. budget' \in [faults : Nat, restarts : Nat, outside : Nat]
    BY <1>6, <1>7 DEF Close
  <2>3. QED BY <1>0, <2>1, <2>2 DEF Typed, TypeOK
<1>8. ASSUME NEW s \in Symbols, Cancel(s) PROVE Typed'
  <2>1. PICK o \in resting[s] : resting' = [resting EXCEPT ![s] = @ \ {o}]
    BY <1>8 DEF Cancel
  <2>2. IsFiniteSet(resting[s] \ {o}) BY <1>0, FS_Subset
  <2>3. /\ resting' \in [Symbols -> SUBSET RestingOrder]
        /\ \A t \in Symbols : IsFiniteSet(resting'[t])
    BY <1>0, <2>1, <2>2
  <2>4. /\ unseen' \in [Symbols -> Nat] /\ UNCHANGED <<held, basket, seen, reserved, slips>>
    BY <1>0, <1>8 DEF Cancel
  <2>5. budget' \in [faults : Nat, restarts : Nat, outside : Nat]
    BY <1>6, <1>8 DEF Cancel
  <2>6. QED BY <1>0, <2>3, <2>4, <2>5 DEF Typed, TypeOK
<1>9. ASSUME NEW s \in Symbols, Expire(s) PROVE Typed'
  <2>1. reserved' = [reserved EXCEPT ![s].expired = TRUE] BY <1>9 DEF Expire
  <2>2. reserved[s] \in [level : 0 .. MaxLevel, margin : Nat, expired : BOOLEAN]
    BY <1>0 DEF Reservation
  <2>3. [reserved[s] EXCEPT !.expired = TRUE] \in Reservation
    BY ONLY <2>2 DEF Reservation
  <2>4. reserved' \in [Symbols -> Reservation] BY <1>0, <2>1, <2>3
  <2>5. QED BY <1>0, <1>9, <2>4 DEF Expire, Typed, TypeOK
<1>10. ASSUME Snapshot PROVE Typed'
  <2>1. reserved' \in [Symbols -> Reservation] BY <1>10, PrunedTyped DEF Snapshot
  <2>2. slips' \subseteq Slips
    BY <1>0, <1>10 DEF Snapshot, Forgotten, Slips
  <2>3. QED BY <1>0, <1>10, <2>1, <2>2 DEF Snapshot, Typed, TypeOK
<1>11. ASSUME Restart PROVE Typed'
  <2>1. budget.restarts - 1 \in Nat BY <1>0, <1>11 DEF Restart
  <2>2. budget' \in [faults : Nat, restarts : Nat, outside : Nat]
    BY <1>0, <1>11, <2>1 DEF Restart
  <2>3. /\ seen' \in [Symbols -> Position] /\ reserved' \in [Symbols -> Reservation]
        /\ unseen' \in [Symbols -> Nat]
        /\ slips' \subseteq Slips
    BY <1>0, <1>11 DEF Restart, Slips
  <2>4. QED BY <1>0, <1>11, <2>2, <2>3 DEF Restart, Typed, TypeOK
<1>12. CASE UNCHANGED vars BY <1>0, <1>12 DEF vars, Typed, TypeOK
<1>13. QED BY <1>1, <1>2, <1>3, <1>4, <1>5, <1>7, <1>8, <1>9, <1>10, <1>11, <1>12 DEF Next

\* Every reachable state is well formed.
THEOREM PortfolioTyped == Spec => []TypeOK
<1>1. Init => Typed BY TypedInit
<1>2. Typed /\ [Next]_vars => Typed' BY TypedStep
<1>3. Typed => TypeOK BY DEF Typed
<1>4. QED BY <1>1, <1>2, <1>3, PTL DEF Spec


-----------------------------------------------------------------------------
(* Every order counted *)

\* The margin of a set of orders.
LeftOf(orders) == SumFunction([o \in orders |-> o.left])

\* No orders leave nothing to fill.
LEMMA LeftOfNone == LeftOf({}) = 0
<1> DEFINE f == [o \in {} |-> o.left]
<1>1. DOMAIN f = {} OBVIOUS
<1>2. IsFiniteSet(DOMAIN f) BY <1>1, FS_EmptySet
<1> HIDE DEF f
<1>3. PICK g : IsFold(g, f, {}) /\ SumFunction(f) = g[{}]
  BY <1>1, <1>2, FoldExists, SumIsFold
<1>4. g[{}] = 0 BY <1>3, FoldStep
<1>5. QED BY <1>3, <1>4 DEF LeftOf, f

\* One order leaves its own remainder.
LEMMA LeftOfOne ==
  ASSUME NEW o, o.left \in Nat
  PROVE  LeftOf({o}) = o.left
<1> DEFINE f == [x \in {o} |-> x.left]
<1>1. IsFiniteSet({o}) BY FS_Singleton
<1>2. f \in [{o} -> Nat] /\ f[o] = o.left OBVIOUS
<1>3. [y \in {o} \ {o} |-> f[y]] = [y \in {} |-> y.left] OBVIOUS
<1>4. SumFunction([y \in {o} \ {o} |-> f[y]]) = 0 BY <1>3, LeftOfNone DEF LeftOf
<1> HIDE DEF f
<1>5. SumFunction(f) = f[o] + SumFunction([y \in {o} \ {o} |-> f[y]])
  BY <1>1, <1>2, SumTake
<1>6. QED BY <1>2, <1>4, <1>5 DEF LeftOf, f

\* What a symbol commits is at least its position.
LEMMA LeftOfNat ==
  ASSUME NEW R \in SUBSET RestingOrder, IsFiniteSet(R)
  PROVE  /\ [o \in R |-> o.left] \in [R -> Nat]
         /\ LeftOf(R) \in Nat
<1>1. \A o \in R : o.left \in Nat BY DEF RestingOrder
<1>2. [o \in R |-> o.left] \in [R -> Nat] BY <1>1
<1>3. QED BY <1>2, SumNat DEF LeftOf

\* What a symbol commits is its position and its resting orders, before and after a step.
LEMMA CommittedIs ==
  ASSUME NEW s
  PROVE  /\ Committed(s) = held[s].margin + LeftOf(resting[s])
         /\ Committed(s)' = held'[s].margin + LeftOf(resting'[s])
BY DEF Committed, RestingMargin, LeftOf

\* An order for the next level has not landed in the exposure of the position it
\* was sent for.
LEMMA NextNotLanded ==
  ASSUME NEW reservation, NEW position, position.orders \in Nat,
         reservation.level = position.orders
  PROVE  ~Landed(reservation, position)
<1>1. CASE position.orders = 0 BY <1>1 DEF Landed, LevelOf
<1>2. CASE position.orders # 0
  <2>1. LevelOf(position) = position.orders - 1 BY <1>2 DEF LevelOf
  <2>2. QED BY <1>2, <2>1 DEF Landed
<1>3. QED BY <1>1, <1>2

\* In a state without slips the coordinator counts what each symbol commits.
LEMMA CountedBounds ==
  ASSUME Typed, NEW s \in Symbols, Covered(s) \/ CaughtUp(s)
  PROVE  Committed(s) <= Counted(s)
<1>1. /\ held[s].margin \in Nat /\ seen[s].margin \in Nat /\ reserved[s].margin \in Nat
  BY DEF Typed, TypeOK, Position, Reservation
<1>2. CASE Covered(s)
  <2>1. PICK o \in RestingOrder :
          /\ resting[s] = {o} /\ o.left = Cost[o.level] /\ seen[s] = held[s]
          /\ reserved[s].margin = Cost[o.level]
    BY <1>2 DEF Covered
  <2>2. o.left \in Nat BY <2>1 DEF RestingOrder
  <2>3. Committed(s) = held[s].margin + o.left BY <2>1, <2>2, LeftOfOne, CommittedIs
  <2>4. QED BY <1>1, <2>1, <2>2, <2>3 DEF Counted
<1>3. CASE CaughtUp(s)
  <2>1. Committed(s) = held[s].margin + 0 BY <1>3, LeftOfNone, CommittedIs DEF CaughtUp
  <2>2. QED BY <1>1, <1>3, <2>1 DEF CaughtUp, Counted
<1>4. QED BY <1>2, <1>3

\* Pruning forgets nothing that still counts, unless a reservation expired.
LEMMA PruningKeeps ==
  ASSUME Typed, NEW exposures \in [Symbols -> Position], NEW t \in Symbols,
         Covered(t) \/ CaughtUp(t), exposures[t] = seen[t],
         "expiry" \notin Forgotten(exposures)
  PROVE  \/ /\ Pruned(exposures)[t].margin = reserved[t].margin
            /\ Pruned(exposures)[t].level = reserved[t].level
         \/ resting[t] = {} /\ held[t].margin <= seen[t].margin
<1> DEFINE gone == reserved[t].expired \/ Landed(reserved[t], exposures[t])
<1>1. /\ held[t].margin \in Nat /\ seen[t].margin \in Nat
      /\ held[t].orders \in Nat
  BY DEF Typed, TypeOK, Position
<1>2. Pruned(exposures)[t] = IF gone THEN NoReservation ELSE reserved[t]
  BY DEF Pruned
<1>3. CASE ~gone BY <1>2, <1>3
<1>4. CASE gone /\ ~Landed(reserved[t], exposures[t])
  <2>1. ~(Committed(t) > exposures[t].margin) BY <1>4 DEF Forgotten
  <2>2. ~Covered(t)
    <3>1. SUFFICES ASSUME NEW o \in RestingOrder, resting[t] = {o}, seen[t] = held[t]
                   PROVE  FALSE
      BY DEF Covered
    <3>2. o.left \in Nat \ {0} BY DEF RestingOrder
    <3>3. Committed(t) = held[t].margin + o.left BY <3>1, <3>2, LeftOfOne, CommittedIs
    <3>4. QED BY <1>1, <2>1, <3>1, <3>2, <3>3
  <2>3. CaughtUp(t) BY <2>2
  <2>4. Committed(t) = held[t].margin + 0
    BY <2>3, LeftOfNone, CommittedIs DEF CaughtUp
  <2>5. QED BY <1>1, <2>1, <2>3, <2>4 DEF CaughtUp
<1>5. CASE Landed(reserved[t], exposures[t])
  <2>1. ~Covered(t)
    <3>1. SUFFICES ASSUME seen[t] = held[t], reserved[t].level = held[t].orders
                   PROVE  FALSE
      BY DEF Covered, NextLevel
    <3>2. QED BY <1>1, <1>5, <3>1, NextNotLanded
  <2>2. QED BY <1>5, <2>1 DEF CaughtUp
<1>6. QED BY <1>3, <1>4, <1>5


\* So a symbol nothing else happens to stays counted.
LEMMA PrunedStaysCounted ==
  ASSUME Typed, NEW exposures \in [Symbols -> Position], NEW t \in Symbols,
         Covered(t) \/ CaughtUp(t), exposures[t] = seen[t],
         "expiry" \notin Forgotten(exposures),
         held'[t] = held[t], resting'[t] = resting[t], basket'[t] = basket[t],
         seen'[t] = exposures[t], reserved'[t] = Pruned(exposures)[t]
  PROVE  Covered(t)' \/ CaughtUp(t)'
<1>1. CASE /\ reserved'[t].margin = reserved[t].margin
           /\ reserved'[t].level = reserved[t].level
  <2>1. CASE Covered(t) BY <1>1, <2>1 DEF Covered, NextLevel
  <2>2. CASE CaughtUp(t) BY <1>1, <2>2 DEF CaughtUp, Landed
  <2>3. QED BY <2>1, <2>2
<1>2. CASE resting[t] = {} /\ held[t].margin <= seen[t].margin
  BY <1>2 DEF CaughtUp
<1>3. QED BY <1>1, <1>2, PruningKeeps

\* The orders kept of one order.
LEMMA KeptOfOne ==
  ASSUME Typed, NEW s \in Symbols, Covered(s), held[s].orders > 0
  PROVE  /\ EntriesOf(s) \cup KeptOrders(s, held[s].orders - 1) = resting[s]
         /\ KeptOrders(s, held[s].orders - 1) # {}
<1>1. PICK o \in RestingOrder :
        /\ resting[s] = {o} /\ o.level = held[s].orders /\ o.basket = basket[s]
        /\ o.left = Cost[o.level]
  BY DEF Covered, NextLevel
<1>2. o.level \in 0 .. MaxLevel /\ o.left \in Nat /\ held[s].orders \in Nat /\ MaxLevel \in Nat
  BY PortfolioAssumption DEF RestingOrder, Typed, TypeOK, Position
<1>3. held[s].orders - 1 # MaxLevel BY <1>1, <1>2
<1>4. {p \in resting[s] : p.level > 0 /\ p.left < Cost[p.level]} = {}
  BY <1>1, <1>2
<1>5. KeptOrders(s, held[s].orders - 1)
        = {p \in resting[s] : p.level = held[s].orders - 1 + 1 /\ p.basket = basket[s]}
  BY <1>3, <1>4 DEF KeptOrders
<1>6. held[s].orders - 1 + 1 = held[s].orders BY <1>2
<1>7. KeptOrders(s, held[s].orders - 1) = {o} BY <1>1, <1>5, <1>6
<1>8. QED BY <1>1, <1>7 DEF EntriesOf

\* An authorization that keeps all orders of its symbol leaves it counted.
LEMMA AuthorizedStaysCounted ==
  ASSUME Typed, NEW s \in Symbols, NEW quote \in Nat, NEW kept,
         held[s].orders \in 0 .. MaxLevel,
         \A t \in Symbols : Covered(t) \/ CaughtUp(t),
         Authorize(s, held[s].orders, quote, Reconciled(s), kept),
         kept = resting[s],
         Covered(s) => held[s].orders = 0,
         seen' = Reconciled(s), UNCHANGED <<held, basket>>, slips' = {}
  PROVE  \A t \in Symbols : Covered(t)' \/ CaughtUp(t)'
<1> DEFINE E == Reconciled(s)
<1>1. /\ Others(s, E) /\ "expiry" \notin Forgotten(E)
      /\ \/ Refused(s, E, kept)
         \/ Submitted(s, held[s].orders, quote, E, kept)
         \/ Raised(s, held[s].orders, quote, kept)
  BY Authorized
<1>2. E \in [Symbols -> Position] /\ E[s] = held[s]
      /\ \A t \in Symbols \ {s} : E[t] = seen[t]
  BY DEF Reconciled, Typed, TypeOK
<1>3. /\ held[s].margin \in Nat /\ held[s].orders \in Nat /\ basket[s] \in Nat
  BY DEF Typed, TypeOK, Position
<1> HIDE DEF E
<1>4. ASSUME NEW t \in Symbols \ {s} PROVE Covered(t)' \/ CaughtUp(t)'
  <2>1. Covered(t) \/ CaughtUp(t) OBVIOUS
  <2>2. /\ held'[t] = held[t] /\ resting'[t] = resting[t] /\ basket'[t] = basket[t]
        /\ seen'[t] = E[t] /\ reserved'[t] = Pruned(E)[t] /\ E[t] = seen[t]
    BY <1>1, <1>2 DEF Others, E
  <2>3. QED BY <1>1, <1>2, <2>1, <2>2, PrunedStaysCounted
<1>5. seen'[s] = held'[s] /\ held'[s] = held[s] /\ basket'[s] = basket[s]
  BY <1>2 DEF E
<1>6. ASSUME resting'[s] = {} PROVE CaughtUp(s)'
  <2>1. held'[s].margin <= seen'[s].margin BY <1>3, <1>5
  <2>2. QED BY <1>6, <2>1 DEF CaughtUp
<1>7. ASSUME CaughtUp(s) PROVE Covered(s)' \/ CaughtUp(s)'
  <2>1. kept = {} BY <1>7 DEF CaughtUp
  <2>2. CASE Refused(s, E, kept) BY <1>6, <2>1, <2>2 DEF Refused
  <2>3. CASE Raised(s, held[s].orders, quote, kept) BY <1>6, <2>3 DEF Raised
  <2>4. CASE Submitted(s, held[s].orders, quote, E, kept)
    <3> DEFINE o == Order(s, held[s].orders, quote)
    <3>1. resting'[s] = {o} BY <1>7, <2>1, <2>4 DEF Submitted, Taken, Sent, CaughtUp
    <3>2. /\ o \in RestingOrder /\ o.level = held[s].orders
          /\ o.left = Cost[held[s].orders] /\ o.basket = basket[s]
      BY <1>3, ReserveTyped DEF Order, RestingOrder
    <3>3. /\ reserved'[s].level = held[s].orders
          /\ reserved'[s].margin = Cost[held[s].orders]
      BY <2>4, ReserveTyped DEF Submitted
    <3> HIDE DEF o
    <3>4. Covered(s)' BY <1>5, <3>1, <3>2, <3>3 DEF Covered, NextLevel
    <3>5. QED BY <3>4
  <2>5. QED BY <1>1, <2>2, <2>3, <2>4
<1>8. ASSUME Covered(s) PROVE Covered(s)' \/ CaughtUp(s)'
  <2>1. PICK o \in RestingOrder :
          /\ resting[s] = {o} /\ o.level = held[s].orders /\ o.left = Cost[o.level]
          /\ o.basket = basket[s] /\ seen[s] = held[s]
          /\ reserved[s].level = o.level /\ reserved[s].margin = Cost[o.level]
    BY <1>8 DEF Covered, NextLevel
  <2>2. CASE Refused(s, E, kept)
    <3>1. E[s] = seen[s] BY <1>2, <2>1
    <3>2. Covered(s) \/ CaughtUp(s) OBVIOUS
    <3>3. /\ resting'[s] = resting[s] /\ reserved'[s] = Pruned(E)[s] /\ seen'[s] = E[s]
      BY <2>2 DEF Refused, E
    <3>4. QED BY <1>1, <1>2, <1>5, <3>1, <3>2, <3>3, PrunedStaysCounted
  <2>3. CASE Raised(s, held[s].orders, quote, kept)
    <3>1. resting'[s] = {} BY <2>3 DEF Raised
    <3>2. QED BY <1>6, <3>1
  <2>4. CASE Submitted(s, held[s].orders, quote, E, kept)
    <3>1. Sent(s, held[s].orders, quote)
      <4>1. Doubled(s, held[s].orders, quote, kept) = {} BY <2>4 DEF Submitted
      <4>2. kept # {} BY <2>1
      <4>3. QED BY <4>1, <4>2 DEF Doubled
    <3>2. resting'[s] = {o} BY <2>1, <2>4, <3>1 DEF Submitted, Taken
    <3>3. /\ reserved'[s].level = held[s].orders
          /\ reserved'[s].margin = Cost[held[s].orders]
      BY <2>4, ReserveTyped DEF Submitted
    <3>4. Covered(s)' BY <1>5, <2>1, <3>2, <3>3 DEF Covered, NextLevel
    <3>5. QED BY <3>4
  <2>5. QED BY <1>1, <2>2, <2>3, <2>4
<1>9. QED BY <1>4, <1>7, <1>8


\* Every step keeps the count, as long as nothing slips.
LEMMA CountedStep == Typed /\ CountedOK /\ [Next]_vars => CountedOK'
<1> SUFFICES ASSUME Typed, CountedOK, [Next]_vars, slips' = {}
             PROVE  \A t \in Symbols : Covered(t)' \/ CaughtUp(t)'
  BY DEF CountedOK
<1>0. /\ held \in [Symbols -> Position]
      /\ resting \in [Symbols -> SUBSET RestingOrder]
      /\ basket \in [Symbols -> Nat] /\ seen \in [Symbols -> Position]
      /\ reserved \in [Symbols -> Reservation]
      /\ \A t \in Symbols : held[t].margin \in Nat /\ held[t].orders \in Nat
                            /\ seen[t].margin \in Nat /\ reserved[t].margin \in Nat
      /\ Flat.margin = 0
  BY DEF Typed, TypeOK, Position, Reservation, Flat
<1>a. slips \subseteq slips' => \A t \in Symbols : Covered(t) \/ CaughtUp(t)
  BY DEF CountedOK
<1>b. ASSUME UNCHANGED <<held, resting, basket, seen, reserved, slips>>
      PROVE  \A t \in Symbols : Covered(t)' \/ CaughtUp(t)'
  BY <1>a, <1>b DEF Covered, CaughtUp, NextLevel
<1>1. ASSUME NEW s \in Symbols, SyncFlat(s)
      PROVE  \A t \in Symbols : Covered(t)' \/ CaughtUp(t)'
  <2>1. /\ held[s] = Flat /\ seen' = [seen EXCEPT ![s] = Flat]
        /\ UNCHANGED <<held, resting, basket, reserved, slips>>
    BY <1>1 DEF SyncFlat
  <2>2. \A t \in Symbols : Covered(t) \/ CaughtUp(t) BY <1>a, <2>1
  <2>3. ASSUME NEW t \in Symbols, seen'[t] = seen[t]
        PROVE  Covered(t)' \/ CaughtUp(t)'
    BY <2>1, <2>2, <2>3 DEF Covered, CaughtUp, NextLevel
  <2>4. CASE Covered(s)
    <3>1. seen[s] = Flat BY <2>1, <2>4 DEF Covered
    <3>2. QED BY <1>0, <2>1, <2>3, <3>1
  <2>5. CASE CaughtUp(s)
    <3>1. CaughtUp(s)' BY <1>0, <2>1, <2>5 DEF CaughtUp
    <3>2. QED BY <1>0, <2>1, <2>3, <3>1
  <2>6. QED BY <2>2, <2>4, <2>5
<1>2. ASSUME NEW s \in Symbols, SyncEnter(s)
      PROVE  \A t \in Symbols : Covered(t)' \/ CaughtUp(t)'
  <2>1. held[s].orders = 0 BY <1>2, EnterFacts DEF Flat
  <2>2. PICK quote \in Nat :
          Authorize(s, held[s].orders, quote, Reconciled(s), resting[s])
    BY <1>2, <2>1, EnterFacts
  <2>3. held[s].orders \in 0 .. MaxLevel BY <1>2, <2>1, EnterFacts
  <2>4. slips \subseteq slips' BY <2>2, <2>3, Authorized
  <2>5. QED BY <1>2, <1>a, <2>1, <2>2, <2>3, <2>4, EnterFacts, AuthorizedStaysCounted
<1>3. ASSUME NEW s \in Symbols, SyncOpen(s)
      PROVE  \A t \in Symbols : Covered(t)' \/ CaughtUp(t)'
  <2> DEFINE kept == EntriesOf(s) \cup KeptOrders(s, held[s].orders - 1)
  <2>1. /\ held[s].orders > 0 /\ seen' = Reconciled(s) /\ UNCHANGED <<held, basket>>
    BY <1>3, OpenFacts
  <2>2. CASE /\ resting' = [resting EXCEPT ![s] = kept]
             /\ UNCHANGED <<unseen, reserved, slips, budget>>
    <3>1. \A t \in Symbols : Covered(t) \/ CaughtUp(t) BY <1>a, <2>2
    <3>2. kept = resting[s]
      <4>1. CASE Covered(s) BY <2>1, <4>1, KeptOfOne
      <4>2. CASE CaughtUp(s) BY <4>2, KeptResting DEF CaughtUp
      <4>3. QED BY <3>1, <4>1, <4>2
    <3> HIDE DEF kept
    <3>3. resting' = resting BY <1>0, <2>2, <3>2
    <3>4. seen'[s] = held[s] /\ \A t \in Symbols \ {s} : seen'[t] = seen[t]
      BY <1>0, <2>1 DEF Reconciled
    <3>5. ASSUME NEW t \in Symbols, seen'[t] = seen[t]
          PROVE  Covered(t)' \/ CaughtUp(t)'
      BY <2>1, <2>2, <3>1, <3>3, <3>5 DEF Covered, CaughtUp, NextLevel
    <3>6. CASE Covered(s)
      <4>1. seen[s] = held[s] BY <3>6 DEF Covered
      <4>2. QED BY <3>4, <3>5, <4>1
    <3>7. CASE CaughtUp(s)
      <4>1. held'[s].margin <= seen'[s].margin BY <1>0, <2>1, <3>4
      <4>2. CaughtUp(s)' BY <3>3, <3>7, <4>1 DEF CaughtUp
      <4>3. QED BY <3>4, <3>5, <4>2
    <3>8. QED BY <3>1, <3>6, <3>7
  <2>3. CASE /\ held[s].orders \in 0 .. MaxLevel
             /\ KeptOrders(s, held[s].orders - 1) = {}
             /\ Authorize(s, held[s].orders, 0, Reconciled(s), EntriesOf(s))
    <3>1. slips \subseteq slips' BY <2>3, Authorized
    <3>2. \A t \in Symbols : Covered(t) \/ CaughtUp(t) BY <1>a, <3>1
    <3>3. ~Covered(s) BY <2>1, <2>3, KeptOfOne
    <3>4. EntriesOf(s) = resting[s] BY <3>2, <3>3, KeptResting DEF CaughtUp
    <3>5. QED BY <2>1, <2>3, <3>2, <3>3, <3>4, AuthorizedStaysCounted
  <2>4. QED BY <1>3, <2>2, <2>3, OpenFacts
<1>4. ASSUME NEW s \in Symbols, Fill(s)
      PROVE  \A t \in Symbols : Covered(t)' \/ CaughtUp(t)'
  <2>0. PICK o \in resting[s] : \E q \in 1 .. o.left : \E paid, orders \in Nat :
                                   Filled(s, o, q, paid, orders)
    BY <1>4, FillFacts
  <2>1. PICK q \in 1 .. o.left, paid \in Nat, orders \in Nat : Filled(s, o, q, paid, orders)
    BY <2>0
  <2>2. /\ q = o.left /\ ~(paid > q)
        /\ slips \subseteq slips'
    BY <2>1 DEF Filled
  <2>3. \A t \in Symbols : Covered(t) \/ CaughtUp(t) BY <1>a, <2>2
  <2>4. Covered(s) BY <2>3 DEF CaughtUp
  <2>5. /\ resting[s] = {o} /\ o.level = held[s].orders /\ o.left = Cost[o.level]
        /\ seen[s] = held[s]
        /\ reserved[s].level = o.level /\ reserved[s].margin = Cost[o.level]
    BY <2>4 DEF Covered, NextLevel
  <2>6. /\ held'[s].margin = held[s].margin + paid
        /\ resting'[s] = {}
        /\ UNCHANGED <<basket, seen, reserved>>
        /\ \A t \in Symbols \ {s} : held'[t] = held[t] /\ resting'[t] = resting[t]
    BY <1>0, <2>1, <2>2, <2>5 DEF Filled
  <2>7. ~Landed(reserved[s], seen[s]) BY <1>0, <2>5, NextNotLanded
  <2>8. held'[s].margin <= seen'[s].margin + reserved'[s].margin
    <3>1. paid <= Cost[o.level] /\ paid \in Nat /\ Cost[o.level] \in Nat
      BY <2>1, <2>2, <2>5 DEF Filled
    <3>2. QED BY <1>0, <2>5, <2>6, <3>1
  <2>9. ~Landed(reserved[s], seen[s])' BY <2>6, <2>7 DEF Landed
  <2>10. CaughtUp(s)' BY <2>6, <2>8, <2>9 DEF CaughtUp
  <2>11. ASSUME NEW t \in Symbols \ {s} PROVE Covered(t)' \/ CaughtUp(t)'
    BY <2>3, <2>6 DEF Covered, CaughtUp, NextLevel
  <2>12. QED BY <2>10, <2>11
<1>5. ASSUME NEW s \in Symbols, BalanceCatchesUp(s)
      PROVE  \A t \in Symbols : Covered(t)' \/ CaughtUp(t)'
  BY <1>b, <1>5 DEF BalanceCatchesUp
<1>6. ASSUME NEW s \in Symbols, Close(s)
      PROVE  \A t \in Symbols : Covered(t)' \/ CaughtUp(t)'
  <2>1. /\ held' = [held EXCEPT ![s] = Flat] /\ basket' = [basket EXCEPT ![s] = @ + 1]
        /\ slips' = slips \cup (IF resting[s] = {} THEN {} ELSE {"orphan"})
        /\ UNCHANGED <<resting, seen, reserved>>
    BY <1>6 DEF Close
  <2>2. resting[s] = {} /\ \A t \in Symbols : Covered(t) \/ CaughtUp(t)
    BY <1>a, <2>1
  <2>3. CaughtUp(s)' BY <1>0, <2>1, <2>2 DEF CaughtUp
  <2>4. ASSUME NEW t \in Symbols \ {s} PROVE Covered(t)' \/ CaughtUp(t)'
    <3>1. held'[t] = held[t] /\ basket'[t] = basket[t] BY <1>0, <2>1
    <3>2. QED BY <2>1, <2>2, <3>1 DEF Covered, CaughtUp, NextLevel
  <2>5. QED BY <2>3, <2>4
<1>7. ASSUME NEW s \in Symbols, Cancel(s)
      PROVE  \A t \in Symbols : Covered(t)' \/ CaughtUp(t)'
  <2>1. PICK o \in resting[s] : resting' = [resting EXCEPT ![s] = @ \ {o}]
    BY <1>7 DEF Cancel
  <2>2. UNCHANGED <<held, basket, seen, reserved, slips>> BY <1>7 DEF Cancel
  <2>3. \A t \in Symbols : Covered(t) \/ CaughtUp(t) BY <1>a, <2>2
  <2>4. Covered(s) BY <2>3 DEF CaughtUp
  <2>5. resting'[s] = {} /\ seen[s] = held[s] BY <1>0, <2>1, <2>4 DEF Covered
  <2>6. CaughtUp(s)' BY <1>0, <2>2, <2>5 DEF CaughtUp
  <2>7. ASSUME NEW t \in Symbols \ {s} PROVE Covered(t)' \/ CaughtUp(t)'
    <3>1. resting'[t] = resting[t] BY <1>0, <2>1
    <3>2. QED BY <2>2, <2>3, <3>1 DEF Covered, CaughtUp, NextLevel
  <2>8. QED BY <2>6, <2>7
<1>8. ASSUME NEW s \in Symbols, Expire(s)
      PROVE  \A t \in Symbols : Covered(t)' \/ CaughtUp(t)'
  <2>1. /\ reserved' = [reserved EXCEPT ![s].expired = TRUE]
        /\ UNCHANGED <<held, resting, basket, seen, slips>>
    BY <1>8 DEF Expire
  <2>2. \A t \in Symbols : Covered(t) \/ CaughtUp(t) BY <1>a, <2>1
  <2>3. ASSUME NEW t \in Symbols
        PROVE  reserved'[t].level = reserved[t].level /\ reserved'[t].margin = reserved[t].margin
    <3>1. CASE t = s
      <4>1. reserved[s] \in [level : 0 .. MaxLevel, margin : Nat, expired : BOOLEAN]
        BY <1>0 DEF Reservation
      <4>2. reserved'[s] = [reserved[s] EXCEPT !.expired = TRUE] BY <1>0, <2>1
      <4>3. QED BY ONLY <3>1, <4>1, <4>2
    <3>2. CASE t # s BY <1>0, <2>1, <3>2
    <3>3. QED BY <3>1, <3>2
  <2>4. QED BY <2>1, <2>2, <2>3 DEF Covered, CaughtUp, NextLevel, Landed
<1>9. ASSUME Snapshot PROVE \A t \in Symbols : Covered(t)' \/ CaughtUp(t)'
  <2>1. /\ reserved' = Pruned(seen) /\ slips' = slips \cup Forgotten(seen)
        /\ UNCHANGED <<held, resting, basket, seen>>
    BY <1>9 DEF Snapshot
  <2>2. \A t \in Symbols : Covered(t) \/ CaughtUp(t) BY <1>a, <2>1
  <2>3. "expiry" \notin Forgotten(seen) BY <2>1
  <2>4. QED BY <1>0, <2>1, <2>2, <2>3, PrunedStaysCounted
<1>10. ASSUME Restart PROVE FALSE BY <1>10 DEF Restart
<1>11. CASE UNCHANGED vars BY <1>b, <1>11 DEF vars
<1>12. QED
  BY <1>1, <1>2, <1>3, <1>4, <1>5, <1>6, <1>7, <1>8, <1>9, <1>10, <1>11 DEF Next


\* Initially everything is counted, because nothing is committed.
LEMMA CountedInit == Init => CountedOK
<1> SUFFICES ASSUME Init, NEW s \in Symbols PROVE CaughtUp(s)
  BY DEF CountedOK
<1>1. held[s].margin = 0 /\ seen[s].margin = 0 /\ resting[s] = {} BY DEF Init, Flat
<1>2. QED BY <1>1 DEF CaughtUp

\* Without a slip the coordinator counts, for every symbol, at least what the
\* symbol commits, from the submission of an order to the close.
THEOREM OrdersCounted == Spec => []EveryOrderCounted
<1>1. Init => Typed /\ CountedOK BY TypedInit, CountedInit
<1>2. Typed /\ CountedOK /\ [Next]_vars => Typed' /\ CountedOK'
  BY TypedStep, CountedStep
<1>3. Typed /\ CountedOK => EveryOrderCounted
  BY CountedBounds DEF CountedOK, EveryOrderCounted
<1>4. QED BY <1>1, <1>2, <1>3, PTL DEF Spec


-----------------------------------------------------------------------------
(* Totals *)

\* What a symbol commits is a natural number, before and after a step.
LEMMA CommittedNat ==
  /\ Typed => \A t \in Symbols : Committed(t) \in Nat
  /\ Typed' => \A t \in Symbols : Committed(t)' \in Nat
<1>1. ASSUME Typed, NEW t \in Symbols PROVE Committed(t) \in Nat
  <2>1. LeftOf(resting[t]) \in Nat BY <1>1, LeftOfNat DEF Typed, TypeOK
  <2>2. held[t].margin \in Nat BY <1>1 DEF Typed, TypeOK, Position
  <2>3. QED BY <2>1, <2>2, CommittedIs
<1>2. ASSUME Typed', NEW t \in Symbols PROVE Committed(t)' \in Nat
  <2>1. LeftOf(resting'[t]) \in Nat BY <1>2, LeftOfNat DEF Typed, TypeOK
  <2>2. held'[t].margin \in Nat BY <1>2 DEF Typed, TypeOK, Position
  <2>3. QED BY <2>1, <2>2, CommittedIs
<1>3. QED BY <1>1, <1>2

\* A sum over the symbols, of margins and of the same margins with leverage.
Margins(f) == SumFunction(f)
Notionals(f) == SumFunction([t \in Symbols |-> Leverage[t] * f[t]])

\* The two totals are the sums over the symbols, before and after a step.
LEMMA TotalsAre ==
  /\ TotalCommitted = Margins([t \in Symbols |-> Committed(t)])
  /\ TotalCommitted' = Margins([t \in Symbols |-> Committed(t)'])
  /\ TotalNotional = Notionals([t \in Symbols |-> Committed(t)])
  /\ TotalNotional' = Notionals([t \in Symbols |-> Committed(t)'])
BY DEF TotalCommitted, TotalNotional, Margins, Notionals

\* Notionals are natural numbers when margins are.
LEMMA LeverageTyped ==
  ASSUME NEW f \in [Symbols -> Nat]
  PROVE  [t \in Symbols |-> Leverage[t] * f[t]] \in [Symbols -> Nat]
BY PortfolioAssumption, Scaling

\* The sums over the symbols are natural numbers.
LEMMA TotalsNat ==
  ASSUME NEW f \in [Symbols -> Nat]
  PROVE  Margins(f) \in Nat /\ Notionals(f) \in Nat
BY PortfolioAssumption, LeverageTyped, SumNat DEF Margins, Notionals

\* More for each symbol is more in all.
LEMMA TotalsMonotone ==
  ASSUME NEW f \in [Symbols -> Nat], NEW e \in [Symbols -> Nat],
         \A t \in Symbols : f[t] <= e[t]
  PROVE  Margins(f) <= Margins(e) /\ Notionals(f) <= Notionals(e)
<1>1. Margins(f) <= Margins(e) BY PortfolioAssumption, SumMonotone DEF Margins
<1> DEFINE F == [t \in Symbols |-> Leverage[t] * f[t]]
           E == [t \in Symbols |-> Leverage[t] * e[t]]
<1>2. F \in [Symbols -> Nat] /\ E \in [Symbols -> Nat] BY LeverageTyped
<1>3. \A t \in Symbols : Leverage[t] \in Nat BY PortfolioAssumption
<1>4. \A t \in Symbols : F[t] <= E[t] BY <1>3, Scaling
<1> HIDE DEF F, E
<1>5. SumFunction(F) <= SumFunction(E)
  BY <1>2, <1>4, PortfolioAssumption, SumMonotone
<1>6. QED BY <1>1, <1>5 DEF Notionals, F, E

\* One symbol more by c.
LEMMA TotalsReplace ==
  ASSUME NEW f \in [Symbols -> Nat], NEW s \in Symbols, NEW c \in Nat,
         NEW e \in [Symbols -> Nat], e[s] = f[s] + c,
         \A t \in Symbols \ {s} : f[t] = e[t]
  PROVE  /\ Margins(e) = Margins(f) + c
         /\ Notionals(e) = Notionals(f) + Leverage[s] * c
<1> DEFINE F == [t \in Symbols |-> Leverage[t] * f[t]]
           E == [t \in Symbols |-> Leverage[t] * e[t]]
<1>1. e \in [Symbols -> Nat] OBVIOUS
<1>2. e[s] = f[s] + c /\ \A t \in Symbols \ {s} : f[t] = e[t] OBVIOUS
<1>3. f[s] \in Nat /\ Leverage[s] \in Nat /\ Leverage[s] * c \in Nat
      /\ IsFiniteSet(Symbols)
  BY PortfolioAssumption, Scaling
<1>4. Margins(e) + f[s] = Margins(f) + e[s]
  BY <1>1, <1>2, <1>3, SumReplace DEF Margins
<1>5. Margins(e) = Margins(f) + c
  <2>1. Margins(e) \in Nat /\ Margins(f) \in Nat BY <1>1, TotalsNat
  <2>2. Margins(e) + f[s] = Margins(f) + (f[s] + c) BY <1>2, <1>4
  <2>3. f[s] \in Nat /\ c \in Nat BY <1>3
  <2>4. QED BY ONLY <2>1, <2>2, <2>3
<1>6. F \in [Symbols -> Nat] /\ E \in [Symbols -> Nat] BY <1>1, LeverageTyped
<1>7. \A t \in Symbols \ {s} : F[t] = E[t] BY <1>2
<1>8. F[s] \in Nat /\ E[s] = F[s] + Leverage[s] * c
  BY <1>2, <1>3, Scaling
<1> HIDE DEF F, E
<1>9. SumFunction(E) + F[s] = SumFunction(F) + E[s]
  BY <1>3, <1>6, <1>7, SumReplace
<1>10. SumFunction(E) \in Nat /\ SumFunction(F) \in Nat BY <1>3, <1>6, SumNat
<1>11. SumFunction(E) = SumFunction(F) + Leverage[s] * c
  <2>1. SumFunction(E) + F[s] = SumFunction(F) + (F[s] + Leverage[s] * c)
    BY <1>8, <1>9
  <2>2. F[s] \in Nat /\ Leverage[s] * c \in Nat BY <1>3, <1>8
  <2>3. QED BY ONLY <1>10, <2>1, <2>2
<1>12. QED BY <1>1, <1>5, <1>11 DEF Notionals, E, F

\* When no symbol commits more, neither do all together.
LEMMA Shrinks ==
  ASSUME Typed, Typed', \A t \in Symbols : Committed(t)' <= Committed(t)
  PROVE  /\ TotalCommitted \in Nat /\ TotalCommitted' \in Nat
         /\ TotalNotional \in Nat /\ TotalNotional' \in Nat
         /\ TotalCommitted' <= TotalCommitted
         /\ TotalNotional' <= TotalNotional
<1> DEFINE f == [t \in Symbols |-> Committed(t)'] e == [t \in Symbols |-> Committed(t)]
<1>1. f \in [Symbols -> Nat] /\ e \in [Symbols -> Nat] BY CommittedNat
<1>2. \A t \in Symbols : f[t] <= e[t] OBVIOUS
<1>3. /\ TotalCommitted = Margins(e) /\ TotalCommitted' = Margins(f)
      /\ TotalNotional = Notionals(e) /\ TotalNotional' = Notionals(f)
  BY TotalsAre
<1> HIDE DEF f, e
<1>4. QED BY <1>1, <1>2, <1>3, TotalsMonotone, TotalsNat


\* Fewer orders leave no more to fill.
LEMMA LeftOfSubset ==
  ASSUME NEW Q \in SUBSET RestingOrder, IsFiniteSet(Q), NEW R, R \subseteq Q
  PROVE  LeftOf(R) <= LeftOf(Q)
<1>1. IsFiniteSet(R) /\ R \in SUBSET RestingOrder BY FS_Subset
<1> DEFINE f == [o \in R |-> o.left] e == [o \in Q |-> o.left]
<1>2. f \in [R -> Nat] /\ e \in [Q -> Nat] BY <1>1, LeftOfNat
<1>3. \A o \in R : f[o] <= e[o]
  <2>1. \A o \in R : f[o] \in Nat /\ f[o] = e[o] BY <1>2
  <2>2. QED BY <2>1
<1> HIDE DEF f, e
<1>4. SumFunction(f) <= SumFunction(e) BY <1>2, <1>3, SumMonotone
<1>5. QED BY <1>4 DEF LeftOf, f, e

\* One more order adds at most its remainder.
LEMMA LeftOfAdd ==
  ASSUME NEW R \in SUBSET RestingOrder, IsFiniteSet(R), NEW o \in RestingOrder
  PROVE  LeftOf(R \cup {o}) <= LeftOf(R) + o.left
<1> DEFINE e == [p \in R \cup {o} |-> p.left]
<1>1. IsFiniteSet(R \cup {o}) /\ R \cup {o} \in SUBSET RestingOrder BY FS_AddElement
<1>2. e \in [R \cup {o} -> Nat] BY <1>1, LeftOfNat
<1>3. e[o] = o.left /\ [p \in R |-> e[p]] = [p \in R |-> p.left] OBVIOUS
<1> HIDE DEF e
<1>4. SumFunction(e) <= SumFunction([p \in R |-> e[p]]) + e[o] BY <1>2, SumAdd
<1>5. QED BY <1>3, <1>4 DEF LeftOf, e

\* One order less takes exactly its remainder away.
LEMMA LeftOfRemove ==
  ASSUME NEW R \in SUBSET RestingOrder, IsFiniteSet(R), NEW o \in R
  PROVE  LeftOf(R) = o.left + LeftOf(R \ {o})
<1> DEFINE e == [p \in R |-> p.left]
<1>1. e \in [R -> Nat] BY LeftOfNat
<1>2. e[o] = o.left /\ [p \in R \ {o} |-> e[p]] = [p \in R \ {o} |-> p.left] OBVIOUS
<1> HIDE DEF e
<1>3. SumFunction(e) = e[o] + SumFunction([p \in R \ {o} |-> e[p]]) BY <1>1, SumTake
<1>4. QED BY <1>2, <1>3 DEF LeftOf, e

\* A step that buys: one symbol may commit the order's margin more.
Bought(s, level) ==
  /\ Allowed(s, level, Reconciled(s), Pruned(Reconciled(s)))
  /\ Forgotten(Reconciled(s)) \subseteq slips'
  /\ \A t \in Symbols \ {s} : Committed(t)' <= Committed(t)
  /\ Committed(s)' <= Committed(s) + Cost[level]

NothingBought == \A t \in Symbols : Committed(t)' <= Committed(t)

\* What a step that keeps a symbol's position and shrinks its orders does.
LEMMA FewerOrders ==
  ASSUME Typed, NEW t \in Symbols, held'[t] = held[t], resting'[t] \subseteq resting[t]
  PROVE  Committed(t)' <= Committed(t)
<1>1. /\ resting[t] \in SUBSET RestingOrder /\ IsFiniteSet(resting[t])
      /\ held[t].margin \in Nat
  BY DEF Typed, TypeOK, Position
<1>2. IsFiniteSet(resting'[t]) /\ resting'[t] \in SUBSET RestingOrder
  BY <1>1, FS_Subset
<1>3. LeftOf(resting'[t]) <= LeftOf(resting[t]) BY <1>1, LeftOfSubset
<1>4. LeftOf(resting'[t]) \in Nat /\ LeftOf(resting[t]) \in Nat
  BY <1>1, <1>2, LeftOfNat
<1>5. QED BY <1>1, <1>3, <1>4, CommittedIs

\* An authorisation commits nothing new, commits one order the limits allow, or is a lost answer.
LEMMA AuthorizedCommits ==
  ASSUME Typed, NEW s \in Symbols, NEW level \in 0 .. MaxLevel, NEW quote \in Nat,
         NEW kept, kept \subseteq resting[s],
         Authorize(s, level, quote, Reconciled(s), kept), UNCHANGED <<held, basket>>
  PROVE  NothingBought \/ "lost" \in slips' \/ Bought(s, level)
<1> DEFINE E == Reconciled(s)
<1>1. /\ Others(s, E) /\ Forgotten(E) \subseteq slips'
      /\ \/ Refused(s, E, kept)
         \/ Submitted(s, level, quote, E, kept)
         \/ Raised(s, level, quote, kept)
  BY Authorized
<1> HIDE DEF E
<1>2. \A t \in Symbols \ {s} : Committed(t)' <= Committed(t)
  <2>1. SUFFICES ASSUME NEW t \in Symbols \ {s} PROVE Committed(t)' <= Committed(t)
    OBVIOUS
  <2>2. resting'[t] = resting[t] /\ held'[t] = held[t] BY <1>1 DEF Others
  <2>3. QED BY <2>2, FewerOrders
<1>3. ASSUME resting'[s] \subseteq resting[s] PROVE NothingBought
  <2>1. Committed(s)' <= Committed(s) BY <1>3, FewerOrders
  <2>2. QED BY <1>2, <2>1 DEF NothingBought
<1>4. CASE Refused(s, E, kept) BY <1>3, <1>4 DEF Refused
<1>5. CASE Raised(s, level, quote, kept)
  <2>1. CASE resting'[s] = {} BY <1>3, <2>1
  <2>2. CASE resting'[s] # {} BY <1>5, <2>2 DEF Raised
  <2>3. QED BY <2>1, <2>2
<1>6. CASE Submitted(s, level, quote, E, kept)
  <2>1. CASE resting'[s] = kept BY <1>3, <2>1
  <2>2. CASE resting'[s] = kept \cup {Order(s, level, quote)}
    <3>1. /\ resting[s] \in SUBSET RestingOrder /\ IsFiniteSet(resting[s])
          /\ held[s].margin \in Nat /\ basket[s] \in Nat
      BY DEF Typed, TypeOK, Position
    <3>2. kept \in SUBSET RestingOrder /\ IsFiniteSet(kept) BY <3>1, FS_Subset
    <3>3. Order(s, level, quote) \in RestingOrder /\ Order(s, level, quote).left = Cost[level]
          /\ Cost[level] \in Nat
      BY <3>1, ReserveTyped DEF Order, RestingOrder
    <3>4. LeftOf(kept \cup {Order(s, level, quote)}) <= LeftOf(kept) + Cost[level]
      BY <3>2, <3>3, LeftOfAdd
    <3>5. LeftOf(kept) <= LeftOf(resting[s]) BY <3>1, LeftOfSubset
    <3>6. /\ LeftOf(kept) \in Nat /\ LeftOf(resting[s]) \in Nat
          /\ LeftOf(kept \cup {Order(s, level, quote)}) \in Nat
      <4>1. kept \cup {Order(s, level, quote)} \in SUBSET RestingOrder BY <3>2, <3>3
      <4>2. IsFiniteSet(kept \cup {Order(s, level, quote)}) BY <3>2, FS_AddElement
      <4>3. QED BY <3>1, <3>2, <4>1, <4>2, LeftOfNat
    <3>7. LeftOf(resting'[s]) <= LeftOf(resting[s]) + Cost[level]
          /\ LeftOf(resting'[s]) \in Nat
      BY <2>2, <3>3, <3>4, <3>5, <3>6
    <3>8. Committed(s)' <= Committed(s) + Cost[level]
      <4>1. held'[s].margin = held[s].margin OBVIOUS
      <4>2. QED BY <3>1, <3>3, <3>6, <3>7, <4>1, CommittedIs
    <3>9. Allowed(s, level, E, Pruned(E)) BY <1>6 DEF Submitted
    <3>10. QED BY <1>1, <1>2, <3>8, <3>9 DEF Bought, E
  <2>3. QED BY <1>6, <2>1, <2>2 DEF Submitted, Taken
<1>7. QED BY <1>1, <1>4, <1>5, <1>6


\* A slip, once seen, stays.
LEMMA SlipsGrow == [Next]_vars => slips \subseteq slips'
<1> SUFFICES ASSUME [Next]_vars PROVE slips \subseteq slips' OBVIOUS
<1>1. ASSUME NEW s, NEW level, NEW quote, NEW exposures, NEW kept,
             Authorize(s, level, quote, exposures, kept)
      PROVE  slips \subseteq slips'
  BY <1>1 DEF Authorize
<1>2. ASSUME NEW s \in Symbols,
             \/ SyncFlat(s) \/ SyncEnter(s) \/ SyncOpen(s)
             \/ Fill(s) \/ BalanceCatchesUp(s) \/ Close(s) \/ Cancel(s) \/ Expire(s)
      PROVE  slips \subseteq slips'
  <2>1. CASE SyncFlat(s) BY <2>1 DEF SyncFlat
  <2>2. CASE SyncEnter(s) BY <1>1, <2>2 DEF SyncEnter
  <2>3. CASE SyncOpen(s) BY <1>1, <2>3 DEF SyncOpen
  <2>4. CASE Fill(s) BY <2>4 DEF Fill
  <2>5. CASE BalanceCatchesUp(s) BY <2>5 DEF BalanceCatchesUp
  <2>6. CASE Close(s) BY <2>6 DEF Close
  <2>7. CASE Cancel(s) BY <2>7 DEF Cancel
  <2>8. CASE Expire(s) BY <2>8 DEF Expire
  <2>9. QED BY <1>2, <2>1, <2>2, <2>3, <2>4, <2>5, <2>6, <2>7, <2>8
<1>3. CASE Snapshot BY <1>3 DEF Snapshot
<1>4. CASE Restart BY <1>4 DEF Restart
<1>5. CASE UNCHANGED vars BY <1>5 DEF vars
<1>6. QED BY <1>2, <1>3, <1>4, <1>5 DEF Next

\* Only an authorization adds to what the account commits.
LEMMA CommitsStep ==
  ASSUME Typed, [Next]_vars
  PROVE  \/ NothingBought
         \/ "lost" \in slips' \/ "price" \in slips'
         \/ \E s \in Symbols : \E level \in 0 .. MaxLevel : Bought(s, level)
<1>0. /\ held \in [Symbols -> Position]
      /\ resting \in [Symbols -> SUBSET RestingOrder]
      /\ \A t \in Symbols : IsFiniteSet(resting[t])
  BY DEF Typed, TypeOK
<1>a. ASSUME UNCHANGED held, \A t \in Symbols : resting'[t] \subseteq resting[t]
      PROVE  NothingBought
  BY <1>a, FewerOrders DEF NothingBought
<1>b. ASSUME UNCHANGED <<held, resting>> PROVE NothingBought
  BY <1>a, <1>b
<1>1. ASSUME NEW s \in Symbols, SyncFlat(s) PROVE NothingBought
  BY <1>b, <1>1 DEF SyncFlat
<1>2. ASSUME NEW s \in Symbols, SyncEnter(s)
      PROVE  \/ NothingBought
             \/ "lost" \in slips'
             \/ \E level \in 0 .. MaxLevel : Bought(s, level)
  <2>1. PICK quote \in Nat : Authorize(s, 0, quote, Reconciled(s), resting[s])
    BY <1>2, EnterFacts
  <2>2. QED BY <1>2, <2>1, EnterFacts, AuthorizedCommits
<1>3. ASSUME NEW s \in Symbols, SyncOpen(s)
      PROVE  \/ NothingBought
             \/ "lost" \in slips'
             \/ \E level \in 0 .. MaxLevel : Bought(s, level)
  <2> DEFINE kept == EntriesOf(s) \cup KeptOrders(s, held[s].orders - 1)
  <2>1. UNCHANGED <<held, basket>> /\ kept \subseteq resting[s]
    BY <1>3, OpenFacts, KeptResting
  <2>2. CASE resting' = [resting EXCEPT ![s] = kept]
    <3> HIDE DEF kept
    <3>1. \A t \in Symbols : resting'[t] \subseteq resting[t] BY <1>0, <2>1, <2>2
    <3>2. QED BY <1>a, <2>1, <3>1
  <2>3. CASE /\ held[s].orders \in 0 .. MaxLevel
             /\ Authorize(s, held[s].orders, 0, Reconciled(s), EntriesOf(s))
    BY <2>1, <2>3, KeptResting, AuthorizedCommits
  <2>4. QED BY <1>3, <2>2, <2>3, OpenFacts
<1>4. ASSUME NEW s \in Symbols, Fill(s) PROVE NothingBought \/ "price" \in slips'
  <2>0. PICK o \in resting[s] : \E q \in 1 .. o.left : \E paid, orders \in Nat :
                                   Filled(s, o, q, paid, orders)
    BY <1>4, FillFacts
  <2>1. PICK q \in 1 .. o.left, paid \in Nat, orders \in Nat : Filled(s, o, q, paid, orders)
    BY <2>0
  <2>a. SUFFICES ASSUME "price" \notin slips' PROVE NothingBought OBVIOUS
  <2>b. paid <= q /\ paid \in Nat /\ q \in Nat BY <2>1, <2>a DEF Filled
  <2>2. ASSUME NEW t \in Symbols \ {s} PROVE Committed(t)' <= Committed(t)
    <3>1. held'[t] = held[t] BY <1>0, <2>1 DEF Filled
    <3>2. resting'[t] = resting[t]
      <4>1. CASE q = o.left BY <1>0, <2>1, <4>1 DEF Filled
      <4>2. CASE q # o.left BY <1>0, <2>1, <4>2 DEF Filled
      <4>3. QED BY <4>1, <4>2
    <3>3. QED BY <3>1, <3>2, FewerOrders
  <2> DEFINE R == resting[s]
  <2>3. /\ R \in SUBSET RestingOrder /\ IsFiniteSet(R)
        /\ R \ {o} \in SUBSET RestingOrder /\ IsFiniteSet(R \ {o})
    BY <1>0, FS_Subset
  <2>4. /\ LeftOf(R) \in Nat /\ LeftOf(R \ {o}) \in Nat
        /\ LeftOf(R) = o.left + LeftOf(R \ {o})
    BY <2>3, LeftOfNat, LeftOfRemove
  <2>5. /\ held[s].margin \in Nat /\ held'[s].margin = held[s].margin + paid
        /\ o.left \in Nat \ {0} /\ q \in Nat
    BY <1>0, <2>1 DEF Filled, Position
  <2>6. LeftOf(resting'[s]) \in Nat /\ LeftOf(resting'[s]) + q <= LeftOf(R)
    <3>1. CASE q = o.left
      <4>1. resting'[s] = R \ {o} BY <1>0, <2>1, <3>1 DEF Filled
      <4>2. QED BY <2>4, <2>5, <3>1, <4>1
    <3>2. CASE q # o.left
      <4>1. PICK r \in RestingOrder :
              /\ r.left = o.left - q
              /\ resting' = [resting EXCEPT ![s] = (@ \ {o}) \cup {r}]
        BY <2>1, <3>2 DEF Filled
      <4>2. resting'[s] = (R \ {o}) \cup {r} BY <1>0, <4>1
      <4>3. LeftOf((R \ {o}) \cup {r}) <= LeftOf(R \ {o}) + r.left
        BY <2>3, LeftOfAdd
      <4>4. LeftOf((R \ {o}) \cup {r}) \in Nat
        <5>1. (R \ {o}) \cup {r} \in SUBSET RestingOrder BY <2>3
        <5>2. IsFiniteSet((R \ {o}) \cup {r}) BY <2>3, FS_AddElement
        <5>3. QED BY <5>1, <5>2, LeftOfNat
      <4> HIDE DEF R
      <4>5. LeftOf((R \ {o}) \cup {r}) <= LeftOf(R \ {o}) + (o.left - q)
        BY <4>1, <4>3
      <4>6. o.left \in Nat /\ q \in Nat BY <2>5
      <4>7. LeftOf((R \ {o}) \cup {r}) + q <= LeftOf(R)
        BY ONLY <2>4, <4>4, <4>5, <4>6
      <4>8. QED BY <4>2, <4>4, <4>7
    <3>3. QED BY <3>1, <3>2
  <2>7. Committed(s)' <= Committed(s)
    BY <2>b, <2>4, <2>5, <2>6, CommittedIs
  <2>8. QED BY <2>2, <2>7 DEF NothingBought
<1>5. ASSUME NEW s \in Symbols, BalanceCatchesUp(s) PROVE NothingBought
  BY <1>b, <1>5 DEF BalanceCatchesUp
<1>6. ASSUME NEW s \in Symbols, Close(s) PROVE NothingBought
  <2>1. held' = [held EXCEPT ![s] = Flat] /\ UNCHANGED resting BY <1>6 DEF Close
  <2>2. ASSUME NEW t \in Symbols PROVE Committed(t)' <= Committed(t)
    <3>1. LeftOf(resting[t]) \in Nat /\ held[t].margin \in Nat
      BY <1>0, LeftOfNat DEF Position
    <3>2. held'[t].margin <= held[t].margin /\ held'[t].margin \in Nat
      BY <1>0, <2>1, <3>1 DEF Flat
    <3>3. QED BY <2>1, <3>1, <3>2, CommittedIs
  <2>3. QED BY <2>2 DEF NothingBought
<1>7. ASSUME NEW s \in Symbols, Cancel(s) PROVE NothingBought
  <2>1. PICK o \in resting[s] : resting' = [resting EXCEPT ![s] = @ \ {o}]
    BY <1>7 DEF Cancel
  <2>2. \A t \in Symbols : resting'[t] \subseteq resting[t] BY <1>0, <2>1
  <2>3. UNCHANGED held BY <1>7 DEF Cancel
  <2>4. QED BY <1>a, <2>2, <2>3
<1>8. ASSUME NEW s \in Symbols, Expire(s) PROVE NothingBought
  BY <1>b, <1>8 DEF Expire
<1>9. ASSUME Snapshot PROVE NothingBought BY <1>b, <1>9 DEF Snapshot
<1>10. ASSUME Restart PROVE NothingBought BY <1>b, <1>10 DEF Restart
<1>11. ASSUME UNCHANGED vars PROVE NothingBought BY <1>b, <1>11 DEF vars
<1>12. QED
  BY <1>1, <1>2, <1>3, <1>4, <1>5, <1>6, <1>7, <1>8, <1>9, <1>10, <1>11 DEF Next


-----------------------------------------------------------------------------
(* The portfolio limits *)

\* What the guard projects: the exposures and the reservations left by pruning.
Projected(s) ==
  [t \in Symbols |-> Reconciled(s)[t].margin + Pruned(Reconciled(s))[t].margin]

\* What the coordinator projects for each symbol is a natural number.
LEMMA ProjectedNat ==
  ASSUME Typed, NEW s \in Symbols
  PROVE  /\ Projected(s) \in [Symbols -> Nat]
         /\ \A t \in Symbols : /\ Reconciled(s)[t].margin \in Nat
                               /\ Pruned(Reconciled(s))[t].margin \in Nat
                               /\ Reconciled(s)[t] \in Position
<1>1. Reconciled(s) \in [Symbols -> Position] BY DEF Reconciled, Typed, TypeOK
<1>2. Pruned(Reconciled(s)) \in [Symbols -> Reservation] BY PrunedTyped
<1>3. \A t \in Symbols : /\ Reconciled(s)[t].margin \in Nat
                         /\ Pruned(Reconciled(s))[t].margin \in Nat
  BY <1>1, <1>2 DEF Position, Reservation
<1>4. QED BY <1>1, <1>3 DEF Projected

\* Without a slip the guard projects at least what every symbol commits.
LEMMA ProjectedCounts ==
  ASSUME Typed, NEW s \in Symbols, \A t \in Symbols : Covered(t) \/ CaughtUp(t),
         "expiry" \notin Forgotten(Reconciled(s))
  PROVE  \A t \in Symbols : Committed(t) <= Projected(s)[t]
<1> DEFINE E == Reconciled(s)
<1>1. /\ E \in [Symbols -> Position] /\ E[s] = held[s]
      /\ \A t \in Symbols \ {s} : E[t] = seen[t]
  BY DEF Reconciled, Typed, TypeOK
<1>2. \A t \in Symbols : /\ E[t].margin \in Nat /\ Pruned(E)[t].margin \in Nat
                         /\ held[t].margin \in Nat /\ seen[t].margin \in Nat
                         /\ reserved[t].margin \in Nat
  BY ProjectedNat DEF Typed, TypeOK, Position, Reservation
<1>3. \A t \in Symbols : Projected(s)[t] = E[t].margin + Pruned(E)[t].margin
  BY DEF Projected
<1> HIDE DEF E
<1>4. ASSUME NEW t \in Symbols, E[t] = seen[t] PROVE Committed(t) <= Projected(s)[t]
  <2>1. Covered(t) \/ CaughtUp(t) OBVIOUS
  <2>2. CASE Pruned(E)[t].margin = reserved[t].margin
    <3>1. Committed(t) <= Counted(t) BY <2>1, CountedBounds
    <3>2. QED BY <1>3, <1>4, <2>2, <3>1 DEF Counted
  <2>3. CASE resting[t] = {} /\ held[t].margin <= seen[t].margin
    <3>1. Committed(t) = held[t].margin + 0 BY <2>3, LeftOfNone, CommittedIs
    <3>2. QED BY <1>2, <1>3, <1>4, <2>3, <3>1
  <2>4. "expiry" \notin Forgotten(E) BY DEF E
  <2>5. QED BY <1>1, <1>4, <2>1, <2>2, <2>3, <2>4, PruningKeeps
<1>5. Committed(s) <= Projected(s)[s]
  <2>1. CASE Covered(s)
    <3>1. E[s] = seen[s] BY <1>1, <2>1 DEF Covered
    <3>2. QED BY <1>4, <3>1
  <2>2. CASE CaughtUp(s)
    <3>1. Committed(s) = held[s].margin + 0
      BY <2>2, LeftOfNone, CommittedIs DEF CaughtUp
    <3>2. QED BY <1>1, <1>2, <1>3, <3>1
  <2>3. QED BY <2>1, <2>2
<1>6. QED BY <1>1, <1>4, <1>5

\* While everything is counted, every step stays within the limits.
LEMMA LimitsStep ==
  Typed /\ CountedOK /\ WithinLimits /\ [Next]_vars => WithinLimits'
<1> SUFFICES ASSUME Typed, CountedOK, WithinLimits, [Next]_vars, slips' = {}
             PROVE  TotalCommitted' <= MarginLimit /\ TotalNotional' <= NotionalLimit
  BY DEF WithinLimits
<1>1. Typed' BY TypedStep
<1>2. slips = {} BY SlipsGrow
<1>3. TotalCommitted <= MarginLimit /\ TotalNotional <= NotionalLimit
  BY <1>2 DEF WithinLimits
<1>4. MarginLimit \in Nat /\ NotionalLimit \in Nat BY PortfolioAssumption
<1>5. CASE NothingBought
  <2>1. \A t \in Symbols : Committed(t)' <= Committed(t) BY <1>5 DEF NothingBought
  <2>2. QED BY <1>1, <1>3, <1>4, <2>1, Shrinks
<1>6. ASSUME NEW s \in Symbols, NEW level \in 0 .. MaxLevel, Bought(s, level)
      PROVE  TotalCommitted' <= MarginLimit /\ TotalNotional' <= NotionalLimit
  <2> DEFINE c == Cost[level]
             e == Projected(s)
             f == [t \in Symbols |-> Committed(t)']
             g == [e EXCEPT ![s] = @ + c]
  <2>1. c \in Nat BY ReserveTyped
  <2>2. "expiry" \notin Forgotten(Reconciled(s)) BY <1>6 DEF Bought
  <2>3. \A t \in Symbols : Committed(t) <= e[t]
    BY <1>2, <2>2, ProjectedCounts DEF CountedOK
  <2>4. e \in [Symbols -> Nat] /\ f \in [Symbols -> Nat]
    BY <1>1, ProjectedNat, CommittedNat
  <2>5. \A t \in Symbols : Committed(t) \in Nat BY CommittedNat
  <2>6. /\ Margins(e) + c <= MarginLimit
        /\ Notionals(e) + Leverage[s] * c <= NotionalLimit
    BY <1>6 DEF Bought, Allowed, Projected, Margins, Notionals
  <2>7. TotalCommitted' = Margins(f) /\ TotalNotional' = Notionals(f) BY TotalsAre
  <2>8. \A t \in Symbols \ {s} : f[t] <= Committed(t)
    BY <1>6 DEF Bought
  <2>9. f[s] <= Committed(s) + c BY <1>6 DEF Bought
  <2> HIDE DEF e, f, c
  <2>10. /\ g \in [Symbols -> Nat] /\ Margins(g) = Margins(e) + c
         /\ Notionals(g) = Notionals(e) + Leverage[s] * c
    <3>1. /\ g \in [Symbols -> Nat] /\ g[s] = e[s] + c
          /\ \A t \in Symbols \ {s} : e[t] = g[t]
      BY <2>1, <2>4
    <3> HIDE DEF g
    <3>2. QED BY <2>1, <2>4, <3>1, TotalsReplace
  <2>11. \A t \in Symbols : f[t] <= g[t]
    <3>1. ASSUME NEW t \in Symbols \ {s} PROVE f[t] <= g[t]
      <4>1. g[t] = e[t] /\ f[t] \in Nat /\ e[t] \in Nat BY <2>4
      <4>2. QED BY <2>3, <2>5, <2>8, <4>1
    <3>2. f[s] <= g[s]
      <4>1. g[s] = e[s] + c /\ f[s] \in Nat /\ e[s] \in Nat BY <2>4
      <4>2. QED BY <2>1, <2>3, <2>5, <2>9, <4>1
    <3>3. QED BY <3>1, <3>2
  <2> HIDE DEF g
  <2>12. Margins(f) <= Margins(g) /\ Notionals(f) <= Notionals(g)
    BY <2>4, <2>10, <2>11, TotalsMonotone
  <2>13. /\ Margins(f) \in Nat /\ Notionals(f) \in Nat
         /\ Margins(g) \in Nat /\ Notionals(g) \in Nat
    BY <2>4, <2>10, TotalsNat
  <2>14. Margins(g) <= MarginLimit /\ Notionals(g) <= NotionalLimit
    BY <2>6, <2>10
  <2>15. QED BY <1>4, <2>7, <2>12, <2>13, <2>14
<1>7. QED BY <1>5, <1>6, CommitsStep

\* Initially nothing is committed.
LEMMA TotalsInit == Init => TotalCommitted = 0 /\ TotalNotional = 0
<1> SUFFICES ASSUME Init PROVE TotalCommitted = 0 /\ TotalNotional = 0 OBVIOUS
<1> DEFINE f == [t \in Symbols |-> Committed(t)]
           F == [t \in Symbols |-> Leverage[t] * f[t]]
<1>1. \A t \in Symbols : Committed(t) = 0
  <2>1. SUFFICES ASSUME NEW t \in Symbols PROVE Committed(t) = 0 OBVIOUS
  <2>2. resting[t] = {} /\ held[t].margin = 0 BY DEF Init, Flat
  <2>3. Committed(t) = 0 + 0 BY <2>2, LeftOfNone, CommittedIs
  <2>4. QED BY <2>3
<1>2. f \in [Symbols -> Nat] /\ \A t \in Symbols : f[t] = 0 BY <1>1
<1>3. F \in [Symbols -> Nat] /\ \A t \in Symbols : F[t] = 0
  BY <1>2, LeverageTyped, PortfolioAssumption
<1>4. TotalCommitted = Margins(f) /\ TotalNotional = Notionals(f) BY TotalsAre
<1> HIDE DEF f
<1>5. Margins(f) = 0 BY <1>2, PortfolioAssumption, SumZero DEF Margins
<1> HIDE DEF F
<1>6. SumFunction(F) = 0 BY <1>3, PortfolioAssumption, SumZero
<1>7. QED BY <1>4, <1>5, <1>6 DEF Notionals, F

\* Without a slip the margin and the notional of all symbols, orders still
\* resting included, never exceed the configured limits.
THEOREM LimitsHold == Spec => []WithinLimits
<1>1. Init => Typed /\ CountedOK /\ WithinLimits
  BY TypedInit, CountedInit, TotalsInit, PortfolioAssumption DEF WithinLimits
<1>2. Typed /\ CountedOK /\ WithinLimits /\ [Next]_vars
        => Typed' /\ CountedOK' /\ WithinLimits'
  BY TypedStep, CountedStep, LimitsStep
<1>3. QED BY <1>1, <1>2, PTL DEF Spec


-----------------------------------------------------------------------------
(* The reserve floor *)

\* No order is of a basket that is still to come.
LEMMA BasketsStep == Typed /\ BasketsOK /\ [Next]_vars => BasketsOK'
<1> SUFFICES ASSUME Typed, BasketsOK, [Next]_vars PROVE BasketsOK' OBVIOUS
<1>0. /\ resting \in [Symbols -> SUBSET RestingOrder] /\ basket \in [Symbols -> Nat]
      /\ \A t \in Symbols : \A o \in resting[t] : o.basket \in Nat
  BY DEF Typed, TypeOK, RestingOrder
<1>a. ASSUME UNCHANGED basket, \A t \in Symbols : resting'[t] \subseteq resting[t]
      PROVE  BasketsOK'
  BY <1>a DEF BasketsOK
<1>b. ASSUME NEW s \in Symbols, NEW level \in 0 .. MaxLevel, NEW quote \in Nat,
             NEW exposures, NEW kept, kept \subseteq resting[s], UNCHANGED basket,
             Authorize(s, level, quote, exposures, kept)
      PROVE  BasketsOK'
  <2>1. /\ Others(s, exposures)
        /\ resting'[s] = kept \/ resting'[s] = kept \cup {Order(s, level, quote)}
    BY <1>b, Authorized DEF Refused, Submitted, Raised, Taken
  <2>2. Order(s, level, quote).basket = basket[s] BY DEF Order
  <2>3. basket[s] \in Nat BY <1>0
  <2>4. \A o \in resting'[s] : o.basket <= basket[s]
    BY <1>b, <2>1, <2>2, <2>3 DEF BasketsOK
  <2>5. \A t \in Symbols \ {s} : resting'[t] = resting[t] BY <2>1 DEF Others
  <2>6. QED BY <1>b, <2>4, <2>5 DEF BasketsOK
<1>1. ASSUME NEW s \in Symbols, SyncFlat(s) PROVE BasketsOK'
  BY <1>a, <1>1 DEF SyncFlat
<1>2. ASSUME NEW s \in Symbols, SyncEnter(s) PROVE BasketsOK'
  <2>1. PICK quote \in Nat : Authorize(s, 0, quote, Reconciled(s), resting[s])
    BY <1>2, EnterFacts
  <2>2. QED BY <1>b, <1>2, <2>1, EnterFacts
<1>3. ASSUME NEW s \in Symbols, SyncOpen(s) PROVE BasketsOK'
  <2> DEFINE kept == EntriesOf(s) \cup KeptOrders(s, held[s].orders - 1)
  <2>1. UNCHANGED basket /\ kept \subseteq resting[s] BY <1>3, OpenFacts, KeptResting
  <2>2. CASE resting' = [resting EXCEPT ![s] = kept]
    <3> HIDE DEF kept
    <3>1. \A t \in Symbols : resting'[t] \subseteq resting[t] BY <1>0, <2>1, <2>2
    <3>2. QED BY <1>a, <2>1, <3>1
  <2>3. CASE /\ held[s].orders \in 0 .. MaxLevel
             /\ Authorize(s, held[s].orders, 0, Reconciled(s), EntriesOf(s))
    BY <1>b, <2>1, <2>3, KeptResting
  <2>4. QED BY <1>3, <2>2, <2>3, OpenFacts
<1>4. ASSUME NEW s \in Symbols, Fill(s) PROVE BasketsOK'
  <2>0. PICK o \in resting[s] : \E q \in 1 .. o.left : \E paid, orders \in Nat :
                                   Filled(s, o, q, paid, orders)
    BY <1>4, FillFacts
  <2>1. PICK q \in 1 .. o.left, paid \in Nat, orders \in Nat : Filled(s, o, q, paid, orders)
    BY <2>0
  <2>2. UNCHANGED basket BY <2>1 DEF Filled
  <2>3. CASE q = o.left
    <3>1. \A t \in Symbols : resting'[t] \subseteq resting[t]
      BY <1>0, <2>1, <2>3 DEF Filled
    <3>2. QED BY <1>a, <2>2, <3>1
  <2>4. CASE q # o.left
    <3>1. PICK r \in RestingOrder :
            /\ r.basket = o.basket
            /\ resting' = [resting EXCEPT ![s] = (@ \ {o}) \cup {r}]
      BY <2>1, <2>4 DEF Filled
    <3>2. /\ resting'[s] = (resting[s] \ {o}) \cup {r}
          /\ \A t \in Symbols \ {s} : resting'[t] = resting[t]
      BY <1>0, <3>1
    <3>3. QED BY <2>2, <3>1, <3>2 DEF BasketsOK
  <2>5. QED BY <2>3, <2>4
<1>5. ASSUME NEW s \in Symbols, BalanceCatchesUp(s) PROVE BasketsOK'
  BY <1>a, <1>5 DEF BalanceCatchesUp
<1>6. ASSUME NEW s \in Symbols, Close(s) PROVE BasketsOK'
  <2>1. basket' = [basket EXCEPT ![s] = @ + 1] /\ UNCHANGED resting BY <1>6 DEF Close
  <2>2. ASSUME NEW t \in Symbols, NEW o \in resting[t] PROVE o.basket <= basket'[t]
    <3>1. o.basket <= basket[t] /\ o.basket \in Nat /\ basket[t] \in Nat
      BY <1>0 DEF BasketsOK
    <3>2. basket'[t] = basket[t] \/ basket'[t] = basket[t] + 1 BY <1>0, <2>1
    <3>3. QED BY <3>1, <3>2
  <2>3. QED BY <2>1, <2>2 DEF BasketsOK
<1>7. ASSUME NEW s \in Symbols, Cancel(s) PROVE BasketsOK'
  <2>1. PICK o \in resting[s] : resting' = [resting EXCEPT ![s] = @ \ {o}]
    BY <1>7 DEF Cancel
  <2>2. \A t \in Symbols : resting'[t] \subseteq resting[t] BY <1>0, <2>1
  <2>3. UNCHANGED basket BY <1>7 DEF Cancel
  <2>4. QED BY <1>a, <2>2, <2>3
<1>8. ASSUME NEW s \in Symbols, Expire(s) PROVE BasketsOK' BY <1>a, <1>8 DEF Expire
<1>9. ASSUME Snapshot PROVE BasketsOK' BY <1>a, <1>9 DEF Snapshot
<1>10. ASSUME Restart PROVE BasketsOK' BY <1>a, <1>10 DEF Restart
<1>11. CASE UNCHANGED vars BY <1>a, <1>11 DEF vars
<1>12. QED
  BY <1>1, <1>2, <1>3, <1>4, <1>5, <1>6, <1>7, <1>8, <1>9, <1>10, <1>11 DEF Next

\* A flat symbol has nothing landed.
LEMMA FlatNotLanded ==
  ASSUME NEW reservation, NEW position, position.orders = 0, reservation.level \in Nat
  PROVE  ~Landed(reservation, position)
BY DEF Landed, LevelOf

\* A pending reservation has not landed in the position either.
LEMMA PendingNotLanded ==
  ASSUME Typed, NEW t \in Symbols, Pending(t)
  PROVE  ~Landed(reserved[t], held[t])
<1>1. held[t].orders \in Nat /\ reserved[t].level \in Nat
  BY DEF Typed, TypeOK, Position, Reservation
<1>2. CASE held[t].orders = 0 BY <1>1, <1>2, FlatNotLanded
<1>3. CASE held[t].orders > 0
  <2>1. reserved[t].level = held[t].orders BY <1>3 DEF Pending, NextLevel
  <2>2. QED BY <1>1, <2>1, NextNotLanded
<1>4. QED BY <1>1, <1>2, <1>3

\* Pruning spares a pending reservation.
LEMMA PendingSpared ==
  ASSUME Typed, NEW exposures, NEW t \in Symbols, Pending(t),
         exposures[t] = seen[t] \/ exposures[t] = held[t]
  PROVE  Pruned(exposures)[t] = reserved[t]
<1>1. ~reserved[t].expired /\ ~Landed(reserved[t], exposures[t])
  BY PendingNotLanded DEF Pending
<1>2. QED BY <1>1 DEF Pruned

\* A sync of an open symbol finds the order of a pending reservation.
LEMMA PendingKept ==
  ASSUME Typed, NEW s \in Symbols, Pending(s), held[s].orders > 0
  PROVE  \E o \in KeptOrders(s, held[s].orders - 1) :
           \/ o.level = NextLevel(s) /\ o.basket = basket[s]
           \/ o.level > 0 /\ o.left < Cost[o.level]
<1> DEFINE partial == {o \in resting[s] : o.level > 0 /\ o.left < Cost[o.level]}
<1>1. /\ held[s].orders \in Nat /\ MaxLevel \in Nat
      /\ reserved[s].level \in 0 .. MaxLevel /\ reserved[s].level = held[s].orders
  <2>1. /\ held[s].orders \in Nat /\ MaxLevel \in Nat
        /\ reserved[s].level \in 0 .. MaxLevel
    BY PortfolioAssumption DEF Typed, TypeOK, Position, Reservation
  <2>2. held[s].orders # 0 BY <2>1
  <2>3. QED BY <2>1, <2>2 DEF Pending, NextLevel
<1>2. held[s].orders - 1 # MaxLevel /\ held[s].orders - 1 + 1 = held[s].orders
  BY <1>1
<1>3. PICK o \in resting[s] : \/ o.level = held[s].orders /\ o.basket = basket[s]
                              \/ o.level > 0 /\ o.left < Cost[o.level]
  <2>1. held[s].orders # 0 BY <1>1
  <2>2. QED BY <2>1 DEF Pending, NextLevel
<1>4. CASE partial # {}
  <2>1. KeptOrders(s, held[s].orders - 1) = {CHOOSE p \in partial : TRUE}
    BY <1>2, <1>4 DEF KeptOrders
  <2>2. (CHOOSE p \in partial : TRUE) \in partial BY <1>4
  <2>3. QED BY <2>1, <2>2
<1>5. CASE partial = {}
  <2>1. KeptOrders(s, held[s].orders - 1)
          = {p \in resting[s] : p.level = held[s].orders /\ p.basket = basket[s]}
    BY <1>2, <1>5 DEF KeptOrders
  <2>2. o.level = held[s].orders /\ o.basket = basket[s] BY <1>3, <1>5
  <2>3. QED BY <2>1, <2>2 DEF NextLevel
<1>6. QED BY <1>4, <1>5


\* Nothing that happens to other symbols ends a pending reservation.
LEMMA PendingStays ==
  ASSUME NEW t \in Symbols, Pending(t),
         held'[t] = held[t], resting'[t] = resting[t], basket'[t] = basket[t],
         seen'[t] = seen[t], reserved'[t] = reserved[t], unseen'[t] = unseen[t]
  PROVE  Pending(t)'
BY DEF Pending, Landed, NextLevel

\* After an authorization the margin that does not show is pending again.
LEMMA AuthorizedPending ==
  ASSUME Typed, NEW s \in Symbols, NEW quote \in Nat, NEW kept,
         held[s].orders \in 0 .. MaxLevel,
         Authorize(s, held[s].orders, quote, Reconciled(s), kept),
         unseen[s] > 0 => Pending(s),
         held[s].orders = 0 => kept = resting[s],
         held[s].orders > 0 => unseen[s] = 0,
         seen' = Reconciled(s), UNCHANGED <<held, basket>>,
         slips' \cap {"lost", "blind"} = {}
  PROVE  unseen'[s] > 0 => Pending(s)'
<1> DEFINE E == Reconciled(s)
<1>1. /\ Refused(s, E, kept)
         \/ Submitted(s, held[s].orders, quote, E, kept)
         \/ Raised(s, held[s].orders, quote, kept)
  BY Authorized
<1>2. /\ seen'[s] = held[s] /\ held'[s] = held[s] /\ basket'[s] = basket[s]
      /\ E[s] = held[s]
      /\ held[s].orders \in Nat /\ unseen[s] \in Nat /\ basket[s] \in Nat
      /\ reserved[s].level \in Nat
  BY DEF Reconciled, Typed, TypeOK, Position, Reservation
<1> HIDE DEF E
<1>3. ASSUME unseen'[s] > 0, resting'[s] = kept, unseen'[s] = unseen[s],
             reserved'[s].level = reserved[s].level,
             reserved'[s].margin = reserved[s].margin,
             reserved'[s].expired = FALSE
      PROVE  Pending(s)'
  <2>1. Pending(s) /\ held[s].orders = 0 BY <1>2, <1>3
  <2>2. resting'[s] = resting[s] BY <1>3, <2>1
  <2>3. ~Landed(reserved[s], held[s]) BY <1>2, <2>1, FlatNotLanded
  <2>4. ~Landed(reserved'[s], seen'[s]) BY <1>2, <1>3, <2>3 DEF Landed
  <2>5. QED BY <1>2, <1>3, <2>1, <2>2, <2>4 DEF Pending
<1>4. ASSUME unseen'[s] > 0, Refused(s, E, kept) PROVE Pending(s)'
  <2>1. unseen'[s] = unseen[s] /\ resting'[s] = kept /\ reserved'[s] = Pruned(E)[s]
    BY <1>4 DEF Refused
  <2>2. Pending(s) BY <1>4, <2>1
  <2>3. reserved'[s] = reserved[s] BY <1>2, <2>1, <2>2, PendingSpared
  <2>4. ~reserved[s].expired BY <2>2 DEF Pending
  <2>5. reserved[s].expired \in BOOLEAN BY DEF Typed, TypeOK, Reservation
  <2>6. QED BY <1>3, <1>4, <2>1, <2>3, <2>4, <2>5
<1>5. ASSUME unseen'[s] > 0, Raised(s, held[s].orders, quote, kept) PROVE FALSE
  <2>1. resting'[s] = {} BY <1>5 DEF Raised
  <2>2. unseen'[s] = unseen[s] /\ kept = {} BY <1>5, <2>1 DEF Raised, Taken
  <2>3. Pending(s) /\ held[s].orders = 0 BY <1>2, <1>5, <2>2
  <2>4. resting[s] # {} BY <2>3 DEF Pending
  <2>5. QED BY <2>2, <2>3, <2>4
<1>6. ASSUME unseen'[s] > 0, Submitted(s, held[s].orders, quote, E, kept) PROVE Pending(s)'
  <2>1. reserved'[s] = Reserve(held[s].orders) BY <1>6 DEF Submitted
  <2>2. /\ reserved'[s].level = held[s].orders
        /\ reserved'[s].margin = Cost[held[s].orders]
        /\ reserved'[s].expired = FALSE
    BY <2>1, ReserveTyped
  <2>3. CASE Sent(s, held[s].orders, quote) /\ resting'[s] = kept /\ unseen'[s] = unseen[s]
    <3>1. Pending(s) /\ held[s].orders = 0 BY <1>2, <1>6, <2>3
    <3>2. \E o \in resting[s] : o.level = 0 /\ o.basket = basket[s]
      BY <2>3, <3>1 DEF Sent
    <3>3. reserved[s].level = 0 /\ reserved[s].margin = Cost[0]
      BY <3>1, <3>2 DEF Pending
    <3>4. QED BY <1>3, <1>6, <2>2, <2>3, <3>1, <3>3
  <2>4. CASE /\ ~Sent(s, held[s].orders, quote)
             /\ resting'[s] = kept \cup {Order(s, held[s].orders, quote)}
             /\ unseen'[s] = (IF kept = {} THEN 0 ELSE unseen[s]) + Cost[held[s].orders]
    <3>a. unseen'[s] = Cost[held[s].orders]
      <4>1. "blind" \notin Doubled(s, held[s].orders, quote, kept)
        BY <1>6 DEF Submitted
      <4>2. kept = {} \/ unseen[s] = 0 BY <1>2, <2>4, <4>1 DEF Doubled
      <4>3. Cost[held[s].orders] \in Nat BY ReserveTyped
      <4>4. QED BY <2>4, <4>2, <4>3
    <3>1. ~Landed(reserved'[s], seen'[s]) BY <1>2, <2>2, NextNotLanded
    <3>2. PICK o \in resting'[s] : o.level = held[s].orders /\ o.basket = basket[s]
      <4>1. Order(s, held[s].orders, quote) \in resting'[s] BY <2>4
      <4>2. /\ Order(s, held[s].orders, quote).level = held[s].orders
            /\ Order(s, held[s].orders, quote).basket = basket[s]
        BY DEF Order
      <4>3. QED BY ONLY <4>1, <4>2
    <3>3. QED BY <1>2, <2>2, <3>a, <3>1, <3>2 DEF Pending, NextLevel
  <2>5. QED BY <1>6, <2>3, <2>4 DEF Submitted, Taken
<1>7. QED BY <1>1, <1>4, <1>5, <1>6

\* Every step keeps the margin the balance does not show covered by live reservations.
LEMMA UnseenStep ==
  Typed /\ BasketsOK /\ UnseenOK /\ [Next]_vars => UnseenOK'
<1> SUFFICES ASSUME Typed, BasketsOK, UnseenOK, [Next]_vars,
                    slips' \cap {"lost", "blind"} = {}
             PROVE  \A t \in Symbols : unseen'[t] > 0 => Pending(t)'
  BY DEF UnseenOK
<1>0. /\ held \in [Symbols -> Position]
      /\ resting \in [Symbols -> SUBSET RestingOrder]
      /\ basket \in [Symbols -> Nat] /\ seen \in [Symbols -> Position]
      /\ unseen \in [Symbols -> Nat]
      /\ reserved \in [Symbols -> Reservation]
      /\ \A t \in Symbols : held[t].orders \in Nat /\ reserved[t].level \in Nat
      /\ Flat.orders = 0
  BY DEF Typed, TypeOK, Position, Reservation, Flat
<1>a. \A t \in Symbols : unseen[t] > 0 => Pending(t)
  BY SlipsGrow DEF UnseenOK
<1>b. ASSUME NEW t \in Symbols,
             held'[t] = held[t], resting'[t] = resting[t], basket'[t] = basket[t],
             seen'[t] = seen[t], unseen'[t] = unseen[t],
             reserved'[t] = reserved[t]
      PROVE  unseen'[t] > 0 => Pending(t)'
  BY <1>a, <1>b, PendingStays
<1>c. ASSUME NEW s \in Symbols, unseen'[s] = 0,
             \A t \in Symbols \ {s} :
               /\ held'[t] = held[t] /\ resting'[t] = resting[t]
               /\ basket'[t] = basket[t] /\ seen'[t] = seen[t]
               /\ unseen'[t] = unseen[t] /\ reserved'[t] = reserved[t]
      PROVE  \A t \in Symbols : unseen'[t] > 0 => Pending(t)'
  BY <1>b, <1>c
<1>d. ASSUME NEW t \in Symbols, NEW exposures, exposures[t] = seen[t],
             held'[t] = held[t], resting'[t] = resting[t], basket'[t] = basket[t],
             seen'[t] = seen[t], unseen'[t] = unseen[t],
             reserved'[t] = Pruned(exposures)[t]
      PROVE  unseen'[t] > 0 => Pending(t)'
  <2>1. unseen[t] > 0 => reserved'[t] = reserved[t]
    BY <1>a, <1>d, PendingSpared
  <2>2. QED BY <1>b, <1>d, <2>1
<1>e. ASSUME NEW s \in Symbols, NEW level \in 0 .. MaxLevel, NEW quote \in Nat,
             NEW kept, Authorize(s, level, quote, Reconciled(s), kept),
             seen' = Reconciled(s), UNCHANGED <<held, basket>>
      PROVE  \A t \in Symbols \ {s} : unseen'[t] > 0 => Pending(t)'
  <2> SUFFICES ASSUME NEW t \in Symbols \ {s} PROVE unseen'[t] > 0 => Pending(t)'
    OBVIOUS
  <2>1. Others(s, Reconciled(s)) BY <1>e, Authorized
  <2>2. Reconciled(s)[t] = seen[t] BY <1>0 DEF Reconciled
  <2>3. QED BY <1>d, <1>e, <2>1, <2>2 DEF Others
<1>1. ASSUME NEW s \in Symbols, SyncFlat(s)
      PROVE  \A t \in Symbols : unseen'[t] > 0 => Pending(t)'
  <2>1. /\ held[s] = Flat /\ seen' = [seen EXCEPT ![s] = Flat]
        /\ UNCHANGED <<held, resting, unseen, basket, reserved>>
    BY <1>1 DEF SyncFlat
  <2>2. \A t \in Symbols \ {s} : unseen'[t] > 0 => Pending(t)' BY <1>0, <1>b, <2>1
  <2>3. unseen'[s] > 0 => Pending(s)'
    <3>1. ~Landed(reserved'[s], seen'[s]) BY <1>0, <2>1, FlatNotLanded
    <3>2. seen'[s] = Flat BY <1>0, <2>1
    <3>3. QED BY <1>a, <2>1, <3>1 DEF Pending, NextLevel
  <2>4. QED BY <2>2, <2>3
<1>2. ASSUME NEW s \in Symbols, SyncEnter(s)
      PROVE  \A t \in Symbols : unseen'[t] > 0 => Pending(t)'
  <2>1. held[s].orders = 0 BY <1>2, EnterFacts DEF Flat
  <2>a. PICK quote \in Nat :
          Authorize(s, held[s].orders, quote, Reconciled(s), resting[s])
    BY <1>2, <2>1, EnterFacts
  <2>2. /\ Authorize(s, held[s].orders, quote, Reconciled(s), resting[s])
        /\ held[s].orders \in 0 .. MaxLevel
        /\ seen' = Reconciled(s) /\ UNCHANGED <<held, basket>>
    BY <1>2, <2>1, <2>a, EnterFacts
  <2>3. unseen'[s] > 0 => Pending(s)' BY <1>a, <2>1, <2>2, AuthorizedPending
  <2>4. QED BY <1>e, <2>2, <2>3
<1>3. ASSUME NEW s \in Symbols, SyncOpen(s)
      PROVE  \A t \in Symbols : unseen'[t] > 0 => Pending(t)'
  <2> DEFINE held0 == held[s].orders - 1
             kept == EntriesOf(s) \cup KeptOrders(s, held0)
  <2>1. /\ held[s].orders > 0 /\ seen' = Reconciled(s) /\ UNCHANGED <<held, basket>>
    BY <1>3, OpenFacts
  <2>2. seen'[s] = held[s] /\ \A t \in Symbols \ {s} : seen'[t] = seen[t]
    BY <1>0, <2>1 DEF Reconciled
  <2>3. unseen[s] > 0 => Pending(s) BY <1>a
  <2>4. CASE /\ resting' = [resting EXCEPT ![s] = kept]
             /\ UNCHANGED <<unseen, reserved, slips, budget>>
    <3>1. \A t \in Symbols \ {s} : unseen'[t] > 0 => Pending(t)'
      BY <1>0, <1>b, <2>1, <2>2, <2>4
    <3>2. ASSUME unseen[s] > 0 PROVE Pending(s)'
      <4>1. Pending(s) BY <2>3, <3>2
      <4>2. PICK o \in KeptOrders(s, held0) :
              \/ o.level = NextLevel(s) /\ o.basket = basket[s]
              \/ o.level > 0 /\ o.left < Cost[o.level]
        BY <2>1, <4>1, PendingKept
      <4>3. o \in resting'[s] BY <1>0, <2>4
      <4>4. ~Landed(reserved'[s], seen'[s]) BY <2>2, <2>4, <4>1, PendingNotLanded
      <4>5. held[s].orders # 0 BY <1>0, <2>1
      <4>6. reserved[s].level = NextLevel(s) /\ reserved[s].margin = unseen[s]
            /\ ~reserved[s].expired /\ reserved[s].margin = Cost[reserved[s].level]
        BY <4>1, <4>5 DEF Pending
      <4> HIDE DEF kept, held0
      <4>7. QED BY <2>1, <2>4, <4>2, <4>3, <4>4, <4>6 DEF Pending, NextLevel
    <3>3. QED BY <2>4, <3>1, <3>2
  <2>5. CASE /\ held[s].orders \in 0 .. MaxLevel
             /\ KeptOrders(s, held[s].orders - 1) = {}
             /\ Authorize(s, held[s].orders, 0, Reconciled(s), EntriesOf(s))
    <3>1. unseen[s] = 0
      <4>1. ~Pending(s) BY <2>1, <2>5, PendingKept
      <4>2. QED BY <1>0, <2>3, <4>1
    <3>2. held[s].orders # 0 BY <1>0, <2>1
    <3>3. unseen'[s] > 0 => Pending(s)' BY <2>1, <2>3, <2>5, <3>1, <3>2, AuthorizedPending
    <3>4. QED BY <1>e, <2>1, <2>5, <3>3
  <2>6. QED BY <1>3, <2>4, <2>5, OpenFacts
<1>4. ASSUME NEW s \in Symbols, Fill(s)
      PROVE  \A t \in Symbols : unseen'[t] > 0 => Pending(t)'
  <2>0. PICK o \in resting[s] : \E q \in 1 .. o.left : \E paid, orders \in Nat :
                                   Filled(s, o, q, paid, orders)
    BY <1>4, FillFacts
  <2>1. PICK q \in 1 .. o.left, paid \in Nat, orders \in Nat : Filled(s, o, q, paid, orders)
    BY <2>0
  <2>2. unseen' = [unseen EXCEPT ![s] = 0] /\ UNCHANGED <<basket, seen, reserved>>
    BY <2>1 DEF Filled
  <2>3. \A t \in Symbols \ {s} : held'[t] = held[t] BY <1>0, <2>1 DEF Filled
  <2>4. \A t \in Symbols \ {s} : resting'[t] = resting[t]
    <3>1. CASE q = o.left BY <1>0, <2>1, <3>1 DEF Filled
    <3>2. CASE q # o.left BY <1>0, <2>1, <3>2 DEF Filled
    <3>3. QED BY <3>1, <3>2
  <2>5. QED BY <1>0, <1>c, <2>2, <2>3, <2>4
<1>5. ASSUME NEW s \in Symbols, BalanceCatchesUp(s)
      PROVE  \A t \in Symbols : unseen'[t] > 0 => Pending(t)'
  BY <1>0, <1>c, <1>5 DEF BalanceCatchesUp
<1>6. ASSUME NEW s \in Symbols, Close(s)
      PROVE  \A t \in Symbols : unseen'[t] > 0 => Pending(t)'
  <2>1. /\ held[s].orders > 0
        /\ held' = [held EXCEPT ![s] = Flat] /\ basket' = [basket EXCEPT ![s] = @ + 1]
        /\ UNCHANGED <<resting, unseen, seen, reserved>>
    BY <1>6 DEF Close
  <2>2. \A t \in Symbols \ {s} : unseen'[t] > 0 => Pending(t)' BY <1>0, <1>b, <2>1
  <2>3. ASSUME unseen[s] > 0 PROVE Pending(s)'
    <3>1. Pending(s) BY <1>a, <2>3
    <3>2. held'[s].orders = 0 /\ basket'[s] = basket[s] + 1 BY <1>0, <2>1
    <3>3. held[s].orders # 0 BY <1>0, <2>1
    <3>4. resting[s] # {} BY <3>1, <3>3 DEF Pending
    <3>5. ~ \E o \in resting[s] : o.basket = basket[s] + 1
      <4>1. SUFFICES ASSUME NEW o \in resting[s], o.basket = basket[s] + 1 PROVE FALSE
        OBVIOUS
      <4>2. o.basket <= basket[s] /\ basket[s] \in Nat BY <1>0 DEF BasketsOK
      <4>3. QED BY <4>1, <4>2
    <3>6. ~ \E o \in resting'[s] : o.basket = basket'[s] BY <2>1, <3>2, <3>5
    <3>7. QED BY <2>1, <3>1, <3>2, <3>4, <3>6 DEF Pending, Landed
  <2>4. QED BY <2>1, <2>2, <2>3
<1>7. ASSUME NEW s \in Symbols, Cancel(s)
      PROVE  \A t \in Symbols : unseen'[t] > 0 => Pending(t)'
  <2>1. PICK o \in resting[s] : resting' = [resting EXCEPT ![s] = @ \ {o}]
    BY <1>7 DEF Cancel
  <2>2. unseen' = [unseen EXCEPT ![s] = 0] /\ UNCHANGED <<held, basket, seen, reserved>>
    BY <1>7 DEF Cancel
  <2>3. QED BY <1>0, <1>c, <2>1, <2>2
<1>8. ASSUME NEW s \in Symbols, Expire(s)
      PROVE  \A t \in Symbols : unseen'[t] > 0 => Pending(t)'
  <2>1. /\ unseen[s] = 0 /\ reserved' = [reserved EXCEPT ![s].expired = TRUE]
        /\ UNCHANGED <<held, resting, unseen, basket, seen>>
    BY <1>8 DEF Expire
  <2>2. QED BY <1>0, <1>c, <2>1
<1>9. ASSUME Snapshot PROVE \A t \in Symbols : unseen'[t] > 0 => Pending(t)'
  <2>1. reserved' = Pruned(seen) /\ UNCHANGED <<held, resting, unseen, basket, seen>>
    BY <1>9 DEF Snapshot
  <2>2. QED BY <1>d, <2>1
<1>10. ASSUME Restart PROVE \A t \in Symbols : unseen'[t] > 0 => Pending(t)'
  BY <1>10 DEF Restart
<1>11. CASE UNCHANGED vars BY <1>b, <1>11 DEF vars
<1>12. QED
  BY <1>1, <1>2, <1>3, <1>4, <1>5, <1>6, <1>7, <1>8, <1>9, <1>10, <1>11 DEF Next


\* Reservations left by pruning make up for what the balance does not show.
LEMMA UnseenReserved ==
  ASSUME Typed, NEW s \in Symbols, \A t \in Symbols : unseen[t] > 0 => Pending(t)
  PROVE  /\ SumFunction(unseen) \in Nat
         /\ SumFunction([t \in Symbols |-> Pruned(Reconciled(s))[t].margin]) \in Nat
         /\ SumFunction(unseen)
              <= SumFunction([t \in Symbols |-> Pruned(Reconciled(s))[t].margin])
<1> DEFINE r == [t \in Symbols |-> Pruned(Reconciled(s))[t].margin]
<1>1. unseen \in [Symbols -> Nat] /\ r \in [Symbols -> Nat]
  BY ProjectedNat DEF Typed, TypeOK
<1>2. ASSUME NEW t \in Symbols PROVE unseen[t] <= r[t]
  <2>1. CASE unseen[t] = 0 BY <1>1, <2>1
  <2>2. CASE unseen[t] > 0
    <3>1. Pending(t) BY <2>2
    <3>2. Reconciled(s)[t] = seen[t] \/ Reconciled(s)[t] = held[t]
      BY DEF Reconciled, Typed, TypeOK
    <3>3. r[t] = reserved[t].margin BY <3>1, <3>2, PendingSpared
    <3>4. reserved[t].margin = unseen[t] BY <3>1 DEF Pending
    <3>5. QED BY <1>1, <3>3, <3>4
  <2>3. QED BY <1>1, <2>1, <2>2
<1> HIDE DEF r
<1>3. IsFiniteSet(Symbols) BY PortfolioAssumption
<1>4. SumFunction(unseen) <= SumFunction(r) BY <1>1, <1>2, <1>3, SumMonotone
<1>5. SumFunction(unseen) \in Nat /\ SumFunction(r) \in Nat BY <1>1, <1>3, SumNat
<1>6. QED BY <1>4, <1>5 DEF r

\* Every step keeps the reserve floor, unless an answer is lost, an entry fills
\* above its price or a second order is sent blind.
LEMMA ReserveStep ==
  Typed /\ UnseenOK /\ ReserveKept /\ [Next]_vars => ReserveKept'
<1> SUFFICES ASSUME Typed, UnseenOK, ReserveKept, [Next]_vars,
                    slips' \cap {"lost", "price", "blind"} = {}
             PROVE  TotalCommitted' = 0 \/ Equity - TotalCommitted' >= Floor
  BY DEF ReserveKept
<1>1. Typed' BY TypedStep
<1>2. slips \cap {"lost", "price", "blind"} = {} BY SlipsGrow
<1>3. TotalCommitted = 0 \/ Equity - TotalCommitted >= Floor
  BY <1>2 DEF ReserveKept
<1>4. Equity \in Nat /\ Floor \in Nat BY PortfolioAssumption
<1>5. CASE NothingBought
  <2>1. \A t \in Symbols : Committed(t)' <= Committed(t) BY <1>5 DEF NothingBought
  <2>2. /\ TotalCommitted \in Nat /\ TotalCommitted' \in Nat
        /\ TotalCommitted' <= TotalCommitted
    BY <1>1, <2>1, Shrinks
  <2>3. CASE TotalCommitted = 0 BY <2>2, <2>3
  <2>4. CASE Equity - TotalCommitted >= Floor
    <3> DEFINE m == TotalCommitted
               n == TotalCommitted'
    <3>1. m \in Nat /\ n \in Nat /\ n <= m /\ Equity - m >= Floor BY <2>2, <2>4
    <3> HIDE DEF m, n
    <3>2. Equity - n >= Floor BY ONLY <1>4, <3>1
    <3>3. QED BY <3>2 DEF n
  <2>5. QED BY <1>3, <2>3, <2>4
<1>6. ASSUME NEW s \in Symbols, NEW level \in 0 .. MaxLevel, Bought(s, level)
      PROVE  Equity - TotalCommitted' >= Floor
  <2> DEFINE c == Cost[level]
             e == [t \in Symbols |-> Committed(t)]
             f == [t \in Symbols |-> Committed(t)']
             g == [e EXCEPT ![s] = @ + c]
             u == SumFunction(unseen)
             r == SumFunction([t \in Symbols |-> Pruned(Reconciled(s))[t].margin])
  <2>1. c \in Nat BY ReserveTyped
  <2>2. e \in [Symbols -> Nat] /\ f \in [Symbols -> Nat] BY <1>1, CommittedNat
  <2>3. u \in Nat /\ r \in Nat /\ u <= r
    BY <1>2, UnseenReserved DEF UnseenOK
  <2>4. (Equity - TotalCommitted + u) - r - c >= Floor
    BY <1>6 DEF Bought, Allowed, Available
  <2>5. (\A t \in Symbols \ {s} : f[t] <= e[t]) /\ f[s] <= e[s] + c
    BY <1>6 DEF Bought
  <2>6. TotalCommitted = Margins(e) /\ TotalCommitted' = Margins(f) BY TotalsAre
  <2> HIDE DEF c, e, f, u, r
  <2>7. /\ g \in [Symbols -> Nat] /\ g[s] = e[s] + c
        /\ \A t \in Symbols \ {s} : e[t] = g[t]
    BY <2>1, <2>2
  <2>8. \A t \in Symbols : f[t] <= g[t] BY <2>5, <2>7
  <2> HIDE DEF g
  <2>9. Margins(g) = Margins(e) + c BY <2>1, <2>2, <2>7, TotalsReplace
  <2>10. Margins(f) <= Margins(g) BY <2>2, <2>7, <2>8, TotalsMonotone
  <2>11. Margins(f) \in Nat /\ Margins(e) \in Nat BY <2>2, TotalsNat
  <2>12. Margins(f) <= Margins(e) + c BY <2>9, <2>10
  <2>13. (Equity - Margins(e) + u) - r - c >= Floor BY <2>4, <2>6
  <2>14. Equity - Margins(f) >= Floor
    BY ONLY <1>4, <2>1, <2>3, <2>11, <2>12, <2>13
  <2>15. QED BY <2>6, <2>14
<1>7. QED BY <1>5, <1>6, CommitsStep

\* What the bot commits never spends the reserve floor, unless the answer to an
\* accepted order was lost, an entry filled above the price it was reserved at, or
\* a second order was sent before the balance showed the first.
THEOREM ReserveHolds == Spec => []ReserveKept
<1> DEFINE I == Typed /\ BasketsOK /\ UnseenOK /\ ReserveKept
<1>1. Init => I
  <2>1. Init => BasketsOK /\ UnseenOK BY DEF Init, BasketsOK, UnseenOK
  <2>2. QED BY <2>1, TypedInit, TotalsInit DEF ReserveKept
<1>2. I /\ [Next]_vars => I' BY TypedStep, BasketsStep, UnseenStep, ReserveStep
<1>3. QED BY <1>1, <1>2, PTL DEF Spec


=============================================================================
