-------------------------- MODULE LiveServiceProofs --------------------------
(***************************************************************************)
(* Theorems about LiveService, for every value of its constants: first its *)
(* types, and what the operator and the worker may do; then what holds of  *)
(* a basket from its entry to its close: the journal adds up to the        *)
(* position, protection precedes the entry liabilities, no entry follows a *)
(* basket that has begun, and in trial mode one Resume starts one basket.  *)
(***************************************************************************)
EXTENDS LiveService, FiniteSetTheorems, FunctionTheorems, SequenceTheorems, TLAPS

\* Any order that may be intended.
IntentRecord == [role : Roles, cycle : SUBSET Nat, basis : SUBSET Nat,
                 level : Nat, qty : Nat]

\* Placing an order keeps the list of orders well formed.
LEMMA PlacedType ==
  ASSUME orders \in Seq(OrderRecord), NEW o \in IntentRecord
  PROVE  Placed(o) \in Seq(OrderRecord)
<1>1. NewOrder(o) \in OrderRecord
  BY DEF NewOrder, OrderRecord, IntentRecord, Statuses
<1> QED
  BY <1>1 DEF Placed

\* Every order on the exchange is an order record.
LEMMA OrderAt ==
  ASSUME orders \in Seq(OrderRecord), NEW i \in DOMAIN orders
  PROVE  orders[i] \in OrderRecord
BY ElementOfSeq, LenProperties

\* Every execution of the symbol is an execution record.
LEMMA ExecutionAt ==
  ASSUME execs \in Seq(Execution), NEW i \in DOMAIN execs
  PROVE  execs[i] \in Execution
BY ElementOfSeq, LenProperties

\* The fields a fill or a cancellation rewrites stay well formed.
LEMMA Rewritten ==
  ASSUME NEW r \in OrderRecord, NEW q \in Nat, NEW st \in Statuses
  PROVE  /\ r.filled \in Nat
         /\ [r EXCEPT !.status = st] \in OrderRecord
         /\ [r EXCEPT !.filled = @ + q, !.status = st] \in OrderRecord
<1>1. r.filled \in Nat /\ r.filled + q \in Nat
  BY DEF OrderRecord
<1>2. [r EXCEPT !.status = st] \in OrderRecord
  BY DEF OrderRecord
<1>3. ASSUME NEW n \in Nat
      PROVE  [r EXCEPT !.filled = n, !.status = st] \in OrderRecord
  BY DEF OrderRecord
<1> QED
  BY <1>1, <1>2, <1>3

\* Cancelling an order keeps the list of orders well formed.
LEMMA CancelledType ==
  ASSUME orders \in Seq(OrderRecord), NEW i \in DOMAIN orders
  PROVE  Cancelled(i) \in Seq(OrderRecord)
<1> DEFINE gone == [orders[i] EXCEPT !.status = "Cancelled"]
<1>1. gone \in OrderRecord
  BY OrderAt, Rewritten DEF Statuses
<1>2. Cancelled(i) = [orders EXCEPT ![i] = gone]
  BY DEF Cancelled
<1> HIDE DEF gone
<1> QED
  BY <1>1, <1>2, ExceptSeq

\* An order after a fill, as one of the forms AfterFill gives it.
LEMMA AfterFillType ==
  ASSUME orders \in Seq(OrderRecord), NEW i \in DOMAIN orders,
         NEW q \in Nat, NEW p \in Int
  PROVE  /\ AfterFill(i, q, p) \in Seq(OrderRecord)
         /\ DOMAIN AfterFill(i, q, p) = DOMAIN orders
<1>1. ASSUME NEW j \in DOMAIN orders
      PROVE  AfterFill(i, q, p)[j] \in OrderRecord
  <2>1. orders[j] \in OrderRecord
    BY OrderAt
  <2>2. ASSUME NEW st \in Statuses
        PROVE  /\ [orders[j] EXCEPT !.status = st] \in OrderRecord
               /\ [orders[j] EXCEPT !.filled = @ + q, !.status = st] \in OrderRecord
    BY <2>1, Rewritten
  <2>3. CASE j = i
    <3> DEFINE st == IF q = Leaves(i) THEN "Filled"
                     ELSE IF p <= 0 /\ ReduceOnly(orders[j]) THEN "Cancelled"
                     ELSE "PartiallyFilled"
    <3>1. st \in Statuses
      BY DEF Statuses
    <3>2. AfterFill(i, q, p)[j]
            = [orders[j] EXCEPT !.filled = @ + q, !.status = st]
      BY <2>3 DEF AfterFill
    <3> HIDE DEF st
    <3> QED
      BY <2>2, <3>1, <3>2
  <2>4. CASE j # i
    <3>1. \/ AfterFill(i, q, p)[j] = orders[j]
          \/ AfterFill(i, q, p)[j] = [orders[j] EXCEPT !.status = "Cancelled"]
      BY <2>4 DEF AfterFill
    <3> QED
      BY <2>1, <2>2, <3>1 DEF Statuses
  <2> QED
    BY <2>3, <2>4
<1>2. Len(orders) \in Nat /\ DOMAIN orders = 1 .. Len(orders)
  BY LenProperties
<1>3. AfterFill(i, q, p) \in [1 .. Len(orders) -> OrderRecord]
  <2> DEFINE e(j) == AfterFill(i, q, p)[j]
  <2>1. AfterFill(i, q, p) = [j \in DOMAIN orders |-> e(j)]
    BY DEF AfterFill
  <2> HIDE DEF e
  <2>2. [j \in DOMAIN orders |-> e(j)] \in [DOMAIN orders -> OrderRecord]
    BY <1>1 DEF e
  <2> QED
    BY <1>2, <2>1, <2>2
<1> QED
  BY <1>2, <1>3, SeqDef

\* A set of executions is finite, and so are the orders behind it.
LEMMA OrdersOfFinite ==
  ASSUME execs \in Seq(Execution), NEW rows \in SUBSET DOMAIN execs
  PROVE  /\ IsFiniteSet(rows)
         /\ IsFiniteSet(OrdersOf(execs, rows))
<1>1. IsFiniteSet(1 .. Len(execs))
  BY FS_Interval
<1>2. IsFiniteSet(rows)
  BY <1>1, FS_Subset
<1> DEFINE f == [i \in rows |-> execs[i].order]
<1>3. f \in Surjection(rows, OrdersOf(execs, rows))
  BY DEF OrdersOf, Surjection
<1> QED
  BY <1>2, <1>3, FS_Surjection

\* The level counted from journaled executions is a natural number.
LEMMA LevelType ==
  ASSUME execs \in Seq(Execution), NEW rows \in SUBSET DOMAIN execs
  PROVE  LevelOf(execs, rows) \in Nat
BY OrdersOfFinite, FS_CardinalityType DEF LevelOf

\* The quantity summed over journaled executions is a natural number.
LEMMA TotalQtyType ==
  ASSUME execs \in Seq(Execution), NEW rows \in SUBSET DOMAIN execs
  PROVE  TotalQty(execs, rows) \in Nat
<1> DEFINE f == [i \in rows |-> {i} \X (1 .. execs[i].qty)]
           T == {{i} \X (1 .. execs[i].qty) : i \in rows}
<1>1. IsFiniteSet(rows)
  BY OrdersOfFinite
<1>2. f \in Surjection(rows, T)
  BY DEF Surjection
<1>3. IsFiniteSet(T)
  BY <1>1, <1>2, FS_Surjection
<1>4. ASSUME NEW i \in rows
      PROVE  IsFiniteSet({i} \X (1 .. execs[i].qty))
  <2>1. execs[i] \in Execution
    BY ExecutionAt
  <2>2. execs[i].qty \in Int
    BY <2>1 DEF Execution
  <2>3. IsFiniteSet(1 .. execs[i].qty)
    BY <2>2, FS_Interval
  <2>4. IsFiniteSet({i})
    BY FS_Singleton
  <2> QED
    BY <2>3, <2>4, FS_Product
<1>5. \A t \in T : IsFiniteSet(t)
  BY <1>4, Zenon
<1>6. IsFiniteSet(UNION T)
  BY <1>3, <1>5, FS_UNION
<1> QED
  BY <1>6, FS_CardinalityType DEF TotalQty

-----------------------------------------------------------------------------
(* What the shared steps of a sync leave behind *)

\* Every order the service or the operator asks for is well formed.
LEMMA IntentTypes ==
  ASSUME TypeOK
  PROVE  /\ TpIntent(cycle) \in IntentRecord
         /\ DcaIntent(cycle) \in IntentRecord
         /\ \A qty \in Nat : EntryIntent(qty) \in IntentRecord
         /\ \A qty \in Nat, b \in SUBSET Nat : CloseIntent(cycle, b, qty) \in IntentRecord
<1>1. /\ cycle.id \in SUBSET Nat /\ cycle.basis \in SUBSET Nat
      /\ cycle.level \in Nat /\ cycle.last \in Nat /\ cycle.qty \in Nat
  BY DEF TypeOK, StrategyOK, CycleRecord
<1>2. /\ basis \in SUBSET Nat /\ journal \in SUBSET Nat
  BY LenProperties DEF TypeOK, ExchangeOK
<1>3. NextDcaQty(cycle) \in Nat
  BY <1>1, LiveAssumption DEF NextDcaQty
<1>4. EntryGeneration(execs, journal) \in SUBSET Nat
  BY <1>2 DEF EntryGeneration
<1>5. TpIntent(cycle) \in IntentRecord
  BY <1>1 DEF TpIntent, Intent, IntentRecord, Roles
<1>6. DcaIntent(cycle) \in IntentRecord
  BY <1>1, <1>3 DEF DcaIntent, Intent, IntentRecord, Roles
<1>7. \A qty \in Nat : EntryIntent(qty) \in IntentRecord
  BY <1>4 DEF EntryIntent, Intent, IntentRecord, Roles
<1>8. \A qty \in Nat, b \in SUBSET Nat : CloseIntent(cycle, b, qty) \in IntentRecord
  BY <1>1 DEF CloseIntent, Intent, IntentRecord, Roles
<1> QED
  BY <1>5, <1>6, <1>7, <1>8

\* A sync that goes on to its next call keeps the worker well formed.
LEMMA ContinueType ==
  ASSUME WorkerOK, NEW w \in WorkRecord, Continue(w)
  PROVE  /\ wpc' \in {"placeTp", "cancelTp", "cancelDca", "placeDca", "idle"}
         /\ work' \in WorkRecord
         /\ health' \in {"none", "ok", "held", "error"}
<1>1. NoWork \in WorkRecord
  BY DEF NoWork, WorkRecord
<1> QED
  BY <1>1 DEF Continue, NextCall, ManagedHealth, WorkerOK

\* A sync that returns or raises keeps the worker well formed.
LEMMA EndOfSyncType ==
  ASSUME WorkerOK
  PROVE  /\ NoWork \in WorkRecord
         /\ \A h \in {"ok", "held"} :
              Return(h) => /\ wpc' = "idle" /\ work' \in WorkRecord
                           /\ health' \in {"none", "ok", "held", "error"}
         /\ Raise => /\ wpc' = "failed" /\ work' \in WorkRecord
                     /\ health' \in {"none", "ok", "held", "error"}
<1>1. NoWork \in WorkRecord
  BY DEF NoWork, WorkRecord
<1> QED
  BY <1>1 DEF Return, Raise, WorkerOK

\* What the strategy is reset, closed or restored to is well formed.
LEMMA StrategyTypes ==
  ASSUME StrategyOK
  PROVE  /\ NoCycle \in CycleRecord
         /\ Paused \in StrategyRecord
         /\ Closed(strat) \in StrategyRecord
         /\ Restored(strat) \in StrategyRecord
         /\ AfterFlat(strat, cycle) \in StrategyRecord
<1>1. NoCycle \in CycleRecord
  BY DEF NoCycle, CycleRecord
<1>2. Paused \in StrategyRecord
  BY DEF Paused, StrategyRecord
<1>3. Closed(strat) \in StrategyRecord /\ Restored(strat) \in StrategyRecord
  BY DEF StrategyOK, StrategyRecord, Closed, Restored
<1>4. AfterFlat(strat, cycle) \in StrategyRecord
  BY <1>2, <1>3 DEF StrategyOK, AfterFlat
<1> QED
  BY <1>1, <1>2, <1>3, <1>4

\* A sync of a flat symbol keeps the strategy and the worker well formed.
LEMMA FlatPathType ==
  ASSUME TypeOK, NEW seen, FlatPath(seen)
  PROVE  /\ StrategyOK'
         /\ wpc' \in {"idle", "entry"} /\ work' \in WorkRecord
         /\ flatSeen' \in BOOLEAN
         /\ health' \in {"none", "ok", "held", "error"}
<1>1. StrategyOK /\ WorkerOK
  BY DEF TypeOK
<1>2. StrategyOK'
  BY <1>1, StrategyTypes DEF FlatPath, StrategyOK
<1>3. NoWork \in WorkRecord
  BY <1>1, EndOfSyncType
<1> QED
  BY <1>1, <1>2, <1>3 DEF FlatPath, Return, WorkerOK

\* The order plan of an open basket is well formed.
LEMMA PlanOrdersType ==
  ASSUME TypeOK
  PROVE  PlanOrders \in WorkRecord
<1>1. RestingOf("tp") \in SUBSET Nat /\ RestingOf("dca") \in SUBSET Nat
  BY LenProperties DEF RestingOf, Resting, TypeOK, ExchangeOK
<1>2. work.read \in Nat
  BY DEF TypeOK, WorkerOK, WorkRecord
<1> QED
  BY <1>1, <1>2 DEF PlanOrders, WorkRecord

-----------------------------------------------------------------------------
(* The type invariant *)

\* Every step of a sync preserves the type invariant.
LEMMA SyncTypeStep ==
  ASSUME TypeOK, Sync
  PROVE  TypeOK'
<1> USE DEF exchangeVars, strategyVars, operatorVars
<1>1. /\ ExchangeOK /\ StrategyOK /\ WorkerOK /\ OperatorOK
      /\ budget \in [faults : Nat, crashes : Nat, manual : Nat]
  BY DEF TypeOK
<1>2. /\ strat \in StrategyRecord /\ cycle \in CycleRecord
      /\ wpc \in SyncPcs \cup {"idle", "failed", "pausing", "dead"}
      /\ work \in WorkRecord
      /\ flatSeen \in BOOLEAN /\ entryPending \in BOOLEAN /\ recovered \in BOOLEAN
      /\ health \in {"none", "ok", "held", "error"}
      /\ pos \in Int /\ orders \in Seq(OrderRecord) /\ execs \in Seq(Execution)
  BY <1>1 DEF StrategyOK, WorkerOK, ExchangeOK
<1>3. OperatorOK' /\ budget' = budget /\ execs' = execs /\ pos' = pos
      /\ basis' = basis /\ journal' = journal
  BY <1>1 DEF Sync, ReadPosition, BlockEntry, SubmitEntry, Reconcile, ReadOrders,
              RecheckPosition, PlaceTp, RereadAfterRejection, CancelStaleTp,
              CancelStaleDca, CancelStale, BlockDca, PlaceDca, ExhaustIdentities,
              OperatorOK
<1>4. ASSUME orders' \in Seq(OrderRecord), StrategyOK', WorkerOK'
      PROVE  TypeOK'
  BY <1>1, <1>3, <1>4 DEF TypeOK, ExchangeOK
<1>5. CASE ReadPosition
  <2>1. orders' \in Seq(OrderRecord) /\ entryPending' = entryPending
        /\ recovered' = recovered
    BY <1>2, <1>5 DEF ReadPosition
  <2>2. CASE pos = 0 /\ FlatPath(flatSeen)
    BY <1>2, <1>4, <2>1, <2>2, FlatPathType DEF WorkerOK, SyncPcs
  <2>3. CASE /\ pos > 0
             /\ flatSeen' = FALSE
             /\ wpc' = "reconcile"
             /\ work' = [NoWork EXCEPT !.read = pos]
             /\ UNCHANGED <<strategyVars, health>>
    <3>1. pos \in Nat
      BY <1>2, <2>3
    <3>2. work' = [read |-> pos, needTp |-> FALSE, staleTp |-> {},
                   staleDca |-> {}, needDca |-> FALSE]
      BY <2>3 DEF NoWork
    <3>3. work' \in WorkRecord
      BY <3>1, <3>2 DEF WorkRecord
    <3> QED
      BY <1>1, <1>2, <1>4, <2>1, <2>3, <3>3 DEF StrategyOK, WorkerOK, SyncPcs
  <2>4. CASE flatSeen' = FALSE /\ strat' = Paused /\ Raise /\ UNCHANGED cycle
    BY <1>1, <1>2, <1>4, <2>1, <2>4, EndOfSyncType, StrategyTypes
       DEF StrategyOK, WorkerOK
  <2> QED
    BY <1>5, <2>2, <2>3, <2>4 DEF ReadPosition
<1>6. CASE BlockEntry
  BY <1>1, <1>2, <1>4, <1>6, EndOfSyncType DEF BlockEntry, StrategyOK, WorkerOK
<1>7. CASE SubmitEntry
  <2>1. PICK qty \in EntryQtys : orders' = Placed(EntryIntent(qty))
    BY <1>7 DEF SubmitEntry
  <2>2. orders' \in Seq(OrderRecord)
    BY <1>2, <2>1, LiveAssumption, IntentTypes, PlacedType
  <2> QED
    BY <1>1, <1>2, <1>4, <1>7, <2>2, EndOfSyncType
       DEF SubmitEntry, StrategyOK, WorkerOK
<1>8. CASE Reconcile
  <2> DEFINE rows == OpenRows(execs, journal)
             restored == [id |-> rows, level |-> LevelOf(execs, rows), qty |-> pos,
                          last |-> LastOrderQty(execs, rows), basis |-> basis]
  <2>1. /\ orders' \in Seq(OrderRecord) /\ flatSeen' = flatSeen
        /\ entryPending' = entryPending /\ recovered' = recovered
    BY <1>2, <1>8 DEF Reconcile
  <2>2. CASE strat' = (IF cycle = NoCycle THEN strat ELSE Closed(strat))
             /\ cycle' = NoCycle /\ Raise
    BY <1>1, <1>2, <1>4, <2>1, <2>2, EndOfSyncType, StrategyTypes
       DEF StrategyOK, WorkerOK
  <2>3. CASE Return("held") /\ UNCHANGED strategyVars
    BY <1>1, <1>2, <1>4, <2>1, <2>3, EndOfSyncType DEF StrategyOK, WorkerOK
  <2>4. CASE Raise /\ UNCHANGED strategyVars
    BY <1>1, <1>2, <1>4, <2>1, <2>4, EndOfSyncType DEF StrategyOK, WorkerOK
  <2>5. CASE /\ pos > 0 /\ strat' = Restored(strat) /\ cycle' = restored
             /\ wpc' = "orders" /\ UNCHANGED <<work, health>>
    <3>1. /\ rows \in SUBSET DOMAIN execs
          /\ basis \in SUBSET DOMAIN execs
          /\ DOMAIN execs \subseteq Nat
      BY <1>1, LenProperties DEF OpenRows, ExchangeOK
    <3>2. LevelOf(execs, rows) \in Nat
      BY <1>2, <3>1, LevelType
    <3>3. LastOrderQty(execs, rows) \in Nat
      <4>1. {i \in rows : execs[i].order = LastOrder(execs, rows)} \in SUBSET DOMAIN execs
        BY <3>1
      <4> QED
        BY <1>2, <4>1, TotalQtyType DEF LastOrderQty
    <3>4. cycle' \in CycleRecord
      <4> HIDE DEF rows
      <4> QED
        BY <1>2, <2>5, <3>1, <3>2, <3>3 DEF CycleRecord
    <3> QED
      BY <1>1, <1>2, <1>4, <2>1, <2>5, <3>4, StrategyTypes
         DEF StrategyOK, WorkerOK, SyncPcs
  <2> QED
    BY <1>8, <2>2, <2>3, <2>4, <2>5 DEF Reconcile
<1>9. CASE ReadOrders
  <2>1. /\ orders' \in Seq(OrderRecord) /\ UNCHANGED <<strat, cycle>>
        /\ flatSeen' = flatSeen /\ recovered' = recovered
        /\ entryPending' \in BOOLEAN
    BY <1>2, <1>9 DEF ReadOrders
  <2>2. \/ Return("held") \/ Raise
        \/ wpc' = "recheck" /\ work' = PlanOrders /\ health' = health
        \/ Continue(PlanOrders)
    BY <1>9 DEF ReadOrders
  <2>3. wpc' \in SyncPcs \cup {"idle", "failed"} /\ work' \in WorkRecord
        /\ health' \in {"none", "ok", "held", "error"}
    BY <1>1, <1>2, <2>2, EndOfSyncType, PlanOrdersType, ContinueType DEF SyncPcs
  <2> QED
    BY <1>1, <1>2, <1>4, <2>1, <2>3 DEF StrategyOK, WorkerOK
<1>10. CASE RecheckPosition
  <2>1. orders' \in Seq(OrderRecord) /\ entryPending' = entryPending
        /\ recovered' = recovered
    BY <1>2, <1>10 DEF RecheckPosition
  <2>2. CASE FlatPath(FALSE)
    BY <1>2, <1>4, <2>1, <2>2, FlatPathType DEF WorkerOK, SyncPcs
  <2>3. CASE Continue(work) /\ UNCHANGED <<strategyVars, flatSeen>>
    BY <1>1, <1>2, <1>4, <2>1, <2>3, ContinueType DEF StrategyOK, WorkerOK, SyncPcs
  <2> QED
    BY <1>10, <2>2, <2>3 DEF RecheckPosition
<1>11. CASE PlaceTp
  <2>1. /\ UNCHANGED <<strat, cycle>>
        /\ flatSeen' = flatSeen /\ recovered' = recovered
        /\ entryPending' \in BOOLEAN
    BY <1>2, <1>11 DEF PlaceTp
  <2>2. orders' \in Seq(OrderRecord)
    BY <1>2, <1>11, IntentTypes, PlacedType DEF PlaceTp
  <2>3. [work EXCEPT !.needTp = FALSE] \in WorkRecord
    BY <1>2 DEF WorkRecord
  <2>4. wpc' \in SyncPcs \cup {"idle"} /\ work' \in WorkRecord
        /\ health' \in {"none", "ok", "held", "error"}
    BY <1>1, <1>2, <1>11, <2>3, EndOfSyncType, ContinueType DEF PlaceTp, SyncPcs
  <2> QED
    BY <1>1, <1>2, <1>4, <2>1, <2>2, <2>4 DEF StrategyOK, WorkerOK
<1>12. CASE RereadAfterRejection
  <2>1. orders' \in Seq(OrderRecord) /\ entryPending' = entryPending
        /\ recovered' = recovered
    BY <1>2, <1>12 DEF RereadAfterRejection
  <2>2. CASE FlatPath(FALSE)
    BY <1>2, <1>4, <2>1, <2>2, FlatPathType DEF WorkerOK, SyncPcs
  <2>3. CASE Raise /\ UNCHANGED <<strategyVars, flatSeen>>
    BY <1>1, <1>2, <1>4, <2>1, <2>3, EndOfSyncType DEF StrategyOK, WorkerOK
  <2> QED
    BY <1>12, <2>2, <2>3 DEF RereadAfterRejection
<1>13. ASSUME NEW pc, NEW i \in Nat, NEW rest \in WorkRecord,
              CancelStale(pc, i, rest)
       PROVE  TypeOK'
  <2>1. /\ UNCHANGED <<strat, cycle>> /\ flatSeen' = flatSeen
        /\ entryPending' = entryPending /\ recovered' = recovered
    BY <1>13 DEF CancelStale
  <2>2. orders' \in Seq(OrderRecord)
    <3>1. i \notin DOMAIN orders => Cancelled(i) = orders
      BY <1>2 DEF Cancelled
    <3> QED
      BY <1>2, <1>13, <3>1, CancelledType DEF CancelStale
  <2>3. wpc' \in SyncPcs \cup {"idle", "failed"} /\ work' \in WorkRecord
        /\ health' \in {"none", "ok", "held", "error"}
    BY <1>1, <1>13, EndOfSyncType, ContinueType DEF CancelStale, SyncPcs
  <2> QED
    BY <1>1, <1>2, <1>4, <2>1, <2>2, <2>3 DEF StrategyOK, WorkerOK
<1>14. CASE CancelStaleTp
  <2>1. PICK i \in work.staleTp :
          CancelStale("cancelTp", i, [work EXCEPT !.staleTp = @ \ {i}])
    BY <1>14 DEF CancelStaleTp
  <2>2. i \in Nat /\ [work EXCEPT !.staleTp = @ \ {i}] \in WorkRecord
    BY <1>2 DEF WorkRecord
  <2> QED
    BY <1>13, <2>1, <2>2
<1>15. CASE CancelStaleDca
  <2>1. PICK i \in work.staleDca :
          CancelStale("cancelDca", i, [work EXCEPT !.staleDca = @ \ {i}])
    BY <1>15 DEF CancelStaleDca
  <2>2. i \in Nat /\ [work EXCEPT !.staleDca = @ \ {i}] \in WorkRecord
    BY <1>2 DEF WorkRecord
  <2> QED
    BY <1>13, <2>1, <2>2
<1>16. CASE BlockDca
  BY <1>1, <1>2, <1>4, <1>16, EndOfSyncType DEF BlockDca, StrategyOK, WorkerOK
<1>17. CASE PlaceDca
  <2>1. orders' \in Seq(OrderRecord)
    BY <1>2, <1>17, IntentTypes, PlacedType DEF PlaceDca
  <2>2. [work EXCEPT !.needDca = FALSE] \in WorkRecord
    BY <1>2 DEF WorkRecord
  <2>3. wpc' \in SyncPcs \cup {"idle"} /\ work' \in WorkRecord
        /\ health' \in {"none", "ok", "held", "error"}
    BY <1>1, <1>17, <2>2, ContinueType DEF PlaceDca, SyncPcs
  <2> QED
    BY <1>1, <1>2, <1>4, <1>17, <2>1, <2>3 DEF PlaceDca, StrategyOK, WorkerOK
<1>18. CASE ExhaustIdentities
  BY <1>1, <1>2, <1>4, <1>18, EndOfSyncType DEF ExhaustIdentities, StrategyOK, WorkerOK
<1> QED
  BY <1>5, <1>6, <1>7, <1>8, <1>9, <1>10, <1>11, <1>12, <1>14, <1>15, <1>16,
     <1>17, <1>18 DEF Sync

\* Every failure and every answer of the worker to one preserves it.
LEMMA FailureTypeStep ==
  ASSUME TypeOK,
         \/ Recover \/ CallRaises \/ AnswerLost
         \/ HandlerDisablesReentry \/ HandlerPauses
  PROVE  TypeOK'
<1> USE DEF exchangeVars, strategyVars, operatorVars
<1>1. /\ ExchangeOK /\ StrategyOK /\ WorkerOK /\ OperatorOK
      /\ budget \in [faults : Nat, crashes : Nat, manual : Nat]
  BY DEF TypeOK
<1>2. /\ strat \in StrategyRecord /\ work \in WorkRecord
      /\ orders \in Seq(OrderRecord) /\ DOMAIN orders \subseteq Nat
  BY <1>1, LenProperties DEF StrategyOK, WorkerOK, ExchangeOK
<1>3. Faulted => budget' \in [faults : Nat, crashes : Nat, manual : Nat]
  BY <1>1 DEF Faulted
<1>4. CASE Recover
  <2>1. ExchangeOK' /\ WorkerOK'
    BY <1>1, <1>4 DEF Recover, ExchangeOK, WorkerOK
  <2> QED
    BY <1>1, <1>4, <2>1 DEF Recover, TypeOK, StrategyOK, OperatorOK
<1>5. CASE CallRaises
  <2>1. WorkerOK'
    BY <1>1, <1>5, EndOfSyncType DEF CallRaises, WorkerOK
  <2>2. ExchangeOK' /\ StrategyOK' /\ OperatorOK'
    BY <1>1, <1>5 DEF CallRaises, ExchangeOK, StrategyOK, OperatorOK
  <2> QED
    BY <1>3, <1>5, <2>1, <2>2 DEF CallRaises, TypeOK
<1>6. CASE AnswerLost
  <2>1. WorkerOK' /\ Faulted
    BY <1>1, <1>6, EndOfSyncType DEF AnswerLost, WorkerOK
  <2>2. StrategyOK' /\ OperatorOK' /\ UNCHANGED <<execs, pos, basis, journal>>
    BY <1>1, <1>6 DEF AnswerLost, StrategyOK, OperatorOK
  <2>3. orders' \in Seq(OrderRecord)
    <3>1. \A o \in PendingIntents : o \in IntentRecord
      BY IntentTypes, LiveAssumption DEF PendingIntents
    <3>2. CASE \E o \in PendingIntents : orders' = Placed(o)
      BY <1>2, <3>1, <3>2, PlacedType
    <3>3. ASSUME NEW i, Active(i), orders' = Cancelled(i)
          PROVE  orders' \in Seq(OrderRecord)
      <4>1. i \notin DOMAIN orders => Cancelled(i) = orders
        BY <1>2 DEF Cancelled
      <4> QED
        BY <1>2, <3>3, <4>1, CancelledType
    <3> QED
      BY <1>6, <3>2, <3>3 DEF AnswerLost
  <2> QED
    BY <1>1, <1>3, <2>1, <2>2, <2>3 DEF TypeOK, ExchangeOK
<1>7. CASE HandlerDisablesReentry
  <2>1. StrategyOK' /\ WorkerOK'
    BY <1>1, <1>7 DEF HandlerDisablesReentry, StrategyOK, StrategyRecord, WorkerOK
  <2> QED
    BY <1>1, <1>7, <2>1 DEF HandlerDisablesReentry, TypeOK, ExchangeOK, OperatorOK
<1>8. CASE HandlerPauses
  <2>1. StrategyOK' /\ WorkerOK'
    BY <1>1, <1>8 DEF HandlerPauses, StrategyOK, StrategyRecord, WorkerOK
  <2>2. budget' \in [faults : Nat, crashes : Nat, manual : Nat]
    BY <1>1, <1>3, <1>8 DEF HandlerPauses
  <2> QED
    BY <1>1, <1>8, <2>1, <2>2 DEF HandlerPauses, TypeOK, ExchangeOK, OperatorOK
<1> QED
  BY <1>4, <1>5, <1>6, <1>7, <1>8

\* Every step of an operator command preserves it.
LEMMA OperatorTypeStep ==
  ASSUME TypeOK, Operator
  PROVE  TypeOK'
<1> USE DEF exchangeVars, strategyVars, workerVars
<1>1. /\ ExchangeOK /\ StrategyOK /\ WorkerOK /\ OperatorOK
      /\ budget \in [faults : Nat, crashes : Nat, manual : Nat]
  BY DEF TypeOK
<1>2. /\ orders \in Seq(OrderRecord) /\ DOMAIN orders \subseteq Nat
      /\ Len(orders) \in Nat /\ pos \in Int
      /\ opWork \in [cancel : SUBSET Nat, qty : Nat, basis : SUBSET Nat]
      /\ strat \in StrategyRecord /\ cycle \in CycleRecord
  BY <1>1, LenProperties DEF StrategyOK, OperatorOK, ExchangeOK
<1>3. /\ UNCHANGED <<execs, pos, basis, journal>> /\ WorkerOK'
      /\ budget' \in [faults : Nat, crashes : Nat, manual : Nat]
  BY <1>1 DEF Operator, Pause, CheckResume, EnableReentry, FinishResume, StartClose,
              CloseCancels, CloseReadsPosition, CloseSubmits, CloseRereads, CloseRaises, ClosePcs, WorkerOK,
              Intervened, Faulted
<1>4. ASSUME orders' \in Seq(OrderRecord), StrategyOK', OperatorOK'
      PROVE  TypeOK'
  BY <1>1, <1>3, <1>4 DEF TypeOK, ExchangeOK
<1>5. EndClose => /\ opc' = "idle"
                  /\ opWork' \in [cancel : SUBSET Nat, qty : Nat, basis : SUBSET Nat]
  BY DEF EndClose, NoOpWork
<1>6. AlreadyFlat => StrategyOK' /\ EndClose
  BY <1>1, <1>2, StrategyTypes DEF AlreadyFlat, StrategyOK
<1>7. CASE Pause
  <2>1. StrategyOK' /\ OperatorOK'
    BY <1>1, <1>7, StrategyTypes DEF Pause, StrategyOK, OperatorOK
  <2> QED
    BY <1>2, <1>4, <1>7, <2>1 DEF Pause
<1>8. CASE CheckResume
  BY <1>1, <1>2, <1>4, <1>8 DEF CheckResume, StrategyOK, OperatorOK
<1>9. CASE EnableReentry
  <2>1. StrategyOK'
    BY <1>1, <1>2, <1>9 DEF EnableReentry, StrategyOK, StrategyRecord
  <2>2. OperatorOK'
    BY <1>1, <1>2, <1>9 DEF EnableReentry, OperatorOK
  <2> QED
    BY <1>2, <1>4, <1>9, <2>1, <2>2 DEF EnableReentry
<1>10. CASE FinishResume
  <2>1. StrategyOK' /\ OperatorOK'
    BY <1>1, <1>2, <1>10 DEF FinishResume, StrategyOK, StrategyRecord, OperatorOK
  <2> QED
    BY <1>2, <1>4, <1>10, <2>1 DEF FinishResume
<1>11. CASE StartClose
  <2>1. opWork' = [cancel |-> Resting, qty |-> 0, basis |-> {}] /\ Resting \in SUBSET Nat
    BY <1>2, <1>11 DEF StartClose, NoOpWork, Resting
  <2>2. StrategyOK'
    BY <1>1, <1>11, StrategyTypes DEF StartClose, StrategyOK
  <2>3. opWork' \in [cancel : SUBSET Nat, qty : Nat, basis : SUBSET Nat]
    BY <2>1
  <2>4. opc' = "closing" /\ resumeMark' = 0
    BY <1>11 DEF StartClose
  <2>5. OperatorOK'
    BY <2>3, <2>4 DEF OperatorOK
  <2> QED
    BY <1>2, <1>4, <1>11, <2>2, <2>5 DEF StartClose
<1>12. CASE CloseCancels
  <2>1. PICK i \in opWork.cancel :
          \/ /\ orders' = Cancelled(i)
             /\ opWork' = [opWork EXCEPT !.cancel = @ \ {i}]
             /\ UNCHANGED opc
          \/ EndClose /\ UNCHANGED orders
    BY <1>12 DEF CloseCancels
  <2>2. orders' \in Seq(OrderRecord)
    <3>1. i \notin DOMAIN orders => Cancelled(i) = orders
      BY <1>2 DEF Cancelled
    <3> QED
      BY <1>2, <2>1, <3>1, CancelledType
  <2>3. OperatorOK'
    BY <1>1, <1>2, <1>5, <1>12, <2>1 DEF CloseCancels, OperatorOK
  <2> QED
    BY <1>1, <1>4, <1>12, <2>2, <2>3 DEF CloseCancels, StrategyOK
<1>13. CASE CloseReadsPosition
  <2>1. orders' \in Seq(OrderRecord) /\ resumeMark' = resumeMark
    BY <1>2, <1>13 DEF CloseReadsPosition
  <2>2. StrategyOK'
    BY <1>1, <1>6, <1>13 DEF CloseReadsPosition, StrategyOK
  <2>3. OperatorOK'
    <3>1. CASE EndClose
      BY <1>1, <1>5, <2>1, <3>1 DEF OperatorOK
    <3>2. CASE /\ pos > 0 /\ opc' = "submitting"
               /\ opWork' = [opWork EXCEPT !.qty = pos, !.basis = basis]
      <4>1. pos \in Nat /\ basis \in SUBSET Nat
        BY <1>1, <1>2, <3>2, LenProperties DEF ExchangeOK
      <4>2. opWork' \in [cancel : SUBSET Nat, qty : Nat, basis : SUBSET Nat]
        BY <1>2, <3>2, <4>1
      <4> QED
        BY <1>1, <2>1, <3>2, <4>2 DEF OperatorOK
    <3> QED
      BY <1>6, <1>13, <3>1, <3>2 DEF CloseReadsPosition
  <2> QED
    BY <1>4, <2>1, <2>2, <2>3
<1>14. CASE CloseSubmits
  <2>1. CloseIntent(cycle, opWork.basis, opWork.qty) \in IntentRecord
    BY <1>2, IntentTypes
  <2>2. orders' \in Seq(OrderRecord) /\ resumeMark' = resumeMark
    BY <1>2, <1>14, <2>1, PlacedType DEF CloseSubmits
  <2>3. StrategyOK' /\ OperatorOK'
    BY <1>1, <1>5, <1>14, <2>2 DEF CloseSubmits, StrategyOK, OperatorOK
  <2> QED
    BY <1>4, <2>2, <2>3
<1>16. CASE CloseRereads
  <2>1. orders' = orders /\ resumeMark' = resumeMark
    BY <1>16 DEF CloseRereads
  <2>2. StrategyOK' /\ EndClose
    <3>1. \/ AlreadyFlat
          \/ EndClose /\ UNCHANGED strategyVars
      BY <1>16, Zenon DEF CloseRereads
    <3>2. UNCHANGED strategyVars => StrategyOK'
      BY <1>1 DEF StrategyOK
    <3> QED
      BY <1>6, <3>1, <3>2
  <2> QED
    BY <1>1, <1>2, <1>4, <1>5, <2>1, <2>2 DEF OperatorOK
<1>15. CASE CloseRaises
  BY <1>1, <1>2, <1>4, <1>5, <1>15 DEF CloseRaises, StrategyOK, OperatorOK
<1> QED
  BY <1>7, <1>8, <1>9, <1>10, <1>11, <1>12, <1>13, <1>14, <1>15, <1>16 DEF Operator

\* Fills, hand-made changes and restarts preserve it.
LEMMA EnvironmentTypeStep ==
  ASSUME TypeOK, Environment
  PROVE  TypeOK'
<1> USE DEF exchangeVars, strategyVars, workerVars, operatorVars
<1>1. /\ ExchangeOK /\ StrategyOK /\ WorkerOK /\ OperatorOK
      /\ budget \in [faults : Nat, crashes : Nat, manual : Nat]
  BY DEF TypeOK
<1>2. /\ orders \in Seq(OrderRecord) /\ execs \in Seq(Execution) /\ pos \in Int
      /\ DOMAIN orders = 1 .. Len(orders) /\ Len(orders) \in Nat
      /\ DOMAIN execs = 1 .. Len(execs) /\ Len(execs) \in Nat
      /\ basis \subseteq DOMAIN execs /\ journal \subseteq DOMAIN execs
  BY <1>1, LenProperties DEF ExchangeOK
<1>3. ASSUME NEW side \in {"Buy", "Sell"}, NEW q \in Nat \ {0}, NEW o \in Nat,
             NEW p \in Int, Executed(side, q, o, p)
      PROVE  /\ execs' \in Seq(Execution) /\ pos' \in Int
             /\ basis' \subseteq DOMAIN execs' /\ journal \subseteq DOMAIN execs'
  <2>1. [side |-> side, qty |-> q, order |-> o] \in Execution
    BY DEF Execution
  <2>2. execs' = Append(execs, [side |-> side, qty |-> q, order |-> o])
    BY <1>3 DEF Executed
  <2>3. execs' \in Seq(Execution) /\ Len(execs') = Len(execs) + 1
    BY <1>2, <2>1, <2>2
  <2>4. DOMAIN execs' = 1 .. Len(execs) + 1
    BY <2>3, LenProperties
  <2>5. basis' \subseteq basis \cup {Len(execs) + 1}
    BY <1>3 DEF Executed, BasisAfter
  <2> QED
    BY <1>2, <1>3, <2>3, <2>4, <2>5 DEF Executed
<1>4. ASSUME NEW i \in DOMAIN orders, NEW q \in 1 .. Leaves(i)
      PROVE  q \in Nat \ {0}
  <2>1. Leaves(i) \in Int
    BY <1>2, OrderAt DEF Leaves, OrderRecord
  <2> QED
    BY <2>1
<1>5. ASSUME UNCHANGED <<strategyVars, workerVars, operatorVars>>, ExchangeOK',
             budget' \in [faults : Nat, crashes : Nat, manual : Nat]
      PROVE  TypeOK'
  BY <1>1, <1>5 DEF TypeOK, StrategyOK, WorkerOK, OperatorOK
<1>6. Intervened => budget' \in [faults : Nat, crashes : Nat, manual : Nat]
  BY <1>1 DEF Intervened
<1>7. CASE StreamDelivers
  <2>1. journal' \subseteq DOMAIN execs
    BY <1>2, <1>7 DEF StreamDelivers, RecordExecution
  <2>2. UNCHANGED <<exchangeVars, strategyVars, workerVars, operatorVars, budget>>
    BY <1>7 DEF StreamDelivers
  <2> QED
    BY <1>1, <1>5, <2>1, <2>2 DEF ExchangeOK
<1>8. CASE FillBuy
  <2>1. PICK i \in Resting : \E q \in 1 .. Leaves(i) :
          /\ Executed("Buy", q, i, pos + q)
          /\ orders' = AfterFill(i, q, pos + q)
    BY <1>8 DEF FillBuy
  <2>2. i \in DOMAIN orders
    BY DEF Resting
  <2>3. PICK q \in 1 .. Leaves(i) : /\ Executed("Buy", q, i, pos + q)
                                    /\ orders' = AfterFill(i, q, pos + q)
    BY <2>1
  <2>4. q \in Nat \ {0} /\ i \in Nat /\ pos + q \in Int
    BY <1>2, <1>4, <2>2
  <2>5. orders' \in Seq(OrderRecord)
    BY <1>2, <2>2, <2>3, <2>4, AfterFillType
  <2>6. /\ execs' \in Seq(Execution) /\ pos' \in Int
        /\ basis' \subseteq DOMAIN execs' /\ journal \subseteq DOMAIN execs'
    BY <1>3, <2>3, <2>4
  <2> QED
    BY <1>1, <1>5, <1>8, <2>5, <2>6 DEF FillBuy, ExchangeOK
<1>9. CASE FillSell
  <2>1. PICK i \in Resting : \E q \in 1 .. Leaves(i) :
          /\ Executed("Sell", q, i, pos - q)
          /\ orders' = AfterFill(i, q, pos - q)
    BY <1>9 DEF FillSell
  <2>2. i \in DOMAIN orders
    BY DEF Resting
  <2>3. PICK q \in 1 .. Leaves(i) : /\ Executed("Sell", q, i, pos - q)
                                    /\ orders' = AfterFill(i, q, pos - q)
    BY <2>1
  <2>4. q \in Nat \ {0} /\ i \in Nat /\ pos - q \in Int
    BY <1>2, <1>4, <2>2
  <2>5. orders' \in Seq(OrderRecord)
    BY <1>2, <2>2, <2>3, <2>4, AfterFillType
  <2>6. /\ execs' \in Seq(Execution) /\ pos' \in Int
        /\ basis' \subseteq DOMAIN execs' /\ journal \subseteq DOMAIN execs'
    BY <1>3, <2>3, <2>4
  <2> QED
    BY <1>1, <1>5, <1>9, <2>5, <2>6 DEF FillSell, ExchangeOK
<1>10. CASE ManualTrade
  <2>1. PICK side \in {"Buy", "Sell"}, p \in Int :
          /\ Executed(side, 1, Manual, p)
          /\ orders' = [j \in DOMAIN orders |->
                          IF p <= 0 /\ ReduceOnly(orders[j]) /\ Active(j)
                          THEN [orders[j] EXCEPT !.status = "Cancelled"]
                          ELSE orders[j]]
    BY <1>2, <1>10 DEF ManualTrade
  <2>2. \A j \in DOMAIN orders :
          /\ orders[j] \in OrderRecord
          /\ [orders[j] EXCEPT !.status = "Cancelled"] \in OrderRecord
    BY <1>2, OrderAt, Rewritten DEF Statuses
  <2>3. orders' \in [1 .. Len(orders) -> OrderRecord]
    BY <1>2, <2>1, <2>2
  <2>4. orders' \in Seq(OrderRecord)
    BY <1>2, <2>3, SeqDef
  <2>5. /\ execs' \in Seq(Execution) /\ pos' \in Int
        /\ basis' \subseteq DOMAIN execs' /\ journal \subseteq DOMAIN execs'
    <3>1. Manual \in Nat /\ 1 \in Nat \ {0}
      BY DEF Manual
    <3>2. Executed(side, 1, Manual, p)
      BY <2>1
    <3> QED
      BY <1>3, <3>1, <3>2
  <2>6. /\ UNCHANGED <<journal, strategyVars, workerVars, operatorVars>>
        /\ Intervened \/ budget' = budget
    BY <1>10 DEF ManualTrade
  <2>7. ExchangeOK'
    BY <2>4, <2>5, <2>6 DEF ExchangeOK
  <2>8. budget' \in [faults : Nat, crashes : Nat, manual : Nat]
    BY <1>1, <1>6, <2>6
  <2> QED
    BY <1>5, <2>6, <2>7, <2>8
<1>11. CASE ExternalCancel
  <2>1. PICK i \in Resting : orders' = Cancelled(i)
    BY <1>11 DEF ExternalCancel
  <2>2. orders' \in Seq(OrderRecord)
    BY <1>2, <2>1, CancelledType DEF Resting
  <2> QED
    BY <1>1, <1>5, <1>6, <1>11, <2>2 DEF ExternalCancel, ExchangeOK
<1>12. CASE Crash
  <2>1. NoWork \in WorkRecord /\ NoOpWork \in [cancel : SUBSET Nat, qty : Nat, basis : SUBSET Nat]
    BY <1>1, EndOfSyncType DEF NoOpWork
  <2>2. ExchangeOK' /\ StrategyOK'
    BY <1>1, <1>12, StrategyTypes DEF Crash, ExchangeOK, StrategyOK
  <2>3. WorkerOK' /\ OperatorOK'
    BY <1>12, <2>1 DEF Crash, WorkerOK, OperatorOK
  <2>4. budget' \in [faults : Nat, crashes : Nat, manual : Nat]
    BY <1>1, <1>12 DEF Crash
  <2> QED
    BY <2>2, <2>3, <2>4 DEF TypeOK
<1> QED
  BY <1>7, <1>8, <1>9, <1>10, <1>11, <1>12 DEF Environment

\* Every step preserves the type invariant.
LEMMA TypeStep ==
  ASSUME TypeOK, [Next]_vars
  PROVE  TypeOK'
<1>1. CASE UNCHANGED vars
  BY <1>1 DEF vars, exchangeVars, strategyVars, workerVars, operatorVars, TypeOK,
              ExchangeOK, StrategyOK, WorkerOK, OperatorOK
<1> QED
  BY <1>1, SyncTypeStep, FailureTypeStep, OperatorTypeStep, EnvironmentTypeStep
     DEF Next, Worker

\* Every state of every behaviour is well formed: the journal and the average
\* entry never refer to an execution that has not happened.
THEOREM TypeInvariant == Spec => []TypeOK
<1>1. Init => TypeOK
  <2> SUFFICES ASSUME Init PROVE TypeOK
    OBVIOUS
  <2>1. ExchangeOK
    BY DEF Init, ExchangeOK
  <2>2. StrategyOK /\ WorkerOK
    BY DEF Init, StrategyOK, StrategyRecord, CycleRecord, Paused, NoCycle,
           WorkerOK, WorkRecord, NoWork
  <2>3. OperatorOK /\ budget \in [faults : Nat, crashes : Nat, manual : Nat]
    BY LiveAssumption DEF Init, OperatorOK, NoOpWork
  <2> QED
    BY <2>1, <2>2, <2>3 DEF TypeOK
<1>2. TypeOK /\ [Next]_vars => TypeOK'
  BY TypeStep
<1> QED
  BY <1>1, <1>2, PTL DEF Spec

-----------------------------------------------------------------------------
(* How the orders that rest change *)

\* Placing an order adds at most that order, in its own role.
LEMMA PlacedResting ==
  ASSUME TypeOK, NEW o \in IntentRecord, orders' = Placed(o), NEW r
  PROVE  /\ o.role # r => RestingOf(r)' \subseteq RestingOf(r)
         /\ RestingOf(r)' \subseteq RestingOf(r) \cup {Len(orders) + 1}
<1>1. orders \in Seq(OrderRecord)
  BY DEF TypeOK, ExchangeOK
<1>2. CASE orders' = orders
  BY <1>2 DEF RestingOf, Resting, Active
<1>3. CASE orders' = Append(orders, NewOrder(o))
  <2>1. /\ DOMAIN orders = 1 .. Len(orders) /\ Len(orders) \in Nat
        /\ DOMAIN orders' = 1 .. Len(orders) + 1
        /\ \A i \in DOMAIN orders : orders'[i] = orders[i]
        /\ orders'[Len(orders) + 1] = NewOrder(o)
    BY <1>1, <1>3, LenProperties
  <2>2. NewOrder(o).role = o.role
    BY DEF NewOrder
  <2>3. \A i \in RestingOf(r)' : i \in RestingOf(r) \/ i = Len(orders) + 1
    BY <2>1 DEF RestingOf, Resting, Active
  <2>4. Len(orders) + 1 \in RestingOf(r)' => o.role = r
    BY <2>1, <2>2 DEF RestingOf, Resting
  <2> QED
    BY <2>3, <2>4
<1> QED
  BY <1>2, <1>3 DEF Placed

\* Cancelling removes the order and adds none.
LEMMA CancelledResting ==
  ASSUME TypeOK, NEW i, orders' = Cancelled(i), NEW r
  PROVE  RestingOf(r)' \subseteq RestingOf(r) \ {i}
<1>1. /\ DOMAIN orders' = DOMAIN orders
      /\ \A j \in DOMAIN orders : j # i => orders'[j] = orders[j]
      /\ i \in DOMAIN orders => orders'[i].status = "Cancelled"
  <2>1. \A j \in DOMAIN orders : orders[j] \in OrderRecord
    BY OrderAt DEF TypeOK, ExchangeOK
  <2> QED
    BY <2>1 DEF Cancelled, OrderRecord
<1> QED
  BY <1>1 DEF RestingOf, Resting, Active

\* A fill never brings an order back.
LEMMA AfterFillResting ==
  ASSUME TypeOK, NEW i \in Resting, NEW q \in Nat, NEW p \in Int,
         orders' = AfterFill(i, q, p), NEW r
  PROVE  RestingOf(r)' \subseteq RestingOf(r)
<1>1. /\ orders \in Seq(OrderRecord) /\ i \in DOMAIN orders
  BY DEF TypeOK, ExchangeOK, Resting
<1>2. DOMAIN orders' = DOMAIN orders
  BY <1>1, AfterFillType
<1>3. ASSUME NEW j \in DOMAIN orders
      PROVE  /\ orders'[j].role = orders[j].role
             /\ Active(j)' => Active(j)
  <2>1. orders[j] \in OrderRecord
    BY <1>1, OrderAt
  <2>2. CASE j = i
    <3>1. \E st : orders'[j] = [orders[j] EXCEPT !.filled = @ + q, !.status = st]
      BY <2>2 DEF AfterFill
    <3>2. orders'[j].role = orders[j].role
      BY <2>1, <3>1 DEF OrderRecord
    <3> QED
      BY <2>2, <3>2 DEF Resting
  <2>3. CASE j # i
    <3>1. \/ orders'[j] = orders[j]
          \/ orders'[j] = [orders[j] EXCEPT !.status = "Cancelled"]
      BY <2>3 DEF AfterFill
    <3> QED
      BY <2>1, <3>1 DEF Active, OrderRecord
  <2> QED
    BY <2>2, <2>3
<1> QED
  BY <1>2, <1>3 DEF RestingOf, Resting

\* Neither the environment nor the operator adds a take profit or a DCA.
LEMMA OutsideResting ==
  ASSUME TypeOK, Operator \/ Environment, NEW r \in {"tp", "dca"}
  PROVE  /\ RestingOf(r)' \subseteq RestingOf(r)
         /\ \/ UNCHANGED <<wpc, work>>
            \/ wpc' = "idle"
<1>1. orders \in Seq(OrderRecord) /\ pos \in Int
  BY DEF TypeOK, ExchangeOK
<1>2. \/ UNCHANGED <<wpc, work>>
      \/ wpc' = "idle"
  BY DEF Operator, Pause, CheckResume, EnableReentry, FinishResume, StartClose,
         CloseCancels, CloseReadsPosition, CloseSubmits, CloseRereads, CloseRaises,
         Environment, StreamDelivers, FillBuy, FillSell, ManualTrade,
         ExternalCancel, Crash, workerVars
<1>3. CASE UNCHANGED orders
  BY <1>2, <1>3 DEF RestingOf, Resting, Active
<1>4. CASE \E i : orders' = Cancelled(i)
  BY <1>2, <1>4, CancelledResting
<1>5. CASE CloseSubmits
  <2>1. opWork.qty \in Nat /\ opWork.basis \in SUBSET Nat
    BY DEF TypeOK, OperatorOK
  <2>2. CloseIntent(cycle, opWork.basis, opWork.qty) \in IntentRecord
    BY <2>1, IntentTypes
  <2>3. CloseIntent(cycle, opWork.basis, opWork.qty).role = "close"
    BY DEF CloseIntent, Intent
  <2>4. \/ UNCHANGED orders
        \/ orders' = Placed(CloseIntent(cycle, opWork.basis, opWork.qty))
    BY <1>5, Zenon DEF CloseSubmits
  <2> QED
    BY <1>3, <1>2, <2>2, <2>3, <2>4, PlacedResting
<1>6. CASE FillBuy \/ FillSell
  <2>1. PICK i \in Resting, p \in Int :
          \E q \in 1 .. Leaves(i) : orders' = AfterFill(i, q, p)
    BY <1>1, <1>6 DEF FillBuy, FillSell
  <2>2. PICK q \in 1 .. Leaves(i) : orders' = AfterFill(i, q, p)
    BY <2>1
  <2>3. orders[i] \in OrderRecord
    BY <1>1, OrderAt DEF Resting
  <2>4. q \in Nat
    BY <2>3 DEF Leaves, OrderRecord
  <2> QED
    BY <1>2, <2>2, <2>4, AfterFillResting
<1>7. CASE ManualTrade
  <2>1. DOMAIN orders' = DOMAIN orders
    BY <1>7 DEF ManualTrade
  <2>2. ASSUME NEW j \in DOMAIN orders
        PROVE  orders'[j].role = orders[j].role /\ (Active(j)' => Active(j))
    <3>1. orders[j] \in OrderRecord
      BY <1>1, OrderAt
    <3>2. \/ orders'[j] = orders[j]
          \/ orders'[j] = [orders[j] EXCEPT !.status = "Cancelled"]
      BY <1>7 DEF ManualTrade
    <3> QED
      BY <3>1, <3>2 DEF Active, OrderRecord
  <2> QED
    BY <1>2, <2>1, <2>2 DEF RestingOf, Resting
<1> QED
  <2>1. \/ UNCHANGED orders
        \/ CloseCancels \/ ExternalCancel
        \/ CloseSubmits \/ FillBuy \/ FillSell \/ ManualTrade
    BY DEF Operator, Pause, CheckResume, EnableReentry, FinishResume, StartClose,
           CloseReadsPosition, CloseRereads, CloseRaises, Environment, StreamDelivers, Crash,
           exchangeVars
  <2>2. CloseCancels \/ ExternalCancel =>
          UNCHANGED orders \/ \E i : orders' = Cancelled(i)
    BY Zenon DEF CloseCancels, ExternalCancel
  <2> QED
    BY <1>2, <1>3, <1>4, <1>5, <1>6, <1>7, <2>1, <2>2

-----------------------------------------------------------------------------
(* Inductive invariants *)

\* Steps of a sync that act on a plan made from an earlier snapshot.
Deciding == {"recheck", "placeTp", "cancelTp", "cancelDca", "placeDca"}

\* Until a sync that wants a new DCA sends it, every resting DCA is on its list
\* of stale ones; when it sends it, that list is done.
OneDcaInv ==
  /\ AtMostOneDca
  /\ (wpc \in Deciding /\ work.needDca) => RestingOf("dca") \subseteq work.staleDca
  /\ wpc = "placeDca" => work.staleDca = {} /\ work.needDca

\* A sync that still has to place its take profit saw at most one.
TwoExitsInv ==
  /\ AtMostTwoExits
  /\ wpc \in {"recheck", "placeTp"} => Cardinality(RestingOf("tp")) <= 1
  /\ wpc \in {"cancelTp", "cancelDca", "placeDca"} => ~work.needTp

\* Only Resume leads out of PAUSED.
ResumedInv ==
  resumeMark = 0 => /\ strat = Paused
                    /\ opc # "resuming"
                    /\ wpc # "entry"

\* What a sync of an open basket does with its resting DCA orders.
LEMMA ContinueDca ==
  ASSUME NEW w, Continue(w), AtMostOneDca',
         w.needDca => RestingOf("dca")' \subseteq w.staleDca
  PROVE  OneDcaInv'
<1>1. CASE wpc' = "idle"
  BY <1>1 DEF OneDcaInv, Deciding
<1>2. CASE wpc' # "idle"
  <2>1. work' = w /\ wpc' = NextCall(w)
    BY <1>2 DEF Continue
  <2>2. wpc' = "placeDca" => w.staleDca = {} /\ w.needDca
    BY <2>1 DEF NextCall
  <2> QED
    BY <2>1, <2>2 DEF OneDcaInv
<1> QED
  BY <1>1, <1>2

\* Every step preserves the invariant behind AtMostOneDca.
LEMMA OneDcaStep ==
  ASSUME TypeOK, OneDcaInv, [Next]_vars
  PROVE  OneDcaInv'
<1> USE DEF exchangeVars, strategyVars, workerVars, operatorVars
<1>1. /\ orders \in Seq(OrderRecord) /\ work \in WorkRecord
      /\ AtMostOneDca
  BY DEF TypeOK, ExchangeOK, WorkerOK, OneDcaInv
<1>2. RestingOf("dca")' \subseteq RestingOf("dca") => AtMostOneDca'
  BY <1>1 DEF AtMostOneDca
<1>3. orders' = orders => RestingOf("dca")' = RestingOf("dca")
  BY DEF RestingOf, Resting, Active
<1>4. ASSUME RestingOf("dca")' \subseteq RestingOf("dca"), wpc' \notin Deciding
      PROVE  OneDcaInv'
  BY <1>2, <1>4 DEF OneDcaInv, Deciding
<1>5. ASSUME RestingOf("dca")' \subseteq RestingOf("dca"), UNCHANGED <<wpc, work>>
      PROVE  OneDcaInv'
  BY <1>2, <1>5 DEF OneDcaInv
<1>6. CASE ReadPosition \/ BlockEntry \/ Reconcile \/ RereadAfterRejection
           \/ BlockDca \/ ExhaustIdentities \/ CallRaises
           \/ HandlerDisablesReentry \/ HandlerPauses
  <2>1. orders' = orders /\ wpc' \notin Deciding
    BY <1>6 DEF ReadPosition, BlockEntry, Reconcile, RereadAfterRejection, BlockDca,
                ExhaustIdentities, CallRaises, HandlerDisablesReentry, HandlerPauses,
                Return, Raise, FlatPath, Deciding
  <2> QED
    BY <1>3, <1>4, <2>1
<1>7. CASE Recover \/ UNCHANGED vars
  BY <1>3, <1>5, <1>7 DEF Recover, vars
<1>8. CASE SubmitEntry
  <2>1. PICK qty \in EntryQtys : orders' = Placed(EntryIntent(qty))
    BY <1>8 DEF SubmitEntry
  <2>2. EntryIntent(qty) \in IntentRecord /\ EntryIntent(qty).role = "open"
    BY LiveAssumption, IntentTypes DEF EntryIntent, Intent
  <2>3. RestingOf("dca")' \subseteq RestingOf("dca")
    BY <2>1, <2>2, PlacedResting
  <2> QED
    BY <1>4, <1>8, <2>3 DEF SubmitEntry, Return, Deciding
<1>9. CASE ReadOrders
  <2>1. orders' = orders
    BY <1>9 DEF ReadOrders
  <2>2. PlanOrders.needDca => RestingOf("dca") \subseteq PlanOrders.staleDca
    BY DEF PlanOrders
  <2>3. CASE Continue(PlanOrders)
    BY <1>2, <1>3, <2>1, <2>2, <2>3, ContinueDca
  <2>4. CASE wpc' = "recheck" /\ work' = PlanOrders
    BY <1>2, <1>3, <2>1, <2>2, <2>4 DEF OneDcaInv
  <2>5. CASE Return("held") \/ Raise
    BY <1>3, <1>4, <2>1, <2>5 DEF Return, Raise, Deciding
  <2> QED
    BY <1>9, <2>3, <2>4, <2>5 DEF ReadOrders
<1>10. CASE RecheckPosition
  <2>1. orders' = orders /\ wpc = "recheck"
    BY <1>10 DEF RecheckPosition
  <2>2. CASE FlatPath(FALSE)
    BY <1>3, <1>4, <2>1, <2>2 DEF FlatPath, Return, Deciding
  <2>3. CASE Continue(work)
    BY <1>2, <1>3, <2>1, <2>3, ContinueDca DEF OneDcaInv, Deciding
  <2> QED
    BY <1>10, <2>2, <2>3 DEF RecheckPosition
<1>11. CASE PlaceTp
  <2>1. TpIntent(cycle) \in IntentRecord /\ TpIntent(cycle).role = "tp"
    BY IntentTypes DEF TpIntent, Intent
  <2>2. RestingOf("dca")' \subseteq RestingOf("dca")
    BY <1>3, <1>11, <2>1, PlacedResting DEF PlaceTp
  <2>3. CASE wpc' = "rejected"
    BY <1>4, <2>2, <2>3 DEF Deciding
  <2>4. CASE Continue([work EXCEPT !.needTp = FALSE])
    <3> DEFINE w == [work EXCEPT !.needTp = FALSE]
    <3>1. w.needDca = work.needDca /\ w.staleDca = work.staleDca
      BY <1>1 DEF WorkRecord
    <3>2. w.needDca => RestingOf("dca")' \subseteq w.staleDca
      BY <1>11, <2>2, <3>1 DEF PlaceTp, OneDcaInv, Deciding
    <3> HIDE DEF w
    <3> QED
      BY <1>2, <2>2, <2>4, <3>2, ContinueDca DEF w
  <2> QED
    BY <1>11, <2>3, <2>4 DEF PlaceTp
<1>12. CASE CancelStaleTp
  <2>1. PICK i \in work.staleTp :
          CancelStale("cancelTp", i, [work EXCEPT !.staleTp = @ \ {i}])
    BY <1>12 DEF CancelStaleTp
  <2>2. CASE Raise /\ UNCHANGED orders
    BY <1>3, <1>4, <2>2 DEF Raise, Deciding
  <2>3. CASE orders' = Cancelled(i) /\ Continue([work EXCEPT !.staleTp = @ \ {i}])
    <3> DEFINE w == [work EXCEPT !.staleTp = @ \ {i}]
    <3>1. w.needDca = work.needDca /\ w.staleDca = work.staleDca
      BY <1>1 DEF WorkRecord
    <3>2. RestingOf("dca")' \subseteq RestingOf("dca")
      BY <2>3, CancelledResting
    <3>3. w.needDca => RestingOf("dca")' \subseteq w.staleDca
      BY <2>1, <3>1, <3>2 DEF CancelStale, OneDcaInv, Deciding
    <3> HIDE DEF w
    <3> QED
      BY <1>2, <2>3, <3>2, <3>3, ContinueDca DEF w
  <2> QED
    BY <2>1, <2>2, <2>3 DEF CancelStale
<1>13. CASE CancelStaleDca
  <2>1. PICK i \in work.staleDca :
          CancelStale("cancelDca", i, [work EXCEPT !.staleDca = @ \ {i}])
    BY <1>13 DEF CancelStaleDca
  <2>2. CASE Raise /\ UNCHANGED orders
    BY <1>3, <1>4, <2>2 DEF Raise, Deciding
  <2>3. CASE orders' = Cancelled(i) /\ Continue([work EXCEPT !.staleDca = @ \ {i}])
    <3> DEFINE w == [work EXCEPT !.staleDca = @ \ {i}]
    <3>1. w.needDca = work.needDca /\ w.staleDca = work.staleDca \ {i}
      BY <1>1 DEF WorkRecord
    <3>2. RestingOf("dca")' \subseteq RestingOf("dca") \ {i}
      BY <2>3, CancelledResting
    <3>3. w.needDca => RestingOf("dca")' \subseteq w.staleDca
      BY <2>1, <3>1, <3>2 DEF CancelStale, OneDcaInv, Deciding
    <3> HIDE DEF w
    <3> QED
      BY <1>2, <2>3, <3>2, <3>3, ContinueDca DEF w
  <2> QED
    BY <2>1, <2>2, <2>3 DEF CancelStale
<1>14. ASSUME wpc = "placeDca", NEW o \in IntentRecord, orders' = Placed(o)
       PROVE  AtMostOneDca'
  <2>1. RestingOf("dca") = {}
    BY <1>14 DEF OneDcaInv, Deciding
  <2>2. RestingOf("dca")' \subseteq {Len(orders) + 1}
    BY <1>14, <2>1, PlacedResting
  <2> QED
    BY <2>2 DEF AtMostOneDca
<1>15. CASE PlaceDca
  <2>1. AtMostOneDca'
    BY <1>14, <1>15, IntentTypes DEF PlaceDca
  <2> DEFINE w == [work EXCEPT !.needDca = FALSE]
  <2>2. Continue(w) /\ ~w.needDca
    BY <1>1, <1>15 DEF PlaceDca, WorkRecord
  <2> HIDE DEF w
  <2> QED
    BY <2>1, <2>2, ContinueDca
<1>16. CASE AnswerLost
  <2>1. wpc' = "failed"
    BY <1>16 DEF AnswerLost, Raise
  <2>2. AtMostOneDca'
    <3>1. CASE \E i : orders' = Cancelled(i)
      BY <1>2, <3>1, CancelledResting
    <3>2. CASE /\ wpc \in {"placeTp", "placeDca", "entry"}
               /\ \E o \in PendingIntents : orders' = Placed(o)
      <4>1. PICK o \in PendingIntents : orders' = Placed(o)
        BY <3>2
      <4>2. o \in IntentRecord /\ (wpc # "placeDca" => o.role # "dca")
        BY <3>2, IntentTypes, LiveAssumption
           DEF PendingIntents, TpIntent, EntryIntent, Intent
      <4>3. CASE wpc = "placeDca"
        BY <1>14, <4>1, <4>2, <4>3
      <4>4. CASE wpc # "placeDca"
        BY <1>2, <4>1, <4>2, <4>4, PlacedResting
      <4> QED
        BY <4>3, <4>4
    <3> QED
      BY <1>16, <3>1, <3>2 DEF AnswerLost
  <2> QED
    BY <2>1, <2>2 DEF OneDcaInv, Deciding
<1>17. CASE Operator \/ Environment
  <2>1. RestingOf("dca")' \subseteq RestingOf("dca")
    BY <1>17, OutsideResting
  <2>2. UNCHANGED <<wpc, work>> \/ wpc' = "idle"
    BY <1>17, OutsideResting
  <2> QED
    BY <1>4, <1>5, <2>1, <2>2 DEF Deciding
<1> QED
  BY <1>6, <1>7, <1>8, <1>9, <1>10, <1>11, <1>12, <1>13, <1>15, <1>16, <1>17
     DEF Next, Worker, Sync

\* At most one DCA order rests at any time, however calls fail, answers get
\* lost, orders fill and the process restarts.
THEOREM OneEntryLiability == Spec => []AtMostOneDca
<1>1. Init => OneDcaInv
  BY DEF Init, OneDcaInv, AtMostOneDca, RestingOf, Resting, Deciding
<1>2. TypeOK /\ OneDcaInv /\ [Next]_vars => OneDcaInv'
  BY OneDcaStep
<1>3. OneDcaInv => AtMostOneDca
  BY DEF OneDcaInv
<1> QED
  BY <1>1, <1>2, <1>3, TypeInvariant, PTL DEF Spec

-----------------------------------------------------------------------------
(* Exits *)

\* The resting orders of a role are finitely many.
LEMMA RestingFinite ==
  ASSUME TypeOK, NEW r
  PROVE  IsFiniteSet(RestingOf(r))
<1>1. DOMAIN orders = 1 .. Len(orders) /\ Len(orders) \in Nat
  BY LenProperties DEF TypeOK, ExchangeOK
<1>2. RestingOf(r) \in SUBSET (1 .. Len(orders))
  BY <1>1 DEF RestingOf, Resting
<1>3. IsFiniteSet(1 .. Len(orders))
  BY <1>1, FS_Interval
<1> QED
  BY <1>2, <1>3, FS_Subset

\* A step that adds no take profit leaves no more of them than before.
LEMMA FewerExits ==
  ASSUME TypeOK, RestingOf("tp")' \subseteq RestingOf("tp")
  PROVE  /\ Cardinality(RestingOf("tp")) \in Nat
         /\ Cardinality(RestingOf("tp")') \in Nat
         /\ Cardinality(RestingOf("tp")') <= Cardinality(RestingOf("tp"))
<1>1. IsFiniteSet(RestingOf("tp"))
  BY RestingFinite
<1> QED
  BY <1>1, FS_Subset, FS_CardinalityType

\* Placing one order beside at most one take profit leaves at most two.
LEMMA OneMoreExit ==
  ASSUME TypeOK, Cardinality(RestingOf("tp")) <= 1,
         NEW o \in IntentRecord, orders' = Placed(o)
  PROVE  AtMostTwoExits'
<1> DEFINE S == RestingOf("tp")
           x == Len(orders) + 1
<1>1. IsFiniteSet(S) /\ Cardinality(S) \in Nat
  BY RestingFinite, FS_CardinalityType
<1>2. IsFiniteSet(S \cup {x}) /\ Cardinality(S \cup {x}) <= Cardinality(S) + 1
  <2> HIDE DEF S, x
  <2>1. IsFiniteSet(S \cup {x})
    BY <1>1, FS_AddElement
  <2>2. Cardinality(S \cup {x}) = IF x \in S THEN Cardinality(S) ELSE Cardinality(S) + 1
    BY <1>1, FS_AddElement, Zenon
  <2> QED
    BY <1>1, <2>1, <2>2
<1>3. Cardinality(S \cup {x}) \in Nat
  BY <1>2, FS_CardinalityType
<1>4. RestingOf("tp")' \in SUBSET (S \cup {x})
  BY PlacedResting
<1>5. /\ Cardinality(RestingOf("tp")') \in Nat
      /\ Cardinality(RestingOf("tp")') <= Cardinality(S \cup {x})
  BY <1>2, <1>4, FS_Subset, FS_CardinalityType
<1> QED
  BY <1>1, <1>2, <1>3, <1>5 DEF AtMostTwoExits

\* A sync that goes on places a take profit next only if its plan says so.
LEMMA ContinueExits ==
  ASSUME NEW w, Continue(w), AtMostTwoExits',
         w.needTp => Cardinality(RestingOf("tp")') <= 1
  PROVE  TwoExitsInv'
<1>1. CASE wpc' = "idle"
  BY <1>1 DEF TwoExitsInv
<1>2. CASE wpc' # "idle"
  <2>1. work' = w /\ wpc' = NextCall(w)
    BY <1>2 DEF Continue
  <2>2. /\ wpc' # "recheck"
        /\ wpc' = "placeTp" => w.needTp
        /\ wpc' \in {"cancelTp", "cancelDca", "placeDca"} => ~w.needTp
    BY <2>1 DEF NextCall
  <2> QED
    BY <2>1, <2>2 DEF TwoExitsInv
<1> QED
  BY <1>1, <1>2

\* Every step preserves the invariant behind AtMostTwoExits.
LEMMA TwoExitsStep ==
  ASSUME TypeOK, TwoExitsInv, [Next]_vars
  PROVE  TwoExitsInv'
<1> USE DEF exchangeVars, strategyVars, workerVars, operatorVars
<1> DEFINE Quiet == {"idle", "failed", "pausing", "dead", "entry", "reconcile", "orders",
                     "rejected"}
<1>1. orders \in Seq(OrderRecord) /\ work \in WorkRecord /\ AtMostTwoExits
  BY DEF TypeOK, ExchangeOK, WorkerOK, TwoExitsInv
<1>2. ASSUME RestingOf("tp")' \subseteq RestingOf("tp")
      PROVE  /\ AtMostTwoExits'
             /\ Cardinality(RestingOf("tp")) <= 1 => Cardinality(RestingOf("tp")') <= 1
  BY <1>1, <1>2, FewerExits DEF AtMostTwoExits
<1>3. orders' = orders => RestingOf("tp")' = RestingOf("tp")
  BY DEF RestingOf, Resting, Active
<1>4. ASSUME RestingOf("tp")' \subseteq RestingOf("tp"), wpc' \in Quiet
      PROVE  TwoExitsInv'
  BY <1>2, <1>4 DEF TwoExitsInv
<1>5. ASSUME RestingOf("tp")' \subseteq RestingOf("tp"), UNCHANGED <<wpc, work>>
      PROVE  TwoExitsInv'
  BY <1>2, <1>5 DEF TwoExitsInv
<1>6. CASE ReadPosition \/ BlockEntry \/ Reconcile \/ RereadAfterRejection
           \/ BlockDca \/ ExhaustIdentities \/ CallRaises
           \/ HandlerDisablesReentry \/ HandlerPauses
  <2>1. orders' = orders /\ wpc' \in Quiet
    BY <1>6 DEF ReadPosition, BlockEntry, Reconcile, RereadAfterRejection, BlockDca,
                ExhaustIdentities, CallRaises, HandlerDisablesReentry, HandlerPauses,
                Return, Raise, FlatPath
  <2> QED
    BY <1>3, <1>4, <2>1
<1>7. CASE Recover \/ UNCHANGED vars
  BY <1>3, <1>5, <1>7 DEF Recover, vars
<1>8. CASE SubmitEntry
  <2>1. PICK qty \in EntryQtys : orders' = Placed(EntryIntent(qty))
    BY <1>8 DEF SubmitEntry
  <2>2. EntryIntent(qty) \in IntentRecord /\ EntryIntent(qty).role = "open"
    BY LiveAssumption, IntentTypes DEF EntryIntent, Intent
  <2>3. RestingOf("tp")' \subseteq RestingOf("tp")
    BY <2>1, <2>2, PlacedResting
  <2> QED
    BY <1>4, <1>8, <2>3 DEF SubmitEntry, Return
<1>9. CASE ReadOrders
  <2>1. orders' = orders
    BY <1>9 DEF ReadOrders
  <2>2. Return("held") \/ Raise \/ Cardinality(RestingOf("tp")) <= 1
    <3>1. CASE RestingOf("tp") = {}
      BY <3>1, FS_EmptySet
    <3>2. CASE RestingOf("tp") # {} /\ Cardinality(RestingOf("tp")) > 1
      BY <1>9, <3>2 DEF ReadOrders, Assess
    <3> QED
      BY <3>1, <3>2, RestingFinite, FS_CardinalityType
  <2>3. CASE Return("held") \/ Raise
    BY <1>3, <1>4, <2>1, <2>3 DEF Return, Raise
  <2>4. CASE Cardinality(RestingOf("tp")) <= 1 /\ Continue(PlanOrders)
    BY <1>2, <1>3, <2>1, <2>4, ContinueExits
  <2>5. CASE Cardinality(RestingOf("tp")) <= 1 /\ wpc' = "recheck"
    BY <1>2, <1>3, <2>1, <2>5 DEF TwoExitsInv
  <2> QED
    BY <1>9, <2>2, <2>3, <2>4, <2>5 DEF ReadOrders
<1>10. CASE RecheckPosition
  <2>1. orders' = orders /\ wpc = "recheck"
    BY <1>10 DEF RecheckPosition
  <2>2. CASE FlatPath(FALSE)
    BY <1>3, <1>4, <2>1, <2>2 DEF FlatPath, Return
  <2>3. CASE Continue(work)
    BY <1>2, <1>3, <2>1, <2>3, ContinueExits DEF TwoExitsInv
  <2> QED
    BY <1>10, <2>2, <2>3 DEF RecheckPosition
<1>11. CASE PlaceTp
  <2>1. CASE wpc' = "rejected"
    BY <1>3, <1>4, <1>11, <2>1 DEF PlaceTp, Continue, NextCall
  <2>2. CASE orders' = Placed(TpIntent(cycle))
             /\ Continue([work EXCEPT !.needTp = FALSE])
    <3>1. TpIntent(cycle) \in IntentRecord
      BY IntentTypes
    <3>2. Cardinality(RestingOf("tp")) <= 1
      BY <1>11 DEF PlaceTp, TwoExitsInv
    <3>3. AtMostTwoExits'
      BY <2>2, <3>1, <3>2, OneMoreExit
    <3> DEFINE w == [work EXCEPT !.needTp = FALSE]
    <3>4. ~w.needTp
      BY <1>1 DEF WorkRecord
    <3> HIDE DEF w
    <3> QED
      BY <2>2, <3>3, <3>4, ContinueExits DEF w
  <2> QED
    BY <1>11, <2>1, <2>2 DEF PlaceTp
<1>12. ASSUME NEW pc \in {"cancelTp", "cancelDca"}, NEW i, NEW rest,
              CancelStale(pc, i, rest), rest.needTp = work.needTp
       PROVE  TwoExitsInv'
  <2>1. CASE Raise /\ UNCHANGED orders
    BY <1>3, <1>4, <2>1 DEF Raise
  <2>2. CASE orders' = Cancelled(i) /\ Continue(rest)
    <3>1. RestingOf("tp")' \subseteq RestingOf("tp")
      BY <2>2, CancelledResting
    <3>2. ~rest.needTp
      BY <1>12 DEF CancelStale, TwoExitsInv
    <3> QED
      BY <1>2, <2>2, <3>1, <3>2, ContinueExits
  <2> QED
    BY <1>12, <2>1, <2>2 DEF CancelStale
<1>13. CASE CancelStaleTp
  <2>1. \A S : [work EXCEPT !.staleTp = S].needTp = work.needTp
    BY <1>1 DEF WorkRecord
  <2> QED
    BY <1>12, <1>13, <2>1 DEF CancelStaleTp
<1>14. CASE CancelStaleDca
  <2>1. \A S : [work EXCEPT !.staleDca = S].needTp = work.needTp
    BY <1>1 DEF WorkRecord
  <2> QED
    BY <1>12, <1>14, <2>1 DEF CancelStaleDca
<1>15. CASE PlaceDca
  <2> DEFINE w == [work EXCEPT !.needDca = FALSE]
  <2>1. DcaIntent(cycle) \in IntentRecord /\ DcaIntent(cycle).role = "dca"
    BY IntentTypes DEF DcaIntent, Intent
  <2>2. RestingOf("tp")' \subseteq RestingOf("tp")
    BY <1>15, <2>1, PlacedResting DEF PlaceDca
  <2>3. ~w.needTp
    BY <1>1, <1>15 DEF PlaceDca, TwoExitsInv, WorkRecord
  <2>4. Continue(w)
    BY <1>15 DEF PlaceDca
  <2> HIDE DEF w
  <2> QED
    BY <1>2, <2>2, <2>3, <2>4, ContinueExits
<1>16. CASE AnswerLost
  <2>1. wpc' = "failed"
    BY <1>16 DEF AnswerLost, Raise
  <2>2. AtMostTwoExits'
    <3>1. CASE \E i : orders' = Cancelled(i)
      BY <1>2, <3>1, CancelledResting
    <3>2. CASE \E o \in PendingIntents : orders' = Placed(o)
      <4>1. PICK o \in PendingIntents : orders' = Placed(o)
        BY <3>2
      <4>2. o \in IntentRecord /\ (wpc # "placeTp" => o.role # "tp")
        BY IntentTypes, LiveAssumption
           DEF PendingIntents, DcaIntent, EntryIntent, Intent
      <4>3. CASE wpc = "placeTp"
        BY <4>1, <4>2, <4>3, OneMoreExit DEF TwoExitsInv
      <4>4. CASE wpc # "placeTp"
        BY <1>2, <4>1, <4>2, <4>4, PlacedResting
      <4> QED
        BY <4>3, <4>4
    <3> QED
      BY <1>16, <3>1, <3>2 DEF AnswerLost
  <2> QED
    BY <2>1, <2>2 DEF TwoExitsInv
<1>17. CASE Operator \/ Environment
  <2>1. RestingOf("tp")' \subseteq RestingOf("tp")
    BY <1>17, OutsideResting
  <2>2. UNCHANGED <<wpc, work>> \/ wpc' = "idle"
    BY <1>17, OutsideResting
  <2> QED
    BY <1>4, <1>5, <2>1, <2>2
<1> QED
  BY <1>6, <1>7, <1>8, <1>9, <1>10, <1>11, <1>13, <1>14, <1>15, <1>16, <1>17
     DEF Next, Worker, Sync

\* A replacement whose predecessor could not be cancelled is never replaced in
\* its turn: no more than two take profits ever rest.
THEOREM TwoExits == Spec => []AtMostTwoExits
<1>1. Init => TwoExitsInv
  <2> SUFFICES ASSUME Init PROVE TwoExitsInv
    OBVIOUS
  <2>1. RestingOf("tp") = {}
    BY DEF Init, RestingOf, Resting
  <2> QED
    BY <2>1, FS_EmptySet DEF Init, TwoExitsInv, AtMostTwoExits
<1>2. TypeOK /\ TwoExitsInv /\ [Next]_vars => TwoExitsInv'
  BY TwoExitsStep
<1>3. TwoExitsInv => AtMostTwoExits
  BY DEF TwoExitsInv
<1> QED
  BY <1>1, <1>2, <1>3, TypeInvariant, PTL DEF Spec

-----------------------------------------------------------------------------
(* Who may open a basket *)

\* A flat sync leaves PAUSED only when re-entry is enabled.
LEMMA FlatPathResumed ==
  ASSUME TypeOK, ResumedInv, NEW seen, FlatPath(seen), resumeMark = 0
  PROVE  strat' = Paused /\ wpc' # "entry"
<1>1. strat = Paused
  BY DEF ResumedInv
<1>2. AfterFlat(strat, cycle) = Paused
  BY <1>1 DEF AfterFlat, Paused
<1> QED
  BY <1>2 DEF FlatPath, Paused, Return

\* Before any resume, every step leaves the strategy paused and enters nothing.
LEMMA ResumedStep ==
  ASSUME TypeOK, ResumedInv, [Next]_vars
  PROVE  ResumedInv'
<1> USE DEF exchangeVars, strategyVars, workerVars, operatorVars
<1>1. SUFFICES ASSUME resumeMark' = 0
               PROVE  strat' = Paused /\ opc' # "resuming" /\ wpc' # "entry"
  BY DEF ResumedInv
<1>2. Len(orders) \in Nat /\ strat \in StrategyRecord
  BY LenProperties DEF TypeOK, ExchangeOK, StrategyOK
<1>3. ASSUME resumeMark = 0
      PROVE  strat = Paused /\ opc # "resuming" /\ wpc # "entry"
  BY <1>3 DEF ResumedInv
<1>4. /\ Restored(Paused) = Paused /\ Closed(Paused) = Paused
      /\ [Paused EXCEPT !.reentry = FALSE] = Paused
      /\ [Paused EXCEPT !.state = "PAUSED"] = Paused
  <2>1. Paused.state = "PAUSED" /\ Paused.reentry = FALSE
    BY DEF Paused
  <2>2. \A r \in StrategyRecord : [r EXCEPT !.reentry = r.reentry] = r
    BY DEF StrategyRecord
  <2>3. \A r \in StrategyRecord : [r EXCEPT !.state = r.state] = r
    BY DEF StrategyRecord
  <2>4. Paused \in StrategyRecord
    BY DEF Paused, StrategyRecord
  <2>5. [Paused EXCEPT !.reentry = FALSE] = Paused
    BY <2>1, <2>2, <2>4
  <2>6. [Paused EXCEPT !.state = "PAUSED"] = Paused
    BY <2>1, <2>3, <2>4
  <2>7. Restored(Paused) = Paused /\ Closed(Paused) = Paused
    BY <2>1, <2>6 DEF Restored, Closed
  <2> QED
    BY <2>5, <2>6, <2>7
<1>5. CASE Pause \/ StartClose \/ Crash
  BY <1>3, <1>5 DEF Pause, StartClose, Crash, WorkerHoldsLock, SyncPcs
<1>6. CASE EnableReentry
  BY <1>1, <1>2, <1>6 DEF EnableReentry
<1>7. CASE UNCHANGED vars
  BY <1>1, <1>3, <1>7 DEF vars
<1>8. CASE Operator /\ ~Pause /\ ~StartClose /\ ~EnableReentry
  <2>1. resumeMark = 0 /\ wpc' = wpc
    BY <1>1, <1>8 DEF Operator, CheckResume, FinishResume, CloseCancels,
                      CloseReadsPosition, CloseSubmits, CloseRereads, CloseRaises
  <2>2. ~FinishResume
    BY <1>3, <2>1 DEF FinishResume
  <2>3. strat' = strat \/ AlreadyFlat
    BY <1>8, <2>2 DEF Operator, CheckResume, CloseCancels, CloseReadsPosition,
                      CloseSubmits, CloseRereads, CloseRaises
  <2>4. strat' = Paused
    BY <1>3, <2>1, <2>3 DEF AlreadyFlat
  <2>5. opc' # "resuming"
    BY <1>8, <2>2, <1>3, <2>1
       DEF Operator, CheckResume, CloseCancels, CloseReadsPosition, CloseSubmits,
           CloseRereads, CloseRaises, AlreadyFlat, EndClose
  <2> QED
    BY <1>3, <2>1, <2>4, <2>5
<1>9. CASE Environment /\ ~Crash
  BY <1>1, <1>3, <1>9 DEF Environment, StreamDelivers, FillBuy, FillSell, ManualTrade,
                          ExternalCancel
<1>10. CASE Worker
  <2>1. resumeMark = 0 /\ opc' = opc
    BY <1>1, <1>10
       DEF Worker, Sync, Recover, CallRaises, AnswerLost, HandlerDisablesReentry,
           HandlerPauses, ReadPosition, BlockEntry, SubmitEntry, Reconcile, ReadOrders,
           RecheckPosition, PlaceTp, RereadAfterRejection, CancelStaleTp,
           CancelStaleDca, CancelStale, BlockDca, PlaceDca, ExhaustIdentities
  <2>2. strat = Paused /\ opc # "resuming" /\ wpc # "entry"
    BY <1>3, <2>1
  <2>3. CASE FlatPath(flatSeen) \/ FlatPath(FALSE)
    BY <2>1, <2>2, <2>3, FlatPathResumed
  <2>4. ASSUME NEW w, Continue(w) PROVE wpc' # "entry"
    BY <2>4 DEF Continue, NextCall
  <2>5. CASE ReadPosition /\ ~FlatPath(flatSeen)
    BY <2>1, <2>2, <2>5 DEF ReadPosition, Raise
  <2>6. CASE Reconcile
    BY <1>4, <2>1, <2>2, <2>6 DEF Reconcile, Raise, Return
  <2>7. CASE (RecheckPosition \/ RereadAfterRejection) /\ ~FlatPath(FALSE)
    BY <2>1, <2>2, <2>4, <2>7 DEF RecheckPosition, RereadAfterRejection, Raise
  <2>8. CASE ReadOrders \/ PlaceTp \/ CancelStaleTp \/ CancelStaleDca \/ PlaceDca
    BY <2>1, <2>2, <2>4, <2>8
       DEF ReadOrders, PlaceTp, CancelStaleTp, CancelStaleDca, CancelStale, PlaceDca,
           Return, Raise
  <2>9. CASE BlockEntry \/ SubmitEntry \/ BlockDca \/ ExhaustIdentities
             \/ CallRaises \/ AnswerLost \/ Recover
    BY <2>1, <2>2, <2>9
       DEF BlockEntry, SubmitEntry, BlockDca, ExhaustIdentities, CallRaises,
           AnswerLost, Recover, Return, Raise
  <2>10. CASE HandlerDisablesReentry \/ HandlerPauses
    BY <1>4, <2>1, <2>2, <2>10 DEF HandlerDisablesReentry, HandlerPauses
  <2> QED
    BY <1>10, <2>3, <2>5, <2>6, <2>7, <2>8, <2>9, <2>10 DEF Worker, Sync
<1> QED
  BY <1>5, <1>6, <1>7, <1>8, <1>9, <1>10 DEF Next, Environment

\* The new order of a step that adds one.
LEMMA PlacedLast ==
  ASSUME TypeOK, NEW o \in IntentRecord, orders' = Placed(o),
         Len(orders') > Len(orders)
  PROVE  orders'[Len(orders')].role = o.role
<1>1. orders \in Seq(OrderRecord) /\ Len(orders) \in Nat
  BY LenProperties DEF TypeOK, ExchangeOK
<1>2. orders' = Append(orders, NewOrder(o))
  BY <1>1 DEF Placed
<1>3. orders'[Len(orders')] = NewOrder(o)
  BY <1>1, <1>2
<1> QED
  BY <1>3 DEF NewOrder

\* A step that adds an entry comes after a resume.
LEMMA EntryStep ==
  ASSUME TypeOK, ResumedInv, [Next]_vars, Len(orders') > Len(orders),
         orders'[Len(orders')].role = "open"
  PROVE  resumeMark # 0
<1> USE DEF exchangeVars, strategyVars, workerVars, operatorVars
<1>1. orders \in Seq(OrderRecord) /\ Len(orders) \in Nat
      /\ DOMAIN orders = 1 .. Len(orders)
  BY LenProperties DEF TypeOK, ExchangeOK
<1>2. orders' # orders
  BY <1>1
<1>3. ASSUME DOMAIN orders' = DOMAIN orders, orders' \in Seq(OrderRecord)
      PROVE  FALSE
  <2>1. DOMAIN orders' = 1 .. Len(orders') /\ Len(orders') \in Nat
    BY <1>3, LenProperties
  <2> QED
    BY <1>1, <1>3, <2>1
<1>4. TypeOK'
  BY TypeStep
<1>5. orders' \in Seq(OrderRecord)
  BY <1>4 DEF TypeOK, ExchangeOK
<1>6. ~ \E i : orders' = Cancelled(i)
  BY <1>3, <1>5 DEF Cancelled
<1>7. CASE Operator \/ Environment
  <2>1. CASE CloseSubmits
    <3>1. opWork.qty \in Nat /\ opWork.basis \in SUBSET Nat
      BY DEF TypeOK, OperatorOK
    <3>2. CloseIntent(cycle, opWork.basis, opWork.qty) \in IntentRecord
      BY <3>1, IntentTypes
    <3>3. orders' = Placed(CloseIntent(cycle, opWork.basis, opWork.qty))
      BY <1>2, <2>1 DEF CloseSubmits
    <3>4. orders'[Len(orders')].role = "close"
      BY <3>2, <3>3, PlacedLast DEF CloseIntent, Intent
    <3> QED
      BY <3>4
  <2>2. CASE FillBuy \/ FillSell \/ ManualTrade
    <3>1. DOMAIN orders' = DOMAIN orders
      BY <2>2 DEF FillBuy, FillSell, ManualTrade, AfterFill
    <3> QED
      BY <1>3, <1>5, <3>1
  <2>3. CASE CloseCancels \/ ExternalCancel
    BY <1>2, <1>6, <2>3, Zenon DEF CloseCancels, ExternalCancel
  <2> QED
    BY <1>2, <1>7, <2>1, <2>2, <2>3
       DEF Operator, Pause, CheckResume, EnableReentry, FinishResume, StartClose,
           CloseReadsPosition, CloseRereads, CloseRaises, Environment, StreamDelivers, Crash
<1>8. CASE Worker
  <2>1. CASE wpc = "entry"
    BY <2>1 DEF ResumedInv
  <2>2. CASE PlaceTp
    <3>1. orders' = Placed(TpIntent(cycle))
      BY <1>2, <2>2 DEF PlaceTp
    <3>2. orders'[Len(orders')].role = "tp"
      BY <3>1, IntentTypes, PlacedLast DEF TpIntent, Intent
    <3> QED
      BY <3>2
  <2>3. CASE PlaceDca
    <3>1. orders' = Placed(DcaIntent(cycle))
      BY <1>2, <2>3 DEF PlaceDca
    <3>2. orders'[Len(orders')].role = "dca"
      BY <3>1, IntentTypes, PlacedLast DEF DcaIntent, Intent
    <3> QED
      BY <3>2
  <2>4. CASE AnswerLost
    <3>1. PICK o \in PendingIntents : orders' = Placed(o)
      BY <1>6, <2>4, Zenon DEF AnswerLost
    <3>2. o \in IntentRecord
      BY IntentTypes, LiveAssumption DEF PendingIntents
    <3>3. o.role = "open"
      BY <3>1, <3>2, PlacedLast
    <3>4. wpc = "entry"
      BY <3>3 DEF PendingIntents, TpIntent, DcaIntent, Intent
    <3> QED
      BY <2>1, <3>4
  <2>5. CASE CancelStaleTp \/ CancelStaleDca
    BY <1>2, <1>6, <2>5, Zenon DEF CancelStaleTp, CancelStaleDca, CancelStale
  <2> QED
    BY <1>2, <1>8, <2>1, <2>2, <2>3, <2>4, <2>5
       DEF Worker, Sync, Recover, CallRaises, HandlerDisablesReentry, HandlerPauses,
           ReadPosition, BlockEntry, SubmitEntry, Reconcile, ReadOrders,
           RecheckPosition, RereadAfterRejection, BlockDca, ExhaustIdentities
<1> QED
  BY <1>2, <1>7, <1>8 DEF Next, vars

\* No restart, pause, manual close, failure or race of the failure handler with
\* Resume lets the bot send an entry the operator has not resumed for.
THEOREM EntriesNeedResume == Spec => EntryOnlyWhenResumed
<1>1. Init => ResumedInv
  BY DEF Init, ResumedInv
<1>2. TypeOK /\ ResumedInv /\ [Next]_vars => ResumedInv'
  BY ResumedStep
<1>3. TypeOK /\ ResumedInv /\ [Next]_vars
        => [ (Len(orders') > Len(orders) /\ orders'[Len(orders')].role = "open")
             => resumeMark # 0 ]_vars
  BY EntryStep
<1> QED
  BY <1>1, <1>2, <1>3, TypeInvariant, PTL DEF Spec, EntryOnlyWhenResumed

-----------------------------------------------------------------------------
(* What a step does to the orders *)

\* What identifies an order never changes.
Kept(j) ==
  /\ orders'[j].role = orders[j].role /\ orders'[j].cycle = orders[j].cycle
  /\ orders'[j].basis = orders[j].basis /\ orders'[j].level = orders[j].level
  /\ orders'[j].qty = orders[j].qty

\* An order is not revived, and is Filled only when all of it is.
NotRevived(j) ==
  /\ Active(j)' => Active(j)
  /\ orders[j].status = "Cancelled" => orders'[j].status = "Cancelled"
  /\ orders'[j].status = "Filled" =>
       \/ orders[j].status = "Filled" /\ orders'[j].filled = orders[j].filled
       \/ orders'[j].filled = orders[j].qty

\* The ways a step may treat the exchange, beside a trade by hand.
Places(o) ==
  /\ ~Known(o) /\ orders' = Append(orders, NewOrder(o))
  /\ UNCHANGED <<execs, pos, basis>>
  /\ \/ o \in {EntryIntent(qty) : qty \in EntryQtys} /\ wpc = "entry"
     \/ o = TpIntent(cycle) /\ wpc = "placeTp" /\ pos > 0
     \/ o = DcaIntent(cycle) /\ wpc = "placeDca"
     \/ o = CloseIntent(cycle, opWork.basis, opWork.qty) /\ opc = "submitting" /\ pos > 0

Cancels(i) ==
  /\ Active(i) /\ orders' = Cancelled(i)
  /\ UNCHANGED <<execs, pos, basis>>

Fills(i, q) ==
  LET p == IF Side(orders[i]) = "Buy" THEN pos + q ELSE pos - q IN
  /\ Executed(Side(orders[i]), q, i, p)
  /\ orders' = AfterFill(i, q, p)
  /\ Side(orders[i]) = "Sell" => q <= pos
  /\ UNCHANGED <<strategyVars, workerVars, operatorVars>>

\* Every step leaves the exchange alone or places, cancels or fills an
\* order, or is a trade by hand.
LEMMA ExchangeStep ==
  ASSUME TypeOK, [Next]_vars
  PROVE  \/ UNCHANGED exchangeVars
         \/ \E o \in IntentRecord : Places(o)
         \/ \E i \in DOMAIN orders : Cancels(i)
         \/ \E i \in Resting : \E q \in 1 .. Leaves(i) : Fills(i, q)
         \/ ManualTrade
<1> USE DEF exchangeVars, strategyVars, workerVars, operatorVars
<1>1. ASSUME NEW o \in IntentRecord, orders' = Placed(o), UNCHANGED <<execs, pos, basis>>,
             \/ o \in {EntryIntent(qty) : qty \in EntryQtys} /\ wpc = "entry"
             \/ o = TpIntent(cycle) /\ wpc = "placeTp" /\ ~NothingToReduce(o)
             \/ o = DcaIntent(cycle) /\ wpc = "placeDca"
             \/ o = CloseIntent(cycle, opWork.basis, opWork.qty) /\ opc = "submitting"
                /\ ~NothingToReduce(o)
      PROVE  UNCHANGED exchangeVars \/ Places(o)
  <2>1. pos \in Int
    BY DEF TypeOK, ExchangeOK
  <2>2. TpIntent(cycle).role = "tp" /\ CloseIntent(cycle, opWork.basis, opWork.qty).role = "close"
    BY DEF TpIntent, CloseIntent, Intent
  <2>3. QED
    BY <1>1, <2>1, <2>2 DEF Placed, Places, NothingToReduce, ReduceOnly
<1>2. CASE SubmitEntry
  <2>1. PICK qty \in EntryQtys : orders' = Placed(EntryIntent(qty))
    BY <1>2 DEF SubmitEntry
  <2>2. EntryIntent(qty) \in IntentRecord
    BY LiveAssumption, IntentTypes
  <2>3. QED BY <1>1, <1>2, <2>1, <2>2 DEF SubmitEntry
<1>3. CASE PlaceTp
  <2>1. TpIntent(cycle) \in IntentRecord
    BY IntentTypes
  <2>2. QED BY <1>1, <1>3, <2>1 DEF PlaceTp
<1>4. CASE PlaceDca
  <2>1. DcaIntent(cycle) \in IntentRecord
    BY IntentTypes
  <2>2. QED BY <1>1, <1>4, <2>1 DEF PlaceDca
<1>5. CASE CloseSubmits
  <2>1. CloseIntent(cycle, opWork.basis, opWork.qty) \in IntentRecord
    BY IntentTypes DEF TypeOK, OperatorOK
  <2>2. QED BY <1>1, <1>5, <2>1 DEF CloseSubmits
<1>6. CASE AnswerLost
  <2>1. CASE wpc \in {"cancelTp", "cancelDca"}
    <3>1. PICK i : Active(i) /\ orders' = Cancelled(i)
      BY <1>6, <2>1, Zenon DEF AnswerLost
    <3>2. i \in DOMAIN orders \/ orders' = orders
      BY <3>1, LenProperties DEF Cancelled, TypeOK, ExchangeOK
    <3>3. QED BY <1>6, <3>1, <3>2 DEF AnswerLost, Cancels
  <2>2. CASE wpc \in {"placeTp", "placeDca", "entry"}
    <3>1. PICK o \in PendingIntents : ~NothingToReduce(o) /\ orders' = Placed(o)
      BY <1>6, <2>2 DEF AnswerLost
    <3>2. o \in IntentRecord
      BY <3>1, IntentTypes, LiveAssumption DEF PendingIntents
    <3>3. QED BY <1>1, <1>6, <2>2, <3>1, <3>2 DEF AnswerLost, PendingIntents
  <2>3. QED BY <1>6, <2>1, <2>2 DEF AnswerLost
<1>7. ASSUME NEW i, Active(i), orders' = Cancelled(i), UNCHANGED <<execs, pos, basis>>
      PROVE  UNCHANGED exchangeVars \/ \E j \in DOMAIN orders : Cancels(j)
  <2>1. i \in DOMAIN orders \/ orders' = orders
    BY <1>7, LenProperties DEF Cancelled, TypeOK, ExchangeOK
  <2>2. QED BY <1>7, <2>1 DEF Cancels
<1>8. CASE CancelStaleTp \/ CancelStaleDca
  BY <1>7, <1>8 DEF CancelStaleTp, CancelStaleDca, CancelStale
<1>9. CASE CloseCancels \/ ExternalCancel
  BY <1>7, <1>9 DEF CloseCancels, ExternalCancel, Resting
<1>10. CASE FillBuy
  BY <1>10 DEF FillBuy, Fills
<1>11. CASE FillSell
  <2>1. PICK i \in Resting : \E q \in 1 .. Leaves(i) :
          /\ Side(orders[i]) = "Sell" /\ q <= pos
          /\ Executed("Sell", q, i, pos - q) /\ orders' = AfterFill(i, q, pos - q)
    BY <1>11 DEF FillSell
  <2>2. QED BY <1>11, <2>1 DEF FillSell, Fills
<1>12. CASE UNCHANGED vars
  BY <1>12 DEF vars
<1>13. QED
  BY <1>2, <1>3, <1>4, <1>5, <1>6, <1>8, <1>9, <1>10, <1>11, <1>12
     DEF Next, Worker, Sync, Operator, Environment, ReadPosition, BlockEntry, Reconcile,
         ReadOrders, RecheckPosition, RereadAfterRejection, BlockDca, ExhaustIdentities,
         CallRaises, Recover, HandlerDisablesReentry, HandlerPauses, Pause, CheckResume,
         EnableReentry, FinishResume, StartClose, CloseReadsPosition, CloseRereads, CloseRaises,
         StreamDelivers, Crash

\* The list of orders and its members, before and after.
LEMMA OrdersTyped ==
  ASSUME TypeOK
  PROVE  /\ orders \in Seq(OrderRecord) /\ Len(orders) \in Nat
         /\ DOMAIN orders = 1 .. Len(orders)
         /\ \A j \in DOMAIN orders : orders[j] \in OrderRecord
         /\ execs \in Seq(Execution) /\ Len(execs) \in Nat
         /\ DOMAIN execs = 1 .. Len(execs)
         /\ \A k \in DOMAIN execs : execs[k] \in Execution
         /\ pos \in Int /\ basis \subseteq DOMAIN execs
<1>1. orders \in Seq(OrderRecord) /\ execs \in Seq(Execution)
  BY DEF TypeOK, ExchangeOK
<1>2. /\ \A j \in DOMAIN orders : orders[j] \in OrderRecord
      /\ \A k \in DOMAIN execs : execs[k] \in Execution
  BY <1>1, OrderAt, ExecutionAt
<1>3. QED BY <1>1, <1>2, LenProperties DEF TypeOK, ExchangeOK

\* A new order is the last one, and the others stay.
LEMMA PlacesEffect ==
  ASSUME TypeOK, NEW o \in IntentRecord, Places(o)
  PROVE  /\ Len(orders') = Len(orders) + 1
         /\ DOMAIN orders' = DOMAIN orders \union {Len(orders) + 1}
         /\ \A j \in DOMAIN orders : orders'[j] = orders[j]
         /\ orders'[Len(orders) + 1] = NewOrder(o)
         /\ UNCHANGED <<execs, pos, basis>>
<1>1. orders \in Seq(OrderRecord) /\ Len(orders) \in Nat /\ DOMAIN orders = 1 .. Len(orders)
  BY OrdersTyped
<1>2. orders' = Append(orders, NewOrder(o))
  BY DEF Places
<1>3. QED BY <1>1, <1>2, LenProperties DEF Places

\* A cancellation only ends one order.
LEMMA CancelsEffect ==
  ASSUME TypeOK, NEW i \in DOMAIN orders, Cancels(i)
  PROVE  /\ DOMAIN orders' = DOMAIN orders /\ Len(orders') = Len(orders)
         /\ \A j \in DOMAIN orders :
              /\ Kept(j) /\ NotRevived(j)
              /\ orders'[j].filled = orders[j].filled
         /\ UNCHANGED <<execs, pos, basis>>
<1>1. /\ orders \in Seq(OrderRecord)
      /\ \A j \in DOMAIN orders : orders[j] \in OrderRecord
  BY OrdersTyped
<1>2. orders' = [orders EXCEPT ![i].status = "Cancelled"] /\ Active(i)
  BY DEF Cancels, Cancelled
<1>3. DOMAIN orders' = DOMAIN orders
  BY <1>2
<1>4. Len(orders') = Len(orders)
  BY <1>1, <1>2, CancelledType, LenProperties, <1>3 DEF Cancels
<1>5. ASSUME NEW j \in DOMAIN orders
      PROVE  orders'[j] = orders[j] \/ orders'[j] = [orders[j] EXCEPT !.status = "Cancelled"]
  BY <1>2
<1>6. ASSUME NEW j \in DOMAIN orders
      PROVE  Kept(j) /\ NotRevived(j) /\ orders'[j].filled = orders[j].filled
  BY <1>1, <1>5 DEF Kept, NotRevived, Active, OrderRecord
<1>7. QED BY <1>3, <1>4, <1>6 DEF Cancels

\* A fill adds to one order; once the position is gone no exit rests.
LEMMA FillsEffect ==
  ASSUME TypeOK, NEW i \in Resting, NEW q \in 1 .. Leaves(i), Fills(i, q)
  PROVE  /\ DOMAIN orders' = DOMAIN orders /\ Len(orders') = Len(orders)
         /\ \A j \in DOMAIN orders :
              /\ Kept(j) /\ NotRevived(j)
              /\ orders'[j].filled = IF j = i THEN orders[j].filled + q ELSE orders[j].filled
              /\ pos' <= 0 /\ ReduceOnly(orders[j]) => ~Active(j)'
         /\ execs' = Append(execs, [side |-> Side(orders[i]), qty |-> q, order |-> i])
         /\ pos' = IF Side(orders[i]) = "Buy" THEN pos + q ELSE pos - q
         /\ basis' = BasisAfter(pos', Side(orders[i]), Len(execs) + 1)
         /\ i \in DOMAIN orders /\ q \in Nat \ {0}
<1>1. /\ orders \in Seq(OrderRecord) /\ pos \in Int
      /\ \A j \in DOMAIN orders : orders[j] \in OrderRecord
  BY OrdersTyped
<1>2. i \in DOMAIN orders /\ Active(i) /\ Leaves(i) \in Int
  BY <1>1 DEF Resting, Leaves, OrderRecord
<1>3. q \in Nat \ {0} /\ q <= Leaves(i)
  BY <1>2
<1>4. /\ execs' = Append(execs, [side |-> Side(orders[i]), qty |-> q, order |-> i])
      /\ pos' = IF Side(orders[i]) = "Buy" THEN pos + q ELSE pos - q
      /\ basis' = BasisAfter(pos', Side(orders[i]), Len(execs) + 1)
      /\ orders' = AfterFill(i, q, pos')
  BY DEF Fills, Executed
<1>5. pos' \in Int
  BY <1>1, <1>3, <1>4
<1>6. DOMAIN orders' = DOMAIN orders /\ orders' \in Seq(OrderRecord)
  BY <1>1, <1>2, <1>3, <1>4, <1>5, AfterFillType
<1>7. Len(orders') = Len(orders)
  BY <1>1, <1>6, LenProperties
<1>8. ASSUME NEW j \in DOMAIN orders
      PROVE  /\ Kept(j) /\ NotRevived(j)
             /\ orders'[j].filled = IF j = i THEN orders[j].filled + q ELSE orders[j].filled
             /\ pos' <= 0 /\ ReduceOnly(orders[j]) => ~Active(j)'
  <2>1. orders[j] \in OrderRecord
    BY <1>1
  <2>2. CASE j = i
    <3> DEFINE st == IF q = Leaves(i) THEN "Filled"
                     ELSE IF pos' <= 0 /\ ReduceOnly(orders[j]) THEN "Cancelled"
                     ELSE "PartiallyFilled"
    <3>1. orders'[j] = [orders[j] EXCEPT !.filled = @ + q, !.status = st]
      BY <1>4, <2>2 DEF AfterFill
    <3>2. /\ Kept(j) /\ orders'[j].status = st
          /\ orders'[j].filled = orders[j].filled + q
      BY <2>1, <3>1 DEF Kept, OrderRecord
    <3>3. q = Leaves(i) => orders[j].filled + q = orders[j].qty
      BY <2>1, <2>2, <1>3 DEF Leaves, OrderRecord
    <3>4. NotRevived(j)
      BY <1>2, <2>2, <3>2, <3>3 DEF NotRevived, Active
    <3>5. pos' <= 0 /\ ReduceOnly(orders[j]) => ~Active(j)'
      BY <3>2 DEF Active
    <3>6. QED BY <2>2, <3>2, <3>4, <3>5
  <2>3. CASE j # i
    <3>1. orders'[j] = IF pos' <= 0 /\ ReduceOnly(orders[j]) /\ Active(j)
                       THEN [orders[j] EXCEPT !.status = "Cancelled"] ELSE orders[j]
      BY <1>4, <2>3 DEF AfterFill
    <3>2. QED BY <2>1, <2>3, <3>1 DEF Kept, NotRevived, Active, OrderRecord
  <2>4. QED BY <2>2, <2>3
<1>9. QED BY <1>2, <1>3, <1>4, <1>6, <1>7, <1>8

\* A trade by hand ends the exits of a position that is gone.
LEMMA ManualEffect ==
  ASSUME TypeOK, ManualTrade
  PROVE  /\ DOMAIN orders' = DOMAIN orders /\ Len(orders') = Len(orders)
         /\ \A j \in DOMAIN orders :
              /\ Kept(j) /\ NotRevived(j) /\ orders'[j].filled = orders[j].filled
              /\ pos' <= 0 /\ ReduceOnly(orders[j]) => ~Active(j)'
         /\ \E side \in {"Buy", "Sell"} :
              /\ execs' = Append(execs, [side |-> side, qty |-> 1, order |-> Manual])
              /\ pos' = IF side = "Buy" THEN pos + 1 ELSE pos - 1
              /\ basis' = BasisAfter(pos', side, Len(execs) + 1)
         /\ UNCHANGED <<strategyVars, workerVars, operatorVars>>
<1>1. \A j \in DOMAIN orders : orders[j] \in OrderRecord
  BY OrdersTyped
<1>2. PICK side \in {"Buy", "Sell"} :
        /\ execs' = Append(execs, [side |-> side, qty |-> 1, order |-> Manual])
        /\ pos' = IF side = "Buy" THEN pos + 1 ELSE pos - 1
        /\ basis' = BasisAfter(pos', side, Len(execs) + 1)
        /\ orders' = [j \in DOMAIN orders |->
                       IF pos' <= 0 /\ ReduceOnly(orders[j]) /\ Active(j)
                       THEN [orders[j] EXCEPT !.status = "Cancelled"]
                       ELSE orders[j]]
  BY DEF ManualTrade, Executed
<1>3. DOMAIN orders' = DOMAIN orders
  BY <1>2
<1>4. TypeOK'
  BY TypeStep DEF Next, Environment
<1>5. Len(orders') = Len(orders)
  BY <1>3, <1>4, OrdersTyped, LenProperties DEF TypeOK, ExchangeOK
<1>6. ASSUME NEW j \in DOMAIN orders
      PROVE  /\ Kept(j) /\ NotRevived(j) /\ orders'[j].filled = orders[j].filled
             /\ pos' <= 0 /\ ReduceOnly(orders[j]) => ~Active(j)'
  <2>1. orders'[j] = IF pos' <= 0 /\ ReduceOnly(orders[j]) /\ Active(j)
                     THEN [orders[j] EXCEPT !.status = "Cancelled"] ELSE orders[j]
    BY <1>2
  <2>2. QED BY <1>1, <2>1 DEF Kept, NotRevived, Active, OrderRecord
<1>7. QED BY <1>2, <1>3, <1>5, <1>6 DEF ManualTrade

\* Orders stay, keep their identity and are not revived.
LEMMA OrdersEvolve ==
  ASSUME TypeOK, [Next]_vars
  PROVE  \A j \in DOMAIN orders : j \in DOMAIN orders' /\ Kept(j) /\ NotRevived(j)
<1>1. ASSUME NEW j \in DOMAIN orders, DOMAIN orders \subseteq DOMAIN orders',
             orders'[j] = orders[j]
      PROVE  j \in DOMAIN orders' /\ Kept(j) /\ NotRevived(j)
  BY <1>1 DEF Kept, NotRevived, Active
<1>2. CASE UNCHANGED exchangeVars
  BY <1>1, <1>2 DEF exchangeVars
<1>3. CASE \E o \in IntentRecord : Places(o)
  BY <1>1, <1>3, PlacesEffect
<1>4. CASE \E i \in DOMAIN orders : Cancels(i)
  BY <1>4, CancelsEffect
<1>5. CASE \E i \in Resting : \E q \in 1 .. Leaves(i) : Fills(i, q)
  BY <1>5, FillsEffect
<1>6. CASE ManualTrade
  BY <1>6, ManualEffect
<1>7. QED BY <1>2, <1>3, <1>4, <1>5, <1>6, ExchangeStep

\* The exits that rest.
RestingExits == {i \in Resting : ReduceOnly(orders[i])}

\* An execution e moves the position and the average entry.
Moves(e) ==
  /\ execs' = Append(execs, e)
  /\ pos' = IF e.side = "Buy" THEN pos + e.qty ELSE pos - e.qty
  /\ basis' = BasisAfter(pos', e.side, Len(execs) + 1)
  /\ DOMAIN orders' = DOMAIN orders /\ Len(orders') = Len(orders)
  /\ \A j \in DOMAIN orders : pos' <= 0 /\ ReduceOnly(orders[j]) => ~Active(j)'
  /\ UNCHANGED <<strategyVars, workerVars, resumeMark, opc>>
  /\ \/ e.order = Manual /\ \A j \in DOMAIN orders : orders'[j].filled = orders[j].filled
     \/ /\ e.order \in Resting
        /\ e.side = "Sell" => e.order \in RestingExits /\ e.qty <= pos
        /\ \A j \in DOMAIN orders :
             orders'[j].filled = IF j = e.order THEN orders[j].filled + e.qty
                                 ELSE orders[j].filled

\* Every step leaves the exchange alone, places or cancels an order, or is one
\* execution.
LEMMA ExchangeMoves ==
  ASSUME TypeOK, [Next]_vars
  PROVE  \/ UNCHANGED exchangeVars
         \/ \E o \in IntentRecord : Places(o)
         \/ \E i \in DOMAIN orders : Cancels(i)
         \/ \E e \in Execution : Moves(e)
<1>1. ASSUME NEW i \in Resting, NEW q \in 1 .. Leaves(i), Fills(i, q)
      PROVE  \E e \in Execution : Moves(e)
  <2> DEFINE e == [side |-> Side(orders[i]), qty |-> q, order |-> i]
  <2>0. i \in DOMAIN orders /\ q \in Nat \ {0}
    BY <1>1, FillsEffect
  <2>1. i \in DOMAIN orders /\ i \in Nat \ {0} /\ q \in Nat \ {0} /\ orders[i] \in OrderRecord
    BY <2>0, OrdersTyped
  <2>2. e \in Execution
    BY <2>1 DEF Execution, Side
  <2>3. Side(orders[i]) = "Sell" => ReduceOnly(orders[i]) /\ q <= pos
    BY <1>1, <2>1 DEF Side, ReduceOnly, Fills, OrderRecord, Roles
  <2>4. e.side = Side(orders[i]) /\ e.qty = q /\ e.order = i
    OBVIOUS
  <2>5. execs' = Append(execs, e)
    BY <1>1, FillsEffect
  <2> HIDE DEF e
  <2>6. /\ DOMAIN orders' = DOMAIN orders /\ Len(orders') = Len(orders)
        /\ \A j \in DOMAIN orders :
             /\ pos' <= 0 /\ ReduceOnly(orders[j]) => ~Active(j)'
             /\ orders'[j].filled = IF j = i THEN orders[j].filled + q ELSE orders[j].filled
        /\ pos' = IF Side(orders[i]) = "Buy" THEN pos + q ELSE pos - q
        /\ basis' = BasisAfter(pos', Side(orders[i]), Len(execs) + 1)
    BY <1>1, FillsEffect
  <2>7. UNCHANGED <<strategyVars, workerVars, resumeMark, opc>>
    BY <1>1 DEF Fills, operatorVars
  <2>8. Side(orders[i]) = "Sell" => i \in RestingExits
    BY <2>3 DEF RestingExits
  <2>9. Moves(e)
    BY <2>3, <2>4, <2>5, <2>6, <2>7, <2>8 DEF Moves
  <2>10. QED BY <2>2, <2>9
<1>2. CASE ManualTrade
  <2>1. PICK side \in {"Buy", "Sell"} :
          /\ execs' = Append(execs, [side |-> side, qty |-> 1, order |-> Manual])
          /\ pos' = IF side = "Buy" THEN pos + 1 ELSE pos - 1
          /\ basis' = BasisAfter(pos', side, Len(execs) + 1)
    BY <1>2, ManualEffect
  <2> DEFINE e == [side |-> side, qty |-> 1, order |-> Manual]
  <2>2. e \in Execution /\ e.side = side /\ e.qty = 1 /\ e.order = Manual
    BY DEF Execution, Manual
  <2>3. execs' = Append(execs, e)
    BY <2>1
  <2> HIDE DEF e
  <2>4. Moves(e)
    BY <1>2, <2>1, <2>2, <2>3, ManualEffect DEF Moves, operatorVars
  <2>5. QED BY <2>2, <2>4
<1>3. QED BY <1>1, <1>2, ExchangeStep

\* Every step either leaves executions and position alone or is one execution.
LEMMA ExecsEvolve ==
  ASSUME TypeOK, [Next]_vars
  PROVE  \/ UNCHANGED <<execs, pos, basis>>
         \/ \E e \in Execution : Moves(e)
BY ExchangeMoves, PlacesEffect, CancelsEffect DEF exchangeVars

\* The executions after one more.
LEMMA Appended ==
  ASSUME TypeOK, NEW e \in Execution, Moves(e)
  PROVE  /\ Len(execs') = Len(execs) + 1
         /\ DOMAIN execs' = DOMAIN execs \union {Len(execs) + 1}
         /\ \A k \in DOMAIN execs : execs'[k] = execs[k]
         /\ execs'[Len(execs) + 1] = e
         /\ e.side \in {"Buy", "Sell"} /\ e.qty \in Nat \ {0} /\ e.order \in Nat
<1>1. execs \in Seq(Execution) /\ Len(execs) \in Nat /\ DOMAIN execs = 1 .. Len(execs)
  BY OrdersTyped
<1>2. execs' = Append(execs, e)
  BY DEF Moves
<1>3. QED BY <1>1, <1>2, LenProperties DEF Execution

-----------------------------------------------------------------------------
(* Position and locks *)

\* A position has a basis, and without one no exit rests.
PositionOK ==
  /\ pos <= 0 => basis = {} /\ RestingExits = {}
  /\ pos > 0 => basis # {}

\* Two requests never hold the lock together, a manual close ends the Resume,
\* and no order is sent while a Resume is being applied.
LockOK ==
  /\ ~(WorkerHoldsLock /\ OperatorHoldsLock)
  /\ opc \in {"closing", "submitting", "rereading"} => resumeMark = 0
  /\ opc = "resuming" => resumeMark = Len(orders) + 1

\* Exits that rest after a step rested before, or one was placed.
LEMMA ExitsEvolve ==
  ASSUME TypeOK, [Next]_vars
  PROVE  \/ RestingExits' \subseteq RestingExits
         \/ \E o \in IntentRecord : Places(o) /\ ReduceOnly(o)
<1>1. \A j \in DOMAIN orders : j \in DOMAIN orders' /\ Kept(j) /\ NotRevived(j)
  BY OrdersEvolve
<1>2. \A j \in DOMAIN orders : j \in RestingExits' => j \in RestingExits
  BY <1>1 DEF RestingExits, Resting, Kept, NotRevived, ReduceOnly
<1>3. CASE \E o \in IntentRecord : Places(o)
  <2>1. PICK o \in IntentRecord : Places(o)
    BY <1>3
  <2>2. CASE ~ReduceOnly(o)
    <3>0. NewOrder(o).role = o.role
      BY DEF NewOrder
    <3>1. /\ orders'[Len(orders) + 1].role = o.role
          /\ DOMAIN orders' = DOMAIN orders \union {Len(orders) + 1}
      BY <2>1, <3>0, PlacesEffect
    <3>2. Len(orders) + 1 \notin RestingExits'
      BY <2>2, <3>1 DEF RestingExits, ReduceOnly
    <3>3. QED BY <1>2, <3>1, <3>2 DEF RestingExits, Resting
  <2>3. QED BY <2>1, <2>2
<1>4. CASE DOMAIN orders' = DOMAIN orders
  BY <1>2, <1>4 DEF RestingExits, Resting
<1>5. QED
  BY <1>3, <1>4, ExchangeStep, CancelsEffect, FillsEffect, ManualEffect DEF exchangeVars

\* The position, its basis and its exits go together.
LEMMA PositionStep == ASSUME TypeOK, PositionOK, [Next]_vars PROVE PositionOK'
<1>1. pos \in Int /\ Len(execs) \in Nat
  BY OrdersTyped
<1>2. CASE UNCHANGED <<execs, pos, basis>>
  <2>1. CASE RestingExits' \subseteq RestingExits
    BY <1>2, <2>1 DEF PositionOK
  <2>2. CASE \E o \in IntentRecord : Places(o) /\ ReduceOnly(o)
    <3>1. PICK o \in IntentRecord : Places(o) /\ ReduceOnly(o)
      BY <2>2
    <3>2. \A qty : EntryIntent(qty).role = "open"
      BY DEF EntryIntent, Intent
    <3>3. DcaIntent(cycle).role = "dca"
      BY DEF DcaIntent, Intent
    <3>4. pos > 0
      BY <3>1, <3>2, <3>3 DEF Places, ReduceOnly
    <3>5. QED BY <1>1, <1>2, <3>4 DEF PositionOK
  <2>3. QED BY <2>1, <2>2, ExitsEvolve
<1>3. ASSUME NEW e \in Execution, Moves(e) PROVE PositionOK'
  <2>1. e.side \in {"Buy", "Sell"} /\ e.qty \in Nat \ {0}
    BY DEF Execution
  <2>2. pos' \in Int
    BY <1>1, <1>3, <2>1 DEF Moves
  <2>3. CASE pos' <= 0
    <3>1. RestingExits' = {}
      <4>1. \A j \in DOMAIN orders : j \in DOMAIN orders' /\ Kept(j)
        BY OrdersEvolve
      <4>2. QED BY <1>3, <2>3, <4>1 DEF Moves, RestingExits, Resting, Kept, ReduceOnly
    <3>2. basis' = {}
      BY <1>3, <2>3 DEF Moves, BasisAfter
    <3>3. QED BY <2>2, <2>3, <3>1, <3>2 DEF PositionOK
  <2>4. CASE pos' > 0
    <3>1. e.side = "Sell" => pos > 0
      BY <1>1, <1>3, <2>1, <2>4 DEF Moves
    <3>2. basis' = IF e.side = "Buy" THEN basis \union {Len(execs) + 1} ELSE basis
      BY <1>3, <2>2, <2>4 DEF Moves, BasisAfter
    <3>3. QED BY <1>1, <2>1, <2>2, <2>4, <3>1, <3>2 DEF PositionOK
  <2>5. QED BY <2>2, <2>3, <2>4
<1>4. QED BY <1>2, <1>3, ExecsEvolve

\* The lock is handed over, never shared.
LEMMA LockStep == ASSUME TypeOK, LockOK, [Next]_vars PROVE LockOK'
<1>1. opc = "resuming" => Len(orders') = Len(orders)
  <2>1. ASSUME NEW o \in IntentRecord, Places(o) PROVE opc # "resuming"
    BY <2>1 DEF Places, LockOK, WorkerHoldsLock, OperatorHoldsLock, ClosePcs, SyncPcs
  <2>2. QED
    BY <2>1, ExchangeStep, CancelsEffect, FillsEffect, ManualEffect DEF exchangeVars
<1>2. CASE Worker
  <2>1. UNCHANGED <<opc, resumeMark>>
    BY <1>2 DEF Worker, Sync, Recover, CallRaises, AnswerLost, HandlerDisablesReentry,
         HandlerPauses,
         ReadPosition, BlockEntry, SubmitEntry, Reconcile, ReadOrders, RecheckPosition, PlaceTp,
         RereadAfterRejection, CancelStaleTp, CancelStaleDca, CancelStale, BlockDca, PlaceDca,
         ExhaustIdentities, operatorVars
  <2>2. CASE Sync
    <3>1. CASE ReadPosition
      BY <2>1, <3>1, <1>1 DEF ReadPosition, LockOK, OperatorHoldsLock, ClosePcs
    <3>2. CASE ~ReadPosition
      <4>1. WorkerHoldsLock
        BY <2>2, <3>2 DEF Sync, BlockEntry, SubmitEntry, Reconcile, ReadOrders, RecheckPosition,
             PlaceTp, RereadAfterRejection, CancelStaleTp, CancelStaleDca, CancelStale, BlockDca,
             PlaceDca, ExhaustIdentities, PendingIntents, WorkerHoldsLock, SyncPcs
      <4>2. QED BY <2>1, <4>1, <1>1 DEF LockOK, OperatorHoldsLock, ClosePcs
    <3>3. QED BY <3>1, <3>2
  <2>3. CASE ~Sync
    <3>1. ~WorkerHoldsLock'
      BY <1>2, <2>3 DEF Worker, Recover, CallRaises, AnswerLost, HandlerDisablesReentry,
           HandlerPauses, Raise, WorkerHoldsLock, SyncPcs
    <3>2. QED BY <2>1, <3>1, <1>1 DEF LockOK
  <2>4. QED BY <2>2, <2>3
<1>3. CASE Operator
  <2>1. UNCHANGED wpc
    BY <1>3 DEF Operator, Pause, CheckResume, EnableReentry, FinishResume, StartClose,
         CloseCancels,
         CloseReadsPosition, CloseSubmits, CloseRereads, CloseRaises, workerVars
  <2>2. OperatorHoldsLock' => OperatorHoldsLock \/ ~WorkerHoldsLock
    BY <1>3 DEF Operator, Pause, CheckResume, EnableReentry, FinishResume, StartClose,
         CloseCancels,
         CloseReadsPosition, CloseSubmits, CloseRereads, CloseRaises, OperatorHoldsLock, ClosePcs,
              AlreadyFlat, EndClose
  <2>3. CASE EnableReentry
    BY <2>1, <2>3 DEF EnableReentry, LockOK, WorkerHoldsLock, exchangeVars
  <2>4. CASE Pause
    BY <2>1, <2>2, <2>4 DEF Pause, LockOK, WorkerHoldsLock
  <2>5. CASE StartClose
    BY <2>1, <2>2, <2>5 DEF StartClose, LockOK, WorkerHoldsLock
  <2>6. CASE CheckResume \/ FinishResume
    BY <2>1, <2>2, <2>6 DEF CheckResume, FinishResume, LockOK, WorkerHoldsLock
  <2>7. CASE \/ CloseCancels \/ CloseReadsPosition \/ CloseSubmits
             \/ CloseRereads \/ CloseRaises
    <3>1. /\ UNCHANGED resumeMark /\ opc' # "resuming"
          /\ opc \in {"closing", "submitting", "rereading"}
      BY <2>7 DEF CloseCancels, CloseReadsPosition, CloseSubmits, CloseRereads,
           CloseRaises, AlreadyFlat, EndClose, ClosePcs
    <3>2. QED BY <2>1, <2>2, <3>1 DEF LockOK, WorkerHoldsLock
  <2>8. QED BY <1>3, <2>3, <2>4, <2>5, <2>6, <2>7 DEF Operator
<1>4. CASE Crash
  BY <1>4 DEF Crash, LockOK, WorkerHoldsLock, SyncPcs
<1>5. CASE (Environment /\ ~Crash) \/ UNCHANGED vars
  <2>1. UNCHANGED <<wpc, opc, resumeMark>>
    BY <1>5 DEF Environment, StreamDelivers, FillBuy, FillSell, ManualTrade, ExternalCancel,
         workerVars, operatorVars, vars
  <2>2. QED BY <2>1, <1>1 DEF LockOK, WorkerHoldsLock, OperatorHoldsLock, ClosePcs
<1>6. QED BY <1>2, <1>3, <1>4, <1>5 DEF Next

\* Where the Resume stands after a step.
LEMMA ResumeStep ==
  ASSUME TypeOK, [Next]_vars
  PROVE  \/ UNCHANGED resumeMark
         \/ resumeMark' = 0
         \/ resumeMark' = Len(orders) + 1 /\ UNCHANGED exchangeVars
<1>1. CASE Worker
  BY <1>1 DEF Worker, Sync, Recover, CallRaises, AnswerLost, HandlerDisablesReentry,
       HandlerPauses,
         ReadPosition, BlockEntry, SubmitEntry, Reconcile, ReadOrders, RecheckPosition, PlaceTp,
         RereadAfterRejection, CancelStaleTp, CancelStaleDca, CancelStale, BlockDca, PlaceDca,
         ExhaustIdentities, operatorVars
<1>2. CASE Operator
  BY <1>2 DEF Operator, Pause, CheckResume, EnableReentry, FinishResume, StartClose, CloseCancels,
         CloseReadsPosition, CloseSubmits, CloseRereads, CloseRaises
<1>3. CASE Environment \/ UNCHANGED vars
  BY <1>3 DEF Environment, StreamDelivers, FillBuy, FillSell, ManualTrade, ExternalCancel, Crash,
         operatorVars, vars
<1>4. QED BY <1>1, <1>2, <1>3 DEF Next

-----------------------------------------------------------------------------
(* Cycle *)

\* The calls of a sync that manages a restored cycle.
Managing == {"orders", "recheck", "placeTp", "rejected", "cancelTp", "cancelDca", "placeDca"}

\* A step leaves the cycle alone.
CycleKept ==
  /\ UNCHANGED cycle
  /\ wpc' \in Managing => wpc \in Managing
  /\ wpc' = "entry" => wpc = "entry"
  /\ strat'.state \in {strat.state, "PAUSED"} \/ opc = "resuming"
  /\ wpc \in {"failed", "pausing"} =>
       wpc' \in {"failed", "pausing"} \/ strat'.state = "PAUSED"

\* A sync that finds the symbol flat closes it.
CycleClosed ==
  /\ pos = 0 /\ cycle' = NoCycle
  /\ strat' = AfterFlat(strat, cycle)
  /\ wpc \notin {"failed", "pausing"}
  /\ wpc' = "idle" \/ (wpc' = "entry" /\ strat'.state # "PAUSED")
  /\ UNCHANGED <<exchangeVars, operatorVars>>

\* So does the reconciliation, which then raises; a manual close or a crash.
CycleDropped ==
  /\ cycle' = NoCycle
  /\ \/ pos = 0 /\ wpc' = "failed" /\ UNCHANGED <<exchangeVars, operatorVars>>
     \/ /\ opc \in {"closing", "submitting", "rereading"} /\ wpc' \notin SyncPcs
        /\ UNCHANGED <<exchangeVars, resumeMark>>
     \/ wpc' = "idle" /\ resumeMark' = 0 /\ UNCHANGED exchangeVars

\* The reconciliation restores it from the position.
CycleRestored ==
  /\ pos > 0 /\ cycle'.qty = pos /\ cycle'.basis = basis
  /\ wpc' = "orders"
  /\ UNCHANGED <<exchangeVars, operatorVars>>

\* The four things a step may do to the cycle.
LEMMA CycleStep ==
  ASSUME TypeOK, LockOK, [Next]_vars
  PROVE  CycleKept \/ CycleClosed \/ CycleDropped \/ CycleRestored
<1> USE DEF Managing
<1>1. ASSUME NEW seen, FlatPath(seen), pos = 0, wpc \in {"idle", "recheck", "rejected"},
             UNCHANGED <<exchangeVars, operatorVars>>
      PROVE  CycleClosed
  BY <1>1 DEF FlatPath, CycleClosed, Return
<1>2. ASSUME UNCHANGED strategyVars, wpc \in Managing,
             (\E w : Continue(w)) \/ wpc' \in {"idle", "failed", "recheck", "rejected"}
      PROVE  CycleKept
  BY <1>2 DEF CycleKept, strategyVars, Continue, NextCall
<1>3. CASE ReadPosition
  <2>1. CASE pos = 0 /\ FlatPath(flatSeen)
    BY <1>1, <1>3, <2>1 DEF ReadPosition
  <2>2. CASE pos > 0 /\ wpc' = "reconcile" /\ UNCHANGED strategyVars
    BY <1>3, <2>2 DEF ReadPosition, CycleKept, strategyVars
  <2>3. CASE pos < 0 /\ strat' = Paused /\ Raise /\ UNCHANGED cycle
    BY <1>3, <2>3 DEF ReadPosition, CycleKept, Raise, Paused
  <2>4. QED BY <1>3, <2>1, <2>2, <2>3 DEF ReadPosition
<1>4. CASE BlockEntry \/ SubmitEntry
  BY <1>4 DEF BlockEntry, SubmitEntry, Return, CycleKept, strategyVars
<1>5. CASE Reconcile
  <2>1. CASE pos = 0 /\ cycle' = NoCycle /\ Raise
    BY <1>5, <2>1 DEF Reconcile, CycleDropped, Raise, exchangeVars
  <2>2. CASE UNCHANGED strategyVars /\ (Return("held") \/ Raise)
    BY <1>5, <2>2 DEF Reconcile, CycleKept, strategyVars, Return, Raise
  <2>3. CASE /\ pos > 0 /\ wpc' = "orders"
             /\ cycle'.qty = pos /\ cycle'.basis = basis
    BY <1>5, <2>3 DEF Reconcile, CycleRestored
  <2>4. QED BY <1>5, <2>1, <2>2, <2>3 DEF Reconcile
<1>6. CASE ReadOrders
  BY <1>2, <1>6 DEF ReadOrders, Return, Raise
<1>7. CASE RecheckPosition
  BY <1>1, <1>2, <1>7 DEF RecheckPosition
<1>8. CASE PlaceTp
  BY <1>2, <1>8 DEF PlaceTp
<1>9. CASE RereadAfterRejection
  BY <1>1, <1>2, <1>9 DEF RereadAfterRejection, Raise
<1>10. CASE CancelStaleTp \/ CancelStaleDca
  BY <1>2, <1>10 DEF CancelStaleTp, CancelStaleDca, CancelStale, Raise
<1>11. CASE BlockDca \/ PlaceDca
  BY <1>2, <1>11 DEF BlockDca, PlaceDca, Return
<1>12. CASE ExhaustIdentities \/ CallRaises \/ AnswerLost
  BY <1>12 DEF ExhaustIdentities, CallRaises, AnswerLost, Raise, CycleKept, strategyVars
<1>13. CASE Recover
  BY <1>13 DEF Recover, CycleKept, strategyVars
<1>14. CASE HandlerDisablesReentry
  BY <1>14 DEF HandlerDisablesReentry, CycleKept, TypeOK, StrategyOK, StrategyRecord
<1>15. CASE HandlerPauses
  BY <1>15 DEF HandlerPauses, CycleKept, TypeOK, StrategyOK, StrategyRecord
<1>16. CASE Pause \/ StartClose
  BY <1>16 DEF Pause, StartClose, CycleKept, Paused, workerVars
<1>17. CASE EnableReentry
  BY <1>17 DEF EnableReentry, CycleKept, TypeOK, StrategyOK, StrategyRecord, workerVars
<1>18. CASE FinishResume
  BY <1>18 DEF FinishResume, CycleKept, TypeOK, StrategyOK, StrategyRecord, workerVars
<1>19. CASE CheckResume \/ CloseCancels \/ CloseSubmits \/ CloseRaises
  BY <1>19 DEF CheckResume, CloseCancels, CloseSubmits, CloseRereads, CloseRaises,
       CycleKept, strategyVars, workerVars
<1>20. CASE CloseReadsPosition \/ CloseRereads
  <2>1. CASE UNCHANGED strategyVars
    BY <1>20, <2>1 DEF CloseReadsPosition, CloseRereads, CycleKept, strategyVars, workerVars
  <2>2. CASE AlreadyFlat /\ UNCHANGED <<exchangeVars, wpc, resumeMark>>
    <3>1. opc \in {"closing", "rereading"} /\ wpc \notin SyncPcs
      BY <1>20 DEF CloseReadsPosition, CloseRereads, LockOK, OperatorHoldsLock, ClosePcs, WorkerHoldsLock
    <3>2. QED BY <2>2, <3>1 DEF AlreadyFlat, CycleDropped
  <2>3. QED
    BY <1>20, <2>1, <2>2 DEF CloseReadsPosition, CloseRereads, workerVars, exchangeVars
<1>21. CASE Crash
  BY <1>21 DEF Crash, CycleDropped
<1>22. CASE StreamDelivers \/ FillBuy \/ FillSell \/ ManualTrade \/ ExternalCancel \/ UNCHANGED vars
  BY <1>22 DEF StreamDelivers, FillBuy, FillSell, ManualTrade, ExternalCancel, CycleKept,
       strategyVars, workerVars, vars
<1>23. QED
  BY <1>3, <1>4, <1>5, <1>6, <1>7, <1>8, <1>9, <1>10, <1>11, <1>12, <1>13, <1>14, <1>15, <1>16,
     <1>17, <1>18, <1>19, <1>20, <1>21, <1>22
     DEF Next, Worker, Sync, Operator, Environment

-----------------------------------------------------------------------------
(* Orders and identities *)

\* What is filled is complete, and what an order was computed from, and what
\* an execution came from, happened.
OrdersOK ==
  /\ \A i \in DOMAIN orders :
       /\ orders[i].status = "Filled" => orders[i].filled = orders[i].qty
       /\ orders[i].role = "tp" => orders[i].basis \subseteq DOMAIN execs
       /\ orders[i].role = "open" => orders[i].cycle \subseteq DOMAIN execs
  /\ \A k \in DOMAIN execs : execs[k].order <= Len(orders)

\* Of two orders with one identity, one was cancelled.
IdentityOK ==
  \A i, j \in DOMAIN orders :
    SameIntent(i, orders[j]) /\ i # j
      => "Cancelled" \in {orders[i].status, orders[j].status}

\* The cycle was restored from executions that happened, and while its average
\* entry is the exchange's the position has not outgrown it.
CycleOK ==
  /\ cycle.basis \subseteq DOMAIN execs
  /\ cycle.basis = basis => pos <= cycle.qty
  /\ wpc \in Managing => cycle.qty > 0

\* What a role says of an order being placed.
LEMMA PlacedRoles ==
  ASSUME TypeOK, NEW o \in IntentRecord, Places(o)
  PROVE  /\ o.role = "tp" => o = TpIntent(cycle) /\ wpc = "placeTp" /\ pos > 0
         /\ o.role = "open" => /\ wpc = "entry" /\ o.cycle = EntryGeneration(execs, journal)
         /\ o.role = "close" => opc = "submitting" /\ pos > 0
<1>1. /\ \A qty : EntryIntent(qty).role = "open"
      /\ \A qty : EntryIntent(qty).cycle = EntryGeneration(execs, journal)
  BY DEF EntryIntent, Intent
<1>2. TpIntent(cycle).role = "tp"
  BY DEF TpIntent, Intent
<1>3. DcaIntent(cycle).role = "dca"
  BY DEF DcaIntent, Intent
<1>4. CloseIntent(cycle, opWork.basis, opWork.qty).role = "close"
  BY DEF CloseIntent, Intent
<1>5. QED BY <1>1, <1>2, <1>3, <1>4 DEF Places

\* Orders and executions only accumulate.
LEMMA Accumulate ==
  ASSUME TypeOK, [Next]_vars
  PROVE  /\ Len(orders) \in Nat /\ Len(orders') \in Nat /\ Len(orders) <= Len(orders')
         /\ DOMAIN orders = 1 .. Len(orders) /\ DOMAIN orders' = 1 .. Len(orders')
         /\ DOMAIN execs = 1 .. Len(execs) /\ DOMAIN execs' = 1 .. Len(execs')
         /\ Len(execs) \in Nat /\ Len(execs') \in Nat /\ Len(execs) <= Len(execs')
         /\ \A k \in DOMAIN execs : k \in DOMAIN execs' /\ execs'[k] = execs[k]
<1>1. TypeOK'
  BY TypeStep
<1>2. /\ orders' \in Seq(OrderRecord) /\ execs' \in Seq(Execution)
  BY <1>1 DEF TypeOK, ExchangeOK
<1>3. /\ Len(orders') \in Nat /\ DOMAIN orders' = 1 .. Len(orders')
      /\ Len(execs') \in Nat /\ DOMAIN execs' = 1 .. Len(execs')
  BY <1>2, LenProperties
<1>4. \A j \in DOMAIN orders : j \in DOMAIN orders'
  BY OrdersEvolve
<1>5. \A k \in DOMAIN execs : k \in DOMAIN execs' /\ execs'[k] = execs[k]
  BY ExecsEvolve, Appended
<1>6. ASSUME NEW m \in Nat, NEW n \in Nat, 1 .. m \subseteq 1 .. n PROVE m <= n
  <2>1. CASE m = 0
    BY <2>1
  <2>2. CASE m # 0
    <3>1. m \in 1 .. m
      BY <2>2
    <3>2. QED BY <1>6, <3>1
  <2>3. QED BY <2>1, <2>2
<1>7. QED BY <1>3, <1>4, <1>5, <1>6, OrdersTyped

\* Quantities fill, bases and generations are of the past.
LEMMA OrdersStep == ASSUME TypeOK, OrdersOK, CycleOK, [Next]_vars PROVE OrdersOK'
<1>1. ASSUME NEW j \in DOMAIN orders
      PROVE  /\ orders'[j].status = "Filled" => orders'[j].filled = orders'[j].qty
             /\ orders'[j].role = "tp" => orders'[j].basis \subseteq DOMAIN execs'
             /\ orders'[j].role = "open" => orders'[j].cycle \subseteq DOMAIN execs'
  <2>1. Kept(j) /\ NotRevived(j)
    BY OrdersEvolve
  <2>2. orders'[j].status = "Filled" => orders'[j].filled = orders'[j].qty
    BY <2>1 DEF OrdersOK, Kept, NotRevived
  <2>3. DOMAIN execs \subseteq DOMAIN execs'
    BY Accumulate
  <2>4. QED BY <2>1, <2>2, <2>3 DEF OrdersOK, Kept
<1>2. ASSUME NEW k \in DOMAIN execs
      PROVE  execs'[k].order <= Len(orders')
  <2>1. execs[k].order \in Nat
    BY OrdersTyped DEF Execution
  <2>2. QED BY <2>1, Accumulate DEF OrdersOK
<1>3. CASE \E o \in IntentRecord : Places(o)
  <2>1. PICK o \in IntentRecord : Places(o)
    BY <1>3
  <2>2. /\ NewOrder(o).status = "New" /\ NewOrder(o).role = o.role
        /\ NewOrder(o).basis = o.basis /\ NewOrder(o).cycle = o.cycle
    BY DEF NewOrder
  <2>3. /\ DOMAIN orders' = DOMAIN orders \union {Len(orders) + 1}
        /\ orders'[Len(orders) + 1] = NewOrder(o)
        /\ UNCHANGED execs
    BY <2>1, PlacesEffect
  <2>4. o.role = "tp" => o.basis \subseteq DOMAIN execs
    BY <2>1, PlacedRoles DEF CycleOK, TpIntent, Intent
  <2>5. o.role = "open" => o.cycle \subseteq DOMAIN execs
    BY <2>1, PlacedRoles DEF EntryGeneration, TypeOK, ExchangeOK
  <2>6. QED BY <1>1, <1>2, <2>2, <2>3, <2>4, <2>5 DEF OrdersOK
<1>4. CASE DOMAIN orders' = DOMAIN orders /\ UNCHANGED execs
  BY <1>1, <1>2, <1>4 DEF OrdersOK
<1>5. ASSUME NEW e \in Execution, Moves(e) PROVE OrdersOK'
  <2>1. DOMAIN orders' = DOMAIN orders
    BY <1>5 DEF Moves
  <2>2. e.order <= Len(orders')
    <3>1. e.order \in DOMAIN orders \/ e.order = 0
      BY <1>5 DEF Moves, Resting, Manual
    <3>2. QED BY <3>1, <2>1, Accumulate
  <2>3. QED BY <1>1, <1>2, <1>5, <2>1, <2>2, Appended DEF OrdersOK
<1>6. CASE UNCHANGED exchangeVars
  BY <1>4, <1>6 DEF exchangeVars
<1>7. QED
  BY <1>3, <1>4, <1>5, <1>6, ExchangeStep, ExecsEvolve, CancelsEffect, FillsEffect, ManualEffect

\* _place_idempotent sends an identity again only when its orders are dead.
LEMMA IdentityStep == ASSUME TypeOK, IdentityOK, [Next]_vars PROVE IdentityOK'
<1>1. ASSUME NEW i \in DOMAIN orders, NEW j \in DOMAIN orders,
             SameIntent(i, orders[j])', i # j
      PROVE  "Cancelled" \in {orders'[i].status, orders'[j].status}
  <2>1. Kept(i) /\ Kept(j) /\ NotRevived(i) /\ NotRevived(j)
    BY OrdersEvolve
  <2>2. SameIntent(i, orders[j])
    BY <1>1, <2>1 DEF SameIntent, Kept
  <2>3. QED BY <1>1, <2>1, <2>2 DEF IdentityOK, NotRevived
<1>2. CASE \E o \in IntentRecord : Places(o)
  <2>1. PICK o \in IntentRecord : Places(o)
    BY <1>2
  <2>2. /\ NewOrder(o).role = o.role /\ NewOrder(o).cycle = o.cycle /\ NewOrder(o).basis = o.basis
        /\ NewOrder(o).level = o.level /\ NewOrder(o).qty = o.qty
    BY DEF NewOrder
  <2>3. /\ DOMAIN orders' = DOMAIN orders \union {Len(orders) + 1}
        /\ orders'[Len(orders) + 1] = NewOrder(o)
        /\ \A j \in DOMAIN orders : orders'[j] = orders[j]
    BY <2>1, PlacesEffect
  <2>4. ASSUME NEW i \in DOMAIN orders, SameIntent(i, o)
        PROVE  orders'[i].status = "Cancelled"
    BY <2>1, <2>3, <2>4 DEF Places, Known
  <2>5. ASSUME NEW i \in DOMAIN orders', NEW j \in DOMAIN orders',
               SameIntent(i, orders[j])', i # j
        PROVE  "Cancelled" \in {orders'[i].status, orders'[j].status}
    <3>1. CASE i \in DOMAIN orders /\ j \in DOMAIN orders
      BY <1>1, <2>5, <3>1
    <3>2. CASE i \in DOMAIN orders /\ j = Len(orders) + 1
      <4>1. SameIntent(i, o)
        BY <2>2, <2>3, <2>5, <3>2 DEF SameIntent
      <4>2. QED BY <2>4, <3>2, <4>1
    <3>3. CASE j \in DOMAIN orders /\ i = Len(orders) + 1
      <4>1. SameIntent(j, o)
        BY <2>2, <2>3, <2>5, <3>3 DEF SameIntent
      <4>2. QED BY <2>4, <3>3, <4>1
    <3>4. QED BY <2>3, <2>5, <3>1, <3>2, <3>3
  <2>6. QED BY <2>5 DEF IdentityOK
<1>3. CASE DOMAIN orders' = DOMAIN orders
  BY <1>1, <1>3 DEF IdentityOK
<1>4. QED
  BY <1>2, <1>3, ExchangeStep, CancelsEffect, FillsEffect, ManualEffect DEF exchangeVars

\* The average entry moves with every Buy, so while it stands only Sells came.
LEMMA CycleOKStep ==
  ASSUME TypeOK, LockOK, PositionOK, CycleOK, [Next]_vars
  PROVE  CycleOK'
<1>1. /\ pos \in Int /\ Len(execs) \in Nat /\ DOMAIN execs = 1 .. Len(execs)
      /\ DOMAIN execs \subseteq DOMAIN execs' /\ basis \subseteq DOMAIN execs
  BY OrdersTyped, Accumulate
<1>2. cycle \in CycleRecord /\ cycle.qty \in Nat
  BY DEF TypeOK, StrategyOK, CycleRecord
<1>3. PositionOK' /\ TypeOK'
  BY PositionStep, TypeStep
<1>4. ASSUME cycle' = NoCycle, wpc' \notin Managing PROVE CycleOK'
  <2>1. NoCycle.basis = {} /\ NoCycle.qty = 0
    BY DEF NoCycle
  <2>2. pos' \in Int
    BY <1>3 DEF TypeOK, ExchangeOK
  <2>3. QED BY <1>3, <1>4, <2>1, <2>2 DEF CycleOK, PositionOK
<1>5. CASE CycleClosed \/ CycleDropped
  BY <1>4, <1>5 DEF CycleClosed, CycleDropped, Managing, SyncPcs
<1>6. CASE CycleRestored
  BY <1>1, <1>6 DEF CycleRestored, CycleOK, exchangeVars
<1>7. CASE CycleKept
  <2>1. cycle'.basis \subseteq DOMAIN execs' /\ (wpc' \in Managing => cycle'.qty > 0)
    BY <1>1, <1>7 DEF CycleKept, CycleOK
  <2>2. CASE UNCHANGED <<execs, pos, basis>>
    BY <1>7, <2>1, <2>2 DEF CycleKept, CycleOK
  <2>3. ASSUME NEW e \in Execution, Moves(e), cycle'.basis = basis'
        PROVE  pos' <= cycle'.qty
    <3>1. e.side \in {"Buy", "Sell"} /\ e.qty \in Nat \ {0}
      BY <2>3 DEF Execution
    <3>2. /\ pos' = IF e.side = "Buy" THEN pos + e.qty ELSE pos - e.qty
          /\ basis' = BasisAfter(pos', e.side, Len(execs) + 1)
      BY <2>3 DEF Moves
    <3>3. cycle' = cycle
      BY <1>7 DEF CycleKept
    <3>4. CASE pos' <= 0
      BY <1>1, <1>2, <3>1, <3>2, <3>3, <3>4
    <3>5. CASE ~(pos' <= 0) /\ e.side = "Buy"
      <4>1. Len(execs) + 1 \in basis'
        BY <3>2, <3>5 DEF BasisAfter
      <4>2. Len(execs) + 1 \notin cycle.basis
        BY <1>1 DEF CycleOK
      <4>3. QED BY <2>3, <3>3, <4>1, <4>2
    <3>6. CASE ~(pos' <= 0) /\ e.side = "Sell"
      <4>1. basis' = basis /\ pos' = pos - e.qty
        BY <3>2, <3>6 DEF BasisAfter
      <4>2. pos <= cycle.qty
        BY <2>3, <3>3, <4>1 DEF CycleOK
      <4>3. QED BY <1>1, <1>2, <3>1, <3>3, <4>1, <4>2
    <3>7. QED BY <3>1, <3>4, <3>5, <3>6
  <2>4. QED BY <2>1, <2>2, <2>3, ExecsEvolve DEF CycleOK
<1>8. QED BY <1>5, <1>6, <1>7, CycleStep

-----------------------------------------------------------------------------
(* Protection before entry liabilities *)

\* A take profit at the current average entry is large enough for what is left
\* of the position: it has filled only what the position has lost.
ExitsOK ==
  \A i \in DOMAIN orders :
    orders[i].role = "tp" /\ orders[i].basis = basis /\ basis # {}
      => pos + orders[i].filled <= orders[i].qty

\* The take profit the plan asks for.
Wanted(i) ==
  orders[i].qty = cycle.qty /\ orders[i].basis = cycle.basis /\ orders[i].level = 0

\* The sync never calls stale the take profit it is about to send.
StaleOK ==
  /\ work.staleTp \subseteq DOMAIN orders
  /\ wpc = "placeTp" => work.needTp
  /\ wpc \in Deciding /\ work.needTp => \A i \in work.staleTp : ~Wanted(i)

\* A take profit is sent for the whole of a reconciled position, and later it
\* and the position shrink together.
LEMMA ExitsStep ==
  ASSUME TypeOK, PositionOK, OrdersOK, CycleOK, ExitsOK, [Next]_vars
  PROVE  ExitsOK'
<1>1. /\ pos \in Int /\ Len(execs) \in Nat /\ DOMAIN execs = 1 .. Len(execs)
      /\ basis \subseteq DOMAIN execs
      /\ \A j \in DOMAIN orders : orders[j] \in OrderRecord
  BY OrdersTyped
<1>2. CASE \E o \in IntentRecord : Places(o)
  <2>1. PICK o \in IntentRecord : Places(o)
    BY <1>2
  <2>2. /\ NewOrder(o).role = o.role /\ NewOrder(o).basis = o.basis
        /\ NewOrder(o).qty = o.qty /\ NewOrder(o).filled = 0
    BY DEF NewOrder
  <2>3. /\ DOMAIN orders' = DOMAIN orders \union {Len(orders) + 1}
        /\ orders'[Len(orders) + 1] = NewOrder(o)
        /\ \A j \in DOMAIN orders : orders'[j] = orders[j]
        /\ UNCHANGED <<pos, basis>>
    BY <2>1, PlacesEffect
  <2>4. o.role = "tp" => o.basis = cycle.basis /\ o.qty = cycle.qty
    BY <2>1, PlacedRoles DEF TpIntent, Intent
  <2>5. o.role = "tp" /\ o.basis = basis => pos + 0 <= o.qty
    BY <1>1, <2>4 DEF CycleOK
  <2>6. QED BY <2>2, <2>3, <2>5 DEF ExitsOK
<1>3. CASE /\ DOMAIN orders' = DOMAIN orders /\ UNCHANGED <<pos, basis>>
           /\ \A j \in DOMAIN orders : Kept(j) /\ orders'[j].filled = orders[j].filled
  BY <1>3 DEF ExitsOK, Kept
<1>4. CASE UNCHANGED exchangeVars
  BY <1>4 DEF exchangeVars, ExitsOK
<1>5. ASSUME NEW e \in Execution, Moves(e), NEW i \in DOMAIN orders',
             orders'[i].role = "tp", orders'[i].basis = basis', basis' # {}
      PROVE  pos' + orders'[i].filled <= orders'[i].qty
  <2>1. e.side \in {"Buy", "Sell"} /\ e.qty \in Nat \ {0}
    BY DEF Execution
  <2>2. i \in DOMAIN orders /\ Kept(i)
    BY <1>5, OrdersEvolve DEF Moves
  <2>3. orders[i].filled \in Nat /\ orders[i].qty \in Nat
    BY <1>1, <2>2 DEF OrderRecord
  <2>4. /\ pos' = IF e.side = "Buy" THEN pos + e.qty ELSE pos - e.qty
        /\ basis' = BasisAfter(pos', e.side, Len(execs) + 1)
    BY <1>5 DEF Moves
  <2>5. ~(pos' <= 0)
    BY <1>5, <2>4 DEF BasisAfter
  <2>6. e.side = "Sell"
    <3>1. orders[i].basis \subseteq DOMAIN execs
      BY <1>5, <2>2 DEF OrdersOK, Kept
    <3>2. Len(execs) + 1 \notin orders'[i].basis
      BY <1>1, <2>2, <3>1 DEF Kept
    <3>3. QED BY <1>5, <2>1, <2>4, <2>5, <3>2 DEF BasisAfter
  <2>7. basis' = basis /\ pos' = pos - e.qty
    BY <2>4, <2>5, <2>6 DEF BasisAfter
  <2>8. pos + orders[i].filled <= orders[i].qty
    BY <1>5, <2>2, <2>7 DEF ExitsOK, Kept
  <2>9. orders'[i].filled = orders[i].filled \/ orders'[i].filled = orders[i].filled + e.qty
    BY <1>5, <2>2 DEF Moves
  <2>10. orders'[i].qty = orders[i].qty
    BY <2>2 DEF Kept
  <2>11. QED BY <1>1, <2>1, <2>3, <2>7, <2>8, <2>9, <2>10
<1>6. CASE \E i \in DOMAIN orders : Cancels(i)
  BY <1>3, <1>6, CancelsEffect
<1>7. CASE \E e \in Execution : Moves(e)
  BY <1>5, <1>7 DEF ExitsOK
<1>8. QED BY <1>2, <1>4, <1>6, <1>7, ExchangeMoves

\* A set of naturals that has no least member is empty.
LEMMA LeastMember ==
  ASSUME NEW S \in SUBSET Nat, \A i \in S : ~ \A j \in S : i <= j
  PROVE  S = {}
<1>1. SUFFICES ASSUME NEW x \in S PROVE FALSE
  OBVIOUS
<1>2. \E i \in S : \A j \in S : <<j, i>> \notin OpToRel(<, Nat)
  BY <1>1, NatLessThanWellFounded, WFMin
<1>3. PICK i \in S : \A j \in S : ~(j < i)
  BY <1>2 DEF OpToRel
<1>4. i \in Nat /\ \A j \in S : j \in Nat
  OBVIOUS
<1>5. \A j \in S : i <= j
  BY <1>3, <1>4
<1>6. QED BY <1>3, <1>5

\* With no matching take profit none of the resting ones is wanted.
LEMMA PlannedStale ==
  ASSUME TypeOK, PlanOrders.needTp, NEW i \in PlanOrders.staleTp
  PROVE  ~Wanted(i)
<1> DEFINE same == {j \in RestingOf("tp") : /\ orders[j].qty = cycle.qty
                                            /\ orders[j].basis = cycle.basis
                                            /\ orders[j].level = 0}
<1>1. MatchingLimit(RestingOf("tp"), orders, cycle.qty, cycle.basis, 0) = {}
  BY DEF PlanOrders
<1>2. \A j \in same : ~ \A k \in same : j <= k
  BY <1>1 DEF MatchingLimit
<1>3. same \in SUBSET Nat
  BY OrdersTyped DEF RestingOf, Resting
<1>4. same = {}
  BY <1>2, <1>3, LeastMember
<1>5. i \in RestingOf("tp")
  BY DEF PlanOrders
<1>6. QED BY <1>4, <1>5 DEF Wanted

\* What a step does to the decisions of the sync.
LEMMA WorkStep ==
  ASSUME TypeOK, [Next]_vars
  PROVE  \/ work' = work /\ (wpc' \in Deciding => wpc' = wpc)
         \/ work'.staleTp = {} /\ wpc' # "placeTp"
         \/ /\ wpc = "orders" /\ work' = PlanOrders /\ UNCHANGED <<exchangeVars, cycle>>
            /\ wpc' = "placeTp" => PlanOrders.needTp
         \/ /\ wpc \in Deciding /\ work'.staleTp \subseteq work.staleTp
            /\ work'.needTp => work.needTp
            /\ wpc' = "placeTp" => work'.needTp
<1> DEFINE Goal == \/ work' = work /\ (wpc' \in Deciding => wpc' = wpc)
                   \/ work'.staleTp = {} /\ wpc' # "placeTp"
                   \/ /\ wpc = "orders" /\ work' = PlanOrders /\ UNCHANGED <<exchangeVars, cycle>>
                      /\ wpc' = "placeTp" => PlanOrders.needTp
                   \/ /\ wpc \in Deciding /\ work'.staleTp \subseteq work.staleTp
                      /\ work'.needTp => work.needTp
                      /\ wpc' = "placeTp" => work'.needTp
<1>1. NoWork.staleTp = {} /\ NoWork.needTp = FALSE
  BY DEF NoWork
<1>2. ASSUME work' = NoWork, wpc' # "placeTp" PROVE Goal
  BY <1>1, <1>2
<1>3. ASSUME NEW w, Continue(w) PROVE \/ work' = NoWork /\ wpc' = "idle"
                                      \/ work' = w /\ (wpc' = "placeTp" => w.needTp)
  BY <1>3 DEF Continue, NextCall
<1>4. ASSUME NEW w, Continue(w), wpc \in Deciding, w.staleTp \subseteq work.staleTp,
             w.needTp => work.needTp
      PROVE  Goal
  BY <1>2, <1>3, <1>4
<1>5. ASSUME NEW seen, FlatPath(seen) PROVE Goal
  BY <1>2, <1>5 DEF FlatPath, Return
<1>6. CASE ReadPosition
  <2>1. [NoWork EXCEPT !.read = pos].staleTp = {}
    BY DEF NoWork
  <2>2. QED BY <1>2, <1>5, <1>6, <2>1 DEF ReadPosition, Raise
<1>7. CASE BlockEntry \/ SubmitEntry \/ BlockDca \/ ExhaustIdentities \/ CallRaises \/ AnswerLost
  BY <1>2, <1>7 DEF BlockEntry, SubmitEntry, BlockDca, ExhaustIdentities, CallRaises, AnswerLost,
       Return, Raise
<1>8. CASE Reconcile
  BY <1>2, <1>8 DEF Reconcile, Return, Raise, Deciding
<1>9. CASE ReadOrders
  BY <1>2, <1>3, <1>9 DEF ReadOrders, Return, Raise, strategyVars
<1>10. CASE RecheckPosition
  BY <1>4, <1>5, <1>10 DEF RecheckPosition, Deciding
<1>11. CASE PlaceTp
  <2>1. CASE work' = NoWork /\ wpc' = "rejected"
    BY <1>2, <2>1
  <2>2. CASE Continue([work EXCEPT !.needTp = FALSE])
    <3>1. /\ [work EXCEPT !.needTp = FALSE].staleTp = work.staleTp
          /\ [work EXCEPT !.needTp = FALSE].needTp = FALSE
      BY DEF TypeOK, WorkerOK, WorkRecord
    <3>2. QED BY <1>4, <1>11, <2>2, <3>1 DEF PlaceTp, Deciding
  <2>3. QED BY <1>11, <2>1, <2>2 DEF PlaceTp
<1>12. CASE RereadAfterRejection
  BY <1>2, <1>5, <1>12 DEF RereadAfterRejection, Raise
<1>13. CASE CancelStaleTp
  <2>1. PICK i \in work.staleTp : CancelStale("cancelTp", i, [work EXCEPT !.staleTp = @ \ {i}])
    BY <1>13 DEF CancelStaleTp
  <2>2. /\ [work EXCEPT !.staleTp = @ \ {i}].staleTp = work.staleTp \ {i}
        /\ [work EXCEPT !.staleTp = @ \ {i}].needTp = work.needTp
    BY DEF TypeOK, WorkerOK, WorkRecord
  <2>3. QED BY <1>2, <1>4, <2>1, <2>2 DEF CancelStale, Raise, Deciding
<1>14. CASE CancelStaleDca
  <2>1. PICK i \in work.staleDca : CancelStale("cancelDca", i, [work EXCEPT !.staleDca = @ \ {i}])
    BY <1>14 DEF CancelStaleDca
  <2>2. /\ [work EXCEPT !.staleDca = @ \ {i}].staleTp = work.staleTp
        /\ [work EXCEPT !.staleDca = @ \ {i}].needTp = work.needTp
    BY DEF TypeOK, WorkerOK, WorkRecord
  <2>3. QED BY <1>2, <1>4, <2>1, <2>2 DEF CancelStale, Raise, Deciding
<1>15. CASE PlaceDca
  <2>1. /\ [work EXCEPT !.needDca = FALSE].staleTp = work.staleTp
        /\ [work EXCEPT !.needDca = FALSE].needTp = work.needTp
    BY DEF TypeOK, WorkerOK, WorkRecord
  <2>2. QED BY <1>4, <1>15, <2>1 DEF PlaceDca, Deciding
<1>16. CASE Recover \/ HandlerDisablesReentry \/ HandlerPauses
  BY <1>16 DEF Recover, HandlerDisablesReentry, HandlerPauses, Deciding
<1>17. CASE Operator
  BY <1>17 DEF Operator, Pause, CheckResume, EnableReentry, FinishResume, StartClose,
       CloseCancels,
       CloseReadsPosition, CloseSubmits, CloseRereads, CloseRaises, workerVars
<1>18. CASE Crash
  BY <1>2, <1>18 DEF Crash
<1>19. CASE (Environment /\ ~Crash) \/ UNCHANGED vars
  BY <1>19 DEF Environment, StreamDelivers, FillBuy, FillSell, ManualTrade, ExternalCancel,
       workerVars, vars
<1>20. QED
  BY <1>6, <1>7, <1>8, <1>9, <1>10, <1>11, <1>12, <1>13, <1>14, <1>15, <1>16, <1>17, <1>18, <1>19
     DEF Next, Worker, Sync

\* Neither the plan's cycle nor what identifies an order changes under a sync.
LEMMA StaleStep ==
  ASSUME TypeOK, LockOK, StaleOK, [Next]_vars
  PROVE  StaleOK'
<1>1. \A j \in DOMAIN orders : j \in DOMAIN orders' /\ Kept(j)
  BY OrdersEvolve
<1>2. wpc' \in Deciding => UNCHANGED cycle
  BY CycleStep DEF CycleKept, CycleClosed, CycleDropped, CycleRestored, Deciding, SyncPcs
<1>3. CASE work' = work /\ (wpc' \in Deciding => wpc' = wpc)
  BY <1>1, <1>2, <1>3 DEF StaleOK, Wanted, Kept, Deciding
<1>4. CASE work'.staleTp = {} /\ wpc' # "placeTp"
  BY <1>4 DEF StaleOK
<1>5. CASE /\ wpc = "orders" /\ work' = PlanOrders /\ UNCHANGED <<exchangeVars, cycle>>
           /\ wpc' = "placeTp" => PlanOrders.needTp
  <2>1. PlanOrders.staleTp \subseteq DOMAIN orders
    BY DEF PlanOrders, RestingOf, Resting
  <2>2. UNCHANGED <<orders, cycle>>
    BY <1>5 DEF exchangeVars
  <2>3. work'.needTp => \A i \in work'.staleTp : ~Wanted(i)'
    BY <1>5, <2>2, PlannedStale DEF Wanted
  <2>4. QED BY <1>5, <2>1, <2>2, <2>3 DEF StaleOK
<1>6. CASE /\ wpc \in Deciding /\ work'.staleTp \subseteq work.staleTp
           /\ work'.needTp => work.needTp
           /\ wpc' = "placeTp" => work'.needTp
  BY <1>1, <1>2, <1>6 DEF StaleOK, Wanted, Kept
<1>7. QED BY <1>3, <1>4, <1>5, <1>6, WorkStep

\* The invariant under which protection comes first.
BasketInv ==
  /\ LockOK /\ PositionOK /\ OrdersOK /\ IdentityOK
  /\ CycleOK /\ ExitsOK /\ StaleOK

\* Nothing was ordered or traded at first.
LEMMA BasketInit == Init => BasketInv
<1>1. SUFFICES ASSUME Init PROVE BasketInv
  OBVIOUS
<1>2. DOMAIN orders = {} /\ DOMAIN execs = {}
  BY <1>1 DEF Init
<1>3. /\ NoCycle.basis = {} /\ NoCycle.qty = 0 /\ NoWork.staleTp = {}
  BY DEF NoCycle, NoWork
<1>4. RestingExits = {}
  BY <1>2 DEF RestingExits, Resting
<1>5. QED
  BY <1>1, <1>2, <1>3, <1>4
     DEF Init, BasketInv, LockOK, PositionOK, OrdersOK, IdentityOK, CycleOK, ExitsOK, StaleOK,
         WorkerHoldsLock, SyncPcs, Managing, Deciding

\* Every step keeps each part.
LEMMA BasketStep == ASSUME TypeOK, BasketInv, [Next]_vars PROVE BasketInv'
BY LockStep, PositionStep, OrdersStep, IdentityStep, CycleOKStep, ExitsStep, StaleStep
   DEF BasketInv

\* The basket invariant holds.
THEOREM BasketInvariant == Spec => []BasketInv
<1>1. BasketInv /\ TypeOK /\ [Next]_vars => BasketInv'
  BY BasketStep
<1>2. QED BY <1>1, BasketInit, TypeInvariant, PTL DEF Spec

\* After the take profit step one resting order covers the position, or
\* several exits rest.
LEMMA TakeProfitStep ==
  ASSUME TypeOK, BasketInv, [Next]_vars,
         wpc \in {"orders", "placeTp"},
         wpc' \in {"cancelTp", "cancelDca", "placeDca", "idle"},
         recovered', ExchangeUnmoved'
  PROVE  \/ Cardinality(RestingOf("tp")) > 1
         \/ \E i \in RestingOf("tp")' : CoveredBy(i)'
<1>1. CASE ReadOrders
  <2>1. UNCHANGED <<orders, pos, basis, cycle>>
    BY <1>1 DEF ReadOrders, exchangeVars, strategyVars
  <2>2. CASE Assess(RestingOf("tp"), orders, work.read, cycle.qty) = "ambiguous"
    BY <2>2 DEF Assess
  <2>3. CASE Continue(PlanOrders)
    <3>1. ~PlanOrders.needTp
      BY <2>3 DEF Continue, NextCall
    <3>2. PICK i \in RestingOf("tp") :
            /\ i \in MatchingLimit(RestingOf("tp"), orders, cycle.qty, cycle.basis, 0)
            /\ orders[i].qty = cycle.qty /\ orders[i].basis = cycle.basis
      BY <3>1 DEF PlanOrders, MatchingLimit
    <3>3. i \notin work'.staleTp
      BY <2>3, <3>2 DEF Continue, PlanOrders, NoWork
    <3>4. cycle.qty = pos /\ cycle.basis = basis /\ pos > 0
      BY <1>1, <2>1 DEF ExchangeUnmoved, ReadOrders, BasketInv, CycleOK, Managing
    <3>5. i \in DOMAIN orders /\ orders[i].role = "tp" /\ basis # {}
      BY <3>2, <3>4 DEF RestingOf, Resting, BasketInv, PositionOK
    <3>6. pos + orders[i].filled <= orders[i].qty
      BY <3>2, <3>4, <3>5 DEF BasketInv, ExitsOK
    <3>7. orders[i].filled \in Nat /\ orders[i].qty \in Nat /\ pos \in Int
      BY <3>5, OrdersTyped DEF OrderRecord
    <3>8. Leaves(i) = pos
      BY <3>2, <3>4, <3>6, <3>7 DEF Leaves
    <3>9. CoveredBy(i)'
      BY <2>1, <3>2, <3>3, <3>4, <3>8 DEF CoveredBy, Leaves
    <3>10. i \in RestingOf("tp")'
      BY <2>1, <3>2 DEF RestingOf, Resting, Active
    <3>11. QED BY <3>9, <3>10
  <2>4. ~Raise
    BY DEF Raise
  <2>5. QED BY <1>1, <2>2, <2>3, <2>4 DEF ReadOrders
<1>2. CASE PlaceTp
  <2> DEFINE o == TpIntent(cycle)
  <2>1. /\ ~NothingToReduce(o) /\ orders' = Placed(o)
        /\ Continue([work EXCEPT !.needTp = FALSE])
        /\ UNCHANGED <<pos, basis, cycle>>
    BY <1>2 DEF PlaceTp, strategyVars
  <2>2. cycle.qty = pos /\ cycle.basis = basis /\ pos > 0
    BY <1>2, <2>1 DEF ExchangeUnmoved, PlaceTp, BasketInv, CycleOK, Managing
  <2>3. basis # {} /\ pos \in Int
    BY <2>2, OrdersTyped DEF BasketInv, PositionOK
  <2>4. work'.staleTp \subseteq work.staleTp
    BY <2>1 DEF Continue, NoWork, TypeOK, WorkerOK, WorkRecord
  <2>5. /\ o.role = "tp" /\ o.qty = cycle.qty /\ o.basis = cycle.basis /\ o.level = 0
    BY DEF TpIntent, Intent
  <2>6. work.staleTp \subseteq DOMAIN orders /\ \A i \in work.staleTp : ~Wanted(i)
    BY <1>2 DEF PlaceTp, BasketInv, StaleOK, Deciding
  <2>7. CASE Known(o)
    <3>1. PICK i \in DOMAIN orders : SameIntent(i, o) /\ orders[i].status # "Cancelled"
      BY <2>7 DEF Known
    <3>2. /\ orders[i].role = "tp" /\ orders[i].basis = basis /\ orders[i].qty = pos
          /\ Wanted(i)
      BY <2>2, <2>5, <3>1 DEF SameIntent, Wanted
    <3>3. /\ orders[i].filled \in Nat /\ orders[i].status \in Statuses
      BY OrdersTyped DEF OrderRecord
    <3>4. orders[i].filled = 0
      BY <2>3, <3>2, <3>3 DEF BasketInv, ExitsOK
    <3>5. Active(i)
      BY <2>2, <3>1, <3>2, <3>3, <3>4 DEF BasketInv, OrdersOK, Active, Statuses
    <3>6. orders' = orders
      BY <2>1, <2>7 DEF Placed
    <3>7. i \in RestingOf("tp")'
      BY <3>2, <3>5, <3>6 DEF RestingOf, Resting, Active
    <3>8. CoveredBy(i)'
      BY <2>1, <2>3, <2>4, <2>6, <3>2, <3>4, <3>6 DEF CoveredBy, Leaves
    <3>9. QED BY <3>7, <3>8
  <2>8. CASE ~Known(o)
    <3>0. PICK n : n = Len(orders) + 1
      OBVIOUS
    <3>1. orders \in Seq(OrderRecord) /\ Len(orders) \in Nat /\ DOMAIN orders = 1 .. Len(orders)
      BY OrdersTyped
    <3>2. orders' = Append(orders, NewOrder(o))
      BY <2>1, <2>8 DEF Placed
    <3>3. n \in DOMAIN orders' /\ orders'[n] = NewOrder(o) /\ n \notin DOMAIN orders
      BY <3>0, <3>1, <3>2, LenProperties
    <3>4. /\ NewOrder(o).role = "tp" /\ NewOrder(o).status = "New" /\ NewOrder(o).filled = 0
          /\ NewOrder(o).qty = pos /\ NewOrder(o).basis = basis
      BY <2>2, <2>5 DEF NewOrder
    <3>5. n \in RestingOf("tp")'
      BY <3>3, <3>4 DEF RestingOf, Resting, Active
    <3>6. CoveredBy(n)'
      BY <2>1, <2>3, <2>4, <2>6, <3>3, <3>4 DEF CoveredBy, Leaves
    <3>7. QED BY <3>5, <3>6
  <2>9. QED BY <2>7, <2>8
<1>3. CASE ~ReadOrders /\ ~PlaceTp
  <2>1. wpc' = wpc \/ wpc' \in {"failed"} \/ ~recovered'
    BY <1>3 DEF Next, Worker, Sync, Recover, CallRaises, AnswerLost, HandlerDisablesReentry,
         HandlerPauses, ReadPosition, BlockEntry, SubmitEntry, Reconcile, RecheckPosition,
         RereadAfterRejection, CancelStaleTp, CancelStaleDca, CancelStale, BlockDca, PlaceDca,
         ExhaustIdentities, Raise, Operator, Pause, CheckResume, EnableReentry, FinishResume,
         StartClose, CloseCancels, CloseReadsPosition, CloseSubmits, CloseRereads,
              CloseRaises, workerVars,
         Environment, StreamDelivers, FillBuy, FillSell, ManualTrade, ExternalCancel, Crash, vars
  <2>2. QED BY <2>1
<1>4. QED BY <1>1, <1>2, <1>3

\* Protection first: no sync of an open basket goes past its take-profit step
\* without one order that covers the position, unless several rest already.
THEOREM ProtectionFirst == Spec => TakeProfitFirst
<1>1. TypeOK /\ BasketInv /\ [Next]_vars
        => [ (/\ wpc \in {"orders", "placeTp"}
              /\ wpc' \in {"cancelTp", "cancelDca", "placeDca", "idle"}
              /\ recovered')
             => (ExchangeUnmoved' =>
                   \/ Cardinality(RestingOf("tp")) > 1
                   \/ \E i \in RestingOf("tp")' : CoveredBy(i)') ]_vars
  BY TakeProfitStep
<1>2. QED BY <1>1, TypeInvariant, BasketInvariant, PTL DEF Spec, TakeProfitFirst

-----------------------------------------------------------------------------
(* One entry, one cycle *)

\* An entry is decided when no exit rests and no basket has been sold from,
\* and carries the generation of a Sell before every later basket.
EntryOK ==
  NoManualTrade =>
    /\ wpc = "entry" => /\ RestingExits = {}
                        /\ \A k \in basis, m \in DOMAIN execs : execs[m].side = "Sell" => m < k
    /\ \A i \in DOMAIN orders : orders[i].role = "open" =>
         \A g \in orders[i].cycle, k \in basis : g < k

\* A trade by hand stays in the history.
LEMMA ManualStays ==
  ASSUME TypeOK, [Next]_vars, NoManualTrade'
  PROVE  NoManualTrade
BY Accumulate DEF NoManualTrade

\* An execution of an order of the bot, where nobody else trades.
LEMMA BotMoves ==
  ASSUME TypeOK, NoManualTrade', NEW e \in Execution, Moves(e)
  PROVE  /\ e.order \in Resting
         /\ e.side = "Sell" => e.order \in RestingExits /\ e.qty <= pos
<1>1. Len(execs) + 1 \in DOMAIN execs' /\ execs'[Len(execs) + 1] = e
  BY Appended
<1>2. e.order # Manual
  BY <1>1 DEF NoManualTrade
<1>3. QED BY <1>2 DEF Moves

\* An entry is still decided after a step only if it was, or the step found
\* the symbol flat.
LEMMA EntryDecided ==
  ASSUME TypeOK, LockOK, [Next]_vars, wpc' = "entry"
  PROVE  wpc = "entry" \/ (pos = 0 /\ UNCHANGED exchangeVars)
BY CycleStep DEF CycleKept, CycleClosed, CycleDropped, CycleRestored, SyncPcs

\* Generations are of Sells that happened, baskets are of later Buys.
LEMMA EntryOKStep ==
  ASSUME TypeOK, BasketInv, EntryOK, [Next]_vars
  PROVE  EntryOK'
<1>1. SUFFICES ASSUME NoManualTrade'
               PROVE  /\ wpc' = "entry" =>
                           /\ RestingExits' = {}
                           /\ \A k \in basis', m \in DOMAIN execs' :
                                execs'[m].side = "Sell" => m < k
                      /\ \A i \in DOMAIN orders' : orders'[i].role = "open" =>
                           \A g \in orders'[i].cycle, k \in basis' : g < k
  BY DEF EntryOK
<1>2. NoManualTrade /\ LockOK /\ PositionOK /\ OrdersOK
  BY <1>1, ManualStays DEF BasketInv
<1>3. /\ pos \in Int /\ Len(execs) \in Nat /\ DOMAIN execs = 1 .. Len(execs)
      /\ basis \subseteq DOMAIN execs
  BY OrdersTyped
<1>4. ASSUME NEW e \in Execution, Moves(e)
      PROVE  /\ basis' \subseteq basis \union {Len(execs) + 1}
             /\ e.side = "Sell" => basis' \subseteq basis
  BY <1>4 DEF Moves, BasisAfter
<1>5. ASSUME wpc' = "entry"
      PROVE  /\ RestingExits' = {}
             /\ \A k \in basis', m \in DOMAIN execs' : execs'[m].side = "Sell" => m < k
  <2>1. CASE pos = 0 /\ UNCHANGED exchangeVars
    <3>1. basis = {} /\ RestingExits = {}
      BY <1>2, <2>1 DEF PositionOK
    <3>2. QED BY <2>1, <3>1 DEF exchangeVars, RestingExits, Resting, Active
  <2>2. CASE wpc = "entry"
    <3>1. /\ RestingExits = {}
          /\ \A k \in basis, m \in DOMAIN execs : execs[m].side = "Sell" => m < k
      BY <1>2, <2>2 DEF EntryOK
    <3>2. RestingExits' = {}
      <4>1. ASSUME NEW o \in IntentRecord, Places(o) PROVE ~ReduceOnly(o)
        BY <1>2, <2>2, <4>1, PlacedRoles
           DEF LockOK, WorkerHoldsLock, OperatorHoldsLock, ClosePcs, SyncPcs, ReduceOnly
      <4>2. QED BY <3>1, <4>1, ExitsEvolve
    <3>3. CASE UNCHANGED <<execs, basis>>
      BY <3>1, <3>2, <3>3
    <3>4. ASSUME NEW e \in Execution, Moves(e),
                 NEW k \in basis', NEW m \in DOMAIN execs', execs'[m].side = "Sell"
          PROVE  m < k
      <4>1. e.side # "Sell"
        BY <1>1, <3>1, <3>4, BotMoves
      <4>2. m \in DOMAIN execs /\ execs[m].side = "Sell"
        BY <3>4, <4>1, Appended
      <4>3. CASE k \in basis
        BY <3>1, <4>2, <4>3
      <4>4. CASE k = Len(execs) + 1
        BY <1>3, <4>2, <4>4
      <4>5. QED BY <1>4, <3>4, <4>3, <4>4
    <3>5. QED BY <3>2, <3>3, <3>4, ExecsEvolve
  <2>3. QED BY <1>2, <1>5, <2>1, <2>2, EntryDecided
<1>6. ASSUME NEW i \in DOMAIN orders', orders'[i].role = "open",
             NEW g \in orders'[i].cycle, NEW k \in basis'
      PROVE  g < k
  <2>1. CASE i \in DOMAIN orders
    <3>1. orders[i].role = "open" /\ g \in orders[i].cycle
      BY <1>6, <2>1, OrdersEvolve DEF Kept
    <3>2. g \in DOMAIN execs
      BY <1>2, <2>1, <3>1 DEF OrdersOK
    <3>3. CASE k \in basis
      BY <1>2, <2>1, <3>1, <3>3 DEF EntryOK
    <3>4. CASE k = Len(execs) + 1
      BY <1>3, <3>2, <3>4
    <3>5. QED BY <1>4, <1>6, <3>3, <3>4, ExecsEvolve
  <2>2. CASE i \notin DOMAIN orders
    <3>1. PICK o \in IntentRecord : Places(o)
      BY <1>6, <2>2, ExchangeMoves, CancelsEffect DEF Moves, exchangeVars
    <3>2. orders'[i] = NewOrder(o) /\ UNCHANGED basis
      BY <1>6, <2>2, <3>1, PlacesEffect
    <3>3. o.role = "open" /\ g \in o.cycle
      BY <1>6, <3>2 DEF NewOrder
    <3>4. wpc = "entry" /\ g \in EntryGeneration(execs, journal)
      BY <3>1, <3>3, PlacedRoles
    <3>5. g \in DOMAIN execs /\ execs[g].side = "Sell"
      BY <3>4 DEF EntryGeneration, TypeOK, ExchangeOK
    <3>6. QED BY <1>2, <1>6, <3>2, <3>4, <3>5 DEF EntryOK
  <2>3. QED BY <2>1, <2>2
<1>7. QED BY <1>5, <1>6

\* The entry orders sent since the last Resume.
SentEntries == {o \in resumeMark .. Len(orders) : orders[o].role = "open"}

\* In trial mode an exit rests beside a sent entry only while a cycle is known,
\* and once an exit has filled the cycle is still known, the strategy is paused
\* or the worker is about to pause it.
TrialOK ==
  (PauseAfterCycle /\ resumeMark # 0 /\ NoManualTrade) =>
    /\ SentEntries # {} /\ RestingExits # {} => cycle # NoCycle
    /\ CycleEnding => /\ wpc # "entry"
                      /\ \/ cycle # NoCycle
                         \/ strat.state = "PAUSED"
                         \/ wpc \in {"failed", "pausing"}

\* While the Resume stands, entries sent since and sales after them come from
\* orders placed and executions made.
LEMMA SentEvolves ==
  ASSUME TypeOK, BasketInv, [Next]_vars, UNCHANGED resumeMark, resumeMark # 0
  PROVE  /\ SentEntries' \subseteq SentEntries \/ wpc = "entry"
         /\ CycleEnding' => CycleEnding
                            \/ \E e \in Execution : /\ Moves(e) /\ e.side = "Sell"
                                                    /\ SentEntries # {}
<1>1. /\ Len(orders) \in Nat /\ Len(orders') \in Nat /\ Len(orders) <= Len(orders')
      /\ DOMAIN orders = 1 .. Len(orders) /\ DOMAIN orders' = 1 .. Len(orders')
      /\ Len(execs) \in Nat /\ DOMAIN execs = 1 .. Len(execs)
      /\ \A k \in DOMAIN execs : execs[k].order \in Nat
  BY Accumulate, OrdersTyped DEF Execution
<1>2. resumeMark \in Nat \ {0}
  BY DEF TypeOK, OperatorOK
<1>3. \A j \in DOMAIN orders : orders'[j].role = orders[j].role
  BY OrdersEvolve DEF Kept
<1>4. SentEntries' \subseteq SentEntries \/ wpc = "entry"
  <2>1. CASE Len(orders') = Len(orders)
    BY <1>1, <1>2, <1>3, <2>1 DEF SentEntries
  <2>2. ASSUME NEW o \in IntentRecord, Places(o), wpc # "entry"
        PROVE  SentEntries' \subseteq SentEntries
    <3>1. /\ Len(orders') = Len(orders) + 1
          /\ orders'[Len(orders) + 1] = NewOrder(o)
      BY <2>2, PlacesEffect
    <3>2. NewOrder(o).role # "open"
      BY <2>2, PlacedRoles DEF NewOrder
    <3>3. QED BY <1>1, <1>2, <1>3, <3>1, <3>2 DEF SentEntries
  <2>3. QED BY <2>1, <2>2, ExchangeMoves, CancelsEffect DEF Moves, exchangeVars
<1>5. ASSUME NEW k \in DOMAIN execs, execs[k].order \in resumeMark .. Len(orders'),
             orders'[execs[k].order].role = "open"
      PROVE  /\ execs[k].order \in resumeMark .. Len(orders)
             /\ orders[execs[k].order].role = "open"
             /\ execs[k].order \in SentEntries
  <2>1. execs[k].order \in resumeMark .. Len(orders)
    BY <1>1, <1>2, <1>5 DEF BasketInv, OrdersOK
  <2>2. orders[execs[k].order].role = "open"
    BY <1>1, <1>2, <1>3, <1>5, <2>1
  <2>3. QED BY <2>1, <2>2 DEF SentEntries
<1>6. ASSUME CycleEnding'
      PROVE  \/ CycleEnding
             \/ \E e \in Execution : Moves(e) /\ e.side = "Sell" /\ SentEntries # {}
  <2>1. PICK k \in DOMAIN execs', m \in DOMAIN execs' :
          /\ k < m /\ execs'[m].side = "Sell"
          /\ execs'[k].order \in resumeMark .. Len(orders')
          /\ orders'[execs'[k].order].role = "open"
    BY <1>6 DEF CycleEnding
  <2>2. CASE m \in DOMAIN execs
    <3>1. k \in DOMAIN execs /\ k \in Nat
      BY <1>1, <2>1, <2>2, Accumulate
    <3>2. execs'[k] = execs[k] /\ execs'[m] = execs[m]
      BY <2>2, <3>1, Accumulate
    <3>3. CycleEnding
      BY <1>5, <2>1, <2>2, <3>1, <3>2 DEF CycleEnding
    <3>4. QED BY <3>3
  <2>3. CASE m \notin DOMAIN execs
    <3>1. PICK e \in Execution : Moves(e)
      BY <2>1, <2>3, ExecsEvolve
    <3>2. m = Len(execs) + 1 /\ execs'[m] = e
      BY <2>1, <2>3, <3>1, Appended
    <3>3. k \in DOMAIN execs /\ execs'[k] = execs[k]
      BY <1>1, <2>1, <3>1, <3>2, Appended
    <3>4. execs[k].order \in SentEntries
      BY <1>5, <2>1, <3>3
    <3>5. QED BY <2>1, <3>1, <3>2, <3>4
  <2>4. QED BY <2>2, <2>3
<1>7. QED BY <1>4, <1>6

\* Whoever sees the basket of a trial close, no second one is started.
LEMMA TrialStep ==
  ASSUME TypeOK, BasketInv, EntryOK, TrialOK, [Next]_vars
  PROVE  TrialOK'
<1>1. SUFFICES ASSUME PauseAfterCycle, resumeMark' # 0, NoManualTrade'
               PROVE  /\ SentEntries' # {} /\ RestingExits' # {} => cycle' # NoCycle
                      /\ CycleEnding' =>
                           /\ wpc' # "entry"
                           /\ \/ cycle' # NoCycle
                              \/ strat'.state = "PAUSED"
                              \/ wpc' \in {"failed", "pausing"}
  BY DEF TrialOK
<1>2. NoManualTrade /\ LockOK /\ PositionOK /\ OrdersOK /\ CycleOK
  BY <1>1, ManualStays DEF BasketInv
<1>3. CASE resumeMark' = Len(orders) + 1 /\ UNCHANGED exchangeVars
  <2>1. Len(orders') \in Nat /\ resumeMark' = Len(orders') + 1
    BY <1>3, Accumulate DEF exchangeVars
  <2>2. resumeMark' .. Len(orders') = {}
    BY <2>1
  <2>3. QED BY <2>2 DEF SentEntries, CycleEnding
<1>4. CASE UNCHANGED resumeMark
  <2>1. /\ SentEntries # {} /\ RestingExits # {} => cycle # NoCycle
        /\ CycleEnding => /\ wpc # "entry"
                          /\ \/ cycle # NoCycle
                             \/ strat.state = "PAUSED"
                             \/ wpc \in {"failed", "pausing"}
    BY <1>1, <1>2, <1>4 DEF TrialOK
  <2>2. opc \notin {"closing", "submitting", "rereading"}
    BY <1>1, <1>2, <1>4 DEF LockOK
  <2>3. opc = "resuming" => ~CycleEnding
    <3>1. opc = "resuming" => resumeMark = Len(orders) + 1
      BY <1>2 DEF LockOK
    <3>2. Len(orders) \in Nat
      BY OrdersTyped
    <3>3. Len(orders) + 1 .. Len(orders) = {}
      BY <3>2
    <3>4. QED BY <3>1, <3>3 DEF CycleEnding
  <2>4. CASE CycleRestored
    <3>1. cycle' # NoCycle /\ wpc' = "orders"
      BY <2>4 DEF CycleRestored, NoCycle
    <3>2. QED BY <3>1
  <2>5. ASSUME cycle' = NoCycle, pos = 0, UNCHANGED exchangeVars,
               CycleEnding => /\ wpc' # "entry"
                              /\ strat'.state = "PAUSED" \/ wpc' = "failed"
        PROVE  /\ SentEntries' # {} /\ RestingExits' # {} => cycle' # NoCycle
               /\ CycleEnding' => /\ wpc' # "entry"
                                  /\ \/ cycle' # NoCycle
                                     \/ strat'.state = "PAUSED"
                                     \/ wpc' \in {"failed", "pausing"}
    <3>1. RestingExits = {}
      BY <1>2, <2>5 DEF PositionOK
    <3>2. RestingExits' = {} /\ CycleEnding' = CycleEnding
      BY <1>4, <2>5, <3>1 DEF exchangeVars, RestingExits, Resting, Active, CycleEnding
    <3>3. QED BY <2>5, <3>2
  <2>6. CASE CycleClosed
    <3>1. CycleEnding => strat'.state = "PAUSED"
      BY <1>1, <2>1, <2>6 DEF CycleClosed, AfterFlat, Paused
    <3>2. QED BY <2>5, <2>6, <3>1 DEF CycleClosed
  <2>7. CASE CycleDropped
    BY <1>1, <2>2, <2>5, <2>7 DEF CycleDropped
  <2>8. CASE CycleKept
    <3>1. cycle' = cycle
      BY <2>8 DEF CycleKept
    <3>2. SentEntries' # {} /\ RestingExits' # {} => cycle' # NoCycle
      <4>1. CASE RestingExits' \subseteq RestingExits
        <5>1. wpc = "entry" => RestingExits = {}
          BY <1>2 DEF EntryOK
        <5>2. QED BY <1>1, <1>4, <2>1, <3>1, <4>1, <5>1, SentEvolves
      <4>2. CASE \E o \in IntentRecord : Places(o) /\ ReduceOnly(o)
        <5>1. wpc = "placeTp"
          BY <2>2, <4>2, PlacedRoles DEF ReduceOnly
        <5>2. cycle.qty > 0
          BY <1>2, <5>1 DEF CycleOK, Managing
        <5>3. NoCycle.qty = 0
          BY DEF NoCycle
        <5>4. QED BY <3>1, <5>2, <5>3
      <4>3. QED BY <4>1, <4>2, ExitsEvolve
    <3>3. ASSUME CycleEnding
          PROVE  /\ wpc' # "entry"
                 /\ \/ cycle' # NoCycle \/ strat'.state = "PAUSED"
                    \/ wpc' \in {"failed", "pausing"}
      BY <2>1, <2>3, <2>8, <3>3 DEF CycleKept
    <3>4. ASSUME NEW e \in Execution, Moves(e), e.side = "Sell", SentEntries # {}
          PROVE  wpc' # "entry" /\ cycle' # NoCycle
      <4>1. e.order \in RestingExits
        BY <1>1, <3>4, BotMoves
      <4>2. cycle # NoCycle
        BY <2>1, <3>4, <4>1
      <4>3. wpc # "entry"
        BY <1>2, <4>1 DEF EntryOK
      <4>4. QED BY <2>8, <3>1, <4>2, <4>3 DEF CycleKept
    <3>5. QED BY <1>1, <1>4, <3>2, <3>3, <3>4, SentEvolves
  <2>9. QED BY <1>2, <2>4, <2>6, <2>7, <2>8, CycleStep
<1>5. QED BY <1>1, <1>3, <1>4, ResumeStep

\* Nothing was resumed at first.
LEMMA EntriesInit == Init => EntryOK /\ TrialOK
<1>1. SUFFICES ASSUME Init PROVE EntryOK /\ TrialOK
  OBVIOUS
<1>2. DOMAIN orders = {} /\ wpc = "idle" /\ resumeMark = 0
  BY <1>1 DEF Init
<1>3. QED BY <1>2 DEF EntryOK, TrialOK

\* The entries of a basket belong to it, and one Resume starts one cycle.
THEOREM EntriesInvariant == Spec => [](EntryOK /\ TrialOK)
<1>1. /\ TypeOK /\ BasketInv /\ EntryOK /\ TrialOK /\ [Next]_vars
        => EntryOK' /\ TrialOK'
  BY EntryOKStep, TrialStep
<1>2. QED BY <1>1, EntriesInit, TypeInvariant, BasketInvariant, PTL DEF Spec

\* No entry of a later generation joins a basket, nor a second live order of
\* the same entry.
THEOREM EntriesOfOneBasket == Spec => []SingleEntry
<1>1. TypeOK /\ BasketInv /\ EntryOK => SingleEntry
  <2>1. SUFFICES ASSUME TypeOK, OrdersOK, IdentityOK, EntryOK, NoManualTrade,
                        NEW i \in EntriesBehind
                 PROVE  /\ \A g \in orders[i].cycle, k \in basis : g < k
                        /\ \A j \in EntriesBehind :
                             SameIntent(i, orders[j]) /\ i # j
                               => "Cancelled" \in {orders[i].status, orders[j].status}
    BY DEF SingleEntry, BasketInv
  <2>2. ASSUME NEW j \in EntriesBehind
        PROVE  j \in DOMAIN orders /\ orders[j].role = "open"
    <3>1. PICK k \in basis : execs[k].order = j
      BY DEF EntriesBehind, OrdersOf
    <3>2. /\ k \in DOMAIN execs /\ j \in Nat /\ j <= Len(orders)
      BY <2>1, <3>1, OrdersTyped DEF OrdersOK, Execution
    <3>3. j # 0 /\ orders[j].role = "open"
      BY DEF EntriesBehind, Manual
    <3>4. QED BY <3>2, <3>3, OrdersTyped
  <2>3. QED BY <2>1, <2>2 DEF EntryOK, IdentityOK
<1>2. QED BY <1>1, TypeInvariant, BasketInvariant, EntriesInvariant, PTL

\* BOT_TRIAL_PAUSE_AFTER_CYCLE: one Resume starts one basket.
THEOREM OneBasketPerResume == Spec => []OneCyclePerResume
<1>1. TrialOK => OneCyclePerResume
  BY DEF TrialOK, OneCyclePerResume
<1>2. QED BY <1>1, EntriesInvariant, PTL

-----------------------------------------------------------------------------
(* The journal adds up to the position *)

\* net is the recursive function NetQty(e, J) evaluates.
IsNet(net, e, J) ==
  net = [i \in 0 .. Len(e) |->
           IF i = 0 THEN 0
           ELSE IF i \in J THEN NetWith(net[i - 1], e[i])
           ELSE net[i - 1]]

\* The Buys no later Sell closes, by these net quantities.
RowsBy(net) ==
  {i \in DOMAIN execs : /\ execs[i].side = "Buy"
                        /\ \A j \in DOMAIN execs : j > i => ~Closes(execs, net, j)}

\* What the net quantities over all executions end in, and leave open.
MirrorOK ==
  /\ \E net : IsNet(net, execs, DOMAIN execs)
  /\ \A net : IsNet(net, execs, DOMAIN execs)
       => net[Len(execs)] = pos /\ RowsBy(net) = basis

\* Evaluating the definition.
LEMMA NetIsNet ==
  ASSUME NEW e, NEW J, \E net : IsNet(net, e, J)
  PROVE  IsNet(NetQty(e, J), e, J)
<1> DEFINE N == CHOOSE net : IsNet(net, e, J)
<1>1. IsNet(N, e, J)
  OBVIOUS
<1>2. NetQty(e, J) = N
  BY DEF NetQty, IsNet
<1>3. QED BY <1>1, <1>2

\* The values of the net quantities: nothing at first, then row by row.
LEMMA NetValues ==
  ASSUME TypeOK, NEW net, IsNet(net, execs, DOMAIN execs)
  PROVE  /\ DOMAIN net = 0 .. Len(execs) /\ net[0] = 0
         /\ \A i \in DOMAIN execs : net[i] = NetWith(net[i - 1], execs[i])
<1>1. Len(execs) \in Nat /\ DOMAIN execs = 1 .. Len(execs)
  BY OrdersTyped
<1>2. net = [i \in 0 .. Len(execs) |->
               IF i = 0 THEN 0
               ELSE IF i \in DOMAIN execs THEN NetWith(net[i - 1], execs[i])
               ELSE net[i - 1]]
  BY DEF IsNet
<1>3. DOMAIN net = 0 .. Len(execs) /\ net[0] = 0
  BY <1>1, <1>2
<1>4. ASSUME NEW i \in DOMAIN execs PROVE net[i] = NetWith(net[i - 1], execs[i])
  <2>1. i \in 0 .. Len(execs) /\ i # 0
    BY <1>1
  <2>2. net[i] = IF i = 0 THEN 0
                 ELSE IF i \in DOMAIN execs THEN NetWith(net[i - 1], execs[i])
                 ELSE net[i - 1]
    BY <1>2, <2>1
  <2>3. QED BY <2>1, <2>2
<1>5. QED BY <1>3, <1>4

\* One execution more, where the symbol is never short.
LEMMA MirrorMoves ==
  ASSUME TypeOK, TypeOK', MirrorOK, pos >= 0, pos' >= 0, NEW e \in Execution, Moves(e)
  PROVE  MirrorOK'
<1>1. PICK m \in Nat : m = Len(execs)
  BY OrdersTyped
<1>2. /\ DOMAIN execs = 1 .. m /\ DOMAIN execs' = 1 .. m + 1 /\ Len(execs') = m + 1
      /\ \A k \in 1 .. m : execs'[k] = execs[k]
      /\ execs'[m + 1] = e
      /\ e.side \in {"Buy", "Sell"} /\ e.qty \in Nat \ {0}
      /\ pos \in Int /\ basis \subseteq DOMAIN execs
  BY <1>1, Appended, OrdersTyped
<1>3. /\ pos' = IF e.side = "Buy" THEN pos + e.qty ELSE pos - e.qty
      /\ basis' = BasisAfter(pos', e.side, m + 1)
  BY <1>1 DEF Moves
<1>4. NetWith(pos, e) = pos'
  BY <1>2, <1>3 DEF NetWith
<1>5. \A i : i \in 1 .. m + 1 <=> i \in 1 .. m \/ i = m + 1
  BY <1>1
<1>6. \E net : IsNet(net, execs', DOMAIN execs')
  <2>1. PICK net : IsNet(net, execs, DOMAIN execs)
    BY DEF MirrorOK
  <2>2. /\ net[0] = 0
        /\ \A i \in 1 .. m : net[i] = NetWith(net[i - 1], execs[i])
    BY <1>2, <2>1, NetValues
  <2> DEFINE more == [i \in 0 .. m + 1 |-> IF i = m + 1 THEN NetWith(net[m], e) ELSE net[i]]
             right == [i \in 0 .. m + 1 |->
                         IF i = 0 THEN 0
                         ELSE IF i \in 1 .. m + 1 THEN NetWith(more[i - 1], execs'[i])
                         ELSE more[i - 1]]
  <2>3. ASSUME NEW i \in 0 .. m + 1 PROVE more[i] = right[i]
    <3>1. CASE i = 0
      BY <1>1, <2>2, <3>1
    <3>2. CASE i \in 1 .. m
      <4>1. i # m + 1 /\ i - 1 \in 0 .. m + 1 /\ i - 1 # m + 1 /\ i # 0 /\ i \in 1 .. m + 1
        BY <1>1, <3>2
      <4>2. more[i] = net[i] /\ more[i - 1] = net[i - 1]
        BY <4>1
      <4>3. QED BY <1>2, <2>2, <3>2, <4>1, <4>2
    <3>3. CASE i = m + 1
      <4>1. i - 1 = m /\ m \in 0 .. m + 1 /\ m # m + 1 /\ i # 0 /\ i \in 1 .. m + 1
        BY <1>1, <3>3
      <4>2. more[i] = NetWith(net[m], e) /\ more[i - 1] = net[m]
        BY <3>3, <4>1
      <4>3. QED BY <1>2, <3>3, <4>1, <4>2
    <3>4. QED BY <1>1, <3>1, <3>2, <3>3
  <2>4. more = right
    <3>1. DOMAIN more = 0 .. m + 1 /\ DOMAIN right = 0 .. m + 1
      OBVIOUS
    <3>2. more = [i \in 0 .. m + 1 |-> more[i]] /\ right = [i \in 0 .. m + 1 |-> right[i]]
      OBVIOUS
    <3> HIDE DEF more, right
    <3>3. QED BY <2>3, <3>2
  <2>5. IsNet(more, execs', DOMAIN execs')
    BY <1>2, <2>4 DEF IsNet
  <2>6. QED BY <2>5
<1>7. ASSUME NEW net, IsNet(net, execs', DOMAIN execs')
      PROVE  net[m + 1] = pos' /\ RowsBy(net)' = basis'
  <2>1. /\ net[0] = 0
        /\ \A i \in 1 .. m + 1 : net[i] = NetWith(net[i - 1], execs'[i])
    <3>1. net = [i \in 0 .. m + 1 |->
                   IF i = 0 THEN 0
                   ELSE IF i \in 1 .. m + 1 THEN NetWith(net[i - 1], execs'[i])
                   ELSE net[i - 1]]
      BY <1>2, <1>7 DEF IsNet
    <3>2. \A i \in 0 .. m + 1 : net[i] = IF i = 0 THEN 0
                   ELSE IF i \in 1 .. m + 1 THEN NetWith(net[i - 1], execs'[i])
                   ELSE net[i - 1]
      BY <3>1
    <3>3. QED BY <1>1, <3>2
  <2> DEFINE less == [i \in 0 .. m |-> net[i]]
             right == [i \in 0 .. m |-> IF i = 0 THEN 0
                                        ELSE IF i \in 1 .. m THEN NetWith(less[i - 1], execs[i])
                                        ELSE less[i - 1]]
  <2>2. \A i \in 0 .. m : less[i] = net[i]
    OBVIOUS
  <2>3. ASSUME NEW i \in 0 .. m PROVE less[i] = right[i]
    <3>1. CASE i = 0
      BY <2>1, <3>1
    <3>2. CASE i # 0
      <4>1. i \in 1 .. m /\ i \in 1 .. m + 1 /\ i - 1 \in 0 .. m
        BY <1>1, <3>2
      <4>2. QED BY <1>2, <2>1, <2>2, <3>2, <4>1
    <3>3. QED BY <3>1, <3>2
  <2>4. less = right
    <3>1. less = [i \in 0 .. m |-> less[i]] /\ right = [i \in 0 .. m |-> right[i]]
      OBVIOUS
    <3> HIDE DEF less, right
    <3>2. QED BY <2>3, <3>1
  <2>5. IsNet(less, execs, DOMAIN execs)
    BY <1>1, <1>2, <2>4 DEF IsNet
  <2>6. less[m] = pos /\ RowsBy(less) = basis
    BY <1>1, <2>5 DEF MirrorOK
  <2>7. net[m] = pos
    BY <1>1, <2>6
  <2>8. net[m + 1] = pos'
    <3>1. m + 1 \in 1 .. m + 1 /\ (m + 1) - 1 = m
      BY <1>1
    <3>2. QED BY <1>2, <1>4, <2>1, <2>7, <3>1
  <2>9. \A j \in 1 .. m : Closes(execs', net, j) <=> Closes(execs, less, j)
    <3>1. \A j \in 1 .. m : j - 1 \in 0 .. m
      BY <1>1
    <3>2. QED BY <1>2, <2>2, <3>1 DEF Closes
  <2>10. Closes(execs', net, m + 1) <=> e.side = "Sell" /\ pos - e.qty <= 0
    <3>1. (m + 1) - 1 = m
      BY <1>1
    <3>2. QED BY <1>2, <2>7, <3>1 DEF Closes
  <2> HIDE DEF less
  <2>11. RowsBy(net)' = {i \in 1 .. m + 1 :
                           /\ execs'[i].side = "Buy"
                           /\ \A j \in 1 .. m + 1 : j > i => ~Closes(execs', net, j)}
    BY <1>2 DEF RowsBy
  <2>12. basis = {i \in 1 .. m : /\ execs[i].side = "Buy"
                                 /\ \A j \in 1 .. m : j > i => ~Closes(execs, less, j)}
    BY <1>2, <2>6 DEF RowsBy
  <2>13. \A i \in 1 .. m : i \in RowsBy(net)' <=>
           i \in basis /\ ~Closes(execs', net, m + 1)
    BY <1>1, <1>2, <2>9, <2>11, <2>12
  <2>14. m + 1 \in RowsBy(net)' <=> e.side = "Buy"
    BY <1>1, <1>2, <2>11
  <2>15. RowsBy(net)' \subseteq 1 .. m + 1 /\ basis \subseteq 1 .. m
    BY <1>2, <2>11
  <2>16. CASE e.side = "Buy"
    <3>1. basis' = basis \union {m + 1}
      BY <1>2, <1>3, <2>16 DEF BasisAfter
    <3>2. ~Closes(execs', net, m + 1)
      BY <2>10, <2>16
    <3>3. RowsBy(net)' = basis \union {m + 1}
      BY <2>13, <2>14, <2>15, <2>16, <3>2, <1>5
    <3>4. QED BY <2>8, <3>1, <3>3
  <2>17. CASE e.side = "Sell"
    <3>1. basis' = IF pos - e.qty <= 0 THEN {} ELSE basis
      BY <1>2, <1>3, <2>17 DEF BasisAfter
    <3>2. Closes(execs', net, m + 1) <=> pos - e.qty <= 0
      BY <2>10, <2>17
    <3>3. m + 1 \notin RowsBy(net)'
      BY <2>14, <2>17
    <3>4. pos - e.qty <= 0 => RowsBy(net)' = {}
      BY <1>5, <2>13, <2>15, <3>2, <3>3
    <3>5. ~(pos - e.qty <= 0) => RowsBy(net)' = basis
      BY <1>5, <2>13, <2>15, <3>2, <3>3
    <3>6. QED BY <2>8, <3>1, <3>4, <3>5
  <2>18. QED BY <1>2, <2>16, <2>17
<1>8. QED BY <1>2, <1>6, <1>7 DEF MirrorOK

\* A symbol that is not short keeps its journal.
LEMMA MirrorStep ==
  ASSUME TypeOK, MirrorOK, pos >= 0, pos' >= 0, [Next]_vars
  PROVE  MirrorOK'
<1>1. TypeOK'
  BY TypeStep
<1>2. CASE UNCHANGED <<execs, pos, basis>>
  <2>1. \A net : RowsBy(net)' = RowsBy(net)
    BY <1>2 DEF RowsBy
  <2>2. QED BY <1>2, <2>1 DEF MirrorOK
<1>3. QED BY <1>1, <1>2, MirrorMoves, ExecsEvolve

\* No executions add up to no position.
LEMMA MirrorInit == Init => MirrorOK
<1>1. SUFFICES ASSUME Init PROVE MirrorOK
  OBVIOUS
<1>2. /\ execs = <<>> /\ Len(execs) = 0 /\ DOMAIN execs = {} /\ pos = 0 /\ basis = {}
  BY <1>1 DEF Init
<1>3. \A net : RowsBy(net) = {}
  BY <1>2 DEF RowsBy
<1>4. 0 .. 0 = {0}
  OBVIOUS
<1>5. ASSUME NEW net, IsNet(net, execs, DOMAIN execs) PROVE net[0] = 0
  BY <1>2, <1>4, <1>5 DEF IsNet
<1>6. IsNet([i \in 0 .. 0 |-> 0], execs, DOMAIN execs)
  <2>1. [i \in {0} |-> 0] = [i \in {0} |-> IF i = 0 THEN 0
                                ELSE IF i \in DOMAIN execs
                                     THEN NetWith([k \in {0} |-> 0][i - 1], execs[i])
                                     ELSE [k \in {0} |-> 0][i - 1]]
    OBVIOUS
  <2>2. QED BY <1>2, <1>4, <2>1 DEF IsNet
<1>7. QED BY <1>2, <1>3, <1>5, <1>6 DEF MirrorOK

\* Reading the query's result off the net quantities.
LEMMA MirrorReads == ASSUME TypeOK, MirrorOK PROVE JournalMirrorsExchange
<1>1. SUFFICES ASSUME journal = DOMAIN execs
               PROVE  /\ OpenNet(execs, journal) = pos
                      /\ OpenRows(execs, journal) = basis
  BY DEF JournalMirrorsExchange
<1> DEFINE N == NetQty(execs, journal)
<1>2. IsNet(N, execs, journal)
  BY <1>1, NetIsNet DEF MirrorOK
<1> HIDE DEF N
<1>3. N[Len(execs)] = pos /\ RowsBy(N) = basis
  BY <1>1, <1>2 DEF MirrorOK
<1>4. OpenNet(execs, journal) = N[Len(execs)]
  BY DEF OpenNet, N
<1>5. OpenRows(execs, journal) = RowsBy(N)
  BY <1>1 DEF OpenRows, RowsBy, N
<1>6. QED BY <1>3, <1>4, <1>5

\* While the symbol is never short, a complete journal gives the exchange's
\* position and the entry executions behind its average entry.
THEOREM JournalOfLongs == Spec /\ [](pos >= 0) => []JournalMirrorsExchange
<1>1. /\ MirrorOK /\ TypeOK /\ pos >= 0 /\ (pos >= 0)' /\ [Next]_vars => MirrorOK'
  BY MirrorStep
<1>2. TypeOK /\ MirrorOK => JournalMirrorsExchange
  BY MirrorReads
<1>3. QED BY <1>1, <1>2, MirrorInit, TypeInvariant, PTL DEF Spec

\* The bot alone never makes the symbol short, whatever fails: its exits are
\* reduce-only.
LongOK == NoManualTrade => pos >= 0 /\ MirrorOK

\* A Sell of the bot takes at most the position.
LEMMA LongStep == ASSUME TypeOK, LongOK, [Next]_vars PROVE LongOK'
<1>1. SUFFICES ASSUME NoManualTrade' PROVE pos' >= 0 /\ MirrorOK'
  BY DEF LongOK
<1>2. pos >= 0 /\ MirrorOK /\ pos \in Int
  BY <1>1, ManualStays, OrdersTyped DEF LongOK
<1>3. pos' >= 0
  <2>1. ASSUME NEW e \in Execution, Moves(e) PROVE pos' >= 0
    <3>1. e.qty \in Nat /\ (e.side = "Sell" => e.qty <= pos) /\ e.side \in {"Buy", "Sell"}
      BY <1>1, <2>1, BotMoves DEF Execution
    <3>2. pos' = IF e.side = "Buy" THEN pos + e.qty ELSE pos - e.qty
      BY <2>1 DEF Moves
    <3>3. QED BY <1>2, <3>1, <3>2
  <2>2. QED BY <1>2, <2>1, ExecsEvolve
<1>4. QED BY <1>2, <1>3, MirrorStep

\* On a symbol nobody else trades the complete journal mirrors the exchange.
THEOREM JournalMirrors == Spec => [](NoManualTrade => JournalMirrorsExchange)
<1>1. LongOK /\ TypeOK /\ [Next]_vars => LongOK'
  BY LongStep
<1>2. Init => LongOK
  BY MirrorInit DEF Init, LongOK
<1>3. TypeOK /\ LongOK => (NoManualTrade => JournalMirrorsExchange)
  BY MirrorReads DEF LongOK
<1>4. QED BY <1>1, <1>2, <1>3, TypeInvariant, PTL DEF Spec

================================================================================
