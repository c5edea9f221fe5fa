----------------------------- MODULE LiveService -----------------------------
(***************************************************************************)
(* One symbol of the live bot: LiveStrategyService.sync as the sequence of *)
(* REST calls it makes under the strategy lock, the worker loop around it, *)
(* the operator's Pause, Resume and "Close position & pause", the private  *)
(* stream filling the journal, and the exchange that fills, cancels and    *)
(* refuses orders between any two of those calls.                          *)
(*                                                                         *)
(* Atomicity: one action is one REST call together with the local          *)
(* computation up to the next one; nothing else in the process reads or    *)
(* writes the strategy meanwhile, because all of it runs under the lock.   *)
(* The two places where the code leaves the lock (the worker's exception   *)
(* handler) or assigns twice (DcaStrategy.resume, DcaStrategy.pause) are   *)
(* separate actions.                                                       *)
(***************************************************************************)
EXTENDS ExecutionJournal, Protection

CONSTANTS
  EntryQtys,       \* quantities the initial allocation may round to
  Multiplier,      \* size_multiplier_from_previous of every DCA step
  MaxLevel,        \* length of the live DCA ladder
  RefusedLevels,   \* levels whose next DCA the strategy margin cap refuses
  PauseAfterCycle, \* BOT_TRIAL_PAUSE_AFTER_CYCLE
  ReentryDelay,    \* bot_reentry_delay_seconds > 0
  PartialFills,    \* whether the exchange may fill an order in parts
  Attempts,        \* identities tried by _place_idempotent
  IllegalQtys,     \* quantities whose notional the instrument refuses
  MaxExecs,        \* bound: executions
  MaxFaults,       \* bound: REST or database calls that raise
  MaxCrashes,      \* bound: process restarts
  MaxManual        \* bound: closes, trades and cancellations by hand

ASSUME LiveAssumption ==
  /\ EntryQtys \subseteq Nat \ {0} /\ EntryQtys # {}
  /\ Multiplier \in Nat \ {0} /\ MaxLevel \in Nat
  /\ PauseAfterCycle \in BOOLEAN /\ ReentryDelay \in BOOLEAN
  /\ PartialFills \in BOOLEAN
  /\ RefusedLevels \subseteq Nat /\ IllegalQtys \subseteq Nat
  /\ Attempts \in Nat \ {0} /\ MaxExecs \in Nat
  /\ MaxFaults \in Nat /\ MaxCrashes \in Nat /\ MaxManual \in Nat

VARIABLES
  \* the exchange
  orders,      \* every order it accepted, in order; the index is the order id
  execs,       \* every execution, in time order
  pos,         \* signed position size
  basis,       \* the entry executions behind the average entry
  \* the database
  journal,     \* executions journaled so far
  \* the process
  strat,       \* DcaStrategy.state and reentry_enabled
  cycle,       \* DcaStrategy.current_cycle
  wpc,         \* where the worker thread is
  work,        \* what the sync in progress has decided
  opc,         \* where the operator's request is
  opWork,      \* what the manual close in progress has read
  flatSeen,    \* _flat_since is set
  entryPending,\* _entry_submitted_at is set, its grace period perhaps not over
  recovered,   \* execution recovery succeeded since this process started
  health,      \* last_error and last_sync_status, as operations_status reads them
  \* observation
  resumeMark,  \* 0, or 1 + orders accepted when the operator last resumed
  budget       \* remaining faults, crashes and manual interventions

exchangeVars == <<orders, execs, pos, basis>>
strategyVars == <<strat, cycle>>
workerVars == <<wpc, work, flatSeen, entryPending, recovered, health>>
operatorVars == <<opc, opWork, resumeMark>>
vars == <<exchangeVars, journal, strategyVars, workerVars, operatorVars, budget>>

-----------------------------------------------------------------------------
(* Orders *)

NoCycle == [id |-> {}, level |-> 0, last |-> 0, qty |-> 0, basis |-> {}]

NoWork == [read |-> 0, needTp |-> FALSE, staleTp |-> {},
           staleDca |-> {}, needDca |-> FALSE]

NoOpWork == [cancel |-> {}, qty |-> 0, basis |-> {}]

\* deterministic_order_link_id: the parts that are hashed, by role.
Intent(role, id, b, level, qty) ==
  [role |-> role, cycle |-> id, basis |-> b, level |-> level, qty |-> qty]

EntryIntent(qty) ==
  Intent("open", EntryGeneration(execs, journal), {}, 0, qty)

TpIntent(c) == Intent("tp", c.id, c.basis, 0, c.qty)

\* next_dca_qty: the last order's quantity times the step multiplier.
NextDcaQty(c) == c.last * Multiplier

DcaIntent(c) == Intent("dca", c.id, c.basis, c.level, NextDcaQty(c))

CloseIntent(c, b, qty) ==
  Intent("close", c.id, IF c = NoCycle THEN b ELSE {}, 0, qty)

Side(o) == IF o.role \in {"open", "dca"} THEN "Buy" ELSE "Sell"

ReduceOnly(o) == o.role \in {"tp", "close"}

Active(i) == orders[i].status \in {"New", "PartiallyFilled"}

Resting == {i \in DOMAIN orders : Active(i)}

RestingOf(role) == {i \in Resting : orders[i].role = role}

SameIntent(i, o) ==
  /\ orders[i].role = o.role /\ orders[i].cycle = o.cycle
  /\ orders[i].basis = o.basis /\ orders[i].level = o.level
  /\ orders[i].qty = o.qty

\* _place_idempotent found this identity active or filled: an acknowledgement.
Known(o) == \E i \in DOMAIN orders :
              SameIntent(i, o) /\ orders[i].status # "Cancelled"

\* Every -rN identity of this intent was used by an order that is now dead.
Exhausted(o) == Cardinality({i \in DOMAIN orders : SameIntent(i, o)}) >= Attempts

NewOrder(o) ==
  [role |-> o.role, cycle |-> o.cycle, basis |-> o.basis, level |-> o.level,
   qty |-> o.qty, filled |-> 0, status |-> "New"]

\* _place_idempotent: one order per live identity.
Placed(o) == IF Known(o) THEN orders ELSE Append(orders, NewOrder(o))

\* The exchange refuses a reduce-only order when there is nothing to reduce.
NothingToReduce(o) == ReduceOnly(o) /\ pos <= 0 /\ ~Known(o)

-----------------------------------------------------------------------------
(* DcaStrategy *)

Paused == [state |-> "PAUSED", reentry |-> FALSE]

\* Mutant: the closing state is never left.
ClosedStuck(s) == [s EXCEPT !.state = "CLOSING"]

\* mark_closed
Closed(s) == [s EXCEPT !.state = IF s.reentry THEN "IDLE" ELSE "PAUSED"]

\* restore_cycle
Restored(s) == [s EXCEPT !.state = IF s.reentry THEN "ACTIVE" ELSE "PAUSED"]

\* Mutant: the trial pause is forgotten.
AfterFlatUntrialled(s, c) ==
  IF c = NoCycle THEN s ELSE IF s.state = "PAUSED" THEN Paused ELSE Closed(s)

\* _sync_flat_position, up to its first early return: what closing does to the
\* strategy.
AfterFlat(s, c) ==
  IF c = NoCycle THEN s
  ELSE IF s.state = "PAUSED" \/ PauseAfterCycle THEN Paused
  ELSE Closed(s)

-----------------------------------------------------------------------------
(* One sync *)

SyncPcs == {"reconcile", "orders", "recheck", "placeTp", "rejected",
            "cancelTp", "cancelDca", "placeDca", "entry"}

\* One manual close.
ClosePcs == {"closing", "submitting", "rereading"}

WorkerHoldsLock == wpc \in SyncPcs
OperatorHoldsLock == opc = "resuming" \/ opc \in ClosePcs

\* Mutant: the replacement DCA is sent before the stale one is cancelled.
EagerNextCall(w) ==
  IF w.needTp THEN "placeTp"
  ELSE IF w.staleTp # {} THEN "cancelTp"
  ELSE IF w.needDca THEN "placeDca"
  ELSE IF w.staleDca # {} THEN "cancelDca"
  ELSE "idle"

\* Mutant: the entry liabilities come before the protection.
LateTpNextCall(w) ==
  IF w.staleDca # {} THEN "cancelDca"
  ELSE IF w.needDca THEN "placeDca"
  ELSE IF w.needTp THEN "placeTp"
  ELSE IF w.staleTp # {} THEN "cancelTp"
  ELSE "idle"

\* The next REST call of a sync that manages an open basket, in the order of
\* _sync_open_position: protection first, then the entry liabilities.
NextCall(w) ==
  IF w.needTp THEN "placeTp"
  ELSE IF w.staleTp # {} THEN "cancelTp"
  ELSE IF w.staleDca # {} THEN "cancelDca"
  ELSE IF w.needDca THEN "placeDca"
  ELSE "idle"

AtMax(c) == c.level >= MaxLevel

\* A DCA order is planned: the ladder goes on and the margin cap allows it.
DcaPlanned(c) == ~AtMax(c) /\ c.level \notin RefusedLevels

\* build_resting_order_plan raises: an order of the plan has less than the
\* minimum notional.  The next sync raises again while the basket is the same.
PlanRaises(c) ==
  \/ c.qty \in IllegalQtys
  \/ DcaPlanned(c) /\ NextDcaQty(c) \in IllegalQtys

\* Statuses that block Resume (api.operations_status) are "held".
ManagedHealth(c) == IF AtMax(c) /\ MaxLevel > 0 THEN "held" ELSE "ok"

\* The sync goes on with the remaining work w, or returns.
Continue(w) ==
  /\ wpc' = NextCall(w)
  /\ work' = IF NextCall(w) = "idle" THEN NoWork ELSE w
  /\ health' = IF NextCall(w) = "idle" THEN ManagedHealth(cycle) ELSE health

Return(h) == wpc' = "idle" /\ work' = NoWork /\ health' = h

\* An exception leaves sync, and with it the lock.
Raise == wpc' = "failed" /\ work' = NoWork /\ UNCHANGED health

\* _sync_flat_position until the first REST call, with _flat_since set or not.
FlatPath(seen) ==
  LET s == AfterFlat(strat, cycle) IN
  /\ strat' = s
  /\ cycle' = NoCycle
  /\ IF s.state = "PAUSED"
     THEN flatSeen' = FALSE /\ Return("ok")
     ELSE /\ flatSeen' = TRUE
          /\ \/ (ReentryDelay \/ seen) /\ Return("ok")
             \/ /\ ~ReentryDelay \/ seen
                /\ wpc' = "entry" /\ work' = NoWork /\ UNCHANGED health

\* sync: the position read that decides which half runs.
ReadPosition ==
  /\ wpc = "idle" /\ recovered /\ ~OperatorHoldsLock
  /\ \/ pos = 0 /\ FlatPath(flatSeen)
     \/ /\ pos > 0
        /\ flatSeen' = FALSE
        /\ wpc' = "reconcile"
        /\ work' = [NoWork EXCEPT !.read = pos]
        /\ UNCHANGED <<strategyVars, health>>
     \/ /\ pos < 0
        /\ flatSeen' = FALSE
        /\ strat' = Paused
        /\ Raise
        /\ UNCHANGED cycle
  /\ UNCHANGED <<exchangeVars, journal, entryPending, recovered, operatorVars,
                 budget>>

\* The entry is refused: the allocation is not exchange-legal, or a strategy
\* or portfolio guard blocks it.
BlockEntry ==
  /\ wpc = "entry"
  /\ Return("held")
  /\ UNCHANGED <<exchangeVars, journal, strategyVars, flatSeen, entryPending,
                 recovered, operatorVars, budget>>

\* account and price reads, entry_generation, open_long.
SubmitEntry ==
  /\ wpc = "entry"
  /\ \E qty \in EntryQtys :
       LET o == EntryIntent(qty) IN
       /\ Known(o) \/ ~Exhausted(o)
       /\ orders' = Placed(o)
  /\ flatSeen' = FALSE
  /\ entryPending' = TRUE
  /\ Return("ok")
  /\ UNCHANGED <<execs, pos, basis, journal, strategyVars, recovered,
                 operatorVars, budget>>

\* reconcile_strategy: a second position read, compared with the journal.
Reconcile ==
  LET rows == OpenRows(execs, journal)
      agrees == /\ rows # {}
                /\ Owned(execs, rows)
                /\ OpenNet(execs, journal) = pos
      level == LevelOf(execs, rows)
  IN
  /\ wpc = "reconcile"
  /\ \/ \* Flat by now: the cycle is closed, and planning its orders raises.
        /\ pos = 0
        /\ strat' = IF cycle = NoCycle THEN strat ELSE Closed(strat)
        /\ cycle' = NoCycle
        /\ Raise
     \/ /\ pos < 0 \/ (pos > 0 /\ ~agrees)
        /\ Return("held")
        /\ UNCHANGED strategyVars
     \/ /\ pos > 0 /\ agrees /\ level > MaxLevel
        /\ Raise
        /\ UNCHANGED strategyVars
     \/ /\ pos > 0 /\ agrees /\ level <= MaxLevel
        /\ strat' = Restored(strat)
        /\ cycle' = [id |-> rows, level |-> level, qty |-> pos,
                     last |-> LastOrderQty(execs, rows), basis |-> basis]
        /\ wpc' = "orders"
        /\ UNCHANGED <<work, health>>
  /\ UNCHANGED <<exchangeVars, journal, flatSeen, entryPending, recovered,
                 operatorVars, budget>>

\* What the open-order snapshot, read at once, makes the sync do.  DCA orders
\* past the ladder, beside a partially filled one, or not matching the plan
\* are stale.
PlanOrders ==
  LET tps == RestingOf("tp")
      dcas == RestingOf("dca")
      tpMatch == MatchingLimit(tps, orders, cycle.qty, cycle.basis, 0)
      partial == {i \in dcas : orders[i].status = "PartiallyFilled"}
      planned == DcaPlanned(cycle)
      dcaKept == IF AtMax(cycle) THEN {}
                 ELSE IF partial # {} THEN {i \in partial : \A j \in partial : i <= j}
                 ELSE IF ~planned THEN {}
                 ELSE MatchingLimit(dcas, orders, NextDcaQty(cycle), cycle.basis,
                                    cycle.level)
  IN [read |-> work.read,
      needTp |-> tpMatch = {},
      staleTp |-> tps \ tpMatch,
      staleDca |-> dcas \ dcaKept,
      needDca |-> planned /\ dcaKept = {}]

\* account read, order plan, open-order read and the protection assessment.  A
\* grace period after an entry excuses a missing first take profit.
ReadOrders ==
  LET tps == RestingOf("tp")
      status == Assess(tps, orders, work.read, cycle.qty)
  IN
  /\ wpc = "orders"
  /\ \/ PlanRaises(cycle) /\ Raise /\ UNCHANGED entryPending
     \/ \* Several exits rest: hold, touch nothing.
        /\ ~PlanRaises(cycle) /\ status = "ambiguous"
        /\ Return("held")
        /\ UNCHANGED entryPending
     \/ \* Lost protection (the grace period, if any, is over): look at the
        \* position once more.
        /\ ~PlanRaises(cycle) /\ status = "missing" /\ tps = {}
        /\ wpc' = "recheck" /\ work' = PlanOrders
        /\ entryPending' = FALSE
        /\ UNCHANGED health
     \/ /\ ~PlanRaises(cycle) /\ status # "ambiguous"
        /\ tps = {} => entryPending
        /\ Continue(PlanOrders)
        /\ entryPending' =
             (entryPending /\ (status = "missing" \/ PlanOrders.needTp))
  /\ UNCHANGED <<exchangeVars, journal, strategyVars, flatSeen, recovered,
                 operatorVars, budget>>

\* The position read after protection was found lost.
RecheckPosition ==
  /\ wpc = "recheck"
  /\ \/ pos = 0 /\ FlatPath(FALSE)
     \/ pos # 0 /\ Continue(work) /\ UNCHANGED <<strategyVars, flatSeen>>
  /\ UNCHANGED <<exchangeVars, journal, entryPending, recovered, operatorVars,
                 budget>>

\* place_tp_limit.
PlaceTp ==
  LET o == TpIntent(cycle) IN
  /\ wpc = "placeTp"
  /\ \/ /\ NothingToReduce(o)
        /\ wpc' = "rejected" /\ work' = NoWork
        /\ UNCHANGED <<orders, health, entryPending>>
     \/ /\ ~NothingToReduce(o)
        /\ Known(o) \/ ~Exhausted(o)
        /\ orders' = Placed(o)
        /\ entryPending' = (entryPending /\ work.staleTp # {})
        /\ Continue([work EXCEPT !.needTp = FALSE])
  /\ UNCHANGED <<execs, pos, basis, journal, strategyVars, flatSeen, recovered,
                 operatorVars, budget>>

\* The position read after PositionAlreadyClosedError.
RereadAfterRejection ==
  /\ wpc = "rejected"
  /\ \/ pos = 0 /\ FlatPath(FALSE)
     \/ pos # 0 /\ Raise /\ UNCHANGED <<strategyVars, flatSeen>>
  /\ UNCHANGED <<exchangeVars, journal, entryPending, recovered, operatorVars,
                 budget>>

Cancelled(i) == [orders EXCEPT ![i].status = "Cancelled"]

\* cancel_order in the loop over stale take profits, then over stale DCAs.
\* The exchange refuses to cancel an order that is no longer resting.
CancelStale(pc, i, rest) ==
  /\ wpc = pc
  /\ \/ /\ Active(i)
        /\ orders' = Cancelled(i)
        /\ Continue(rest)
     \/ /\ ~Active(i)
        /\ Raise
        /\ UNCHANGED orders
  /\ UNCHANGED <<execs, pos, basis, journal, strategyVars, flatSeen,
                 entryPending, recovered, operatorVars, budget>>

CancelStaleTp ==
  \E i \in work.staleTp :
    CancelStale("cancelTp", i, [work EXCEPT !.staleTp = @ \ {i}])

CancelStaleDca ==
  \E i \in work.staleDca :
    CancelStale("cancelDca", i, [work EXCEPT !.staleDca = @ \ {i}])

\* Portfolio authorization refuses the DCA; the sync still succeeds.
BlockDca ==
  /\ wpc = "placeDca"
  /\ Return("ok")
  /\ UNCHANGED <<exchangeVars, journal, strategyVars, flatSeen, entryPending,
                 recovered, operatorVars, budget>>

\* place_dca_limit, inside the portfolio authorization.
PlaceDca ==
  LET o == DcaIntent(cycle) IN
  /\ wpc = "placeDca"
  /\ Known(o) \/ ~Exhausted(o)
  /\ orders' = Placed(o)
  /\ Continue([work EXCEPT !.needDca = FALSE])
  /\ UNCHANGED <<execs, pos, basis, journal, strategyVars, flatSeen,
                 entryPending, recovered, operatorVars, budget>>

\* The order the sync is about to send, when its client identities run out.
PendingIntents ==
  CASE wpc = "placeTp" -> {TpIntent(cycle)}
    [] wpc = "placeDca" -> {DcaIntent(cycle)}
    [] wpc = "entry" -> {EntryIntent(qty) : qty \in EntryQtys}
    [] OTHER -> {}

ExhaustIdentities ==
  /\ \E o \in PendingIntents :
       Exhausted(o) /\ ~Known(o) /\ ~NothingToReduce(o)
  /\ Raise
  /\ UNCHANGED <<exchangeVars, journal, strategyVars, flatSeen, entryPending,
                 recovered, operatorVars, budget>>

-----------------------------------------------------------------------------
(* Failures of the worker's calls *)

Faulted == /\ budget.faults > 0
           /\ budget' = [budget EXCEPT !.faults = @ - 1]

\* A REST or database call of the sync, or of the recovery before it, raises
\* without having had an effect.
CallRaises ==
  /\ Faulted
  /\ WorkerHoldsLock \/ (wpc = "idle" /\ ~OperatorHoldsLock)
  /\ Raise
  /\ UNCHANGED <<exchangeVars, journal, strategyVars, flatSeen, entryPending,
                 recovered, operatorVars>>

\* The exchange accepted the order or the cancellation, but neither the answer
\* nor the query by client identity that follows reached the process.
AnswerLost ==
  /\ Faulted
  /\ \/ /\ wpc \in {"placeTp", "placeDca", "entry"}
        /\ \E o \in PendingIntents :
             /\ ~Exhausted(o) /\ ~NothingToReduce(o)
             /\ orders' = Placed(o)
     \/ /\ wpc \in {"cancelTp", "cancelDca"}
        /\ \E i \in (IF wpc = "cancelTp" THEN work.staleTp ELSE work.staleDca) :
             Active(i) /\ orders' = Cancelled(i)
  /\ Raise
  /\ UNCHANGED <<execs, pos, basis, journal, strategyVars, flatSeen,
                 entryPending, recovered, operatorVars>>

\* LiveWorker._run: the handler records the error and calls strategy.pause()
\* without the lock, two assignments.
HandlerDisablesReentry ==
  /\ wpc = "failed"
  /\ wpc' = "pausing"
  /\ health' = "error"
  /\ strat' = [strat EXCEPT !.reentry = FALSE]
  /\ UNCHANGED <<exchangeVars, journal, cycle, work, flatSeen, entryPending,
                 recovered, operatorVars, budget>>

\* The handler then writes an alert and an event; when a write raises, the
\* exception leaves _run and the worker thread is dead until a restart.
HandlerPauses ==
  /\ wpc = "pausing"
  /\ strat' = [strat EXCEPT !.state = "PAUSED"]
  /\ \/ wpc' = "idle" /\ UNCHANGED budget
     \/ wpc' = "dead" /\ Faulted
  /\ UNCHANGED <<exchangeVars, journal, cycle, work, flatSeen, entryPending,
                 recovered, health, operatorVars>>

-----------------------------------------------------------------------------
(* Journal *)

\* A private-stream message is processed; lost and late messages are those
\* for which this has not happened (yet), duplicates change nothing.
StreamDelivers ==
  /\ \E i \in DOMAIN execs \ journal : journal' = RecordExecution(journal, i)
  /\ UNCHANGED <<exchangeVars, strategyVars, workerVars, operatorVars, budget>>

\* Mutant: recovery runs once per process and never again.
RecoverOnce ==
  /\ wpc = "idle" /\ ~recovered
  /\ \E found \in SUBSET (DOMAIN execs \ journal) : journal' = journal \cup found
  /\ recovered' = TRUE
  /\ UNCHANGED <<exchangeVars, strategyVars, wpc, work, flatSeen, entryPending,
                 health, operatorVars, budget>>

\* ExecutionRecovery, in the worker thread before a sync: it journals the
\* executions its window and the exchange's history showed it, all or some.
\* Module Recovery models what decides which.
Recover ==
  /\ wpc = "idle"
  /\ ~recovered \/ journal # DOMAIN execs
  /\ \E found \in SUBSET (DOMAIN execs \ journal) : journal' = journal \cup found
  /\ recovered' = TRUE
  /\ UNCHANGED <<exchangeVars, strategyVars, wpc, work, flatSeen, entryPending,
                 health, operatorVars, budget>>

-----------------------------------------------------------------------------
(* Operator *)

\* pause_configured_bot; also while another request has checked readiness.
Pause ==
  /\ opc \in {"idle", "checked"} /\ ~WorkerHoldsLock
  /\ strat' = Paused
  /\ resumeMark' = 0
  /\ UNCHANGED <<exchangeVars, journal, cycle, workerVars, opc, opWork, budget>>

\* api.resume_configured_bot: can_resume is evaluated before the lock is taken.
CheckResume ==
  /\ opc = "idle" /\ health = "ok"
  /\ opc' = "checked"
  /\ UNCHANGED <<exchangeVars, journal, strategyVars, workerVars, opWork,
                 resumeMark, budget>>

\* BotRuntime.resume under the lock; DcaStrategy.resume is two assignments.
EnableReentry ==
  /\ opc = "checked" /\ ~WorkerHoldsLock
  /\ opc' = "resuming"
  /\ strat' = [strat EXCEPT !.reentry = TRUE]
  /\ resumeMark' = Len(orders) + 1
  /\ UNCHANGED <<exchangeVars, journal, cycle, workerVars, opWork, budget>>

FinishResume ==
  /\ opc = "resuming"
  /\ opc' = "idle"
  /\ strat' = [strat EXCEPT !.state = IF cycle = NoCycle THEN "IDLE" ELSE "ACTIVE"]
  /\ UNCHANGED <<exchangeVars, journal, cycle, workerVars, opWork, resumeMark,
                 budget>>

Intervened == /\ budget.manual > 0
              /\ budget' = [budget EXCEPT !.manual = @ - 1]

\* Mutant: the manual close does not pause the strategy first.
CloseUnpaused ==
  /\ Intervened
  /\ opc = "idle" /\ ~WorkerHoldsLock
  /\ resumeMark' = 0
  /\ opc' = "closing"
  /\ opWork' = [NoOpWork EXCEPT !.cancel = Resting]
  /\ UNCHANGED <<exchangeVars, journal, strategyVars, workerVars>>

\* TradingController.manual_close_and_pause: pause, then the open-order read.
StartClose ==
  /\ Intervened
  /\ opc = "idle" /\ ~WorkerHoldsLock
  /\ strat' = Paused
  /\ resumeMark' = 0
  /\ opc' = "closing"
  /\ opWork' = [NoOpWork EXCEPT !.cancel = Resting]
  /\ UNCHANGED <<exchangeVars, journal, cycle, workerVars>>

EndClose == opc' = "idle" /\ opWork' = NoOpWork

\* One cancel_order of the loop; a refusal aborts the request.
CloseCancels ==
  /\ opc = "closing"
  /\ \E i \in opWork.cancel :
       \/ /\ Active(i)
          /\ orders' = Cancelled(i)
          /\ opWork' = [opWork EXCEPT !.cancel = @ \ {i}]
          /\ UNCHANGED opc
       \/ /\ ~Active(i)
          /\ EndClose
          /\ UNCHANGED orders
  /\ UNCHANGED <<execs, pos, basis, journal, strategyVars, workerVars,
                 resumeMark, budget>>

\* _already_flat
AlreadyFlat ==
  /\ cycle' = NoCycle
  /\ strat' = IF cycle = NoCycle THEN strat ELSE Paused
  /\ EndClose

CloseReadsPosition ==
  /\ opc = "closing" /\ opWork.cancel = {}
  /\ \/ pos = 0 /\ AlreadyFlat
     \/ pos < 0 /\ EndClose /\ UNCHANGED strategyVars
     \/ /\ pos > 0
        /\ opc' = "submitting"
        /\ opWork' = [opWork EXCEPT !.qty = pos, !.basis = basis]
        /\ UNCHANGED strategyVars
  /\ UNCHANGED <<exchangeVars, journal, workerVars, resumeMark, budget>>

\* close_long, reduce-only at market.
CloseSubmits ==
  LET o == CloseIntent(cycle, opWork.basis, opWork.qty) IN
  /\ opc = "submitting"
  /\ \/ /\ NothingToReduce(o)
        /\ opc' = "rereading"
        /\ UNCHANGED <<orders, opWork>>
     \/ /\ ~NothingToReduce(o)
        /\ orders' = IF Exhausted(o) THEN orders ELSE Placed(o)
        /\ EndClose
  /\ UNCHANGED <<execs, pos, basis, journal, strategyVars, workerVars,
                 resumeMark, budget>>

\* The position read after PositionAlreadyClosedError; an open one makes the
\* request raise.
CloseRereads ==
  /\ opc = "rereading"
  /\ \/ pos = 0 /\ AlreadyFlat
     \/ pos # 0 /\ EndClose /\ UNCHANGED strategyVars
  /\ UNCHANGED <<exchangeVars, journal, workerVars, resumeMark, budget>>

\* A call of the manual close raises; what it already did stays done.
CloseRaises ==
  /\ Faulted
  /\ opc \in ClosePcs
  /\ EndClose
  /\ UNCHANGED <<exchangeVars, journal, strategyVars, workerVars, resumeMark>>

-----------------------------------------------------------------------------
(* Exchange and process environment *)

Leaves(i) == orders[i].qty - orders[i].filled

\* orders after order i filled q and the position became p: once flat, the
\* exchange cancels the reduce-only orders.
AfterFill(i, q, p) ==
  [j \in DOMAIN orders |->
     IF j = i
     THEN [orders[j] EXCEPT
             !.filled = @ + q,
             !.status = IF q = Leaves(i) THEN "Filled"
                        ELSE IF p <= 0 /\ ReduceOnly(orders[j]) THEN "Cancelled"
                        ELSE "PartiallyFilled"]
     ELSE IF p <= 0 /\ ReduceOnly(orders[j]) /\ Active(j)
          THEN [orders[j] EXCEPT !.status = "Cancelled"]
          ELSE orders[j]]

\* The average entry moves with every Buy and disappears when flat.
BasisAfter(p, side, n) ==
  IF p <= 0 THEN {} ELSE IF side = "Buy" THEN basis \cup {n} ELSE basis

Executed(side, q, o, p) ==
  /\ Len(execs) < MaxExecs
  /\ execs' = Append(execs, [side |-> side, qty |-> q, order |-> o])
  /\ pos' = p
  /\ basis' = BasisAfter(p, side, Len(execs) + 1)

FillBuy ==
  /\ \E i \in Resting : \E q \in 1 .. Leaves(i) :
       /\ Side(orders[i]) = "Buy"
       /\ PartialFills \/ q = Leaves(i)
       /\ Executed("Buy", q, i, pos + q)
       /\ orders' = AfterFill(i, q, pos + q)
  /\ UNCHANGED <<journal, strategyVars, workerVars, operatorVars, budget>>

\* A reduce-only order never sells more than the position.
FillSell ==
  /\ pos > 0
  /\ \E i \in Resting : \E q \in 1 .. Leaves(i) :
       /\ Side(orders[i]) = "Sell"
       /\ q <= pos
       /\ PartialFills \/ q = Leaves(i) \/ q = pos
       /\ Executed("Sell", q, i, pos - q)
       /\ orders' = AfterFill(i, q, pos - q)
  /\ UNCHANGED <<journal, strategyVars, workerVars, operatorVars, budget>>

\* A human trades one unit on the same symbol.  Trades while a manual close is
\* under way belong to that intervention.
ManualTrade ==
  /\ Intervened \/ (opc \in ClosePcs /\ UNCHANGED budget)
  /\ \E side \in {"Buy", "Sell"} :
       LET p == IF side = "Buy" THEN pos + 1 ELSE pos - 1 IN
       /\ Executed(side, 1, Manual, p)
       /\ orders' = [j \in DOMAIN orders |->
                       IF p <= 0 /\ ReduceOnly(orders[j]) /\ Active(j)
                       THEN [orders[j] EXCEPT !.status = "Cancelled"]
                       ELSE orders[j]]
  /\ UNCHANGED <<journal, strategyVars, workerVars, operatorVars>>

\* A human or the exchange cancels a resting order.
ExternalCancel ==
  /\ Intervened
  /\ \E i \in Resting : orders' = Cancelled(i)
  /\ UNCHANGED <<execs, pos, basis, journal, strategyVars, workerVars,
                 operatorVars>>

\* The process dies and is started again: only the exchange and the database
\* survive.
Crash ==
  /\ budget.crashes > 0
  /\ budget' = [budget EXCEPT !.crashes = @ - 1]
  /\ strat' = Paused /\ cycle' = NoCycle
  /\ wpc' = "idle" /\ work' = NoWork
  /\ opc' = "idle" /\ opWork' = NoOpWork /\ resumeMark' = 0
  /\ flatSeen' = FALSE /\ entryPending' = FALSE
  /\ recovered' = FALSE /\ health' = "none"
  /\ UNCHANGED <<exchangeVars, journal>>

-----------------------------------------------------------------------------
(* Specification *)

Init ==
  /\ orders = <<>> /\ execs = <<>> /\ pos = 0 /\ basis = {}
  /\ journal = {}
  /\ strat = Paused /\ cycle = NoCycle
  /\ wpc = "idle" /\ work = NoWork
  /\ opc = "idle" /\ opWork = NoOpWork
  /\ flatSeen = FALSE /\ entryPending = FALSE
  /\ recovered = FALSE /\ health = "none"
  /\ resumeMark = 0
  /\ budget = [faults |-> MaxFaults, crashes |-> MaxCrashes, manual |-> MaxManual]

Sync ==
  \/ ReadPosition \/ BlockEntry \/ SubmitEntry
  \/ Reconcile \/ ReadOrders \/ RecheckPosition
  \/ PlaceTp \/ RereadAfterRejection \/ CancelStaleTp \/ CancelStaleDca
  \/ BlockDca \/ PlaceDca \/ ExhaustIdentities

Worker ==
  Recover \/ Sync \/ CallRaises \/ AnswerLost
  \/ HandlerDisablesReentry \/ HandlerPauses

Operator ==
  \/ Pause \/ CheckResume \/ EnableReentry \/ FinishResume
  \/ StartClose \/ CloseCancels \/ CloseReadsPosition \/ CloseSubmits
  \/ CloseRereads \/ CloseRaises

Environment ==
  StreamDelivers \/ FillBuy \/ FillSell \/ ManualTrade \/ ExternalCancel \/ Crash

Next == Worker \/ Operator \/ Environment

Spec == Init /\ [][Next]_vars

-----------------------------------------------------------------------------
(* Properties *)

Statuses == {"New", "PartiallyFilled", "Filled", "Cancelled"}
Roles == {"open", "tp", "dca", "close"}

OrderRecord == [role : Roles, cycle : SUBSET Nat, basis : SUBSET Nat,
                level : Nat, qty : Nat, filled : Nat, status : Statuses]

StrategyRecord == [state : {"IDLE", "ACTIVE", "PAUSED"}, reentry : BOOLEAN]

CycleRecord == [id : SUBSET Nat, level : Nat, last : Nat, qty : Nat,
                basis : SUBSET Nat]

WorkRecord == [read : Nat, needTp : BOOLEAN, staleTp : SUBSET Nat,
               staleDca : SUBSET Nat, needDca : BOOLEAN]

ExchangeOK ==
  /\ orders \in Seq(OrderRecord)
  /\ execs \in Seq(Execution)
  /\ pos \in Int
  /\ basis \subseteq DOMAIN execs
  /\ journal \subseteq DOMAIN execs

StrategyOK ==
  /\ strat \in StrategyRecord
  /\ cycle \in CycleRecord

WorkerOK ==
  /\ wpc \in SyncPcs \cup {"idle", "failed", "pausing", "dead"}
  /\ work \in WorkRecord
  /\ flatSeen \in BOOLEAN /\ entryPending \in BOOLEAN /\ recovered \in BOOLEAN
  /\ health \in {"none", "ok", "held", "error"}

OperatorOK ==
  /\ opc \in {"idle", "checked", "resuming", "closing", "submitting", "rereading"}
  /\ opWork \in [cancel : SUBSET Nat, qty : Nat, basis : SUBSET Nat]
  /\ resumeMark \in Nat

\* Type invariant: every order, execution and decision is well formed, and the
\* journal and the average entry only refer to executions that happened.
TypeOK ==
  /\ ExchangeOK
  /\ StrategyOK
  /\ WorkerOK
  /\ OperatorOK
  /\ budget \in [faults : Nat, crashes : Nat, manual : Nat]

\* At most one DCA order rests at any time, whatever fails: the stale one is
\* gone before its replacement is sent, and a replacement whose answer was lost
\* is found again by the next sync (README "Live orchestration": two entry
\* liabilities are not active together).
AtMostOneDca == \A i, j \in RestingOf("dca") : i = j

\* A sync never adds an exit to two that already rest: lost answers and
\* crashes between placing the new take profit and cancelling the old one
\* leave two, which the next sync holds as protection_ambiguous.
AtMostTwoExits == Cardinality(RestingOf("tp")) <= 2

\* The position is still the one the cycle was restored from.
ExchangeUnmoved == cycle.qty = pos /\ cycle.basis = basis

CoveredBy(i) == /\ Leaves(i) = pos
                /\ orders[i].basis = basis
                /\ i \notin work.staleTp

\* Protection first: a sync of an open basket goes past its take-profit step
\* only when one resting order, which it is not about to cancel, covers the
\* whole position at the current target (or when it holds because several exits
\* rest), unless the exchange moved since the position was reconciled.
TakeProfitFirst ==
  [][ (/\ wpc \in {"orders", "placeTp"}
       /\ wpc' \in {"cancelTp", "cancelDca", "placeDca", "idle"}
       /\ recovered')
      => (ExchangeUnmoved' =>
            \/ Cardinality(RestingOf("tp")) > 1
            \/ \E i \in RestingOf("tp")' : CoveredBy(i)') ]_vars

\* The bot sends an entry only while the last thing the operator asked for is
\* Resume: not after Pause, a manual close or a restart.
EntryOnlyWhenResumed ==
  [][ (Len(orders') > Len(orders) /\ orders'[Len(orders')].role = "open")
      => resumeMark # 0 ]_vars

\* No human traded this symbol.
NoManualTrade == \A k \in DOMAIN execs : execs[k].order # Manual

\* The entry orders of which the basket holds executions.
EntriesBehind == {o \in OrdersOf(execs, basis) : o # Manual /\ orders[o].role = "open"}

\* Of the entry orders behind an open basket, each carries the generation of a
\* Sell before that basket, never of a partial exit in it, and no two that were
\* not cancelled are the same entry: one sent again before its fill was seen is
\* found, whatever answer was lost.  Two generations may still meet in a basket,
\* when an older Sell is journaled while the first entry waits.
SingleEntry ==
  NoManualTrade =>
    \A i \in EntriesBehind :
      /\ \A g \in orders[i].cycle, k \in basis : g < k
      /\ \A j \in EntriesBehind :
           SameIntent(i, orders[j]) /\ i # j
             => "Cancelled" \in {orders[i].status, orders[j].status}

\* With every fill journaled, the journal's open cycle is the exchange's
\* basket: same net quantity, same entry executions, across partial fills,
\* partial exits and closed baskets.
JournalMirrorsExchange ==
  journal = DOMAIN execs =>
    /\ OpenNet(execs, journal) = pos
    /\ OpenRows(execs, journal) = basis

\* An entry sent since the last Resume has filled, and something was sold since.
CycleEnding ==
  \E k, m \in DOMAIN execs :
    /\ k < m /\ execs[m].side = "Sell"
    /\ execs[k].order \in resumeMark .. Len(orders)
    /\ orders[execs[k].order].role = "open"

\* BOT_TRIAL_PAUSE_AFTER_CYCLE: one Resume starts one basket.  Once an entry of
\* this Resume has filled and an exit has begun, no sync comes to send another,
\* whoever sees the basket close and whatever fails meanwhile.
OneCyclePerResume ==
  (PauseAfterCycle /\ resumeMark # 0 /\ NoManualTrade /\ CycleEnding) => wpc # "entry"

\* A paused strategy does not start another cycle: no bot order but an entry
\* sent before the pause opens a position.
PausedStaysFlat ==
  [][ (pos = 0 /\ pos' > 0 /\ strat.state = "PAUSED")
      => LET o == execs'[Len(execs')].order
         IN  o = Manual \/ orders[o].role = "open" ]_vars

-----------------------------------------------------------------------------
(* Liveness *)

SyncCalls ==
  \/ BlockEntry \/ SubmitEntry \/ Reconcile \/ ReadOrders \/ RecheckPosition
  \/ PlaceTp \/ RereadAfterRejection \/ CancelStaleTp \/ CancelStaleDca
  \/ BlockDca \/ PlaceDca \/ ExhaustIdentities

\* A recovery that finds every execution there is.
RecoverAll == Recover /\ journal' = DOMAIN execs

\* The worker thread loops while it lives: a call returns or raises, the
\* handler ends in one way or the other, the lock is granted again and again,
\* and recovery, forced every 30 seconds, sooner or later finds everything
\* (EveryExecutionJournaled of module Recovery).  A request that holds the lock
\* ends.  Fills, stream messages, operators and crashes owe nothing, and nobody
\* restarts a dead worker.
Fairness ==
  /\ WF_vars(SyncCalls)
  /\ WF_vars(HandlerDisablesReentry) /\ WF_vars(HandlerPauses)
  /\ SF_vars(ReadPosition) /\ SF_vars(RecoverAll)
  /\ WF_vars(FinishResume)
  /\ WF_vars(CloseCancels \/ CloseReadsPosition \/ CloseSubmits \/ CloseRereads)

FairSpec == Spec /\ Fairness

\* A take profit rests for the whole position.
Covered == \E i \in RestingOf("tp") : Leaves(i) = pos

\* What no sync repairs, so that only a human can: a human traded the symbol; the
\* worker thread ended in its own failure handler; several exits rest; the
\* identities of the take profit are used up; the plan of this basket, or the
\* level journaled for it, makes every sync raise.
HeldForHuman ==
  \/ ~NoManualTrade
  \/ wpc = "dead"
  \/ Cardinality(RestingOf("tp")) > 1
  \/ Exhausted(TpIntent(cycle))
  \/ PlanRaises(cycle)
  \/ LevelOf(execs, OpenRows(execs, journal)) > MaxLevel

\* An open basket is, again and again, either covered by a take profit or in one
\* of the states of HeldForHuman: missed fills, failed calls that are not
\* repeated, pauses and restarts only delay it.
OpenBasketProtected == []<>(pos <= 0 \/ Covered \/ HeldForHuman)

===============================================================================
