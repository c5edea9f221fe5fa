------------------------------- MODULE Recovery -------------------------------
(***************************************************************************)
(* How the executions of one symbol reach the journal: the private stream, *)
(* which may lose any of them (botdca/bybit_stream.py, event_processor.py),*)
(* and the recovery over REST that closes the gaps, with its window, its   *)
(* overlap, its pages and its checkpoint (execution_recovery.py).          *)
(*                                                                         *)
(* Times are in one unit.  The exchange stamps executions with its own     *)
(* clock and shows them in its history after a delay; the bot computes the *)
(* window with the local clock, which may be ahead or behind.              *)
(***************************************************************************)
EXTENDS Integers, FiniteSets

CONSTANTS
  Executions,  \* what the exchange executes
  Never,       \* the time of an execution that has not happened
  Unset,       \* no checkpoint has been written yet
  Week,        \* WEEK_MS: how far back the history can be asked for
  Overlap,     \* the 60000 ms each window reaches back behind the checkpoint
  Lag,         \* external: executions are in the history within this delay
  Skew,        \* external: the local clock less the exchange's
  PageSize,    \* rows of a page
  MaxPages,    \* pages of one recovery
  MaxClock,    \* bound: the exchange's clock
  MaxFailures  \* bound: recoveries that raise

\* Executions stamped in the last Overlap of a window may not be in it yet; the
\* next window covers them when neither the delay nor the local clock being
\* ahead reaches further than that.
ASSUME RecoveryAssumption ==
  /\ IsFiniteSet(Executions)
  /\ {Week, Overlap, Lag, PageSize, MaxPages, MaxClock, MaxFailures} \subseteq Nat
  /\ Skew \in Int
  /\ Lag > 0 /\ Lag + Skew <= Overlap /\ Overlap <= Week
  /\ Never \notin Int /\ Unset \notin Int

VARIABLES
  clock,      \* the exchange's clock
  time,       \* when each execution happened, by that clock
  listed,     \* executions the REST history shows
  journal,    \* executions persisted
  checkpoint, \* end_ms of the latest EXECUTION_RECOVERY event
  recovery,   \* the recovery under way
  failures,   \* recoveries that may still raise
  origin      \* observation: where the first complete window started

vars == <<clock, time, listed, journal, checkpoint, recovery, failures, origin>>

-----------------------------------------------------------------------------
(* The exchange, and its stream *)

Happened(e) == time[e] # Never

\* Time passes; what is older than the delay is in the history by then.
Tick ==
  /\ clock < MaxClock
  /\ \A e \in Executions : Happened(e) /\ time[e] + Lag <= clock + 1 => e \in listed
  /\ clock' = clock + 1
  /\ UNCHANGED <<time, listed, journal, checkpoint, recovery, failures, origin>>

Execute(e) ==
  /\ ~Happened(e)
  /\ time' = [time EXCEPT ![e] = clock]
  /\ UNCHANGED <<clock, listed, journal, checkpoint, recovery, failures, origin>>

Appear(e) ==
  /\ Happened(e) /\ e \notin listed
  /\ listed' = listed \union {e}
  /\ UNCHANGED <<clock, time, journal, checkpoint, recovery, failures, origin>>

\* Mutant: rows of another symbol are taken for this one's.
StreamDeliversAny(e) ==
  /\ e \notin journal
  /\ journal' = journal \union {e}
  /\ UNCHANGED <<clock, time, listed, checkpoint, recovery, failures, origin>>

\* handle_execution_message: the stream delivers an execution, early, late or
\* again; record_execution keeps one row.  A message it loses, or that the
\* guarded callback could not process, is this step not taken.
StreamDelivers(e) ==
  /\ Happened(e) /\ e \notin journal
  /\ journal' = journal \union {e}
  /\ UNCHANGED <<clock, time, listed, checkpoint, recovery, failures, origin>>

-----------------------------------------------------------------------------
(* ExecutionRecovery.__call__ *)

Idle == [at |-> "idle"]

Now == clock + Skew

\* Mutant: the gap may be a whole week, without the overlap.
GapWithoutOverlap(end) == checkpoint # Unset /\ end - checkpoint > Week

\* The gap since the checkpoint no longer fits the window: recovery raises.
GapExceeded(end) == checkpoint # Unset /\ end - checkpoint > Week - Overlap

MaxOf(a, b) == IF a > b THEN a ELSE b

Start(end) == IF checkpoint = Unset THEN end - Week
              ELSE MaxOf(end - Week, checkpoint - Overlap)

\* Mutant: executions are recovered at startup only.
BeginOnce ==
  /\ recovery = Idle /\ checkpoint = Unset
  /\ recovery' = [at |-> "paging", start |-> Start(Now), end |-> Now,
                  served |-> {}, pages |-> 0]
  /\ UNCHANGED <<clock, time, listed, journal, checkpoint, failures, origin>>

Begin ==
  /\ recovery = Idle /\ ~GapExceeded(Now)
  /\ recovery' = [at |-> "paging", start |-> Start(Now), end |-> Now,
                  served |-> {}, pages |-> 0]
  /\ UNCHANGED <<clock, time, listed, journal, checkpoint, failures, origin>>

\* Rows of the window the exchange has not served yet.
Remaining ==
  {e \in listed \ recovery.served :
     recovery.start <= time[e] /\ time[e] <= recovery.end}

Pages == {page \in SUBSET Remaining :
            /\ Cardinality(page) <= PageSize
            /\ page # {} \/ Remaining = {}}

\* One page: its rows are journaled one by one; the history gives a cursor
\* while rows are left.
Page ==
  /\ recovery.at = "paging" /\ recovery.pages < MaxPages
  /\ \E page \in Pages :
       /\ journal' = journal \union page
       /\ recovery' = [recovery EXCEPT !.served = @ \union page, !.pages = @ + 1,
            !.at = IF page = Remaining THEN "complete" ELSE "paging"]
  /\ UNCHANGED <<clock, time, listed, checkpoint, failures, origin>>

\* The EXECUTION_RECOVERY event is written only after the last page.
Checkpoint ==
  /\ recovery.at = "complete"
  /\ checkpoint' = recovery.end
  /\ origin' = IF checkpoint = Unset THEN recovery.start ELSE origin
  /\ recovery' = Idle
  /\ UNCHANGED <<clock, time, listed, journal, failures>>

\* A request fails, a row is refused, the cursor repeats, the database fails
\* part of the way through a page, or the process dies.
Raise ==
  /\ recovery # Idle /\ failures > 0
  /\ \E rows \in SUBSET (IF recovery.at = "paging" THEN Remaining ELSE {}) :
       /\ Cardinality(rows) <= PageSize
       /\ journal' = journal \union rows
  /\ recovery' = Idle
  /\ failures' = failures - 1
  /\ UNCHANGED <<clock, time, listed, checkpoint, origin>>

\* More pages are left than one recovery reads: it raises, whatever it has
\* journaled, and the next one starts from the same checkpoint.
BoundExceeded ==
  /\ recovery.at = "paging" /\ recovery.pages = MaxPages
  /\ recovery' = Idle
  /\ UNCHANGED <<clock, time, listed, journal, checkpoint, failures, origin>>

-----------------------------------------------------------------------------
(* The specification *)

\* No time is covered before the first checkpoint.
Uncovered == Skew - Overlap - 1

Init ==
  /\ clock = 0
  /\ time = [e \in Executions |-> Never]
  /\ listed = {} /\ journal = {}
  /\ checkpoint = Unset
  /\ recovery = Idle
  /\ failures = MaxFailures
  /\ origin = Skew - Overlap

Recover == Begin \/ Page \/ Checkpoint

Next ==
  \/ Tick \/ Recover \/ Raise \/ BoundExceeded
  \/ \E e \in Executions : Execute(e) \/ Appear(e) \/ StreamDelivers(e)

Spec == Init /\ [][Next]_vars

\* The worker recovers again and again (every 30 seconds, and after every
\* reconnect), and the exchange lists what has happened.
FairSpec ==
  /\ Spec
  /\ WF_vars(Recover) /\ WF_vars(BoundExceeded)
  /\ \A e \in Executions : WF_vars(Appear(e))

-----------------------------------------------------------------------------
(* Properties *)

\* The times each variable may take, and the shape of a recovery under way.
TypeOK ==
  /\ clock \in Nat
  /\ time \in [Executions -> Int \union {Never}]
  /\ listed \subseteq {e \in Executions : Happened(e)}
  /\ journal \subseteq {e \in Executions : Happened(e)}
  /\ checkpoint \in Int \union {Unset}
  /\ \/ recovery = Idle
     \/ recovery \in [at : {"paging", "complete"}, start : Int, end : Int,
                      served : SUBSET Executions, pages : Nat]
  /\ failures \in Nat /\ origin \in Int

\* The time up to which history is accounted for.
Mark == IF checkpoint = Unset THEN Uncovered ELSE checkpoint - Overlap

Ledger == INSTANCE ExecutionLedger WITH mark <- Mark

\* Windows, pages, failures and late listings together keep the promise of the
\* ledger: a checkpoint never moves past an execution that is not journaled
\* (execution_recovery.py:15).
KeepsLedger == Ledger!Spec

\* An execution outside every later window, or in one with more rows than a
\* recovery reads.
OutOfReach(e) ==
  \/ GapExceeded(Now)
  \/ Happened(e) /\ time[e] < (IF checkpoint = Unset THEN Now - Week ELSE origin)
  \/ Cardinality({x \in Executions : Happened(x) /\ Start(Now) <= time[x]})
       > PageSize * MaxPages

\* Every execution is journaled in the end, or can never be: the gap has grown
\* beyond the window, or the rows beyond the bound, and a human is needed.
EveryExecutionJournaled ==
  \A e \in Executions : Happened(e) ~> e \in journal \/ OutOfReach(e)
=============================================================================
