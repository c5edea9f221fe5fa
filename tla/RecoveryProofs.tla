---------------------------- MODULE RecoveryProofs ----------------------------
(***************************************************************************)
(* For every window, overlap, page size and bound, every set of executions *)
(* and every listing delay and clock skew that the overlap makes good: the *)
(* recovery implements the ledger.  The mark is the latest checkpoint less *)
(* the overlap, so the argument is about windows: whatever a complete      *)
(* recovery's window holds up to its end less the overlap was listed when  *)
(* its last page was read, and two windows in a row leave no gap, because  *)
(* a recovery after too long a gap raises instead.                         *)
(***************************************************************************)
EXTENDS Recovery, TLAPS

\* A window is the one its checkpoint asks for, and begins no later than the
\* last one's end less the overlap.
WindowOK ==
  recovery # Idle =>
    /\ recovery.start = Start(recovery.end)
    /\ Skew <= recovery.end /\ recovery.end <= clock + Skew
    /\ checkpoint # Unset => /\ checkpoint <= recovery.end
                             /\ recovery.end - checkpoint <= Week - Overlap
    /\ recovery.served \subseteq journal

\* Executions carry times of the past, and old ones are in the history.
HistoryOK ==
  \A e \in Executions : Happened(e) =>
    /\ time[e] \in 0 .. clock
    /\ time[e] + Lag <= clock => e \in listed

\* After its last page a recovery has journaled its window, but for the overlap.
SweptOK ==
  recovery.at = "complete" =>
    Ledger!Complete(recovery.start, recovery.end - Overlap)

\* From the first window's start to the mark nothing is missing.
CoveredOK ==
  IF checkpoint = Unset THEN origin = Skew - Overlap
  ELSE /\ checkpoint <= clock + Skew
       /\ origin <= checkpoint - Overlap
       /\ Ledger!Complete(origin, checkpoint - Overlap)

Inv == TypeOK /\ WindowOK /\ HistoryOK /\ SweptOK /\ CoveredOK

USE RecoveryAssumption DEF Happened, Now

\* The numbers among the constants.
LEMMA Numbers ==
  /\ Week \in Nat /\ Overlap \in Nat /\ Lag \in Nat /\ Skew \in Int
  /\ 0 < Lag /\ Lag + Skew <= Overlap /\ Overlap <= Week
  OBVIOUS

-----------------------------------------------------------------------------
(* The inductive invariant *)

\* Initially nothing has happened.
LEMMA InvInit == Init => Inv
  BY DEF Init, Inv, TypeOK, WindowOK, HistoryOK, SweptOK, CoveredOK, Idle

\* Every action keeps the variables in their sets.
LEMMA TypeStep == ASSUME TypeOK, [Next]_vars PROVE TypeOK'
<1> USE DEF TypeOK
<1>1. CASE Tick \/ UNCHANGED vars
  BY <1>1 DEF Tick, vars, Idle
<1>2. ASSUME NEW e \in Executions, Execute(e) \/ Appear(e) \/ StreamDelivers(e)
      PROVE  TypeOK'
  BY <1>2 DEF Execute, Appear, StreamDelivers, Idle
<1>3. CASE Begin
  BY <1>3 DEF Begin, Start, MaxOf, Idle
<1>4. CASE Page
  <2>1. recovery \in [at : {"paging", "complete"}, start : Int, end : Int,
                     served : SUBSET Executions, pages : Nat]
    BY <1>4 DEF Page, Idle
  <2>2. PICK page \in Pages :
          /\ journal' = journal \union page
          /\ recovery' = [recovery EXCEPT !.served = @ \union page, !.pages = @ + 1,
               !.at = IF page = Remaining THEN "complete" ELSE "paging"]
    BY <1>4 DEF Page
  <2>3. page \subseteq {e \in Executions : Happened(e)}
    BY DEF Pages, Remaining
  <2>4. recovery' \in [at : {"paging", "complete"}, start : Int, end : Int,
                      served : SUBSET Executions, pages : Nat]
    <3> DEFINE next == IF page = Remaining THEN "complete" ELSE "paging"
    <3>1. /\ next \in {"paging", "complete"}
          /\ recovery.served \union page \in SUBSET Executions
          /\ recovery.pages + 1 \in Nat
      BY <2>1, <2>3
    <3>2. recovery' = [recovery EXCEPT !.served = @ \union page, !.pages = @ + 1,
                                       !.at = next]
      BY <2>2
    <3> HIDE DEF next
    <3>3. QED BY ONLY <2>1, <3>1, <3>2
  <2>5. journal' \subseteq {e \in Executions : Happened(e)}
    BY <2>2, <2>3
  <2>6. QED BY <1>4, <2>4, <2>5 DEF Page
<1>5. CASE Checkpoint
  BY <1>5 DEF Checkpoint, Idle
<1>6. CASE Raise
  BY <1>6 DEF Raise, Remaining, Idle
<1>7. CASE BoundExceeded
  BY <1>7 DEF BoundExceeded, Idle
<1>8. QED BY <1>1, <1>2, <1>3, <1>4, <1>5, <1>6, <1>7 DEF Next, Recover

\* What the exchange does between two steps of a recovery.
LEMMA HistoryStep == ASSUME Inv, [Next]_vars PROVE HistoryOK'
<1> USE DEF Inv, TypeOK, HistoryOK
<1>1. CASE Tick
  BY <1>1 DEF Tick
<1>2. ASSUME NEW e \in Executions, Execute(e)
      PROVE  HistoryOK'
  BY <1>2 DEF Execute
<1>3. ASSUME NEW e \in Executions, Appear(e)
      PROVE  HistoryOK'
  BY <1>3 DEF Appear
<1>4. CASE UNCHANGED <<clock, time, listed>>
  BY <1>4
<1>5. QED
  BY <1>1, <1>2, <1>3, <1>4
  DEF Next, Recover, Begin, Page, Checkpoint, Raise, BoundExceeded, StreamDelivers, vars

\* A page changes neither the window nor what has been served of it before.
LEMMA PageRecovery ==
  ASSUME TypeOK, Page
  PROVE  /\ recovery # Idle /\ recovery' # Idle
         /\ recovery'.start = recovery.start /\ recovery'.end = recovery.end
         /\ \E page \in Pages : /\ recovery'.served = recovery.served \union page
                                /\ journal' = journal \union page
                                /\ recovery'.at = "complete" => page = Remaining
<1>1. recovery \in [at : {"paging", "complete"}, start : Int, end : Int,
                    served : SUBSET Executions, pages : Nat]
  BY DEF Page, TypeOK, Idle
<1>2. PICK page \in Pages :
        /\ journal' = journal \union page
        /\ recovery' = [recovery EXCEPT !.served = @ \union page, !.pages = @ + 1,
             !.at = IF page = Remaining THEN "complete" ELSE "paging"]
  BY DEF Page
<1> DEFINE next == IF page = Remaining THEN "complete" ELSE "paging"
<1>3. next \in {"paging", "complete"} /\ (next = "complete" => page = Remaining)
  OBVIOUS
<1>4. recovery' = [recovery EXCEPT !.served = @ \union page, !.pages = @ + 1,
                                   !.at = next]
  BY <1>2
<1> HIDE DEF next
<1>5. /\ recovery'.at = next /\ recovery'.served = recovery.served \union page
      /\ recovery'.start = recovery.start /\ recovery'.end = recovery.end
  BY ONLY <1>1, <1>4
<1>6. recovery # Idle /\ recovery' # Idle
  <2>1. recovery.at = "paging" /\ recovery'.at \in {"paging", "complete"}
    BY <1>3, <1>5 DEF Page
  <2>2. Idle.at = "idle"
    BY DEF Idle
  <2>3. QED BY ONLY <2>1, <2>2
<1>7. QED BY <1>2, <1>3, <1>5, <1>6

\* A window keeps its bounds while the clock runs on, and what it has served.
LEMMA WindowStep == ASSUME Inv, [Next]_vars PROVE WindowOK'
<1> USE DEF Inv, TypeOK, WindowOK, Idle
<1>1. CASE Begin
  <2>1. /\ recovery'.start = Start(Now) /\ recovery'.end = clock + Skew
        /\ recovery'.served = {} /\ clock' = clock /\ checkpoint' = checkpoint
    BY <1>1 DEF Begin
  <2>2. checkpoint # Unset => checkpoint <= clock + Skew
    BY DEF CoveredOK
  <2>3. checkpoint # Unset => clock + Skew - checkpoint <= Week - Overlap
    BY <1>1 DEF Begin, GapExceeded
  <2>4. QED BY <2>1, <2>2, <2>3 DEF Start
<1>2. CASE Page
  BY <1>2, PageRecovery DEF Page, Start
<1>3. CASE Tick \/ UNCHANGED vars
  BY <1>3 DEF Tick, vars, Start
<1>4. ASSUME NEW e \in Executions, Execute(e) \/ Appear(e) \/ StreamDelivers(e)
      PROVE  WindowOK'
  BY <1>4 DEF Execute, Appear, StreamDelivers, Start
<1>5. CASE Checkpoint \/ Raise \/ BoundExceeded
  BY <1>5 DEF Checkpoint, Raise, BoundExceeded
<1>6. QED BY <1>1, <1>2, <1>3, <1>4, <1>5 DEF Next, Recover

\* No action that leaves the windows alone takes a row from the journal, or adds
\* an execution to a time already covered.
LEMMA CompleteKept ==
  ASSUME HistoryOK, clock \in Nat, NEW from \in Int, NEW to \in Int, to < clock,
         Ledger!Complete(from, to),
         journal \subseteq journal',
         \A e \in Executions : time'[e] = time[e] \/ time'[e] = clock
  PROVE  \A e \in Executions :
           time'[e] # Never /\ from <= time'[e] /\ time'[e] <= to => e \in journal'
  BY DEF Ledger!Complete

\* What every step but Begin and Checkpoint does to the ledger's variables.
LEMMA JournalGrows ==
  ASSUME Inv, [Next]_vars
  PROVE  /\ journal \subseteq journal'
         /\ \A e \in Executions : time'[e] = time[e] \/ time'[e] = clock
<1> USE DEF Inv, TypeOK
<1>1. ASSUME NEW e \in Executions, Execute(e)
      PROVE  /\ journal \subseteq journal'
             /\ \A x \in Executions : time'[x] = time[x] \/ time'[x] = clock
  BY <1>1 DEF Execute
<1>2. CASE time' = time /\ journal \subseteq journal'
  BY <1>2
<1>3. QED
  BY <1>1, <1>2
  DEF Next, Recover, Begin, Page, Checkpoint, Raise, BoundExceeded, StreamDelivers,
      Tick, Appear, vars

\* The last page has journaled what was listed of the window; the clock has moved
\* on since the window was chosen, so that all but its end was.
LEMMA SweptStep == ASSUME Inv, [Next]_vars PROVE SweptOK'
<1> USE DEF Inv, TypeOK
<1> SUFFICES ASSUME recovery'.at = "complete",
                    NEW e \in Executions, time'[e] # Never,
                    recovery'.start <= time'[e], time'[e] <= recovery'.end - Overlap
             PROVE  e \in journal'
  BY DEF SweptOK, Ledger!Complete
<1>1. CASE Page
  <2>1. PICK page \in Pages :
          /\ journal' = journal \union page
          /\ page = Remaining /\ recovery # Idle
          /\ recovery'.start = recovery.start /\ recovery'.end = recovery.end
    BY <1>1, PageRecovery
  <2>2. time' = time /\ recovery.start \in Int /\ recovery.end \in Int
    BY <1>1, <2>1 DEF Page
  <2>3. time[e] \in Int /\ time[e] + Lag <= clock
    BY <2>1, <2>2 DEF WindowOK, HistoryOK
  <2>4. e \in listed
    BY <2>2, <2>3 DEF HistoryOK
  <2>5. e \in recovery.served \/ e \in Remaining
    BY <2>1, <2>2, <2>3, <2>4 DEF Remaining
  <2>6. QED BY <2>1, <2>5 DEF WindowOK
<1>2. ASSUME recovery' = recovery PROVE e \in journal'
  <2>1. recovery # Idle
    BY <1>2 DEF Idle
  <2>2. /\ recovery.start \in Int /\ recovery.end - Overlap \in Int
        /\ recovery.end - Overlap < clock
    BY <2>1 DEF WindowOK
  <2>3. Ledger!Complete(recovery.start, recovery.end - Overlap)
    BY <1>2 DEF SweptOK
  <2>4. QED BY <1>2, <2>2, <2>3, JournalGrows, CompleteKept
<1>3. CASE Begin
  BY <1>3 DEF Begin
<1>4. CASE recovery' = Idle
  BY <1>4 DEF Idle
<1>5. QED
  BY <1>1, <1>2, <1>3, <1>4
  DEF Next, Recover, Checkpoint, Raise, BoundExceeded, Tick, Execute, Appear,
      StreamDelivers, vars

\* A checkpoint joins the window of its recovery to what was covered.
LEMMA JoinedWindows ==
  ASSUME Inv, Checkpoint
  PROVE  /\ origin' \in Int /\ origin' <= recovery.end - Overlap
         /\ checkpoint # Unset => origin' = origin
         /\ Ledger!Complete(origin', recovery.end - Overlap)
<1> USE DEF Inv, TypeOK
<1>1. /\ recovery # Idle /\ recovery.start = Start(recovery.end)
      /\ recovery.start \in Int /\ recovery.end \in Int
  BY DEF Checkpoint, WindowOK, Idle
<1>2. Ledger!Complete(recovery.start, recovery.end - Overlap)
  BY DEF Checkpoint, SweptOK
<1>3. CASE checkpoint = Unset
  BY <1>1, <1>2, <1>3 DEF Checkpoint, Start
<1>4. CASE checkpoint # Unset
  <2>1. /\ checkpoint \in Int /\ origin' = origin
        /\ checkpoint <= recovery.end /\ recovery.end - checkpoint <= Week - Overlap
    BY <1>1, <1>4 DEF WindowOK, Checkpoint
  <2>2. recovery.start = checkpoint - Overlap
    BY <1>1, <1>4, <2>1 DEF Start, MaxOf
  <2>3. origin <= checkpoint - Overlap /\ Ledger!Complete(origin, checkpoint - Overlap)
    BY <1>4 DEF CoveredOK
  <2>4. Ledger!Complete(origin, recovery.end - Overlap)
    BY <1>2, <2>1, <2>2, <2>3 DEF Ledger!Complete, HistoryOK
  <2>5. origin \in Int /\ origin <= recovery.end - Overlap
    BY ONLY Numbers, <1>1, <2>1, <2>3, TypeOK DEF TypeOK
  <2>6. QED BY ONLY <1>4, <2>1, <2>4, <2>5
<1>5. QED BY <1>3, <1>4

\* The mark moves only with a checkpoint.
LEMMA CoveredStep == ASSUME Inv, [Next]_vars PROVE CoveredOK'
<1> USE DEF Inv, TypeOK
<1>1. CASE Checkpoint
  <2>1. /\ checkpoint' = recovery.end /\ checkpoint' # Unset
        /\ checkpoint' <= clock' + Skew
        /\ time' = time /\ journal' = journal
    BY <1>1 DEF Checkpoint, WindowOK, Idle
  <2>2. QED BY <1>1, <2>1, JoinedWindows DEF CoveredOK, Ledger!Complete
<1>2. ASSUME checkpoint' = checkpoint, origin' = origin,
             clock' = clock \/ clock' = clock + 1
      PROVE  CoveredOK'
  <2>1. CASE checkpoint = Unset
    BY <1>2, <2>1 DEF CoveredOK
  <2>2. CASE checkpoint # Unset
    <3>1. /\ checkpoint \in Int /\ checkpoint <= clock + Skew
          /\ origin <= checkpoint - Overlap
      BY <2>2 DEF CoveredOK
    <3>2. /\ checkpoint - Overlap \in Int /\ checkpoint - Overlap < clock
          /\ checkpoint <= clock' + Skew
      BY <1>2, <3>1, Numbers
    <3>3. \A e \in Executions :
            time'[e] # Never /\ origin <= time'[e] /\ time'[e] <= checkpoint - Overlap
              => e \in journal'
      BY <2>2, <3>2, JournalGrows, CompleteKept DEF CoveredOK
    <3>4. QED BY <1>2, <2>2, <3>1, <3>2, <3>3 DEF CoveredOK, Ledger!Complete
  <2>3. QED BY <2>1, <2>2
<1>3. Checkpoint \/ (checkpoint' = checkpoint /\ origin' = origin)
  BY DEF Next, Recover, Begin, Page, Raise, BoundExceeded, Tick, Execute, Appear,
         StreamDelivers, vars
<1>4. clock' = clock \/ clock' = clock + 1
  BY DEF Next, Recover, Begin, Page, Checkpoint, Raise, BoundExceeded, Tick, Execute,
         Appear, StreamDelivers, vars
<1>5. QED BY <1>1, <1>2, <1>3, <1>4

\* All parts of the invariant together.
LEMMA InvStep == Inv /\ [Next]_vars => Inv'
  BY TypeStep, WindowStep, HistoryStep, SweptStep, CoveredStep DEF Inv

\* The recovery's variables are well formed and its windows sound, at any time
\* (execution_recovery.py).
THEOREM RecoveryTyped == Spec => []TypeOK
<1>1. Init => Inv
  BY InvInit
<1>2. Inv /\ [Next]_vars => Inv'
  BY InvStep
<1>3. Inv => TypeOK
  BY DEF Inv
<1>4. QED BY <1>1, <1>2, <1>3, PTL DEF Spec

-----------------------------------------------------------------------------
(* The refinement *)

\* The mark lies before everything that may still happen, and only a checkpoint
\* moves it.
LEMMA MarkPast == ASSUME Inv PROVE Mark \in Int /\ Mark < clock
  BY DEF Inv, TypeOK, CoveredOK, Mark, Uncovered

\* Before the first checkpoint nothing is accounted for.
LEMMA LedgerInit == Init => Ledger!Init
  BY DEF Init, Ledger!Init, Mark, Uncovered

\* Executions, records and checkpoints are steps of the ledger, and the rest
\* leaves it alone.
LEMMA LedgerStep == Inv /\ [Next]_vars => [Ledger!Next]_(Ledger!vars)
<1> SUFFICES ASSUME Inv, [Next]_vars PROVE [Ledger!Next]_(Ledger!vars)
  OBVIOUS
<1> USE DEF Inv, TypeOK
<1>1. ASSUME NEW e \in Executions, Execute(e)
      PROVE  Ledger!Happen
  <2>1. time'[e] = clock /\ Mark' = Mark
    BY <1>1 DEF Execute, Mark
  <2>2. time' = [time EXCEPT ![e] = time'[e]] /\ time[e] = Never
    BY <1>1, <2>1 DEF Execute
  <2>3. time'[e] \in Int /\ Mark < time'[e]
    BY <2>1, MarkPast
  <2>4. UNCHANGED <<journal, origin>>
    BY <1>1 DEF Execute
  <2>5. QED BY ONLY <2>1, <2>2, <2>3, <2>4 DEF Ledger!Happen
<1>2. CASE Checkpoint
  <2>1. /\ Mark' = recovery.end - Overlap /\ recovery.end \in Int /\ Skew <= recovery.end
        /\ checkpoint # Unset => checkpoint <= recovery.end
    BY <1>2 DEF Checkpoint, WindowOK, Mark, Idle
  <2>2. Mark \in Int /\ Mark <= Mark'
    BY <2>1 DEF Mark, Uncovered
  <2>3. Mark < origin \/ origin' = origin
    BY <1>2, JoinedWindows DEF CoveredOK, Mark, Uncovered
  <2>4. origin' \in Int /\ Ledger!Complete(origin', recovery.end - Overlap)
    BY <1>2, JoinedWindows
  <2>5. Mark' \in Int /\ UNCHANGED <<time, journal>>
    BY <1>2, <2>1 DEF Checkpoint
  <2>6. QED BY ONLY <2>1, <2>2, <2>3, <2>4, <2>5 DEF Ledger!Advance, Ledger!Next
<1>3. ASSUME UNCHANGED <<time, checkpoint, origin>>, TypeOK',
             journal \subseteq journal'
      PROVE  Ledger!Record
  BY <1>3 DEF Ledger!Record, Mark
<1>4. QED
  BY <1>1, <1>2, <1>3, TypeStep
  DEF Next, Recover, Begin, Page, Raise, BoundExceeded, Tick, Appear,
      StreamDelivers, vars, Ledger!Next

\* A checkpoint never moves past an execution that is not journaled, whatever
\* the windows, pages, failures and late listings: the recovery implements the
\* ledger (execution_recovery.py:15).
THEOREM LedgerKept == Spec => KeepsLedger
<1>1. Init => Inv /\ Ledger!Init
  BY InvInit, LedgerInit
<1>2. Inv /\ [Next]_vars => Inv' /\ [Ledger!Next]_(Ledger!vars)
  BY InvStep, LedgerStep
<1>3. QED BY <1>1, <1>2, PTL DEF Spec, KeepsLedger, Ledger!Spec

===============================================================================
