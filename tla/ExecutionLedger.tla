--------------------------- MODULE ExecutionLedger ---------------------------
(***************************************************************************)
(* What the recovery of executions promises, without windows, pages or     *)
(* checkpoints: a mark that moves forward only over history which is       *)
(* completely journaled, and a journal that loses nothing.                 *)
(***************************************************************************)
EXTENDS Integers

CONSTANTS
  Executions, \* what the exchange executes for one symbol
  Never       \* the time of an execution that has not happened

VARIABLES
  time,    \* when each execution happened
  journal, \* the executions the bot has persisted
  origin,  \* where the history the bot accounts for starts
  mark     \* from the origin to here nothing is missing

vars == <<time, journal, origin, mark>>

Complete(from, to) ==
  \A e \in Executions :
    time[e] # Never /\ from <= time[e] /\ time[e] <= to => e \in journal

Init ==
  /\ time = [e \in Executions |-> Never]
  /\ journal = {}
  /\ origin \in Int /\ mark \in Int /\ mark < origin

\* An execution happens after what has been accounted for.
Happen == \E e \in Executions :
  /\ time[e] = Never /\ time'[e] \in Int /\ mark < time'[e]
  /\ time' = [time EXCEPT ![e] = time'[e]]
  /\ UNCHANGED <<journal, origin, mark>>

Record ==
  /\ journal \subseteq journal'
  /\ \A e \in journal' : e \in Executions /\ time[e] # Never
  /\ UNCHANGED <<time, origin, mark>>

\* The first advance also fixes the origin.
Advance ==
  /\ mark' \in Int /\ mark <= mark'
  /\ origin' \in Int /\ (mark < origin \/ origin' = origin)
  /\ Complete(origin', mark')
  /\ UNCHANGED <<time, journal>>

Next == Happen \/ Record \/ Advance

Spec == Init /\ [][Next]_vars
=============================================================================
