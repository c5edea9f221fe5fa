------------------------------- MODULE Alerts -------------------------------
(***************************************************************************)
(* The alert dispatcher of one process and the alert table of one symbol   *)
(* (botdca/alerts.py, botdca/persistence.py).  A condition is emitted once *)
(* per persistent state: the dispatcher remembers the key of what it has   *)
(* emitted for a cooldown, and the table keeps the alert open until its    *)
(* condition is cleared or the operator acknowledges it.                   *)
(*                                                                         *)
(* Only critical alerts count as open, so only they are here; an alert is  *)
(* a condition and the basket it was raised for.  The newest 200 rows that *)
(* the readiness report looks at are taken to hold every open alert.       *)
(***************************************************************************)
EXTENDS Naturals

\* Baskets are numbered in the order they open; no cycle id is written "-".
NoBasket == 0

Conditions == {"disconnected", "crashed", "unprotected"}

\* Why a condition may hold without an open row: the table did not keep it, the
\* operator acknowledged it, or a key without a row suppressed it.
Reasons == {"lost", "acknowledged", "suppressed"}

VARIABLES
  keys,   \* _last_emitted: alerts emitted less than a cooldown ago
  open,   \* rows neither resolved nor acknowledged
  silent, \* observation: conditions without a row, and the reason
  stale   \* observation: keys whose rows were resolved without them

alertVars == <<keys, open, silent, stale>>

Key(condition, basket) == <<condition, basket>>

Shown(condition) == \E k \in open : k[1] = condition

\* AlertDispatcher.dispatch: an alert still within its cooldown is suppressed;
\* otherwise the key is taken and every sink gets it.  The table may fail to
\* keep the row: sinks never break the trading loop, and the key stays taken.
Dispatch(condition, basket, stored) ==
  LET k == Key(condition, basket) IN
  IF k \in keys
  THEN /\ UNCHANGED <<keys, open, stale>>
       /\ silent' = IF k \in stale THEN silent \union {<<condition, "suppressed">>}
                    ELSE silent
  ELSE /\ keys' = keys \union {k}
       /\ open' = IF stored THEN open \union {k} ELSE open
       /\ silent' = IF stored THEN silent \ ({condition} \X Reasons)
                    ELSE silent \union {<<condition, "lost">>}
       /\ stale' = stale

\* Mutant: the rows are resolved and the key is forgotten about.
ClearRowsOnly(conditions, basket, stored) ==
  /\ open' = IF stored THEN {k \in open : k[1] \notin conditions} ELSE open
  /\ UNCHANGED <<keys, silent, stale>>

\* Mutant: without a basket, as if every cycle were meant.
ClearEveryBasket(conditions, basket, stored) ==
  /\ keys' = keys \ {Key(c, NoBasket) : c \in conditions}
  /\ open' = IF stored THEN {k \in open : k[1] \notin conditions} ELSE open
  /\ UNCHANGED <<silent, stale>>

\* AlertDispatcher.clear, for each of the conditions: the key of exactly this
\* basket is forgotten and its rows are resolved; without a basket the rows of
\* every basket are, but still only the key without one is forgotten.
Clear(conditions, basket, stored) ==
  LET cleared == {Key(c, basket) : c \in conditions}
      covered(k) == k[1] \in conditions /\ basket \in {NoBasket, k[2]}
  IN  /\ keys' = keys \ cleared
      /\ open' = IF stored THEN {k \in open : ~covered(k)} ELSE open
      /\ stale' = {k \in keys' : covered(k)} \union (stale \ cleared)
      /\ silent' = silent

\* The cooldowns end, of all keys at once: each property is about one condition.
Expire ==
  /\ keys # {}
  /\ keys' = {} /\ stale' = {}
  /\ UNCHANGED <<open, silent>>

\* acknowledge_alerts: the operator acknowledges a symbol's alerts, all of them
\* or those of some conditions.
Acknowledge(conditions) ==
  LET acknowledged == {k \in open : k[1] \in conditions} IN
  /\ acknowledged # {}
  /\ open' = open \ acknowledged
  /\ silent' = silent \union {<<k[1], "acknowledged">> : k \in acknowledged}
  /\ UNCHANGED <<keys, stale>>

\* Mutant: the memory of one process outlives it.
KeepKeys == UNCHANGED alertVars

\* The process ends: its memory is gone, the table is not.
Forget == /\ keys' = {} /\ stale' = {}
          /\ UNCHANGED <<open, silent>>
=============================================================================
