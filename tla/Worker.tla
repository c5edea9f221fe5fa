------------------------------- MODULE Worker -------------------------------
(***************************************************************************)
(* One symbol's live worker (botdca/worker.py): its thread, the private    *)
(* stream it restarts, the recovery it orders, the alerts it raises and    *)
(* clears, the deployment that starts and stops it (botdca/live_runtime.py)*)
(* and the database lease that keeps other processes out                   *)
(* (botdca/database.py).  A sync is reduced to what the worker and the     *)
(* alerts see of it; LiveService has the rest.                             *)
(***************************************************************************)
EXTENDS Alerts, FiniteSets

CONSTANTS
  MaxBaskets, \* bound: baskets that open
  MaxFaults,  \* bound: calls and writes that fail
  MaxEvents   \* bound: starts, disconnects, failed messages, lost take profits,
              \* exits too many and lost sessions, together

ASSUME WorkerAssumption ==
  {MaxBaskets, MaxFaults, MaxEvents} \subseteq Nat

VARIABLES
  \* the process
  main,      \* where the lifespan of the API is with this deployment
  lease,     \* who holds the advisory lock: "free", "ours", "rival"
  sessionLost, \* observation: the lock's database session broke
  \* the worker object
  pc,        \* where the worker thread is
  websocket, \* the private stream: "none", "connected", "dropped"
  failed,    \* failed_messages > _seen_stream_failures
  alerted,   \* _stream_alerted
  lastRecovery, \* _last_recovery_at: "never", "recent", "due" after 30 seconds
  forced,    \* reconnected, in this run_once
  error,     \* last_error is set
  cycle,     \* strategy.current_cycle
  \* the exchange
  basket,    \* the position's basket
  opened,    \* baskets opened so far
  protected, \* a valid take profit rests
  \* observations
  gap,       \* executions the stream may have missed: "none", "new", "noticed"
  skipped,   \* why a noticed gap may be left open: a call failed, or the stream
             \* dropped between two reads
  orphan,    \* the disconnect alert is open and nothing will clear it
  lossSeen,  \* the last sync could not repair lost protection
  budget     \* what the environment may still do

processVars == <<main, lease, sessionLost>>
streamVars == <<websocket, failed>>
loopVars == <<alerted, lastRecovery, forced>>
exchangeVars == <<basket, opened, protected>>
gapVars == <<gap, skipped>>

vars == <<alertVars, processVars, pc, streamVars, loopVars, error,
          cycle, exchangeVars, gapVars, orphan, lossSeen, budget>>

Alive == pc \notin {"none", "ended", "dead"}

Spend(what) == /\ budget[what] > 0
               /\ budget' = [budget EXCEPT ![what] = @ - 1]

\* The alert table keeps the change, or a sink fails.
Stored(stored) == \/ stored /\ UNCHANGED budget
                  \/ ~stored /\ Spend("faults")

-----------------------------------------------------------------------------
(* run_once *)

\* stop sets the event before it waits for the thread.
stopSet == main = "joining"

\* The loop tests _stop before every run.
Wake ==
  /\ pc = "wait"
  /\ pc' = IF stopSet THEN "ended" ELSE "check"
  /\ forced' = FALSE
  /\ UNCHANGED <<alertVars, processVars, streamVars, alerted, lastRecovery,
                 error, cycle, exchangeVars, gapVars, orphan, lossSeen, budget>>

Notice == gap' = IF gap = "new" THEN "noticed" ELSE gap

\* run_once asks the stream twice.  The first answer is what a reconnect is
\* known by: reconnected.
ReadConnected ==
  /\ pc = "check" /\ pc' = "branch"
  /\ forced' = (websocket # "connected")
  /\ IF forced' THEN Notice ELSE UNCHANGED gap
  /\ UNCHANGED <<alertVars, processVars, streamVars, alerted, lastRecovery, error,
                 cycle, exchangeVars, skipped, orphan, lossSeen, budget>>

\* The second answer decides.  The stream is down: raise the alert and go on to
\* reconnect, which forces no recovery when the first answer was another.
FindDisconnected ==
  /\ pc = "branch" /\ websocket # "connected"
  /\ \E stored \in BOOLEAN : Dispatch("disconnected", cycle, stored) /\ Stored(stored)
  /\ pc' = "restart"
  /\ Notice
  /\ skipped' = (skipped \/ (~forced /\ gap' = "noticed" /\ lastRecovery = "recent"))
  /\ UNCHANGED <<processVars, streamVars, loopVars, error, cycle, exchangeVars,
                 orphan, lossSeen>>

\* The stream is up: clear the alert, if this worker raised one.
FindConnected ==
  /\ pc = "branch" /\ websocket = "connected"
  /\ IF alerted
     THEN \E stored \in BOOLEAN :
            /\ Clear({"disconnected"}, NoBasket, stored) /\ Stored(stored)
            /\ orphan' = ~stored
     ELSE UNCHANGED <<alertVars, orphan, budget>>
  /\ alerted' = FALSE
  /\ pc' = "messages"
  /\ UNCHANGED <<processVars, streamVars, lastRecovery, forced, error,
                 cycle, exchangeVars, gapVars, lossSeen>>

\* stream.stop(), stream.start().
Restart ==
  /\ pc = "restart"
  /\ \/ websocket' = "connected" /\ pc' = "record" /\ UNCHANGED budget
     \/ websocket' = "none" /\ pc' = "handler" /\ Spend("faults")
  /\ UNCHANGED <<alertVars, processVars, failed, loopVars, error, cycle,
                 exchangeVars, gapVars, orphan, lossSeen>>

\* A noticed gap stays open although the next run finds the stream up: the
\* recovery before this one is less than 30 seconds old.
Skip == skipped' = (skipped \/ (gap = "noticed" /\ lastRecovery = "recent"))

\* Mutant: the disconnect is never known to have been alerted.
RecordWithoutFlag ==
  /\ pc = "record"
  /\ pc' = "messages" /\ UNCHANGED <<alerted, skipped, budget>>
  /\ UNCHANGED <<alertVars, processVars, streamVars, lastRecovery, forced,
                 error, cycle, exchangeVars, gap, orphan, lossSeen>>

\* The LIVE_STREAM_RECONNECTED event; only then is the alert known to be open.
RecordReconnect ==
  /\ pc = "record"
  /\ \/ /\ pc' = "messages" /\ alerted' = TRUE /\ orphan' = FALSE
        /\ UNCHANGED <<skipped, budget>>
     \/ /\ pc' = "handler" /\ orphan' = (orphan \/ ~alerted)
        /\ Skip /\ Spend("faults") /\ UNCHANGED alerted
  /\ UNCHANGED <<alertVars, processVars, streamVars, lastRecovery, forced,
                 error, cycle, exchangeVars, gap, lossSeen>>

\* Mutant: a message the stream could not process does not force a recovery.
RecoveryDueByTime(missed) == forced \/ lastRecovery # "recent"

\* Mutant: recovery at startup and after a disconnect only.
RecoveryDueOnce(missed) == forced \/ lastRecovery = "never"

RecoveryDue(missed) == forced \/ missed \/ lastRecovery # "recent"

\* Failed messages are taken for seen before they are recovered.  Their alert
\* is a warning.
CheckMessages ==
  /\ pc = "messages"
  /\ failed' = FALSE /\ forced' = FALSE
  /\ IF failed THEN Notice ELSE UNCHANGED gap
  /\ pc' = IF RecoveryDue(failed) THEN "recover" ELSE "sync"
  /\ UNCHANGED <<alertVars, processVars, websocket, alerted, lastRecovery,
                 error, cycle, exchangeVars, skipped, orphan, lossSeen, budget>>

\* execution_recovery(); what the stream misses later is another gap.
RunRecovery ==
  /\ pc = "recover"
  /\ \/ /\ pc' = "sync" /\ lastRecovery' = "recent"
        /\ gap' = (IF websocket = "connected" THEN "none" ELSE "new")
        /\ skipped' = FALSE
        /\ UNCHANGED budget
     \/ /\ pc' = "handler"
        /\ Skip /\ Spend("faults")
        /\ UNCHANGED <<lastRecovery, gap>>
  /\ UNCHANGED <<alertVars, processVars, streamVars, alerted, forced, error,
                 cycle, exchangeVars, orphan, lossSeen>>

-----------------------------------------------------------------------------
(* service.sync, as far as alerts go *)

\* _sync_flat_position: the condition does not hold without a position.
SeeFlat(stored) ==
  /\ Clear({"unprotected"}, NoBasket, stored)
  /\ cycle' = NoBasket /\ lossSeen' = FALSE

\* The position is read; an open one is reconciled with the journal, which may
\* lack executions while a gap is open: then the sync ends and waits.
Sync ==
  /\ pc = "sync"
  /\ \/ /\ basket = NoBasket
        /\ \E stored \in BOOLEAN : Stored(stored) /\ SeeFlat(stored)
        /\ pc' = "journal"
     \/ /\ basket # NoBasket /\ gap # "none"
        /\ pc' = "journal" /\ UNCHANGED <<alertVars, cycle, orphan, lossSeen, budget>>
     \/ /\ basket # NoBasket
        /\ cycle' = basket /\ pc' = "protect"
        /\ UNCHANGED <<alertVars, orphan, lossSeen, budget>>
     \/ Spend("faults") /\ pc' = "handler" /\ UNCHANGED <<alertVars, cycle, orphan, lossSeen>>
  /\ UNCHANGED <<processVars, streamVars, loopVars, error, exchangeVars,
                 gapVars, orphan>>

\* The take profit is checked, and placed when it is missing; a loss that could
\* not be repaired pages a human before the sync fails.  Several exits, or one
\* that does not cover the basket, page a human too, and the sync goes on.
Protect ==
  /\ pc = "protect"
  /\ \E stored \in BOOLEAN :
       \/ /\ protected /\ Stored(stored)
          /\ Clear({"unprotected"}, cycle, stored)
          /\ lossSeen' = FALSE /\ pc' = "journal"
          /\ UNCHANGED <<cycle, protected>>
       \/ /\ basket = NoBasket /\ Stored(stored)
          /\ SeeFlat(stored) /\ pc' = "journal"
          /\ UNCHANGED protected
       \/ /\ basket # NoBasket /\ ~protected /\ stored
          /\ protected' = TRUE /\ lossSeen' = FALSE /\ pc' = "journal"
          /\ UNCHANGED <<alertVars, cycle, budget>>
       \/ /\ basket # NoBasket /\ ~protected
          /\ Spend("faults") /\ Dispatch("unprotected", cycle, stored)
          /\ lossSeen' = TRUE /\ pc' = "handler"
          /\ UNCHANGED <<cycle, protected>>
       \/ /\ basket # NoBasket /\ ~protected
          /\ Spend("events") /\ Dispatch("unprotected", cycle, stored)
          /\ lossSeen' = TRUE /\ pc' = "journal"
          /\ UNCHANGED <<cycle, protected>>
  /\ UNCHANGED <<processVars, streamVars, loopVars, error, basket, opened,
                 gapVars, orphan>>

\* The LIVE_SYNC event, and the end of a successful run.
Journal ==
  /\ pc = "journal"
  /\ error' = FALSE
  /\ \/ \E stored \in BOOLEAN :
          Clear({"crashed"}, NoBasket, stored) /\ Stored(stored) /\ pc' = "wait"
     \/ Spend("faults") /\ pc' = "handler" /\ UNCHANGED alertVars
  /\ UNCHANGED <<processVars, streamVars, loopVars, cycle, exchangeVars,
                 gapVars, orphan, lossSeen>>

-----------------------------------------------------------------------------
(* The handler of _run; its pause is in LiveService *)

Handle ==
  /\ pc = "handler"
  /\ error' = TRUE
  /\ \E stored \in BOOLEAN : Dispatch("crashed", cycle, stored) /\ Stored(stored)
  /\ pc' = "report"
  /\ UNCHANGED <<processVars, streamVars, loopVars, cycle, exchangeVars,
                 gapVars, orphan, lossSeen>>

\* The LIVE_SYNC_ERROR event; when it cannot be written the thread ends.
Report ==
  /\ pc = "report"
  /\ \/ pc' = "wait" /\ UNCHANGED budget
     \/ pc' = "dead" /\ Spend("faults")
  /\ UNCHANGED <<alertVars, processVars, streamVars, loopVars, error, cycle,
                 exchangeVars, gapVars, orphan, lossSeen>>

Thread ==
  \/ Wake \/ ReadConnected \/ FindDisconnected \/ FindConnected \/ Restart
  \/ RecordReconnect \/ CheckMessages \/ RunRecovery \/ Sync \/ Protect
  \/ Journal \/ Handle \/ Report

-----------------------------------------------------------------------------
(* Deployment and lease *)

\* LiveWorkerDeployment.start: the lease first; refused, nothing is started.
AcquireLease ==
  /\ main = "down" /\ lease = "free" /\ Spend("events")
  /\ main' = "leased" /\ lease' = "ours"
  /\ UNCHANGED <<alertVars, sessionLost, pc, streamVars, loopVars, error,
                 cycle, exchangeVars, gapVars, orphan, lossSeen>>

\* LiveWorker.start: the stream, then the thread.  When the stream does not
\* start, the lease is given back and the process ends.
StartWorker ==
  /\ main = "leased"
  /\ \/ /\ main' = "up" /\ websocket' = "connected" /\ pc' = "wait"
        /\ UNCHANGED <<lease, budget>>
     \/ /\ Spend("faults")
        /\ main' = "down" /\ lease' = (IF sessionLost THEN lease ELSE "free")
        /\ UNCHANGED <<websocket, pc>>
  /\ sessionLost' = (sessionLost /\ main' # "down")
  /\ UNCHANGED <<alertVars, failed, loopVars, error, cycle, exchangeVars,
                 gapVars, orphan, lossSeen>>

\* LiveWorker.stop, at shutdown or because a later symbol's worker did not
\* start: ask, tear the stream down, wait.
AskStop ==
  /\ main = "up"
  /\ main' = "joining" /\ websocket' = "none"
  /\ UNCHANGED <<alertVars, lease, sessionLost, pc, failed, loopVars, error, cycle,
                 exchangeVars, gapVars, orphan, lossSeen, budget>>

\* The process is gone, and with it the thread, the stream and the session
\* that held the lock.  The next process starts from nothing.
ProcessEnds ==
  /\ main' = "down" /\ sessionLost' = FALSE
  /\ lease' = IF lease = "ours" THEN "free" ELSE lease
  /\ pc' = "none" /\ websocket' = "none" /\ failed' = FALSE
  /\ alerted' = FALSE /\ lastRecovery' = "never" /\ forced' = FALSE
  /\ error' = FALSE /\ cycle' = NoBasket
  /\ gap' = "new" /\ skipped' = FALSE /\ lossSeen' = FALSE
  /\ orphan' = Shown("disconnected")
  /\ Forget
  /\ UNCHANGED <<exchangeVars, budget>>

\* Mutant: the lease is released whether the thread has ended or not.
StoppedAnyway ==
  /\ main = "joining" /\ lease = "ours"
  /\ lease' = "free"
  /\ UNCHANGED <<alertVars, main, sessionLost, pc, streamVars, loopVars,
                 error, cycle, exchangeVars, gapVars, orphan, lossSeen, budget>>

\* The thread has ended in time: the lease is released.
Stopped == main = "joining" /\ ~Alive /\ ProcessEnds

\* A crash; or the thread has not ended in time: stop raises, keeps the lease,
\* leaves the other deployments alone, and the shutdown that failed ends the
\* process all the same.
Exit == main # "down" /\ ProcessEnds

\* Another process, which keeps the lease for as long as this one runs.
Rival ==
  /\ \/ lease = "free" /\ lease' = "rival"
     \/ main = "down" /\ lease = "rival" /\ lease' = "free"
  /\ UNCHANGED <<alertVars, main, sessionLost, pc, streamVars, loopVars,
                 error, cycle, exchangeVars, gapVars, orphan, lossSeen, budget>>

LoseSession ==
  /\ lease = "ours" /\ Spend("events")
  /\ lease' = "free" /\ sessionLost' = TRUE
  /\ UNCHANGED <<alertVars, main, pc, streamVars, loopVars, error, cycle,
                 exchangeVars, gapVars, orphan, lossSeen>>

-----------------------------------------------------------------------------
(* Stream, exchange, operator and time *)

Opens(new) == gap' = IF gap = "noticed" THEN gap ELSE new

\* The connection drops: executions may be missed until it is back.
Drop ==
  /\ websocket = "connected" /\ Spend("events")
  /\ websocket' = "dropped" /\ Opens("new")
  /\ UNCHANGED <<alertVars, processVars, pc, failed, loopVars, error, cycle,
                 exchangeVars, skipped, orphan, lossSeen>>

\* The websocket library reconnects before the worker looks.
Return ==
  /\ websocket = "dropped" /\ websocket' = "connected"
  /\ UNCHANGED <<alertVars, processVars, pc, failed, loopVars, error, cycle,
                 exchangeVars, gapVars, orphan, lossSeen, budget>>

\* _guarded: a message that could not be processed is counted.
MessageFails ==
  /\ websocket = "connected" /\ Spend("events")
  /\ failed' = TRUE /\ Opens("new")
  /\ UNCHANGED <<alertVars, processVars, pc, websocket, loopVars, error,
                 cycle, exchangeVars, skipped, orphan, lossSeen>>

\* An entry fills and a basket opens; not between the two steps of a sync.
OpenBasket ==
  /\ basket = NoBasket /\ opened < MaxBaskets /\ pc # "protect"
  /\ opened' = opened + 1 /\ basket' = opened + 1 /\ protected' = FALSE
  /\ UNCHANGED <<alertVars, processVars, pc, streamVars, loopVars, error,
                 cycle, gapVars, orphan, lossSeen, budget>>

CloseBasket ==
  /\ basket # NoBasket
  /\ basket' = NoBasket /\ protected' = FALSE
  /\ UNCHANGED <<alertVars, processVars, pc, streamVars, loopVars, error,
                 cycle, opened, gapVars, orphan, lossSeen, budget>>

LoseTakeProfit ==
  /\ protected /\ Spend("events")
  /\ protected' = FALSE
  /\ UNCHANGED <<alertVars, processVars, pc, streamVars, loopVars, error,
                 cycle, basket, opened, gapVars, orphan, lossSeen>>

\* Time passes between runs: a run, like a shutdown, is short against 30 seconds
\* or a cooldown.
Between == main = "up" /\ pc \in {"wait", "dead"}

\* 30 seconds since the last recovery.
Age ==
  /\ Between /\ lastRecovery = "recent" /\ lastRecovery' = "due"
  /\ UNCHANGED <<alertVars, processVars, pc, streamVars, alerted, forced,
                 error, cycle, exchangeVars, gapVars, orphan, lossSeen, budget>>

\* Cooldowns end, and the operator acknowledges what is open, while the API is up.
AlertsChange ==
  /\ Between
  /\ Expire \/ Acknowledge(Conditions)
  /\ UNCHANGED <<processVars, pc, streamVars, loopVars, error, cycle,
                 exchangeVars, gapVars, orphan, lossSeen, budget>>

Init ==
  /\ keys = {} /\ open = {} /\ silent = {} /\ stale = {}
  /\ main = "down" /\ lease = "free" /\ sessionLost = FALSE
  /\ pc = "none" /\ websocket = "none" /\ failed = FALSE
  /\ alerted = FALSE /\ lastRecovery = "never" /\ forced = FALSE
  /\ error = FALSE /\ cycle = NoBasket
  /\ basket = NoBasket /\ opened = 0 /\ protected = FALSE
  /\ gap = "new" /\ skipped = FALSE /\ orphan = FALSE /\ lossSeen = FALSE
  /\ budget = [faults |-> MaxFaults, events |-> MaxEvents]

Process == AcquireLease \/ StartWorker \/ AskStop \/ Stopped \/ Exit

Environment ==
  \/ Rival \/ LoseSession \/ Drop \/ Return \/ MessageFails
  \/ OpenBasket \/ CloseBasket \/ LoseTakeProfit \/ Age \/ AlertsChange

Next == Thread \/ Process \/ Environment

Spec == Init /\ [][Next]_vars

\* The thread goes on as long as it is not stopped, and time passes.
FairSpec == Spec /\ WF_vars(Thread) /\ SF_vars(Age)

-----------------------------------------------------------------------------
(* Properties *)

ThreadPcs == {"wait", "check", "branch", "restart", "record", "messages", "recover",
              "sync", "protect", "journal", "handler", "report"}

\* What each variable may hold; a process that is not up has no memory of
\* alerts, errors or cycles.
TypeOK ==
  /\ keys \subseteq Conditions \X Nat /\ open \subseteq Conditions \X Nat
  /\ silent \subseteq Conditions \X Reasons /\ stale \subseteq keys
  /\ main \in {"down", "leased", "up", "joining"}
  /\ lease \in {"free", "ours", "rival"} /\ sessionLost \in BOOLEAN
  /\ pc \in ThreadPcs \union {"none", "ended", "dead"}
  /\ websocket \in {"none", "connected", "dropped"}
  /\ {failed, alerted, forced, error, protected, skipped, orphan, lossSeen}
       \subseteq BOOLEAN
  /\ lastRecovery \in {"never", "recent", "due"}
  /\ gap \in {"none", "new", "noticed"}
  /\ {cycle, basket, opened} \subseteq 0 .. MaxBaskets
  /\ budget \in [faults : Nat, events : Nat]
  /\ main \in {"down", "leased"} => pc = "none" /\ keys = {} /\ ~error /\ cycle = NoBasket

\* No other process gets the lease while this worker's thread is alive, through
\* failing starts, stops that time out and crashes, unless the database session
\* that holds it broke (database.py:210, live_runtime.py:80).
OneWorker == Alive /\ lease = "rival" => sessionLost

\* A sync does not start with a gap the worker has noticed still open.  The two
\* exceptions need a recovery less than 30 seconds old (worker.py:104): after it
\* the recovery, or the journal write before it, failed, or the stream dropped
\* between the two reads of worker.py:71 and 72.
SyncAfterRecovery ==
  [][ (pc # "sync" /\ pc' = "sync") => gap' # "noticed" \/ skipped' ]_vars

\* Lost protection that was not repaired is an open critical alert until it is
\* repaired or the basket is gone, whatever was raised, cleared or restarted
\* before; unless the operator acknowledged it or the table lost it.
LossShown == lossSeen => 
    \/ Shown("unprotected")
    \/ \E r \in {"lost", "acknowledged"} : <<"unprotected", r>> \in silent

\* A failed worker is an open critical alert, with the same exceptions and one
\* more: it failed before in the same basket, less than a cooldown ago, and the
\* success between resolved the alert without forgetting the basket's key
\* (worker.py:132, alerts.py:206).
FailureShown ==
  (error /\ pc = "wait") =>
    \/ Shown("crashed")
    \/ \E r \in Reasons : <<"crashed", r>> \in silent

Gone == ~Alive \/ main = "joining"

\* What the stream missed is recovered in the end, whatever fails on the way,
\* as long as the thread lives: only a failure to report a failure ends it.
GapRecovered == (gap # "none" /\ Alive) ~> (gap = "none" \/ Gone)

\* Open alerts that somebody will resolve.
Resolvable ==
  {k \in open : /\ k[1] = "disconnected" => ~orphan
                /\ k[1] = "unprotected" => basket \in {NoBasket, k[2]}}

\* An alert does not outlive its condition: a worker that goes on resolves what
\* is open, but for a disconnect alert whose flag it has lost, to a failed write
\* or a restart (worker.py:86), and a basket that gave way to another unseen.
AlertsResolved == (Resolvable # {} /\ Alive) ~> (Resolvable = {} \/ Gone)
=============================================================================
