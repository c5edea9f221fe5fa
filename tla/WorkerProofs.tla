----------------------------- MODULE WorkerProofs -----------------------------
(***************************************************************************)
(* For any number of baskets, faults and events: one worker per lease, no  *)
(* sync over a gap the worker has noticed, and an alert for every loss of  *)
(* protection and every failure.  Who holds the lease follows from where   *)
(* the lifespan of the API is, so LeaseOK carries the first; the second    *)
(* rests on GapOK, which says for every place the thread may be at what    *)
(* will force the recovery before the next sync.  LossOK and CrashOK say   *)
(* what accounts for an alert whose key is taken: an open row, or a reason *)
(* why there is none.                                                      *)
(***************************************************************************)
EXTENDS Worker, TLAPS

\* The thread lives only in a process that is up, and a process past its lease
\* holds it, until the session is lost.
LeaseOK ==
  /\ Alive => main \in {"up", "joining"}
  /\ main \in {"leased", "up", "joining"} => lease = "ours" \/ sessionLost

\* What a noticed gap that no failure excuses will be recovered by: this run,
\* which reconnects; the next one, which has to; or the recovery that is due.
GapOK ==
  /\ main \in {"down", "leased"} => gap = "new" /\ websocket = "none"
  /\ gap = "noticed" /\ ~skipped =>
       \/ pc \in {"branch", "restart", "record", "messages"} /\ forced
       \/ pc = "recover"
       \/ lastRecovery # "recent"
       \/ websocket = "none" /\ pc \in {"handler", "report", "wait", "check", "dead", "ended"}

\* A condition has an open row, or a reason of these why it has none.
Explained(condition, reasons) ==
  Shown(condition) \/ \E r \in reasons : <<condition, r>> \in silent

\* The key that would suppress the alert about the basket at hand is taken only
\* while that alert is accounted for: what clears the rows of this basket forgets
\* its key, and what clears the rows of all is done when there is no basket.
LossOK ==
  /\ basket <= opened
  /\ protected => basket # NoBasket
  /\ pc = "protect" => cycle # NoBasket /\ basket \in {NoBasket, cycle}
  /\ \A k \in keys : k[1] = "unprotected" =>
       /\ k[2] \in 1 .. opened
       /\ k[2] = basket => Explained("unprotected", {"lost", "acknowledged"})
  /\ lossSeen => Explained("unprotected", {"lost", "acknowledged"})

\* A key that is not stale suppresses only what is accounted for, and what a
\* stale one suppresses is noted.
CrashOK ==
  /\ \A k \in keys \ stale : k[1] = "crashed" => Explained("crashed", Reasons)
  /\ error => Explained("crashed", Reasons)

USE WorkerAssumption DEF NoBasket

-----------------------------------------------------------------------------
(* Types *)

\* The alert operations keep keys, rows and observations in their sets.
AlertsTyped ==
  /\ keys \subseteq Conditions \X Nat /\ open \subseteq Conditions \X Nat
  /\ silent \subseteq Conditions \X Reasons /\ stale \subseteq keys

\* Emitting an alert of a numbered basket.
LEMMA DispatchTyped ==
  ASSUME AlertsTyped, NEW c \in Conditions, NEW b \in Nat, NEW stored,
         Dispatch(c, b, stored)
  PROVE  AlertsTyped'
<1>1. Key(c, b) \in Conditions \X Nat
  BY DEF Key
<1>2. \A r \in {"lost", "suppressed"} : <<c, r>> \in Conditions \X Reasons
  BY DEF Reasons
<1>3. CASE Key(c, b) \in keys
  BY <1>1, <1>2, <1>3 DEF AlertsTyped, Dispatch
<1>4. CASE Key(c, b) \notin keys
  BY <1>1, <1>2, <1>4 DEF AlertsTyped, Dispatch
<1>5. QED BY <1>3, <1>4

\* Clearing conditions only removes.
LEMMA ClearTyped ==
  ASSUME AlertsTyped, NEW cs, NEW b, NEW stored, Clear(cs, b, stored)
  PROVE  AlertsTyped'
  BY DEF AlertsTyped, Clear

\* The end of a cooldown, an acknowledgement and the end of the process.
LEMMA QuietTyped ==
  ASSUME AlertsTyped,
         Expire \/ Acknowledge(Conditions) \/ Forget \/ UNCHANGED alertVars
  PROVE  AlertsTyped'
<1>1. CASE Acknowledge(Conditions)
  <2>1. \A k \in open : <<k[1], "acknowledged">> \in Conditions \X Reasons
    BY DEF AlertsTyped, Reasons
  <2>2. QED BY <1>1, <2>1 DEF AlertsTyped, Acknowledge
<1>2. QED BY <1>1 DEF AlertsTyped, Expire, Forget, alertVars

\* Spending keeps the counts natural.
LEMMA SpendTyped ==
  ASSUME budget \in [faults : Nat, events : Nat], NEW w \in {"faults", "events"},
         Spend(w) \/ UNCHANGED budget
  PROVE  budget' \in [faults : Nat, events : Nat]
  BY DEF Spend

\* Every action of the thread keeps the types; it moves only where it lives.
LEMMA ThreadTyped == ASSUME TypeOK, Thread PROVE TypeOK'
<1> DEFINE Rest ==
      /\ main \in {"down", "leased", "up", "joining"}
      /\ lease \in {"free", "ours", "rival"} /\ sessionLost \in BOOLEAN
      /\ pc \in ThreadPcs \union {"none", "ended", "dead"}
      /\ websocket \in {"none", "connected", "dropped"}
      /\ {failed, alerted, forced, error, protected, skipped, orphan, lossSeen}
           \subseteq BOOLEAN
      /\ lastRecovery \in {"never", "recent", "due"}
      /\ gap \in {"none", "new", "noticed"}
      /\ {cycle, basket, opened} \subseteq 0 .. MaxBaskets
      /\ budget \in [faults : Nat, events : Nat]
<1>1. pc \in ThreadPcs /\ main \notin {"down", "leased"} /\ main' = main
  BY DEF TypeOK, Thread, Wake, ReadConnected, FindDisconnected, FindConnected, Restart,
         RecordReconnect, CheckMessages, RunRecovery, Sync, Protect, Journal, Handle,
              Report, ThreadPcs,
         processVars
<1>2. AlertsTyped /\ Rest /\ cycle \in Nat
  BY DEF TypeOK, AlertsTyped
<1>3. AlertsTyped'
  BY <1>2, DispatchTyped, ClearTyped, QuietTyped
  DEF Thread, Wake, ReadConnected, FindDisconnected, FindConnected, Restart,
      RecordReconnect, CheckMessages, RunRecovery, Sync, Protect, SeeFlat, Journal, Handle,
           Report,
      Conditions, alertVars
<1>4. budget' \in [faults : Nat, events : Nat]
  <2>1. UNCHANGED budget \/ Spend("faults") \/ Spend("events")
    BY DEF Thread, Wake, ReadConnected, FindDisconnected, FindConnected, Restart,
           RecordReconnect, CheckMessages, RunRecovery, Sync, Protect, Journal, Handle,
                Report, Stored
  <2>2. QED BY <1>2, <2>1, SpendTyped
<1>5. /\ lease' = lease /\ sessionLost' = sessionLost /\ basket' = basket /\ opened' = opened
      /\ pc' \in ThreadPcs \union {"ended", "dead"}
      /\ websocket' \in {websocket, "connected", "none"}
      /\ lastRecovery' \in {lastRecovery, "recent"}
      /\ gap' \in {gap, "none", "new", "noticed"}
      /\ cycle' \in {cycle, basket, 0}
  BY <1>1
  DEF Thread, Wake, ReadConnected, FindDisconnected, FindConnected, Restart,
      RecordReconnect, CheckMessages, RunRecovery, Sync, Protect, SeeFlat, Journal, Handle,
           Report,
      Notice, ThreadPcs, processVars, streamVars, loopVars, exchangeVars, gapVars
<1>6. {failed', alerted', forced', error', protected', skipped', orphan', lossSeen'}
        \subseteq BOOLEAN
  BY <1>2
  DEF Thread, Wake, ReadConnected, FindDisconnected, FindConnected, Restart,
      RecordReconnect, CheckMessages, RunRecovery, Sync, Protect, SeeFlat, Journal, Handle,
           Report,
      Skip, processVars, streamVars, loopVars, exchangeVars, gapVars
<1>7. Rest'
  BY <1>1, <1>2, <1>4, <1>5, <1>6
<1>8. QED BY <1>1, <1>3, <1>7 DEF TypeOK, AlertsTyped

\* The process, its deployment and its end.
LEMMA ProcessTyped == ASSUME TypeOK, Process PROVE TypeOK'
<1>1. AlertsTyped
  BY DEF TypeOK, AlertsTyped
<1>2. AlertsTyped'
  BY <1>1, QuietTyped
  DEF Process, AcquireLease, StartWorker, AskStop, Stopped, Exit, ProcessEnds, alertVars
<1>3. budget' \in [faults : Nat, events : Nat]
  <2>1. UNCHANGED budget \/ Spend("faults") \/ Spend("events")
    BY DEF Process, AcquireLease, StartWorker, AskStop, Stopped, Exit, ProcessEnds
  <2>2. QED BY <2>1, SpendTyped DEF TypeOK
<1>4. CASE ProcessEnds
  <2>1. {failed', alerted', forced', error', protected', skipped', orphan', lossSeen'}
        \subseteq BOOLEAN
    BY <1>4 DEF TypeOK, ProcessEnds, Shown, exchangeVars
  <2>2. {cycle', basket', opened'} \subseteq 0 .. MaxBaskets
    BY <1>4 DEF TypeOK, ProcessEnds, exchangeVars
  <2>3. keys' = {} /\ pc' = "none" /\ error' = FALSE /\ cycle' = NoBasket
    BY <1>4 DEF ProcessEnds, Forget
  <2>4. /\ main' = "down" /\ lease' \in {lease, "free"} /\ sessionLost' = FALSE
        /\ websocket' = "none" /\ lastRecovery' = "never" /\ gap' = "new"
    BY <1>4 DEF ProcessEnds
  <2>5. QED
    BY <1>2, <1>3, <2>1, <2>2, <2>3, <2>4 DEF TypeOK, AlertsTyped
<1>5. CASE AcquireLease \/ StartWorker \/ AskStop
  BY <1>2, <1>3, <1>5
  DEF TypeOK, AlertsTyped, AcquireLease, StartWorker, AskStop, ThreadPcs, alertVars,
      streamVars, loopVars, exchangeVars, gapVars
<1>6. QED BY <1>4, <1>5 DEF Process, Stopped, Exit

\* The stream, the exchange, the operator, time and the rival.
LEMMA EnvironmentTyped == ASSUME TypeOK, Environment PROVE TypeOK'
<1>1. AlertsTyped
  BY DEF TypeOK, AlertsTyped
<1>2. AlertsTyped'
  BY <1>1, QuietTyped
  DEF Environment, Rival, LoseSession, Drop, Return, MessageFails, OpenBasket,
      CloseBasket, LoseTakeProfit, Age, AlertsChange, alertVars
<1>3. budget' \in [faults : Nat, events : Nat]
  <2>1. UNCHANGED budget \/ Spend("events")
    BY DEF Environment, Rival, LoseSession, Drop, Return, MessageFails, OpenBasket,
           CloseBasket, LoseTakeProfit, Age, AlertsChange
  <2>2. QED BY <2>1, SpendTyped DEF TypeOK
<1>4. CASE AlertsChange
  BY <1>2, <1>3, <1>4
  DEF TypeOK, AlertsTyped, AlertsChange, Between, Expire, Acknowledge, processVars,
      streamVars, loopVars, exchangeVars, gapVars
<1>5. CASE UNCHANGED alertVars
  <2>1. {failed', alerted', forced', error', protected', skipped', orphan', lossSeen'}
        \subseteq BOOLEAN
    BY DEF TypeOK, Environment, Rival, LoseSession, Drop, Return, MessageFails,
      OpenBasket, CloseBasket, LoseTakeProfit, Age, AlertsChange,
      processVars, streamVars, loopVars, exchangeVars, gapVars
  <2>2. {cycle', basket', opened'} \subseteq 0 .. MaxBaskets
    BY DEF TypeOK, Environment, Rival, LoseSession, Drop, Return, MessageFails,
      OpenBasket, CloseBasket, LoseTakeProfit, Age, AlertsChange, exchangeVars
  <2>3. /\ main' = main /\ pc' = pc /\ error' = error /\ cycle' = cycle
        /\ lease' \in {lease, "free", "rival"}
        /\ websocket' \in {websocket, "dropped", "connected"}
        /\ lastRecovery' \in {lastRecovery, "due"} /\ gap' \in {gap, "new"}
    BY DEF Environment, Rival, LoseSession, Drop, Return, MessageFails,
      OpenBasket, CloseBasket, LoseTakeProfit, Age, AlertsChange, Opens,
      processVars, streamVars, loopVars, exchangeVars, gapVars
  <2>4. keys' = keys
    BY <1>5 DEF alertVars
  <2>5. sessionLost' \in BOOLEAN
    BY DEF TypeOK, Environment, Rival, LoseSession, Drop, Return, MessageFails,
      OpenBasket, CloseBasket, LoseTakeProfit, Age, AlertsChange, processVars
  <2>6. main' \in {"down", "leased"} =>
          pc' = "none" /\ keys' = {} /\ ~error' /\ cycle' = NoBasket
    BY <2>3, <2>4 DEF TypeOK
  <2>7. QED
    BY <1>2, <1>3, <2>1, <2>2, <2>3, <2>5, <2>6 DEF TypeOK, AlertsTyped
<1>6. QED
  BY <1>4, <1>5
  DEF Environment, Rival, LoseSession, Drop, Return, MessageFails, OpenBasket,
      CloseBasket, LoseTakeProfit, Age, alertVars

\* Every step keeps every variable in its range.
LEMMA TypeStep == TypeOK /\ [Next]_vars => TypeOK'
<1>1. ASSUME TypeOK, UNCHANGED vars PROVE TypeOK'
  BY <1>1 DEF TypeOK, vars, alertVars, processVars, streamVars, loopVars, exchangeVars,
              gapVars
<1>2. QED BY <1>1, ThreadTyped, ProcessTyped, EnvironmentTyped DEF Next

-----------------------------------------------------------------------------
(* The lease *)

\* The thread does not touch the lease; the process gives it up only with its
\* thread, and the environment only with the session.
LEMMA LeaseStep == ASSUME TypeOK, LeaseOK, [Next]_vars PROVE LeaseOK'
<1>1. CASE Thread
  <2>1. Alive /\ UNCHANGED processVars
    BY <1>1 DEF Thread, Wake, ReadConnected, FindDisconnected, FindConnected, Restart,
                RecordReconnect, CheckMessages, RunRecovery, Sync, Protect, Journal,
                     Handle, Report, Alive
  <2>2. QED BY <2>1 DEF LeaseOK, processVars
<1>2. CASE Process
  BY <1>2 DEF LeaseOK, TypeOK, Process, AcquireLease, StartWorker, AskStop, Stopped,
              Exit, ProcessEnds, Alive
<1>3. CASE Environment
  BY <1>3 DEF LeaseOK, Environment, Rival, LoseSession, Drop, Return, MessageFails,
              OpenBasket, CloseBasket, LoseTakeProfit, Age, AlertsChange, Alive, processVars
<1>4. CASE UNCHANGED vars
  BY <1>4 DEF LeaseOK, Alive, vars, processVars
<1>5. QED BY <1>1, <1>2, <1>3, <1>4 DEF Next

-----------------------------------------------------------------------------
(* The gap *)

\* Every step keeps a worker that is past its recovery without a gap behind it.
LEMMA GapStep == ASSUME TypeOK, GapOK, [Next]_vars PROVE GapOK'
<1>1. CASE Thread
  <2>1. main' = main /\ main \notin {"down", "leased"}
    BY <1>1 DEF TypeOK, Thread, Wake, ReadConnected, FindDisconnected, FindConnected, Restart,
                RecordReconnect, CheckMessages, RunRecovery, Sync, Protect, Journal,
                Handle, Report, processVars
  <2>2. CASE Wake \/ FindConnected
    BY <2>1, <2>2 DEF GapOK, TypeOK, Wake, FindConnected, streamVars, loopVars, gapVars
  <2>3. CASE ReadConnected
    BY <2>1, <2>3 DEF GapOK, TypeOK, ReadConnected, Notice, streamVars
  <2>4. CASE FindDisconnected
    <3>1. gap' = "noticed" /\ ~skipped' => forced \/ lastRecovery # "recent"
      BY <2>4 DEF FindDisconnected
    <3>2. pc' = "restart" /\ forced' = forced /\ lastRecovery' = lastRecovery
      BY <2>4 DEF FindDisconnected, loopVars
    <3>3. QED BY <2>1, <3>1, <3>2 DEF GapOK
  <2>5. CASE Restart \/ RecordReconnect \/ CheckMessages \/ RunRecovery
    BY <2>1, <2>5 DEF GapOK, TypeOK, Restart, RecordReconnect, CheckMessages, RunRecovery,
         Notice, Skip, RecoveryDue, streamVars, loopVars, gapVars
  <2>6. CASE Sync \/ Protect \/ Journal \/ Handle \/ Report
    BY <2>1, <2>6 DEF GapOK, TypeOK, Sync, Protect, Journal, Handle, Report, streamVars,
         loopVars, gapVars
  <2>7. QED BY <1>1, <2>2, <2>3, <2>4, <2>5, <2>6 DEF Thread
<1>2. CASE Process
  BY <1>2 DEF GapOK, TypeOK, Process, AcquireLease, StartWorker, AskStop, Stopped, Exit,
              ProcessEnds, ThreadPcs, streamVars, loopVars, gapVars
<1>3. CASE Environment
  BY <1>3 DEF GapOK, Environment, Rival, LoseSession, Drop, Return, MessageFails, Opens,
              OpenBasket, CloseBasket, LoseTakeProfit, Age, AlertsChange, Between,
              processVars, streamVars, loopVars, gapVars
<1>4. CASE UNCHANGED vars
  BY <1>4 DEF GapOK, vars, processVars, streamVars, loopVars, gapVars
<1>5. QED BY <1>1, <1>2, <1>3, <1>4 DEF Next

\* The step into a sync comes from a recovery, or from a run that needed none.
LEMMA SyncStep ==
  ASSUME TypeOK, GapOK, [Next]_vars, pc # "sync", pc' = "sync"
  PROVE  gap' # "noticed" \/ skipped'
<1>1. CheckMessages \/ RunRecovery
  BY DEF Next, Thread, Wake, ReadConnected, FindDisconnected, FindConnected, Restart,
         RecordReconnect, Sync, Protect, Journal, Handle, Report, Process, AcquireLease,
              StartWorker,
         AskStop, Stopped, Exit, ProcessEnds, Environment, Rival, LoseSession, Drop,
         Return, MessageFails, OpenBasket, CloseBasket, LoseTakeProfit, Age,
         AlertsChange, vars
<1>2. QED
  BY <1>1 DEF GapOK, TypeOK, CheckMessages, RunRecovery, RecoveryDue, Notice

-----------------------------------------------------------------------------
(* What is shown of a loss or a failure *)

\* Emitting an alert leaves every condition that was accounted for so.
LEMMA DispatchKeeps ==
  ASSUME NEW c, NEW b, NEW stored, Dispatch(c, b, stored),
         NEW d, NEW reasons, "lost" \in reasons, Explained(d, reasons)
  PROVE  Explained(d, reasons)'
<1>1. CASE Key(c, b) \in keys
  BY <1>1 DEF Dispatch, Explained, Shown
<1>2. CASE Key(c, b) \notin keys /\ stored
  <2>1. Key(c, b)[1] = c
    BY DEF Key
  <2>2. open' = open \union {Key(c, b)} /\ silent' = silent \ ({c} \X Reasons)
    BY <1>2 DEF Dispatch
  <2>3. CASE d = c
    BY <2>1, <2>2, <2>3 DEF Explained, Shown
  <2>4. CASE d # c
    BY <2>2, <2>4 DEF Explained, Shown
  <2>5. QED BY <2>3, <2>4
<1>3. CASE Key(c, b) \notin keys /\ ~stored
  BY <1>3 DEF Dispatch, Explained, Shown
<1>4. QED BY <1>1, <1>2, <1>3

\* An alert that is not suppressed accounts for its condition.
LEMMA DispatchExplains ==
  ASSUME NEW c, NEW b, NEW stored, Dispatch(c, b, stored), Key(c, b) \notin keys,
         NEW reasons, "lost" \in reasons
  PROVE  Explained(c, reasons)'
<1>1. Key(c, b)[1] = c
  BY DEF Key
<1>2. QED BY <1>1 DEF Dispatch, Explained, Shown

\* Clearing conditions, an acknowledgement and the end of a cooldown or of the
\* process leave the conditions they are not about as they are.
LEMMA QuietKeeps ==
  ASSUME NEW d, NEW reasons, Explained(d, reasons),
         \/ \E cs, b, stored : d \notin cs /\ Clear(cs, b, stored)
         \/ "acknowledged" \in reasons /\ Acknowledge(Conditions)
         \/ Expire \/ Forget \/ UNCHANGED alertVars
  PROVE  Explained(d, reasons)'
<1>1. ASSUME NEW cs, NEW b, NEW stored, d \notin cs, Clear(cs, b, stored)
      PROVE  Explained(d, reasons)'
  BY <1>1 DEF Clear, Explained, Shown
<1>2. ASSUME "acknowledged" \in reasons, Acknowledge(Conditions)
      PROVE  Explained(d, reasons)'
  <2>1. CASE \E r \in reasons : <<d, r>> \in silent
    BY <1>2, <2>1 DEF Acknowledge, Explained
  <2>2. ASSUME NEW k \in open, k[1] = d PROVE Explained(d, reasons)'
    <3>1. CASE k[1] \in Conditions
      <4>1. <<k[1], "acknowledged">> \in silent'
        BY <1>2, <2>2, <3>1 DEF Acknowledge
      <4>2. QED BY <1>2, <2>2, <4>1 DEF Explained
    <3>2. CASE k[1] \notin Conditions
      BY <1>2, <2>2, <3>2 DEF Acknowledge, Explained, Shown
    <3>3. QED BY <3>1, <3>2
  <2>3. QED BY <2>1, <2>2 DEF Explained, Shown
<1>3. CASE Expire \/ Forget \/ UNCHANGED alertVars
  BY <1>3 DEF Expire, Forget, alertVars, Explained, Shown
<1>4. QED BY <1>1, <1>2, <1>3

\* A step that is about neither this condition nor this basket takes and forgets
\* no key of the loss; what it dispatches or clears is another condition.
LEMMA LossKeysKept ==
  ASSUME NEW c, c # "unprotected", NEW b, NEW stored,
         Dispatch(c, b, stored) \/ Clear({c}, b, stored), NEW k, k[1] = "unprotected"
  PROVE  k \in keys' <=> k \in keys
<1>1. Key(c, b)[1] = c
  BY DEF Key
<1>2. QED BY <1>1 DEF Dispatch, Clear

\* The loss of a basket's protection stays accounted for.
LEMMA LossStep == ASSUME TypeOK, LossOK, [Next]_vars PROVE LossOK'
<1> DEFINE R == {"lost", "acknowledged"}
           Known == \A k \in keys : k[1] = "unprotected" =>
                      /\ k[2] \in 1 .. opened
                      /\ k[2] = basket => Explained("unprotected", R)
<1>1. /\ basket \in Nat /\ opened \in Nat /\ cycle \in Nat /\ basket <= opened
      /\ protected => basket # 0
      /\ pc = "protect" => cycle # 0 /\ basket \in {0, cycle}
      /\ \A k \in keys : k = <<k[1], k[2]>> /\ k[2] \in Nat
      /\ Known
  BY DEF TypeOK, LossOK
<1>2. ASSUME UNCHANGED exchangeVars, pc' # "protect", lossSeen' = lossSeen,
             \A k : k[1] = "unprotected" => (k \in keys' => k \in keys),
             Explained("unprotected", R) => Explained("unprotected", R)'
      PROVE  LossOK'
  BY <1>1, <1>2 DEF LossOK, exchangeVars
<1>3. CASE FindDisconnected
  <2>1. PICK stored \in BOOLEAN : Dispatch("disconnected", cycle, stored)
    BY <1>3 DEF FindDisconnected
  <2>2. Explained("unprotected", R) => Explained("unprotected", R)'
    BY <2>1, DispatchKeeps
  <2>3. \A k : k[1] = "unprotected" => (k \in keys' => k \in keys)
    BY <2>1, LossKeysKept
  <2>4. QED BY <1>2, <1>3, <2>2, <2>3 DEF FindDisconnected
<1>4. CASE FindConnected \/ Journal
  <2>1. CASE UNCHANGED alertVars
    BY <1>2, <1>4, <2>1 DEF FindConnected, Journal, alertVars, Explained, Shown, exchangeVars
  <2>2. ASSUME NEW c \in {"disconnected", "crashed"}, NEW stored, Clear({c}, NoBasket, stored)
        PROVE  LossOK'
    <3>1. Explained("unprotected", R) => Explained("unprotected", R)'
      BY <2>2, QuietKeeps
    <3>2. \A k : k[1] = "unprotected" => (k \in keys' => k \in keys)
      BY <2>2 DEF Clear
    <3>3. QED BY <1>2, <1>4, <3>1, <3>2 DEF FindConnected, Journal, exchangeVars
  <2>3. QED BY <1>4, <2>1, <2>2 DEF FindConnected, Journal
<1>5. CASE Handle
  <2>1. PICK stored \in BOOLEAN : Dispatch("crashed", cycle, stored)
    BY <1>5 DEF Handle
  <2>2. Explained("unprotected", R) => Explained("unprotected", R)'
    BY <2>1, DispatchKeeps
  <2>3. \A k : k[1] = "unprotected" => (k \in keys' => k \in keys)
    BY <2>1, LossKeysKept
  <2>4. QED BY <1>2, <1>5, <2>2, <2>3 DEF Handle
<1>6. ASSUME NEW stored, SeeFlat(stored), basket = 0, UNCHANGED exchangeVars, pc' # "protect"
      PROVE  LossOK'
  <2>1. keys' \subseteq keys /\ lossSeen' = FALSE
    BY <1>6 DEF SeeFlat, Clear
  <2>2. QED BY <1>1, <1>6, <2>1 DEF LossOK, exchangeVars
<1>7. CASE Sync
  <2>1. CASE UNCHANGED alertVars
    <3>1. Explained("unprotected", R)' = Explained("unprotected", R) /\ keys' = keys
      BY <2>1 DEF alertVars, Explained, Shown
    <3>2. basket' = basket /\ opened' = opened /\ protected' = protected
      BY <1>7 DEF Sync, exchangeVars
    <3>3. (lossSeen' => lossSeen) /\ (pc' = "protect" => cycle' = basket /\ basket # 0)
      BY <1>7 DEF Sync, SeeFlat
    <3>4. lossSeen => Explained("unprotected", R)
      BY DEF LossOK
    <3>5. QED BY <1>1, <3>1, <3>2, <3>3, <3>4 DEF LossOK
  <2>2. CASE ~UNCHANGED alertVars
    <3>1. PICK stored \in BOOLEAN : SeeFlat(stored)
      BY <1>7, <2>2 DEF Sync
    <3>2. basket = 0 /\ pc' = "journal" /\ UNCHANGED exchangeVars
      BY <1>7, <2>2 DEF Sync
    <3>3. QED BY <1>6, <3>1, <3>2
  <2>3. QED BY <2>1, <2>2
<1>8. CASE Protect
  <2>1. pc = "protect" /\ basket' = basket /\ opened' = opened /\ pc' \in {"journal", "handler"}
    BY <1>8 DEF Protect
  <2>2. PICK stored \in BOOLEAN :
          \/ protected /\ Clear({"unprotected"}, cycle, stored)
             /\ lossSeen' = FALSE /\ UNCHANGED protected
          \/ basket = NoBasket /\ SeeFlat(stored) /\ UNCHANGED protected
          \/ basket # NoBasket /\ lossSeen' = FALSE /\ UNCHANGED alertVars
          \/ basket # NoBasket /\ Dispatch("unprotected", cycle, stored) /\ UNCHANGED protected
    BY <1>8 DEF Protect
  <2>3. CASE protected /\ Clear({"unprotected"}, cycle, stored)
             /\ lossSeen' = FALSE /\ UNCHANGED protected
    <3>1. keys' = keys \ {<<"unprotected", basket>>}
      BY <1>1, <2>1, <2>3 DEF Clear, Key
    <3>2. QED BY <1>1, <2>1, <2>3, <3>1 DEF LossOK
  <2>4. CASE basket = NoBasket /\ SeeFlat(stored) /\ UNCHANGED protected
    BY <1>6, <2>1, <2>4 DEF exchangeVars
  <2>5. CASE basket # NoBasket /\ lossSeen' = FALSE /\ UNCHANGED alertVars
    <3>1. Explained("unprotected", R)' = Explained("unprotected", R) /\ keys' = keys
      BY <2>5 DEF alertVars, Explained, Shown
    <3>2. QED BY <1>1, <2>1, <2>5, <3>1 DEF LossOK
  <2>6. CASE basket # NoBasket /\ Dispatch("unprotected", cycle, stored) /\ UNCHANGED protected
    <3>1. cycle = basket /\ basket \in 1 .. opened
      BY <1>1, <2>1, <2>6
    <3>2. Explained("unprotected", R)'
      <4>1. CASE Key("unprotected", cycle) \in keys
        <5>1. Explained("unprotected", R)
          BY <1>1, <3>1, <4>1 DEF Key
        <5>2. QED BY <2>6, <5>1, DispatchKeeps
      <4>2. QED BY <2>6, <4>1, DispatchExplains
    <3>3. keys' \subseteq keys \union {<<"unprotected", basket>>}
      BY <2>6, <3>1 DEF Dispatch, Key
    <3>4. QED BY <1>1, <2>1, <2>6, <3>1, <3>2, <3>3 DEF LossOK
  <2>7. QED BY <2>2, <2>3, <2>4, <2>5, <2>6
<1>9. CASE \/ Wake \/ ReadConnected \/ Restart \/ RecordReconnect
           \/ CheckMessages \/ RunRecovery \/ Report
  <2>1. UNCHANGED <<alertVars, exchangeVars, lossSeen>> /\ pc' # "protect"
    BY <1>9 DEF Wake, ReadConnected, Restart, RecordReconnect, CheckMessages, RunRecovery, Report
  <2>2. QED BY <1>2, <2>1 DEF alertVars, Explained, Shown
<1>10. CASE Process
  <2>1. CASE ProcessEnds
    <3>1. keys' = {} /\ lossSeen' = FALSE /\ pc' = "none" /\ UNCHANGED exchangeVars
      BY <2>1 DEF ProcessEnds, Forget
    <3>2. QED BY <1>1, <3>1 DEF LossOK, exchangeVars
  <2>2. CASE AcquireLease \/ StartWorker \/ AskStop
    <3>1. /\ UNCHANGED <<alertVars, exchangeVars, lossSeen, cycle>>
          /\ pc' \in {pc, "wait"}
      BY <2>2 DEF AcquireLease, StartWorker, AskStop
    <3>2. QED BY <1>1, <3>1 DEF LossOK, alertVars, Explained, Shown, exchangeVars
  <2>3. QED BY <1>10, <2>1, <2>2 DEF Process, Stopped, Exit
<1>11. CASE AlertsChange
  <2>1. Explained("unprotected", R) => Explained("unprotected", R)'
    BY <1>11, QuietKeeps DEF AlertsChange
  <2>2. keys' \subseteq keys
    BY <1>11 DEF AlertsChange, Expire, Acknowledge
  <2>3. QED BY <1>2, <1>11, <2>1, <2>2 DEF AlertsChange, Between
<1>12. CASE \/ Rival \/ LoseSession \/ Drop \/ Return \/ MessageFails \/ Age
            \/ OpenBasket \/ CloseBasket \/ LoseTakeProfit \/ UNCHANGED vars
  <2>1. UNCHANGED <<alertVars, lossSeen, pc, cycle>>
    BY <1>12 DEF Rival, LoseSession, Drop, Return, MessageFails, Age, OpenBasket,
                 CloseBasket, LoseTakeProfit, vars
  <2>2. Explained("unprotected", R)' = Explained("unprotected", R) /\ keys' = keys
    BY <2>1 DEF alertVars, Explained, Shown
  <2>3. lossSeen => Explained("unprotected", R)
    BY DEF LossOK
  <2>4. CASE OpenBasket
    BY <1>1, <2>1, <2>2, <2>3, <2>4 DEF LossOK, OpenBasket
  <2>5. CASE CloseBasket
    BY <1>1, <2>1, <2>2, <2>3, <2>5 DEF LossOK, CloseBasket
  <2>6. CASE basket' = basket /\ opened' = opened /\ (protected' => protected)
    BY <1>1, <2>1, <2>2, <2>3, <2>6 DEF LossOK
  <2>7. QED
    BY <1>12, <2>4, <2>5, <2>6 DEF Rival, LoseSession, Drop, Return, MessageFails, Age,
         LoseTakeProfit, vars, exchangeVars
<1>13. QED
  BY <1>3, <1>4, <1>5, <1>7, <1>8, <1>9, <1>10, <1>11, <1>12 DEF Next, Thread, Environment

\* A failure stays accounted for, whatever else is raised or cleared.
LEMMA CrashStep == ASSUME TypeOK, CrashOK, [Next]_vars PROVE CrashOK'
<1>1. \A k \in keys : k = <<k[1], k[2]>>
  BY DEF TypeOK
<1>2. /\ \A k \in keys \ stale : k[1] = "crashed" => Explained("crashed", Reasons)
      /\ error => Explained("crashed", Reasons)
  BY DEF CrashOK
<1>3. "lost" \in Reasons /\ "acknowledged" \in Reasons /\ "suppressed" \in Reasons
  BY DEF Reasons
<1>4. ASSUME (error' => error),
             \A k \in keys' \ stale' : k[1] = "crashed" => k \in keys \ stale,
             Explained("crashed", Reasons) => Explained("crashed", Reasons)'
      PROVE  CrashOK'
  BY <1>2, <1>4 DEF CrashOK
<1>5. ASSUME (error' => error), NEW c, c # "crashed", NEW b, NEW stored,
             Dispatch(c, b, stored) \/ Clear({c}, b, stored)
      PROVE  CrashOK'
  <2>1. Key(c, b)[1] = c
    BY DEF Key
  <2>2. \A k \in keys' \ stale' : k[1] = "crashed" => k \in keys \ stale
    BY <1>5, <2>1 DEF Dispatch, Clear
  <2>3. Explained("crashed", Reasons) => Explained("crashed", Reasons)'
    BY <1>3, <1>5, DispatchKeeps, QuietKeeps
  <2>4. QED BY <1>4, <1>5, <2>2, <2>3
<1>6. ASSUME (error' => error), UNCHANGED alertVars PROVE CrashOK'
  BY <1>4, <1>6 DEF alertVars, Explained, Shown
<1>7. CASE FindDisconnected
  BY <1>5, <1>7 DEF FindDisconnected
<1>8. CASE FindConnected
  BY <1>5, <1>6, <1>8 DEF FindConnected
<1>9. CASE Sync \/ Protect
  BY <1>5, <1>6, <1>9 DEF Sync, Protect, SeeFlat
<1>10. CASE Journal
  <2>1. CASE UNCHANGED alertVars
    BY <1>6, <1>10, <2>1 DEF Journal
  <2>2. ASSUME NEW stored, Clear({"crashed"}, NoBasket, stored) PROVE CrashOK'
    <3>1. \A k \in keys' : k[1] = "crashed" => k \in stale'
      BY <2>2 DEF Clear
    <3>2. QED BY <1>10, <3>1 DEF CrashOK, Journal
  <2>3. QED BY <1>10, <2>1, <2>2 DEF Journal
<1>11. CASE Handle
  <2>1. PICK stored \in BOOLEAN : Dispatch("crashed", cycle, stored)
    BY <1>11 DEF Handle
  <2>2. Explained("crashed", Reasons)'
    <3>1. CASE Key("crashed", cycle) \in stale
      BY <1>3, <2>1, <3>1 DEF TypeOK, Dispatch, Explained
    <3>2. CASE Key("crashed", cycle) \in keys \ stale
      <4>1. Key("crashed", cycle)[1] = "crashed"
        BY DEF Key
      <4>2. Explained("crashed", Reasons)
        BY <1>2, <3>2, <4>1
      <4>3. QED BY <1>3, <2>1, <4>2, DispatchKeeps
    <3>3. CASE Key("crashed", cycle) \notin keys
      BY <1>3, <2>1, <3>3, DispatchExplains
    <3>4. QED BY <3>1, <3>2, <3>3
  <2>3. QED BY <2>2 DEF CrashOK
<1>12. CASE \/ Wake \/ ReadConnected \/ Restart \/ RecordReconnect
            \/ CheckMessages \/ RunRecovery \/ Report
  BY <1>6, <1>12 DEF Wake, ReadConnected, Restart, RecordReconnect, CheckMessages,
       RunRecovery, Report
<1>13. CASE Process
  <2>1. CASE ProcessEnds
    BY <2>1 DEF ProcessEnds, Forget, CrashOK
  <2>2. CASE AcquireLease \/ StartWorker \/ AskStop
    BY <1>6, <2>2 DEF AcquireLease, StartWorker, AskStop
  <2>3. QED BY <1>13, <2>1, <2>2 DEF Process, Stopped, Exit
<1>14. CASE AlertsChange
  <2>1. Explained("crashed", Reasons) => Explained("crashed", Reasons)'
    BY <1>3, <1>14, QuietKeeps DEF AlertsChange
  <2>2. keys' \ stale' \subseteq keys \ stale
    BY <1>14 DEF AlertsChange, Expire, Acknowledge
  <2>3. QED BY <1>4, <1>14, <2>1, <2>2 DEF AlertsChange
<1>15. CASE \/ Rival \/ LoseSession \/ Drop \/ Return \/ MessageFails \/ Age
            \/ OpenBasket \/ CloseBasket \/ LoseTakeProfit \/ UNCHANGED vars
  BY <1>6, <1>15 DEF Rival, LoseSession, Drop, Return, MessageFails, Age, OpenBasket,
                     CloseBasket, LoseTakeProfit, vars
<1>16. QED
  BY <1>7, <1>8, <1>9, <1>10, <1>11, <1>12, <1>13, <1>14, <1>15
  DEF Next, Thread, Environment

-----------------------------------------------------------------------------
(* The theorems *)

\* Initially the process is down and everything may have been missed.
LEMMA InvInit == Init => TypeOK /\ LeaseOK /\ GapOK
<1> SUFFICES ASSUME Init PROVE TypeOK /\ LeaseOK /\ GapOK
  OBVIOUS
<1>1. {failed, alerted, forced, error, protected, skipped, orphan, lossSeen} \subseteq BOOLEAN
  BY DEF Init
<1>2. {cycle, basket, opened} \subseteq 0 .. MaxBaskets
  BY DEF Init
<1>3. budget \in [faults : Nat, events : Nat]
  BY DEF Init
<1>4. TypeOK
  BY <1>1, <1>2, <1>3 DEF Init, TypeOK
<1>5. QED BY <1>4 DEF Init, LeaseOK, GapOK, Alive

\* The three parts together are inductive.
LEMMA InvStep ==
  TypeOK /\ LeaseOK /\ GapOK /\ [Next]_vars => (TypeOK /\ LeaseOK /\ GapOK)'
  BY TypeStep, LeaseStep, GapStep

\* Every variable of the worker, its deployment and its alerts keeps its type,
\* and a process that is not up remembers nothing (worker.py, alerts.py).
THEOREM WorkerTyped == Spec => []TypeOK
  BY InvInit, InvStep, PTL DEF Spec

\* No other process holds the lease while this worker's thread is alive, unless
\* the session that holds it broke (database.py:210, live_runtime.py:80).
THEOREM OneWorkerHolds == Spec => []OneWorker
<1>1. LeaseOK => OneWorker
  BY DEF LeaseOK, OneWorker
<1>2. QED BY <1>1, InvInit, InvStep, PTL DEF Spec

\* A sync never starts over a gap the worker has noticed, but for the failures
\* that SyncAfterRecovery names (worker.py:104).
THEOREM SyncsAfterRecovery == Spec => SyncAfterRecovery
<1>1. TypeOK /\ GapOK /\ [Next]_vars =>
        [(pc # "sync" /\ pc' = "sync") => gap' # "noticed" \/ skipped']_vars
  BY SyncStep
<1>2. QED BY <1>1, InvInit, InvStep, PTL DEF Spec, SyncAfterRecovery

\* Initially no alert was ever raised.
LEMMA ShownInit == Init => LossOK /\ CrashOK
  BY DEF Init, LossOK, CrashOK

\* Lost protection that was not repaired is shown, for any number of baskets one
\* after the other, or was lost by the table or acknowledged (alerts.py:206).
THEOREM LossIsShown == Spec => []LossShown
<1>1. LossOK => LossShown
  BY DEF LossOK, LossShown, Explained
<1>2. QED BY <1>1, InvInit, InvStep, ShownInit, LossStep, PTL DEF Spec

\* A failed worker is shown, with the exceptions that FailureShown names
\* (worker.py:132, alerts.py:206).
THEOREM FailureIsShown == Spec => []FailureShown
<1>1. CrashOK => FailureShown
  BY DEF CrashOK, FailureShown, Explained
<1>2. QED BY <1>1, InvInit, InvStep, ShownInit, CrashStep, PTL DEF Spec

================================================================================
