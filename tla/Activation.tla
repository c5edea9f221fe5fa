------------------------------ MODULE Activation ------------------------------
(***************************************************************************)
(* The activation lifecycle of a configuration: the strategy slots stored  *)
(* in the database, the copy the API process works on, the requests that   *)
(* save a configuration or move its activation status, and the start of    *)
(* the process, which decides from that status whether workers run         *)
(* (botdca/activation.py, strategy_slots.py, api.py, operations.py).       *)
(*                                                                         *)
(* Atomicity: the two request handlers are synchronous functions that the  *)
(* server runs in a pool of threads, with no lock.  Each is split where it *)
(* reads or writes what another request, a worker or the exchange can      *)
(* change: the checks, the read of the positions, the read of the orders,  *)
(* the SELECT of the rows, the UPDATE with its commit, and the assignment  *)
(* of the in-memory copy.  A save assigns its slots and its runtimes in    *)
(* two adjacent statements (api.py:890-891): they are one step here.       *)
(***************************************************************************)
EXTENDS Integers, FiniteSets

CONSTANTS
  Slots,        \* the numbered strategy slots
  Symbols,      \* the symbols a slot may name
  Submissions,  \* the configurations an operator submits
  Defaults,     \* default_strategy_slots: the environment's configuration
  Environments, \* the settings a process may be started with
  Requests,     \* threads of the server's pool
  MaxRequests,  \* bound: requests that pass their first checks
  MaxStarts,    \* bound: starts of the process
  MaxOutages    \* bound: calls the database refuses

\* What a slot trades; a row adds the status to it.
Terms == [enabled : BOOLEAN, symbol : Symbols, allocation : Nat, version : Nat]

ASSUME ActivationAssumption ==
  /\ IsFiniteSet(Slots) /\ IsFiniteSet(Symbols)
  /\ Submissions \subseteq [Slots -> Terms]
  /\ Defaults \in [Slots -> Terms]
  /\ Environments \subseteq
       [testnet : BOOLEAN, preflight : BOOLEAN, live : BOOLEAN, worker : BOOLEAN,
        credentials : BOOLEAN, activeSymbols : Nat]
  /\ {MaxRequests, MaxStarts, MaxOutages} \subseteq Nat

VARIABLES
  rows,      \* database: the strategy_slots table
  phase,     \* of the process: "down", "starting", "serving"
  env,       \* settings of the running process
  slots,     \* app.state.strategy_slots
  runtimes,  \* symbols of app.state.strategy_runtimes
  store,     \* app.state.strategy_slot_store is set
  workers,   \* symbols whose worker thread is alive
  started,   \* symbols lifespan has deployed
  baskets,   \* symbols whose runtime holds an open cycle
  exchange,  \* what each symbol has on the exchange
  requests,  \* the handlers under way
  history,   \* observation: what was saved and what was approved
  budget     \* remaining requests, starts and database outages

vars == <<rows, phase, env, slots, runtimes, store, workers, started, baskets,
          exchange, requests, history, budget>>

process == <<phase, env, slots, runtimes, store, workers, started, baskets>>

-----------------------------------------------------------------------------
(* ActivationStatus: the lifecycle of a configuration *)

Lifecycle == <<"draft", "validated", "approved_for_testnet",
               "approved_for_mainnet_trial">>

Statuses == {Lifecycle[i] : i \in DOMAIN Lifecycle} \union {"retired"}

\* rank: the index in _ORDER, -1 for a retired configuration.
Rank(status) ==
  IF status = "retired" THEN -1
  ELSE (CHOOSE i \in DOMAIN Lifecycle : Lifecycle[i] = status) - 1

\* can_transition: retire, stay, step down, or advance exactly one step.
CanTransition(current, target) ==
  \/ target = "retired" \/ current = target
  \/ current = "retired" /\ target = "draft"
  \/ current # "retired" /\ Rank(target) <= Rank(current) + 1

\* ActivationGate.required_status
RequiredStatus(e) == IF e.testnet THEN "approved_for_testnet"
                     ELSE "approved_for_mainnet_trial"

\* ActivationGate.errors: retired, ranked below what is required, or mainnet
\* without the operator's preflight.
GateAllows(status, e) ==
  /\ status # "retired"
  /\ Rank(status) >= Rank(RequiredStatus(e))
  /\ e.testnet \/ e.preflight

-----------------------------------------------------------------------------
(* StrategySlot: validation, and the copies of a configuration *)

EnabledSlots(config) == {i \in Slots : config[i].enabled}

EnabledSymbols(config) == {config[i].symbol : i \in EnabledSlots(config)}

\* slot_strategy_versions
Versions(config) == {config[i].version : i \in EnabledSlots(config)}

\* validate_strategy_slots: at least one slot is enabled and no enabled symbol
\* is configured twice.
Valid(config) ==
  /\ EnabledSlots(config) # {}
  /\ \A i, j \in EnabledSlots(config) :
       config[i].symbol = config[j].symbol => i = j

\* Only the first of default_strategy_slots is enabled.
ASSUME DefaultsAssumption == Valid(Defaults) /\ Cardinality(Versions(Defaults)) = 1

\* The table before the first save.
NoRows == << >>

WithStatus(terms, status) ==
  [enabled |-> terms.enabled, symbol |-> terms.symbol,
   allocation |-> terms.allocation, version |-> terms.version, status |-> status]

TermsOf(row) ==
  [enabled |-> row.enabled, symbol |-> row.symbol,
   allocation |-> row.allocation, version |-> row.version]

Traded(config) == [i \in Slots |-> TermsOf(config[i])]

\* Mutant: a save keeps the status the slot has.
DraftedKeepingStatus(config) ==
  [i \in Slots |-> WithStatus(config[i], slots[i].status)]

\* The candidates of store_strategy_slots: every slot returns to draft.
Drafted(config) == [i \in Slots |-> WithStatus(config[i], "draft")]

DefaultRows == [i \in Slots |-> WithStatus(Defaults[i], "draft")]

\* StrategySlotStore.load: the rows, or the defaults while there are none.
\* validate_strategy_slots raises on rows that are not a configuration.
Loadable == rows # NoRows => Valid(rows)

Loaded == IF rows = NoRows THEN DefaultRows ELSE rows

\* Mutant: the gate looks at the most approved enabled slot.
Strongest(config) ==
  CHOOSE s \in Statuses :
    /\ \E i \in EnabledSlots(config) : config[i].status = s
    /\ \A i \in EnabledSlots(config) : Rank(config[i].status) <= Rank(s)

\* _activation_gate: the least approved enabled slot decides.
Weakest(config) ==
  CHOOSE s \in Statuses :
    /\ \E i \in EnabledSlots(config) : config[i].status = s
    /\ \A i \in EnabledSlots(config) : Rank(s) <= Rank(config[i].status)

\* The UPDATEs of one commit: only the columns that differ from the rows the
\* session has loaded are written.
Merged(loaded, new) ==
  [i \in Slots |-> [c \in DOMAIN new[i] |->
     IF loaded = NoRows \/ new[i][c] # loaded[i][c] THEN new[i][c] ELSE rows[i][c]]]

-----------------------------------------------------------------------------
(* The start of the process, and its workers *)

Idle == [at |-> "idle"]

NoRequests == [r \in Requests |-> Idle]

\* _make_runtimes: a fresh BotRuntime for every enabled symbol.
Runtimes(config) == EnabledSymbols(config)

\* live_configuration_errors, raised by lifespan and again by the deployment.
ConfigurationBlocked(e) == e.live /\ ~e.testnet /\ ~e.preflight

\* live_worker_blocked: nothing is deployed unless the worker was asked for and
\* the gate allows the configuration.
Deploys(e, config) == e.worker /\ GateAllows(Weakest(config), e)

Serve(e, config, reachable, read) ==
  /\ env' = e
  /\ store' = reachable
  /\ slots' = config
  /\ runtimes' = Runtimes(config)
  /\ phase' = IF Deploys(e, config) THEN "starting" ELSE "serving"
  /\ history' = [history EXCEPT !.unread = ~read]
  /\ UNCHANGED <<rows, workers, started, baskets, exchange, requests>>

\* lifespan, up to the deployments: the settings, the database, the slots.
Start(e) ==
  /\ phase = "down" /\ budget.starts > 0 /\ ~ConfigurationBlocked(e)
  /\ Loadable /\ Serve(e, Loaded, TRUE, TRUE)
  /\ budget' = [budget EXCEPT !.starts = @ - 1]

\* The same when the database is unreachable, before or after the slot store is
\* set, or its rows are no configuration: the environment's defaults serve.
StartWithoutRows(e, reachable) ==
  /\ phase = "down" /\ budget.starts > 0 /\ ~ConfigurationBlocked(e)
  /\ \/ ~Loadable /\ reachable /\ budget' = [budget EXCEPT !.starts = @ - 1]
     \/ /\ budget.outages > 0
        /\ budget' = [budget EXCEPT !.starts = @ - 1, !.outages = @ - 1]
  /\ Serve(e, DefaultRows, reachable, rows = NoRows)

\* One deployment of the loop: the API serves once all symbols are deployed.
Deploy(s) ==
  /\ phase = "starting" /\ s \in runtimes \ started
  /\ env.live /\ env.credentials
  /\ workers' = workers \union {s}
  /\ started' = started \union {s}
  /\ phase' = IF runtimes \subseteq started' THEN "serving" ELSE phase
  /\ UNCHANGED <<rows, env, slots, runtimes, store, baskets, exchange, requests,
                 history, budget>>

\* Mutant: the handlers under way survive the process.
DownKeepingRequests ==
  /\ phase # "down"
  /\ phase' = "down"
  /\ workers' = {} /\ started' = {} /\ baskets' = {}
  /\ UNCHANGED <<rows, env, slots, runtimes, store, exchange, requests, history,
                 budget>>

\* A deployment that raises stops the ones before it, and lifespan raises; a
\* process also ends by itself, by a crash or a shutdown.
Down ==
  /\ phase # "down"
  /\ phase' = "down"
  /\ workers' = {} /\ started' = {} /\ baskets' = {}
  /\ requests' = NoRequests
  /\ UNCHANGED <<rows, env, slots, runtimes, store, exchange, history, budget>>

\* The worker's thread ends; nothing starts it again in this process.
WorkerEnds(s) ==
  /\ s \in workers
  /\ workers' = workers \ {s}
  /\ UNCHANGED <<rows, phase, env, slots, runtimes, store, started, baskets,
                 exchange, requests, history, budget>>

-----------------------------------------------------------------------------
(* The exchange *)

Inert == UNCHANGED <<rows, phase, env, slots, runtimes, store, workers, started>>

\* A running worker rests an entry, a DCA or a take profit.
WorkerOrders(s) ==
  /\ s \in workers /\ "order" \notin exchange[s]
  /\ exchange' = [exchange EXCEPT ![s] = @ \union {"order"}]
  /\ Inert /\ UNCHANGED <<baskets, requests, history, budget>>

\* The sync of a running worker opens or closes the cycle of its runtime.
WorkerSyncs(s) ==
  /\ s \in workers
  /\ baskets' = IF "position" \in exchange[s] THEN baskets \union {s}
                ELSE baskets \ {s}
  /\ Inert /\ UNCHANGED <<exchange, requests, history, budget>>

\* The last resting order of a symbol fills: a Buy opens or joins a position, a
\* take profit closes it.
Fills(s) ==
  /\ "order" \in exchange[s]
  /\ exchange' \in {[exchange EXCEPT ![s] = {"position"}],
                    [exchange EXCEPT ![s] = @ \ {"order", "position"}]}
  /\ requests' = [r \in Requests |->
       IF requests[r].at = "orders" THEN [requests[r] EXCEPT !.slipped = TRUE]
       ELSE requests[r]]
  /\ Inert /\ UNCHANGED <<baskets, history, budget>>

\* A take profit fills while the DCA order still rests.
Closes(s) ==
  /\ exchange[s] = {"position", "order"}
  /\ exchange' = [exchange EXCEPT ![s] = {"order"}]
  /\ Inert /\ UNCHANGED <<baskets, requests, history, budget>>

\* The operator clears a symbol by hand.
Cleared(s) ==
  /\ exchange[s] # {} /\ s \notin workers
  /\ exchange' = [exchange EXCEPT ![s] = {}]
  /\ Inert /\ UNCHANGED <<baskets, requests, history, budget>>

-----------------------------------------------------------------------------
(* The requests *)

\* A handler that has passed its first checks.
Handling(kind, at, candidate) ==
  [kind |-> kind, at |-> at, candidate |-> candidate, checked |-> {},
   loaded |-> NoRows, unread |-> history.unread, slipped |-> FALSE,
   overtaken |-> \E q \in Requests : requests[q].at = "publish"]

\* _workers_running: the worker of a configured symbol is alive.
WorkersRunning == workers \intersect runtimes # {}

Accept(r, request) ==
  /\ phase = "serving" /\ requests[r] = Idle /\ budget.requests > 0
  /\ ~WorkersRunning
  /\ requests' = [requests EXCEPT ![r] = request]
  /\ budget' = [budget EXCEPT !.requests = @ - 1]
  /\ UNCHANGED <<rows, process, exchange, history>>

\* Mutant: a family of strategy versions may be mixed, and any number enabled.
BeginSaveUnchecked(r, config) ==
  Accept(r, Handling("save", "positions", Drafted(config)))

\* store_strategy_slots: the workers, the local baskets, the validation, the
\* trial's symbol limit and the one version all enabled slots share.
BeginSave(r, config) ==
  /\ baskets \intersect runtimes = {}
  /\ Valid(config)
  /\ Cardinality(EnabledSlots(config)) <= env.activeSymbols
  /\ Cardinality(Versions(config)) = 1
  /\ Accept(r, Handling("save", IF env.credentials THEN "positions" ELSE "select",
                        Drafted(config)))

\* advance_activation: every enabled slot moves to the target, or none does.
BeginAdvance(r, target) ==
  /\ \A i \in EnabledSlots(slots) : CanTransition(slots[i].status, target)
  /\ Accept(r, Handling("advance", "select",
       [i \in Slots |-> IF slots[i].enabled
                        THEN [slots[i] EXCEPT !.status = target] ELSE slots[i]]))

Step(r, request) ==
  /\ requests' = [requests EXCEPT ![r] = request]
  /\ UNCHANGED <<rows, phase, env, slots, runtimes, workers, started, baskets,
                 exchange, history, budget>>

\* get_position of every configured and every submitted symbol.
ReadPositions(r) ==
  /\ requests[r].at = "positions"
  /\ LET checked == runtimes \union EnabledSymbols(requests[r].candidate)
     IN Step(r, IF \E s \in checked : "position" \in exchange[s] THEN Idle
                ELSE [requests[r] EXCEPT !.at = "orders", !.checked = checked])
  /\ UNCHANGED store

\* Mutant: the orders are not read.
IgnoreOrders(r) ==
  /\ requests[r].at = "orders"
  /\ Step(r, [requests[r] EXCEPT !.at = "select"])
  /\ UNCHANGED store

\* get_open_orders of the same symbols, one after the positions.
ReadOrders(r) ==
  /\ requests[r].at = "orders"
  /\ Step(r, IF \E s \in requests[r].checked : "order" \in exchange[s] THEN Idle
             ELSE [requests[r] EXCEPT !.at = "select"])
  /\ UNCHANGED store

\* StrategySlotStore.replace reads the rows; when there is no store yet, a save
\* connects first and an advance fails.
SelectRows(r) ==
  /\ requests[r].at = "select"
  /\ IF store \/ requests[r].kind = "save"
     THEN /\ Step(r, [requests[r] EXCEPT !.at = "update", !.loaded = rows])
          /\ store' = TRUE
     ELSE Step(r, Idle) /\ UNCHANGED store

\* The exchange or the database fails the handler: it answers an error.
Refused(r) ==
  /\ requests[r] # Idle /\ requests[r].at # "publish" /\ budget.outages > 0
  /\ requests' = [requests EXCEPT ![r] = Idle]
  /\ budget' = [budget EXCEPT !.outages = @ - 1]
  /\ UNCHANGED <<rows, process, exchange, history>>

\* The rank an approval of saved terms reaches: one step at a time.
Reached(target) ==
  CASE Rank(target) = history.vetted + 1 -> history.vetted + 1
    [] Rank(target) <= history.vetted -> IF Rank(target) < 0 THEN 0 ELSE Rank(target)
    [] OTHER -> history.vetted

\* What a committed request leaves to be remembered.
Remembered(request) ==
  LET new == Traded(request.candidate)
      doubts == (IF request.overtaken THEN {"overtaken"} ELSE {})
                  \union (IF request.loaded # rows THEN {"torn"} ELSE {})
                  \union (IF request.unread THEN {"unread"} ELSE {})
  IN IF request.kind = "save"
     THEN [history EXCEPT !.saved = new, !.vetted = 0, !.unread = FALSE,
             !.doubts = (IF doubts \ {"unread"} = {} THEN @ \intersect {"torn"}
                         ELSE @) \union (doubts \ {"unread"})]
     ELSE [history EXCEPT !.doubts = @ \union doubts,
             !.vetted = IF new = history.saved
                        THEN Reached(request.candidate[CHOOSE i \in
                               EnabledSlots(request.candidate) : TRUE].status)
                        ELSE @]

\* The UPDATE of the rows and its commit; rows inserted twice are refused.
UpdateRows(r) ==
  /\ requests[r].at = "update"
  /\ \/ /\ requests[r].loaded = NoRows /\ rows # NoRows
        /\ requests' = [requests EXCEPT ![r] = Idle]
        /\ UNCHANGED <<rows, history>>
     \/ /\ requests[r].loaded # NoRows \/ rows = NoRows
        /\ rows' = Merged(requests[r].loaded, requests[r].candidate)
        /\ history' = Remembered(requests[r])
        /\ requests' = [q \in Requests |->
             IF q = r THEN [requests[q] EXCEPT !.at = "publish"]
             ELSE IF requests[q] = Idle THEN Idle
             ELSE [requests[q] EXCEPT !.overtaken = TRUE]]
  /\ UNCHANGED <<process, exchange, budget>>

\* app.state.strategy_slots takes what was saved; a save also makes new
\* runtimes, which hold no cycle.  Two assignments of the code in one step.
Publish(r) ==
  /\ requests[r].at = "publish"
  /\ slots' = requests[r].candidate
  /\ IF requests[r].kind = "save"
     THEN runtimes' = Runtimes(requests[r].candidate) /\ baskets' = {}
     ELSE UNCHANGED <<runtimes, baskets>>
  /\ requests' = [q \in Requests |->
       IF q = r \/ requests[q] = Idle THEN Idle
       ELSE [requests[q] EXCEPT !.overtaken = TRUE]]
  /\ UNCHANGED <<rows, phase, env, store, workers, started, exchange, history, budget>>

-----------------------------------------------------------------------------
(* The specification *)

\* The database is empty, or holds the defaults an operator has taken to some
\* status before.
Init ==
  /\ \/ rows = NoRows
     \/ \E status \in Statuses : rows = [i \in Slots |->
          WithStatus(Defaults[i], IF Defaults[i].enabled THEN status ELSE "draft")]
  /\ history = [saved |-> Defaults, doubts |-> {}, unread |-> FALSE,
       vetted |-> IF rows = NoRows \/ Rank(Weakest(rows)) < 0 THEN 0
                  ELSE Rank(Weakest(rows))]
  /\ phase = "down" /\ env \in Environments
  /\ slots = DefaultRows /\ runtimes = {} /\ store = FALSE
  /\ workers = {} /\ started = {} /\ baskets = {}
  /\ exchange = [s \in Symbols |-> {}]
  /\ requests = NoRequests
  /\ budget = [requests |-> MaxRequests, starts |-> MaxStarts, outages |-> MaxOutages]

ProcessNext ==
  \/ \E e \in Environments :
       Start(e) \/ \E reachable \in BOOLEAN : StartWithoutRows(e, reachable)
  \/ Down
  \/ \E s \in Symbols : Deploy(s) \/ WorkerEnds(s)

ExchangeNext == \E s \in Symbols :
  WorkerOrders(s) \/ WorkerSyncs(s) \/ Fills(s) \/ Closes(s) \/ Cleared(s)

RequestNext == \E r \in Requests :
  \/ \E config \in Submissions : BeginSave(r, config)
  \/ \E target \in Statuses : BeginAdvance(r, target)
  \/ ReadPositions(r) \/ ReadOrders(r) \/ SelectRows(r) \/ UpdateRows(r)
  \/ Publish(r) \/ Refused(r)

Next == ProcessNext \/ ExchangeNext \/ RequestNext

Spec == Init /\ [][Next]_vars

-----------------------------------------------------------------------------
(* Properties *)

Row == [enabled : BOOLEAN, symbol : Symbols, allocation : Nat, version : Nat,
        status : Statuses]

\* Every variable keeps its type: the rows of the table, the copy the process
\* serves, its runtimes, and the handlers under way.
TypeOK ==
  /\ rows = NoRows \/ rows \in [Slots -> Row]
  /\ phase \in {"down", "starting", "serving"}
  /\ env \in Environments
  /\ slots \in [Slots -> Row]
  /\ runtimes \subseteq Symbols /\ store \in BOOLEAN
  /\ workers \subseteq started /\ started \subseteq Symbols
  /\ baskets \subseteq Symbols
  /\ exchange \in [Symbols -> SUBSET {"order", "position"}]
  /\ \A r \in Requests :
       \/ requests[r] = Idle
       \/ /\ requests[r].at \in {"positions", "orders", "select", "update", "publish"}
          /\ requests[r].kind \in {"save", "advance"}
          /\ requests[r].candidate \in [Slots -> Row]
          /\ phase = "serving"

\* While no session wrote over rows another request had changed since it read
\* them, the stored configuration is one an operator submitted, or the default,
\* column by column; so a restart can always load it (strategy_slots.py:251).
StoredAsSubmitted ==
  "torn" \notin history.doubts /\ rows # NoRows =>
    /\ Traded(rows) \in Submissions \union {Defaults}
    /\ Valid(rows) /\ Cardinality(Versions(rows)) = 1

\* Unless a request was overtaken by another, or worked on defaults because the
\* rows had not been read: what is stored is what was saved last, and no slot
\* has a status that configuration has not been taken to one step at a time
\* since it was saved (api.py:1208, activation.py:42).
VettedStatus ==
  history.doubts = {} /\ rows # NoRows =>
    /\ Traded(rows) = history.saved
    /\ \A i \in EnabledSlots(rows) : Rank(rows[i].status) <= history.vetted

\* Workers run only a configuration all of whose enabled slots have the status
\* the environment they trade in requires, with the preflight on mainnet, and
\* exactly its symbols; without the doubts above, it is the one saved last and
\* approved since (api.py:163, operations.py:77).
RunningApproved ==
  workers # {} =>
    /\ env.live /\ env.worker /\ workers \subseteq EnabledSymbols(slots)
    /\ \A i \in EnabledSlots(slots) :
         /\ slots[i].status # "retired"
         /\ Rank(slots[i].status) >= Rank(RequiredStatus(env))
    /\ env.testnet \/ env.preflight
    /\ history.doubts = {} =>
         Traded(slots) = history.saved /\ Rank(RequiredStatus(env)) <= history.vetted

\* A save drops a symbol only when it has nothing on the exchange: unless there
\* are no credentials to ask with, the configuration it replaces was not the one
\* the process knows, or an order filled between the read of the positions and
\* the read of the orders (api.py:858).
SaveKeepsBaskets ==
  [][\A r \in Requests :
       (/\ requests[r].at = "update" /\ requests'[r].at = "publish"
        /\ requests[r].kind = "save" /\ env.credentials
        /\ ~requests[r].slipped /\ ~requests[r].overtaken /\ ~requests[r].unread
        /\ history.doubts = {})
       => \A s \in EnabledSymbols(Loaded) \ EnabledSymbols(rows') :
            exchange[s] = {}]_vars

\* A freshly saved configuration is a draft until it is advanced: no slot of it
\* has a status above what it has been approved for since it was saved
\* (api.py:1208).
SaveReturnsToDraft ==
  rows # NoRows /\ history.saved # Defaults /\ Traded(rows) = history.saved =>
    \A i \in EnabledSlots(rows) : Rank(rows[i].status) <= history.vetted
=============================================================================
