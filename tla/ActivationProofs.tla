--------------------------- MODULE ActivationProofs ---------------------------
(***************************************************************************)
(* For any slots, submissions, requests, starts and outages: what is       *)
(* stored, vetted and run.  The argument follows one configuration.  While *)
(* nothing is in doubt the copy the process serves is what the database    *)
(* holds, except between the commit of a request and its publication       *)
(* (ServedOK); a request nobody has overtaken still sees what it started   *)
(* from (UnseenOK, AdvanceOK, CheckedOK); and workers exist only as long   *)
(* as no request does, in a process that started from the rows (RunningOK).*)
(***************************************************************************)
EXTENDS Activation, TLAPS

\* A request's handler, between its first checks and its answer.
Handler ==
  [kind : {"save", "advance"},
   at : {"positions", "orders", "select", "update", "publish"},
   candidate : [Slots -> Row], checked : SUBSET Symbols,
   loaded : {NoRows} \union [Slots -> Row],
   unread : BOOLEAN, slipped : BOOLEAN, overtaken : BOOLEAN]

\* What is remembered of them.
Memory ==
  [saved : [Slots -> Terms], doubts : SUBSET {"overtaken", "torn", "unread"},
   unread : BOOLEAN, vetted : Nat]

Busy(r) == requests[r] # Idle

Publishing(r) == requests[r].at = "publish"

\* TypeOK, and the types it leaves open.
Typed ==
  /\ TypeOK
  /\ requests \in [Requests -> {Idle} \union Handler]
  /\ history \in Memory
  /\ phase = "down" => workers = {} /\ started = {}
  /\ \A r \in Requests : Busy(r) /\ requests[r].loaded # NoRows => rows # NoRows
  /\ EnabledSlots(slots) # {}
  /\ \A r \in Requests : Busy(r) => EnabledSlots(requests[r].candidate) # {}

\* One of the configurations somebody wrote, and one the trial allows.
Good(config) ==
  /\ Traded(config) \in Submissions \union {Defaults}
  /\ Valid(config) /\ Cardinality(Versions(config)) = 1

\* Without torn rows every copy of the configuration is a good one.
GoodOK ==
  "torn" \notin history.doubts =>
    /\ rows # NoRows => Good(rows)
    /\ Good(slots)
    /\ \A r \in Requests : Busy(r) => Good(requests[r].candidate)

\* Every enabled slot has a status the configuration has been taken to.
Vetted(config) ==
  /\ Traded(config) = history.saved
  /\ \A i \in EnabledSlots(config) : Rank(config[i].status) <= history.vetted

VettedOK == history.doubts = {} => Vetted(Loaded)

\* Requests nobody has overtaken are alone: no other is about to publish, and
\* what they know of the rows being unread is still so.
UnseenOK ==
  \A r \in Requests : Busy(r) /\ ~requests[r].overtaken =>
    /\ \A q \in Requests : Busy(q) /\ Publishing(q) => q = r
    /\ ~Publishing(r) => requests[r].unread = history.unread

\* The process serves what is stored, or is about to.
ServedOK ==
  history.doubts = {} =>
    /\ (/\ ~history.unread /\ phase # "down"
        /\ \A r \in Requests : Busy(r) => ~Publishing(r))
         => slots = Loaded /\ runtimes = EnabledSymbols(Loaded)
    /\ \A r, q \in Requests :
         Busy(r) /\ Publishing(r) /\ Busy(q) /\ Publishing(q) => r = q
    /\ \A r \in Requests : Busy(r) /\ Publishing(r) =>
         /\ rows = requests[r].candidate /\ rows # NoRows
         /\ requests[r].kind = "advance" /\ ~history.unread
              => runtimes = EnabledSymbols(rows)

\* What a save stores are drafts; an advance keeps what is stored and moves its
\* enabled slots to one status they can all move to.
AdvanceOK ==
  \A r \in Requests : Busy(r) =>
    /\ requests[r].kind = "save" =>
         \A i \in Slots : requests[r].candidate[i].status = "draft"
    /\ (/\ requests[r].kind = "advance" /\ ~Publishing(r)
        /\ ~requests[r].overtaken /\ ~requests[r].unread /\ history.doubts = {})
       => /\ Traded(requests[r].candidate) = Traded(Loaded)
          /\ \E target \in Statuses : \A i \in EnabledSlots(Loaded) :
               /\ requests[r].candidate[i].status = target
               /\ CanTransition(Loaded[i].status, target)

\* A save with credentials has seen that every stored symbol is clear, as far
\* as it has got.
CheckedOK ==
  \A r \in Requests :
    /\ Busy(r) /\ requests[r].kind = "save" /\ env.credentials
    /\ requests[r].at \in {"orders", "select", "update"}
    /\ ~requests[r].slipped
    => /\ \A s \in requests[r].checked :
            exchange[s] \subseteq IF requests[r].at = "orders" THEN {"order"} ELSE {}
       /\ (~requests[r].overtaken /\ ~requests[r].unread /\ history.doubts = {})
            => EnabledSymbols(Loaded) \subseteq requests[r].checked

\* Workers are deployed from stored rows the gate allowed, and no request is
\* under way while one lives.
RunningOK ==
  /\ phase = "starting" \/ workers # {} =>
       /\ Deploys(env, slots) /\ ~history.unread
       /\ EnabledSlots(slots) # {} /\ runtimes = EnabledSymbols(slots)
       /\ started \subseteq runtimes
       /\ \A r \in Requests : requests[r] = Idle
  /\ workers # {} => env.live

Inv == /\ Typed /\ GoodOK /\ VettedOK /\ UnseenOK /\ ServedOK /\ AdvanceOK
       /\ CheckedOK /\ RunningOK

-----------------------------------------------------------------------------
(* Statuses and configurations *)

\* The order of the lifecycle.
LEMMA Ranks ==
  /\ Rank("retired") = -1 /\ Rank("draft") = 0 /\ Rank("validated") = 1
  /\ Rank("approved_for_testnet") = 2 /\ Rank("approved_for_mainnet_trial") = 3
  /\ Statuses = {"retired", "draft", "validated", "approved_for_testnet",
                 "approved_for_mainnet_trial"}
<1>1. DOMAIN Lifecycle = {1, 2, 3, 4}
  BY DEF Lifecycle
<1>2. /\ Lifecycle[1] = "draft" /\ Lifecycle[2] = "validated"
      /\ Lifecycle[3] = "approved_for_testnet"
      /\ Lifecycle[4] = "approved_for_mainnet_trial"
  BY DEF Lifecycle
<1>3. Statuses = {Lifecycle[1], Lifecycle[2], Lifecycle[3], Lifecycle[4], "retired"}
  BY <1>1 DEF Statuses
<1>4. \A n \in {1, 2, 3, 4} : (CHOOSE i \in DOMAIN Lifecycle : Lifecycle[i] = Lifecycle[n]) = n
  BY <1>1, <1>2
<1>5. /\ (CHOOSE i \in DOMAIN Lifecycle : Lifecycle[i] = "draft") = 1
      /\ (CHOOSE i \in DOMAIN Lifecycle : Lifecycle[i] = "validated") = 2
      /\ (CHOOSE i \in DOMAIN Lifecycle : Lifecycle[i] = "approved_for_testnet") = 3
      /\ (CHOOSE i \in DOMAIN Lifecycle :
            Lifecycle[i] = "approved_for_mainnet_trial") = 4
  BY <1>2, <1>4
<1>6. QED BY <1>2, <1>3, <1>5 DEF Rank

\* Among the enabled slots one is the least approved.
LEMMA WeakestLeast ==
  ASSUME NEW config \in [Slots -> Row], EnabledSlots(config) # {}
  PROVE  /\ \E i \in EnabledSlots(config) : config[i].status = Weakest(config)
         /\ \A i \in EnabledSlots(config) : Rank(Weakest(config)) <= Rank(config[i].status)
<1> DEFINE Has(s) == \E i \in EnabledSlots(config) : config[i].status = s
           Least(s) == \A i \in EnabledSlots(config) : Rank(s) <= Rank(config[i].status)
           s0 == IF Has("retired") THEN "retired" ELSE
                 IF Has("draft") THEN "draft" ELSE
                 IF Has("validated") THEN "validated" ELSE
                 IF Has("approved_for_testnet") THEN "approved_for_testnet"
                 ELSE "approved_for_mainnet_trial"
<1>1. \A i \in EnabledSlots(config) : config[i].status \in Statuses
  BY DEF EnabledSlots, Row
<1>2. s0 \in Statuses /\ Has(s0) /\ Least(s0)
  BY <1>1, Ranks
<1>3. \E s \in Statuses : Has(s) /\ Least(s)
  BY <1>2
<1>4. Weakest(config) = CHOOSE s \in Statuses : Has(s) /\ Least(s)
  BY DEF Weakest
<1>5. QED BY <1>3, <1>4

\* What a configuration allows depends on its terms alone.
LEMMA SameTerms ==
  ASSUME NEW a, NEW b,
         \A i \in Slots : /\ a[i].enabled = b[i].enabled /\ a[i].symbol = b[i].symbol
                          /\ a[i].version = b[i].version
  PROVE  /\ EnabledSlots(a) = EnabledSlots(b) /\ EnabledSymbols(a) = EnabledSymbols(b)
         /\ Versions(a) = Versions(b) /\ (Valid(a) <=> Valid(b))
<1>1. EnabledSlots(a) = EnabledSlots(b)
  BY DEF EnabledSlots
<1>2. EnabledSymbols(a) = EnabledSymbols(b) /\ Versions(a) = Versions(b)
  BY <1>1 DEF EnabledSymbols, Versions, EnabledSlots
<1>3. Valid(a) <=> Valid(b)
  BY <1>1 DEF Valid, EnabledSlots
<1>4. QED BY <1>1, <1>2, <1>3

\* Configurations with the same traded terms have the same enabled slots, symbols and versions.
LEMMA SameTraded ==
  ASSUME NEW a, NEW b, Traded(a) = Traded(b)
  PROVE  /\ EnabledSlots(a) = EnabledSlots(b) /\ EnabledSymbols(a) = EnabledSymbols(b)
         /\ Versions(a) = Versions(b) /\ (Valid(a) <=> Valid(b))
<1>1. ASSUME NEW i \in Slots
      PROVE  /\ a[i].enabled = b[i].enabled /\ a[i].symbol = b[i].symbol
             /\ a[i].version = b[i].version
  <2>1. Traded(a)[i] = TermsOf(a[i]) /\ Traded(b)[i] = TermsOf(b[i])
    BY DEF Traded
  <2>2. TermsOf(a[i]) = TermsOf(b[i])
    BY <2>1
  <2>3. QED
    BY <2>2 DEF TermsOf
<1>2. QED BY <1>1, SameTerms

\* A configuration and what a save makes of it.
LEMMA DraftedGood ==
  ASSUME NEW config \in [Slots -> Terms]
  PROVE  /\ Drafted(config) \in [Slots -> Row]
         /\ Traded(Drafted(config)) = config
         /\ \A i \in Slots : Drafted(config)[i].status = "draft"
         /\ Valid(config) /\ Cardinality(Versions(config)) = 1
              => /\ Valid(Drafted(config))
                 /\ Cardinality(Versions(Drafted(config))) = 1
<1>1. Drafted(config) \in [Slots -> Row]
  BY Ranks DEF Drafted, WithStatus, Row, Terms
<1>2. ASSUME NEW i \in Slots
      PROVE  /\ Drafted(config)[i].status = "draft"
             /\ Drafted(config)[i].enabled = config[i].enabled
             /\ Drafted(config)[i].symbol = config[i].symbol
             /\ Drafted(config)[i].version = config[i].version
             /\ TermsOf(Drafted(config)[i]) = config[i]
  BY DEF Drafted, WithStatus, Terms, TermsOf
<1>3. Traded(Drafted(config)) = config
  BY <1>2 DEF Traded
<1>4. QED BY <1>1, <1>2, <1>3, SameTerms

\* The default rows are good, and drafts.
LEMMA DefaultsGood ==
  /\ DefaultRows \in [Slots -> Row] /\ Good(DefaultRows)
  /\ Traded(DefaultRows) = Defaults
  /\ \A i \in Slots : DefaultRows[i].status = "draft"
  /\ EnabledSlots(DefaultRows) # {}
<1>1. DefaultRows = Drafted(Defaults) /\ Defaults \in [Slots -> Terms]
  BY ActivationAssumption DEF DefaultRows, Drafted
<1>2. QED BY <1>1, DraftedGood, DefaultsAssumption DEF Good, Valid

\* Stored rows are not the empty table: there is a slot.
LEMMA RowsThere == ASSUME NEW config \in [Slots -> Row] PROVE config # NoRows
<1>1. PICK i \in Slots : i \in EnabledSlots(Defaults)
  BY DefaultsAssumption DEF Valid, EnabledSlots
<1>2. DOMAIN config = Slots /\ DOMAIN NoRows = {}
  BY DEF NoRows
<1>3. QED BY <1>1, <1>2

\* Rows written as they were read are the candidate.
LEMMA MergedWhole ==
  ASSUME NEW new \in [Slots -> Row], rows = NoRows \/ rows \in [Slots -> Row]
  PROVE  Merged(rows, new) = new
<1>1. ASSUME NEW i \in Slots
      PROVE  [c \in DOMAIN new[i] |->
                IF rows = NoRows \/ new[i][c] # rows[i][c] THEN new[i][c] ELSE rows[i][c]]
             = new[i]
  <2>1. new[i] = [c \in DOMAIN new[i] |-> new[i][c]]
    BY DEF Row
  <2>2. QED BY <2>1
<1>2. QED BY <1>1 DEF Merged

-----------------------------------------------------------------------------
(* Types *)

\* A handler is not idle, and each step keeps it one.
LEMMA HandlerSteps ==
  ASSUME NEW h \in Handler
  PROVE  /\ h # Idle
         /\ [h EXCEPT !.overtaken = TRUE] \in Handler
         /\ [h EXCEPT !.slipped = TRUE] \in Handler
         /\ \A c \in SUBSET Symbols : [h EXCEPT !.at = "orders", !.checked = c] \in Handler
         /\ [h EXCEPT !.at = "select"] \in Handler
         /\ \A l \in {NoRows} \union [Slots -> Row] :
              [h EXCEPT !.at = "update", !.loaded = l] \in Handler
         /\ [h EXCEPT !.at = "publish"] \in Handler
<1>1. h.at # Idle.at
  BY DEF Handler, Idle
<1>2. h # Idle
  BY ONLY <1>1
<1>3. /\ [h EXCEPT !.overtaken = TRUE] \in Handler
      /\ [h EXCEPT !.slipped = TRUE] \in Handler
      /\ [h EXCEPT !.at = "select"] \in Handler
      /\ [h EXCEPT !.at = "publish"] \in Handler
  BY DEF Handler
<1>4. ASSUME NEW c \in SUBSET Symbols
      PROVE  [h EXCEPT !.at = "orders", !.checked = c] \in Handler
  BY DEF Handler
<1>5. ASSUME NEW l \in {NoRows} \union [Slots -> Row]
      PROVE  [h EXCEPT !.at = "update", !.loaded = l] \in Handler
  BY DEF Handler
<1>6. QED BY <1>2, <1>3, <1>4, <1>5

\* The handlers under way are in a process that serves.
LEMMA BusyHandler ==
  ASSUME Typed, NEW r \in Requests, Busy(r)
  PROVE  requests[r] \in Handler /\ phase = "serving"
  BY DEF Typed, TypeOK, Busy

\* The copy a process loads.
LEMMA LoadedTyped ==
  ASSUME Typed
  PROVE  Loaded \in [Slots -> Row] /\ EnabledSymbols(Loaded) \subseteq Symbols
<1>1. Loaded \in [Slots -> Row]
  BY DefaultsGood DEF Typed, TypeOK, Loaded
<1>2. QED BY <1>1 DEF EnabledSymbols, EnabledSlots, Row

\* Rows two sessions have mixed are still rows.
LEMMA MergedTyped ==
  ASSUME NEW new \in [Slots -> Row], NEW loaded \in {NoRows} \union [Slots -> Row],
         rows \in {NoRows} \union [Slots -> Row],
         loaded = NoRows \/ rows # NoRows
  PROVE  Merged(loaded, new) \in [Slots -> Row]
<1>1. CASE loaded = NoRows
  <2>1. ASSUME NEW i \in Slots
        PROVE  [c \in DOMAIN new[i] |-> new[i][c]] = new[i]
    BY DEF Row
  <2>2. Merged(loaded, new) = [i \in Slots |-> new[i]]
    BY <1>1, <2>1 DEF Merged
  <2>3. QED BY <2>2
<1>2. CASE loaded # NoRows
  <2>1. Merged(loaded, new) = [i \in Slots |-> [c \in DOMAIN new[i] |->
          IF new[i][c] # loaded[i][c] THEN new[i][c] ELSE rows[i][c]]]
    BY <1>2 DEF Merged
  <2>2. ASSUME NEW i \in Slots
        PROVE  [c \in DOMAIN new[i] |->
                  IF new[i][c] # loaded[i][c] THEN new[i][c] ELSE rows[i][c]] \in Row
    <3>1. rows[i] \in Row /\ new[i] \in Row
      BY <1>2
    <3>2. DOMAIN new[i] = {"enabled", "symbol", "allocation", "version", "status"}
      BY DEF Row
    <3> DEFINE Of(c) == IF new[i][c] # loaded[i][c] THEN new[i][c] ELSE rows[i][c]
               row == [c \in DOMAIN new[i] |-> Of(c)]
    <3>3. /\ Of("enabled") \in BOOLEAN /\ Of("symbol") \in Symbols
          /\ Of("allocation") \in Nat /\ Of("version") \in Nat /\ Of("status") \in Statuses
      BY <3>1 DEF Row
    <3> HIDE DEF Of
    <3>4. row = [enabled |-> Of("enabled"), symbol |-> Of("symbol"),
                 allocation |-> Of("allocation"), version |-> Of("version"),
                 status |-> Of("status")]
      BY <3>2
    <3>5. row \in Row
      BY <3>3, <3>4 DEF Row
    <3>6. QED BY <3>5 DEF Of
  <2>3. QED BY <2>1, <2>2
<1>3. QED BY <1>1, <1>2

\* A start reads the rows, or serves the defaults instead, while no request is
\* under way.
LEMMA Starts ==
  ASSUME Typed, NEW e \in Environments, NEW reachable \in BOOLEAN,
         Start(e) \/ StartWithoutRows(e, reachable)
  PROVE  /\ \A r \in Requests : requests[r] = Idle
         /\ phase = "down" /\ workers = {} /\ started = {}
         /\ env' = e /\ store' \in BOOLEAN
         /\ slots' \in [Slots -> Row]
         /\ EnabledSlots(slots') # {}
         /\ runtimes' = EnabledSymbols(slots') /\ runtimes' \subseteq Symbols
         /\ phase' \in {"starting", "serving"}
         /\ phase' = "starting" => Deploys(e, slots')
         /\ \/ slots' = Loaded /\ history' = [history EXCEPT !.unread = FALSE]
            \/ slots' = DefaultRows /\ history' = [history EXCEPT !.unread = TRUE]
         /\ UNCHANGED <<rows, workers, started, baskets, exchange, requests>>
<1>1. CASE Start(e)
  <2>1. EnabledSlots(Loaded) # {}
    BY <1>1, DefaultsGood DEF Start, Loadable, Loaded, Valid
  <2>2. slots' = Loaded /\ history' = [history EXCEPT !.unread = FALSE]
    BY <1>1 DEF Start, Serve
  <2>3. QED
    BY <1>1, <2>1, <2>2, LoadedTyped DEF Start, Serve, Runtimes, Typed, TypeOK
<1>2. CASE StartWithoutRows(e, reachable)
  <2>1. EnabledSymbols(DefaultRows) \subseteq Symbols
    BY DefaultsGood DEF EnabledSymbols, EnabledSlots, Row
  <2>2. slots' = DefaultRows /\ history' = [history EXCEPT !.unread = ~(rows = NoRows)]
    BY <1>2 DEF StartWithoutRows, Serve
  <2>3. \/ slots' = Loaded /\ history' = [history EXCEPT !.unread = FALSE]
        \/ slots' = DefaultRows /\ history' = [history EXCEPT !.unread = TRUE]
    <3>1. CASE rows = NoRows
      BY <2>2, <3>1 DEF Loaded
    <3>2. CASE rows # NoRows
      BY <2>2, <3>2
    <3>3. QED BY <3>1, <3>2
  <2>4. /\ phase = "down" /\ env' = e /\ store' = reachable
        /\ runtimes' = EnabledSymbols(DefaultRows)
        /\ phase' = IF Deploys(e, DefaultRows) THEN "starting" ELSE "serving"
        /\ UNCHANGED <<rows, workers, started, baskets, exchange, requests>>
    BY <1>2 DEF StartWithoutRows, Serve, Runtimes
  <2>5. QED BY <2>1, <2>2, <2>3, <2>4, DefaultsGood DEF Typed, TypeOK
<1>3. QED BY <1>1, <1>2

\* The process's own steps keep every variable in its range.
LEMMA ProcessTyped == ASSUME Typed, ProcessNext PROVE Typed'
<1>1. ASSUME NEW e \in Environments, NEW reachable \in BOOLEAN,
             Start(e) \/ StartWithoutRows(e, reachable)
      PROVE  Typed'
  <2>1. history' \in Memory
    BY <1>1, Starts DEF Typed, Memory
  <2>2. /\ phase' \in {"serving", "starting"} /\ env' \in Environments /\ store' \in BOOLEAN
        /\ slots' \in [Slots -> Row] /\ runtimes' \subseteq Symbols
        /\ \A r \in Requests : requests'[r] = Idle
        /\ workers' = {} /\ started' = {} /\ EnabledSlots(slots') # {}
        /\ UNCHANGED <<rows, baskets, exchange, requests>>
    BY <1>1, Starts
  <2>3. TypeOK'
    BY <2>2 DEF Typed, TypeOK
  <2>4. requests' \in [Requests -> {Idle} \union Handler]
    BY <2>2 DEF Typed
  <2>5. QED BY <2>1, <2>2, <2>3, <2>4 DEF Typed, Busy
<1>3. CASE Down
  <2>1. \A r \in Requests : requests'[r] = Idle
    BY <1>3 DEF Down, NoRequests
  <2>2. requests' \in [Requests -> {Idle} \union Handler]
    BY <1>3 DEF Down, NoRequests
  <2>3. QED BY <1>3, <2>1, <2>2 DEF Down, Typed, TypeOK, Busy
<1>4. ASSUME NEW s \in Symbols, Deploy(s) \/ WorkerEnds(s)
      PROVE  Typed'
  <2>1. TypeOK'
    BY <1>4 DEF Deploy, WorkerEnds, Typed, TypeOK
  <2>2. QED BY <1>4, <2>1 DEF Deploy, WorkerEnds, Typed, TypeOK, Busy
<1>5. QED BY <1>1, <1>3, <1>4 DEF ProcessNext

\* What the exchange and the environment do keeps every variable in its range.
LEMMA ExchangeTyped == ASSUME Typed, ExchangeNext PROVE Typed'
<1> SUFFICES ASSUME NEW s \in Symbols,
                    \/ WorkerOrders(s) \/ WorkerSyncs(s) \/ Fills(s) \/ Closes(s)
                    \/ Cleared(s)
             PROVE  Typed'
  BY DEF ExchangeNext
<1>1. exchange' \in [Symbols -> SUBSET {"order", "position"}]
  BY DEF Typed, TypeOK, WorkerOrders, WorkerSyncs, Fills, Closes, Cleared
<1>2. ASSUME NEW r \in Requests
      PROVE  \/ requests'[r] = requests[r]
             \/ requests[r] \in Handler /\ requests'[r] = [requests[r] EXCEPT !.slipped = TRUE]
  <2>1. requests[r].at = "orders" => requests[r] # Idle
    BY DEF Idle
  <2>2. QED
    BY <2>1, BusyHandler DEF WorkerOrders, WorkerSyncs, Fills, Closes, Cleared, Busy
<1>3. requests' \in [Requests -> {Idle} \union Handler]
  <2>1. requests' = [r \in Requests |-> requests'[r]]
    BY DEF Typed, WorkerOrders, WorkerSyncs, Fills, Closes, Cleared
  <2>2. ASSUME NEW r \in Requests
        PROVE  requests'[r] \in {Idle} \union Handler
    <3>1. requests[r] \in {Idle} \union Handler
      BY DEF Typed
    <3>2. ASSUME requests[r] \in Handler
          PROVE  [requests[r] EXCEPT !.slipped = TRUE] \in Handler
      BY <3>2, HandlerSteps
    <3>3. QED BY ONLY <1>2, <3>1, <3>2
  <2>3. QED BY <2>1, <2>2
<1>4. ASSUME NEW r \in Requests, requests'[r] # Idle
      PROVE  /\ requests[r] # Idle /\ requests'[r].loaded = requests[r].loaded
             /\ requests'[r].candidate = requests[r].candidate
  <2>1. CASE requests'[r] = requests[r]
    BY <1>4, <2>1
  <2>2. ASSUME requests[r] \in Handler,
               requests'[r] = [requests[r] EXCEPT !.slipped = TRUE]
        PROVE  /\ requests[r] # Idle /\ requests'[r].loaded = requests[r].loaded
               /\ requests'[r].candidate = requests[r].candidate
    <3>1. /\ [requests[r] EXCEPT !.slipped = TRUE].loaded = requests[r].loaded
          /\ [requests[r] EXCEPT !.slipped = TRUE].candidate = requests[r].candidate
      BY ONLY <2>2 DEF Handler
    <3>2. QED BY <2>2, <3>1, HandlerSteps
  <2>3. QED BY <1>2, <2>1, <2>2
<1>5. /\ UNCHANGED <<rows, phase, env, slots, runtimes, store, workers, started,
                     history>>
      /\ baskets' \subseteq Symbols
  BY DEF Typed, TypeOK, WorkerOrders, WorkerSyncs, Fills, Closes, Cleared, Inert
<1>6. \A r \in Requests : requests'[r] # Idle => requests'[r] \in Handler /\ phase = "serving"
  BY <1>3, <1>4, BusyHandler DEF Busy
<1>7. TypeOK'
  BY <1>1, <1>5, <1>6 DEF Typed, TypeOK, Handler
<1>8. QED BY <1>3, <1>4, <1>5, <1>7 DEF Typed, Busy

\* What a new handler knows: nothing but its candidate, and whether the rows
\* were read and another request is about to publish.
New(h, r) ==
  /\ h \in Handler /\ ~Busy(r) /\ phase = "serving"
  /\ requests' = [requests EXCEPT ![r] = h]
  /\ h.loaded = NoRows /\ h.at \in {"positions", "select"}
  /\ EnabledSlots(h.candidate) # {}
  /\ h.unread = history.unread /\ h.slipped = FALSE
  /\ ~h.overtaken => \A q \in Requests : ~Publishing(q)
  /\ workers \intersect runtimes = {}
  /\ UNCHANGED <<rows, process, exchange, history>>

\* An accepted request starts exactly one new handler, with nothing read yet.
LEMMA NewHandler ==
  ASSUME Typed, NEW r \in Requests, NEW kind \in {"save", "advance"},
         NEW at \in {"positions", "select"}, NEW candidate \in [Slots -> Row],
         EnabledSlots(candidate) # {}, Accept(r, Handling(kind, at, candidate))
  PROVE  \E h \in Handler : /\ New(h, r)
                            /\ h.kind = kind /\ h.at = at /\ h.candidate = candidate
<1> DEFINE h == Handling(kind, at, candidate)
           seen == \E q \in Requests : requests[q].at = "publish"
<1>1. /\ h.kind = kind /\ h.at = at /\ h.candidate = candidate /\ h.loaded = NoRows
      /\ h.unread = history.unread /\ h.slipped = FALSE /\ h.overtaken = seen
  BY DEF Handling
<1>2. h \in Handler
  <2>1. seen \in BOOLEAN /\ history.unread \in BOOLEAN
    BY DEF Typed, Memory
  <2>2. h = [kind |-> kind, at |-> at, candidate |-> candidate, checked |-> {},
             loaded |-> NoRows, unread |-> history.unread, slipped |-> FALSE,
             overtaken |-> seen]
    BY DEF Handling
  <2> HIDE DEF h, seen
  <2>3. QED BY <2>1, <2>2 DEF Handler
<1>3. ~h.overtaken => \A q \in Requests : ~Publishing(q)
  BY <1>1 DEF Publishing
<1>4. /\ ~Busy(r) /\ phase = "serving" /\ requests' = [requests EXCEPT ![r] = h]
      /\ workers \intersect runtimes = {}
      /\ UNCHANGED <<rows, process, exchange, history>>
  BY DEF Accept, Busy, WorkersRunning
<1> HIDE DEF h, seen
<1>5. New(h, r)
  BY <1>1, <1>2, <1>3, <1>4 DEF New
<1>6. QED BY <1>1, <1>2, <1>5

\* A save starts a handler whose candidate is a good configuration with everything back in draft.
LEMMA BeginsSave ==
  ASSUME Typed, NEW r \in Requests, NEW config \in Submissions, BeginSave(r, config)
  PROVE  /\ Good(Drafted(config))
         /\ \E h \in Handler :
              /\ New(h, r) /\ h.kind = "save" /\ h.candidate = Drafted(config)
              /\ h.at = "select" => ~env.credentials
<1>1. config \in [Slots -> Terms]
  BY ActivationAssumption
<1>2. Good(Drafted(config))
  BY <1>1, DraftedGood DEF BeginSave, Good
<1> DEFINE at == IF env.credentials THEN "positions" ELSE "select"
<1>3. Accept(r, Handling("save", at, Drafted(config)))
  BY DEF BeginSave
<1>4. at \in {"positions", "select"} /\ (at = "select" => ~env.credentials)
  OBVIOUS
<1> HIDE DEF at
<1>5. EnabledSlots(Drafted(config)) # {}
  BY <1>2 DEF Good, Valid
<1>6. QED BY <1>1, <1>2, <1>3, <1>4, <1>5, DraftedGood, NewHandler

\* An advance starts a handler that keeps the traded terms and moves only slots allowed to move.
LEMMA BeginsAdvance ==
  ASSUME Typed, NEW r \in Requests, NEW target \in Statuses, BeginAdvance(r, target)
  PROVE  \E h \in Handler :
           /\ New(h, r) /\ h.kind = "advance"
           /\ Traded(h.candidate) = Traded(slots)
           /\ \A i \in EnabledSlots(slots) :
                /\ h.candidate[i].status = target
                /\ CanTransition(slots[i].status, target)
<1> DEFINE new == [i \in Slots |-> IF slots[i].enabled
                      THEN [slots[i] EXCEPT !.status = target] ELSE slots[i]]
<1>1. slots \in [Slots -> Row]
  BY DEF Typed, TypeOK
<1>2. ASSUME NEW i \in Slots
      PROVE  /\ new[i] \in Row /\ TermsOf(new[i]) = TermsOf(slots[i])
             /\ slots[i].enabled => new[i].status = target
  BY <1>1 DEF Row, TermsOf
<1>3. new \in [Slots -> Row] /\ Traded(new) = Traded(slots)
  BY <1>2 DEF Traded
<1>4. Accept(r, Handling("advance", "select", new))
  BY DEF BeginAdvance
<1>5. \A i \in EnabledSlots(slots) :
        new[i].status = target /\ CanTransition(slots[i].status, target)
  BY <1>2 DEF BeginAdvance, EnabledSlots
<1>6. EnabledSlots(new) # {}
  BY <1>3, SameTraded DEF Typed
<1> HIDE DEF new
<1>7. QED BY <1>3, <1>4, <1>5, <1>6, NewHandler

\* A handler that reads on: what it has checked, and what it has loaded.
Read(h, r) ==
  LET old == requests[r] IN
  /\ h \in Handler /\ requests' = [requests EXCEPT ![r] = h]
  /\ h.kind = old.kind /\ h.candidate = old.candidate /\ h.unread = old.unread
  /\ h.slipped = old.slipped /\ h.overtaken = old.overtaken
  /\ \/ /\ old.at = "positions" /\ h.at = "orders" /\ h.loaded = old.loaded
        /\ h.checked = runtimes \union EnabledSymbols(old.candidate)
        /\ \A s \in h.checked : "position" \notin exchange[s]
     \/ /\ old.at = "orders" /\ h.at = "select" /\ h.loaded = old.loaded
        /\ h.checked = old.checked
        /\ \A s \in h.checked : "order" \notin exchange[s]
     \/ old.at = "select" /\ h.at = "update" /\ h.loaded = rows /\ h.checked = old.checked

\* A handler that reads, or ends with an error; the rest does not change.
Moves(r) ==
  /\ Busy(r) /\ ~Publishing(r)
  /\ \/ requests' = [requests EXCEPT ![r] = Idle]
     \/ \E h \in Handler : Read(h, r)
  /\ store' \in BOOLEAN
  /\ UNCHANGED <<rows, phase, env, slots, runtimes, workers, started, baskets,
                 exchange, history>>

\* The steps of a handler that neither commit nor publish only change where it stands.
LEMMA Moving ==
  ASSUME Typed, NEW r \in Requests,
         \/ ReadPositions(r) \/ ReadOrders(r) \/ SelectRows(r) \/ Refused(r)
         \/ UpdateRows(r) /\ requests[r].loaded = NoRows /\ rows # NoRows
  PROVE  Moves(r)
<1>1. Busy(r) /\ ~Publishing(r)
  BY DEF ReadPositions, ReadOrders, SelectRows, Refused, UpdateRows, Busy, Publishing, Idle
<1>2. requests[r] \in Handler
  BY <1>1, BusyHandler
<1>3. /\ store' \in BOOLEAN
      /\ UNCHANGED <<rows, phase, env, slots, runtimes, workers, started, baskets,
                     exchange, history>>
  BY DEF Typed, TypeOK, ReadPositions, ReadOrders, SelectRows, Refused, UpdateRows, Step,
         process
<1>4. CASE requests' = [requests EXCEPT ![r] = Idle]
  BY <1>1, <1>3, <1>4 DEF Moves
<1>5. CASE ReadPositions(r)
  <2> DEFINE checked == runtimes \union EnabledSymbols(requests[r].candidate)
             h == [requests[r] EXCEPT !.at = "orders", !.checked = checked]
  <2>1. checked \in SUBSET Symbols
    <3>1. requests[r].candidate \in [Slots -> Row]
      BY <1>2 DEF Handler
    <3>2. QED BY <3>1 DEF Typed, TypeOK, EnabledSymbols, EnabledSlots, Row
  <2>2. h \in Handler
    BY <1>2, <2>1, HandlerSteps
  <2>3. /\ h.kind = requests[r].kind /\ h.candidate = requests[r].candidate
        /\ h.unread = requests[r].unread /\ h.slipped = requests[r].slipped
        /\ h.overtaken = requests[r].overtaken /\ h.loaded = requests[r].loaded
        /\ h.at = "orders" /\ h.checked = checked
    BY ONLY <1>2 DEF Handler
  <2>4. \/ requests' = [requests EXCEPT ![r] = Idle]
        \/ /\ requests' = [requests EXCEPT ![r] = h]
           /\ \A s \in checked : "position" \notin exchange[s]
    BY <1>5 DEF ReadPositions, Step
  <2>5. requests[r].at = "positions"
    BY <1>5 DEF ReadPositions
  <2> HIDE DEF h
  <2>6. QED BY <1>1, <1>3, <1>4, <2>2, <2>3, <2>4, <2>5 DEF Moves, Read
<1>6. CASE ReadOrders(r)
  <2> DEFINE h == [requests[r] EXCEPT !.at = "select"]
  <2>1. h \in Handler
    BY <1>2, HandlerSteps
  <2>2. /\ h.kind = requests[r].kind /\ h.candidate = requests[r].candidate
        /\ h.unread = requests[r].unread /\ h.slipped = requests[r].slipped
        /\ h.overtaken = requests[r].overtaken /\ h.loaded = requests[r].loaded
        /\ h.at = "select" /\ h.checked = requests[r].checked
    BY ONLY <1>2 DEF Handler
  <2>3. \/ requests' = [requests EXCEPT ![r] = Idle]
        \/ /\ requests' = [requests EXCEPT ![r] = h]
           /\ \A s \in requests[r].checked : "order" \notin exchange[s]
    BY <1>6 DEF ReadOrders, Step
  <2>4. requests[r].at = "orders"
    BY <1>6 DEF ReadOrders
  <2> HIDE DEF h
  <2>5. QED BY <1>1, <1>3, <1>4, <2>1, <2>2, <2>3, <2>4 DEF Moves, Read
<1>7. CASE SelectRows(r)
  <2> DEFINE h == [requests[r] EXCEPT !.at = "update", !.loaded = rows]
  <2>1. h \in Handler
    BY <1>2, HandlerSteps DEF Typed, TypeOK
  <2>2. /\ h.kind = requests[r].kind /\ h.candidate = requests[r].candidate
        /\ h.unread = requests[r].unread /\ h.slipped = requests[r].slipped
        /\ h.overtaken = requests[r].overtaken /\ h.loaded = rows
        /\ h.at = "update" /\ h.checked = requests[r].checked
    BY ONLY <1>2 DEF Handler
  <2>3. /\ requests[r].at = "select"
        /\ \/ requests' = [requests EXCEPT ![r] = Idle]
           \/ requests' = [requests EXCEPT ![r] = h]
    BY <1>7 DEF SelectRows, Step
  <2> HIDE DEF h
  <2>4. QED BY <1>1, <1>3, <1>4, <2>1, <2>2, <2>3 DEF Moves, Read
<1>8. CASE \/ Refused(r)
           \/ UpdateRows(r) /\ requests[r].loaded = NoRows /\ rows # NoRows
  BY <1>4, <1>8 DEF Refused, UpdateRows
<1>9. QED BY <1>5, <1>6, <1>7, <1>8

\* What every other handler learns of a commit or a publication.
Overtaken(r) ==
  \A q \in Requests \ {r} :
    IF Busy(q) THEN requests'[q] = [requests[q] EXCEPT !.overtaken = TRUE]
    ELSE requests'[q] = Idle

\* The commit of a request's rows.
Commits(r) ==
  /\ Busy(r) /\ requests[r].at = "update"
  /\ requests[r].loaded # NoRows \/ rows = NoRows
  /\ rows' = Merged(requests[r].loaded, requests[r].candidate)
  /\ history' = Remembered(requests[r])
  /\ requests'[r] = [requests[r] EXCEPT !.at = "publish"]
  /\ Overtaken(r)
  /\ requests' \in [Requests -> {Idle} \union Handler]
  /\ UNCHANGED <<process, exchange>>

\* The step that writes the rows is a commit.
LEMMA Committing ==
  ASSUME Typed, NEW r \in Requests, UpdateRows(r),
         requests[r].loaded # NoRows \/ rows = NoRows
  PROVE  Commits(r)
<1>1. Busy(r) /\ requests[r].at = "update"
  BY DEF UpdateRows, Busy, Idle
<1>2. requests' = [q \in Requests |->
             IF q = r THEN [requests[q] EXCEPT !.at = "publish"]
             ELSE IF requests[q] = Idle THEN Idle
             ELSE [requests[q] EXCEPT !.overtaken = TRUE]]
  BY DEF UpdateRows
<1>3. requests'[r] = [requests[r] EXCEPT !.at = "publish"] /\ Overtaken(r)
  BY <1>2 DEF Overtaken, Busy
<1>4. ASSUME NEW q \in Requests
      PROVE  requests'[q] \in {Idle} \union Handler
  <2>1. CASE Busy(q)
    <3>1. /\ [requests[q] EXCEPT !.at = "publish"] \in Handler
          /\ [requests[q] EXCEPT !.overtaken = TRUE] \in Handler
      BY <2>1, BusyHandler, HandlerSteps
    <3>2. QED BY <1>2, <2>1, <3>1 DEF Busy
  <2>2. CASE ~Busy(q)
    BY <1>1, <1>2, <2>2 DEF Busy
  <2>3. QED BY <2>1, <2>2
<1>5. requests' \in [Requests -> {Idle} \union Handler]
  BY <1>2, <1>4
<1>6. QED BY <1>1, <1>3, <1>5 DEF UpdateRows, Commits

\* The publication of what was committed.
Publishes(r) ==
  /\ Busy(r) /\ Publishing(r)
  /\ slots' = requests[r].candidate
  /\ requests[r].kind = "save" => runtimes' = EnabledSymbols(slots') /\ baskets' = {}
  /\ requests[r].kind = "advance" => UNCHANGED <<runtimes, baskets>>
  /\ requests'[r] = Idle
  /\ Overtaken(r)
  /\ requests' \in [Requests -> {Idle} \union Handler]
  /\ UNCHANGED <<rows, phase, env, store, workers, started, exchange, history>>

\* The step that replaces the configuration in memory is a publication.
LEMMA PublishingStep ==
  ASSUME Typed, NEW r \in Requests, Publish(r)
  PROVE  Publishes(r)
<1>1. Busy(r) /\ Publishing(r)
  BY DEF Publish, Busy, Idle, Publishing
<1>2. requests' = [q \in Requests |->
       IF q = r \/ requests[q] = Idle THEN Idle
       ELSE [requests[q] EXCEPT !.overtaken = TRUE]]
  BY DEF Publish
<1>3. requests'[r] = Idle /\ Overtaken(r)
  BY <1>2 DEF Overtaken, Busy
<1>4. ASSUME NEW q \in Requests
      PROVE  requests'[q] \in {Idle} \union Handler
  <2>1. Busy(q) => [requests[q] EXCEPT !.overtaken = TRUE] \in Handler
    BY BusyHandler, HandlerSteps
  <2>2. QED BY <1>2, <2>1 DEF Busy
<1>5. requests' \in [Requests -> {Idle} \union Handler]
  BY <1>2, <1>4
<1>6. requests[r].kind \in {"save", "advance"}
  BY <1>1, BusyHandler DEF Handler
<1>7. /\ requests[r].kind = "save" => runtimes' = EnabledSymbols(slots') /\ baskets' = {}
      /\ requests[r].kind = "advance" => UNCHANGED <<runtimes, baskets>>
      /\ slots' = requests[r].candidate
      /\ UNCHANGED <<rows, phase, env, store, workers, started, exchange, history>>
  BY DEF Publish, Runtimes
<1>8. QED BY ONLY <1>1, <1>3, <1>5, <1>7 DEF Publishes

\* The steps of the requests, by what they do.
LEMMA RequestSteps ==
  ASSUME Typed, RequestNext
  PROVE  \E r \in Requests :
           \/ \E config \in Submissions : BeginSave(r, config)
           \/ \E target \in Statuses : BeginAdvance(r, target)
           \/ Moves(r) \/ Commits(r) \/ Publishes(r)
<1> PICK r \in Requests :
      \/ \E config \in Submissions : BeginSave(r, config)
      \/ \E target \in Statuses : BeginAdvance(r, target)
      \/ ReadPositions(r) \/ ReadOrders(r) \/ SelectRows(r) \/ UpdateRows(r)
      \/ Publish(r) \/ Refused(r)
  BY DEF RequestNext
<1>1. CASE UpdateRows(r)
  BY <1>1, Moving, Committing
<1>2. CASE ReadPositions(r) \/ ReadOrders(r) \/ SelectRows(r) \/ Refused(r)
  BY <1>2, Moving
<1>3. QED BY <1>1, <1>2, PublishingStep

\* What is left of TypeOK when the handlers are handlers.
LEMMA BusyTyped ==
  ASSUME Typed, requests' \in [Requests -> {Idle} \union Handler],
         \A r \in Requests : requests'[r] # Idle => phase' = "serving"
  PROVE  \A r \in Requests :
           \/ requests'[r] = Idle
           \/ /\ requests'[r].at \in {"positions", "orders", "select", "update", "publish"}
              /\ requests'[r].kind \in {"save", "advance"}
              /\ requests'[r].candidate \in [Slots -> Row]
              /\ phase' = "serving"
  BY DEF Handler

\* Starting a handler keeps every variable in its range.
LEMMA NewTyped ==
  ASSUME Typed, NEW r \in Requests, NEW h \in Handler, New(h, r)
  PROVE  Typed'
<1>1. requests' = [requests EXCEPT ![r] = h] /\ phase = "serving"
      /\ UNCHANGED <<rows, process, exchange, history>> /\ h.loaded = NoRows
  BY DEF New
<1>2. requests' \in [Requests -> {Idle} \union Handler]
  BY <1>1 DEF Typed
<1>3. \A q \in Requests : requests'[q] # Idle => phase' = "serving"
  BY <1>1, BusyHandler DEF Typed, Busy, process
<1>4. TypeOK'
  BY <1>1, <1>2, <1>3, BusyTyped DEF Typed, TypeOK, process
<1>5. \A q \in Requests : Busy(q)' =>
        /\ requests'[q].loaded # NoRows => rows # NoRows
        /\ EnabledSlots(requests'[q].candidate) # {}
  BY <1>1 DEF Typed, Busy, New
<1>6. QED BY <1>1, <1>2, <1>4, <1>5 DEF Typed, process, Busy

\* Moving a handler on keeps every variable in its range.
LEMMA MovesTyped == ASSUME Typed, NEW r \in Requests, Moves(r) PROVE Typed'
<1>1. phase = "serving" /\ requests[r] \in Handler
  BY BusyHandler DEF Moves
<1>2. PICK h \in {Idle} \union Handler :
        /\ requests' = [requests EXCEPT ![r] = h]
        /\ h # Idle => /\ h.loaded \in {requests[r].loaded, rows}
                       /\ h.candidate = requests[r].candidate
  BY DEF Moves, Read
<1>3. requests' \in [Requests -> {Idle} \union Handler]
  BY <1>2 DEF Typed
<1>4. UNCHANGED <<rows, phase, env, slots, runtimes, workers, started, baskets,
                  exchange, history>>
  BY DEF Moves
<1>5. TypeOK'
  BY <1>1, <1>3, <1>4, BusyTyped DEF Typed, TypeOK, Moves
<1>6. \A q \in Requests : Busy(q)' =>
        /\ requests'[q].loaded # NoRows => rows # NoRows
        /\ EnabledSlots(requests'[q].candidate) # {}
  BY <1>2 DEF Typed, Busy, Moves
<1>7. QED BY <1>1, <1>3, <1>4, <1>5, <1>6 DEF Typed, Busy

\* The ranks an approval reaches are ranks.
LEMMA ReachedTyped ==
  ASSUME Typed, NEW target \in Statuses PROVE Reached(target) \in Nat
<1>1. Rank(target) \in {-1, 0, 1, 2, 3} /\ history.vetted \in Nat
  BY Ranks DEF Typed, Memory
<1>2. QED BY <1>1 DEF Reached

\* The traded terms of a configuration are terms.
LEMMA TradedTyped ==
  ASSUME NEW config \in [Slots -> Row] PROVE Traded(config) \in [Slots -> Terms]
<1>1. \A i \in Slots : TermsOf(config[i]) \in Terms
  BY DEF Row, TermsOf, Terms
<1>2. QED BY <1>1 DEF Traded

\* What a commit leaves to be remembered is a memory.
LEMMA RememberedTyped ==
  ASSUME Typed, NEW h \in Handler, EnabledSlots(h.candidate) # {}
  PROVE  Remembered(h) \in Memory
<1> DEFINE new == Traded(h.candidate)
           doubts == (IF h.overtaken THEN {"overtaken"} ELSE {})
                  \union (IF h.loaded # rows THEN {"torn"} ELSE {})
                  \union (IF h.unread THEN {"unread"} ELSE {})
           reached == Reached(h.candidate[CHOOSE i \in EnabledSlots(h.candidate) : TRUE].status)
           kept == (IF doubts \ {"unread"} = {} THEN history.doubts \intersect {"torn"}
                    ELSE history.doubts) \union (doubts \ {"unread"})
<1>1. Remembered(h) =
        IF h.kind = "save"
        THEN [history EXCEPT !.saved = new, !.vetted = 0, !.unread = FALSE, !.doubts = kept]
        ELSE [history EXCEPT !.doubts = @ \union doubts,
                !.vetted = IF new = history.saved THEN reached ELSE @]
  BY DEF Remembered
<1>2. new \in [Slots -> Terms]
  BY TradedTyped DEF Handler
<1>3. /\ history.doubts \union doubts \in SUBSET {"overtaken", "torn", "unread"}
      /\ kept \in SUBSET {"overtaken", "torn", "unread"}
  BY DEF Typed, Memory
<1>4. reached \in Nat
  <2>1. (CHOOSE i \in EnabledSlots(h.candidate) : TRUE) \in Slots
    BY DEF EnabledSlots
  <2>2. QED BY <2>1, ReachedTyped DEF Handler, Row
<1>5. history \in Memory
  BY DEF Typed
<1> HIDE DEF new, doubts, reached, kept
<1>6. CASE h.kind = "save"
  <2>1. [history EXCEPT !.saved = new, !.vetted = 0, !.unread = FALSE, !.doubts = kept] \in Memory
    BY ONLY <1>2, <1>3, <1>5 DEF Memory
  <2>2. QED BY <1>1, <1>6, <2>1
<1>7. CASE h.kind # "save"
  <2> DEFINE vetted == IF new = history.saved THEN reached ELSE history.vetted
             all == history.doubts \union doubts
  <2>1. vetted \in Nat
    BY <1>4, <1>5, <1>7 DEF Memory
  <2>2. Remembered(h) = [history EXCEPT !.doubts = all, !.vetted = vetted]
    BY <1>1, <1>7
  <2>3. all \in SUBSET {"overtaken", "torn", "unread"}
    BY <1>3
  <2> HIDE DEF vetted, all
  <2>4. [history EXCEPT !.doubts = all, !.vetted = vetted] \in Memory
    BY ONLY <1>5, <2>1, <2>3 DEF Memory
  <2>5. QED BY <2>2, <2>4
<1>8. QED BY <1>6, <1>7

\* A commit or a publication leaves the others what they are, but overtaken.
LEMMA Others ==
  ASSUME Typed, NEW r \in Requests, Overtaken(r), NEW q \in Requests, q # r
  PROVE  IF Busy(q)
         THEN /\ requests[q] \in Handler /\ requests'[q] \in Handler
              /\ requests'[q].at = requests[q].at /\ requests'[q].kind = requests[q].kind
              /\ requests'[q].candidate = requests[q].candidate
              /\ requests'[q].loaded = requests[q].loaded
              /\ requests'[q].slipped = requests[q].slipped
              /\ requests'[q].checked = requests[q].checked
              /\ requests'[q].overtaken
         ELSE requests'[q] = Idle
<1>1. CASE ~Busy(q)
  BY <1>1 DEF Overtaken
<1>2. CASE Busy(q)
  <2>1. requests[q] \in Handler
    BY <1>2, BusyHandler
  <2>2. requests'[q] = [requests[q] EXCEPT !.overtaken = TRUE]
    BY <1>2 DEF Overtaken
  <2>3. requests'[q] \in Handler
    BY <2>1, <2>2, HandlerSteps
  <2>4. /\ requests'[q].at = requests[q].at /\ requests'[q].kind = requests[q].kind
        /\ requests'[q].candidate = requests[q].candidate
        /\ requests'[q].loaded = requests[q].loaded
        /\ requests'[q].slipped = requests[q].slipped
        /\ requests'[q].checked = requests[q].checked
        /\ requests'[q].overtaken
    BY ONLY <2>1, <2>2 DEF Handler
  <2>5. QED BY <1>2, <2>1, <2>3, <2>4
<1>3. QED BY <1>1, <1>2

\* The handler that commits is otherwise what it was.
LEMMA Committed ==
  ASSUME Typed, NEW r \in Requests, Commits(r)
  PROVE  /\ requests[r] \in Handler /\ requests'[r] \in Handler
         /\ requests'[r].at = "publish" /\ requests'[r].kind = requests[r].kind
         /\ requests'[r].candidate = requests[r].candidate
         /\ requests'[r].loaded = requests[r].loaded
         /\ requests'[r].unread = requests[r].unread
         /\ requests'[r].overtaken = requests[r].overtaken
<1>1. requests[r] \in Handler /\ requests'[r] = [requests[r] EXCEPT !.at = "publish"]
  BY BusyHandler DEF Commits
<1>2. requests'[r] \in Handler
  BY <1>1, HandlerSteps
<1>3. /\ requests'[r].at = "publish" /\ requests'[r].kind = requests[r].kind
      /\ requests'[r].candidate = requests[r].candidate
      /\ requests'[r].loaded = requests[r].loaded
      /\ requests'[r].unread = requests[r].unread
      /\ requests'[r].overtaken = requests[r].overtaken
  BY ONLY <1>1 DEF Handler
<1>4. QED BY <1>1, <1>2, <1>3

\* A commit keeps every variable in its range.
LEMMA CommitsTyped == ASSUME Typed, NEW r \in Requests, Commits(r) PROVE Typed'
<1>1. phase = "serving" /\ requests[r] \in Handler /\ EnabledSlots(requests[r].candidate) # {}
  BY BusyHandler DEF Commits, Typed
<1>2. history' \in Memory
  BY <1>1, RememberedTyped DEF Commits
<1>3. rows' \in [Slots -> Row]
  BY <1>1, MergedTyped DEF Commits, Typed, TypeOK, Handler
<1>4. rows' # NoRows
  BY <1>3, RowsThere
<1>5. UNCHANGED <<phase, env, slots, runtimes, store, workers, started, baskets, exchange>>
      /\ requests' \in [Requests -> {Idle} \union Handler]
  BY DEF Commits, process
<1>6. TypeOK'
  BY <1>1, <1>3, <1>5, BusyTyped DEF Typed, TypeOK
<1>7. ASSUME NEW q \in Requests, Busy(q)'
      PROVE  EnabledSlots(requests'[q].candidate) # {}
  BY <1>7, Others, Committed DEF Typed, Commits, Busy
<1>8. QED BY <1>1, <1>2, <1>4, <1>5, <1>6, <1>7 DEF Typed, Busy

\* A publication keeps every variable in its range.
LEMMA PublishesTyped == ASSUME Typed, NEW r \in Requests, Publishes(r) PROVE Typed'
<1>1. phase = "serving" /\ requests[r] \in Handler /\ EnabledSlots(requests[r].candidate) # {}
  BY BusyHandler DEF Publishes, Typed
<1>2. /\ UNCHANGED <<rows, phase, env, store, workers, started, exchange, history>>
      /\ requests' \in [Requests -> {Idle} \union Handler]
  BY DEF Publishes
<1>3. slots' \in [Slots -> Row] /\ EnabledSlots(slots') # {}
  BY <1>1 DEF Publishes, Handler
<1>4. EnabledSymbols(slots') \subseteq Symbols
  BY <1>3 DEF EnabledSymbols, EnabledSlots, Row
<1>5. runtimes' \subseteq Symbols /\ baskets' \subseteq Symbols
  BY <1>1, <1>4 DEF Publishes, Handler, Typed, TypeOK
<1>6. TypeOK'
  BY <1>1, <1>2, <1>3, <1>5, BusyTyped DEF Typed, TypeOK
<1>7. ASSUME NEW q \in Requests, Busy(q)'
      PROVE  /\ EnabledSlots(requests'[q].candidate) # {}
             /\ requests'[q].loaded # NoRows => rows' # NoRows
  <2>1. q # r
    BY <1>7 DEF Publishes, Busy
  <2>2. Busy(q) /\ requests'[q].candidate = requests[q].candidate
        /\ requests'[q].loaded = requests[q].loaded
    BY <1>7, <2>1, Others DEF Publishes, Busy
  <2>3. QED BY <1>2, <2>2 DEF Typed
<1>8. QED BY <1>1, <1>2, <1>3, <1>6, <1>7 DEF Typed

\* The request threads keep every variable in its range.
LEMMA RequestTyped == ASSUME Typed, RequestNext PROVE Typed'
<1> PICK r \in Requests :
           \/ \E config \in Submissions : BeginSave(r, config)
           \/ \E target \in Statuses : BeginAdvance(r, target)
           \/ Moves(r) \/ Commits(r) \/ Publishes(r)
  BY RequestSteps
<1>1. ASSUME NEW config \in Submissions, BeginSave(r, config) PROVE Typed'
  BY <1>1, BeginsSave, NewTyped
<1>2. ASSUME NEW target \in Statuses, BeginAdvance(r, target) PROVE Typed'
  BY <1>2, BeginsAdvance, NewTyped
<1>3. QED BY <1>1, <1>2, MovesTyped, CommitsTyped, PublishesTyped

\* Every step keeps every variable in its range.
LEMMA TypedStep == Typed /\ [Next]_vars => Typed'
<1>1. ASSUME Typed, UNCHANGED vars PROVE Typed'
  BY <1>1 DEF Typed, TypeOK, vars, Busy
<1>2. QED BY <1>1, ProcessTyped, ExchangeTyped, RequestTyped DEF Next

-----------------------------------------------------------------------------
(* What the steps leave of the observations *)

\* What a commit remembers.
LEMMA RememberedFacts ==
  ASSUME Typed, NEW h \in Handler
  PROVE  /\ "torn" \notin Remembered(h).doubts =>
              "torn" \notin history.doubts /\ h.loaded = rows
         /\ Remembered(h).doubts = {} => /\ ~h.overtaken /\ h.loaded = rows
                                         /\ h.kind = "advance" =>
                                              history.doubts = {} /\ ~h.unread
         /\ h.kind = "save" => /\ Remembered(h).saved = Traded(h.candidate)
                               /\ Remembered(h).vetted = 0
                               /\ Remembered(h).unread = FALSE
         /\ h.kind = "advance" =>
              /\ Remembered(h).saved = history.saved
              /\ Remembered(h).unread = history.unread
              /\ Traded(h.candidate) = history.saved => Remembered(h).vetted =
                   Reached(h.candidate[CHOOSE i \in EnabledSlots(h.candidate) : TRUE].status)
<1> DEFINE new == Traded(h.candidate)
           doubts == (IF h.overtaken THEN {"overtaken"} ELSE {})
                  \union (IF h.loaded # rows THEN {"torn"} ELSE {})
                  \union (IF h.unread THEN {"unread"} ELSE {})
           reached == Reached(h.candidate[CHOOSE i \in EnabledSlots(h.candidate) : TRUE].status)
           kept == (IF doubts \ {"unread"} = {} THEN history.doubts \intersect {"torn"}
                    ELSE history.doubts) \union (doubts \ {"unread"})
           all == history.doubts \union doubts
           vetted == IF new = history.saved THEN reached ELSE history.vetted
<1>1. /\ h.kind = "save" => Remembered(h) =
           [history EXCEPT !.saved = new, !.vetted = 0, !.unread = FALSE, !.doubts = kept]
      /\ h.kind = "advance" => Remembered(h) =
           [history EXCEPT !.doubts = all, !.vetted = vetted]
  BY DEF Remembered
<1>2. h.kind \in {"save", "advance"} /\ history \in Memory
  BY DEF Handler, Typed
<1>3. /\ "torn" \notin kept \/ "torn" \notin all => "torn" \notin history.doubts /\ h.loaded = rows
      /\ kept = {} => ~h.overtaken /\ h.loaded = rows
      /\ all = {} => ~h.overtaken /\ h.loaded = rows /\ history.doubts = {} /\ ~h.unread
  OBVIOUS
<1>4. new = history.saved => vetted = reached
  OBVIOUS
<1> HIDE DEF new, doubts, reached, kept, all, vetted
<1>5. /\ [history EXCEPT !.saved = new, !.vetted = 0, !.unread = FALSE, !.doubts = kept].saved
           = new
      /\ [history EXCEPT !.saved = new, !.vetted = 0, !.unread = FALSE, !.doubts = kept].vetted
           = 0
      /\ [history EXCEPT !.saved = new, !.vetted = 0, !.unread = FALSE, !.doubts = kept].unread
           = FALSE
      /\ [history EXCEPT !.saved = new, !.vetted = 0, !.unread = FALSE, !.doubts = kept].doubts
           = kept
  BY ONLY <1>2 DEF Memory
<1>6. /\ [history EXCEPT !.doubts = all, !.vetted = vetted].saved = history.saved
      /\ [history EXCEPT !.doubts = all, !.vetted = vetted].vetted = vetted
      /\ [history EXCEPT !.doubts = all, !.vetted = vetted].unread = history.unread
      /\ [history EXCEPT !.doubts = all, !.vetted = vetted].doubts = all
  BY ONLY <1>2 DEF Memory
<1>7. CASE h.kind = "save"
  BY <1>1, <1>3, <1>5, <1>7 DEF new
<1>8. CASE h.kind = "advance"
  BY <1>1, <1>3, <1>4, <1>6, <1>8 DEF new, reached
<1>9. QED BY <1>2, <1>7, <1>8

\* The exchange makes no step of a handler; at most a fill slips past it.
LEMMA ExchangeKeeps ==
  ASSUME Typed, ExchangeNext
  PROVE  /\ UNCHANGED <<rows, phase, env, slots, runtimes, workers, started, history>>
         /\ \A r \in Requests :
              IF Busy(r)
              THEN /\ requests'[r] \in Handler
                   /\ requests'[r].at = requests[r].at /\ requests'[r].kind = requests[r].kind
                   /\ requests'[r].candidate = requests[r].candidate
                   /\ requests'[r].unread = requests[r].unread
                   /\ requests'[r].overtaken = requests[r].overtaken
                   /\ requests'[r].checked = requests[r].checked
                   /\ ~requests'[r].slipped => ~requests[r].slipped
              ELSE requests'[r] = Idle
<1> PICK s \in Symbols : \/ WorkerOrders(s) \/ WorkerSyncs(s) \/ Fills(s) \/ Closes(s)
                         \/ Cleared(s)
  BY DEF ExchangeNext
<1>1. UNCHANGED <<rows, phase, env, slots, runtimes, workers, started, history>>
  BY DEF WorkerOrders, WorkerSyncs, Fills, Closes, Cleared, Inert
<1>2. ASSUME NEW r \in Requests, ~Busy(r) PROVE requests'[r] = Idle
  BY <1>2 DEF WorkerOrders, WorkerSyncs, Fills, Closes, Cleared, Busy, Idle
<1>3. ASSUME NEW r \in Requests, Busy(r)
      PROVE  /\ requests'[r] \in Handler
             /\ requests'[r].at = requests[r].at /\ requests'[r].kind = requests[r].kind
             /\ requests'[r].candidate = requests[r].candidate
             /\ requests'[r].unread = requests[r].unread
             /\ requests'[r].overtaken = requests[r].overtaken
             /\ requests'[r].checked = requests[r].checked
             /\ ~requests'[r].slipped => ~requests[r].slipped
  <2>1. requests[r] \in Handler
    BY <1>3, BusyHandler
  <2>2. CASE requests'[r] = requests[r]
    BY <2>1, <2>2
  <2>3. CASE requests'[r] = [requests[r] EXCEPT !.slipped = TRUE]
    <3>1. requests'[r] \in Handler
      BY <2>1, <2>3, HandlerSteps
    <3>2. /\ requests'[r].at = requests[r].at /\ requests'[r].kind = requests[r].kind
          /\ requests'[r].candidate = requests[r].candidate
          /\ requests'[r].unread = requests[r].unread
          /\ requests'[r].overtaken = requests[r].overtaken
          /\ requests'[r].checked = requests[r].checked
          /\ requests'[r].slipped
      BY ONLY <2>1, <2>3 DEF Handler
    <3>3. QED BY <3>1, <3>2
  <2>4. QED BY <2>2, <2>3 DEF WorkerOrders, WorkerSyncs, Fills, Closes, Cleared
<1>4. QED BY <1>1, <1>2, <1>3

\* The process ending forgets every handler; a deployment or a worker's end
\* finds or leaves them alone.
LEMMA ProcessKeeps ==
  ASSUME Typed, Down \/ \E s \in Symbols : Deploy(s) \/ WorkerEnds(s)
  PROVE  /\ UNCHANGED <<rows, env, slots, runtimes, exchange, history>>
         /\ \/ phase' = "down" /\ \A r \in Requests : requests'[r] = Idle
            \/ phase' # "down" /\ phase # "down" /\ requests' = requests
<1>1. CASE Down
  BY <1>1 DEF Down, NoRequests
<1>2. ASSUME NEW s \in Symbols, Deploy(s) \/ WorkerEnds(s)
      PROVE  /\ UNCHANGED <<rows, env, slots, runtimes, exchange, history>>
             /\ phase' # "down" /\ phase # "down" /\ requests' = requests
  BY <1>2 DEF Typed, Deploy, WorkerEnds
<1>3. QED BY <1>1, <1>2

-----------------------------------------------------------------------------
(* The parts of the invariant *)

\* A start serves a good configuration, a save brings one, an advance keeps one,
\* and a commit that tears nothing stores its candidate.
LEMMA GoodStep == ASSUME Typed, GoodOK, [Next]_vars PROVE GoodOK'
<1>1. CASE UNCHANGED vars
  BY <1>1 DEF GoodOK, Good, vars, Busy
<1>2. ASSUME NEW e \in Environments, NEW reachable \in BOOLEAN,
             Start(e) \/ StartWithoutRows(e, reachable)
      PROVE  GoodOK'
  <2>1. history'.doubts = history.doubts
    BY <1>2, Starts DEF Typed, Memory
  <2>2. "torn" \notin history.doubts => Good(slots')
    BY <1>2, Starts, DefaultsGood DEF Loaded, GoodOK
  <2>3. QED BY <1>2, <2>1, <2>2, Starts DEF GoodOK, Busy
<1>3. CASE Down \/ \E s \in Symbols : Deploy(s) \/ WorkerEnds(s)
  BY <1>3, ProcessKeeps DEF GoodOK, Busy
<1>4. CASE ExchangeNext
  BY <1>4, ExchangeKeeps DEF GoodOK, Busy
<1>5. ASSUME NEW r \in Requests, NEW h \in Handler, New(h, r),
             "torn" \notin history.doubts => Good(h.candidate)
      PROVE  GoodOK'
  BY <1>5 DEF GoodOK, New, Busy, process, Typed
<1>6. ASSUME NEW r \in Requests, NEW config \in Submissions, BeginSave(r, config)
      PROVE  GoodOK'
  BY <1>5, <1>6, BeginsSave
<1>7. ASSUME NEW r \in Requests, NEW target \in Statuses, BeginAdvance(r, target)
      PROVE  GoodOK'
  BY <1>5, <1>7, BeginsAdvance, SameTraded DEF GoodOK, Good
<1>8. ASSUME NEW r \in Requests, Moves(r)
      PROVE  GoodOK'
  BY <1>8 DEF GoodOK, Moves, Read, Busy, Typed
<1>9. ASSUME NEW r \in Requests, Commits(r)
      PROVE  GoodOK'
  <2>1. requests[r] \in Handler /\ history' = Remembered(requests[r])
    BY <1>9, Committed DEF Commits
  <2>2. SUFFICES ASSUME "torn" \notin history'.doubts PROVE GoodOK'
    BY DEF GoodOK
  <2>3. "torn" \notin history.doubts /\ requests[r].loaded = rows
    BY <2>1, <2>2, RememberedFacts
  <2>4. rows' = requests[r].candidate
    BY <1>9, <2>1, <2>3, MergedWhole DEF Commits, Handler, Typed, TypeOK
  <2>5. slots' = slots
    BY <1>9 DEF Commits, process
  <2>6. ASSUME NEW q \in Requests, Busy(q)'
        PROVE  Busy(q) /\ requests'[q].candidate = requests[q].candidate
    BY <1>9, <2>6, Committed, Others DEF Commits, Busy
  <2>7. QED BY <1>9, <2>3, <2>4, <2>5, <2>6 DEF GoodOK, Commits
<1>10. ASSUME NEW r \in Requests, Publishes(r)
       PROVE  GoodOK'
  <2>1. ASSUME NEW q \in Requests, Busy(q)'
        PROVE  Busy(q) /\ requests'[q].candidate = requests[q].candidate
    BY <1>10, <2>1, Others DEF Publishes, Busy
  <2>2. QED BY <1>10, <2>1 DEF GoodOK, Publishes
<1>11. QED
  BY <1>1, <1>2, <1>3, <1>4, <1>6, <1>7, <1>8, <1>9, <1>10, RequestSteps
  DEF Next, ProcessNext

\* A commit and a publication overtake every other request.
LEMMA UnseenStep == ASSUME Typed, UnseenOK, [Next]_vars PROVE UnseenOK'
<1>1. CASE UNCHANGED vars
  BY <1>1 DEF UnseenOK, vars, Busy, Publishing
<1>2. ASSUME NEW e \in Environments, NEW reachable \in BOOLEAN,
             Start(e) \/ StartWithoutRows(e, reachable)
      PROVE  UnseenOK'
  BY <1>2, Starts DEF UnseenOK, Busy
<1>3. CASE Down \/ \E s \in Symbols : Deploy(s) \/ WorkerEnds(s)
  BY <1>3, ProcessKeeps DEF UnseenOK, Busy, Publishing
<1>4. CASE ExchangeNext
  BY <1>4, ExchangeKeeps DEF UnseenOK, Busy, Publishing
<1>5. ASSUME NEW r \in Requests, NEW h \in Handler, New(h, r)
      PROVE  UnseenOK'
  BY <1>5 DEF UnseenOK, New, Busy, Publishing, Typed
<1>6. ASSUME NEW r \in Requests, Moves(r)
      PROVE  UnseenOK'
  BY <1>6 DEF UnseenOK, Moves, Read, Busy, Publishing, Typed
<1>7. ASSUME NEW r \in Requests, Commits(r)
      PROVE  UnseenOK'
  <2>1. \A q \in Requests \ {r} : Busy(q)' =>
          /\ Busy(q) /\ requests'[q].at = requests[q].at /\ requests'[q].overtaken
    BY <1>7, Others DEF Commits, Busy
  <2>2. /\ requests'[r].at = "publish"
        /\ requests'[r].overtaken = requests[r].overtaken /\ Busy(r)
    BY <1>7, Committed DEF Commits
  <2>3. QED BY <2>1, <2>2 DEF UnseenOK, Publishing, Busy
<1>8. ASSUME NEW r \in Requests, Publishes(r)
      PROVE  UnseenOK'
  <2>1. \A q \in Requests : Busy(q)' => requests'[q].overtaken
    BY <1>8, Others DEF Publishes, Busy
  <2>2. QED BY <2>1 DEF UnseenOK
<1>9. QED
  BY <1>1, <1>2, <1>3, <1>4, <1>5, <1>6, <1>7, <1>8, RequestSteps, BeginsSave, BeginsAdvance
  DEF Next, ProcessNext

\* The candidate of an advance that commits without doubts has the terms that
\* are stored.
LEMMA CleanAdvance ==
  ASSUME Typed, UnseenOK, ServedOK, AdvanceOK, NEW r \in Requests, Commits(r),
         requests[r].kind = "advance", history'.doubts = {}
  PROVE  /\ history.doubts = {} /\ ~history.unread
         /\ Traded(requests[r].candidate) = Traded(Loaded)
         /\ runtimes = EnabledSymbols(requests[r].candidate)
         /\ \E target \in Statuses : \A i \in EnabledSlots(Loaded) :
              /\ requests[r].candidate[i].status = target
              /\ CanTransition(Loaded[i].status, target)
<1>1. /\ history.doubts = {} /\ ~requests[r].overtaken /\ ~requests[r].unread
      /\ Busy(r) /\ ~Publishing(r)
  BY RememberedFacts, Committed DEF Commits, Publishing
<1>2. /\ ~history.unread
      /\ \A q \in Requests : Busy(q) => ~Publishing(q)
  BY <1>1 DEF UnseenOK
<1>3. phase # "down"
  BY <1>1, BusyHandler
<1>4. runtimes = EnabledSymbols(Loaded)
  BY <1>1, <1>2, <1>3 DEF ServedOK
<1>5. /\ Traded(requests[r].candidate) = Traded(Loaded)
      /\ \E target \in Statuses : \A i \in EnabledSlots(Loaded) :
              /\ requests[r].candidate[i].status = target
              /\ CanTransition(Loaded[i].status, target)
  BY <1>1 DEF AdvanceOK
<1>6. QED BY <1>1, <1>2, <1>4, <1>5, SameTraded

\* The step an approval makes is the one it is remembered for.
LEMMA ReachedEnough ==
  ASSUME Typed, NEW current \in Statuses, NEW target \in Statuses,
         CanTransition(current, target), Rank(current) <= history.vetted
  PROVE  Rank(target) <= Reached(target)
<1>1. /\ Rank(target) \in {-1, 0, 1, 2, 3} /\ Rank(current) \in {-1, 0, 1, 2, 3}
      /\ history.vetted \in Nat
  BY Ranks DEF Typed, Memory
<1>2. Rank(target) <= history.vetted + 1
  BY <1>1, Ranks DEF CanTransition
<1>3. QED BY <1>1, <1>2 DEF Reached

\* A save vets nothing; an advance vets one step more.
LEMMA VettedCommit ==
  ASSUME Typed, VettedOK, UnseenOK, ServedOK, AdvanceOK, NEW r \in Requests, Commits(r)
  PROVE  VettedOK'
<1> DEFINE new == requests[r].candidate
<1>1. SUFFICES ASSUME history'.doubts = {} PROVE Vetted(Loaded)'
  BY DEF VettedOK
<1>2. requests[r] \in Handler /\ history' = Remembered(requests[r])
  BY Committed DEF Commits
<1>3. rows' = new
  BY <1>1, <1>2, RememberedFacts, MergedWhole DEF Commits, Handler, Typed, TypeOK
<1>4. Loaded' = new
  <2>1. rows' # NoRows
    BY <1>2, <1>3, RowsThere DEF Handler
  <2>2. QED BY <1>3, <2>1 DEF Loaded
<1>5. new \in [Slots -> Row] /\ EnabledSlots(new) # {}
  BY <1>2 DEF Handler, Typed, Commits
<1>6. CASE requests[r].kind = "save"
  <2>1. history'.saved = Traded(new) /\ history'.vetted = 0
    BY <1>2, <1>6, RememberedFacts
  <2>2. \A i \in EnabledSlots(new) : Rank(new[i].status) <= 0
    BY <1>6, Ranks DEF AdvanceOK, Commits, EnabledSlots
  <2>3. QED BY <1>4, <2>1, <2>2 DEF Vetted
<1>7. CASE requests[r].kind = "advance"
  <2>1. PICK target \in Statuses : \A i \in EnabledSlots(Loaded) :
              /\ new[i].status = target /\ CanTransition(Loaded[i].status, target)
    BY <1>1, <1>7, CleanAdvance
  <2>2. /\ history.doubts = {} /\ Traded(new) = Traded(Loaded)
        /\ EnabledSlots(new) = EnabledSlots(Loaded)
    BY <1>1, <1>7, CleanAdvance, SameTraded
  <2>3. Vetted(Loaded)
    BY <2>2 DEF VettedOK
  <2>4. history'.saved = history.saved /\ Traded(new) = history.saved
    BY <1>2, <1>7, <2>2, <2>3, RememberedFacts DEF Vetted
  <2> DEFINE some == CHOOSE i \in EnabledSlots(new) : TRUE
  <2>5. new[some].status = target
    BY <1>5, <2>1, <2>2
  <2>6. history'.vetted = Reached(target)
    <3>1. history'.vetted = Reached(new[some].status)
      BY <1>2, <1>7, <2>4, RememberedFacts
    <3> HIDE DEF some, new
    <3>2. QED BY <2>5, <3>1
  <2>7. PICK i \in EnabledSlots(Loaded) : i \in Slots
    BY <1>5, <2>2 DEF EnabledSlots
  <2>8. Loaded[i].status \in Statuses /\ Rank(Loaded[i].status) <= history.vetted
    BY <2>3, <2>7, LoadedTyped DEF Row, Vetted
  <2>9. Rank(target) <= Reached(target)
    BY <2>1, <2>7, <2>8, ReachedEnough
  <2>10. QED BY <1>4, <2>1, <2>2, <2>4, <2>6, <2>9 DEF Vetted
<1>8. QED BY <1>2, <1>6, <1>7 DEF Handler

\* Only a commit changes what is stored and what is vetted.
LEMMA VettedStep ==
  ASSUME Typed, VettedOK, UnseenOK, ServedOK, AdvanceOK, [Next]_vars PROVE VettedOK'
<1>1. ASSUME NEW r \in Requests, Commits(r) PROVE VettedOK'
  BY <1>1, VettedCommit
<1>2. ASSUME rows' = rows, history'.doubts = history.doubts,
             history'.saved = history.saved, history'.vetted = history.vetted
      PROVE  VettedOK'
  BY <1>2 DEF VettedOK, Vetted, Loaded
<1>3. ASSUME NEW e \in Environments, NEW reachable \in BOOLEAN,
             Start(e) \/ StartWithoutRows(e, reachable)
      PROVE  VettedOK'
  <2>1. rows' = rows /\ (\/ history' = [history EXCEPT !.unread = FALSE]
                         \/ history' = [history EXCEPT !.unread = TRUE])
    BY <1>3, Starts
  <2>2. QED BY <1>2, <2>1 DEF Typed, Memory
<1>4. CASE Down \/ \E s \in Symbols : Deploy(s) \/ WorkerEnds(s)
  BY <1>2, <1>4, ProcessKeeps
<1>5. CASE ExchangeNext
  BY <1>2, <1>5, ExchangeKeeps
<1>6. ASSUME NEW r \in Requests, Moves(r) \/ Publishes(r) PROVE VettedOK'
  BY <1>2, <1>6 DEF Moves, Publishes
<1>7. ASSUME NEW r \in Requests, NEW h \in Handler, New(h, r) PROVE VettedOK'
  BY <1>2, <1>7 DEF New
<1>8. CASE UNCHANGED vars
  BY <1>2, <1>8 DEF vars
<1>9. QED
  BY <1>1, <1>3, <1>4, <1>5, <1>6, <1>7, <1>8, RequestSteps, BeginsSave, BeginsAdvance
  DEF Next, ProcessNext

\* A commit without doubts stores the only candidate about to be published.
LEMMA ServedCommit ==
  ASSUME Typed, UnseenOK, ServedOK, AdvanceOK, NEW r \in Requests, Commits(r)
  PROVE  ServedOK'
<1>1. SUFFICES ASSUME history'.doubts = {} PROVE ServedOK'
  BY DEF ServedOK
<1>2. /\ requests[r] \in Handler /\ history' = Remembered(requests[r])
      /\ Busy(r) /\ Busy(r)' /\ Publishing(r)'
      /\ requests'[r].kind = requests[r].kind
      /\ requests'[r].candidate = requests[r].candidate
  BY Committed, HandlerSteps DEF Commits, Publishing, Busy
<1>3. rows' = requests[r].candidate /\ ~requests[r].overtaken
  BY <1>1, <1>2, RememberedFacts, MergedWhole DEF Commits, Handler, Typed, TypeOK
<1>4. rows' # NoRows
  BY <1>2, <1>3, RowsThere DEF Handler
<1>5. \A q \in Requests : Busy(q)' /\ Publishing(q)' => q = r
  <2>1. SUFFICES ASSUME NEW q \in Requests \ {r}, Busy(q)', Publishing(q)' PROVE FALSE
    OBVIOUS
  <2>2. Busy(q) /\ Publishing(q)
    BY <2>1, Others DEF Commits, Busy, Publishing
  <2>3. QED BY <1>2, <1>3, <2>1, <2>2 DEF UnseenOK
<1>6. requests[r].kind = "advance" => runtimes' = EnabledSymbols(rows')
  BY <1>1, <1>3, CleanAdvance DEF Commits, process
<1>7. QED
  BY <1>2, <1>3, <1>4, <1>5, <1>6 DEF ServedOK

\* The process serves what is stored once it is published.
LEMMA ServedPublish ==
  ASSUME Typed, ServedOK, NEW r \in Requests, Publishes(r)
  PROVE  ServedOK'
<1>1. SUFFICES ASSUME history'.doubts = {} PROVE ServedOK'
  BY DEF ServedOK
<1>2. /\ Busy(r) /\ Publishing(r) /\ history' = history /\ rows' = rows
      /\ slots' = requests[r].candidate /\ requests[r].kind \in {"save", "advance"}
  BY BusyHandler DEF Publishes, Handler
<1>3. rows = requests[r].candidate /\ rows # NoRows
  BY <1>1, <1>2 DEF ServedOK
<1>4. ~history.unread => runtimes' = EnabledSymbols(rows)
  BY <1>1, <1>2, <1>3 DEF ServedOK, Publishes
<1>5. \A q \in Requests : Busy(q)' => ~Publishing(q)'
  <2>1. SUFFICES ASSUME NEW q \in Requests, Busy(q)', Publishing(q)' PROVE FALSE
    OBVIOUS
  <2>2. q # r
    BY <2>1 DEF Publishes, Busy
  <2>3. Busy(q) /\ Publishing(q)
    BY <2>1, <2>2, Others DEF Publishes, Busy, Publishing
  <2>4. QED BY <1>1, <1>2, <2>2, <2>3 DEF ServedOK
<1>6. Loaded' = rows
  BY <1>2, <1>3 DEF Loaded
<1>7. QED BY <1>2, <1>3, <1>4, <1>5, <1>6 DEF ServedOK

\* Every step keeps each stored configuration one that was submitted.
LEMMA ServedStep ==
  ASSUME Typed, UnseenOK, ServedOK, AdvanceOK, [Next]_vars PROVE ServedOK'
<1>1. CASE UNCHANGED vars
  BY <1>1 DEF ServedOK, vars, Busy, Publishing, Loaded
<1>2. ASSUME NEW e \in Environments, NEW reachable \in BOOLEAN,
             Start(e) \/ StartWithoutRows(e, reachable)
      PROVE  ServedOK'
  <2>1. /\ \A q \in Requests : ~Busy(q)'
        /\ runtimes' = EnabledSymbols(slots') /\ rows' = rows
        /\ history'.unread \/ slots' = Loaded
    BY <1>2, Starts DEF Busy, Typed, Memory
  <2>2. QED BY <2>1 DEF ServedOK, Loaded
<1>3. CASE Down \/ \E s \in Symbols : Deploy(s) \/ WorkerEnds(s)
  BY <1>3, ProcessKeeps DEF ServedOK, Busy, Publishing, Loaded
<1>4. CASE ExchangeNext
  <2>1. \A q \in Requests : Busy(q)' =>
          /\ Busy(q) /\ requests'[q].at = requests[q].at
          /\ requests'[q].kind = requests[q].kind
          /\ requests'[q].candidate = requests[q].candidate
    BY <1>4, ExchangeKeeps DEF Busy
  <2>2. /\ UNCHANGED <<rows, phase, slots, runtimes, history>> /\ Loaded' = Loaded
        /\ \A q \in Requests : Busy(q) => Busy(q)'
    BY <1>4, ExchangeKeeps, HandlerSteps DEF Loaded, Busy
  <2>3. QED BY <2>1, <2>2 DEF ServedOK, Publishing
<1>5. ASSUME NEW r \in Requests, NEW h,
             requests' = [requests EXCEPT ![r] = h], h.at # "publish",
             Busy(r) => ~Publishing(r),
             UNCHANGED <<rows, phase, slots, runtimes, history>>
      PROVE  ServedOK'
  <2>1. \A q \in Requests : Busy(q)' /\ Publishing(q)' <=> Busy(q) /\ Publishing(q)
    BY <1>5 DEF Busy, Publishing, Typed
  <2>2. \A q \in Requests : Busy(q) /\ Publishing(q) => requests'[q] = requests[q]
    BY <1>5 DEF Typed
  <2>3. QED BY <1>5, <2>1, <2>2 DEF ServedOK, Loaded
<1>6. ASSUME NEW r \in Requests, Moves(r)
      PROVE  ServedOK'
  <2>1. /\ Busy(r) /\ ~Publishing(r)
        /\ UNCHANGED <<rows, phase, slots, runtimes, history>>
    BY <1>6 DEF Moves
  <2>2. CASE requests' = [requests EXCEPT ![r] = Idle]
    <3>1. Idle.at # "publish"
      BY DEF Idle
    <3>2. QED BY ONLY <1>5, <2>1, <2>2, <3>1
  <2>3. ASSUME NEW h \in Handler, Read(h, r)
        PROVE  ServedOK'
    BY <1>5, <2>1, <2>3 DEF Read
  <2>4. QED BY <1>6, <2>2, <2>3 DEF Moves
<1>7. ASSUME NEW r \in Requests, NEW h \in Handler, New(h, r)
      PROVE  ServedOK'
  BY <1>5, <1>7 DEF New, process
<1>8. ASSUME NEW r \in Requests, Commits(r) \/ Publishes(r)
      PROVE  ServedOK'
  BY <1>8, ServedCommit, ServedPublish
<1>9. QED
  BY <1>1, <1>2, <1>3, <1>4, <1>6, <1>7, <1>8, RequestSteps, BeginsSave, BeginsAdvance
  DEF Next, ProcessNext

\* An advance starts from what is served, which is what is stored.
LEMMA AdvanceStep ==
  ASSUME Typed, ServedOK, AdvanceOK, [Next]_vars PROVE AdvanceOK'
<1>1. CASE UNCHANGED vars
  BY <1>1 DEF AdvanceOK, vars, Busy, Publishing, Loaded
<1>2. ASSUME NEW e \in Environments, NEW reachable \in BOOLEAN,
             Start(e) \/ StartWithoutRows(e, reachable)
      PROVE  AdvanceOK'
  BY <1>2, Starts DEF AdvanceOK, Busy
<1>3. CASE Down \/ \E s \in Symbols : Deploy(s) \/ WorkerEnds(s)
  BY <1>3, ProcessKeeps DEF AdvanceOK, Busy, Publishing, Loaded
<1>4. CASE ExchangeNext
  <2>1. \A q \in Requests : Busy(q)' =>
          /\ Busy(q) /\ requests'[q].at = requests[q].at
          /\ requests'[q].kind = requests[q].kind
          /\ requests'[q].candidate = requests[q].candidate
          /\ requests'[q].unread = requests[q].unread
          /\ requests'[q].overtaken = requests[q].overtaken
    BY <1>4, ExchangeKeeps DEF Busy
  <2>2. UNCHANGED history /\ Loaded' = Loaded
    BY <1>4, ExchangeKeeps DEF Loaded
  <2>3. QED BY <2>1, <2>2 DEF AdvanceOK, Publishing
<1>5. ASSUME NEW r \in Requests, NEW config \in Submissions, BeginSave(r, config)
      PROVE  AdvanceOK'
  <2>1. PICK h \in Handler : /\ New(h, r) /\ h.kind = "save"
                             /\ \A i \in Slots : h.candidate[i].status = "draft"
    BY <1>5, BeginsSave, DraftedGood, ActivationAssumption
  <2>2. /\ requests' = [requests EXCEPT ![r] = h]
        /\ UNCHANGED history /\ Loaded' = Loaded
    BY <2>1 DEF New, Loaded
  <2>3. QED BY <2>1, <2>2 DEF AdvanceOK, Publishing, Busy, Typed
<1>6. ASSUME NEW r \in Requests, NEW target \in Statuses, BeginAdvance(r, target)
      PROVE  AdvanceOK'
  <2>1. PICK h \in Handler : /\ New(h, r) /\ h.kind = "advance"
                             /\ Traded(h.candidate) = Traded(slots)
                             /\ \A i \in EnabledSlots(slots) :
                                  /\ h.candidate[i].status = target
                                  /\ CanTransition(slots[i].status, target)
    BY <1>6, BeginsAdvance
  <2>2. /\ requests' = [requests EXCEPT ![r] = h]
        /\ UNCHANGED history /\ Loaded' = Loaded
        /\ h.unread = history.unread /\ phase = "serving"
        /\ ~h.overtaken => \A q \in Requests : ~Publishing(q)
    BY <2>1 DEF New, Loaded
  <2>3. (~h.overtaken /\ ~h.unread /\ history.doubts = {}) => slots = Loaded
    BY <2>2 DEF ServedOK
  <2>4. QED BY <2>1, <2>2, <2>3 DEF AdvanceOK, Publishing, Busy, Typed
<1>7. ASSUME NEW r \in Requests, Moves(r)
      PROVE  AdvanceOK'
  <2>1. PICK h \in {Idle} \union Handler :
          /\ requests' = [requests EXCEPT ![r] = h]
          /\ h # Idle => /\ h.kind = requests[r].kind
                         /\ h.candidate = requests[r].candidate
                         /\ h.unread = requests[r].unread
                         /\ h.overtaken = requests[r].overtaken
    BY <1>7 DEF Moves, Read
  <2>2. Busy(r) /\ ~Publishing(r) /\ UNCHANGED history /\ Loaded' = Loaded
    BY <1>7 DEF Moves, Loaded
  <2>3. QED BY <2>1, <2>2 DEF AdvanceOK, Publishing, Busy, Typed
<1>8. ASSUME NEW r \in Requests, Commits(r)
      PROVE  AdvanceOK'
  <2>1. \A q \in Requests \ {r} : Busy(q)' =>
          /\ Busy(q) /\ requests'[q].kind = requests[q].kind /\ requests'[q].overtaken
          /\ requests'[q].candidate = requests[q].candidate
    BY <1>8, Others DEF Commits, Busy
  <2>2. /\ Publishing(r)' /\ Busy(r) /\ requests'[r].kind = requests[r].kind
        /\ requests'[r].candidate = requests[r].candidate
    BY <1>8, Committed DEF Commits, Publishing
  <2>3. QED BY <2>1, <2>2 DEF AdvanceOK
<1>9. ASSUME NEW r \in Requests, Publishes(r)
      PROVE  AdvanceOK'
  <2>1. \A q \in Requests : Busy(q)' =>
          /\ Busy(q) /\ requests'[q].kind = requests[q].kind /\ requests'[q].overtaken
          /\ requests'[q].candidate = requests[q].candidate
    BY <1>9, Others DEF Publishes, Busy
  <2>2. QED BY <2>1 DEF AdvanceOK
<1>10. QED
  BY <1>1, <1>2, <1>3, <1>4, <1>5, <1>6, <1>7, <1>8, <1>9, RequestSteps
  DEF Next, ProcessNext

\* Drafts are never deployed, so a process that serves the defaults instead of
\* rows it could not read starts no worker.
LEMMA DefaultsNotDeployed ==
  ASSUME NEW e \in Environments PROVE ~Deploys(e, DefaultRows)
<1>1. Weakest(DefaultRows) = "draft"
  <2>1. PICK i \in EnabledSlots(DefaultRows) :
          DefaultRows[i].status = Weakest(DefaultRows)
    BY DefaultsGood, WeakestLeast
  <2>2. QED BY <2>1, DefaultsGood DEF EnabledSlots
<1>2. ~GateAllows("draft", e)
  BY Ranks DEF GateAllows, RequiredStatus
<1>3. QED BY <1>1, <1>2 DEF Deploys

\* Every step keeps the runtimes on configurations that were approved.
LEMMA RunningStep == ASSUME Typed, RunningOK, [Next]_vars PROVE RunningOK'
<1>1. CASE UNCHANGED vars
  BY <1>1 DEF RunningOK, vars
<1>2. ASSUME NEW e \in Environments, NEW reachable \in BOOLEAN,
             Start(e) \/ StartWithoutRows(e, reachable)
      PROVE  RunningOK'
  <2>1. /\ \A r \in Requests : requests'[r] = Idle
        /\ workers' = {} /\ started' = {} /\ env' = e
        /\ EnabledSlots(slots') # {} /\ runtimes' = EnabledSymbols(slots')
        /\ phase' = "starting" => Deploys(e, slots')
    BY <1>2, Starts
  <2>2. slots' # DefaultRows => ~history'.unread
    BY <1>2, Starts DEF Typed, Memory
  <2>3. QED BY <2>1, <2>2, DefaultsNotDeployed DEF RunningOK
<1>3. CASE Down
  BY <1>3 DEF Down, RunningOK
<1>4. ASSUME NEW s \in Symbols, Deploy(s)
      PROVE  RunningOK'
  <2>1. /\ phase = "starting" /\ s \in runtimes /\ env.live
        /\ started' = started \union {s}
        /\ UNCHANGED <<env, slots, runtimes, requests, history>>
    BY <1>4 DEF Deploy
  <2>2. QED BY <2>1 DEF RunningOK
<1>5. ASSUME NEW s \in Symbols, WorkerEnds(s)
      PROVE  RunningOK'
  <2>1. /\ workers # {} /\ phase' = phase
        /\ UNCHANGED <<env, slots, runtimes, requests, history, started>>
    BY <1>5 DEF WorkerEnds
  <2>2. QED BY <2>1 DEF RunningOK
<1>6. CASE ExchangeNext
  <2>1. UNCHANGED <<phase, env, slots, runtimes, workers, started, history>>
    BY <1>6, ExchangeKeeps
  <2>2. \A r \in Requests : requests[r] = Idle => requests'[r] = Idle
    BY <1>6, ExchangeKeeps DEF Busy
  <2>3. QED BY <2>1, <2>2 DEF RunningOK
<1>7. ASSUME NEW r \in Requests, NEW h \in Handler, New(h, r)
      PROVE  RunningOK'
  <2>1. workers = {} /\ phase = "serving"
    BY <1>7 DEF New, RunningOK, Typed, TypeOK
  <2>2. QED BY <1>7, <2>1 DEF New, RunningOK, process
<1>8. ASSUME NEW r \in Requests, Moves(r) \/ Commits(r) \/ Publishes(r)
      PROVE  RunningOK'
  <2>1. workers = {} /\ phase # "starting"
    BY <1>8 DEF RunningOK, Moves, Commits, Publishes, Busy
  <2>2. QED BY <1>8, <2>1 DEF RunningOK, Moves, Commits, Publishes, process
<1>9. QED
  BY <1>1, <1>2, <1>3, <1>4, <1>5, <1>6, <1>7, <1>8, RequestSteps, BeginsSave,
     BeginsAdvance
  DEF Next, ProcessNext

-----------------------------------------------------------------------------
(* What a save has checked *)

\* While handlers are under way no worker lives, so what they have found clear
\* of positions or orders stays so, unless an order they have still to read
\* fills first.
LEMMA CheckedExchange ==
  ASSUME Typed, CheckedOK, RunningOK, ExchangeNext PROVE CheckedOK'
<1> SUFFICES ASSUME NEW r \in Requests, Busy(r)', requests'[r].kind = "save",
                    env'.credentials,
                    requests'[r].at \in {"orders", "select", "update"},
                    ~requests'[r].slipped
             PROVE  /\ \A s \in requests'[r].checked :
                         exchange'[s] \subseteq
                           IF requests'[r].at = "orders" THEN {"order"} ELSE {}
                    /\ (~requests'[r].overtaken /\ ~requests'[r].unread
                        /\ history'.doubts = {})
                         => EnabledSymbols(Loaded') \subseteq requests'[r].checked
  BY DEF CheckedOK
<1>1. /\ Busy(r) /\ requests'[r].at = requests[r].at /\ requests[r].kind = "save"
      /\ requests'[r].checked = requests[r].checked /\ ~requests[r].slipped
      /\ requests'[r].overtaken = requests[r].overtaken
      /\ requests'[r].unread = requests[r].unread
      /\ env.credentials /\ history' = history /\ Loaded' = Loaded
  BY ExchangeKeeps DEF Busy, Loaded
<1>2. /\ \A s \in requests[r].checked :
           exchange[s] \subseteq IF requests[r].at = "orders" THEN {"order"} ELSE {}
      /\ (~requests[r].overtaken /\ ~requests[r].unread /\ history.doubts = {})
           => EnabledSymbols(Loaded) \subseteq requests[r].checked
  BY <1>1 DEF CheckedOK
<1>3. workers = {}
  BY <1>1 DEF RunningOK, Busy
<1>4. requests[r] \in Handler /\ requests[r].checked \subseteq Symbols
  BY <1>1, BusyHandler DEF Handler
<1>5. PICK s \in Symbols : Fills(s) \/ Closes(s) \/ Cleared(s)
  BY <1>3 DEF ExchangeNext, WorkerOrders, WorkerSyncs
<1>6. /\ exchange' = [exchange EXCEPT ![s] = exchange'[s]]
      /\ exchange \in [Symbols -> SUBSET {"order", "position"}]
  BY <1>5 DEF Fills, Closes, Cleared, Typed, TypeOK
<1>7. s \in requests[r].checked => exchange'[s] \subseteq exchange[s]
  <2>1. CASE Fills(s)
    <3>1. requests[r].at # "orders"
      <4>1. SUFFICES ASSUME requests[r].at = "orders" PROVE FALSE
        OBVIOUS
      <4>2. requests'[r] = [requests[r] EXCEPT !.slipped = TRUE]
        BY <2>1, <4>1 DEF Fills
      <4>3. requests'[r].slipped
        BY ONLY <1>4, <4>2 DEF Handler
      <4>4. QED BY <4>3
    <3>2. QED BY <1>2, <2>1, <3>1 DEF Fills
  <2>2. CASE Closes(s) \/ Cleared(s)
    BY <1>6, <2>2 DEF Closes, Cleared
  <2>3. QED BY <1>5, <2>1, <2>2
<1>8. \A x \in requests[r].checked : exchange'[x] \subseteq exchange[x]
  BY <1>4, <1>6, <1>7
<1>9. QED BY <1>1, <1>2, <1>8

\* What a save reads covers what is stored, as far as nobody overtakes it.
LEMMA CheckedMove ==
  ASSUME Typed, CheckedOK, UnseenOK, ServedOK, NEW r \in Requests, Moves(r)
  PROVE  CheckedOK'
<1>1. /\ Busy(r) /\ ~Publishing(r) /\ UNCHANGED <<rows, env, exchange, history, runtimes>>
      /\ Loaded' = Loaded /\ requests[r] \in Handler /\ phase = "serving"
  BY BusyHandler DEF Moves, Loaded
<1>2. CASE requests' = [requests EXCEPT ![r] = Idle]
  BY <1>1, <1>2 DEF CheckedOK, Busy, Typed
<1>3. ASSUME NEW h \in Handler, Read(h, r)
      PROVE  CheckedOK'
  <2>1. requests' = [requests EXCEPT ![r] = h]
    BY <1>3 DEF Read
  <2>2. ASSUME h.kind = "save", env.credentials, h.at \in {"orders", "select", "update"},
               ~h.slipped
        PROVE  /\ \A s \in h.checked :
                    exchange[s] \subseteq IF h.at = "orders" THEN {"order"} ELSE {}
               /\ (~h.overtaken /\ ~h.unread /\ history.doubts = {})
                    => EnabledSymbols(Loaded) \subseteq h.checked
    <3>1. \A s \in h.checked : exchange[s] \subseteq {"order", "position"}
      BY DEF Typed, TypeOK, Handler
    <3>2. /\ h.kind = requests[r].kind /\ h.unread = requests[r].unread
          /\ h.slipped = requests[r].slipped /\ h.overtaken = requests[r].overtaken
      BY <1>3 DEF Read
    <3>3. CASE h.at = "orders"
      <4>1. /\ h.checked = runtimes \union EnabledSymbols(requests[r].candidate)
            /\ \A s \in h.checked : "position" \notin exchange[s]
        BY <1>3, <3>3 DEF Read
      <4>2. (~h.overtaken /\ ~h.unread /\ history.doubts = {})
              => runtimes = EnabledSymbols(Loaded)
        BY <1>1, <3>2 DEF UnseenOK, ServedOK
      <4>3. QED BY <3>1, <3>3, <4>1, <4>2
    <3>4. CASE h.at = "select"
      <4>1. /\ requests[r].at = "orders" /\ h.checked = requests[r].checked
            /\ \A s \in h.checked : "order" \notin exchange[s]
        BY <1>3, <3>4 DEF Read
      <4>2. QED BY <1>1, <2>2, <3>2, <3>4, <4>1 DEF CheckedOK
    <3>5. CASE h.at = "update"
      <4>1. requests[r].at = "select" /\ h.checked = requests[r].checked
        BY <1>3, <3>5 DEF Read
      <4>2. QED BY <1>1, <2>2, <3>2, <3>5, <4>1 DEF CheckedOK
    <3>6. QED BY <2>2, <3>3, <3>4, <3>5
  <2>3. QED BY <1>1, <2>1, <2>2 DEF CheckedOK, Busy, Typed
<1>4. QED BY <1>2, <1>3 DEF Moves

\* Every step keeps live statuses behind their checks.
LEMMA CheckedStep ==
  ASSUME Typed, CheckedOK, UnseenOK, ServedOK, RunningOK, [Next]_vars PROVE CheckedOK'
<1>1. CASE UNCHANGED vars
  BY <1>1 DEF CheckedOK, vars, Busy, Loaded
<1>2. ASSUME NEW e \in Environments, NEW reachable \in BOOLEAN,
             Start(e) \/ StartWithoutRows(e, reachable)
      PROVE  CheckedOK'
  BY <1>2, Starts DEF CheckedOK, Busy
<1>3. CASE Down \/ \E s \in Symbols : Deploy(s) \/ WorkerEnds(s)
  BY <1>3, ProcessKeeps DEF CheckedOK, Busy, Loaded
<1>4. CASE ExchangeNext
  BY <1>4, CheckedExchange
<1>5. ASSUME NEW r \in Requests, NEW h \in Handler, New(h, r),
             h.kind = "save" /\ h.at = "select" => ~env.credentials
      PROVE  CheckedOK'
  <2>1. /\ requests' = [requests EXCEPT ![r] = h] /\ h.at \in {"positions", "select"}
        /\ UNCHANGED <<env, exchange, history>> /\ Loaded' = Loaded
    BY <1>5 DEF New, process, Loaded
  <2>2. QED BY <1>5, <2>1 DEF CheckedOK, Busy, Typed
<1>6. ASSUME NEW r \in Requests, NEW config \in Submissions, BeginSave(r, config)
      PROVE  CheckedOK'
  BY <1>5, <1>6, BeginsSave
<1>7. ASSUME NEW r \in Requests, NEW target \in Statuses, BeginAdvance(r, target)
      PROVE  CheckedOK'
  BY <1>5, <1>7, BeginsAdvance
<1>8. ASSUME NEW r \in Requests, Moves(r)
      PROVE  CheckedOK'
  BY <1>8, CheckedMove
<1>9. ASSUME NEW r \in Requests, Commits(r) \/ Publishes(r)
      PROVE  CheckedOK'
  <2>1. \A q \in Requests \ {r} : Busy(q)' =>
          /\ Busy(q) /\ requests'[q].kind = requests[q].kind /\ requests'[q].overtaken
          /\ requests'[q].at = requests[q].at /\ requests'[q].checked = requests[q].checked
          /\ requests'[q].slipped = requests[q].slipped
    BY <1>9, Others DEF Commits, Publishes, Busy
  <2>2. Busy(r)' => requests'[r].at = "publish"
    BY <1>9, Committed DEF Publishes, Busy
  <2>3. UNCHANGED <<env, exchange>>
    BY <1>9 DEF Commits, Publishes, process
  <2>4. QED BY <2>1, <2>2, <2>3 DEF CheckedOK
<1>10. QED
  BY <1>1, <1>2, <1>3, <1>4, <1>6, <1>7, <1>8, <1>9, RequestSteps
  DEF Next, ProcessNext

-----------------------------------------------------------------------------
(* The theorems *)

\* Initially the database holds nothing, or the defaults at some status.
LEMMA InvInit == Init => Inv
<1> SUFFICES ASSUME Init PROVE Inv
  OBVIOUS
<1>1. /\ rows = NoRows \/ rows \in [Slots -> Row]
      /\ rows # NoRows => Traded(rows) = Defaults
      /\ \A i \in EnabledSlots(Loaded) : Loaded[i].status = Weakest(Loaded)
      /\ history.vetted \in Nat
      /\ \A i \in EnabledSlots(Loaded) : Rank(Loaded[i].status) <= history.vetted
  <2>1. CASE rows = NoRows
    <3>1. Loaded = DefaultRows /\ history.vetted = 0
      BY <2>1 DEF Init, Loaded
    <3>2. \A i \in EnabledSlots(DefaultRows) : DefaultRows[i].status = "draft"
      BY DefaultsGood DEF EnabledSlots
    <3>3. Weakest(DefaultRows) = "draft"
      BY <3>2, DefaultsGood, WeakestLeast
    <3>4. QED BY <2>1, <3>1, <3>2, <3>3, Ranks
  <2>2. CASE rows # NoRows
    <3>1. PICK status \in Statuses : rows = [i \in Slots |->
            WithStatus(Defaults[i], IF Defaults[i].enabled THEN status ELSE "draft")]
      BY <2>2 DEF Init
    <3>2. ASSUME NEW i \in Slots
          PROVE  /\ rows[i] \in Row /\ TermsOf(rows[i]) = Defaults[i]
                 /\ rows[i].enabled => rows[i].status = status
      BY <3>1, ActivationAssumption, Ranks DEF WithStatus, Row, Terms, TermsOf
    <3>3. rows \in [Slots -> Row]
      BY <3>1, <3>2
    <3>4. Traded(rows) = Defaults
      BY <3>2, ActivationAssumption DEF Traded
    <3>5. EnabledSlots(rows) # {}
      BY <3>4, DefaultsGood, SameTraded
    <3>6. \A i \in EnabledSlots(rows) : rows[i].status = status
      BY <3>2 DEF EnabledSlots
    <3>7. Weakest(rows) = status
      BY <3>3, <3>5, <3>6, WeakestLeast
    <3>8. Loaded = rows /\ Rank(status) \in {-1, 0, 1, 2, 3}
      BY <2>2, Ranks DEF Loaded
    <3>9. history.vetted = IF Rank(status) < 0 THEN 0 ELSE Rank(status)
      BY <2>2, <3>7 DEF Init
    <3>10. QED BY <2>2, <3>3, <3>4, <3>6, <3>7, <3>8, <3>9
  <2>3. QED BY <2>1, <2>2
<1>2. /\ history = [saved |-> Defaults, doubts |-> {}, unread |-> FALSE,
                    vetted |-> history.vetted]
      /\ \A r \in Requests : requests[r] = Idle
      /\ requests \in [Requests -> {Idle} \union Handler]
      /\ slots = DefaultRows /\ phase = "down" /\ workers = {} /\ started = {}
  BY DEF Init, NoRequests
<1>3. history \in Memory
  <2>1. PICK v \in Nat : history = [saved |-> Defaults, doubts |-> {}, unread |-> FALSE,
                                   vetted |-> v]
    BY <1>1, <1>2
  <2>2. Defaults \in [Slots -> Terms]
    BY ActivationAssumption
  <2>3. QED BY ONLY <2>1, <2>2 DEF Memory
<1>4. TypeOK
  BY <1>1, <1>2, DefaultsGood DEF Init, TypeOK
<1>5. Typed
  BY <1>2, <1>3, <1>4, DefaultsGood DEF Typed, Busy
<1>6. GoodOK
  <2>1. rows # NoRows => Good(rows)
    BY <1>1, DefaultsGood, SameTraded DEF Good
  <2>2. QED BY <1>2, <2>1, DefaultsGood DEF GoodOK, Busy
<1>7. VettedOK
  BY <1>1, <1>2, DefaultsGood DEF VettedOK, Vetted, Loaded
<1>8. QED
  BY <1>2, <1>5, <1>6, <1>7
  DEF Inv, UnseenOK, ServedOK, AdvanceOK, CheckedOK, RunningOK, Busy

\* The parts together are inductive.
LEMMA InvStep == Inv /\ [Next]_vars => Inv'
  BY TypedStep, GoodStep, VettedStep, UnseenStep, ServedStep, AdvanceStep, CheckedStep,
     RunningStep
  DEF Inv

\* Every variable keeps its type (activation.py, strategy_slots.py, api.py).
THEOREM ActivationTyped == Spec => []TypeOK
<1>1. Inv => TypeOK
  BY DEF Inv, Typed
<1>2. QED BY <1>1, InvInit, InvStep, PTL DEF Spec

\* As long as no commit tore rows another had changed, what is stored is what
\* somebody submitted, and can be loaded (strategy_slots.py:251).
THEOREM StoresSubmitted == Spec => []StoredAsSubmitted
<1>1. Inv => StoredAsSubmitted
  BY DEF Inv, GoodOK, Good, StoredAsSubmitted
<1>2. QED BY <1>1, InvInit, InvStep, PTL DEF Spec

\* Without doubts, no stored slot has a status its configuration has not been
\* taken to step by step since it was saved (api.py:1208, activation.py:42).
THEOREM StatusVetted == Spec => []VettedStatus
<1>1. Inv => VettedStatus
  BY DEF Inv, VettedOK, Vetted, Loaded, VettedStatus
<1>2. QED BY <1>1, InvInit, InvStep, PTL DEF Spec

\* Workers run what the gate allowed; without doubts, what was saved last and
\* approved since (api.py:163, operations.py:77).
THEOREM RunsApproved == Spec => []RunningApproved
<1>1. Inv => RunningApproved
  <2> SUFFICES ASSUME Inv, workers # {} PROVE RunningApproved
    BY DEF RunningApproved
  <2>1. /\ Deploys(env, slots) /\ EnabledSlots(slots) # {} /\ env.live
        /\ runtimes = EnabledSymbols(slots) /\ started \subseteq runtimes
        /\ ~history.unread /\ \A r \in Requests : requests[r] = Idle
    BY DEF Inv, RunningOK
  <2>2. /\ slots \in [Slots -> Row] /\ workers \subseteq started /\ phase # "down"
    BY DEF Inv, Typed, TypeOK
  <2>3. /\ \A i \in EnabledSlots(slots) : Rank(Weakest(slots)) <= Rank(slots[i].status)
        /\ \E i \in EnabledSlots(slots) : slots[i].status = Weakest(slots)
    BY <2>1, <2>2, WeakestLeast
  <2>4. /\ env.worker /\ (env.testnet \/ env.preflight)
        /\ Rank(Weakest(slots)) >= Rank(RequiredStatus(env))
    BY <2>1 DEF Deploys, GateAllows
  <2>5. Rank(RequiredStatus(env)) \in {2, 3}
    BY Ranks DEF RequiredStatus
  <2>6. ASSUME NEW i \in EnabledSlots(slots)
        PROVE  /\ slots[i].status # "retired"
               /\ Rank(slots[i].status) >= Rank(RequiredStatus(env))
    <3>1. slots[i].status \in Statuses
      BY <2>2 DEF EnabledSlots, Row
    <3>2. /\ Rank(slots[i].status) \in {-1, 0, 1, 2, 3}
          /\ Rank(Weakest(slots)) \in {-1, 0, 1, 2, 3}
      BY <2>2, <2>3, <3>1, Ranks DEF EnabledSlots, Row
    <3>3. Rank(slots[i].status) >= Rank(RequiredStatus(env))
      BY <2>3, <2>4, <2>5, <3>2
    <3>4. QED BY <2>5, <3>3, Ranks
  <2>7. ASSUME history.doubts = {}
        PROVE  /\ Traded(slots) = history.saved
               /\ Rank(RequiredStatus(env)) <= history.vetted
    <3>1. slots = Loaded
      BY <2>1, <2>2, <2>7 DEF Inv, ServedOK, Busy
    <3>2. Vetted(slots)
      BY <2>7, <3>1 DEF Inv, VettedOK
    <3>3. PICK i \in EnabledSlots(slots) : slots[i].status = Weakest(slots)
      BY <2>3
    <3>4. /\ Rank(slots[i].status) \in {-1, 0, 1, 2, 3} /\ history.vetted \in Nat
      BY <2>2, Ranks DEF EnabledSlots, Row, Inv, Typed, Memory
    <3>5. QED BY <2>5, <2>6, <3>2, <3>3, <3>4 DEF Vetted
  <2>8. QED BY <2>1, <2>2, <2>4, <2>6, <2>7 DEF RunningApproved
<1>2. QED BY <1>1, InvInit, InvStep, PTL DEF Spec

\* A save drops a symbol only when the exchange holds nothing for it, but for
\* the exceptions SaveKeepsBaskets names (api.py:858).
THEOREM SavesKeepBaskets == Spec => SaveKeepsBaskets
<1>1. ASSUME Inv, [Next]_vars, NEW r \in Requests,
             requests[r].at = "update", requests'[r].at = "publish",
             requests[r].kind = "save", env.credentials,
             ~requests[r].slipped, ~requests[r].overtaken, ~requests[r].unread,
             history.doubts = {}
      PROVE  \A s \in EnabledSymbols(Loaded) : exchange[s] = {}
  BY <1>1 DEF Inv, CheckedOK, Busy, Idle
<1>2. Inv /\ [Next]_vars =>
        [\A r \in Requests :
          (/\ requests[r].at = "update" /\ requests'[r].at = "publish"
           /\ requests[r].kind = "save" /\ env.credentials
           /\ ~requests[r].slipped /\ ~requests[r].overtaken /\ ~requests[r].unread
           /\ history.doubts = {})
          => \A s \in EnabledSymbols(Loaded) \ EnabledSymbols(rows') :
               exchange[s] = {}]_vars
  BY <1>1
<1>3. QED BY <1>2, InvInit, InvStep, PTL DEF Spec, SaveKeepsBaskets

================================================================================
