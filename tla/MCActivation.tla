----------------------------- MODULE MCActivation -----------------------------
(* Two slots, two symbols; submissions that differ in symbols, and two that  *)
(* must be refused: a symbol enabled twice, and two strategy versions.       *)
EXTENDS Activation, TLC

CONSTANTS hype, btc

Slot(enabled, symbol, version) ==
  [enabled |-> enabled, symbol |-> symbol, allocation |-> 1, version |-> version]

MCDefaults == 1 :> Slot(TRUE, hype, 1) @@ 2 :> Slot(FALSE, btc, 1)

MCSubmissions ==
  {1 :> Slot(TRUE, btc, 1) @@ 2 :> Slot(FALSE, btc, 1),
   1 :> Slot(TRUE, hype, 1) @@ 2 :> Slot(TRUE, btc, 1),
   1 :> Slot(TRUE, hype, 1) @@ 2 :> Slot(TRUE, hype, 1),
   1 :> Slot(TRUE, hype, 1) @@ 2 :> Slot(TRUE, btc, 2)}

Environment(testnet, preflight, live, worker, activeSymbols) ==
  [testnet |-> testnet, preflight |-> preflight, live |-> live, worker |-> worker,
   credentials |-> TRUE, activeSymbols |-> activeSymbols]

\* A preview on mainnet, a live testnet, and a live mainnet trial.
MCEnvironments ==
  {Environment(FALSE, FALSE, FALSE, FALSE, 2), Environment(TRUE, FALSE, TRUE, TRUE, 2),
   Environment(FALSE, TRUE, TRUE, TRUE, 1)}

RequestSymmetry == Permutations(Requests)
=============================================================================
