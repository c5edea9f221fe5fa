----------------------------- MODULE MCPortfolio -----------------------------
(***************************************************************************)
(* Instances of Portfolio for TLC: what .cfg files cannot write.           *)
(***************************************************************************)
EXTENDS Portfolio, TLC

CONSTANTS hype, ondo

TwoSymbols == {hype, ondo}

\* An entry of one unit and a DCA of two.
GrowingCost == (0 :> 1) @@ (1 :> 2)

\* Leverages differ from symbol to symbol.
MixedLeverage == (hype :> 1) @@ (ondo :> 2)

\* One symbol's entry changes its identity, the other's fills above its price.
OneRequoted == (hype :> 2) @@ (ondo :> 1)
OneSlips == (hype :> 0) @@ (ondo :> 1)

\* Neither.
OneQuote == (hype :> 1) @@ (ondo :> 1)
NoSlippage == (hype :> 0) @@ (ondo :> 0)
===============================================================================
