--------------------------- MODULE MCBridgePositions ---------------------------
(* Values for the constants of BridgePositions. *)
EXTENDS BridgePositions, TLC

\* Nothing in the bridge reads the daily PnL: one result is enough.
MCResults == {1}

TickerSymmetry == Permutations(Tickers)
===============================================================================
