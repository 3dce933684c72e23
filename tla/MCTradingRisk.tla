----------------------------- MODULE MCTradingRisk -----------------------------
(* Values for the constants of TradingRisk. *)
EXTENDS TradingRisk, TLC

\* A loss and a profit, each as large as the daily limit.
LossOrProfit == {-1, 1}

TickerSymmetry == Permutations(Tickers)
===============================================================================
