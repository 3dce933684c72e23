------------------------------ MODULE MCPredictor ------------------------------
(***************************************************************************)
(* The predictor alone, with one event of two tickers that have a model.   *)
(***************************************************************************)
EXTENDS Predictor

CONSTANTS gazp, sber

MCWhitelist == {gazp, sber}
MCInputs    == {[tickers |-> <<gazp, sber>>, financial |-> TRUE]}
===============================================================================
