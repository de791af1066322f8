----------------------------- MODULE MCMarketData -----------------------------
(* MarketData for TLC. *)
EXTENDS MarketData
===============================================================================
