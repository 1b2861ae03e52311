---------------------------- MODULE MarketDataMC ----------------------------
(* Two readers, the assets and the quote of one symbol, and a cache that   *)
(* holds one of the two.                                                   *)
EXTENDS MarketData
=============================================================================
