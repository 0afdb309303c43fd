---------------------------- MODULE MCDataFetch ----------------------------
(* Four fetches on three threads, of a symbol that is asked for twice and  *)
(* of a delisted one.                                                      *)
EXTENDS DataFetch
CONSTANTS SPY, XOM, BTC
Repeated == <<SPY, XOM, SPY, BTC>>
=============================================================================
