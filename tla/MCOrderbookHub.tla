--------------------------- MODULE MCOrderbookHub ---------------------------
(* Instances of OrderbookHub for TLC. *)
EXTENDS OrderbookHub, TLC

CONSTANTS c1, c2, btc

TwoClients == {c1, c2}
OneClient  == {c1}
OneMarket  == {btc}
=============================================================================
