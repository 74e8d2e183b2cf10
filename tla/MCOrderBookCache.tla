-------------------------- MODULE MCOrderBookCache --------------------------
(* Instances of OrderBookCache for TLC. *)
EXTENDS OrderBookCache, TLC

CONSTANTS tick, sub

MCReaders == {tick, sub}
=============================================================================
