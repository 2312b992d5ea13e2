----------------------------- MODULE MCOrderBook -----------------------------
(***************************************************************************)
(* An instance of OrderBook for TLC with books deeper than those Exchange  *)
(* can be checked on.                                                      *)
(***************************************************************************)
EXTENDS OrderBookProperties, TLC

CONSTANTS a1, a2, s1

Offers == [account : {a1, a2}, symbol : {s1}, amount : {-2, 1, 2}, limit : {1, 2}]
          \cup [account : {a1}, symbol : {s1}, amount : {-1, 0}, limit : {1}]

OpeningTables ==
  [cash |-> (a1 :> 5), held |-> [p \in {a1, a2} \X {s1} |-> IF p[1] = a1 THEN 3 ELSE 0],
   listed |-> {}]
=============================================================================
