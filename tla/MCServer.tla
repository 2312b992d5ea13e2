------------------------------ MODULE MCServer ------------------------------
(* An instance of Server for TLC.  A read has room for two pieces.         *)
EXTENDS ServerProperties, TLC

CONSTANTS c1, c2, t1, t2

\* One request comes in one piece, one in two.
Sizes == (c1 :> 1) @@ (c2 :> 2)
=============================================================================
