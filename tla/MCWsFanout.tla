---------------------------- MODULE MCWsFanout ----------------------------
(***************************************************************************)
(* An instance of WsFanout for TLC: a client that filters for one of two   *)
(* nodes.                                                                  *)
(***************************************************************************)
EXTENDS WsFanout, TLC

CONSTANTS n1, n2, c1, r1

MCOne == c1 :> {n1}
MCSnapshots == n1 :> 2 @@ n2 :> 0
=============================================================================
