------------------------------ MODULE MCAgent ------------------------------
(* Finite instances of Agent for TLC; the .cfg files give the constants.   *)
EXTENDS Agent

MCJitters == {-300, 300}
=============================================================================
