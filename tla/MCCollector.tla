---------------------------- MODULE MCCollector ----------------------------
(* Finite instances of Collector for TLC; the .cfg files give the constants. *)
EXTENDS Collector
=============================================================================
