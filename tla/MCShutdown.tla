---------------------------- MODULE MCShutdown ----------------------------
(***************************************************************************)
(* Instances of Shutdown for TLC.                                          *)
(***************************************************************************)
EXTENDS Shutdown, TLC

CONSTANTS s1, s2, c1, w1, w2

MCWorkerOf == s1 :> w1 @@ s2 :> w2
=============================================================================
