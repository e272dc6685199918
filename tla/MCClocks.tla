------------------------------ MODULE MCClocks ------------------------------
(* A finite instance of Clocks for TLC.  Offsets that authentication admits *)
(* at its limits, that it just refuses, and in between.                     *)
EXTENDS Clocks

MCOffsets == {-2, -1, 0, 2, 3}
=============================================================================
