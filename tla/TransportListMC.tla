--------------------------- MODULE TransportListMC --------------------------
(* Constants for TLC.                                                       *)
EXTENDS TransportList
Writers == {"w1", "w2"}
Readers == {"r1"}
=============================================================================
