---------------------------- MODULE MCMouseReport ----------------------------
(* A move to the left with the left button, a fast one up and to the right, *)
(* a turn of the wheel; some of their bytes can be taken for a header.     *)
EXTENDS MouseReport

SomePackets == {<<25, 248, 0, 0>>, <<8, 60, 12, 0>>, <<9, 0, 0, 255>>}

ASSUME PacketsAreReal == WellBehaved
=============================================================================
