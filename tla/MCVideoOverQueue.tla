--------------------------- MODULE MCVideoOverQueue ---------------------------
(***************************************************************************)
(* Model-checking instance of VideoOverQueue.  In LOW_BANDWIDTH mode a     *)
(* cycle of 20 bytes gives shares of 8, 6, 4 and 2; the other traffic has  *)
(* one packet for each, and three levels fit class 1's, two class 2's.     *)
(***************************************************************************)
EXTENDS VideoOverQueue

OtherSizes == [p \in Priorities |-> 8 - 2 * p]

MCPackets == LevelPackets \cup {[tag |-> p, size |-> OtherSizes[p]] : p \in Priorities}

LowBandwidthWeights == ModeWeights.LOW_BANDWIDTH

=============================================================================
