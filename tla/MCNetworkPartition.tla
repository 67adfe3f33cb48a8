------------------------- MODULE MCNetworkPartition -------------------------
(* NetworkPartition on small clusters.                                     *)
EXTENDS NetworkPartition

CONSTANTS b1, b2, b3, g1, c1
=============================================================================
