-------------------------- MODULE MCClusterScaling --------------------------
(* ClusterScaling on small clusters.                                       *)
EXTENDS ClusterScaling

CONSTANTS c1, c2

\* One process changes the cluster, the other one waits for its changes.
OneChanges == [c \in Clients |-> IF c = c1 THEN {"scale", "failover", "wait"} ELSE {"wait"}]
AllScale == [c \in Clients |-> {"scale", "wait"}]
=============================================================================
