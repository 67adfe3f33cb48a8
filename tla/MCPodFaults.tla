---------------------------- MODULE MCPodFaults ----------------------------
(* PodFaults on small clusters and short experiments.                      *)
EXTENDS PodFaults

CONSTANTS g1, g2, w1, w2

Restart(op, id) == [op |-> op, id |-> id, grace |-> TRUE]
Terminate(op, id) == [op |-> op, id |-> id, grace |-> FALSE]
Dataloss(op, id) == Restart(op, id)

\* Prepare, then lose and recover one broker after the other.
OneAfterAnother ==
  {<<Dataloss("prepare", 0), Dataloss("delete", 1), Dataloss("recover", 1),
     Dataloss("delete", 2), Dataloss("recover", 2)>>}

\* broker-dataloss: nothing is prepared, the brokers come back by themselves.
BrokerDataloss ==
  {<<Dataloss("verify", 0), Dataloss("delete", 0), Dataloss("verify", 0),
     Dataloss("delete", 1), Dataloss("verify", 0)>>}

\* Restarts of other pods while a broker is down.
RestartsBetween ==
  {<<Dataloss("prepare", 0), Dataloss("delete", 1), k, Dataloss("recover", 1)>> :
     k \in {Restart("brokers", 0), Terminate("brokers", 0), Terminate("broker", 0),
            Terminate("gateway", 0),
            Restart("LEADER", 0), Terminate("LEADER", 0), Terminate("FOLLOWER", 0)}}

\* Deletions without dataloss, and the check that follows.
RestartAndVerify ==
  {<<k, Dataloss("verify", 0)>> :
     k \in {Restart("brokers", 0), Terminate("gateways", 0),
            Restart("worker", 0), Terminate("workers", 0)}}

\* msg-correlation and multiple-leader-restart: the leader, again and again.
Leaders ==
  {<<Terminate("LEADER", 0), Dataloss("verify", 0),
     Terminate("LEADER", 0), Dataloss("verify", 0)>>}

Experiments ==
  OneAfterAnother \cup BrokerDataloss \cup RestartsBetween \cup RestartAndVerify \cup Leaders

GatewayTwice == {<<Terminate("gateways", 0), Terminate("gateways", 0)>>}
=============================================================================
