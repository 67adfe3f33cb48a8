--------------------------- MODULE ClusterScaling ---------------------------
(***************************************************************************)
(* zbchaos cluster scale, wait and forceFailover (cmd/cluster.go,          *)
(* internal/statefulset.go).                                               *)
(*                                                                         *)
(* Two systems have to agree on the size of the cluster: zeebe, whose      *)
(* members join and leave as operations of a topology change, and          *)
(* kubernetes, whose statefulset has one pod per ordinal.  A scale command *)
(* asks zeebe for a change, waits for it by polling the topology, and sets *)
(* the replicas of the statefulset: before the wait when the cluster       *)
(* grows, after it when it shrinks.                                        *)
(*                                                                         *)
(* Zeebe runs one change at a time and refuses others meanwhile.  A change *)
(* may fail half way.  Priorities, regions of pods and the content of      *)
(* partitions are left out; replication factors change no state here.      *)
(***************************************************************************)
EXTENDS Integers, FiniteSets

CONSTANTS
  Clients,        \* zbchaos processes
  MayRun,         \* the commands each of them runs
  Regions, Region,\* forceFailover --regions, --regionId
  Faults,         \* TRUE: queries, answers, changes and clients may fail
  Polls,          \* iterations of waitForChange (60 to 300 in the code)
  MaxBrokers, MaxPartitions, MaxChanges   \* bounds

NodeIds == 0..(MaxBrokers - 1)
FirstNodes(n) == 0..(n - 1)
ChangeIds == 1..MaxChanges
NoChange == [id |-> 0]

ASSUME ScalingAssumption ==
  /\ MayRun \in [Clients -> SUBSET {"scale", "wait", "failover"}]
  /\ Regions \in Nat \ {0} /\ Region \in 0..(Regions - 1)
  /\ Faults \in BOOLEAN
  /\ {Polls, MaxBrokers, MaxPartitions, MaxChanges} \subseteq Nat \ {0}

VARIABLES
  legacy,      \* zeebe before 8.6: there is no PATCH endpoint
  members,     \* node ids of the brokers in the zeebe topology
  partitions,  \* the highest partition id in it
  pending,     \* topology.PendingChange
  lastChange,  \* topology.LastChange, id 0 for none
  finished,    \* history: how each change ended
  replicas,    \* spec.replicas of the statefulset
  pods,        \* status.replicas: pods 0..pods-1 exist
  client       \* the command a process runs

zeebe == <<legacy, members, partitions, pending, lastChange, finished>>
kube  == <<replicas, pods>>
vars  == <<zeebe, kube, client>>

Kinds == {"none", "up", "down", "partitions", "wait", "failover"}
Pcs == {"idle", "request", "scale", "pods", "wait", "await brokers", "done"}
Results == {"none", "completed", "outdated", "failed", "no change", "timeout"}
ClientStates ==
  [pc : Pcs, kind : Kinds, brokers : 0..MaxBrokers, partitions : 0..MaxPartitions,
   remove : SUBSET NodeIds, change : 0..MaxChanges, iter : 0..Polls,
   result : Results]
Idle == [pc |-> "idle", kind |-> "none", brokers |-> 0, partitions |-> 0, remove |-> {},
         change |-> 0, iter |-> 0, result |-> "none"]
PendingChanges ==
  [id : ChangeIds, target : SUBSET NodeIds, partitions : 1..MaxPartitions, force : BOOLEAN]

TypeOK ==
  /\ legacy \in BOOLEAN
  /\ members \subseteq NodeIds
  /\ partitions \in 1..MaxPartitions
  /\ pending \in PendingChanges \cup {NoChange}
  /\ lastChange \in [id : 0..MaxChanges, status : {"none", "COMPLETED", "FAILED"}]
  /\ finished \in [ChangeIds -> {"none", "COMPLETED", "FAILED"}]
  /\ replicas \in 1..MaxBrokers
  /\ pods \in 0..MaxBrokers
  /\ client \in [Clients -> ClientStates]

Init ==
  /\ legacy \in BOOLEAN
  /\ replicas \in 1..MaxBrokers
  /\ pods = replicas
  /\ members = FirstNodes(replicas)
  /\ partitions = 1
  /\ pending = NoChange
  /\ lastChange = [id |-> 0, status |-> "none"]
  /\ finished = [k \in ChangeIds |-> "none"]
  /\ client = [c \in Clients |-> Idle]

\* The bound on the number of changes.
MoreChanges == lastChange.id < MaxChanges

Free(c) == client[c].pc \in {"idle", "done"}
Become(c, x) == client' = [client EXCEPT ![c] = x]
At(c, pc) == client[c].pc = pc

-----------------------------------------------------------------------------
(* The zeebe cluster and kubernetes.                                       *)

\* What the coordinator accepts: no cluster without brokers, no fewer partitions.
Acceptable(target, parts) == pending = NoChange /\ target # {} /\ parts >= partitions

\* The coordinator accepts a change and numbers it.
Accept(target, parts, force) ==
  /\ Acceptable(target, parts)
  /\ MoreChanges
  /\ pending' = [id |-> lastChange.id + 1, target |-> target,
                 partitions |-> parts, force |-> force]
  /\ UNCHANGED <<legacy, members, partitions, lastChange, finished>>

HasPod(b) == b < pods

\* One operation of the pending change: both a join and an orderly leave need
\* the broker, a forced removal does not.
Join(b) ==
  /\ pending # NoChange
  /\ b \in pending.target \ members
  /\ HasPod(b)
  /\ members' = members \cup {b}
  /\ UNCHANGED <<legacy, partitions, pending, lastChange, finished, kube, client>>

Leave(b) ==
  /\ pending # NoChange
  /\ b \in members \ pending.target
  /\ pending.force \/ HasPod(b)
  /\ members' = members \ {b}
  /\ UNCHANGED <<legacy, partitions, pending, lastChange, finished, kube, client>>

EndChange(status) ==
  /\ pending # NoChange
  /\ lastChange' = [id |-> pending.id, status |-> status]
  /\ finished' = [finished EXCEPT ![pending.id] = status]
  /\ pending' = NoChange
  /\ UNCHANGED <<legacy, members, kube, client>>

ChangeCompletes ==
  /\ EndChange("COMPLETED")
  /\ members = pending.target
  /\ partitions' = pending.partitions

\* An operation fails, or an operator cancels the change.
ChangeFails ==
  /\ Faults
  /\ EndChange("FAILED")
  /\ UNCHANGED partitions

PodAdded ==
  /\ pods < replicas
  /\ pods' = pods + 1
  /\ UNCHANGED <<zeebe, replicas, client>>

\* The pod with the highest ordinal goes first.
PodRemoved ==
  /\ pods > replicas
  /\ pods' = pods - 1
  /\ UNCHANGED <<zeebe, replicas, client>>

-----------------------------------------------------------------------------
(* Starting a command.                                                     *)

\* scaleCluster looks at the topology once and decides what to do.  Flags
\* that were not given are 0 here.
ScaleKind(brokers, parts, rf) ==
  LET n == Cardinality(members) IN
  CASE brokers > 0 /\ n > brokers                          -> "down"
    [] ~(brokers > 0 /\ n > brokers) /\ n < brokers        -> "up"
    [] OTHER -> IF partitions <= parts \/ (rf /\ parts = 0) THEN "partitions" ELSE "none"

StartScale(c, brokers, parts, rf) ==
  /\ "scale" \in MayRun[c]
  /\ Free(c) /\ MoreChanges
  /\ brokers > 0 \/ parts > 0 \/ rf
  /\ pending = NoChange        \* otherwise "cluster is already scaling"
  /\ LET kind == ScaleKind(brokers, parts, rf)
     IN  /\ kind # "none"
         /\ Become(c, [Idle EXCEPT !.pc = "request", !.kind = kind, !.brokers = brokers,
                         \* scaleDownBrokers passes no partition count on
                         !.partitions = IF kind = "down" THEN 0 ELSE parts])
  /\ UNCHANGED <<zeebe, kube>>

\* changeId 0: whatever change is found.
StartWait(c, k) ==
  /\ "wait" \in MayRun[c]
  /\ Free(c)
  /\ Become(c, [Idle EXCEPT !.pc = "wait", !.kind = "wait", !.change = k])
  /\ UNCHANGED <<zeebe, kube>>

StartFailover(c, brokers) ==
  /\ "failover" \in MayRun[c]
  /\ Free(c) /\ MoreChanges
  /\ Become(c, [Idle EXCEPT !.pc = "await brokers", !.kind = "failover", !.brokers = brokers])
  /\ UNCHANGED <<zeebe, kube>>

\* The command ends with an error: a panic, or an error that is returned.
Abort(c) == Become(c, Idle)

\* Mutant: the region to keep and the one to remove are mixed up.
RemovesOwnRegion(c) ==
  /\ At(c, "await brokers")
  /\ Cardinality(members) = client[c].brokers
  /\ pending = NoChange
  /\ Become(c, [client[c] EXCEPT !.pc = "request", !.iter = 0,
                       !.remove = {b \in members : b % Regions = Region}])
  /\ UNCHANGED <<zeebe, kube>>

\* forceFailover polls until the topology has the expected number of brokers.
AwaitBrokers(c) ==
  /\ At(c, "await brokers")
  /\ IF client[c].iter = Polls THEN Abort(c)
     ELSE IF Cardinality(members) # client[c].brokers
          THEN Become(c, [client[c] EXCEPT !.iter = @ + 1])
     ELSE IF pending # NoChange THEN Abort(c)
     ELSE Become(c, [client[c] EXCEPT !.pc = "request", !.iter = 0,
                       !.remove = {b \in members : b % Regions # Region}])
  /\ UNCHANGED <<zeebe, kube>>

BrokersQueryFails(c) ==
  /\ Faults
  /\ At(c, "await brokers")
  /\ client[c].iter < Polls
  /\ Become(c, [client[c] EXCEPT !.iter = @ + 1])
  /\ UNCHANGED <<zeebe, kube>>

-----------------------------------------------------------------------------
(* The request.                                                            *)

\* The brokers the cluster is to have.  PATCH is given their number, or the brokers
\* to remove; after a 405 the same list goes to the legacy POST, which takes it for
\* the brokers to have: none are listed for partitions (cluster.go:118), and for a
\* failover it lists those to remove (cluster.go:388).
Target(c) ==
  CASE client[c].kind \in {"up", "down"} -> FirstNodes(client[c].brokers)
    [] client[c].kind = "partitions"     -> IF legacy THEN {} ELSE members
    [] client[c].kind = "failover"       ->
         IF legacy THEN client[c].remove ELSE members \ client[c].remove

\* The legacy POST has no number of partitions.
Parts(c) == IF legacy \/ client[c].partitions = 0 THEN partitions ELSE client[c].partitions

Accepted(c) ==
  /\ At(c, "request")
  /\ Accept(Target(c), Parts(c), client[c].kind = "failover")
  /\ UNCHANGED kube

\* Mutant: a scale up waits before it adds pods.
WaitsForJoinFirst(c) ==
  /\ Accepted(c)
  /\ Become(c, [client[c] EXCEPT !.change = lastChange.id + 1,
                  !.pc = IF client[c].kind = "partitions" THEN "done" ELSE "wait"])

Request(c) ==
  /\ Accepted(c)
  /\ Become(c, [client[c] EXCEPT !.change = lastChange.id + 1,
                  !.pc = CASE client[c].kind = "up"         -> "scale"
                           [] client[c].kind = "partitions" -> "done"
                           [] OTHER                         -> "wait"])

\* The answer is lost: a nil response is read.
AnswerLost(c) ==
  /\ Faults
  /\ Accepted(c)
  /\ Abort(c)

RequestRefused(c) ==
  /\ At(c, "request")
  /\ Faults \/ ~MoreChanges \/ ~Acceptable(Target(c), Parts(c))
  /\ Abort(c)
  /\ UNCHANGED <<zeebe, kube>>

-----------------------------------------------------------------------------
(* ScaleZeebeCluster: the write, retried on conflict, then a wait without  *)
(* a bound.                                                                *)

UpdateScale(c) ==
  /\ At(c, "scale")
  /\ replicas' = client[c].brokers
  /\ Become(c, [client[c] EXCEPT !.pc = "pods"])
  /\ UNCHANGED <<zeebe, pods>>

\* A change that makes the cluster grow is waited for now, one that made it
\* shrink has been waited for.
ReplicasReached(c) ==
  /\ At(c, "pods")
  /\ pods = client[c].brokers
  /\ Become(c, [client[c] EXCEPT !.pc = IF client[c].kind = "up" THEN "wait" ELSE "done"])
  /\ UNCHANGED <<zeebe, kube>>

-----------------------------------------------------------------------------
(* waitForChange.                                                          *)

\* Mutant: a change that is not in the topology is taken for an old one.
UnknownIsOutdated(k) ==
  IF lastChange.id > 0 /\ lastChange.id = k
  THEN IF lastChange.status = "COMPLETED" THEN "completed" ELSE "failed"
  ELSE IF lastChange.id > 0 THEN "outdated"
  ELSE IF pending # NoChange /\ pending.id = k THEN "pending" ELSE "unknown"

\* describeChangeStatus.
ChangeStatus(k) ==
  IF lastChange.id > 0 /\ lastChange.id = k
  THEN IF lastChange.status = "COMPLETED" THEN "completed" ELSE "failed"
  ELSE IF lastChange.id > 0 /\ lastChange.id > k THEN "outdated"
  ELSE IF pending # NoChange /\ pending.id = k THEN "pending" ELSE "unknown"

\* Mutant: a scale down drops the result of its wait, as a scale up does.
EndWaitUnchecked(c, k, result) ==
  Become(c, [client[c] EXCEPT !.change = k, !.result = result,
               !.pc = IF client[c].kind = "down" THEN "scale" ELSE "done"])

\* The wait ends.  scaleDownBrokers goes on only if it ended well,
\* scaleUpBrokers drops the result.
EndWait(c, k, result) ==
  Become(c, [client[c] EXCEPT !.change = k, !.result = result,
               !.pc = IF client[c].kind = "down" /\ result \in {"completed", "outdated"}
                      THEN "scale" ELSE "done"])

\* Mutant: a change that has not started yet does not count as an iteration.
PollsForEver(c) ==
  /\ At(c, "wait")
  /\ client[c].iter < Polls
  /\ LET k == client[c].change
         status == ChangeStatus(k)
     IN  IF status \in {"completed", "outdated", "failed"} THEN EndWait(c, k, status)
         ELSE Become(c, [client[c] EXCEPT !.change = k,
                           !.iter = IF status = "unknown" THEN @ ELSE @ + 1])
  /\ UNCHANGED <<zeebe, kube>>

\* Mutant: an adopted change that is still pending is looked at as the last one.
AdoptsNext(c) ==
  /\ At(c, "wait")
  /\ client[c].iter < Polls
  /\ LET k == IF client[c].change > 0 THEN client[c].change
              ELSE IF pending # NoChange THEN pending.id + 1 ELSE lastChange.id
         status == ChangeStatus(k)
     IN  IF k = 0 THEN EndWait(c, k, "no change")
         ELSE IF status \in {"completed", "outdated", "failed"} THEN EndWait(c, k, status)
         ELSE Become(c, [client[c] EXCEPT !.change = k, !.iter = @ + 1])
  /\ UNCHANGED <<zeebe, kube>>

\* One iteration with an answer.
Poll(c) ==
  /\ At(c, "wait")
  /\ client[c].iter < Polls
  /\ LET known == client[c].change
         k == IF known > 0 THEN known
              ELSE IF pending # NoChange THEN pending.id ELSE lastChange.id
         status == ChangeStatus(k)
     IN  IF k = 0 THEN EndWait(c, k, "no change")
         ELSE IF status \in {"completed", "outdated", "failed"} THEN EndWait(c, k, status)
         ELSE Become(c, [client[c] EXCEPT !.change = k, !.iter = @ + 1])
  /\ UNCHANGED <<zeebe, kube>>

\* One without: "continue", without the sleep.
QueryFails(c) ==
  /\ Faults
  /\ At(c, "wait")
  /\ client[c].iter < Polls
  /\ Become(c, [client[c] EXCEPT !.iter = @ + 1])
  /\ UNCHANGED <<zeebe, kube>>

GiveUp(c) ==
  /\ At(c, "wait")
  /\ client[c].iter = Polls
  /\ EndWait(c, client[c].change, "timeout")
  /\ UNCHANGED <<zeebe, kube>>

\* The process ends between two steps of a command.
Crash(c) ==
  /\ Faults
  /\ ~Free(c)
  /\ Abort(c)
  /\ UNCHANGED <<zeebe, kube>>

Step(c) ==
  \/ AwaitBrokers(c) \/ BrokersQueryFails(c)
  \/ Request(c) \/ AnswerLost(c) \/ RequestRefused(c)
  \/ UpdateScale(c) \/ ReplicasReached(c)
  \/ Poll(c) \/ QueryFails(c) \/ GiveUp(c)

Command(c) ==
  \/ \E n \in 0..MaxBrokers, parts \in 0..MaxPartitions, rf \in BOOLEAN :
       StartScale(c, n, parts, rf)
  \/ \E k \in 0..MaxChanges : StartWait(c, k)
  \/ \E n \in 1..MaxBrokers : StartFailover(c, n)
  \/ Crash(c)

Environment ==
  \/ \E b \in NodeIds : Join(b) \/ Leave(b)
  \/ ChangeCompletes \/ ChangeFails
  \/ PodAdded \/ PodRemoved

Next == (\E c \in Clients : Command(c) \/ Step(c)) \/ Environment

Spec == Init /\ [][Next]_vars

-----------------------------------------------------------------------------
(* Safety.                                                                 *)

\* "Wait for brokers to leave before scaling down" (cluster.go:137): when a
\* scale down gives up pods, no broker of theirs is a member any more, whatever
\* failed, timed out or was abandoned by a crash before.
BrokersLeaveFirst ==
  \A c \in Clients :
    At(c, "scale") /\ client[c].kind = "down" =>
      \A b \in members : b < client[c].brokers

\* A wait says "completed" only of a change that completed and "outdated" only
\* of one that ended; it never ends well for a change that is still to come.
WaitVerdictSound ==
  \A c \in Clients :
    LET x == client[c] IN
    /\ x.result = "completed" => finished[x.change] = "COMPLETED"
    /\ x.result = "failed"    => finished[x.change] = "FAILED"
    /\ x.result = "outdated"  => finished[x.change] # "none"

\* A failover that reports success has left brokers of the chosen region only,
\* and has cost the cluster no broker of that region.  Zeebe has to know the PATCH
\* request: before 8.6 the fallback keeps the brokers it was to remove.
FailoverKeepsRegion ==
  \A c \in Clients :
    ~legacy /\ client[c].kind = "failover" /\ client[c].result = "completed" =>
      /\ \A b \in members : b % Regions = Region
      /\ Cardinality(members) = client[c].brokers - Cardinality(client[c].remove)

-----------------------------------------------------------------------------
(* Liveness.                                                               *)

\* What a command does when nothing fails.
Progress(c) ==
  \/ AwaitBrokers(c) \/ Request(c) \/ RequestRefused(c)
  \/ UpdateScale(c) \/ ReplicasReached(c)
  \/ Poll(c) \/ GiveUp(c)

\* Commands, operations and kubernetes make progress; no failure has to happen.
ScalingFairness ==
  /\ \A c \in Clients : WF_vars(Progress(c))
  /\ WF_vars(\E b \in NodeIds : Join(b) \/ Leave(b))
  /\ WF_vars(ChangeCompletes)
  /\ WF_vars(PodAdded \/ PodRemoved)

ScalingSpec == Spec /\ ScalingFairness

\* The process that asked for the pending change is gone.
Orphaned == \A c \in Clients : client[c].kind = "wait" \/ client[c].change # pending.id

\* A broker that has to leave cannot any more: a scale down failed half way, and
\* a scale up by the number of members that were left took its pod.
Stranded == \E b \in members \ pending.target : ~HasPod(b)

\* An accepted change comes to its end: when the cluster grows the pods are
\* there for the brokers to join, when it shrinks none is gone too early.  Only
\* a process that died (cluster.go:131) or a scale after one that failed half
\* way (cluster.go:127) can leave it pending, and every scale is refused then.
ChangesEnd ==
  \/ pending # NoChange ~> pending = NoChange
  \/ <>[](pending # NoChange /\ (Orphaned \/ Stranded))

\* Every command ends, with or without success; a wait for a change that never
\* comes is one of them.
CommandsEnd == \A c \in Clients : ~Free(c) ~> Free(c)
=============================================================================
