----------------------- MODULE ClusterScaling_proofs -----------------------
(***************************************************************************)
(* What a wait says of a change is true for any number of processes that   *)
(* scale, fail over and wait at once.  As long as only one of them asks    *)
(* for changes, a scale down gives no pod of a member away and a failover  *)
(* that succeeds leaves the brokers of its region (those of the others,    *)
(* before zeebe 8.6), for any size of the cluster, any number of changes   *)
(* and whatever fails in between.                                          *)
(*                                                                         *)
(* None of these is inductive.  NumberingInv says how zeebe numbers its    *)
(* changes, which makes a look at the last one tell about all the earlier  *)
(* ones.  CommandInv says what a command has by the step it has come to,   *)
(* and ChangerInv what the one process that asks for changes knows of      *)
(* them: that the pending change, or else the last one, is its own, and    *)
(* which brokers that change leaves.                                       *)
(***************************************************************************)
EXTENDS ClusterScaling, FiniteSetTheorems, TLAPS

\* Changes are asked for by one process at a time; any number of them may wait.
OneChanger ==
  \A c, d \in Clients :
    MayRun[c] \cap {"scale", "failover"} # {} /\ MayRun[d] \cap {"scale", "failover"} # {}
      => c = d

\* Changes end in the order of their numbers, and the pending one is the next.
NumberingInv ==
  /\ \A k \in ChangeIds : finished[k] # "none" <=> k <= lastChange.id
  /\ lastChange.id > 0 => lastChange.status = finished[lastChange.id]
  /\ pending # NoChange => pending.id = lastChange.id + 1

Verdicts == {"completed", "failed", "outdated"}

\* A command at the step it has come to, and the change it tells about.
CommandInv(x) ==
  /\ x.pc = "request" => x.kind \in {"up", "down", "partitions", "failover"}
  /\ x.pc \in {"scale", "pods"} => x.kind \in {"up", "down"}
  /\ x.pc = "await brokers" => x.kind = "failover"
  /\ x.kind \in {"up", "down"} => x.brokers > 0
  /\ x.pc \in {"request", "wait", "await brokers"} => x.result = "none"
  /\ x.pc \in {"scale", "pods"} /\ x.kind = "up" => x.result = "none"
  /\ x.result \in Verdicts => x.change \in ChangeIds /\ finished[x.change] # "none"
  /\ x.result = "completed" => finished[x.change] = "COMPLETED"
  /\ x.result = "failed" => finished[x.change] = "FAILED"

\* The brokers that the request of x asks zeebe to leave.
Wanted(x, S) ==
  /\ x.kind = "down" => S = FirstNodes(x.brokers)
  /\ x.kind = "failover" /\ ~legacy =>
       /\ \A b \in S : b % Regions = Region
       /\ Cardinality(S) = x.brokers - Cardinality(x.remove)
  /\ x.kind = "failover" /\ legacy =>
       S = x.remove /\ \A b \in S : b % Regions # Region

ChangerInv(c, x) ==
  /\ x.kind \in {"up", "down", "partitions"} => "scale" \in MayRun[c]
  /\ x.kind = "failover" => "failover" \in MayRun[c]
  /\ x.kind \in {"down", "failover"} =>
       /\ x.pc = "request" => pending = NoChange
       /\ x.pc = "wait" =>
            /\ x.change \in ChangeIds /\ lastChange.id <= x.change
            /\ pending # NoChange => pending.id = x.change /\ Wanted(x, pending.target)
            /\ pending = NoChange => lastChange.id = x.change
            /\ finished[x.change] = "COMPLETED" => Wanted(x, members)
       /\ x.pc = "scale" \/ x.result = "completed" =>
            pending = NoChange /\ Wanted(x, members)
  /\ x.kind = "failover" /\ x.pc = "request" =>
       /\ Cardinality(members) = x.brokers
       /\ x.remove = {b \in members : b % Regions # Region}

ScalingInv ==
  /\ TypeOK /\ NumberingInv
  /\ \A c \in Clients : CommandInv(client[c])
  /\ OneChanger => \A c \in Clients : ChangerInv(c, client[c])

-----------------------------------------------------------------------------
LEMMA NodeSets ==
  ASSUME NEW S \in SUBSET NodeIds
  PROVE  IsFiniteSet(S) /\ Cardinality(S) \in Nat
<1>1. IsFiniteSet(NodeIds)
  BY ScalingAssumption, FS_Interval DEF NodeIds
<1> QED
  BY <1>1, FS_Subset, FS_CardinalityType

LEMMA FirstNodesTyped ==
  ASSUME NEW n \in 0..MaxBrokers
  PROVE  FirstNodes(n) \in SUBSET NodeIds
BY ScalingAssumption DEF FirstNodes, NodeIds

LEMMA IdleTyped == Idle \in ClientStates
BY ScalingAssumption DEF Idle, ClientStates, Pcs, Kinds, Results

LEMMA InitScaling == Init => ScalingInv
<1> SUFFICES ASSUME Init PROVE ScalingInv
  OBVIOUS
<1>1. TypeOK
  <2>1. members \subseteq NodeIds
    BY FirstNodesTyped DEF Init
  <2>2. /\ lastChange \in [id : 0..MaxChanges, status : {"none", "COMPLETED", "FAILED"}]
        /\ legacy \in BOOLEAN
    BY ScalingAssumption DEF Init
  <2>3. pods \in 0..MaxBrokers /\ partitions \in 1..MaxPartitions
    BY ScalingAssumption DEF Init
  <2> QED
    BY IdleTyped, <2>1, <2>2, <2>3 DEF Init, TypeOK
<1>2. NumberingInv
  BY DEF Init, NumberingInv, ChangeIds
<1>3. \A c \in Clients : CommandInv(client[c]) /\ ChangerInv(c, client[c])
  BY DEF Init, CommandInv, ChangerInv, Idle, Verdicts
<1> QED
  BY <1>1, <1>2, <1>3 DEF ScalingInv

\* A command moves on and zeebe stays as it is: only the command is to be
\* looked at.
LEMMA CommandMoves ==
  ASSUME ScalingInv, NEW c \in Clients, NEW x \in ClientStates, Become(c, x),
         UNCHANGED zeebe, replicas' \in 1..MaxBrokers, UNCHANGED pods,
         CommandInv(x), OneChanger => ChangerInv(c, x)
  PROVE  ScalingInv'
<1> USE DEF zeebe
<1>1. TypeOK'
  BY DEF ScalingInv, TypeOK, Become
<1>2. NumberingInv'
  BY DEF ScalingInv, NumberingInv
<1>3. /\ client'[c] = x
      /\ \A d \in Clients : d # c => client'[d] = client[d]
  BY DEF ScalingInv, TypeOK, Become
<1>4. ASSUME NEW d \in Clients PROVE CommandInv(client[d])'
  BY <1>3 DEF ScalingInv, CommandInv
<1>5. ASSUME OneChanger, NEW d \in Clients PROVE ChangerInv(d, client[d])'
  <2>1. ChangerInv(d, client'[d])
    BY <1>3, <1>5 DEF ScalingInv
  <2> QED
    BY <2>1 DEF ChangerInv, Wanted
<1> QED
  BY <1>1, <1>2, <1>4, <1>5 DEF ScalingInv, OneChanger

LEMMA AbortKeeps ==
  ASSUME ScalingInv, NEW c \in Clients, Abort(c), UNCHANGED <<zeebe, kube>>
  PROVE  ScalingInv'
<1>1. CommandInv(Idle) /\ ChangerInv(c, Idle)
  BY DEF Idle, CommandInv, ChangerInv, Verdicts
<1>2. replicas' \in 1..MaxBrokers /\ UNCHANGED pods
  BY DEF ScalingInv, TypeOK, kube
<1> QED
  BY IdleTyped, <1>1, <1>2, CommandMoves DEF Abort

\* The brokers that a failover keeps.
LEMMA RegionCount ==
  ASSUME NEW S \in SUBSET NodeIds, NEW R, R = {b \in S : b % Regions # Region}
  PROVE  /\ R \in SUBSET NodeIds
         /\ \A b \in S \ R : b % Regions = Region
         /\ Cardinality(S \ R) = Cardinality(S) - Cardinality(R)
<1>1. R \in SUBSET NodeIds /\ S \cap R = R /\ \A b \in S \ R : b % Regions = Region
  OBVIOUS
<1>2. Cardinality(S \ R) = Cardinality(S) - Cardinality(S \cap R)
  BY NodeSets, FS_Difference
<1> QED
  BY <1>1, <1>2

LEMMA StartKeeps ==
  ASSUME ScalingInv, NEW c \in Clients, Command(c)
  PROVE  ScalingInv'
<1>1. replicas' \in 1..MaxBrokers /\ UNCHANGED <<zeebe, pods>>
  BY DEF Command, StartScale, StartWait, StartFailover, Crash, kube, ScalingInv, TypeOK
<1>2. ASSUME NEW n \in 0..MaxBrokers, NEW parts \in 0..MaxPartitions, NEW rf \in BOOLEAN,
             StartScale(c, n, parts, rf)
      PROVE  ScalingInv'
  <2> DEFINE kind == ScaleKind(n, parts, rf)
             x == [Idle EXCEPT !.pc = "request", !.kind = kind, !.brokers = n,
                               !.partitions = IF kind = "down" THEN 0 ELSE parts]
  <2>1. Become(c, x) /\ kind # "none" /\ "scale" \in MayRun[c] /\ pending = NoChange
    BY <1>2 DEF StartScale
  <2>2. Cardinality(members) \in Nat
    BY NodeSets DEF ScalingInv, TypeOK
  <2>3. /\ kind \in {"up", "down", "partitions"}
        /\ kind \in {"up", "down"} => n > 0
    BY <2>1, <2>2 DEF ScaleKind
  <2> HIDE DEF kind
  <2>4. x \in ClientStates
    <3>1. /\ "request" \in Pcs /\ kind \in Kinds
          /\ (IF kind = "down" THEN 0 ELSE parts) \in 0..MaxPartitions
      BY <2>3, ScalingAssumption DEF Kinds, Pcs
    <3> QED
      BY ONLY <3>1, IdleTyped, n \in 0..MaxBrokers DEF ClientStates
  <2>5. /\ x.pc = "request" /\ x.kind = kind /\ x.brokers = n /\ x.result = "none"
    BY DEF Idle
  <2> HIDE DEF x
  <2>6. CommandInv(x) /\ ChangerInv(c, x)
    BY <2>1, <2>3, <2>5 DEF CommandInv, ChangerInv, Verdicts
  <2> QED
    BY <1>1, <2>1, <2>4, <2>6, CommandMoves
<1>3. ASSUME NEW k \in 0..MaxChanges, StartWait(c, k) PROVE ScalingInv'
  <2> DEFINE x == [Idle EXCEPT !.pc = "wait", !.kind = "wait", !.change = k]
  <2>1. Become(c, x)
    BY <1>3 DEF StartWait
  <2>2. x \in ClientStates
    <3>1. "wait" \in Pcs /\ "wait" \in Kinds /\ k \in 0..MaxChanges
      BY DEF Kinds, Pcs
    <3> QED
      BY ONLY <3>1, IdleTyped DEF ClientStates
  <2>3. CommandInv(x) /\ ChangerInv(c, x)
    BY DEF Idle, CommandInv, ChangerInv, Verdicts
  <2> QED
    BY <1>1, <2>1, <2>2, <2>3, CommandMoves
<1>4. ASSUME NEW n \in 1..MaxBrokers, StartFailover(c, n) PROVE ScalingInv'
  <2> DEFINE x == [Idle EXCEPT !.pc = "await brokers", !.kind = "failover", !.brokers = n]
  <2>1. Become(c, x) /\ "failover" \in MayRun[c]
    BY <1>4 DEF StartFailover
  <2>2. x \in ClientStates
    <3>1. "await brokers" \in Pcs /\ "failover" \in Kinds /\ n \in 0..MaxBrokers
      BY DEF Kinds, Pcs
    <3> QED
      BY ONLY <3>1, IdleTyped DEF ClientStates
  <2>3. CommandInv(x) /\ ChangerInv(c, x)
    BY <2>1 DEF Idle, CommandInv, ChangerInv, Verdicts
  <2> QED
    BY <1>1, <2>1, <2>2, <2>3, CommandMoves
<1>5. ASSUME Crash(c) PROVE ScalingInv'
  BY <1>5, AbortKeeps DEF Crash
<1> QED
  BY <1>2, <1>3, <1>4, <1>5 DEF Command

LEMMA AwaitKeeps ==
  ASSUME ScalingInv, NEW c \in Clients, AwaitBrokers(c) \/ BrokersQueryFails(c)
  PROVE  ScalingInv'
<1> DEFINE y == client[c]
           longer == [y EXCEPT !.iter = @ + 1]
           R == {b \in members : b % Regions # Region}
           asks == [y EXCEPT !.pc = "request", !.iter = 0, !.remove = R]
<1>1. /\ y \in ClientStates /\ CommandInv(y) /\ (OneChanger => ChangerInv(c, y))
      /\ members \in SUBSET NodeIds
  BY DEF ScalingInv, TypeOK
<1>2. y.pc = "await brokers" /\ y.kind = "failover" /\ y.result = "none"
  BY <1>1 DEF AwaitBrokers, BrokersQueryFails, At, CommandInv
<1>3. replicas' \in 1..MaxBrokers /\ UNCHANGED <<zeebe, kube, pods>>
  BY DEF AwaitBrokers, BrokersQueryFails, kube, ScalingInv, TypeOK
<1>4. ASSUME Become(c, longer), y.iter # Polls PROVE ScalingInv'
  <2>1. longer \in ClientStates
    BY <1>1, <1>4, ScalingAssumption DEF ClientStates
  <2>2. /\ longer.pc = y.pc /\ longer.kind = y.kind /\ longer.result = y.result
    BY <1>1 DEF ClientStates
  <2>3. CommandInv(longer) /\ (OneChanger => ChangerInv(c, longer))
    BY <1>1, <1>2, <2>2 DEF CommandInv, ChangerInv, Verdicts
  <2> QED
    BY <1>3, <1>4, <2>1, <2>3, CommandMoves
<1>5. ASSUME Become(c, asks), Cardinality(members) = y.brokers, pending = NoChange
      PROVE  ScalingInv'
  <2>1. asks \in ClientStates
    <3>1. R \in SUBSET NodeIds
      BY <1>1
    <3>2. 0 \in 0..Polls /\ "request" \in Pcs
      BY ScalingAssumption DEF Pcs
    <3> HIDE DEF R
    <3>3. y \in ClientStates
      BY <1>1
    <3> HIDE DEF y
    <3> QED
      BY ONLY <3>1, <3>2, <3>3 DEF ClientStates
  <2>2. /\ asks.pc = "request" /\ asks.kind = y.kind /\ asks.result = y.result
        /\ asks.brokers = y.brokers /\ asks.remove = R
    BY <1>1 DEF ClientStates
  <2>3. CommandInv(asks) /\ (OneChanger => ChangerInv(c, asks))
    BY <1>1, <1>2, <1>5, <2>2 DEF CommandInv, ChangerInv, Verdicts
  <2> QED
    BY <1>3, <1>5, <2>1, <2>3, CommandMoves
<1>6. CASE AwaitBrokers(c)
  BY <1>3, <1>4, <1>5, <1>6, AbortKeeps DEF AwaitBrokers, kube
<1>7. CASE BrokersQueryFails(c)
  <2>1. y.iter \in 0..Polls
    BY <1>1 DEF ClientStates
  <2>2. Become(c, longer) /\ y.iter < Polls
    BY <1>7 DEF BrokersQueryFails
  <2> QED
    BY <1>4, <2>1, <2>2, ScalingAssumption
<1> QED
  BY <1>6, <1>7

-----------------------------------------------------------------------------
\* A change is accepted, and the process that asked for it dies or goes on.
LEMMA AcceptedKeeps ==
  ASSUME ScalingInv, NEW c \in Clients, Accepted(c), NEW x \in ClientStates, Become(c, x),
         \/ x = Idle
         \/ /\ x.kind = client[c].kind /\ x.brokers = client[c].brokers
            /\ x.remove = client[c].remove /\ x.result = client[c].result
            /\ x.change = lastChange.id + 1
            /\ \/ x.kind = "up" /\ x.pc = "scale"
               \/ x.kind = "partitions" /\ x.pc = "done"
               \/ x.kind \in {"down", "failover"} /\ x.pc = "wait"
  PROVE  ScalingInv'
<1> DEFINE y == client[c]
<1>1. /\ y \in ClientStates /\ CommandInv(y) /\ (OneChanger => ChangerInv(c, y))
      /\ members \in SUBSET NodeIds /\ lastChange.id \in 0..MaxChanges
      /\ client \in [Clients -> ClientStates]
      /\ partitions \in 1..MaxPartitions
  BY DEF ScalingInv, TypeOK
<1> DEFINE parts == Parts(c)
<1>2. parts \in {y.partitions, partitions} /\ Accept(Target(c), parts, y.kind = "failover")
  BY DEF Accepted, Parts
<1>3. /\ y.pc = "request" /\ y.kind \in {"up", "down", "partitions", "failover"}
      /\ y.result = "none"
  BY <1>1 DEF Accepted, At, CommandInv
<1>4. /\ pending = NoChange /\ lastChange.id + 1 \in ChangeIds
      /\ pending' = [id |-> lastChange.id + 1, target |-> Target(c), partitions |-> parts,
                     force |-> y.kind = "failover"]
      /\ parts >= partitions
      /\ UNCHANGED <<legacy, members, partitions, lastChange, finished, kube>>
  BY <1>1, <1>2, ScalingAssumption DEF Accept, Acceptable, Accepted, MoreChanges, ChangeIds
<1> HIDE DEF parts
<1>5. Target(c) \in SUBSET NodeIds
  <2>1. FirstNodes(y.brokers) \in SUBSET NodeIds /\ y.remove \in SUBSET NodeIds
    BY <1>1, FirstNodesTyped DEF ClientStates
  <2> QED
    BY <1>1, <1>3, <2>1 DEF Target
<1>6. /\ client'[c] = x
      /\ \A d \in Clients : d # c => client'[d] = client[d]
  BY <1>1 DEF Become
<1>7. TypeOK'
  <2>1. pending' \in PendingChanges
    <3>1. parts \in 1..MaxPartitions
      BY <1>1, <1>2, <1>4, ScalingAssumption DEF ClientStates
    <3>2. (y.kind = "failover") \in BOOLEAN
      OBVIOUS
    <3> HIDE DEF y
    <3> QED
      BY ONLY <1>4, <1>5, <3>1, <3>2 DEF PendingChanges
  <2>2. client' \in [Clients -> ClientStates]
    BY <1>1 DEF Become
  <2> QED
    BY <1>4, <2>1, <2>2 DEF ScalingInv, TypeOK, kube
<1>8. pending'.id = lastChange.id + 1 /\ pending'.target = Target(c)
  BY <1>4
<1>9. NumberingInv'
  BY <1>4, <1>8 DEF ScalingInv, NumberingInv
<1>10. finished[lastChange.id + 1] = "none"
  BY <1>1, <1>4 DEF ScalingInv, NumberingInv
<1>11. ASSUME NEW d \in Clients PROVE CommandInv(client[d])'
  <2>1. CommandInv(Idle)
    BY DEF Idle, CommandInv, Verdicts
  <2>2. CommandInv(x)
    BY <1>1, <1>3, <2>1 DEF CommandInv, Verdicts
  <2>3. CommandInv(client'[d])
    BY <1>6, <2>2 DEF ScalingInv
  <2> QED
    BY <1>4, <2>3 DEF CommandInv
<1>12. ASSUME OneChanger, NEW d \in Clients PROVE ChangerInv(d, client[d])'
  <2>1. ChangerInv(c, y)
    BY <1>1, <1>12
  <2>2. CASE d # c
    <3>1. MayRun[c] \cap {"scale", "failover"} # {}
      BY <1>3, <2>1 DEF ChangerInv
    <3>2. MayRun[d] \cap {"scale", "failover"} = {}
      BY <1>12, <2>2, <3>1 DEF OneChanger
    <3>3. ChangerInv(d, client[d]) /\ client'[d] = client[d]
      BY <1>6, <1>12, <2>2 DEF ScalingInv
    <3> QED
      BY <3>2, <3>3 DEF ChangerInv
  <2>3. CASE d = c /\ x = Idle
    BY <1>6, <2>3 DEF ChangerInv, Idle
  <2>4. CASE d = c /\ x # Idle
    <3>1. Wanted(x, Target(c))
      <4>1. CASE x.kind = "down"
        BY <2>4, <4>1 DEF Wanted, Target
      <4>2. CASE x.kind = "failover"
        <5>1. /\ Cardinality(members) = y.brokers
              /\ y.remove = {b \in members : b % Regions # Region}
          BY <1>3, <2>1, <2>4, <4>2, IdleTyped DEF ChangerInv
        <5>2. Target(c) = IF legacy THEN x.remove ELSE members \ x.remove
          BY <2>4, <4>2 DEF Target
        <5>3. CASE legacy
          BY <2>4, <4>2, <5>1, <5>2, <5>3 DEF Wanted
        <5>4. CASE ~legacy
          BY <1>1, <2>4, <4>2, <5>1, <5>2, <5>4, RegionCount DEF Wanted
        <5> QED
          BY <5>3, <5>4
      <4> QED
        BY <4>1, <4>2 DEF Wanted
    <3>2. pending' # NoChange
      BY <1>1, <1>8 DEF NoChange
    <3> QED
      BY <1>1, <1>3, <1>4, <1>6, <1>8, <1>10, <2>1, <2>4, <3>1, <3>2 DEF ChangerInv, Wanted
  <2> QED
    BY <2>2, <2>3, <2>4
<1> QED
  BY <1>7, <1>9, <1>11, <1>12 DEF ScalingInv, OneChanger

LEMMA RequestKeeps ==
  ASSUME ScalingInv, NEW c \in Clients, Request(c) \/ AnswerLost(c) \/ RequestRefused(c)
  PROVE  ScalingInv'
<1> DEFINE y == client[c]
           pc == CASE y.kind = "up"         -> "scale"
                   [] y.kind = "partitions" -> "done"
                   [] OTHER                 -> "wait"
           x == [y EXCEPT !.change = lastChange.id + 1, !.pc = pc]
<1>1. CASE Request(c)
  <2>1. Accepted(c) /\ Become(c, x)
    BY <1>1 DEF Request
  <2>2. y \in ClientStates /\ y.kind \in {"up", "down", "partitions", "failover"}
    BY <2>1 DEF Accepted, At, ScalingInv, CommandInv, TypeOK
  <2>3. lastChange.id + 1 \in 0..MaxChanges /\ pc \in Pcs
    BY <2>1, <2>2, ScalingAssumption
    DEF Accepted, Accept, MoreChanges, ScalingInv, TypeOK, Pcs
  <2>4. x \in ClientStates
    <3> HIDE DEF pc, y
    <3> QED
      BY ONLY <2>2, <2>3 DEF ClientStates
  <2>5. /\ x.kind = y.kind /\ x.brokers = y.brokers /\ x.remove = y.remove
        /\ x.result = y.result /\ x.change = lastChange.id + 1 /\ x.pc = pc
    <3> HIDE DEF pc, y
    <3> QED
      BY ONLY <2>2, <2>3 DEF ClientStates
  <2> HIDE DEF x
  <2> QED
    BY <2>1, <2>2, <2>4, <2>5, AcceptedKeeps
<1>2. CASE AnswerLost(c)
  BY <1>2, IdleTyped, AcceptedKeeps DEF AnswerLost, Abort
<1>3. CASE RequestRefused(c)
  BY <1>3, AbortKeeps DEF RequestRefused
<1> QED
  BY <1>1, <1>2, <1>3

-----------------------------------------------------------------------------
LEMMA ReplicasKeep ==
  ASSUME ScalingInv, NEW c \in Clients, UpdateScale(c) \/ ReplicasReached(c)
  PROVE  ScalingInv'
<1> DEFINE y == client[c]
           moved(pc) == [y EXCEPT !.pc = pc]
<1>1. y \in ClientStates /\ CommandInv(y) /\ (OneChanger => ChangerInv(c, y))
  BY DEF ScalingInv, TypeOK
<1>2. ASSUME NEW pc \in {"pods", "done", "wait"}, Become(c, moved(pc)),
             y.pc \in {"scale", "pods"}, pc = "wait" <=> (y.pc = "pods" /\ y.kind = "up"),
             UNCHANGED <<zeebe, pods>>, replicas' \in 1..MaxBrokers
      PROVE  ScalingInv'
  <2>1. moved(pc) \in ClientStates
    <3>1. pc \in Pcs
      BY DEF Pcs
    <3> HIDE DEF y
    <3> QED
      BY ONLY <1>1, <3>1 DEF ClientStates
  <2>2. /\ moved(pc).pc = pc /\ moved(pc).kind = y.kind /\ moved(pc).result = y.result
        /\ moved(pc).brokers = y.brokers /\ moved(pc).change = y.change
        /\ moved(pc).remove = y.remove
    BY <1>1 DEF ClientStates
  <2> HIDE DEF moved, y
  <2>3. CommandInv(moved(pc))
    BY <1>1, <1>2, <2>2 DEF CommandInv, Verdicts
  <2>4. ASSUME OneChanger PROVE ChangerInv(c, moved(pc))
    <3>1. y.kind \in {"up", "down"}
      BY <1>1, <1>2 DEF CommandInv
    <3> QED
      BY <1>1, <1>2, <2>2, <2>4, <3>1 DEF ChangerInv, Wanted
  <2> QED
    BY <1>2, <2>1, <2>3, <2>4, CommandMoves DEF y
<1>3. CASE UpdateScale(c)
  <2>1. y.brokers \in 1..MaxBrokers
    BY <1>1, <1>3, ScalingAssumption DEF UpdateScale, At, CommandInv, ClientStates
  <2> QED
    BY <1>2, <1>3, <2>1 DEF UpdateScale, At
<1>4. CASE ReplicasReached(c)
  <2>1. replicas' \in 1..MaxBrokers
    BY <1>4 DEF ReplicasReached, ScalingInv, TypeOK, kube
  <2> QED
    BY <1>2, <1>4, <2>1 DEF ReplicasReached, At, kube
<1> QED
  BY <1>3, <1>4

\* A look at the last change tells about every change that ended.
LEMMA StatusTells ==
  ASSUME ScalingInv, NEW k \in ChangeIds
  PROVE  /\ ChangeStatus(k) = "completed" => finished[k] = "COMPLETED"
         /\ ChangeStatus(k) = "failed" => finished[k] = "FAILED"
         /\ ChangeStatus(k) = "outdated" => lastChange.id > k /\ finished[k] # "none"
<1>1. /\ lastChange.id \in 0..MaxChanges /\ k \in 1..MaxChanges
      /\ finished[k] \in {"none", "COMPLETED", "FAILED"}
  BY DEF ScalingInv, TypeOK, ChangeIds
<1>2. lastChange.id >= k => finished[k] # "none"
  BY <1>1, ScalingAssumption DEF ScalingInv, NumberingInv
<1>3. lastChange.id = k => lastChange.status = finished[k]
  BY <1>1, ScalingAssumption DEF ScalingInv, NumberingInv
<1> QED
  BY <1>1, <1>2, <1>3, ScalingAssumption DEF ChangeStatus

\* A wait ends: what it says of change k is true.
LEMMA EndWaitKeeps ==
  ASSUME ScalingInv, NEW c \in Clients, At(c, "wait"), UNCHANGED <<zeebe, kube>>,
         NEW k \in 0..MaxChanges, NEW result \in Results, EndWait(c, k, result),
         client[c].change > 0 => k = client[c].change,
         result \in Verdicts => k \in ChangeIds /\ finished[k] # "none",
         result = "completed" => finished[k] = "COMPLETED",
         result = "failed" => finished[k] = "FAILED",
         result = "outdated" => lastChange.id > k
  PROVE  ScalingInv'
<1> DEFINE y == client[c]
           pc == IF y.kind = "down" /\ result \in {"completed", "outdated"}
                 THEN "scale" ELSE "done"
           x == [y EXCEPT !.change = k, !.result = result, !.pc = pc]
<1>1. /\ y \in ClientStates /\ CommandInv(y) /\ (OneChanger => ChangerInv(c, y))
      /\ y.pc = "wait" /\ lastChange.id \in 0..MaxChanges
      /\ pc \in {"scale", "done"}
      /\ pc = "scale" => y.kind = "down" /\ result \in {"completed", "outdated"}
  BY DEF ScalingInv, TypeOK, At
<1>2. Become(c, x) /\ replicas' \in 1..MaxBrokers /\ UNCHANGED <<zeebe, pods>>
  BY DEF EndWait, ScalingInv, TypeOK, kube
<1> HIDE DEF pc
<1>3. x \in ClientStates
  <2>1. pc \in Pcs
    BY <1>1 DEF Pcs
  <2> HIDE DEF y
  <2> QED
    BY ONLY <1>1, <2>1, k \in 0..MaxChanges, result \in Results DEF ClientStates
<1>4. /\ x.kind = y.kind /\ x.brokers = y.brokers /\ x.remove = y.remove
      /\ x.result = result /\ x.change = k /\ x.pc = pc
  BY <1>1 DEF ClientStates
<1> HIDE DEF x, y
<1>5. CommandInv(x)
  BY <1>1, <1>4 DEF CommandInv, Verdicts
<1>6. ASSUME OneChanger PROVE ChangerInv(c, x)
  <2>1. ChangerInv(c, y)
    BY <1>1, <1>6
  <2>2. CASE y.kind \in {"down", "failover"}
    <3>1. /\ y.change \in ChangeIds /\ lastChange.id <= y.change
          /\ pending # NoChange => pending.id = y.change
          /\ finished[y.change] = "COMPLETED" => Wanted(y, members)
      BY <1>1, <2>1, <2>2 DEF ChangerInv
    <3>2. k = y.change
      BY <3>1 DEF y, ChangeIds
    <3>3. result # "outdated"
      BY <1>1, <3>1, <3>2
    <3>4. result = "completed" => pending = NoChange /\ Wanted(x, members)
      <4>1. ASSUME result = "completed", pending # NoChange PROVE FALSE
        BY <1>1, <3>1, <3>2, <4>1 DEF ScalingInv, NumberingInv
      <4>2. result = "completed" => Wanted(x, members)
        BY <1>4, <3>1, <3>2 DEF Wanted
      <4> QED
        BY <4>1, <4>2
    <3>5. x.pc = "scale" \/ x.result = "completed" => result = "completed"
      BY <1>1, <1>4, <3>3
    <3> QED
      BY <1>1, <1>4, <2>1, <3>4, <3>5 DEF ChangerInv
  <2>3. CASE y.kind \notin {"down", "failover"}
    BY <1>1, <1>4, <2>1, <2>3 DEF ChangerInv
  <2> QED
    BY <2>2, <2>3
<1> QED
  BY <1>2, <1>3, <1>5, <1>6, CommandMoves

LEMMA WaitKeeps ==
  ASSUME ScalingInv, NEW c \in Clients, Poll(c) \/ QueryFails(c) \/ GiveUp(c)
  PROVE  ScalingInv'
<1> DEFINE y == client[c]
           looked(k) == [y EXCEPT !.change = k, !.iter = @ + 1]
           longer == [y EXCEPT !.iter = @ + 1]
<1>1. /\ y \in ClientStates /\ CommandInv(y) /\ (OneChanger => ChangerInv(c, y))
      /\ lastChange.id \in 0..MaxChanges
  BY DEF ScalingInv, TypeOK
<1>2. At(c, "wait") /\ y.pc = "wait" /\ UNCHANGED <<zeebe, kube>>
  BY DEF Poll, QueryFails, GiveUp, At
<1>3. replicas' \in 1..MaxBrokers /\ UNCHANGED pods
  BY <1>2 DEF ScalingInv, TypeOK, kube
<1>4. ASSUME NEW x \in ClientStates, Become(c, x), x.pc = y.pc, x.kind = y.kind,
             x.brokers = y.brokers, x.remove = y.remove, x.result = y.result,
             y.change > 0 => x.change = y.change
      PROVE  ScalingInv'
  <2>1. CommandInv(x)
    BY <1>1, <1>2, <1>4 DEF CommandInv, Verdicts
  <2>2. ASSUME OneChanger PROVE ChangerInv(c, x)
    BY <1>1, <1>2, <1>4, <2>2 DEF ChangerInv, Wanted, ChangeIds
  <2> QED
    BY <1>2, <1>3, <1>4, <2>1, <2>2, CommandMoves
<1>5. ASSUME NEW k \in 0..MaxChanges, Become(c, looked(k)), y.iter < Polls,
             y.change > 0 => k = y.change
      PROVE  ScalingInv'
  <2>1. y.iter + 1 \in 0..Polls
    BY <1>1, <1>5, ScalingAssumption DEF ClientStates
  <2>2. looked(k) \in ClientStates
    <3>1. y \in ClientStates
      BY <1>1
    <3> HIDE DEF y
    <3> QED
      BY ONLY <2>1, <3>1, k \in 0..MaxChanges DEF ClientStates
  <2>3. /\ looked(k).pc = y.pc /\ looked(k).kind = y.kind /\ looked(k).brokers = y.brokers
        /\ looked(k).remove = y.remove /\ looked(k).result = y.result
        /\ looked(k).change = k
    BY <1>1 DEF ClientStates
  <2> HIDE DEF looked
  <2> QED
    BY <1>4, <1>5, <2>2, <2>3
<1>6. CASE Poll(c)
  <2> DEFINE k == IF y.change > 0 THEN y.change
                  ELSE IF pending # NoChange THEN pending.id ELSE lastChange.id
             status == ChangeStatus(k)
  <2>1. k \in 0..MaxChanges
    <3>1. y.change \in 0..MaxChanges
      BY <1>1 DEF ClientStates
    <3>2. pending # NoChange => pending.id \in 0..MaxChanges
      BY ScalingAssumption DEF ScalingInv, TypeOK, PendingChanges, ChangeIds
    <3> QED
      BY <1>1, <3>1, <3>2
  <2>2. \/ k = 0 /\ EndWait(c, k, "no change")
        \/ k # 0 /\ status \in {"completed", "outdated", "failed"} /\ EndWait(c, k, status)
        \/ y.iter < Polls /\ Become(c, looked(k))
    BY <1>6 DEF Poll
  <2>3. y.change > 0 => k = y.change
    OBVIOUS
  <2> HIDE DEF k
  <2>4. CASE k = 0 /\ EndWait(c, k, "no change")
    BY <1>2, <2>1, <2>3, <2>4, EndWaitKeeps DEF Results, Verdicts
  <2>5. CASE k # 0 /\ status \in {"completed", "outdated", "failed"} /\ EndWait(c, k, status)
    <3>1. k \in ChangeIds
      BY <2>1, <2>5, ScalingAssumption DEF ChangeIds
    <3>2. /\ status = "completed" => finished[k] = "COMPLETED"
          /\ status = "failed" => finished[k] = "FAILED"
          /\ status = "outdated" => lastChange.id > k /\ finished[k] # "none"
      BY <3>1, StatusTells
    <3> HIDE DEF status
    <3>3. status \in Results
      BY <2>5 DEF Results
    <3> QED
      BY <1>2, <2>1, <2>3, <2>5, <3>1, <3>2, <3>3, EndWaitKeeps
  <2>6. CASE y.iter < Polls /\ Become(c, looked(k))
    BY <1>5, <2>1, <2>3, <2>6
  <2> QED
    BY <2>2, <2>4, <2>5, <2>6
<1>7. CASE QueryFails(c)
  <2>1. y.iter < Polls /\ Become(c, longer)
    BY <1>7 DEF QueryFails
  <2>2. y.iter + 1 \in 0..Polls
    BY <1>1, <2>1, ScalingAssumption DEF ClientStates
  <2>3. longer \in ClientStates
    <3>1. y \in ClientStates
      BY <1>1
    <3> HIDE DEF y
    <3> QED
      BY ONLY <2>2, <3>1 DEF ClientStates
  <2>4. /\ longer.pc = y.pc /\ longer.kind = y.kind /\ longer.brokers = y.brokers
        /\ longer.remove = y.remove /\ longer.result = y.result /\ longer.change = y.change
    BY <1>1 DEF ClientStates
  <2> HIDE DEF longer
  <2> QED
    BY <1>4, <2>1, <2>3, <2>4
<1>8. CASE GiveUp(c)
  <2>1. y.change \in 0..MaxChanges /\ EndWait(c, y.change, "timeout")
    BY <1>1, <1>8 DEF GiveUp, ClientStates
  <2> QED
    BY <1>2, <2>1, EndWaitKeeps DEF Results, Verdicts
<1> QED
  BY <1>6, <1>7, <1>8

-----------------------------------------------------------------------------
LEMMA OperationKeeps ==
  ASSUME ScalingInv, NEW b \in NodeIds, Join(b) \/ Leave(b)
  PROVE  ScalingInv'
<1>1. /\ pending # NoChange /\ members' \in SUBSET NodeIds
      /\ UNCHANGED <<legacy, partitions, pending, lastChange, finished, replicas, pods, client>>
  BY DEF Join, Leave, kube, ScalingInv, TypeOK
<1>2. TypeOK' /\ NumberingInv'
  BY <1>1 DEF ScalingInv, TypeOK, NumberingInv
<1>3. ASSUME NEW c \in Clients PROVE CommandInv(client[c])'
  BY <1>1, <1>3 DEF ScalingInv, CommandInv
<1>4. ASSUME OneChanger, NEW c \in Clients PROVE ChangerInv(c, client[c])'
  <2>1. ChangerInv(c, client[c]) /\ client'[c] = client[c] /\ CommandInv(client[c])
    BY <1>1, <1>4 DEF ScalingInv
  <2>2. /\ lastChange.id \in 0..MaxChanges /\ pending.id = lastChange.id + 1
        /\ \A k \in ChangeIds : finished[k] # "none" <=> k <= lastChange.id
    BY <1>1 DEF ScalingInv, TypeOK, NumberingInv
  <2> DEFINE y == client[c]
  <2>3. CASE y.kind \in {"down", "failover"}
    <3>1. ~(y.pc \in {"request", "scale"} \/ y.result = "completed")
      BY <1>1, <2>1, <2>3 DEF ChangerInv
    <3>2. y.pc = "wait" => y.change = pending.id /\ finished[y.change] = "none"
      BY <1>1, <2>1, <2>2, <2>3 DEF ChangerInv, ChangeIds
    <3> QED
      BY <1>1, <2>1, <2>3, <3>1, <3>2 DEF ChangerInv, Wanted
  <2>4. CASE y.kind \notin {"down", "failover"}
    BY <1>1, <2>1, <2>4 DEF ChangerInv
  <2> QED
    BY <2>3, <2>4
<1> QED
  BY <1>2, <1>3, <1>4 DEF ScalingInv, OneChanger

\* The pending change becomes the last one, and ends one way only.
LEMMA EndKeeps ==
  ASSUME ScalingInv, ChangeCompletes \/ ChangeFails
  PROVE  ScalingInv'
<1>1. PICK status \in {"COMPLETED", "FAILED"} :
        /\ EndChange(status)
        /\ status = "COMPLETED" => members = pending.target
  BY DEF ChangeCompletes, ChangeFails
<1> DEFINE id == pending.id
<1>2. /\ pending # NoChange /\ lastChange.id \in 0..MaxChanges /\ id = lastChange.id + 1
      /\ id \in ChangeIds /\ pending \in PendingChanges
      /\ finished \in [ChangeIds -> {"none", "COMPLETED", "FAILED"}]
  BY <1>1 DEF EndChange, ScalingInv, TypeOK, NumberingInv, PendingChanges
<1>3. /\ lastChange' = [id |-> id, status |-> status] /\ pending' = NoChange
      /\ finished' = [finished EXCEPT ![id] = status]
      /\ UNCHANGED <<legacy, members, replicas, pods, client>>
  BY <1>1 DEF EndChange, kube
<1> HIDE DEF id
<1>4. /\ lastChange'.id = id /\ lastChange'.status = status /\ finished'[id] = status
      /\ \A k \in ChangeIds : k # id => finished'[k] = finished[k]
  BY <1>2, <1>3
<1>5. partitions' \in 1..MaxPartitions
  BY <1>2 DEF ChangeCompletes, ChangeFails, ScalingInv, TypeOK, PendingChanges
<1>6. TypeOK'
  <2>1. lastChange' \in [id : 0..MaxChanges, status : {"none", "COMPLETED", "FAILED"}]
    BY <1>2, <1>3, ScalingAssumption DEF ChangeIds
  <2>2. finished' \in [ChangeIds -> {"none", "COMPLETED", "FAILED"}]
    BY <1>2, <1>3
  <2> QED
    BY <1>3, <1>5, <2>1, <2>2 DEF ScalingInv, TypeOK
<1>7. finished[id] = "none"
  BY <1>2 DEF ScalingInv, NumberingInv
<1>8. NumberingInv'
  <2>1. ASSUME NEW k \in ChangeIds PROVE finished'[k] # "none" <=> k <= id
    <3>1. finished[k] # "none" <=> k <= lastChange.id
      BY DEF ScalingInv, NumberingInv
    <3> QED
      BY <1>2, <1>4, <3>1, ScalingAssumption DEF ChangeIds
  <2> QED
    BY <1>3, <1>4, <2>1 DEF NumberingInv
<1>9. ASSUME NEW c \in Clients PROVE CommandInv(client[c])'
  <2> DEFINE y == client[c]
  <2>1. CommandInv(y) /\ client'[c] = y
    BY <1>3, <1>9 DEF ScalingInv
  <2> HIDE DEF y
  <2>2. y.result \in Verdicts => finished'[y.change] = finished[y.change]
    BY <1>4, <1>7, <2>1 DEF CommandInv
  <2>3. y.result \in {"completed", "failed"} => y.result \in Verdicts
    BY DEF Verdicts
  <2> QED
    BY <2>1, <2>2, <2>3 DEF CommandInv
<1>10. ASSUME OneChanger, NEW c \in Clients PROVE ChangerInv(c, client[c])'
  <2> DEFINE y == client[c]
  <2>1. ChangerInv(c, y) /\ client'[c] = y /\ CommandInv(y)
    BY <1>3, <1>10 DEF ScalingInv
  <2> HIDE DEF y
  <2>2. CASE y.kind \notin {"down", "failover"}
    BY <2>1, <2>2 DEF ChangerInv
  <2>3. CASE y.kind \in {"down", "failover"}
    <3>1. ~(y.pc \in {"request", "scale"} \/ y.result = "completed")
      BY <1>2, <2>1, <2>3 DEF ChangerInv
    <3>2. y.pc = "wait" => /\ y.change = id /\ y.change \in ChangeIds
                           /\ Wanted(y, pending.target)
      BY <1>2, <2>1, <2>3 DEF ChangerInv, id
    <3>3. y.pc = "wait" /\ status = "COMPLETED" => Wanted(y, members')
      BY <1>1, <1>3, <3>2
    <3>4. Wanted(y, members') => Wanted(y, members)'
      BY <1>3 DEF Wanted, y
    <3> QED
      BY <1>2, <1>3, <1>4, <2>1, <2>3, <3>1, <3>2, <3>3 DEF ChangerInv, Wanted
  <2> QED
    BY <2>2, <2>3
<1> QED
  BY <1>6, <1>8, <1>9, <1>10 DEF ScalingInv, OneChanger

LEMMA ScalingInductive == ScalingInv /\ [Next]_vars => ScalingInv'
<1> SUFFICES ASSUME ScalingInv, [Next]_vars PROVE ScalingInv'
  OBVIOUS
<1>1. ASSUME NEW c \in Clients, Command(c) \/ Step(c) PROVE ScalingInv'
  BY <1>1, StartKeeps, AwaitKeeps, RequestKeeps, ReplicasKeep, WaitKeeps DEF Step
<1>2. CASE Environment
  <2>1. ASSUME PodAdded \/ PodRemoved PROVE ScalingInv'
    <3>1. /\ pods' \in 0..MaxBrokers
          /\ UNCHANGED <<legacy, members, partitions, pending, lastChange, finished, replicas,
                         client>>
      BY <2>1, ScalingAssumption DEF PodAdded, PodRemoved, zeebe, ScalingInv, TypeOK
    <3>2. TypeOK' /\ NumberingInv'
      BY <3>1 DEF ScalingInv, TypeOK, NumberingInv
    <3>3. \A c \in Clients : CommandInv(client[c])'
      BY <3>1 DEF ScalingInv, CommandInv
    <3>4. OneChanger => \A c \in Clients : ChangerInv(c, client[c])'
      BY <3>1 DEF ScalingInv, ChangerInv, Wanted
    <3> QED
      BY <3>2, <3>3, <3>4 DEF ScalingInv, OneChanger
  <2> QED
    BY <1>2, <2>1, OperationKeeps, EndKeeps DEF Environment
<1>3. CASE UNCHANGED vars
  <2>1. UNCHANGED <<legacy, members, partitions, pending, lastChange, finished, replicas, pods,
                    client>>
    BY <1>3 DEF vars, zeebe, kube
  <2>2. TypeOK' /\ NumberingInv'
    BY <2>1 DEF ScalingInv, TypeOK, NumberingInv
  <2>3. \A c \in Clients : CommandInv(client[c])'
    BY <2>1 DEF ScalingInv, CommandInv
  <2>4. OneChanger => \A c \in Clients : ChangerInv(c, client[c])'
    BY <2>1 DEF ScalingInv, ChangerInv, Wanted
  <2> QED
    BY <2>2, <2>3, <2>4 DEF ScalingInv, OneChanger
<1> QED
  BY <1>1, <1>2, <1>3 DEF Next

LEMMA ScalingInvariant == Spec => []ScalingInv
BY InitScaling, ScalingInductive, PTL DEF Spec

-----------------------------------------------------------------------------
\* The variables of zeebe, kubernetes and the commands keep their types: ids of
\* changes are never reused, and replicas never reach 0.
THEOREM ScalingTypes == Spec => []TypeOK
<1>1. ScalingInv => TypeOK
  BY DEF ScalingInv
<1> QED
  BY <1>1, ScalingInvariant, PTL

\* What a wait says of a change is true, whoever else changes the cluster:
\* describeChangeStatus tells from the last and the pending change alone.
THEOREM WaitsTellTheTruth == Spec => []WaitVerdictSound
<1>1. ScalingInv => WaitVerdictSound
  BY DEF ScalingInv, WaitVerdictSound, CommandInv, Verdicts
<1> QED
  BY <1>1, ScalingInvariant, PTL

\* A scale down takes the pods away after their brokers have left, if it is the
\* only process that asks for changes: then no wait of it can be "outdated".
THEOREM BrokersLeaveBeforePods ==
  ASSUME OneChanger
  PROVE  Spec => []BrokersLeaveFirst
<1>1. ScalingInv => BrokersLeaveFirst
  <2> SUFFICES ASSUME ScalingInv, NEW c \in Clients,
                      client[c].pc = "scale", client[c].kind = "down",
                      NEW b \in members
               PROVE  b < client[c].brokers
    BY DEF BrokersLeaveFirst, At
  <2>1. members = FirstNodes(client[c].brokers) /\ client[c].brokers \in 0..MaxBrokers
    BY DEF ScalingInv, ChangerInv, Wanted, TypeOK, ClientStates
  <2> QED
    BY <2>1 DEF FirstNodes
<1> QED
  BY <1>1, ScalingInvariant, PTL

\* A failover that reports success has removed the other regions and nothing
\* else, if zeebe knows the PATCH request and no other process asks for changes.
THEOREM FailoversKeepTheirRegion ==
  ASSUME OneChanger
  PROVE  Spec => []FailoverKeepsRegion
<1>1. ScalingInv => FailoverKeepsRegion
  BY DEF ScalingInv, ChangerInv, Wanted, FailoverKeepsRegion
<1> QED
  BY <1>1, ScalingInvariant, PTL

\* A failover against a zeebe before 8.6 that reports success has removed the region
\* it was to keep, and has kept exactly the brokers it was to remove.
LegacyFailoverKeepsOthers ==
  \A c \in Clients :
    legacy /\ client[c].kind = "failover" /\ client[c].result = "completed" =>
      members = client[c].remove /\ \A b \in members : b % Regions # Region

\* The fallback of a forced request (cluster.go:173) turns the request round,
\* whatever the regions and the size of the cluster.
THEOREM LegacyFailoversKeepTheOthers ==
  ASSUME OneChanger
  PROVE  Spec => []LegacyFailoverKeepsOthers
<1>1. ScalingInv => LegacyFailoverKeepsOthers
  BY DEF ScalingInv, ChangerInv, Wanted, LegacyFailoverKeepsOthers
<1> QED
  BY <1>1, ScalingInvariant, PTL
=============================================================================
