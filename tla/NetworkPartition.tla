-------------------------- MODULE NetworkPartition --------------------------
(***************************************************************************)
(* zbchaos disconnect and connect (backend/connection.go,                  *)
(* internal/network.go) on the pods of a cluster.                          *)
(*                                                                         *)
(* A command resolves the pods it is about and then asks kubernetes, one   *)
(* request after the other, to add an ephemeral debug container to a pod.  *)
(* It does not wait for the container: what the container does to the      *)
(* routing table of the pod happens at some later time, after packages     *)
(* were installed, or not at all.  A restarted pod comes back with a new   *)
(* IP and an empty routing table.                                          *)
(*                                                                         *)
(* Which broker a node id or a partition role stands for is the subject of *)
(* PodFaults: here a command may resolve to any pod.                       *)
(***************************************************************************)
EXTENDS Naturals, FiniteSets, Sequences, SequencesExt, Bags

CONSTANTS
  Brokers, Gateways,
  Clients,         \* zbchaos processes
  NoPod,           \* the absence of a pod
  Settled,         \* TRUE: a command is only started when all else has settled
  Faults,          \* TRUE: requests and containers may fail
  Restartable,     \* the pods that may be restarted
  MaxDisconnects,  \* bounds: disconnect commands, restarts of one pod and
  MaxRestarts,     \* containers that wait on one pod
  MaxContainers

Pods == Brokers \cup Gateways

\* An IP belongs to one incarnation of one pod; kubernetes does not reuse it
\* within the time of an experiment.
Ips == Pods \X (0..MaxRestarts)

\* Command lines of the debug containers.
Replace(ip) == [op |-> "replace", ip |-> ip]   \* ip route replace unreachable <ip>
Delete(ip)  == [op |-> "delete", ip |-> ip]    \* ip route del unreachable <ip>
DeleteFirst == [op |-> "deleteFirst"]          \* ip route del $(ip route | grep -m 1 unreachable)
Commands == {Replace(ip) : ip \in Ips} \cup {Delete(ip) : ip \in Ips} \cup {DeleteFirst}

\* A request to run a command in the pod that had this IP when it was listed.
Requests == [target : Ips, cmd : Commands]
Ops == {"none", "disconnect", "connectBrokers", "connectGateway"}

ASSUME NetworkAssumption ==
  /\ Brokers \cap Gateways = {} /\ IsFiniteSet(Pods)
  /\ NoPod \notin Ips
  /\ Restartable \subseteq Pods
  /\ Settled \in BOOLEAN /\ Faults \in BOOLEAN
  /\ {MaxDisconnects, MaxRestarts, MaxContainers} \subseteq Nat

VARIABLES
  up,           \* the pods that exist
  incarnation,  \* how often a pod was restarted
  routes,       \* unreachable routes in a pod's network namespace
  containers,   \* debug containers of a pod that have not run yet, a bag
  client,       \* what a zbchaos process is doing
  disconnects,  \* bounded counter of disconnect commands
  \* history
  owed,         \* routes asked for in a pod minus the connects it has seen
  cut,          \* <<a, b>>: a finished disconnect reported "Disconnect a from b"
  last          \* the last command that finished, and its pods

vars == <<up, incarnation, routes, containers, client, disconnects, owed, cut, last>>

Idle == [op |-> "none", first |-> NoPod, todo |-> <<>>]
IpOf(p) == <<p, incarnation[p]>>
Running(S) == {p \in S : up[p]}

TypeOK ==
  /\ up \in [Pods -> BOOLEAN]
  /\ incarnation \in [Pods -> 0..MaxRestarts]
  /\ routes \in [Pods -> SUBSET Ips]
  /\ DOMAIN containers = Pods
  /\ \A p \in Pods : IsABag(containers[p]) /\ BagToSet(containers[p]) \subseteq Commands
  /\ client \in [Clients -> [op : Ops, first : Ips \cup {NoPod}, todo : Seq(Requests)]]
  /\ disconnects \in 0..MaxDisconnects
  /\ owed \in [Pods -> Nat]
  /\ cut \subseteq Ips \X Ips
  /\ last \in [op : Ops, peers : SUBSET Ips]

Init ==
  /\ up = [p \in Pods |-> TRUE]
  /\ incarnation = [p \in Pods |-> 0]
  /\ routes = [p \in Pods |-> {}]
  /\ containers = [p \in Pods |-> EmptyBag]
  /\ client = [c \in Clients |-> Idle]
  /\ disconnects = 0
  /\ owed = [p \in Pods |-> 0]
  /\ cut = {}
  /\ last = [op |-> "none", peers |-> {}]

\* No command is under way and every debug container has run.
Quiet ==
  /\ \A c \in Clients : client[c] = Idle
  /\ \A p \in Pods : containers[p] = EmptyBag

Start(c) == client[c] = Idle /\ (Settled => Quiet)
Become(c, x) == client' = [client EXCEPT ![c] = x]
Cluster == <<up, incarnation, routes>>

-----------------------------------------------------------------------------
(* Disconnect.                                                             *)

\* The two requests of disconnectPods(first, second).
CutRequests(a, b, oneDirection) ==
  <<[target |-> a, cmd |-> Replace(b)]>> \o
    (IF oneDirection THEN <<>> ELSE <<[target |-> b, cmd |-> Replace(a)]>>)

StartDisconnect(c) ==
  /\ Start(c)
  /\ disconnects < MaxDisconnects
  /\ disconnects' = disconnects + 1
  /\ last' = [op |-> "none", peers |-> {}]

\* Mutant: the name of the pod takes the place of its IP.
KeepsName(c, p) ==
  /\ StartDisconnect(c)
  /\ p \in Running(Brokers)
  /\ Become(c, [op |-> "disconnect", first |-> p, todo |-> <<>>])
  /\ UNCHANGED <<Cluster, containers, owed, cut>>

\* The first broker is looked up, its name and IP are kept.
LookUpFirst(c, p) ==
  /\ StartDisconnect(c)
  /\ p \in Running(Brokers)
  /\ Become(c, [op |-> "disconnect", first |-> IpOf(p), todo |-> <<>>])
  /\ UNCHANGED <<Cluster, containers, owed, cut>>

\* Mutant: the two pods are told apart by their IPs.
ComparesIps(c, p, oneDirection) ==
  /\ client[c].op = "disconnect" /\ client[c].todo = <<>>
  /\ p \in Running(Brokers)
  /\ Become(c, IF IpOf(p) = client[c].first THEN Idle
               ELSE [client[c] EXCEPT !.todo = CutRequests(client[c].first, IpOf(p), oneDirection)])
  /\ UNCHANGED <<Cluster, containers, disconnects, owed, cut, last>>

\* The second one.  The same pod: "Will do nothing".
LookUpSecond(c, p, oneDirection) ==
  /\ client[c].op = "disconnect" /\ client[c].todo = <<>>
  /\ p \in Running(Brokers)
  /\ Become(c, IF p = client[c].first[1] THEN Idle
               ELSE [client[c] EXCEPT !.todo = CutRequests(client[c].first, IpOf(p), oneDirection)])
  /\ UNCHANGED <<Cluster, containers, disconnects, owed, cut, last>>

\* The lookup finds no pod, or the zeebe cluster does not answer.
LookUpFails(c) ==
  /\ Faults
  /\ client[c].op = "disconnect" /\ client[c].todo = <<>>
  /\ Become(c, Idle)
  /\ UNCHANGED <<Cluster, containers, disconnects, owed, cut, last>>

\* Items[0] of the running gateway pods.
FirstGateway == CHOOSE g \in Gateways : up[g]

\* One broker, or all of them.  The gateway is not looked up again.
DisconnectGateway(c, S, oneDirection) ==
  /\ StartDisconnect(c)
  /\ Running(Gateways) # {} /\ S # {}
  /\ S = Running(Brokers) \/ (Cardinality(S) = 1 /\ S \subseteq Running(Brokers))
  /\ LET g == IpOf(FirstGateway)
         pods == SetToSeq(S)
         k == IF oneDirection THEN 1 ELSE 2   \* requests for each of them
     IN  Become(c, [op |-> "disconnect", first |-> g,
                    todo |-> [i \in 1..(k * Len(pods)) |->
                       CutRequests(g, IpOf(pods[((i - 1) \div k) + 1]), oneDirection)
                         [((i - 1) % k) + 1]]])
  /\ UNCHANGED <<Cluster, containers, owed, cut>>

-----------------------------------------------------------------------------
(* Connect.                                                                *)

\* A connect of the pods in S starts with these requests.  What it is about
\* to undo is no longer expected to be cut.
StartConnect(c, op, S, requests) ==
  /\ Start(c)
  /\ Become(c, [op |-> op, first |-> NoPod, todo |-> requests])
  /\ cut' = {x \in cut : x[1][1] \notin S}
  /\ last' = [op |-> "none", peers |-> {IpOf(p) : p \in Running(Pods)}]
  /\ UNCHANGED <<Cluster, containers, disconnects, owed>>

\* Mutant: the loop over the pods stops one short.
SkipsOneBroker(c) ==
  /\ Running(Brokers) # {}
  /\ LET pods == Front(SetToSeq(Running(Brokers)))
     IN  StartConnect(c, "connectBrokers", Brokers,
           [i \in DOMAIN pods |-> [target |-> IpOf(pods[i]), cmd |-> DeleteFirst]])

ConnectBrokers(c) ==
  /\ Running(Brokers) # {}
  /\ LET pods == SetToSeq(Running(Brokers))
     IN  StartConnect(c, "connectBrokers", Brokers,
           [i \in DOMAIN pods |-> [target |-> IpOf(pods[i]), cmd |-> DeleteFirst]])

\* Mutant: the same for the gateway.
SkipsOneOfGateway(c) ==
  /\ Cardinality(Running(Brokers)) > 1 /\ Running(Gateways) # {}
  /\ LET pods == Front(SetToSeq(Running(Brokers)))
     IN  StartConnect(c, "connectGateway", Gateways,
           [i \in DOMAIN pods |->
              [target |-> IpOf(FirstGateway), cmd |-> Delete(IpOf(pods[i]))]])

\* Mutant: the brokers drop their first route, as in connect brokers.
ConnectsBothSides(c) ==
  /\ Running(Brokers) # {} /\ Running(Gateways) # {}
  /\ LET pods == SetToSeq(Running(Brokers))
     IN  StartConnect(c, "connectGateway", Gateways,
           [i \in DOMAIN pods |-> [target |-> IpOf(pods[i]), cmd |-> DeleteFirst]])

ConnectGateway(c) ==
  /\ Running(Brokers) # {} /\ Running(Gateways) # {}
  /\ LET pods == SetToSeq(Running(Brokers))
     IN  StartConnect(c, "connectGateway", Gateways,
           [i \in DOMAIN pods |->
              [target |-> IpOf(FirstGateway), cmd |-> Delete(IpOf(pods[i]))]])

-----------------------------------------------------------------------------
(* Requests, and the containers they add.                                  *)

\* A broker keeps its name over a restart, a gateway gets a new one.
Found(ip) == up[ip[1]] /\ (ip[1] \in Gateways => incarnation[ip[1]] = ip[2])

\* The rest of the command.  Only a connect goes on after an error.
Proceed(c, ok) ==
  LET rest == Tail(client[c].todo) IN
  IF rest = <<>> \/ (client[c].op = "disconnect" /\ ~ok)
  THEN /\ Become(c, Idle)
       /\ last' = [last EXCEPT !.op = client[c].op]
  ELSE /\ Become(c, [client[c] EXCEPT !.todo = rest])
       /\ UNCHANGED last

AddContainer(c) ==
  /\ client[c].todo # <<>>
  /\ LET request == Head(client[c].todo)
         p == request.target[1]
     IN  /\ Found(request.target)
         /\ BagCardinality(containers[p]) < MaxContainers
         /\ containers' = [containers EXCEPT ![p] = @ (+) SetToBag({request.cmd})]
         /\ owed' = [owed EXCEPT ![p] =
                       CASE request.cmd.op = "replace"     -> @ + 1
                         [] request.cmd.op = "deleteFirst" -> IF @ > 0 THEN @ - 1 ELSE 0
                         [] OTHER                          -> @]
         /\ cut' = IF request.cmd.op = "replace"
                   THEN cut \cup {<<request.target, request.cmd.ip>>} ELSE cut
  /\ Proceed(c, TRUE)
  /\ UNCHANGED <<Cluster, disconnects>>

\* The pod is gone, or it changed between the read and the update.
RequestFails(c) ==
  /\ client[c].todo # <<>>
  /\ Faults \/ ~Found(Head(client[c].todo).target)
  /\ Proceed(c, FALSE)
  /\ UNCHANGED <<Cluster, containers, disconnects, owed, cut>>

\* Mutant: grep without -m 1: two routes make one malformed "ip route del".
AllAtOnce(p, cmd) ==
  CASE cmd.op = "replace"     -> {routes[p] \cup {cmd.ip}}
    [] cmd.op = "delete"      -> {routes[p] \ {cmd.ip}}
    [] cmd.op = "deleteFirst" -> {IF Cardinality(routes[p]) > 1 THEN routes[p] ELSE {}}

\* What a command line may make of the routes of pod p.  "grep -m 1" stops
\* at the first unreachable route; without one "ip route del" fails.
After(p, cmd) ==
  CASE cmd.op = "replace"     -> {routes[p] \cup {cmd.ip}}
    [] cmd.op = "delete"      -> {routes[p] \ {cmd.ip}}
    [] cmd.op = "deleteFirst" -> IF routes[p] = {} THEN {{}}
                                 ELSE {routes[p] \ {ip} : ip \in routes[p]}

RemoveContainer(p, cmd) ==
  /\ BagIn(cmd, containers[p])
  /\ containers' = [containers EXCEPT ![p] = @ (-) SetToBag({cmd})]
  /\ UNCHANGED <<up, incarnation, client, disconnects, owed, cut, last>>

RunContainer(p, cmd) ==
  /\ RemoveContainer(p, cmd)
  /\ \E S \in After(p, cmd) : routes' = [routes EXCEPT ![p] = S]

\* "apt update" or the image pull fails.
ContainerFails(p, cmd) ==
  /\ Faults
  /\ RemoveContainer(p, cmd)
  /\ UNCHANGED routes

-----------------------------------------------------------------------------
(* Kubernetes.                                                             *)

\* The network namespace and the debug containers go with the pod.
PodStops(p) ==
  /\ p \in Restartable
  /\ up[p]
  /\ incarnation[p] < MaxRestarts
  /\ up' = [up EXCEPT ![p] = FALSE]
  /\ routes' = [routes EXCEPT ![p] = {}]
  /\ containers' = [containers EXCEPT ![p] = EmptyBag]
  /\ owed' = [owed EXCEPT ![p] = 0]
  /\ UNCHANGED <<incarnation, client, disconnects, cut, last>>

PodStarts(p) ==
  /\ ~up[p]
  /\ up' = [up EXCEPT ![p] = TRUE]
  /\ incarnation' = [incarnation EXCEPT ![p] = @ + 1]
  /\ UNCHANGED <<routes, containers, client, disconnects, owed, cut, last>>

Client(c) ==
  \/ \E p \in Brokers : LookUpFirst(c, p)
  \/ \E p \in Brokers, oneDirection \in BOOLEAN : LookUpSecond(c, p, oneDirection)
  \/ LookUpFails(c)
  \/ \E S \in SUBSET Brokers, oneDirection \in BOOLEAN : DisconnectGateway(c, S, oneDirection)
  \/ ConnectBrokers(c)
  \/ ConnectGateway(c)
  \/ AddContainer(c)
  \/ RequestFails(c)

Pod(p) ==
  \/ \E cmd \in BagToSet(containers[p]) : RunContainer(p, cmd) \/ ContainerFails(p, cmd)
  \/ PodStops(p)
  \/ PodStarts(p)

Next == (\E c \in Clients : Client(c)) \/ (\E p \in Pods : Pod(p))

Spec == Init /\ [][Next]_vars

-----------------------------------------------------------------------------
(* Safety.                                                                 *)

\* A broker is never cut off from itself, however its restarts fall between
\* the two lookups of a disconnect (connection.go:123 compares names).
NeverCutFromItself ==
  \A p \in Pods : \A ip \in routes[p] : ip[1] # p

\* What a disconnect reported is in force once the debug containers have run,
\* for as long as both pods live and no connect was asked for: no request for
\* another pair, and no connect of the other kind of pods, undoes it.
CutsHold ==
  Settled /\ ~Faults /\ Quiet =>
    \A x \in cut :
      IpOf(x[1][1]) = x[1] /\ up[x[1][1]] => x[2] \in routes[x[1][1]]

\* Each connect takes back one route of every broker, so as many connects as
\* there were disconnects leave none.  (A single one may leave some, although
\* cmd/connect.go:32 says "Connect all Zeebe Brokers again".)
RoutesOwed ==
  Settled /\ ~Faults /\ Quiet =>
    \A p \in Brokers : Cardinality(routes[p]) <= owed[p]

\* After connect gateway the gateway reaches every broker that was listed.
GatewayReachesBrokers ==
  Settled /\ ~Faults /\ Quiet /\ last.op = "connectGateway" =>
    \A g \in Running(Gateways) : routes[g] \cap last.peers \cap (Brokers \X Nat) = {}

\* "Connect all Zeebe Gateway again, after it has been disconnected."
\* (cmd/connect.go:42)
ConnectedGateway ==
  Settled /\ ~Faults /\ Quiet /\ last.op = "connectGateway" =>
    \A g \in Running(Gateways), b \in Running(Brokers) :
      {IpOf(g), IpOf(b)} \subseteq last.peers =>
        IpOf(b) \notin routes[g] /\ IpOf(g) \notin routes[b]

-----------------------------------------------------------------------------
(* Liveness.                                                               *)

\* connect brokers is repeated again and again, commands and pods make
\* progress, and a request or a container that keeps being tried succeeds.
HealFairness ==
  /\ \A c \in Clients : WF_vars(AddContainer(c) \/ RequestFails(c) \/ LookUpFails(c))
  /\ SF_vars(\E c \in Clients : ConnectBrokers(c))
  /\ \A p \in Brokers :
       /\ SF_vars(\E c \in Clients : AddContainer(c) /\ Head(client[c].todo).target[1] = p
                                                     /\ Head(client[c].todo).cmd = DeleteFirst)
       /\ SF_vars(RunContainer(p, DeleteFirst))
       /\ WF_vars(\E cmd \in BagToSet(containers[p]) : RunContainer(p, cmd))
       /\ WF_vars(PodStarts(p))

HealSpec == Spec /\ HealFairness

\* Once nobody disconnects any more, repeated connects heal every broker,
\* whatever order the debug containers run in and whichever of them fail.
BrokersHeal == <>[](\A p \in Brokers : routes[p] = {})
=============================================================================
