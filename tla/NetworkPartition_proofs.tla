----------------------- MODULE NetworkPartition_proofs -----------------------
(***************************************************************************)
(* The routes of brokers and gateways, for any number of pods, restarts,   *)
(* commands and processes: a broker is never cut off from itself, and when *)
(* commands wait for each other and nothing fails, disconnects hold,       *)
(* connects of brokers take routes back one by one, and a connect of the   *)
(* gateway reaches every broker it has listed.                             *)
(*                                                                         *)
(* The properties speak of the moments when no command is under way and    *)
(* every debug container has run.  The invariants add what holds between   *)
(* two of these: a route is there, or a container or a request that is     *)
(* still to come will set it or take it away.                              *)
(***************************************************************************)
EXTENDS NetworkPartition, FiniteSetTheorems, SequenceTheorems, TLAPS

ClientStates == [op : Ops, first : Ips \cup {NoPod}, todo : Seq(Requests)]

\* What the debug containers of a command do.
Verb(op) ==
  CASE op = "disconnect"     -> "replace"
    [] op = "connectBrokers" -> "deleteFirst"
    [] op = "connectGateway" -> "delete"

Waits(p) == BagToSet(containers[p])

\* The i-th request q of a command x, when pods were restarted n times.
RequestInv(x, q, n) ==
  /\ q.cmd.op = Verb(x.op)
  /\ q.target[2] <= n[q.target[1]]
  /\ x.op = "disconnect" => q.cmd.ip[1] # q.target[1]
  /\ x.op = "connectBrokers" => q.target[1] \in Brokers
  /\ x.op = "connectGateway" => q.target[1] \in Gateways

\* A command at any point of it.
CommandInv(x, n) ==
  /\ x.op = "none" => x = Idle
  /\ x.op = "disconnect" => x.first \in Ips /\ x.first[2] <= n[x.first[1]]
  /\ x.op \in {"connectBrokers", "connectGateway"} => x.todo # <<>>
  /\ \A i \in DOMAIN x.todo : RequestInv(x, x.todo[i], n)
  /\ \A i, j \in DOMAIN x.todo :
       x.todo[i].target[1] \in Brokers /\ x.todo[i].target[1] = x.todo[j].target[1] => i = j

\* No container and no route cuts a pod from itself, and a connect undoes what
\* was done to the pods of its kind.
PodInv(p) ==
  /\ \A ip \in routes[p] : ip[1] # p
  /\ \A cmd \in Waits(p) :
       /\ cmd.op = "replace" => cmd.ip[1] # p
       /\ cmd.op = "deleteFirst" => p \in Brokers
       /\ cmd.op = "delete" => p \in Gateways
  /\ ~up[p] => /\ routes[p] = {} /\ containers[p] = EmptyBag
               /\ incarnation[p] < MaxRestarts

CutInv ==
  \A x \in cut : x[1][2] <= incarnation[x[1][1]]

NetworkInv ==
  /\ TypeOK
  /\ \A c \in Clients : CommandInv(client[c], incarnation)
  /\ \A p \in Pods : PodInv(p)
  /\ CutInv

-----------------------------------------------------------------------------
(* Commands that wait for each other.                                      *)

Calm == Settled /\ ~Faults

\* One command is under way or the last one, and all containers are its own.
OneCommand ==
  /\ \A c, d \in Clients : client[c] # Idle /\ client[d] # Idle => c = d
  /\ \A c \in Clients : client[c] # Idle => last.op = "none"
  /\ \A c \in Clients : client[c].op = "disconnect" /\ client[c].todo = <<>> =>
       \A p \in Pods : containers[p] = EmptyBag
  /\ \E op \in Ops \ {"none"} :
       /\ \A c \in Clients : client[c].op \in {"none", op}
       /\ last.op \in {"none", op}
       /\ \A p \in Pods : \A cmd \in Waits(p) : cmd.op = Verb(op)

\* A cut is in force or about to be, and no connect of its pods is under way.
InForce ==
  \A x \in cut :
    LET p == x[1][1] IN
    /\ IpOf(p) = x[1] /\ up[p] => x[2] \in routes[p] \/ Replace(x[2]) \in Waits(p)
    /\ p \in Brokers => \A c \in Clients : client[c].op # "connectBrokers"
    /\ p \in Gateways => \A c \in Clients : client[c].op # "connectGateway"
    /\ \A cmd \in Waits(p) : cmd.op = "replace"

\* A broker has at most one container, and its route or the end of one is
\* accounted for.
Accounted ==
  \A p \in Brokers :
    /\ containers[p] = EmptyBag => Cardinality(routes[p]) <= owed[p]
    /\ containers[p] # EmptyBag =>
         /\ \A c \in Clients : \A i \in DOMAIN client[c].todo : client[c].todo[i].target[1] # p
         /\ \E cmd \in Waits(p) :
              /\ containers[p] = [e \in {cmd} |-> 1]
              /\ cmd.op = "replace" => Cardinality(routes[p]) + 1 <= owed[p]
              /\ cmd.op = "deleteFirst" => Cardinality(routes[p]) <= owed[p] + 1

\* Every broker a connect of the gateway has listed is reached, or will be.
Reaching ==
  \A g \in Gateways :
    /\ last.op = "connectGateway" =>
         \A ip \in last.peers \cap (Brokers \X Nat) : ip \in routes[g] => Delete(ip) \in Waits(g)
    /\ \A c \in Clients : client[c].op = "connectGateway" =>
         /\ routes[g] # {} => \A i \in DOMAIN client[c].todo : client[c].todo[i].target = IpOf(g)
         /\ \A ip \in last.peers \cap (Brokers \X Nat) :
              ip \in routes[g] =>
                \/ Delete(ip) \in Waits(g)
                \/ \E i \in DOMAIN client[c].todo : client[c].todo[i].cmd = Delete(ip)

\* connect gateway asks the first gateway only.
OneGateway == \A g, h \in Gateways : g = h

CalmInv == OneCommand /\ InForce /\ Accounted /\ (OneGateway => Reaching)

PartitionInv == NetworkInv /\ (Calm => CalmInv)

-----------------------------------------------------------------------------
(* Sets of pods as sequences, bags of containers, requests.                *)

\* A finite set becomes a sequence that names each of its elements once.
LEMMA SetsAsSequences ==
  ASSUME NEW S, IsFiniteSet(S)
  PROVE  /\ Cardinality(S) \in Nat
         /\ SetToSeq(S) \in [1..Cardinality(S) -> S]
         /\ Len(SetToSeq(S)) = Cardinality(S)
         /\ \A i, j \in 1..Cardinality(S) : SetToSeq(S)[i] = SetToSeq(S)[j] => i = j
         /\ \A e \in S : \E i \in 1..Cardinality(S) : SetToSeq(S)[i] = e
<1> DEFINE n == Cardinality(S)
           f == SetToSeq(S)
<1>1. n \in Nat /\ ExistsBijection(1..n, S)
  BY FS_CardinalityType
<1>2. \E g \in [1..n -> S] : IsInjective(g)
  BY <1>1 DEF ExistsBijection, Bijection, Injection
<1>3. f \in [1..n -> S] /\ IsInjective(f)
  BY <1>2 DEF SetToSeq
<1>4. f \in Injection(1..n, S)
  BY <1>3 DEF Injection
<1>5. IsFiniteSet(1..n) /\ Cardinality(1..n) = n
  BY <1>1, FS_Interval
<1>6. f \in Surjection(1..n, S)
  BY <1>4, <1>5, FS_Injection
<1>7. \A e \in S : \E i \in 1..n : f[i] = e
  BY <1>6 DEF Surjection
<1>8. Len(f) = n
  BY <1>1, <1>3
<1> QED
  BY <1>1, <1>3, <1>7, <1>8 DEF IsInjective

LEMMA EmptyBags == IsABag(EmptyBag) /\ BagToSet(EmptyBag) = {}
BY DEF IsABag, BagToSet, EmptyBag, SetToBag

LEMMA AddingToBags ==
  ASSUME NEW B, IsABag(B), NEW e
  PROVE  /\ IsABag(B (+) SetToBag({e}))
         /\ BagToSet(B (+) SetToBag({e})) = BagToSet(B) \cup {e}
         /\ B = EmptyBag => B (+) SetToBag({e}) = [d \in {e} |-> 1]
BY DEF IsABag, BagToSet, (+), EmptyBag, SetToBag

LEMMA RemovingFromBags ==
  ASSUME NEW B, IsABag(B), NEW e
  PROVE  /\ IsABag(B (-) SetToBag({e}))
         /\ BagToSet(B (-) SetToBag({e})) \subseteq BagToSet(B)
         /\ BagToSet(B) \ {e} \subseteq BagToSet(B (-) SetToBag({e}))
BY DEF IsABag, BagToSet, (-), SetToBag

LEMMA SingleBags ==
  ASSUME NEW e
  PROVE  BagToSet([d \in {e} |-> 1]) = {e} /\ [d \in {e} |-> 1] (-) SetToBag({e}) = EmptyBag
BY DEF BagToSet, (-), EmptyBag, SetToBag

\* Command lines tell what they are about.
LEMMA CommandLines ==
  /\ \A ip \in Ips : /\ Replace(ip) \in Commands /\ Replace(ip).op = "replace" /\ Replace(ip).ip = ip
                     /\ Delete(ip) \in Commands /\ Delete(ip).op = "delete" /\ Delete(ip).ip = ip
  /\ DeleteFirst \in Commands /\ DeleteFirst.op = "deleteFirst"
  /\ \A cmd \in Commands :
       /\ cmd.op = "replace" => cmd.ip \in Ips /\ cmd = Replace(cmd.ip)
       /\ cmd.op = "delete" => cmd.ip \in Ips /\ cmd = Delete(cmd.ip)
       /\ cmd.op = "deleteFirst" => cmd = DeleteFirst
       /\ cmd.op \in {"replace", "delete", "deleteFirst"}
<1>1. ASSUME NEW ip \in Ips
      PROVE  /\ Replace(ip) \in Commands /\ Replace(ip).op = "replace" /\ Replace(ip).ip = ip
             /\ Delete(ip) \in Commands /\ Delete(ip).op = "delete" /\ Delete(ip).ip = ip
  BY DEF Commands, Replace, Delete
<1>2. DeleteFirst \in Commands /\ DeleteFirst.op = "deleteFirst"
  BY DEF Commands, DeleteFirst
<1>3. ASSUME NEW cmd \in Commands
      PROVE  \/ \E ip \in Ips : cmd = Replace(ip)
             \/ \E ip \in Ips : cmd = Delete(ip)
             \/ cmd = DeleteFirst
  BY DEF Commands
<1> QED
  BY <1>1, <1>2, <1>3

LEMMA FiniteIps == IsFiniteSet(Ips) /\ \A ip \in Ips : ip[1] \in Pods /\ ip[2] \in Nat /\ ip = <<ip[1], ip[2]>>
<1>1. IsFiniteSet(0..MaxRestarts)
  BY NetworkAssumption, FS_Interval
<1>2. IsFiniteSet(Ips)
  BY <1>1, NetworkAssumption, FS_Product DEF Ips
<1> QED
  BY <1>2, NetworkAssumption DEF Ips

LEMMA IdleTyped == Idle \in ClientStates
BY DEF Idle, ClientStates, Ops

\* The requests of one disconnect.
LEMMA TwoRequests ==
  ASSUME NEW a \in Ips, NEW b \in Ips, NEW one \in BOOLEAN
  PROVE  LET s == CutRequests(a, b, one)
             k == IF one THEN 1 ELSE 2 IN
         /\ s \in Seq(Requests)
         /\ DOMAIN s = 1..k
         /\ s[1] = [target |-> a, cmd |-> Replace(b)]
         /\ ~one => s[2] = [target |-> b, cmd |-> Replace(a)]
<1> DEFINE r == [target |-> a, cmd |-> Replace(b)]
           t == [target |-> b, cmd |-> Replace(a)]
<1>1. r \in Requests /\ t \in Requests
  BY CommandLines DEF Requests
<1> HIDE DEF r, t
<1>2. CutRequests(a, b, one) = <<r>> \o (IF one THEN <<>> ELSE <<t>>)
  BY DEF CutRequests, r, t
<1>3. CASE one
  <2>1. <<r>> \o <<>> = <<r>>
    OBVIOUS
  <2> QED
    BY <1>1, <1>2, <1>3, <2>1 DEF r
<1>4. CASE ~one
  <2>1. /\ <<r>> \in Seq(Requests) /\ Len(<<r>>) = 1 /\ <<r>>[1] = r
        /\ <<t>> \in Seq(Requests) /\ Len(<<t>>) = 1 /\ <<t>>[1] = t
    BY <1>1
  <2> DEFINE s == <<r>> \o <<t>>
  <2>2. s \in Seq(Requests) /\ Len(s) = 2 /\ s[1] = r /\ s[2] = t
    BY <2>1, ConcatProperties
  <2> HIDE DEF s
  <2>3. DOMAIN s = 1..2
    BY <2>2
  <2> QED
    BY <1>2, <1>4, <2>2, <2>3 DEF r, t, s
<1> QED
  BY <1>3, <1>4

\* The requests that are left are those that were there, one place further.
LEMMA RestOfRequests ==
  ASSUME NEW x \in ClientStates, x.todo # <<>>, Tail(x.todo) # <<>>,
         NEW n \in [Pods -> Nat], CommandInv(x, n)
  PROVE  LET y == [x EXCEPT !.todo = Tail(x.todo)] IN
         /\ y \in ClientStates /\ CommandInv(y, n)
         /\ y.op = x.op /\ y.todo = Tail(x.todo)
         /\ DOMAIN x.todo = 1..Len(x.todo)
         /\ DOMAIN y.todo = 1..(Len(x.todo) - 1)
         /\ \A i \in DOMAIN y.todo : i + 1 \in DOMAIN x.todo /\ y.todo[i] = x.todo[i + 1]
<1> DEFINE y == [x EXCEPT !.todo = Tail(x.todo)]
<1>1. x.todo \in Seq(Requests) /\ x.op \in Ops /\ x.first \in Ips \cup {NoPod}
  BY DEF ClientStates
<1>2. /\ Tail(x.todo) \in Seq(Requests)
      /\ DOMAIN x.todo = 1..Len(x.todo)
      /\ DOMAIN Tail(x.todo) = 1..(Len(x.todo) - 1)
      /\ \A i \in DOMAIN Tail(x.todo) :
           i + 1 \in DOMAIN x.todo /\ Tail(x.todo)[i] = x.todo[i + 1]
  BY <1>1
<1>3. y \in ClientStates /\ y.op = x.op /\ y.todo = Tail(x.todo) /\ y.first = x.first
  BY <1>2 DEF ClientStates
<1> HIDE DEF y
<1>4. \A i \in DOMAIN y.todo : i \in Nat
  BY <1>2, <1>3
<1>5. \A i \in DOMAIN y.todo : RequestInv(y, y.todo[i], n)
  BY <1>2, <1>3 DEF CommandInv, RequestInv
<1>6. y.op # "none"
  BY <1>3 DEF CommandInv, Idle
<1>7. \A i, j \in DOMAIN y.todo :
        y.todo[i].target[1] \in Brokers /\ y.todo[i].target[1] = y.todo[j].target[1] => i = j
  <2> SUFFICES ASSUME NEW i \in DOMAIN y.todo, NEW j \in DOMAIN y.todo,
                      y.todo[i].target[1] \in Brokers,
                      y.todo[i].target[1] = y.todo[j].target[1]
               PROVE  i = j
    OBVIOUS
  <2>1. i + 1 = j + 1
    BY <1>2, <1>3 DEF CommandInv
  <2> QED
    BY <2>1, <1>4
<1>8. CommandInv(y, n)
  BY <1>3, <1>5, <1>6, <1>7 DEF CommandInv
<1> QED
  BY <1>2, <1>3, <1>8 DEF y

\* Restarts only make requests older.
LEMMA RestartsKeepCommands ==
  ASSUME NEW x \in ClientStates, NEW n \in [Pods -> Nat], NEW m \in [Pods -> Nat],
         \A p \in Pods : n[p] <= m[p], CommandInv(x, n)
  PROVE  CommandInv(x, m)
<1>1. \A ip \in Ips : ip[2] <= n[ip[1]] => ip[2] <= m[ip[1]]
  BY FiniteIps
<1>2. x.todo \in Seq(Requests)
  BY DEF ClientStates
<1>3. \A i \in DOMAIN x.todo : x.todo[i] \in Requests
  BY <1>2
<1>4. \A i \in DOMAIN x.todo : x.todo[i].target \in Ips
  BY <1>3 DEF Requests
<1> QED
  BY <1>1, <1>4 DEF CommandInv, RequestInv

-----------------------------------------------------------------------------
(* Every step keeps NetworkInv.                                            *)

LEMMA InitNetwork == Init => NetworkInv
<1> SUFFICES ASSUME Init PROVE NetworkInv
  OBVIOUS
<1>1. 0 \in 0..MaxRestarts /\ 0 \in 0..MaxDisconnects
  BY NetworkAssumption
<1>2. \A p \in Pods : IsABag(containers[p]) /\ BagToSet(containers[p]) = {}
  BY EmptyBags DEF Init
<1>3. client \in [Clients -> ClientStates]
  BY IdleTyped DEF Init
<1>4. last \in [op : Ops, peers : SUBSET Ips]
  BY DEF Init, Ops
<1>5. TypeOK
  BY <1>1, <1>2, <1>3, <1>4 DEF Init, TypeOK, ClientStates
<1>6. \A c \in Clients : CommandInv(client[c], incarnation)
  BY DEF Init, CommandInv, Idle
<1>7. \A p \in Pods : PodInv(p)
  BY <1>2 DEF Init, PodInv, Waits
<1>8. CutInv
  BY DEF Init, CutInv
<1> QED
  BY <1>5, <1>6, <1>7, <1>8 DEF NetworkInv

LEMMA PodIps ==
  ASSUME NetworkInv, NEW p \in Pods
  PROVE  IpOf(p) \in Ips /\ IpOf(p)[1] = p /\ IpOf(p)[2] = incarnation[p]
BY DEF NetworkInv, TypeOK, IpOf, Ips

LEMMA Incarnations == NetworkInv => incarnation \in [Pods -> Nat] /\ client \in [Clients -> ClientStates]
BY NetworkAssumption DEF NetworkInv, TypeOK, ClientStates

LEMMA CommandsMove ==
  ASSUME NetworkInv, NEW c \in Clients, NEW x \in ClientStates, Become(c, x),
         CommandInv(x, incarnation), UNCHANGED incarnation
  PROVE  /\ client' \in [Clients -> ClientStates]
         /\ client'[c] = x
         /\ \A d \in Clients : d # c => client'[d] = client[d]
         /\ \A d \in Clients : CommandInv(client'[d], incarnation')
<1>1. /\ client' \in [Clients -> ClientStates]
      /\ client'[c] = x
      /\ \A d \in Clients : d # c => client'[d] = client[d]
  BY Incarnations DEF Become
<1>2. \A d \in Clients : CommandInv(client[d], incarnation)
  BY DEF NetworkInv
<1> QED
  BY <1>1, <1>2

\* A command moves on and the pods stay as they are.
LEMMA OnlyCommandsMove ==
  ASSUME NetworkInv, NEW c \in Clients, NEW x \in ClientStates, Become(c, x),
         CommandInv(x, incarnation), UNCHANGED <<Cluster, containers, owed>>,
         disconnects' \in 0..MaxDisconnects, cut' \subseteq cut,
         last' \in [op : Ops, peers : SUBSET Ips]
  PROVE  NetworkInv'
<1>1. UNCHANGED <<up, incarnation, routes>>
  BY DEF Cluster
<1>2. /\ client' \in [Clients -> ClientStates]
      /\ \A d \in Clients : CommandInv(client'[d], incarnation')
  BY <1>1, CommandsMove
<1>3. TypeOK'
  BY <1>1, <1>2 DEF NetworkInv, TypeOK, ClientStates
<1>4. \A p \in Pods : PodInv(p)'
  BY <1>1 DEF NetworkInv, PodInv, Waits
<1>5. CutInv'
  BY <1>1 DEF NetworkInv, CutInv
<1> QED
  BY <1>2, <1>3, <1>4, <1>5 DEF NetworkInv

LEMMA NothingYet == [op |-> "none", peers |-> {}] \in [op : Ops, peers : SUBSET Ips]
BY DEF Ops

\* A command that has looked up its first pod.
LEMMA FirstLookedUp ==
  ASSUME NetworkInv, NEW p \in Pods
  PROVE  LET x == [op |-> "disconnect", first |-> IpOf(p), todo |-> <<>>]
         IN  x \in ClientStates /\ CommandInv(x, incarnation)
<1> DEFINE x == [op |-> "disconnect", first |-> IpOf(p), todo |-> <<>>]
<1>1. /\ IpOf(p) \in Ips /\ IpOf(p)[1] = p /\ IpOf(p)[2] = incarnation[p]
      /\ incarnation[p] \in Nat
  BY PodIps, Incarnations
<1>2. x \in ClientStates
  BY <1>1 DEF ClientStates, Ops
<1>3. CommandInv(x, incarnation)
  BY <1>1 DEF CommandInv
<1> QED
  BY <1>2, <1>3

LEMMA LookUpFirstKeeps ==
  ASSUME NetworkInv, NEW c \in Clients, NEW p \in Brokers, LookUpFirst(c, p)
  PROVE  NetworkInv'
<1> DEFINE y == [op |-> "disconnect", first |-> IpOf(p), todo |-> <<>>]
<1>1. PICK x : x = y
  OBVIOUS
<1>2. x \in ClientStates /\ CommandInv(x, incarnation)
  BY <1>1, FirstLookedUp DEF Pods
<1>3. Become(c, x)
  BY <1>1 DEF LookUpFirst
<1>4. disconnects' \in 0..MaxDisconnects
  BY NetworkAssumption DEF LookUpFirst, StartDisconnect, NetworkInv, TypeOK
<1>5. last' \in [op : Ops, peers : SUBSET Ips]
  BY NothingYet DEF LookUpFirst, StartDisconnect
<1> QED
  BY <1>2, <1>3, <1>4, <1>5, OnlyCommandsMove DEF LookUpFirst

\* The requests that part two pods.
LEMMA CutCommand ==
  ASSUME NEW n \in [Pods -> Nat], NEW x \in ClientStates, CommandInv(x, n),
         x.op = "disconnect", NEW b \in Ips, b[2] <= n[b[1]], b[1] # x.first[1],
         NEW one \in BOOLEAN
  PROVE  LET y == [x EXCEPT !.todo = CutRequests(x.first, b, one)]
         IN  y \in ClientStates /\ CommandInv(y, n) /\ y.op = "disconnect"
<1> DEFINE s == CutRequests(x.first, b, one)
           y == [x EXCEPT !.todo = s]
<1>1. x.first \in Ips /\ x.first[2] <= n[x.first[1]]
  BY DEF CommandInv
<1>2. /\ s \in Seq(Requests)
      /\ DOMAIN s = 1..(IF one THEN 1 ELSE 2)
      /\ s[1] = [target |-> x.first, cmd |-> Replace(b)]
      /\ ~one => s[2] = [target |-> b, cmd |-> Replace(x.first)]
  BY <1>1, TwoRequests
<1> HIDE DEF s
<1>3. y \in ClientStates /\ y.op = "disconnect" /\ y.first = x.first /\ y.todo = s
  BY <1>2 DEF ClientStates
<1> HIDE DEF y
<1>4. \A i \in DOMAIN s : i = 1 \/ (i = 2 /\ ~one)
  BY <1>2
<1>5. \A i \in DOMAIN s : RequestInv(y, s[i], n)
  BY <1>1, <1>2, <1>3, <1>4, CommandLines DEF RequestInv, Verb
<1>6. \A i, j \in DOMAIN s : s[i].target[1] = s[j].target[1] => i = j
  BY <1>2, <1>4
<1>7. CommandInv(y, n)
  BY <1>1, <1>3, <1>5, <1>6 DEF CommandInv
<1> QED
  BY <1>3, <1>7 DEF y, s

LEMMA IdleIsFine == ASSUME NEW n PROVE CommandInv(Idle, n)
BY DEF CommandInv, Idle

LEMMA LookUpSecondMoves ==
  ASSUME NetworkInv, NEW c \in Clients, NEW p \in Brokers, NEW one \in BOOLEAN,
         LookUpSecond(c, p, one)
  PROVE  \E x \in ClientStates :
           Become(c, x) /\ CommandInv(x, incarnation) /\ (x # Idle => x.op = "disconnect" /\ x.todo # <<>>)
<1>1. CASE p = client[c].first[1]
  <2>1. CommandInv(Idle, incarnation)
    BY IdleIsFine
  <2>2. Become(c, Idle)
    BY <1>1 DEF LookUpSecond
  <2> QED
    BY <2>1, <2>2, IdleTyped
<1>2. CASE p # client[c].first[1]
  <2>1. PICK x : x = [client[c] EXCEPT !.todo = CutRequests(client[c].first, IpOf(p), one)]
    OBVIOUS
  <2>2. client[c] \in ClientStates /\ CommandInv(client[c], incarnation) /\ client[c].op = "disconnect"
    BY Incarnations DEF NetworkInv, LookUpSecond
  <2>3. incarnation \in [Pods -> Nat] /\ incarnation[p] \in Nat
    BY Incarnations DEF Pods
  <2>4. IpOf(p) \in Ips /\ IpOf(p)[1] = p /\ IpOf(p)[2] = incarnation[p]
    BY PodIps DEF Pods
  <2>5. x \in ClientStates /\ CommandInv(x, incarnation) /\ x.op = "disconnect"
    BY <1>2, <2>1, <2>2, <2>3, <2>4, CutCommand
  <2>6. x.todo # <<>>
    <3>1. client[c].first \in Ips
      BY <2>2 DEF CommandInv
    <3>2. DOMAIN CutRequests(client[c].first, IpOf(p), one) = 1..(IF one THEN 1 ELSE 2)
      BY <2>4, <3>1, TwoRequests
    <3>3. CutRequests(client[c].first, IpOf(p), one) # <<>>
      BY <3>2
    <3> QED
      BY <2>1, <2>2, <3>3 DEF ClientStates
  <2> QED
    BY <1>2, <2>1, <2>5, <2>6 DEF LookUpSecond
<1> QED
  BY <1>1, <1>2

LEMMA LookUpSecondKeeps ==
  ASSUME NetworkInv, NEW c \in Clients, NEW p \in Brokers, NEW one \in BOOLEAN,
         LookUpSecond(c, p, one)
  PROVE  NetworkInv'
<1>1. PICK x \in ClientStates : Become(c, x) /\ CommandInv(x, incarnation)
  BY LookUpSecondMoves
<1>2. disconnects' \in 0..MaxDisconnects /\ last' \in [op : Ops, peers : SUBSET Ips]
  BY DEF LookUpSecond, NetworkInv, TypeOK
<1> QED
  BY <1>1, <1>2, OnlyCommandsMove DEF LookUpSecond

LEMMA LookUpFailsKeeps ==
  ASSUME NetworkInv, NEW c \in Clients, LookUpFails(c)
  PROVE  NetworkInv'
<1>1. disconnects' \in 0..MaxDisconnects /\ last' \in [op : Ops, peers : SUBSET Ips]
  BY DEF LookUpFails, NetworkInv, TypeOK
<1> QED
  BY <1>1, IdleTyped, IdleIsFine, OnlyCommandsMove DEF LookUpFails

\* Requests one after the other, k for each of n pods.
LEMMA RequestsOfPods ==
  ASSUME NEW n \in Nat, NEW k \in {1, 2}, NEW i \in 1..(k * n)
  PROVE  LET m == ((i - 1) \div k) + 1
             h == ((i - 1) % k) + 1 IN
         m \in 1..n /\ h \in 1..k /\ i = k * (m - 1) + h
<1>1. CASE k = 1
  <2>1. (i - 1) \div 1 = i - 1 /\ (i - 1) % 1 = 0
    OBVIOUS
  <2> QED
    BY <1>1, <2>1
<1>2. CASE k = 2
  BY <1>2
<1> QED
  BY <1>1, <1>2

LEMMA Gateway == Running(Gateways) # {} => FirstGateway \in Gateways /\ up[FirstGateway]
BY DEF Running, FirstGateway

LEMMA RunningPods ==
  ASSUME NEW S \in SUBSET Pods
  PROVE  IsFiniteSet(S) /\ Running(S) \subseteq S /\ IsFiniteSet(Running(S))
BY NetworkAssumption, FS_Subset DEF Running

\* The requests that part the gateway from the brokers in S.
LEMMA GatewayCommand ==
  ASSUME NetworkInv, NEW a \in Gateways, NEW S \in SUBSET Brokers, S # {},
         NEW one \in BOOLEAN
  PROVE  LET g == IpOf(a)
             pods == SetToSeq(S)
             k == IF one THEN 1 ELSE 2
             y == [op |-> "disconnect", first |-> g,
                    todo |-> [i \in 1..(k * Len(pods)) |->
                       CutRequests(g, IpOf(pods[((i - 1) \div k) + 1]), one)[((i - 1) % k) + 1]]]
         IN  y \in ClientStates /\ CommandInv(y, incarnation) /\ y.todo # <<>>
<1> DEFINE g == IpOf(a)
           pods == SetToSeq(S)
           n == Cardinality(S)
           k == IF one THEN 1 ELSE 2
           m(i) == ((i - 1) \div k) + 1
           h(i) == ((i - 1) % k) + 1
           todo == [i \in 1..(k * n) |-> CutRequests(g, IpOf(pods[m(i)]), one)[h(i)]]
           y == [op |-> "disconnect", first |-> g, todo |-> todo]
<1>1. IsFiniteSet(S) /\ S \subseteq Pods /\ a \in Pods /\ a \notin Brokers
  BY RunningPods, NetworkAssumption DEF Pods
<1>2. /\ n \in Nat /\ pods \in [1..n -> S] /\ Len(pods) = n
      /\ \A i, j \in 1..n : pods[i] = pods[j] => i = j
      /\ \A e \in S : \E i \in 1..n : pods[i] = e
  BY <1>1, SetsAsSequences
<1> HIDE DEF pods, n
<1>3. n > 0
  BY <1>2
<1>4. k \in {1, 2} /\ (one <=> k = 1)
  OBVIOUS
<1> HIDE DEF k
<1>5. ASSUME NEW i \in 1..(k * n)
      PROVE  m(i) \in 1..n /\ h(i) \in 1..k /\ i = k * (m(i) - 1) + h(i)
  BY <1>2, <1>4, RequestsOfPods
<1> HIDE DEF m, h
<1>6. ASSUME NEW p \in Pods
      PROVE  /\ IpOf(p) \in Ips /\ IpOf(p)[1] = p /\ IpOf(p)[2] = incarnation[p]
             /\ incarnation[p] \in Nat
  BY PodIps, Incarnations
<1>7. ASSUME NEW i \in 1..(k * n)
      PROVE  /\ pods[m(i)] \in S /\ m(i) \in 1..n /\ h(i) \in 1..k
             /\ todo[i] = CutRequests(g, IpOf(pods[m(i)]), one)[h(i)]
             /\ h(i) = 1 => todo[i] = [target |-> g, cmd |-> Replace(IpOf(pods[m(i)]))]
             /\ h(i) # 1 => h(i) = 2 /\ todo[i] = [target |-> IpOf(pods[m(i)]), cmd |-> Replace(g)]
  <2>1. pods[m(i)] \in S /\ m(i) \in 1..n /\ h(i) \in 1..k
    BY <1>2, <1>5
  <2>2. g \in Ips /\ IpOf(pods[m(i)]) \in Ips
    BY <1>1, <1>6, <2>1
  <2>3. todo[i] = CutRequests(g, IpOf(pods[m(i)]), one)[h(i)]
    OBVIOUS
  <2>4. h(i) # 1 => h(i) = 2 /\ ~one
    BY <1>4, <2>1
  <2> HIDE DEF todo, g
  <2> QED
    BY <2>1, <2>2, <2>3, <2>4, TwoRequests
<1>8. DOMAIN todo = 1..(k * n)
  OBVIOUS
<1> HIDE DEF todo, g
<1>9. g \in Ips /\ g[1] = a /\ g[2] = incarnation[a] /\ incarnation[a] \in Nat
  BY <1>1, <1>6 DEF g
<1>10. ASSUME NEW i \in 1..(k * n)
       PROVE  todo[i] \in Requests /\ RequestInv(y, todo[i], incarnation)
  <2>1. LET b == pods[m(i)] IN
        /\ IpOf(b) \in Ips /\ IpOf(b)[1] = b /\ IpOf(b)[2] = incarnation[b]
        /\ incarnation[b] \in Nat /\ b # a
    BY <1>1, <1>6, <1>7
  <2> DEFINE b == pods[m(i)]
  <2>2. y.op = "disconnect" /\ Verb("disconnect") = "replace"
    BY DEF Verb
  <2> HIDE DEF y, b
  <2>3. CASE h(i) = 1
    <3>1. todo[i] = [target |-> g, cmd |-> Replace(IpOf(b))]
      BY <1>7, <2>3 DEF b
    <3> QED
      BY <1>9, <2>1, <2>2, <3>1, CommandLines DEF RequestInv, Requests, b
  <2>4. CASE h(i) # 1
    <3>1. todo[i] = [target |-> IpOf(b), cmd |-> Replace(g)]
      BY <1>7, <2>4 DEF b
    <3> QED
      BY <1>9, <2>1, <2>2, <3>1, CommandLines DEF RequestInv, Requests, b
  <2> QED
    BY <2>3, <2>4
<1>11. todo \in Seq(Requests) /\ todo # <<>>
  <2>1. k * n \in Nat /\ 1 \in 1..(k * n)
    BY <1>2, <1>3, <1>4
  <2>2. todo \in [1..(k * n) -> Requests]
    BY <1>10 DEF todo
  <2> DEFINE r == k * n
  <2> HIDE DEF r
  <2>3. todo \in [1..r -> Requests] /\ r \in Nat /\ 1 \in 1..r
    BY <2>1, <2>2 DEF r
  <2> QED
    BY <2>3
<1>12. \A i, j \in 1..(k * n) :
         todo[i].target[1] \in Brokers /\ todo[i].target[1] = todo[j].target[1] => i = j
  <2> SUFFICES ASSUME NEW i \in 1..(k * n), NEW j \in 1..(k * n),
                      todo[i].target[1] \in Brokers, todo[i].target[1] = todo[j].target[1]
               PROVE  i = j
    OBVIOUS
  <2>1. h(i) = 2 /\ h(j) = 2 /\ pods[m(i)] = pods[m(j)]
    <3>1. ASSUME NEW r \in 1..(k * n), todo[r].target[1] \in Brokers
          PROVE  h(r) = 2 /\ todo[r].target[1] = pods[m(r)]
      <4>1. /\ pods[m(r)] \in S
            /\ h(r) = 1 => todo[r] = [target |-> g, cmd |-> Replace(IpOf(pods[m(r)]))]
            /\ h(r) # 1 => h(r) = 2 /\ todo[r] = [target |-> IpOf(pods[m(r)]), cmd |-> Replace(g)]
        BY <1>7
      <4>2. h(r) = 1 => todo[r].target[1] = a
        BY <1>9, <4>1
      <4>3. IpOf(pods[m(r)])[1] = pods[m(r)]
        BY <1>1, <1>6, <4>1
      <4> QED
        BY <1>1, <3>1, <4>1, <4>2, <4>3
    <3> QED
      BY <3>1
  <2>2. m(i) = m(j)
    BY <1>2, <1>7, <2>1
  <2> QED
    BY <1>5, <2>1, <2>2
<1>13. y \in ClientStates
  BY <1>9, <1>11 DEF ClientStates, Ops
<1>14. CommandInv(y, incarnation)
  <2>1. \A i \in 1..(k * n) : RequestInv(y, todo[i], incarnation)
    BY <1>10
  <2> QED
    BY ONLY <1>1, <1>8, <1>9, <1>12, <2>1 DEF CommandInv, y
<1> QED
  BY <1>2, <1>11, <1>13, <1>14 DEF y, todo, k, m, h, g, pods, n

LEMMA DisconnectGatewayMoves ==
  ASSUME NetworkInv, NEW c \in Clients, NEW S \in SUBSET Brokers, NEW one \in BOOLEAN,
         DisconnectGateway(c, S, one)
  PROVE  \E x \in ClientStates :
           Become(c, x) /\ CommandInv(x, incarnation) /\ x.op = "disconnect" /\ x.todo # <<>>
<1>1. FirstGateway \in Gateways /\ S # {}
  BY Gateway DEF DisconnectGateway
<1> DEFINE g == IpOf(FirstGateway)
           pods == SetToSeq(S)
           k == IF one THEN 1 ELSE 2
           y == [op |-> "disconnect", first |-> g,
                    todo |-> [i \in 1..(k * Len(pods)) |->
                       CutRequests(g, IpOf(pods[((i - 1) \div k) + 1]), one)[((i - 1) % k) + 1]]]
<1>2. PICK x : x = y
  OBVIOUS
<1>3. x \in ClientStates /\ CommandInv(x, incarnation) /\ x.todo # <<>>
  BY <1>1, <1>2, GatewayCommand
<1>4. Become(c, x) /\ x.op = "disconnect"
  BY <1>2 DEF DisconnectGateway
<1> QED
  BY <1>3, <1>4

LEMMA DisconnectGatewayKeeps ==
  ASSUME NetworkInv, NEW c \in Clients, NEW S \in SUBSET Brokers, NEW one \in BOOLEAN,
         DisconnectGateway(c, S, one)
  PROVE  NetworkInv'
<1>1. PICK x \in ClientStates : Become(c, x) /\ CommandInv(x, incarnation)
  BY DisconnectGatewayMoves
<1>2. disconnects' \in 0..MaxDisconnects /\ last' \in [op : Ops, peers : SUBSET Ips]
  BY NetworkAssumption, NothingYet DEF DisconnectGateway, StartDisconnect, NetworkInv, TypeOK
<1> QED
  BY <1>1, <1>2, OnlyCommandsMove DEF DisconnectGateway

\* The brokers that run, one after the other.
LEMMA ListedBrokers ==
  ASSUME NetworkInv, Running(Brokers) # {}
  PROVE  LET pods == SetToSeq(Running(Brokers))
             n == Cardinality(Running(Brokers)) IN
         /\ n \in Nat /\ n > 0 /\ DOMAIN pods = 1..n
         /\ \A i \in 1..n :
              /\ pods[i] \in Running(Brokers)
              /\ IpOf(pods[i]) \in Ips /\ IpOf(pods[i])[1] = pods[i]
              /\ IpOf(pods[i])[2] = incarnation[pods[i]] /\ incarnation[pods[i]] \in Nat
         /\ \A i, j \in 1..n : pods[i] = pods[j] => i = j
         /\ \A b \in Running(Brokers) : \E i \in 1..n : pods[i] = b
<1>1. IsFiniteSet(Running(Brokers)) /\ Running(Brokers) \subseteq Pods
  BY RunningPods DEF Pods
<1>2. \A p \in Pods : /\ IpOf(p) \in Ips /\ IpOf(p)[1] = p
                      /\ IpOf(p)[2] = incarnation[p] /\ incarnation[p] \in Nat
  BY PodIps, Incarnations
<1> DEFINE pods == SetToSeq(Running(Brokers))
           n == Cardinality(Running(Brokers))
<1>3. /\ n \in Nat /\ pods \in [1..n -> Running(Brokers)]
      /\ \A i, j \in 1..n : pods[i] = pods[j] => i = j
      /\ \A e \in Running(Brokers) : \E i \in 1..n : pods[i] = e
  BY <1>1, SetsAsSequences
<1> HIDE DEF pods, n
<1>4. n > 0
  BY <1>3
<1> QED
  BY <1>1, <1>2, <1>3, <1>4 DEF pods, n

LEMMA StartConnectKeeps ==
  ASSUME NetworkInv, NEW c \in Clients, NEW op \in {"connectBrokers", "connectGateway"},
         NEW S, NEW todo \in Seq(Requests), todo # <<>>, StartConnect(c, op, S, todo),
         CommandInv([op |-> op, first |-> NoPod, todo |-> todo], incarnation)
  PROVE  NetworkInv'
<1> DEFINE x == [op |-> op, first |-> NoPod, todo |-> todo]
<1>1. x \in ClientStates
  BY DEF ClientStates, Ops
<1>2. \A p \in Pods : IpOf(p) \in Ips
  BY PodIps
<1>3. last' \in [op : Ops, peers : SUBSET Ips]
  <2>1. {IpOf(p) : p \in Running(Pods)} \subseteq Ips
    BY <1>2 DEF Running
  <2> QED
    BY <2>1 DEF StartConnect, Ops
<1>4. cut' \subseteq cut /\ disconnects' \in 0..MaxDisconnects
  BY DEF StartConnect, NetworkInv, TypeOK
<1>5. Become(c, x) /\ UNCHANGED <<Cluster, containers, owed>>
  BY DEF StartConnect
<1> QED
  BY <1>1, <1>3, <1>4, <1>5, OnlyCommandsMove

LEMMA ConnectBrokersMoves ==
  ASSUME NetworkInv, NEW c \in Clients, ConnectBrokers(c)
  PROVE  \E todo \in Seq(Requests) :
           /\ todo # <<>> /\ StartConnect(c, "connectBrokers", Brokers, todo)
           /\ CommandInv([op |-> "connectBrokers", first |-> NoPod, todo |-> todo], incarnation)
<1> DEFINE pods == SetToSeq(Running(Brokers))
           n == Cardinality(Running(Brokers))
           s == [i \in DOMAIN pods |-> [target |-> IpOf(pods[i]), cmd |-> DeleteFirst]]
<1>1. /\ n \in Nat /\ n > 0 /\ DOMAIN pods = 1..n
      /\ \A i \in 1..n :
           /\ pods[i] \in Running(Brokers)
           /\ IpOf(pods[i]) \in Ips /\ IpOf(pods[i])[1] = pods[i]
           /\ IpOf(pods[i])[2] = incarnation[pods[i]] /\ incarnation[pods[i]] \in Nat
      /\ \A i, j \in 1..n : pods[i] = pods[j] => i = j
  BY ListedBrokers DEF ConnectBrokers
<1> HIDE DEF pods, n
<1>2. /\ DOMAIN s = 1..n
      /\ \A i \in 1..n : s[i] = [target |-> IpOf(pods[i]), cmd |-> DeleteFirst]
  BY <1>1
<1>3. PICK todo : todo = s
  OBVIOUS
<1> HIDE DEF s
<1>4. \A i \in 1..n : todo[i] \in Requests
  BY <1>1, <1>2, <1>3, CommandLines DEF Requests
<1>5. todo \in Seq(Requests) /\ todo # <<>>
  <2>1. todo \in [1..n -> Requests]
    BY <1>2, <1>3, <1>4 DEF s
  <2> QED
    BY <1>1, <2>1
<1> DEFINE x == [op |-> "connectBrokers", first |-> NoPod, todo |-> todo]
<1>6. x.op = "connectBrokers" /\ x.todo = todo /\ Verb("connectBrokers") = "deleteFirst"
  BY DEF Verb
<1>7. \A i \in 1..n : pods[i] \in Brokers
  BY <1>1 DEF Running
<1> HIDE DEF x
<1>8. \A i \in 1..n : RequestInv(x, todo[i], incarnation)
  BY <1>1, <1>2, <1>3, <1>6, <1>7, CommandLines DEF RequestInv
<1>9. CommandInv(x, incarnation)
  BY <1>1, <1>2, <1>3, <1>5, <1>6, <1>8 DEF CommandInv
<1> QED
  BY <1>3, <1>5, <1>9 DEF ConnectBrokers, s, pods, x

LEMMA ConnectGatewayMoves ==
  ASSUME NetworkInv, NEW c \in Clients, ConnectGateway(c)
  PROVE  \E todo \in Seq(Requests) :
           /\ todo # <<>> /\ StartConnect(c, "connectGateway", Gateways, todo)
           /\ CommandInv([op |-> "connectGateway", first |-> NoPod, todo |-> todo], incarnation)
           /\ \A i \in DOMAIN todo : todo[i].target = IpOf(FirstGateway)
           /\ \A b \in Running(Brokers) : \E i \in DOMAIN todo : todo[i].cmd = Delete(IpOf(b))
<1> DEFINE pods == SetToSeq(Running(Brokers))
           n == Cardinality(Running(Brokers))
           s == [i \in DOMAIN pods |->
                   [target |-> IpOf(FirstGateway), cmd |-> Delete(IpOf(pods[i]))]]
<1>1. /\ n \in Nat /\ n > 0 /\ DOMAIN pods = 1..n
      /\ \A i \in 1..n : pods[i] \in Running(Brokers) /\ IpOf(pods[i]) \in Ips
      /\ \A b \in Running(Brokers) : \E i \in 1..n : pods[i] = b
  BY ListedBrokers DEF ConnectGateway
<1> HIDE DEF pods, n
<1>2. /\ DOMAIN s = 1..n
      /\ \A i \in 1..n : s[i] = [target |-> IpOf(FirstGateway), cmd |-> Delete(IpOf(pods[i]))]
  BY <1>1
<1>3. PICK todo : todo = s
  OBVIOUS
<1> HIDE DEF s
<1>4. FirstGateway \in Gateways /\ FirstGateway \in Pods /\ FirstGateway \notin Brokers
  BY Gateway, NetworkAssumption DEF ConnectGateway, Pods
<1>5. /\ IpOf(FirstGateway) \in Ips /\ IpOf(FirstGateway)[1] = FirstGateway
      /\ IpOf(FirstGateway)[2] = incarnation[FirstGateway] /\ incarnation[FirstGateway] \in Nat
  BY <1>4, PodIps, Incarnations
<1>6. \A i \in 1..n : todo[i] \in Requests
  BY <1>1, <1>2, <1>3, <1>5, CommandLines DEF Requests
<1>7. todo \in Seq(Requests) /\ todo # <<>>
  <2>1. todo \in [1..n -> Requests]
    BY <1>2, <1>3, <1>6 DEF s
  <2> QED
    BY <1>1, <2>1
<1> DEFINE x == [op |-> "connectGateway", first |-> NoPod, todo |-> todo]
<1>8. x.op = "connectGateway" /\ x.todo = todo /\ Verb("connectGateway") = "delete"
  BY DEF Verb
<1> HIDE DEF x
<1>9. \A i \in 1..n : RequestInv(x, todo[i], incarnation)
  BY <1>1, <1>2, <1>3, <1>4, <1>5, <1>8, CommandLines DEF RequestInv
<1>10. CommandInv(x, incarnation)
  BY <1>1, <1>2, <1>3, <1>4, <1>5, <1>7, <1>8, <1>9 DEF CommandInv
<1>11. \A b \in Running(Brokers) : \E i \in DOMAIN todo : todo[i].cmd = Delete(IpOf(b))
  BY <1>1, <1>2, <1>3
<1>12. \A i \in DOMAIN todo : todo[i].target = IpOf(FirstGateway)
  BY <1>2, <1>3
<1>13. StartConnect(c, "connectGateway", Gateways, todo)
  BY <1>3 DEF ConnectGateway, s, pods
<1> QED
  BY <1>7, <1>10, <1>11, <1>12, <1>13 DEF x

LEMMA ConnectKeeps ==
  ASSUME NetworkInv, NEW c \in Clients, ConnectBrokers(c) \/ ConnectGateway(c)
  PROVE  NetworkInv'
<1>1. CASE ConnectBrokers(c)
  BY <1>1, ConnectBrokersMoves, StartConnectKeeps
<1>2. CASE ConnectGateway(c)
  BY <1>2, ConnectGatewayMoves, StartConnectKeeps
<1> QED
  BY <1>1, <1>2

-----------------------------------------------------------------------------
\* What a command makes of the answer to its first request.
LEMMA Proceeds ==
  ASSUME NetworkInv, NEW c \in Clients, client[c].todo # <<>>, NEW ok \in BOOLEAN,
         Proceed(c, ok)
  PROVE  \E x \in ClientStates :
           /\ Become(c, x) /\ CommandInv(x, incarnation)
           /\ \/ /\ x = Idle /\ last' = [last EXCEPT !.op = client[c].op]
                 /\ client[c].op = "disconnect" \/ Tail(client[c].todo) = <<>>
              \/ /\ x # Idle /\ last' = last
                 /\ x.op = client[c].op /\ x.todo = Tail(client[c].todo) /\ x.todo # <<>>
                 /\ DOMAIN x.todo = 1..(Len(client[c].todo) - 1)
                 /\ \A i \in DOMAIN x.todo :
                      i + 1 \in DOMAIN client[c].todo /\ x.todo[i] = client[c].todo[i + 1]
<1>1. client[c] \in ClientStates /\ CommandInv(client[c], incarnation) /\ incarnation \in [Pods -> Nat]
  BY Incarnations DEF NetworkInv
<1>2. CASE Tail(client[c].todo) = <<>> \/ (client[c].op = "disconnect" /\ ~ok)
  <2>1. Become(c, Idle) /\ last' = [last EXCEPT !.op = client[c].op]
    BY <1>2 DEF Proceed
  <2>2. CommandInv(Idle, incarnation)
    BY IdleIsFine
  <2> QED
    BY <1>2, <2>1, <2>2, IdleTyped
<1>3. CASE ~(Tail(client[c].todo) = <<>> \/ (client[c].op = "disconnect" /\ ~ok))
  <2>1. PICK x : x = [client[c] EXCEPT !.todo = Tail(client[c].todo)]
    OBVIOUS
  <2>2. Become(c, x) /\ last' = last
    BY <1>3, <2>1 DEF Proceed
  <2>3. /\ x \in ClientStates /\ CommandInv(x, incarnation)
        /\ x.op = client[c].op /\ x.todo = Tail(client[c].todo)
        /\ DOMAIN x.todo = 1..(Len(client[c].todo) - 1)
        /\ \A i \in DOMAIN x.todo :
             i + 1 \in DOMAIN client[c].todo /\ x.todo[i] = client[c].todo[i + 1]
    BY <1>1, <1>3, <2>1, RestOfRequests
  <2>4. x.todo # <<>>
    BY <1>3, <2>3
  <2>5. x # Idle
    BY <2>4 DEF Idle
  <2> QED
    BY <2>2, <2>3, <2>4, <2>5
<1> QED
  BY <1>2, <1>3

\* The first request of a command.
LEMMA FirstRequest ==
  ASSUME NetworkInv, NEW c \in Clients, client[c].todo # <<>>
  PROVE  /\ 1 \in DOMAIN client[c].todo /\ Head(client[c].todo) = client[c].todo[1]
         /\ Head(client[c].todo) \in Requests
         /\ Head(client[c].todo).target \in Ips /\ Head(client[c].todo).target[1] \in Pods
         /\ Head(client[c].todo).cmd \in Commands
         /\ RequestInv(client[c], Head(client[c].todo), incarnation)
         /\ client[c].op \in {"disconnect", "connectBrokers", "connectGateway"}
         /\ client[c] # Idle
<1>1. client[c] \in ClientStates /\ CommandInv(client[c], incarnation)
  BY Incarnations DEF NetworkInv
<1>2. client[c].todo \in Seq(Requests) /\ client[c].op \in Ops
  BY <1>1 DEF ClientStates
<1>3. /\ 1 \in DOMAIN client[c].todo /\ Head(client[c].todo) = client[c].todo[1]
      /\ Head(client[c].todo) \in Requests
  BY <1>2
<1>4. Head(client[c].todo).target \in Ips /\ Head(client[c].todo).cmd \in Commands
  BY <1>3 DEF Requests
<1>5. client[c] # Idle
  BY DEF Idle
<1> QED
  BY <1>1, <1>2, <1>3, <1>4, <1>5, FiniteIps DEF CommandInv, Ops

LEMMA RequestFailsKeeps ==
  ASSUME NetworkInv, NEW c \in Clients, RequestFails(c)
  PROVE  NetworkInv'
<1>1. client[c].todo # <<>> /\ Proceed(c, FALSE)
  BY DEF RequestFails
<1>2. PICK x \in ClientStates :
        /\ Become(c, x) /\ CommandInv(x, incarnation)
        /\ last' = [last EXCEPT !.op = client[c].op] \/ last' = last
  BY <1>1, Proceeds
<1>3. client[c].op \in Ops /\ last \in [op : Ops, peers : SUBSET Ips]
  BY Incarnations DEF ClientStates, NetworkInv, TypeOK
<1>4. last' \in [op : Ops, peers : SUBSET Ips]
  BY <1>2, <1>3
<1>5. disconnects' \in 0..MaxDisconnects /\ cut' \subseteq cut
  BY DEF RequestFails, NetworkInv, TypeOK
<1> QED
  BY <1>2, <1>4, <1>5, OnlyCommandsMove DEF RequestFails

\* A container is added to pod p, and what it is to do is written down.
Added(c, request, p) ==
  /\ request = Head(client[c].todo) /\ p = request.target[1]
  /\ client[c].todo # <<>> /\ Proceed(c, TRUE) /\ Found(request.target)
  /\ p \in Pods /\ request.cmd \in Commands
  /\ UNCHANGED <<up, incarnation, routes, disconnects>>
  /\ \A q \in Pods : IsABag(containers'[q])
  /\ Waits(p)' = Waits(p) \cup {request.cmd}
  /\ containers[p] = EmptyBag => containers'[p] = [e \in {request.cmd} |-> 1]
  /\ owed' \in [Pods -> Nat]
  /\ request.cmd.op = "replace" => owed'[p] = owed[p] + 1
  /\ request.cmd.op = "deleteFirst" => owed[p] <= owed'[p] + 1
  /\ \A q \in Pods : q # p =>
       containers'[q] = containers[q] /\ Waits(q)' = Waits(q) /\ owed'[q] = owed[q]

LEMMA AddedContainer ==
  ASSUME NetworkInv, NEW c \in Clients, AddContainer(c)
  PROVE  \E request \in Requests, p \in Pods : Added(c, request, p)
<1>a. Head(client[c].todo) \in Requests /\ Head(client[c].todo).target[1] \in Pods
  BY FirstRequest DEF AddContainer
<1>b. PICK request \in Requests : request = Head(client[c].todo)
  BY <1>a
<1>c. PICK p \in Pods : p = request.target[1]
  BY <1>a, <1>b
<1>1. /\ client[c].todo # <<>> /\ Proceed(c, TRUE) /\ Found(request.target)
      /\ request = Head(client[c].todo) /\ p = request.target[1]
  BY <1>b, <1>c DEF AddContainer
<1>2. p \in Pods /\ request.cmd \in Commands
  BY <1>1, <1>b, <1>c, FirstRequest
<1>3. UNCHANGED <<up, incarnation, routes, disconnects>>
  BY DEF AddContainer, Cluster
<1>4. /\ DOMAIN containers = Pods
      /\ \A q \in Pods : IsABag(containers[q])
      /\ owed \in [Pods -> Nat]
  BY DEF NetworkInv, TypeOK
<1>5. /\ containers' = [containers EXCEPT ![p] = @ (+) SetToBag({request.cmd})]
      /\ owed' = [owed EXCEPT ![p] =
                    CASE request.cmd.op = "replace"     -> @ + 1
                      [] request.cmd.op = "deleteFirst" -> IF @ > 0 THEN @ - 1 ELSE 0
                      [] OTHER                          -> @]
  BY <1>b, <1>c DEF AddContainer
<1>6. /\ containers'[p] = containers[p] (+) SetToBag({request.cmd})
      /\ \A q \in Pods : q # p => containers'[q] = containers[q]
  BY <1>2, <1>4, <1>5
<1>7. /\ IsABag(containers'[p])
      /\ BagToSet(containers'[p]) = BagToSet(containers[p]) \cup {request.cmd}
      /\ containers[p] = EmptyBag => containers'[p] = [e \in {request.cmd} |-> 1]
  <2>1. IsABag(containers[p])
    BY <1>2, <1>4
  <2>2. LET B == containers[p] (+) SetToBag({request.cmd}) IN
        /\ IsABag(B) /\ BagToSet(B) = BagToSet(containers[p]) \cup {request.cmd}
        /\ containers[p] = EmptyBag => B = [e \in {request.cmd} |-> 1]
    BY <2>1, AddingToBags, Zenon
  <2> QED
    BY <1>6, <2>2
<1>8. /\ owed' \in [Pods -> Nat]
      /\ request.cmd.op = "replace" => owed'[p] = owed[p] + 1
      /\ request.cmd.op = "deleteFirst" => owed[p] <= owed'[p] + 1
      /\ \A q \in Pods : q # p => owed'[q] = owed[q]
  <2>1. owed[p] \in Nat
    BY <1>2, <1>4
  <2>2. CASE request.cmd.op = "replace"
    BY <1>2, <1>4, <1>5, <2>1, <2>2
  <2>3. CASE request.cmd.op = "deleteFirst"
    BY <1>2, <1>4, <1>5, <2>1, <2>3
  <2>4. CASE request.cmd.op \notin {"replace", "deleteFirst"}
    BY <1>2, <1>4, <1>5, <2>1, <2>4
  <2> QED
    BY <2>2, <2>3, <2>4
<1>9. \A q \in Pods : IsABag(containers'[q])
  BY <1>4, <1>6, <1>7
<1> QED
  BY <1>1, <1>2, <1>3, <1>6, <1>7, <1>8, <1>9 DEF Waits, Added

LEMMA AddContainerKeeps ==
  ASSUME NetworkInv, NEW c \in Clients, AddContainer(c)
  PROVE  NetworkInv'
<1>1. PICK request \in Requests, p \in Pods : Added(c, request, p)
  BY AddedContainer
<1>2. p = request.target[1] /\ request = Head(client[c].todo)
  BY <1>1 DEF Added
<1>3. /\ client[c].todo # <<>> /\ Proceed(c, TRUE)
      /\ p \in Pods /\ request.cmd \in Commands
      /\ UNCHANGED <<up, incarnation, routes, disconnects>>
      /\ \A q \in Pods : IsABag(containers'[q])
      /\ Waits(p)' = Waits(p) \cup {request.cmd}
      /\ owed' \in [Pods -> Nat] /\ Found(request.target)
      /\ \A q \in Pods : q # p => containers'[q] = containers[q] /\ Waits(q)' = Waits(q)
  BY <1>1 DEF Added
<1>4. /\ request \in Requests /\ request.target \in Ips
      /\ RequestInv(client[c], request, incarnation)
      /\ client[c].op \in {"disconnect", "connectBrokers", "connectGateway"}
  BY <1>2, <1>3, FirstRequest
<1>5. PICK x \in ClientStates :
        /\ Become(c, x) /\ CommandInv(x, incarnation)
        /\ last' = [last EXCEPT !.op = client[c].op] \/ last' = last
  BY <1>3, Proceeds
<1>6. /\ client' \in [Clients -> ClientStates]
      /\ \A d \in Clients : CommandInv(client[d], incarnation)'
  BY <1>3, <1>5, CommandsMove DEF CommandInv, RequestInv
<1>7. cut' = IF request.cmd.op = "replace"
             THEN cut \cup {<<request.target, request.cmd.ip>>} ELSE cut
  BY <1>2 DEF AddContainer
<1>8. TypeOK'
  <2>1. last \in [op : Ops, peers : SUBSET Ips] /\ client[c].op \in Ops
    BY <1>4 DEF NetworkInv, TypeOK, Ops
  <2>2. last' \in [op : Ops, peers : SUBSET Ips]
    BY <1>5, <2>1
  <2>3. cut' \subseteq Ips \X Ips
    BY <1>3, <1>4, <1>7, CommandLines DEF NetworkInv, TypeOK
  <2>4. \A q \in Pods : BagToSet(containers'[q]) \subseteq Commands
    BY <1>3 DEF NetworkInv, TypeOK, Waits
  <2>5. DOMAIN containers' = Pods
    BY DEF AddContainer, NetworkInv, TypeOK
  <2>6. /\ up' \in [Pods -> BOOLEAN] /\ incarnation' \in [Pods -> 0..MaxRestarts]
        /\ routes' \in [Pods -> SUBSET Ips] /\ disconnects' \in 0..MaxDisconnects
    BY <1>3 DEF NetworkInv, TypeOK
  <2> QED
    BY <1>3, <1>6, <2>2, <2>3, <2>4, <2>5, <2>6 DEF TypeOK, ClientStates
<1>9. ASSUME NEW q \in Pods PROVE PodInv(q)'
  <2>1. PodInv(q) /\ UNCHANGED <<up, routes>>
    BY <1>3 DEF NetworkInv
  <2>2. CASE q # p
    BY <1>3, <2>1, <2>2 DEF PodInv
  <2>3. CASE q = p
    <3>1. up[p]
      BY <1>2, <1>3 DEF Found
    <3>2. /\ request.cmd.op = "replace" => request.cmd.ip[1] # p
          /\ request.cmd.op = "deleteFirst" => p \in Brokers
          /\ request.cmd.op = "delete" => p \in Gateways
      BY <1>2, <1>4 DEF RequestInv, Verb
    <3> QED
      BY <1>3, <2>1, <2>3, <3>1, <3>2 DEF PodInv
  <2> QED
    BY <2>2, <2>3
<1>10. CutInv'
  <2>1. request.target[2] <= incarnation[request.target[1]]
    BY <1>4 DEF RequestInv
  <2> QED
    BY <1>3, <1>7, <2>1 DEF CutInv, NetworkInv
<1> QED
  BY <1>6, <1>8, <1>9, <1>10 DEF NetworkInv

\* A container that has ended, whether it did something or failed.
LEMMA RemovedContainer ==
  ASSUME NetworkInv, NEW p \in Pods, NEW cmd \in Waits(p), RemoveContainer(p, cmd)
  PROVE  /\ cmd \in Commands /\ up[p]
         /\ DOMAIN containers' = Pods
         /\ \A q \in Pods : IsABag(containers'[q]) /\ Waits(q)' \subseteq Waits(q)
         /\ \A q \in Pods : q # p => containers'[q] = containers[q]
         /\ Waits(p) \ {cmd} \subseteq Waits(p)'
         /\ containers[p] = [e \in {cmd} |-> 1] => containers'[p] = EmptyBag
<1>1. /\ DOMAIN containers = Pods
      /\ \A q \in Pods : IsABag(containers[q]) /\ Waits(q) \subseteq Commands
  BY DEF NetworkInv, TypeOK, Waits
<1>2. containers' = [containers EXCEPT ![p] = @ (-) SetToBag({cmd})]
  BY DEF RemoveContainer
<1>3. /\ DOMAIN containers' = Pods
      /\ containers'[p] = containers[p] (-) SetToBag({cmd})
      /\ \A q \in Pods : q # p => containers'[q] = containers[q]
  BY <1>1, <1>2
<1>4. IsABag(containers[p])
  BY <1>1
<1>5. /\ IsABag(containers'[p]) /\ Waits(p)' \subseteq Waits(p)
      /\ Waits(p) \ {cmd} \subseteq Waits(p)'
  BY <1>3, <1>4, RemovingFromBags DEF Waits
<1>6. containers[p] = [e \in {cmd} |-> 1] => containers'[p] = EmptyBag
  BY <1>3, SingleBags
<1>7. \A q \in Pods : q # p => Waits(q)' = Waits(q)
  BY <1>3 DEF Waits
<1>8. up[p]
  BY EmptyBags DEF NetworkInv, PodInv, Waits
<1> QED
  BY <1>1, <1>3, <1>5, <1>6, <1>7, <1>8

LEMMA ContainerEndsKeeps ==
  ASSUME NetworkInv, NEW p \in Pods, NEW cmd \in Waits(p),
         RunContainer(p, cmd) \/ ContainerFails(p, cmd)
  PROVE  NetworkInv'
<1>1. /\ RemoveContainer(p, cmd)
      /\ UNCHANGED <<up, incarnation, client, disconnects, owed, cut, last>>
  BY DEF RunContainer, ContainerFails, RemoveContainer
<1>2. /\ cmd \in Commands /\ up[p] /\ DOMAIN containers' = Pods
      /\ \A q \in Pods : IsABag(containers'[q]) /\ Waits(q)' \subseteq Waits(q)
      /\ \A q \in Pods : q # p => containers'[q] = containers[q]
  BY <1>1, RemovedContainer
<1>3. PICK S : /\ routes' = [routes EXCEPT ![p] = S]
               /\ S \subseteq Ips /\ \A ip \in S : ip[1] # p
  <2>1. routes \in [Pods -> SUBSET Ips] /\ \A ip \in routes[p] : ip[1] # p
    BY DEF NetworkInv, TypeOK, PodInv
  <2>2. CASE ContainerFails(p, cmd)
    <3>1. routes' = [routes EXCEPT ![p] = routes[p]]
      BY <2>1, <2>2 DEF ContainerFails
    <3> QED
      BY <2>1, <3>1
  <2>3. CASE RunContainer(p, cmd)
    <3>1. PICK S \in After(p, cmd) : routes' = [routes EXCEPT ![p] = S]
      BY <2>3 DEF RunContainer
    <3>2. cmd.op = "replace" => cmd.ip \in Ips /\ cmd.ip[1] # p
      BY <1>2, CommandLines DEF NetworkInv, PodInv
    <3>3. S \subseteq routes[p] \/ (cmd.op = "replace" /\ S = routes[p] \cup {cmd.ip})
      BY <1>2, <3>1, CommandLines DEF After
    <3>4. routes[p] \subseteq Ips
      BY <2>1
    <3>5. S \subseteq Ips /\ \A ip \in S : ip[1] # p
      BY <2>1, <3>2, <3>3, <3>4
    <3> QED
      BY <3>1, <3>5
  <2> QED
    BY <2>2, <2>3
<1>4. /\ routes' \in [Pods -> SUBSET Ips] /\ routes'[p] = S
      /\ \A q \in Pods : q # p => routes'[q] = routes[q]
  BY <1>3 DEF NetworkInv, TypeOK
<1>5. TypeOK'
  BY <1>1, <1>2, <1>4 DEF NetworkInv, TypeOK, Waits
<1>6. \A c \in Clients : CommandInv(client[c], incarnation)'
  BY <1>1 DEF NetworkInv, CommandInv, RequestInv
<1>7. ASSUME NEW q \in Pods PROVE PodInv(q)'
  <2>1. PodInv(q)
    BY DEF NetworkInv
  <2>2. \A ip \in routes'[q] : ip[1] # q
    BY <1>3, <1>4, <2>1 DEF PodInv
  <2>3. ~up[q] => q # p
    BY <1>2
  <2> QED
    BY <1>1, <1>2, <1>4, <2>1, <2>2, <2>3 DEF PodInv
<1>8. CutInv'
  BY <1>1 DEF CutInv, NetworkInv
<1> QED
  BY <1>5, <1>6, <1>7, <1>8 DEF NetworkInv

LEMMA PodStopsKeeps ==
  ASSUME NetworkInv, NEW p \in Pods, PodStops(p)
  PROVE  NetworkInv'
<1>1. UNCHANGED <<incarnation, client, disconnects, cut, last>>
  BY DEF PodStops
<1>2. /\ up' \in [Pods -> BOOLEAN] /\ routes' \in [Pods -> SUBSET Ips] /\ owed' \in [Pods -> Nat]
      /\ DOMAIN containers' = Pods /\ routes'[p] = {} /\ containers'[p] = EmptyBag
      /\ \A q \in Pods : q # p =>
           up'[q] = up[q] /\ routes'[q] = routes[q] /\ containers'[q] = containers[q]
  BY DEF PodStops, NetworkInv, TypeOK
<1>3. \A q \in Pods : IsABag(containers'[q]) /\ BagToSet(containers'[q]) \subseteq Commands
  BY <1>2, EmptyBags DEF NetworkInv, TypeOK
<1>4. TypeOK'
  BY <1>1, <1>2, <1>3 DEF NetworkInv, TypeOK
<1>5. \A c \in Clients : CommandInv(client[c], incarnation)'
  BY <1>1 DEF NetworkInv, CommandInv, RequestInv
<1>6. \A q \in Pods : PodInv(q)'
  <2>1. incarnation[p] < MaxRestarts
    BY DEF PodStops
  <2> QED
    BY <1>1, <1>2, <2>1, EmptyBags DEF NetworkInv, PodInv, Waits
<1>7. CutInv'
  BY <1>1 DEF CutInv, NetworkInv
<1> QED
  BY <1>4, <1>5, <1>6, <1>7 DEF NetworkInv

LEMMA PodStartsKeeps ==
  ASSUME NetworkInv, NEW p \in Pods, PodStarts(p)
  PROVE  NetworkInv'
<1>1. UNCHANGED <<routes, containers, client, disconnects, owed, cut, last>> /\ ~up[p]
  BY DEF PodStarts
<1>2. incarnation[p] < MaxRestarts /\ incarnation[p] \in Nat
  BY <1>1, Incarnations DEF NetworkInv, PodInv
<1>3. /\ up' \in [Pods -> BOOLEAN] /\ incarnation' \in [Pods -> 0..MaxRestarts]
      /\ up'[p] /\ incarnation'[p] = incarnation[p] + 1
      /\ \A q \in Pods : q # p => up'[q] = up[q] /\ incarnation'[q] = incarnation[q]
  <2>1. up \in [Pods -> BOOLEAN] /\ incarnation \in [Pods -> 0..MaxRestarts]
    BY DEF NetworkInv, TypeOK
  <2>2. incarnation[p] + 1 \in 0..MaxRestarts
    BY <1>2, NetworkAssumption
  <2> QED
    BY <2>1, <2>2 DEF PodStarts
<1>4. TypeOK'
  BY <1>1, <1>3 DEF NetworkInv, TypeOK
<1>5. /\ incarnation \in [Pods -> Nat] /\ incarnation' \in [Pods -> Nat]
      /\ \A q \in Pods : incarnation[q] <= incarnation'[q]
  <2>1. incarnation \in [Pods -> Nat] /\ incarnation' \in [Pods -> Nat]
    BY <1>3, Incarnations
  <2> QED
    BY <1>2, <1>3, <2>1
<1>6. \A c \in Clients : CommandInv(client'[c], incarnation')
  BY <1>1, <1>5, Incarnations, RestartsKeepCommands DEF NetworkInv
<1>7. \A q \in Pods : PodInv(q)'
  BY <1>1, <1>3 DEF NetworkInv, PodInv, Waits
<1>8. CutInv'
  <2> SUFFICES ASSUME NEW x \in cut PROVE x[1][2] <= incarnation'[x[1][1]]
    BY <1>1 DEF CutInv
  <2>1. x[1] \in Ips
    BY DEF NetworkInv, TypeOK
  <2>2. x[1][1] \in Pods /\ x[1][2] \in Nat
    BY <2>1, FiniteIps
  <2>3. x[1][2] <= incarnation[x[1][1]]
    BY DEF NetworkInv, CutInv
  <2> QED
    BY <1>5, <2>2, <2>3
<1> QED
  BY <1>4, <1>6, <1>7, <1>8 DEF NetworkInv

LEMMA NextNetwork == NetworkInv /\ [Next]_vars => NetworkInv'
<1> SUFFICES ASSUME NetworkInv, [Next]_vars PROVE NetworkInv'
  OBVIOUS
<1>1. CASE \E c \in Clients : Client(c)
  <2>1. PICK c \in Clients : Client(c)
    BY <1>1
  <2>2. CASE \E p \in Brokers : LookUpFirst(c, p)
    BY <2>2, LookUpFirstKeeps
  <2>3. CASE \E p \in Brokers, oneDirection \in BOOLEAN : LookUpSecond(c, p, oneDirection)
    BY <2>3, LookUpSecondKeeps
  <2>4. CASE LookUpFails(c)
    BY <2>4, LookUpFailsKeeps
  <2>5. CASE \E S \in SUBSET Brokers, oneDirection \in BOOLEAN : DisconnectGateway(c, S, oneDirection)
    BY <2>5, DisconnectGatewayKeeps
  <2>6. CASE ConnectBrokers(c) \/ ConnectGateway(c)
    BY <2>6, ConnectKeeps
  <2>7. CASE AddContainer(c)
    BY <2>7, AddContainerKeeps
  <2>8. CASE RequestFails(c)
    BY <2>8, RequestFailsKeeps
  <2> QED
    BY <2>1, <2>2, <2>3, <2>4, <2>5, <2>6, <2>7, <2>8 DEF Client
<1>2. CASE \E p \in Pods : Pod(p)
  <2>1. PICK p \in Pods : Pod(p)
    BY <1>2
  <2>2. CASE \E cmd \in Waits(p) : RunContainer(p, cmd) \/ ContainerFails(p, cmd)
    BY <2>2, ContainerEndsKeeps
  <2>3. CASE PodStops(p)
    BY <2>3, PodStopsKeeps
  <2>4. CASE PodStarts(p)
    BY <2>4, PodStartsKeeps
  <2> QED
    BY <2>1, <2>2, <2>3, <2>4 DEF Pod, Waits
<1>3. CASE UNCHANGED vars
  <2>1. \A c \in Clients : CommandInv(client[c], incarnation)'
    BY <1>3 DEF NetworkInv, CommandInv, RequestInv, vars
  <2> QED
    BY <1>3, <2>1 DEF NetworkInv, TypeOK, PodInv, Waits, CutInv, vars
<1> QED
  BY <1>1, <1>2, <1>3 DEF Next

\* Every state of the network has its types, whatever number of processes
\* asks for containers (connection.go, network.go).
THEOREM NetworkTypes == Spec => []TypeOK
<1>1. NetworkInv => TypeOK
  BY DEF NetworkInv
<1> QED
  BY <1>1, InitNetwork, NextNetwork, PTL DEF Spec

\* No broker and no gateway gets an unreachable route to itself, wherever
\* restarts fall between the two lookups of a disconnect (connection.go:123
\* compares the names of the pods, not their IPs).
THEOREM NobodyCutFromItself == Spec => []NeverCutFromItself
<1>1. NetworkInv => NeverCutFromItself
  BY DEF NetworkInv, PodInv, NeverCutFromItself
<1> QED
  BY <1>1, InitNetwork, NextNetwork, PTL DEF Spec

-----------------------------------------------------------------------------
(* Commands that wait for each other: every step keeps CalmInv.            *)

CalmSafe == OneCommand /\ InForce /\ Accounted

LEMMA IdleFields == Idle.op = "none" /\ Idle.todo = <<>>
BY DEF Idle

LEMMA CommandsHaveOps ==
  ASSUME NetworkInv, NEW c \in Clients
  PROVE  /\ client[c].op \in Ops
         /\ client[c].op = "none" <=> client[c] = Idle
         /\ client[c].todo \in Seq(Requests)
BY Incarnations, IdleFields DEF NetworkInv, ClientStates, CommandInv

LEMMA OthersAreIdle ==
  ASSUME NetworkInv, OneCommand, NEW c \in Clients, client[c] # Idle
  PROVE  /\ \A d \in Clients : d # c => client[d] = Idle
         /\ last.op = "none" /\ client[c].op \in Ops \ {"none"}
         /\ \A p \in Pods : \A cmd \in Waits(p) : cmd.op = Verb(client[c].op)
<1>1. client[c].op \in Ops \ {"none"}
  BY CommandsHaveOps
<1>2. PICK op \in Ops \ {"none"} :
        /\ \A d \in Clients : client[d].op \in {"none", op}
        /\ \A p \in Pods : \A cmd \in Waits(p) : cmd.op = Verb(op)
  BY DEF OneCommand
<1>3. client[c].op = op
  BY <1>1, <1>2
<1> QED
  BY <1>1, <1>2, <1>3 DEF OneCommand

\* A command starts when everything has settled.
LEMMA StartsCalmly ==
  ASSUME NetworkInv, CalmSafe, Quiet, NEW c \in Clients, NEW x \in ClientStates,
         Become(c, x), x.op # "none", UNCHANGED <<Cluster, containers, owed>>,
         last'.op = "none", cut' \subseteq cut,
         x.op = "connectBrokers" => \A y \in cut' : y[1][1] \notin Brokers,
         x.op = "connectGateway" => \A y \in cut' : y[1][1] \notin Gateways
  PROVE  /\ CalmSafe'
         /\ x.op # "connectGateway" => Reaching'
<1>1. UNCHANGED <<up, incarnation, routes, containers, owed>>
  BY DEF Cluster
<1>2. /\ client'[c] = x /\ x.op \in Ops
      /\ \A d \in Clients : d # c => client'[d] = Idle
  BY Incarnations DEF Become, Quiet, ClientStates
<1>3. \A p \in Pods : containers'[p] = EmptyBag /\ Waits(p)' = {} /\ Waits(p) = {}
  BY <1>1, EmptyBags DEF Quiet, Waits
<1>4. OneCommand'
  BY <1>2, <1>3, IdleFields DEF OneCommand
<1>5. InForce'
  <2> SUFFICES ASSUME NEW y \in cut'
               PROVE  /\ (IpOf(y[1][1]) = y[1] /\ up[y[1][1]] =>
                            y[2] \in routes[y[1][1]] \/ Replace(y[2]) \in Waits(y[1][1]))'
                      /\ y[1][1] \in Brokers => \A d \in Clients : client'[d].op # "connectBrokers"
                      /\ y[1][1] \in Gateways => \A d \in Clients : client'[d].op # "connectGateway"
                      /\ \A cmd \in Waits(y[1][1])' : cmd.op = "replace"
    BY DEF InForce
  <2>1. y \in cut
    OBVIOUS
  <2>2. (IpOf(y[1][1]) = y[1] /\ up[y[1][1]] =>
            y[2] \in routes[y[1][1]] \/ Replace(y[2]) \in Waits(y[1][1]))'
    BY <1>1, <2>1 DEF CalmSafe, InForce, IpOf, Waits
  <2>3. \A cmd \in Waits(y[1][1])' : cmd.op = "replace"
    BY <1>1, <2>1 DEF CalmSafe, InForce, Waits
  <2> QED
    BY <1>2, <2>2, <2>3, IdleFields
<1>6. Accounted'
  <2>1. \A p \in Brokers : p \in Pods
    BY DEF Pods
  <2> QED
    BY <1>1, <1>3, <2>1 DEF CalmSafe, Accounted
<1>7. x.op # "connectGateway" => Reaching'
  <2>1. x.op # "connectGateway" => \A d \in Clients : client'[d].op # "connectGateway"
    BY <1>2, IdleFields
  <2> QED
    BY <2>1 DEF Reaching
<1> QED
  BY <1>4, <1>5, <1>6, <1>7 DEF CalmSafe

LEMMA DisconnectStartsCalmly ==
  ASSUME Calm, NetworkInv, CalmInv, NEW c \in Clients,
         \/ \E p \in Brokers : LookUpFirst(c, p)
         \/ \E S \in SUBSET Brokers, oneDirection \in BOOLEAN : DisconnectGateway(c, S, oneDirection)
  PROVE  CalmInv'
<1>1. /\ StartDisconnect(c) /\ UNCHANGED <<Cluster, containers, owed>> /\ cut' \subseteq cut
      /\ \E x \in ClientStates : Become(c, x) /\ x.op = "disconnect"
  <2>1. CASE \E p \in Brokers : LookUpFirst(c, p)
    <3>1. PICK p \in Brokers : LookUpFirst(c, p)
      BY <2>1
    <3>2. [op |-> "disconnect", first |-> IpOf(p), todo |-> <<>>] \in ClientStates
      BY FirstLookedUp DEF Pods
    <3> QED
      BY <3>1, <3>2 DEF LookUpFirst
  <2>2. CASE \E S \in SUBSET Brokers, oneDirection \in BOOLEAN :
               DisconnectGateway(c, S, oneDirection)
    BY <2>2, DisconnectGatewayMoves DEF DisconnectGateway
  <2> QED
    BY <2>1, <2>2
<1>2. Quiet /\ last'.op = "none"
  BY <1>1 DEF StartDisconnect, Start, Calm
<1>3. CalmSafe
  BY DEF CalmSafe, CalmInv
<1> QED
  BY <1>1, <1>2, <1>3, StartsCalmly DEF CalmSafe, CalmInv

LEMMA ConnectBrokersStartsCalmly ==
  ASSUME Calm, NetworkInv, CalmInv, NEW c \in Clients, ConnectBrokers(c)
  PROVE  CalmInv'
<1>1. PICK todo \in Seq(Requests) : StartConnect(c, "connectBrokers", Brokers, todo)
  BY ConnectBrokersMoves
<1>2. PICK x : x = [op |-> "connectBrokers", first |-> NoPod, todo |-> todo]
  OBVIOUS
<1>3. x \in ClientStates /\ x.op = "connectBrokers"
  BY <1>2 DEF ClientStates, Ops
<1>4. /\ Become(c, x) /\ UNCHANGED <<Cluster, containers, owed>> /\ cut' \subseteq cut
      /\ \A y \in cut' : y[1][1] \notin Brokers
      /\ last'.op = "none" /\ Quiet
  BY <1>1, <1>2 DEF StartConnect, Start, Calm
<1>5. CalmSafe
  BY DEF CalmSafe, CalmInv
<1> QED
  BY <1>3, <1>4, <1>5, StartsCalmly DEF CalmSafe, CalmInv

LEMMA ConnectGatewayStartsCalmly ==
  ASSUME Calm, NetworkInv, CalmInv, NEW c \in Clients, ConnectGateway(c)
  PROVE  CalmInv'
<1>1. PICK todo \in Seq(Requests) :
        /\ StartConnect(c, "connectGateway", Gateways, todo)
        /\ \A i \in DOMAIN todo : todo[i].target = IpOf(FirstGateway)
        /\ \A b \in Running(Brokers) : \E i \in DOMAIN todo : todo[i].cmd = Delete(IpOf(b))
  BY ConnectGatewayMoves
<1>2. PICK x : x = [op |-> "connectGateway", first |-> NoPod, todo |-> todo]
  OBVIOUS
<1>3. x \in ClientStates /\ x.op = "connectGateway" /\ x.todo = todo
  BY <1>2 DEF ClientStates, Ops
<1>4. /\ Become(c, x) /\ UNCHANGED <<Cluster, containers, owed>> /\ cut' \subseteq cut
      /\ \A y \in cut' : y[1][1] \notin Gateways
      /\ last' = [op |-> "none", peers |-> {IpOf(p) : p \in Running(Pods)}] /\ Quiet
  BY <1>1, <1>2 DEF StartConnect, Start, Calm
<1>5. CalmSafe
  BY DEF CalmSafe, CalmInv
<1>6. CalmSafe'
  BY <1>3, <1>4, <1>5, StartsCalmly
<1>7. ASSUME OneGateway PROVE Reaching'
  <2>1. /\ client'[c] = x
        /\ \A d \in Clients : d # c => client'[d].op = "none"
    BY <1>4, Incarnations, IdleFields DEF Become, Quiet
  <2>2. \A g \in Gateways : g = FirstGateway
    BY <1>7, Gateway DEF OneGateway, ConnectGateway
  <2>3. \A ip \in last'.peers \cap (Brokers \X Nat) :
          \E b \in Running(Brokers) : ip = IpOf(b)
    <3> SUFFICES ASSUME NEW ip \in last'.peers, ip \in Brokers \X Nat
                 PROVE  \E b \in Running(Brokers) : ip = IpOf(b)
      OBVIOUS
    <3>1. PICK p \in Running(Pods) : ip = IpOf(p)
      BY <1>4
    <3>2. p \in Brokers
      BY <3>1 DEF IpOf
    <3> QED
      BY <3>1, <3>2 DEF Running
  <2>4. ASSUME NEW g \in Gateways
        PROVE  /\ \A i \in DOMAIN todo : todo[i].target = IpOf(g)'
               /\ \A ip \in last'.peers \cap (Brokers \X Nat) :
                    \E i \in DOMAIN todo : todo[i].cmd = Delete(ip)
    <3>1. IpOf(g)' = IpOf(g) /\ g = FirstGateway
      BY <1>4, <2>2 DEF IpOf, Cluster
    <3> QED
      BY <1>1, <2>3, <3>1
  <2>5. last'.op = "none"
    BY <1>4
  <2> QED
    BY <1>3, <2>1, <2>4, <2>5 DEF Reaching
<1> QED
  BY <1>6, <1>7 DEF CalmSafe, CalmInv, OneGateway

\* The second pod is looked up: there are no containers yet.
LEMMA LookUpSecondCalmly ==
  ASSUME Calm, NetworkInv, CalmInv, NEW c \in Clients, NEW p \in Brokers,
         NEW one \in BOOLEAN, LookUpSecond(c, p, one)
  PROVE  CalmInv'
<1>1. PICK x \in ClientStates :
        Become(c, x) /\ (x # Idle => x.op = "disconnect" /\ x.todo # <<>>)
  BY LookUpSecondMoves
<1>2. client[c].op = "disconnect" /\ client[c].todo = <<>> /\ client[c] # Idle
  BY DEF LookUpSecond, Idle
<1>3. UNCHANGED <<up, incarnation, routes, containers, owed, cut, last>>
  BY DEF LookUpSecond, Cluster
<1>4. /\ \A d \in Clients : d # c => client[d] = Idle
      /\ last.op = "none"
  BY <1>2, OthersAreIdle DEF CalmInv
<1>5. \A q \in Pods : containers[q] = EmptyBag /\ Waits(q)' = {} /\ Waits(q) = {}
  BY <1>2, <1>3, EmptyBags DEF CalmInv, OneCommand, Waits
<1>6. /\ client'[c] = x /\ x.op \in {"none", "disconnect"}
      /\ x.op = "disconnect" => x.todo # <<>>
      /\ \A d \in Clients : d # c => client'[d] = Idle
  BY <1>1, <1>4, Incarnations, IdleFields DEF Become
<1>7. \A d \in Clients : client'[d].op \in {"none", "disconnect"}
  BY <1>6, IdleFields
<1>8. OneCommand'
  <2>1. "disconnect" \in Ops \ {"none"}
    BY DEF Ops
  <2> QED
    BY <1>3, <1>4, <1>5, <1>6, <1>7, <2>1, IdleFields DEF OneCommand
<1>9. InForce'
  BY <1>3, <1>7 DEF CalmInv, InForce, IpOf, Waits
<1>10. Accounted'
  <2>1. \A q \in Brokers : containers'[q] = EmptyBag
    BY <1>3, <1>5 DEF Pods
  <2> QED
    BY <1>3, <2>1 DEF CalmInv, Accounted
<1>11. Reaching'
  BY <1>3, <1>4, <1>7 DEF Reaching
<1> QED
  BY <1>8, <1>9, <1>10, <1>11 DEF CalmInv

\* A command goes on to its next request, or has come to its end; the
\* containers there are now are its own.
LEMMA ProceedsCalmly ==
  ASSUME NetworkInv, OneCommand, NEW c \in Clients, client[c].todo # <<>>,
         NEW x \in ClientStates, Become(c, x),
         \/ x = Idle /\ last' = [last EXCEPT !.op = client[c].op]
         \/ last' = last /\ x.op = client[c].op /\ x.todo # <<>>,
         \A p \in Pods : \A cmd \in Waits(p)' : cmd \in Waits(p) \/ cmd.op = Verb(client[c].op)
  PROVE  /\ OneCommand'
         /\ \A d \in Clients : d # c => client'[d] = Idle
         /\ client'[c] = x
         /\ \A d \in Clients : client'[d].op \in {"none", client[c].op}
         /\ last'.peers = last.peers /\ last'.op \in {"none", client[c].op}
<1>1. client[c] # Idle
  BY FirstRequest
<1>2. /\ \A d \in Clients : d # c => client[d] = Idle
      /\ last.op = "none" /\ client[c].op \in Ops \ {"none"}
      /\ \A p \in Pods : \A cmd \in Waits(p) : cmd.op = Verb(client[c].op)
  BY <1>1, OthersAreIdle
<1>3. client'[c] = x /\ \A d \in Clients : d # c => client'[d] = Idle
  BY <1>2, Incarnations DEF Become
<1>4. \A d \in Clients : client'[d].op \in {"none", client[c].op}
  BY <1>3, IdleFields
<1>5. last \in [op : Ops, peers : SUBSET Ips]
  BY DEF NetworkInv, TypeOK
<1>6. /\ last'.peers = last.peers /\ last'.op \in {"none", client[c].op}
      /\ x # Idle => last'.op = "none"
  BY <1>2, <1>5
<1>7. \A p \in Pods : \A cmd \in Waits(p)' : cmd.op = Verb(client[c].op)
  BY <1>2
<1>8. PICK op \in Ops \ {"none"} : op = client[c].op
  BY <1>2
<1>9. \A d \in Clients : client'[d].op = "disconnect" /\ client'[d].todo = <<>> =>
        \A p \in Pods : containers'[p] = EmptyBag
  BY <1>3, IdleFields
<1>10. OneCommand'
  BY <1>3, <1>4, <1>6, <1>7, <1>8, <1>9 DEF OneCommand
<1> QED
  BY <1>3, <1>4, <1>6, <1>10

\* A calm request only fails because its gateway is not there any more, and
\* then there is nothing to be undone.
LEMMA RequestFailsCalmly ==
  ASSUME Calm, NetworkInv, CalmInv, NEW c \in Clients, RequestFails(c)
  PROVE  CalmInv'
<1>1. /\ client[c].todo # <<>> /\ Proceed(c, FALSE) /\ ~Found(Head(client[c].todo).target)
      /\ UNCHANGED <<up, incarnation, routes, containers, owed, cut>>
  BY DEF RequestFails, Calm, Cluster
<1>2. PICK x \in ClientStates :
        /\ Become(c, x)
        /\ \/ x = Idle /\ last' = [last EXCEPT !.op = client[c].op]
           \/ /\ x # Idle /\ last' = last
              /\ x.op = client[c].op /\ x.todo # <<>>
              /\ \A i \in DOMAIN x.todo :
                   i + 1 \in DOMAIN client[c].todo /\ x.todo[i] = client[c].todo[i + 1]
  BY <1>1, Proceeds
<1>3. \A p \in Pods : Waits(p)' = Waits(p)
  BY <1>1 DEF Waits
<1>4. /\ OneCommand' /\ client'[c] = x
      /\ \A d \in Clients : d # c => client'[d] = Idle
      /\ \A d \in Clients : client'[d].op \in {"none", client[c].op}
      /\ last'.peers = last.peers /\ last'.op \in {"none", client[c].op}
  BY <1>1, <1>2, <1>3, ProceedsCalmly DEF CalmInv
<1>5. InForce'
  BY <1>1, <1>4 DEF CalmInv, InForce, IpOf, Waits
<1>6. \A d \in Clients : \A i \in DOMAIN client'[d].todo :
        /\ d = c /\ i + 1 \in DOMAIN client[c].todo
        /\ client'[d].todo[i] = client[c].todo[i + 1]
  BY <1>2, <1>4, IdleFields
<1>7. Accounted'
  <2> SUFFICES ASSUME NEW p \in Brokers
               PROVE  /\ containers[p] = EmptyBag => Cardinality(routes[p]) <= owed[p]
                      /\ containers[p] # EmptyBag =>
                           /\ \A d \in Clients : \A i \in DOMAIN client'[d].todo :
                                client'[d].todo[i].target[1] # p
                           /\ \E cmd \in Waits(p) :
                                /\ containers[p] = [e \in {cmd} |-> 1]
                                /\ cmd.op = "replace" => Cardinality(routes[p]) + 1 <= owed[p]
                                /\ cmd.op = "deleteFirst" => Cardinality(routes[p]) <= owed[p] + 1
    BY <1>1 DEF Accounted, Waits
  <2>1. containers[p] # EmptyBag =>
          \A i \in DOMAIN client[c].todo : client[c].todo[i].target[1] # p
    BY DEF CalmInv, Accounted
  <2>2. containers[p] # EmptyBag =>
          \A d \in Clients : \A i \in DOMAIN client'[d].todo : client'[d].todo[i].target[1] # p
    BY <1>6, <2>1
  <2> QED
    BY <2>2 DEF CalmInv, Accounted
<1>8. ASSUME OneGateway PROVE Reaching'
  <2>1. CASE client[c].op # "connectGateway"
    BY <1>4, <2>1 DEF Reaching
  <2>2. CASE client[c].op = "connectGateway"
    <3>1. ASSUME NEW g \in Gateways, routes[g] # {} PROVE FALSE
      <4>1. Head(client[c].todo).target = IpOf(g)
        BY <1>1, <1>8, <2>2, <3>1, FirstRequest DEF CalmInv, Reaching
      <4>2. g \in Pods /\ IpOf(g) = <<g, incarnation[g]>>
        BY DEF Pods, IpOf
      <4>3. up[g]
        BY <3>1, <4>2 DEF NetworkInv, PodInv
      <4> QED
        BY <1>1, <4>1, <4>2, <4>3 DEF Found
    <3> QED
      BY <1>1, <3>1 DEF Reaching
  <2> QED
    BY <2>1, <2>2
<1> QED
  BY <1>4, <1>5, <1>7, <1>8 DEF CalmInv, OneGateway

LEMMA LongerTails ==
  ASSUME NEW S, NEW s \in Seq(S), Len(s) > 1
  PROVE  Tail(s) # <<>>
<1>1. 1 \in 1..(Len(s) - 1)
  OBVIOUS
<1>2. DOMAIN Tail(s) = 1..(Len(s) - 1)
  OBVIOUS
<1>3. 1 \in DOMAIN Tail(s)
  BY <1>1, <1>2
<1>4. 1 \notin DOMAIN <<>>
  OBVIOUS
<1> QED
  BY <1>3, <1>4, Zenon

LEMMA RouteCounts ==
  ASSUME NetworkInv, NEW p \in Pods
  PROVE  IsFiniteSet(routes[p]) /\ Cardinality(routes[p]) \in Nat /\ owed[p] \in Nat
<1>1. routes[p] \subseteq Ips /\ owed[p] \in Nat
  BY DEF NetworkInv, TypeOK
<1> QED
  BY <1>1, FiniteIps, FS_Subset, FS_CardinalityType

LEMMA Verbs ==
  /\ Verb("disconnect") = "replace" /\ Verb("connectBrokers") = "deleteFirst"
  /\ Verb("connectGateway") = "delete"
BY DEF Verb

\* A container is added; the request for it is gone and its end is due.
LEMMA AddContainerCalmly ==
  ASSUME Calm, NetworkInv, CalmInv, NEW c \in Clients, AddContainer(c)
  PROVE  CalmInv'
<1>1. PICK request \in Requests, p \in Pods : Added(c, request, p)
  BY AddedContainer
<1>2. /\ request = Head(client[c].todo) /\ p = request.target[1]
      /\ client[c].todo # <<>> /\ Proceed(c, TRUE)
      /\ request.cmd \in Commands
      /\ UNCHANGED <<up, incarnation, routes>>
      /\ Waits(p)' = Waits(p) \cup {request.cmd}
      /\ containers[p] = EmptyBag => containers'[p] = [e \in {request.cmd} |-> 1]
      /\ request.cmd.op = "replace" => owed'[p] = owed[p] + 1
      /\ request.cmd.op = "deleteFirst" => owed[p] <= owed'[p] + 1
      /\ owed' \in [Pods -> Nat]
      /\ \A q \in Pods : q # p =>
           containers'[q] = containers[q] /\ Waits(q)' = Waits(q) /\ owed'[q] = owed[q]
  BY <1>1 DEF Added
<1>3. /\ 1 \in DOMAIN client[c].todo /\ request = client[c].todo[1]
      /\ request.target \in Ips /\ client[c] # Idle
      /\ RequestInv(client[c], request, incarnation)
      /\ client[c].op \in {"disconnect", "connectBrokers", "connectGateway"}
  BY <1>2, FirstRequest
<1>4. PICK x \in ClientStates :
        /\ Become(c, x)
        /\ \/ /\ x = Idle /\ last' = [last EXCEPT !.op = client[c].op]
              /\ client[c].op = "disconnect" \/ Tail(client[c].todo) = <<>>
           \/ /\ x # Idle /\ last' = last
              /\ x.op = client[c].op /\ x.todo # <<>>
              /\ DOMAIN x.todo = 1..(Len(client[c].todo) - 1)
              /\ \A i \in DOMAIN x.todo :
                   i + 1 \in DOMAIN client[c].todo /\ x.todo[i] = client[c].todo[i + 1]
  BY <1>2, Proceeds
<1>5. request.cmd.op = Verb(client[c].op)
  BY <1>3 DEF RequestInv
<1>6. \A q \in Pods : \A cmd \in Waits(q)' : cmd \in Waits(q) \/ (q = p /\ cmd = request.cmd)
  BY <1>2
<1>7. /\ OneCommand' /\ client'[c] = x
      /\ \A d \in Clients : d # c => client'[d] = Idle
      /\ \A d \in Clients : client'[d].op \in {"none", client[c].op}
      /\ last'.peers = last.peers /\ last'.op \in {"none", client[c].op}
  BY <1>2, <1>4, <1>5, <1>6, ProceedsCalmly DEF CalmInv
<1>8. /\ last.op = "none"
      /\ \A q \in Pods : \A cmd \in Waits(q)' : cmd.op = Verb(client[c].op)
  BY <1>3, <1>5, <1>6, OthersAreIdle DEF CalmInv
<1>9. \A d \in Clients : \A i \in DOMAIN client'[d].todo :
        /\ d = c /\ i \in Nat /\ i > 0 /\ i + 1 \in DOMAIN client[c].todo
        /\ client'[d].todo[i] = client[c].todo[i + 1]
  <2>1. Len(client[c].todo) \in Nat
    BY CommandsHaveOps
  <2> QED
    BY <1>4, <1>7, <2>1, IdleFields
<1>10. cut' = IF request.cmd.op = "replace"
              THEN cut \cup {<<request.target, request.cmd.ip>>} ELSE cut
  BY <1>2 DEF AddContainer
<1>11. InForce'
  <2> SUFFICES ASSUME NEW y \in cut'
               PROVE  /\ (IpOf(y[1][1]) = y[1] /\ up[y[1][1]] =>
                            y[2] \in routes[y[1][1]] \/ Replace(y[2]) \in Waits(y[1][1]))'
                      /\ y[1][1] \in Brokers => \A d \in Clients : client'[d].op # "connectBrokers"
                      /\ y[1][1] \in Gateways => \A d \in Clients : client'[d].op # "connectGateway"
                      /\ \A cmd \in Waits(y[1][1])' : cmd.op = "replace"
    BY DEF InForce
  <2>1. CASE y \in cut
    <3>1. /\ IpOf(y[1][1]) = y[1] /\ up[y[1][1]] =>
               y[2] \in routes[y[1][1]] \/ Replace(y[2]) \in Waits(y[1][1])
          /\ y[1][1] \in Brokers => client[c].op # "connectBrokers"
          /\ y[1][1] \in Gateways => client[c].op # "connectGateway"
          /\ \A cmd \in Waits(y[1][1]) : cmd.op = "replace"
      BY <2>1 DEF CalmInv, InForce
    <3>2. y[1][1] \in Pods
      BY <2>1, FiniteIps DEF NetworkInv, TypeOK
    <3>3. Waits(y[1][1]) \subseteq Waits(y[1][1])'
      BY <1>2, <3>2
    <3>4. IpOf(y[1][1])' = IpOf(y[1][1])
      BY <1>2 DEF IpOf
    <3>5. y[1][1] = p => request.cmd.op = "replace"
      BY <1>2, <1>3, <1>5, <3>1, Verbs DEF RequestInv
    <3> QED
      BY <1>2, <1>6, <1>7, <3>1, <3>2, <3>3, <3>4, <3>5
  <2>2. CASE request.cmd.op = "replace" /\ y = <<request.target, request.cmd.ip>>
    <3>1. client[c].op = "disconnect"
      BY <1>3, <1>5, <2>2, Verbs
    <3>2. y[1][1] = p /\ y[2] = request.cmd.ip /\ Replace(request.cmd.ip) = request.cmd
      BY <1>2, <2>2, CommandLines
    <3> QED
      BY <1>2, <1>7, <1>8, <3>1, <3>2, Verbs
  <2> QED
    BY <1>10, <2>1, <2>2
<1>12. Accounted'
  <2> SUFFICES ASSUME NEW q \in Brokers
               PROVE  /\ containers'[q] = EmptyBag => Cardinality(routes[q]) <= owed'[q]
                      /\ containers'[q] # EmptyBag =>
                           /\ \A d \in Clients : \A i \in DOMAIN client'[d].todo :
                                client'[d].todo[i].target[1] # q
                           /\ \E cmd \in Waits(q)' :
                                /\ containers'[q] = [e \in {cmd} |-> 1]
                                /\ cmd.op = "replace" => Cardinality(routes[q]) + 1 <= owed'[q]
                                /\ cmd.op = "deleteFirst" => Cardinality(routes[q]) <= owed'[q] + 1
    BY <1>2 DEF Accounted, Waits
  <2>1. q \in Pods
    BY DEF Pods
  <2>2. CASE q # p
    <3>1. containers[q] # EmptyBag =>
            \A i \in DOMAIN client[c].todo : client[c].todo[i].target[1] # q
      BY DEF CalmInv, Accounted
    <3>2. containers[q] # EmptyBag =>
            \A d \in Clients : \A i \in DOMAIN client'[d].todo : client'[d].todo[i].target[1] # q
      BY <1>9, <3>1
    <3>3. containers'[q] = containers[q] /\ Waits(q)' = Waits(q) /\ owed'[q] = owed[q]
      BY <1>2, <2>1, <2>2
    <3> QED
      BY <3>2, <3>3 DEF CalmInv, Accounted
  <2>3. CASE q = p
    <3>1. containers[q] = EmptyBag
      BY <1>2, <1>3, <2>3 DEF CalmInv, Accounted
    <3>2. containers'[q] = [e \in {request.cmd} |-> 1] /\ request.cmd \in Waits(q)'
      BY <1>2, <2>3, <3>1
    <3>3. containers'[q] # EmptyBag
      BY <3>2, EmptyBags, SingleBags
    <3>4. /\ Cardinality(routes[q]) \in Nat /\ owed[q] \in Nat /\ owed'[q] \in Nat
          /\ Cardinality(routes[q]) <= owed[q]
      BY <1>2, <2>1, <3>1, RouteCounts DEF CalmInv, Accounted
    <3>5. /\ request.cmd.op = "replace" => Cardinality(routes[q]) + 1 <= owed'[q]
          /\ request.cmd.op = "deleteFirst" => Cardinality(routes[q]) <= owed'[q] + 1
      <4>1. /\ request.cmd.op = "replace" => owed'[q] = owed[q] + 1
            /\ request.cmd.op = "deleteFirst" => owed[q] <= owed'[q] + 1
        BY <1>2, <2>3
      <4> QED
        BY <3>4, <4>1
    <3>6. \A d \in Clients : \A i \in DOMAIN client'[d].todo : client'[d].todo[i].target[1] # q
      <4> SUFFICES ASSUME NEW d \in Clients, NEW i \in DOMAIN client'[d].todo,
                          client'[d].todo[i].target[1] = q
                   PROVE  FALSE
        OBVIOUS
      <4>1. /\ i \in Nat /\ i > 0 /\ i + 1 \in DOMAIN client[c].todo
            /\ client[c].todo[i + 1].target[1] = q
        BY <1>9
      <4>2. client[c].todo[1].target[1] = q
        BY <1>2, <1>3, <2>3
      <4>3. CommandInv(client[c], incarnation)
        BY DEF NetworkInv
      <4>4. i + 1 = 1
        BY <1>3, <4>1, <4>2, <4>3 DEF CommandInv
      <4> QED
        BY <4>1, <4>4
    <3> QED
      BY <3>2, <3>3, <3>5, <3>6
  <2> QED
    BY <2>2, <2>3
<1>13. ASSUME OneGateway PROVE Reaching'
  <2>1. CASE client[c].op # "connectGateway"
    BY <1>7, <2>1 DEF Reaching
  <2>2. CASE client[c].op = "connectGateway"
    <3> SUFFICES ASSUME NEW g \in Gateways
                 PROVE  /\ last'.op = "connectGateway" =>
                             \A ip \in last'.peers \cap (Brokers \X Nat) :
                               ip \in routes[g] => Delete(ip) \in Waits(g)'
                        /\ \A d \in Clients : client'[d].op = "connectGateway" =>
                             /\ routes[g] # {} =>
                                  \A i \in DOMAIN client'[d].todo : client'[d].todo[i].target = IpOf(g)'
                             /\ \A ip \in last'.peers \cap (Brokers \X Nat) :
                                  ip \in routes[g] =>
                                    \/ Delete(ip) \in Waits(g)'
                                    \/ \E i \in DOMAIN client'[d].todo : client'[d].todo[i].cmd = Delete(ip)
      BY <1>2 DEF Reaching
    <3>1. /\ routes[g] # {} => \A i \in DOMAIN client[c].todo : client[c].todo[i].target = IpOf(g)
          /\ \A ip \in last.peers \cap (Brokers \X Nat) :
               ip \in routes[g] =>
                 \/ Delete(ip) \in Waits(g)
                 \/ \E i \in DOMAIN client[c].todo : client[c].todo[i].cmd = Delete(ip)
      BY <1>13, <2>2 DEF CalmInv, Reaching
    <3>2. IpOf(g)' = IpOf(g) /\ g \in Pods /\ IpOf(g)[1] = g
      BY <1>2 DEF IpOf, Pods
    <3>3. Waits(g) \subseteq Waits(g)' /\ (routes[g] # {} => request.cmd \in Waits(g)')
      BY <1>2, <1>3, <3>1, <3>2
    <3>4. ASSUME NEW ip \in last.peers \cap (Brokers \X Nat), ip \in routes[g],
                 Delete(ip) \notin Waits(g)'
          PROVE  x # Idle /\ \E i \in DOMAIN x.todo : x.todo[i].cmd = Delete(ip)
      <4>1. PICK j \in DOMAIN client[c].todo : client[c].todo[j].cmd = Delete(ip)
        BY <3>1, <3>3, <3>4
      <4>2. j # 1
        BY <1>3, <3>3, <3>4, <4>1
      <4>3. client[c].todo \in Seq(Requests)
        BY CommandsHaveOps
      <4>4. j \in 2..Len(client[c].todo)
        BY <4>2, <4>3
      <4>5. Tail(client[c].todo) # <<>>
        <5>1. Len(client[c].todo) > 1
          BY <4>3, <4>4
        <5> QED
          BY <4>3, <5>1, LongerTails
      <4>6. x # Idle
        BY <1>4, <2>2, <4>5
      <4>7. j - 1 \in DOMAIN x.todo /\ x.todo[j - 1] = client[c].todo[j]
        BY <1>4, <4>3, <4>4, <4>6
      <4> QED
        BY <4>1, <4>6, <4>7
    <3>5. x # Idle => last'.op = "none"
      BY <1>4, <1>8
    <3>6. routes[g] # {} => \A d \in Clients :
             \A i \in DOMAIN client'[d].todo : client'[d].todo[i].target = IpOf(g)'
      BY <1>9, <3>1, <3>2
    <3> QED
      BY <1>7, <3>4, <3>5, <3>6, IdleFields
  <2> QED
    BY <2>1, <2>2
<1> QED
  BY <1>7, <1>11, <1>12, <1>13 DEF CalmInv, OneGateway

\* A container runs: the route it was added for is set, or gone.
LEMMA RunContainerCalmly ==
  ASSUME NetworkInv, CalmInv, NEW p \in Pods, NEW cmd \in Waits(p), RunContainer(p, cmd)
  PROVE  CalmInv'
<1>1. /\ RemoveContainer(p, cmd)
      /\ UNCHANGED <<up, incarnation, client, owed, cut, last>>
  BY DEF RunContainer, RemoveContainer
<1>2. /\ cmd \in Commands
      /\ \A q \in Pods : Waits(q)' \subseteq Waits(q)
      /\ \A q \in Pods : q # p => containers'[q] = containers[q] /\ Waits(q)' = Waits(q)
      /\ Waits(p) \ {cmd} \subseteq Waits(p)'
      /\ containers[p] = [e \in {cmd} |-> 1] => containers'[p] = EmptyBag
  BY <1>1, RemovedContainer DEF Waits
<1>3. PICK S \in After(p, cmd) : routes' = [routes EXCEPT ![p] = S]
  BY DEF RunContainer
<1>4. /\ routes'[p] = S
      /\ \A q \in Pods : q # p => routes'[q] = routes[q]
  BY <1>3 DEF NetworkInv, TypeOK
<1>5. /\ cmd.op = "replace" => S = routes[p] \cup {cmd.ip}
      /\ cmd.op = "delete" => S = routes[p] \ {cmd.ip}
      /\ cmd.op = "deleteFirst" => S = {} \/ \E ip \in routes[p] : S = routes[p] \ {ip}
  BY <1>3 DEF After
<1>6. containers[p] # EmptyBag
  BY EmptyBags DEF Waits
<1>7. OneCommand'
  <2>1. \A c \in Clients : ~(client[c].op = "disconnect" /\ client[c].todo = <<>>)
    BY <1>6 DEF CalmInv, OneCommand
  <2> QED
    BY <1>1, <1>2, <2>1 DEF CalmInv, OneCommand
<1>8. InForce'
  <2> SUFFICES ASSUME NEW y \in cut
               PROVE  /\ (IpOf(y[1][1]) = y[1] /\ up[y[1][1]] =>
                            y[2] \in routes[y[1][1]] \/ Replace(y[2]) \in Waits(y[1][1]))'
                      /\ y[1][1] \in Brokers => \A d \in Clients : client'[d].op # "connectBrokers"
                      /\ y[1][1] \in Gateways => \A d \in Clients : client'[d].op # "connectGateway"
                      /\ \A e \in Waits(y[1][1])' : e.op = "replace"
    BY <1>1 DEF InForce
  <2>1. /\ IpOf(y[1][1]) = y[1] /\ up[y[1][1]] =>
             y[2] \in routes[y[1][1]] \/ Replace(y[2]) \in Waits(y[1][1])
        /\ y[1][1] \in Brokers => \A d \in Clients : client[d].op # "connectBrokers"
        /\ y[1][1] \in Gateways => \A d \in Clients : client[d].op # "connectGateway"
        /\ \A e \in Waits(y[1][1]) : e.op = "replace"
    BY DEF CalmInv, InForce
  <2>2. y[1][1] \in Pods
    BY FiniteIps DEF NetworkInv, TypeOK
  <2>3. IpOf(y[1][1])' = IpOf(y[1][1]) /\ up'[y[1][1]] = up[y[1][1]]
    BY <1>1 DEF IpOf
  <2>4. y[2] \in Ips
    BY DEF NetworkInv, TypeOK
  <2>5. y[2] \in routes[y[1][1]] \/ Replace(y[2]) \in Waits(y[1][1]) =>
          y[2] \in routes'[y[1][1]] \/ Replace(y[2]) \in Waits(y[1][1])'
    <3>1. CASE y[1][1] # p
      BY <1>2, <1>4, <2>2, <3>1
    <3>2. CASE y[1][1] = p
      <4>1. S = routes[p] \cup {cmd.ip}
        BY <1>5, <2>1, <3>2
      <4>2. cmd = Replace(y[2]) => cmd.ip = y[2]
        BY <2>4, CommandLines
      <4> QED
        BY <1>2, <1>4, <3>2, <4>1, <4>2
    <3> QED
      BY <3>1, <3>2
  <2> QED
    BY <1>1, <1>2, <2>1, <2>2, <2>3, <2>5
<1>9. Accounted'
  <2> SUFFICES ASSUME NEW q \in Brokers
               PROVE  /\ containers'[q] = EmptyBag => Cardinality(routes'[q]) <= owed[q]
                      /\ containers'[q] # EmptyBag =>
                           /\ \A d \in Clients : \A i \in DOMAIN client[d].todo :
                                client[d].todo[i].target[1] # q
                           /\ \E e \in Waits(q)' :
                                /\ containers'[q] = [d \in {e} |-> 1]
                                /\ e.op = "replace" => Cardinality(routes'[q]) + 1 <= owed[q]
                                /\ e.op = "deleteFirst" => Cardinality(routes'[q]) <= owed[q] + 1
    BY <1>1 DEF Accounted, Waits
  <2>1. q \in Pods
    BY DEF Pods
  <2>2. CASE q # p
    <3>1. containers'[q] = containers[q] /\ Waits(q)' = Waits(q) /\ routes'[q] = routes[q]
      BY <1>2, <1>4, <2>1, <2>2
    <3> QED
      BY <3>1 DEF CalmInv, Accounted
  <2>3. CASE q = p
    <3>1. PICK e \in Waits(p) :
            /\ containers[p] = [d \in {e} |-> 1]
            /\ e.op = "replace" => Cardinality(routes[p]) + 1 <= owed[p]
            /\ e.op = "deleteFirst" => Cardinality(routes[p]) <= owed[p] + 1
      BY <1>6, <2>3 DEF CalmInv, Accounted
    <3>2. e = cmd
      BY <3>1, SingleBags DEF Waits
    <3>3. containers'[p] = EmptyBag
      BY <1>2, <3>1, <3>2
    <3>4. IsFiniteSet(routes[p]) /\ Cardinality(routes[p]) \in Nat /\ owed[p] \in Nat
      BY RouteCounts
    <3>5. cmd.op \in {"replace", "deleteFirst"}
      <4>1. p \notin Gateways
        BY <2>3, NetworkAssumption
      <4> QED
        BY <1>2, <4>1, CommandLines DEF NetworkInv, PodInv
    <3>6. CASE cmd.op = "replace"
      <4>1. Cardinality(S) <= Cardinality(routes[p]) + 1
        <5>1. Cardinality(routes[p] \cup {cmd.ip}) =
                IF cmd.ip \in routes[p] THEN Cardinality(routes[p]) ELSE Cardinality(routes[p]) + 1
          BY <3>4, FS_AddElement
        <5>2. Cardinality(routes[p] \cup {cmd.ip}) <= Cardinality(routes[p]) + 1
          BY <3>4, <5>1
        <5> QED
          BY <1>5, <3>6, <5>2, Zenon
      <4>2. Cardinality(S) \in Nat
        BY <1>5, <3>4, <3>6, FS_AddElement, FS_CardinalityType
      <4> QED
        BY <1>4, <2>3, <3>1, <3>2, <3>3, <3>4, <3>6, <4>1, <4>2
    <3>7. CASE cmd.op = "deleteFirst"
      <4>1. CASE S = {}
        BY <1>4, <2>3, <3>3, <3>4, <4>1, FS_EmptySet
      <4>2. CASE S # {}
        <5>1. PICK ip \in routes[p] : S = routes[p] \ {ip}
          BY <1>5, <3>7, <4>2
        <5>2. Cardinality(S) = Cardinality(routes[p]) - 1
          BY <3>4, <5>1, FS_RemoveElement
        <5> QED
          BY <1>4, <2>3, <3>1, <3>2, <3>3, <3>4, <3>7, <5>2
      <4> QED
        BY <4>1, <4>2
    <3> QED
      BY <3>5, <3>6, <3>7
  <2> QED
    BY <2>2, <2>3
<1>10. ASSUME OneGateway PROVE Reaching'
  <2>1. Reaching
    BY <1>10 DEF CalmInv
  <2> SUFFICES ASSUME NEW g \in Gateways,
                      \/ last.op = "connectGateway"
                      \/ \E c \in Clients : client[c].op = "connectGateway"
               PROVE  /\ routes'[g] # {} => routes[g] # {}
                      /\ IpOf(g)' = IpOf(g)
                      /\ \A ip \in last.peers \cap (Brokers \X Nat) : ip \in routes'[g] =>
                           /\ ip \in routes[g]
                           /\ Delete(ip) \in Waits(g) => Delete(ip) \in Waits(g)'
    BY <1>1, <2>1 DEF Reaching
  <2>2. IpOf(g)' = IpOf(g) /\ g \in Pods
    BY <1>1 DEF IpOf, Pods
  <2>3. CASE g # p
    BY <1>2, <1>4, <2>2, <2>3
  <2>4. CASE g = p
    <3>1. cmd.op = "delete"
      <4>1. PICK op \in Ops \ {"none"} :
              /\ \A c \in Clients : client[c].op \in {"none", op}
              /\ last.op \in {"none", op}
              /\ \A q \in Pods : \A e \in Waits(q) : e.op = Verb(op)
        BY DEF CalmInv, OneCommand
      <4>2. op = "connectGateway"
        BY <4>1
      <4> QED
        BY <4>1, <4>2, Verbs
    <3>2. S = routes[p] \ {cmd.ip} /\ cmd.ip \in Ips /\ cmd = Delete(cmd.ip)
      BY <1>2, <1>5, <3>1, CommandLines
    <3>3. routes[p] \subseteq Ips
      BY DEF NetworkInv, TypeOK
    <3>4. ASSUME NEW ip \in S PROVE Delete(ip) # cmd
      <4>1. Delete(ip).ip = ip /\ ip # cmd.ip
        BY <3>2, <3>3, CommandLines
      <4> QED
        BY <4>1
    <3> QED
      BY <1>2, <1>4, <2>2, <2>4, <3>2, <3>4
  <2> QED
    BY <2>3, <2>4
<1> QED
  BY <1>7, <1>8, <1>9, <1>10 DEF CalmInv, OneGateway

\* A pod that stops takes its routes and its containers with it.
LEMMA PodStopsCalmly ==
  ASSUME NetworkInv, CalmInv, NEW p \in Pods, PodStops(p)
  PROVE  CalmInv'
<1>1. UNCHANGED <<incarnation, client, cut, last>>
  BY DEF PodStops
<1>2. /\ ~up'[p] /\ routes'[p] = {} /\ containers'[p] = EmptyBag /\ owed'[p] = 0
      /\ \A q \in Pods : q # p =>
           /\ up'[q] = up[q] /\ routes'[q] = routes[q]
           /\ containers'[q] = containers[q] /\ owed'[q] = owed[q]
  BY DEF PodStops, NetworkInv, TypeOK
<1>3. /\ Waits(p)' = {}
      /\ \A q \in Pods : q # p => Waits(q)' = Waits(q)
  BY <1>2, EmptyBags DEF Waits
<1>4. OneCommand'
  BY <1>1, <1>2, <1>3 DEF CalmInv, OneCommand
<1>5. InForce'
  <2>1. \A y \in cut : y[1][1] \in Pods
    BY FiniteIps DEF NetworkInv, TypeOK
  <2>2. \A q \in Pods : IpOf(q)' = IpOf(q)
    BY <1>1 DEF IpOf
  <2> QED
    BY <1>1, <1>2, <1>3, <2>1, <2>2 DEF CalmInv, InForce
<1>6. Accounted'
  <2>1. \A q \in Brokers : q \in Pods
    BY DEF Pods
  <2>2. Cardinality({}) <= 0
    BY FS_EmptySet
  <2>3. ASSUME NEW q \in Brokers, q # p
        PROVE  /\ containers'[q] = containers[q] /\ routes'[q] = routes[q]
               /\ owed'[q] = owed[q] /\ Waits(q)' = Waits(q)
    BY <1>2, <1>3, <2>1, <2>3
  <2>4. p \in Brokers =>
          containers'[p] = EmptyBag /\ Cardinality(routes'[p]) <= owed'[p]
    BY <1>2, <2>2
  <2> SUFFICES ASSUME NEW q \in Brokers
               PROVE  /\ containers'[q] = EmptyBag => Cardinality(routes'[q]) <= owed'[q]
                      /\ containers'[q] # EmptyBag =>
                           /\ \A d \in Clients : \A i \in DOMAIN client[d].todo :
                                client[d].todo[i].target[1] # q
                           /\ \E cmd \in Waits(q)' :
                                /\ containers'[q] = [e \in {cmd} |-> 1]
                                /\ cmd.op = "replace" => Cardinality(routes'[q]) + 1 <= owed'[q]
                                /\ cmd.op = "deleteFirst" => Cardinality(routes'[q]) <= owed'[q] + 1
    BY <1>1 DEF Accounted, Waits
  <2>5. CASE q = p
    BY <1>2, <2>4, <2>5
  <2>6. CASE q # p
    <3>1. /\ containers'[q] = containers[q] /\ routes'[q] = routes[q]
          /\ owed'[q] = owed[q] /\ Waits(q)' = Waits(q)
      BY <2>3, <2>6
    <3> QED
      BY <3>1 DEF CalmInv, Accounted
  <2> QED
    BY <2>5, <2>6
<1>7. ASSUME OneGateway PROVE Reaching'
  <2>1. \A g \in Gateways : g \in Pods /\ IpOf(g)' = IpOf(g)
    BY <1>1 DEF IpOf, Pods
  <2> QED
    BY <1>1, <1>2, <1>3, <1>7, <2>1 DEF CalmInv, Reaching
<1> QED
  BY <1>4, <1>5, <1>6, <1>7 DEF CalmInv, OneGateway

\* A pod that starts has an IP that no cut and no request knows.
LEMMA PodStartsCalmly ==
  ASSUME NetworkInv, CalmInv, NEW p \in Pods, PodStarts(p)
  PROVE  CalmInv'
<1>1. UNCHANGED <<routes, containers, client, owed, cut, last>> /\ ~up[p]
  BY DEF PodStarts
<1>2. /\ incarnation[p] \in Nat /\ incarnation'[p] = incarnation[p] + 1
      /\ \A q \in Pods : q # p => up'[q] = up[q] /\ incarnation'[q] = incarnation[q]
  BY Incarnations DEF PodStarts, NetworkInv, TypeOK
<1>3. \A q : Waits(q)' = Waits(q)
  BY <1>1 DEF Waits
<1>4. \A q \in Pods : q # p => IpOf(q)' = IpOf(q)
  BY <1>2 DEF IpOf
<1>5. OneCommand'
  BY <1>1, <1>3 DEF CalmInv, OneCommand
<1>6. InForce'
  <2>1. \A y \in cut : y[1][1] \in Pods
    BY FiniteIps DEF NetworkInv, TypeOK
  <2>2. \A y \in cut : y[1][1] = p => IpOf(p)' # y[1]
    <3> SUFFICES ASSUME NEW y \in cut, y[1][1] = p PROVE IpOf(p)' # y[1]
      OBVIOUS
    <3>1. y[1] \in Ips
      BY DEF NetworkInv, TypeOK
    <3>2. y[1][2] \in Nat /\ y[1][2] <= incarnation[p]
      BY <3>1, FiniteIps DEF NetworkInv, CutInv
    <3>3. IpOf(p)'[2] = incarnation[p] + 1
      BY <1>2 DEF IpOf
    <3> QED
      BY <1>2, <3>2, <3>3
  <2> QED
    BY <1>1, <1>2, <1>3, <1>4, <2>1, <2>2 DEF CalmInv, InForce
<1>7. Accounted'
  BY <1>1, <1>3 DEF CalmInv, Accounted
<1>8. ASSUME OneGateway PROVE Reaching'
  <2>1. routes[p] = {}
    BY <1>1 DEF NetworkInv, PodInv
  <2>2. \A g \in Gateways : g \in Pods
    BY DEF Pods
  <2> QED
    BY <1>1, <1>3, <1>4, <1>8, <2>1, <2>2 DEF CalmInv, Reaching
<1> QED
  BY <1>5, <1>6, <1>7, <1>8 DEF CalmInv, OneGateway

LEMMA InitCalm == Init => CalmInv
<1> SUFFICES ASSUME Init PROVE CalmInv
  OBVIOUS
<1>1. \A p \in Pods : containers[p] = EmptyBag /\ Waits(p) = {} /\ routes[p] = {} /\ owed[p] = 0
  BY EmptyBags DEF Init, Waits
<1>2. /\ \A c \in Clients : client[c] = Idle
      /\ last.op = "none" /\ cut = {} /\ "disconnect" \in Ops \ {"none"}
  BY DEF Init, Ops
<1>3. OneCommand
  BY <1>1, <1>2, IdleFields DEF OneCommand
<1>4. InForce
  BY <1>2 DEF InForce
<1>5. Accounted
  <2>1. Cardinality({}) <= 0
    BY FS_EmptySet
  <2> QED
    BY <1>1, <2>1 DEF Accounted, Pods
<1>6. Reaching
  BY <1>2, IdleFields DEF Reaching
<1> QED
  BY <1>3, <1>4, <1>5, <1>6 DEF CalmInv

LEMMA NextCalm ==
  ASSUME Calm, NetworkInv, CalmInv, [Next]_vars
  PROVE  CalmInv'
<1>1. CASE \E c \in Clients : Client(c)
  <2>1. PICK c \in Clients : Client(c)
    BY <1>1
  <2>2. CASE \/ \E p \in Brokers : LookUpFirst(c, p)
             \/ \E S \in SUBSET Brokers, oneDirection \in BOOLEAN :
                  DisconnectGateway(c, S, oneDirection)
    BY <2>2, DisconnectStartsCalmly
  <2>3. CASE \E p \in Brokers, oneDirection \in BOOLEAN : LookUpSecond(c, p, oneDirection)
    BY <2>3, LookUpSecondCalmly
  <2>4. CASE LookUpFails(c)
    BY <2>4 DEF LookUpFails, Calm
  <2>5. CASE ConnectBrokers(c)
    BY <2>5, ConnectBrokersStartsCalmly
  <2>6. CASE ConnectGateway(c)
    BY <2>6, ConnectGatewayStartsCalmly
  <2>7. CASE AddContainer(c)
    BY <2>7, AddContainerCalmly
  <2>8. CASE RequestFails(c)
    BY <2>8, RequestFailsCalmly
  <2> QED
    BY <2>1, <2>2, <2>3, <2>4, <2>5, <2>6, <2>7, <2>8 DEF Client
<1>2. CASE \E p \in Pods : Pod(p)
  <2>1. PICK p \in Pods : Pod(p)
    BY <1>2
  <2>2. CASE \E cmd \in Waits(p) : RunContainer(p, cmd)
    BY <2>2, RunContainerCalmly
  <2>3. CASE \E cmd \in Waits(p) : ContainerFails(p, cmd)
    BY <2>3 DEF ContainerFails, Calm
  <2>4. CASE PodStops(p)
    BY <2>4, PodStopsCalmly
  <2>5. CASE PodStarts(p)
    BY <2>5, PodStartsCalmly
  <2> QED
    BY <2>1, <2>2, <2>3, <2>4, <2>5 DEF Pod, Waits
<1>3. CASE UNCHANGED vars
  <2>1. /\ UNCHANGED <<up, incarnation, routes, containers, client, owed, cut, last>>
        /\ \A q : Waits(q)' = Waits(q) /\ IpOf(q)' = IpOf(q)
    BY <1>3 DEF vars, Waits, IpOf
  <2>2. OneCommand' /\ InForce'
    BY <2>1 DEF CalmInv, OneCommand, InForce
  <2>3. Accounted'
    BY <1>3 DEF CalmInv, Accounted, Waits, vars
  <2>4. OneGateway => Reaching'
    BY <1>3 DEF CalmInv, Reaching, Waits, IpOf, vars
  <2> QED
    BY <2>2, <2>3, <2>4 DEF CalmInv, OneGateway
<1> QED
  BY <1>1, <1>2, <1>3 DEF Next

LEMMA PartitionInvariant == Spec => []PartitionInv
<1>1. Init => PartitionInv
  BY InitNetwork, InitCalm DEF PartitionInv
<1>2. PartitionInv /\ [Next]_vars => PartitionInv'
  BY NextNetwork, NextCalm DEF PartitionInv, Calm
<1> QED
  BY <1>1, <1>2, PTL DEF Spec

\* A disconnect that was reported is in force when the containers have run,
\* as long as both pods live and no connect was asked for (connection.go:240).
THEOREM DisconnectsHold == Spec => []CutsHold
<1>1. PartitionInv => CutsHold
  <2> SUFFICES ASSUME PartitionInv, Calm, Quiet, NEW x \in cut,
                      IpOf(x[1][1]) = x[1], up[x[1][1]]
               PROVE  x[2] \in routes[x[1][1]]
    BY DEF CutsHold, Calm
  <2>1. x[1][1] \in Pods
    BY FiniteIps DEF PartitionInv, NetworkInv, TypeOK
  <2>2. Waits(x[1][1]) = {}
    BY <2>1, EmptyBags DEF Quiet, Waits
  <2> QED
    BY <2>2 DEF PartitionInv, CalmInv, InForce
<1> QED
  BY <1>1, PartitionInvariant, PTL

\* Every connect of the brokers takes back one route of each of them, so that
\* a broker never has more routes than disconnects without a connect
\* (network.go:34 deletes the first route it finds).
THEOREM ConnectsTakeRoutesBack == Spec => []RoutesOwed
<1>1. PartitionInv => RoutesOwed
  BY DEF PartitionInv, CalmInv, Accounted, RoutesOwed, Calm, Quiet, Pods
<1> QED
  BY <1>1, PartitionInvariant, PTL

\* After connect gateway the gateway reaches every broker that was listed,
\* when it is the only gateway (connection.go:83 asks the first one only).
THEOREM GatewaysAreConnected ==
  ASSUME OneGateway
  PROVE  Spec => []GatewayReachesBrokers
<1>1. PartitionInv => GatewayReachesBrokers
  <2> SUFFICES ASSUME PartitionInv, Calm, Quiet, last.op = "connectGateway",
                      NEW g \in Running(Gateways)
               PROVE  routes[g] \cap last.peers \cap (Brokers \X Nat) = {}
    BY DEF GatewayReachesBrokers, Calm
  <2>1. g \in Gateways /\ g \in Pods
    BY DEF Running, Pods
  <2>2. Waits(g) = {}
    BY <2>1, EmptyBags DEF Quiet, Waits
  <2>3. Reaching
    BY OneGateway DEF PartitionInv, CalmInv
  <2> QED
    BY <2>1, <2>2, <2>3 DEF Reaching
<1> QED
  BY <1>1, PartitionInvariant, PTL
=============================================================================
