-------------------------- MODULE PodFaults_proofs --------------------------
(***************************************************************************)
(* What the commands that delete pods and volumes keep, for any experiment *)
(* and any number of gateways and workers, whatever panics and is executed *)
(* again.  A broker that was lost stays down until it is recovered, for    *)
(* any number of brokers.  With up to ten brokers a role finds the pod of  *)
(* its broker if the pods up to it exist, and losses come one by one as    *)
(* long as every dataloss delete begins with all pods there and the other  *)
(* brokers ready; what else happens, and when, makes no difference.        *)
(*                                                                         *)
(* LostBase is inductive: PatchInv says what the patch of the statefulset  *)
(* has reached, LostInv which brokers are down and where the delete is     *)
(* that will take one down.  HitInv adds that whatever is without data or  *)
(* about to lose it is the broker of the last delete.  That an index into  *)
(* the list of names is a node id is PlaceOfNode, what it is while pods    *)
(* are missing IndexShifts, and that it ceases to be one with the eleventh *)
(* broker PlacesShift.                                                     *)
(***************************************************************************)
EXTENDS PodFaults, FiniteSetTheorems, TLAPS

-----------------------------------------------------------------------------
(* Lists of pods.                                                          *)

\* The order of names by what a name is made of.
First(n) == IF n < 10 THEN n ELSE n \div 10
Size(n) == IF n < 10 THEN 1 ELSE 2
Second(n) == n % 10
Before(a, b) ==
  \/ First(a) < First(b)
  \/ First(a) = First(b) /\ Size(a) < Size(b)
  \/ First(a) = First(b) /\ Size(a) = 2 /\ Size(b) = 2 /\ Second(a) < Second(b)

LEMMA NamesInOrder ==
  ASSUME NEW a \in Nat, NEW b \in Nat
  PROVE  Alphabetical(a, b) <=> Before(a, b)
<1>1. CASE a < 10 /\ b < 10
  BY <1>1 DEF Alphabetical, Before, First, Size
<1>2. CASE a < 10 /\ ~(b < 10)
  BY <1>2 DEF Alphabetical, Before, First, Size
<1>3. CASE ~(a < 10) /\ b < 10
  BY <1>3 DEF Alphabetical, Before, First, Size
<1>4. CASE ~(a < 10) /\ ~(b < 10)
  BY <1>4 DEF Alphabetical, Before, First, Size, Second
<1> QED
  BY <1>1, <1>2, <1>3, <1>4

\* It is a strict total order.
LEMMA NameParts ==
  ASSUME NEW n \in Nat
  PROVE  /\ First(n) \in Nat /\ Size(n) \in {1, 2} /\ Second(n) \in Nat
         /\ Size(n) = 1 => n = First(n)
         /\ Size(n) = 2 => n = 10 * First(n) + Second(n)
BY DEF First, Size, Second

LEMMA NamesOrdered ==
  ASSUME NEW a \in Nat, NEW b \in Nat, NEW c \in Nat
  PROVE  /\ ~ Alphabetical(a, a)
         /\ a # b => Alphabetical(a, b) \/ Alphabetical(b, a)
         /\ Alphabetical(a, b) /\ Alphabetical(b, c) => Alphabetical(a, c)
<1>1. ~ Before(a, a)
  BY NameParts DEF Before
<1>2. a # b => Before(a, b) \/ Before(b, a)
  <2> SUFFICES ASSUME a # b, First(a) = First(b), Size(a) = Size(b)
               PROVE  Before(a, b) \/ Before(b, a)
    BY NameParts DEF Before
  <2>1. Size(a) = 2 /\ Second(a) # Second(b)
    BY NameParts
  <2> QED
    BY <2>1, NameParts DEF Before
<1>3. Before(a, b) /\ Before(b, c) => Before(a, c)
  BY NameParts DEF Before
<1> QED
  BY <1>1, <1>2, <1>3, NamesInOrder

\* Up to ten brokers it is the order of the node ids.
LEMMA OneDigit ==
  ASSUME NEW a \in 0..9, NEW b \in 0..9
  PROVE  Alphabetical(a, b) <=> a < b
BY NamesInOrder DEF Before, First, Size

LEMMA BrokerSets ==
  ASSUME NEW S \in SUBSET Brokers
  PROVE  IsFiniteSet(S) /\ Cardinality(S) \in Nat
<1>1. IsFiniteSet(Brokers)
  BY PodAssumption, FS_Interval DEF Brokers
<1> QED
  BY <1>1, FS_Subset, FS_CardinalityType

\* Every place of the list is taken.
LEMMA PlacesTaken ==
  ASSUME NEW k \in 0..(Cardinality(ListedBrokers) - 1)
  PROVE  \E p \in ListedBrokers : Place(p) = k
<1> DEFINE L == ListedBrokers
           n == Cardinality(L)
           B(p) == {q \in L : Alphabetical(q, p)}
           f == [p \in L |-> Place(p)]
<1>1. L \in SUBSET Brokers /\ IsFiniteSet(L) /\ n \in Nat /\ L \in SUBSET Nat
  BY BrokerSets DEF ListedBrokers, Brokers
<1>2. \A p \in L : Place(p) = Cardinality(B(p))
  BY DEF Place
<1> HIDE DEF L, n
<1>3. ASSUME NEW p \in L
      PROVE  Cardinality(B(p)) \in 0..(n - 1)
  <2>1. B(p) \in SUBSET (L \ {p})
    BY <1>1, NamesOrdered
  <2>2. IsFiniteSet(L \ {p}) /\ Cardinality(L \ {p}) = n - 1
    BY <1>1, FS_RemoveElement DEF n
  <2>3. IsFiniteSet(B(p)) /\ Cardinality(B(p)) <= n - 1
    BY <2>1, <2>2, FS_Subset
  <2> QED
    BY <1>1, <2>3, FS_CardinalityType
<1>4. ASSUME NEW p \in L, NEW q \in L, Alphabetical(p, q)
      PROVE  Cardinality(B(p)) < Cardinality(B(q))
  <2>1. B(p) \cup {p} \in SUBSET B(q)
    BY <1>1, <1>4, NamesOrdered
  <2>2. p \notin B(p)
    BY <1>1, NamesOrdered
  <2>3. IsFiniteSet(B(p)) /\ IsFiniteSet(B(q))
    BY <1>1, FS_Subset
  <2> HIDE DEF B
  <2>4. Cardinality(B(p) \cup {p}) = Cardinality(B(p)) + 1
    BY <2>2, <2>3, FS_AddElement
  <2>5. Cardinality(B(p) \cup {p}) <= Cardinality(B(q))
    BY <2>1, <2>3, FS_Subset
  <2>6. Cardinality(B(p)) \in Nat /\ Cardinality(B(q)) \in Nat
    BY <2>3, FS_CardinalityType
  <2> QED
    BY <2>4, <2>5, <2>6
<1>5. f \in Injection(L, 0..(n - 1))
  <2>1. \A p \in L : f[p] \in 0..(n - 1)
    BY <1>2, <1>3
  <2>2. \A p, q \in L : f[p] = f[q] => p = q
    <3> SUFFICES ASSUME NEW p \in L, NEW q \in L, f[p] = f[q], p # q PROVE FALSE
      OBVIOUS
    <3>1. Alphabetical(p, q) \/ Alphabetical(q, p)
      BY <1>1, NamesOrdered
    <3>2. Cardinality(B(p)) = Cardinality(B(q))
      BY <1>2
    <3>3. Cardinality(B(p)) \in Nat
      BY <1>3
    <3> HIDE DEF B
    <3> QED
      BY <1>4, <3>1, <3>2, <3>3
  <2>3. f \in [L -> 0..(n - 1)]
    BY <2>1
  <2> HIDE DEF f
  <2> QED
    BY <2>2, <2>3 DEF Injection, IsInjective
<1>6. IsFiniteSet(0..(n - 1)) /\ Cardinality(0..(n - 1)) = n
  BY <1>1, FS_Interval
<1> HIDE DEF f
<1>7. f \in Surjection(L, 0..(n - 1))
  BY <1>5, <1>6, FS_Injection DEF n
<1>8. PICK p \in L : f[p] = k
  BY <1>7 DEF Surjection, n, L
<1> QED
  BY <1>8 DEF f, L

LEMMA ListsOfPods ==
  /\ BrokerPodNames \in Seq(Brokers)
  /\ GatewayPodNames \in Seq(Pods)
  /\ ListedWorkers # {} => SetToSeq(ListedWorkers) \in Seq(Pods)
<1>1. BrokerPodNames \in Seq(Brokers)
  <2>1. ListedBrokers \in SUBSET Brokers /\ Cardinality(ListedBrokers) \in Nat
    BY BrokerSets DEF ListedBrokers
  <2>2. ASSUME NEW i \in 1..Cardinality(ListedBrokers)
        PROVE  (CHOOSE p \in ListedBrokers : Place(p) = i - 1) \in Brokers
    <3>1. i - 1 \in 0..(Cardinality(ListedBrokers) - 1)
      BY <2>1
    <3>2. \E p \in ListedBrokers : Place(p) = i - 1
      BY <3>1, PlacesTaken
    <3> QED
      BY <2>1, <3>2
  <2>3. BrokerPodNames \in [1..Cardinality(ListedBrokers) -> Brokers]
    BY <2>2 DEF BrokerPodNames
  <2> QED
    BY <2>1, <2>3
<1>2. ASSUME NEW S \in SUBSET Pods, IsFiniteSet(S)
      PROVE  SetToSeq(S) \in Seq(Pods)
  <2>1. Cardinality(S) \in Nat /\ ExistsBijection(1..Cardinality(S), S)
    BY <1>2, FS_CardinalityType
  <2>2. \E f \in [1..Cardinality(S) -> S] : IsInjective(f)
    BY <2>1 DEF ExistsBijection, Bijection, Injection
  <2>3. SetToSeq(S) \in [1..Cardinality(S) -> S]
    BY <2>2 DEF SetToSeq
  <2> QED
    BY <2>1, <2>3
<1>3. /\ ListedGateways \in SUBSET Gateways /\ IsFiniteSet(ListedGateways)
      /\ ListedWorkers \in SUBSET Workers /\ IsFiniteSet(ListedWorkers)
  BY PodAssumption, FS_Subset DEF ListedGateways, ListedWorkers
<1>4. Brokers \subseteq Pods /\ Gateways \subseteq Pods /\ Workers \subseteq Pods
  BY DEF Pods
<1>5. BrokerPodNames \in Seq(Pods)
  BY <1>1, <1>4
<1> QED
  BY <1>1, <1>2, <1>3, <1>4, <1>5 DEF GatewayPodNames

-----------------------------------------------------------------------------
(* Types.                                                                  *)

ClusterTyped ==
  /\ pod \in [Pods -> Phases] /\ leader \in Brokers
  /\ initBlock \subseteq Brokers /\ dropped \subseteq Brokers /\ data \subseteq Brokers

ConfigTyped ==
  /\ patched \in BOOLEAN /\ flag \subseteq keys /\ keys \subseteq Brokers
  /\ simulated \subseteq Brokers

CommandTyped ==
  /\ script \in Scripts /\ step \in 1..(Len(script) + 1)
  /\ pc \in {"idle", "claim", "flag", "find", "kill", "await", "poll"}
  /\ target \in Pods \cup {NoPod} /\ todo \in Seq(Pods)

\* Commands that delete pods and nothing else.
Killing == Ops \ {"prepare", "delete", "recover", "verify"}

\* Where each command can be.
CommandAt ==
  /\ pc # "idle" => ~Done
  /\ pc = "kill" => Command.op \in Killing \cup {"delete"}
  /\ pc # "idle" /\ Command.op = "delete" => target \in Brokers /\ todo = <<>>

PodBase == ClusterTyped /\ ConfigTyped /\ CommandTyped /\ CommandAt

LEMMA BaseTypes == PodBase => TypeOK
BY DEF PodBase, ClusterTyped, ConfigTyped, CommandTyped, TypeOK

LEMMA CurrentCommand ==
  ASSUME CommandTyped, ~Done
  PROVE  Command \in Commands /\ step \in 1..Len(script) /\ Len(script) \in Nat
<1>1. script \in Seq(Commands)
  BY PodAssumption DEF CommandTyped
<1>2. step \in 1..Len(script) /\ Len(script) \in Nat
  BY <1>1 DEF CommandTyped, Done
<1> QED
  BY <1>1, <1>2 DEF Command

\* The commands that go on with the same script and step.
LEMMA CommandGoesOn ==
  ASSUME CommandTyped, ~Done, UNCHANGED <<script, step>>,
         NEW where \in {"claim", "flag", "find", "kill", "await", "poll"},
         NEW p \in Pods \cup {NoPod}, NEW rest \in Seq(Pods), Goto(where, p, rest),
         where = "kill" => Command.op \in Killing \cup {"delete"},
         Command.op = "delete" => p \in Brokers /\ rest = <<>>
  PROVE  CommandTyped' /\ CommandAt'
BY DEF CommandTyped, CommandAt, Goto, Command, Done

LEMMA CommandRests ==
  ASSUME CommandTyped, ~Done, UNCHANGED script, step' \in {step, step + 1},
         Goto("idle", NoPod, <<>>)
  PROVE  CommandTyped' /\ CommandAt'
<1>1. step' \in 1..(Len(script) + 1)
  BY CurrentCommand
<1>2. <<>> \in Seq(Pods)
  OBVIOUS
<1> QED
  BY <1>1, <1>2 DEF CommandTyped, CommandAt, Goto

LEMMA CommandEnds ==
  ASSUME CommandTyped, ~Done, Ends
  PROVE  CommandTyped' /\ CommandAt'
<1>1. step' \in {step, step + 1}
  BY DEF Ends
<1> QED
  BY <1>1, CommandRests DEF Ends

\* Nothing but the command moves.
LEMMA ClusterRests ==
  ASSUME PodBase, UNCHANGED <<cluster, patched, keys, flag, simulated>>
  PROVE  ClusterTyped' /\ ConfigTyped'
BY DEF PodBase, ClusterTyped, ConfigTyped, cluster

LEMMA CommandStays ==
  ASSUME PodBase, UNCHANGED command
  PROVE  CommandTyped' /\ CommandAt'
BY DEF PodBase, CommandTyped, CommandAt, command, Done, Command

LEMMA InitBase == Init => PodBase
<1> SUFFICES ASSUME Init PROVE PodBase
  OBVIOUS
<1>1. ClusterTyped
  BY PodAssumption DEF Init, ClusterTyped, Phases, Brokers
<1>2. ConfigTyped
  BY DEF Init, ConfigTyped
<1>3. CommandTyped
  <2>1. script \in Seq(Commands)
    BY PodAssumption DEF Init
  <2>2. 1 \in 1..(Len(script) + 1) /\ <<>> \in Seq(Pods)
    BY <2>1
  <2> QED
    BY <2>2 DEF Init, CommandTyped
<1>4. CommandAt
  BY DEF Init, CommandAt
<1> QED
  BY <1>1, <1>2, <1>3, <1>4 DEF PodBase

\* What deleting a pod does to the cluster.
LEMMA KillTyped ==
  ASSUME ClusterTyped, NEW p \in Pods, NEW grace \in BOOLEAN, Deleted(p, grace)
  PROVE  ClusterTyped'
BY DEF ClusterTyped, Deleted, Kill, Gone, Phases, cluster

LEMMA PrepareBase ==
  ASSUME PodBase, Prepare \/ Patch
  PROVE  PodBase'
<1>1. ~Done /\ CommandTyped /\ Command.op = "prepare"
  BY DEF PodBase, Prepare, Patch, Begins, At
<1>2. CASE Prepare
  <2>1. CommandTyped' /\ CommandAt'
    <3>1. NoPod \in Pods \cup {NoPod} /\ <<>> \in Seq(Pods)
      OBVIOUS
    <3>2. UNCHANGED <<script, step>> /\ Goto("find", NoPod, <<>>)
      BY <1>2 DEF Prepare, Begins
    <3> QED
      BY <1>1, <3>1, <3>2, CommandGoesOn
  <2>2. ClusterTyped' /\ ConfigTyped'
    BY <1>2 DEF PodBase, ClusterTyped, ConfigTyped, Prepare, cluster
  <2> QED
    BY <2>1, <2>2 DEF PodBase
<1>3. CASE Patch
  <2>1. CommandTyped' /\ CommandAt'
    BY <1>1, <1>3, CommandEnds DEF Patch
  <2>2. ClusterTyped' /\ ConfigTyped'
    BY <1>3 DEF PodBase, ClusterTyped, ConfigTyped, Patch, cluster
  <2> QED
    BY <2>1, <2>2 DEF PodBase
<1> QED
  BY <1>2, <1>3

LEMMA DeleteBase ==
  ASSUME PodBase, DeleteFinds \/ DeleteClaim \/ SetFlag \/ DeleteKills
  PROVE  PodBase'
<1>1. ~Done /\ CommandTyped /\ Command.op = "delete" /\ Command \in Commands /\ <<>> \in Seq(Pods)
  <2>1. ~Done /\ CommandTyped /\ Command.op = "delete"
    BY DEF PodBase, DeleteFinds, DeleteClaim, SetFlag, DeleteKills, Begins, At
  <2> QED
    BY <2>1, CurrentCommand
<1>2. CASE DeleteFinds
  <2>1. PICK p \in Brokers : Goto("claim", p, <<>>)
    BY <1>2 DEF DeleteFinds
  <2>2. UNCHANGED <<script, step>> /\ p \in Pods \cup {NoPod}
    BY <1>2 DEF DeleteFinds, Begins, Pods
  <2>3. CommandTyped' /\ CommandAt'
    BY <1>1, <2>1, <2>2, CommandGoesOn
  <2> QED
    BY <1>2, <2>3, ClusterRests DEF PodBase, DeleteFinds, config
<1>3. CASE DeleteClaim
  <2>1. target \in Brokers /\ target \in Pods \cup {NoPod} /\ Goto("flag", target, <<>>) /\ Continues
    BY <1>1, <1>3 DEF PodBase, CommandAt, DeleteClaim, At, Pods
  <2>2. CommandTyped' /\ CommandAt'
    BY <1>1, <2>1, CommandGoesOn DEF Continues
  <2>3. ClusterTyped' /\ ConfigTyped'
    BY <1>3, <2>1 DEF PodBase, ClusterTyped, ConfigTyped, DeleteClaim, Continues, config
  <2> QED
    BY <2>2, <2>3 DEF PodBase
<1>4. CASE SetFlag
  <2>1. target \in Brokers /\ target \in Pods \cup {NoPod} /\ Goto("kill", target, <<>>) /\ Continues
    BY <1>1, <1>4 DEF PodBase, CommandAt, SetFlag, At, Pods
  <2>2. CommandTyped' /\ CommandAt'
    BY <1>1, <2>1, CommandGoesOn DEF Continues
  <2>3. Command.id \in Brokers
    BY <1>1 DEF Commands
  <2>4. ClusterTyped' /\ ConfigTyped'
    BY <1>4, <2>1, <2>3 DEF PodBase, ClusterTyped, ConfigTyped, SetFlag, SetKey, Continues, cluster
  <2> QED
    BY <2>2, <2>4 DEF PodBase
<1>5. CASE DeleteKills
  <2>1. CASE NotFound(target)
    <3>1. CommandTyped' /\ CommandAt'
      BY <1>1, <2>1, CommandRests DEF NotFound
    <3> QED
      BY <2>1, <3>1, ClusterRests DEF PodBase, NotFound, config
  <2>2. CASE /\ Deleted(target, TRUE)
             /\ simulated' = simulated \cup ({target} \cap dropped \cap flag)
             /\ Ends
             /\ UNCHANGED config
    <3>1. target \in Brokers /\ target \in Pods
      BY <1>1, <1>5 DEF PodBase, CommandAt, DeleteKills, At, Pods
    <3>2. CommandTyped' /\ CommandAt'
      BY <1>1, <2>2, CommandEnds
    <3>3. ClusterTyped'
      BY <2>2, <3>1, KillTyped DEF PodBase
    <3>4. ConfigTyped'
      BY <2>2, <3>1 DEF PodBase, ConfigTyped, config
    <3> QED
      BY <3>2, <3>3, <3>4 DEF PodBase
  <2> QED
    BY <1>5, <2>1, <2>2 DEF DeleteKills
<1> QED
  BY <1>2, <1>3, <1>4, <1>5

LEMMA RecoverBase ==
  ASSUME PodBase, Unblock \/ RecoverFinds \/ RecoverEnds
  PROVE  PodBase'
<1>1. ~Done /\ CommandTyped /\ Command.op = "recover" /\ Command \in Commands /\ <<>> \in Seq(Pods)
  <2>1. ~Done /\ CommandTyped /\ Command.op = "recover"
    BY DEF PodBase, Unblock, RecoverFinds, RecoverEnds, Begins, At
  <2> QED
    BY <2>1, CurrentCommand
<1>2. CASE Unblock
  <2>1. CommandTyped' /\ CommandAt'
    <3>1. NoPod \in Pods \cup {NoPod} /\ UNCHANGED <<script, step>> /\ Goto("find", NoPod, <<>>)
      BY <1>2 DEF Unblock, Begins
    <3> QED
      BY <1>1, <3>1, CommandGoesOn
  <2>2. Command.id \in Brokers
    BY <1>1 DEF Commands
  <2>3. ClusterTyped' /\ ConfigTyped'
    BY <1>2, <2>2 DEF PodBase, ClusterTyped, ConfigTyped, Unblock, SetKey, cluster
  <2> QED
    BY <2>1, <2>3 DEF PodBase
<1>3. CASE RecoverFinds
  <2>1. CASE \E p \in Brokers : Goto("await", p, <<>>)
    <3>1. PICK p \in Brokers : Goto("await", p, <<>>)
      BY <2>1
    <3>2. p \in Pods \cup {NoPod} /\ UNCHANGED <<script, step>>
      BY <1>3 DEF RecoverFinds, Continues, Pods
    <3> QED
      BY <1>1, <1>3, <3>1, <3>2, CommandGoesOn, ClusterRests DEF PodBase, RecoverFinds, Continues, config
  <2>2. CASE Goto("idle", NoPod, <<>>)
    <3>1. CommandTyped' /\ CommandAt'
      BY <1>1, <1>3, <2>2, CommandRests DEF RecoverFinds, Continues
    <3> QED
      BY <1>3, <3>1, ClusterRests DEF PodBase, RecoverFinds, Continues, config
  <2> QED
    BY <1>3, <2>1, <2>2 DEF RecoverFinds
<1>4. CASE RecoverEnds
  <2>1. CommandTyped' /\ CommandAt'
    BY <1>1, <1>4, CommandEnds DEF RecoverEnds
  <2> QED
    BY <1>4, <2>1, ClusterRests DEF PodBase, RecoverEnds, config
<1> QED
  BY <1>2, <1>3, <1>4

LEMMA VerifyBase ==
  ASSUME PodBase, Verify \/ VerifyEnds \/ TimesOut \/ Panics
  PROVE  PodBase'
<1>1. ~Done /\ CommandTyped /\ <<>> \in Seq(Pods)
  BY DEF PodBase, Verify, VerifyEnds, TimesOut, Panics, Begins, At
<1>2. ClusterTyped' /\ ConfigTyped'
  BY ClusterRests DEF Verify, VerifyEnds, TimesOut, Panics, config
<1>3. CASE Verify
  <2>1. /\ NoPod \in Pods \cup {NoPod} /\ UNCHANGED <<script, step>> /\ Goto("poll", NoPod, <<>>)
        /\ Command.op = "verify"
    BY <1>3 DEF Verify, Begins, At
  <2>2. CommandTyped' /\ CommandAt'
    BY <1>1, <2>1, CommandGoesOn
  <2> QED
    BY <1>2, <2>2 DEF PodBase
<1>4. CASE VerifyEnds
  BY <1>1, <1>2, <1>4, CommandEnds DEF VerifyEnds, PodBase
<1>5. CASE TimesOut \/ Panics
  BY <1>1, <1>2, <1>5, CommandRests DEF TimesOut, Panics, PodBase
<1> QED
  BY <1>3, <1>4, <1>5

LEMMA RoleBase ==
  ASSUME PodBase, LookupRole \/ RoleFinds
  PROVE  PodBase'
<1>1. ClusterTyped' /\ ConfigTyped'
  BY ClusterRests DEF LookupRole, RoleFinds, Continues, config
<1>2. CASE LookupRole
  <2>1. PICK role \in Roles, b \in Brokers : Begins(role) /\ Goto("find", b, <<>>)
    BY <1>2 DEF LookupRole
  <2>2. /\ ~Done /\ CommandTyped /\ Command.op = role /\ UNCHANGED <<script, step>>
        /\ b \in Pods \cup {NoPod} /\ <<>> \in Seq(Pods)
    BY <2>1 DEF PodBase, Begins, At, Pods
  <2>3. CommandTyped' /\ CommandAt'
    BY <2>1, <2>2, CommandGoesOn DEF Roles
  <2> QED
    BY <1>1, <2>3 DEF PodBase
<1>3. CASE RoleFinds
  <2>1. /\ ~Done /\ CommandTyped /\ Command.op \in Roles
        /\ UNCHANGED <<script, step>> /\ target \in Pods \cup {NoPod}
    BY <1>3 DEF PodBase, CommandTyped, RoleFinds, At, Continues
  <2>2. CASE Goto("idle", NoPod, <<>>)
    BY <1>1, <2>1, <2>2, CommandRests DEF PodBase
  <2>3. CASE \E p \in Brokers : Goto("kill", target, <<p>>)
    <3>1. PICK p \in Brokers : Goto("kill", target, <<p>>)
      BY <2>3
    <3>2. <<p>> \in Seq(Pods)
      BY DEF Pods
    <3>3. Command.op \in Killing /\ Command.op # "delete"
      BY <2>1 DEF Roles, Killing, Ops
    <3>4. CommandTyped' /\ CommandAt'
      BY <2>1, <3>1, <3>2, <3>3, CommandGoesOn
    <3> QED
      BY <1>1, <3>4 DEF PodBase
  <2> QED
    BY <1>3, <2>2, <2>3 DEF RoleFinds
<1> QED
  BY <1>2, <1>3

LEMMA KillFindsBase ==
  ASSUME PodBase, KillFinds
  PROVE  PodBase'
<1>1. ClusterTyped' /\ ConfigTyped'
  BY ClusterRests DEF KillFinds, config
<1>2. PICK op \in {"broker", "brokers", "gateway", "gateways", "worker", "workers"} : Begins(op)
  BY DEF KillFinds
<1>3. /\ ~Done /\ CommandTyped /\ Command.op = op /\ UNCHANGED <<script, step>>
      /\ op \in Killing /\ op # "delete" /\ NoPod \in Pods \cup {NoPod}
  BY <1>2 DEF PodBase, Begins, At, Killing, Ops
<1>4. \E rest \in Seq(Pods) : Goto("kill", NoPod, rest)
  <2>1. /\ \A p \in Brokers \cup Workers : <<p>> \in Seq(Pods)
        /\ GatewayPodNames # <<>> => <<Head(GatewayPodNames)>> \in Seq(Pods)
    <3>1. GatewayPodNames \in Seq(Pods)
      BY ListsOfPods
    <3>2. GatewayPodNames # <<>> => Head(GatewayPodNames) \in Pods
      BY <3>1
    <3> QED
      BY <3>2 DEF Pods
  <2>2. BrokerPodNames \in Seq(Pods)
    <3>1. BrokerPodNames \in Seq(Brokers)
      BY ListsOfPods
    <3> QED
      BY <3>1 DEF Pods
  <2>3. ListedWorkers \subseteq Workers
    BY DEF ListedWorkers
  <2> QED
    BY <2>1, <2>2, <2>3, ListsOfPods DEF KillFinds
<1>5. CommandTyped' /\ CommandAt'
  BY <1>3, <1>4, CommandGoesOn
<1> QED
  BY <1>1, <1>5 DEF PodBase

LEMMA KillNextBase ==
  ASSUME PodBase, KillNext
  PROVE  PodBase'
<1>1. /\ ~Done /\ CommandTyped /\ Command.op \in Killing /\ Command \in Commands
      /\ todo \in Seq(Pods) /\ Head(todo) \in Pods /\ Tail(todo) \in Seq(Pods)
  <2>1. ~Done /\ CommandTyped /\ todo \in Seq(Pods) /\ todo # <<>> /\ Command.op \in Killing
    BY DEF PodBase, CommandTyped, CommandAt, KillNext
  <2> QED
    BY <2>1, CurrentCommand
<1>2. CASE NotFound(Head(todo))
  <2>1. CommandTyped' /\ CommandAt'
    BY <1>1, <1>2, CommandRests DEF NotFound
  <2> QED
    BY <1>2, <2>1, ClusterRests DEF PodBase, NotFound, config
<1>3. CASE /\ Deleted(Head(todo), Command.grace)
           /\ IF Len(todo) = 1
              THEN Ends /\ UNCHANGED simulated
              ELSE Goto("kill", NoPod, Tail(todo)) /\ Continues
           /\ UNCHANGED config
  <2>1. ClusterTyped'
    BY <1>1, <1>3, KillTyped DEF PodBase, Commands
  <2>2. ConfigTyped'
    BY <1>3 DEF PodBase, ConfigTyped, config, Continues
  <2>3. CASE Ends
    BY <1>1, <2>1, <2>2, <2>3, CommandEnds DEF PodBase
  <2>4. CASE Goto("kill", NoPod, Tail(todo)) /\ Continues
    <3>1. NoPod \in Pods \cup {NoPod} /\ Command.op # "delete" /\ UNCHANGED <<script, step>>
      BY <1>1, <2>4 DEF Killing, Continues
    <3>2. CommandTyped' /\ CommandAt'
      BY <1>1, <2>4, <3>1, CommandGoesOn
    <3> QED
      BY <2>1, <2>2, <3>2 DEF PodBase
  <2> QED
    BY <1>3, <2>3, <2>4
<1> QED
  BY <1>2, <1>3 DEF KillNext

LEMMA PodStepBase ==
  ASSUME PodBase, NEW p \in Pods, PodStep(p)
  PROVE  PodBase'
<1>1. CommandTyped' /\ CommandAt'
  BY CommandStays DEF PodStep, Terminated, Created, Started, Readied
<1>2. ConfigTyped'
  BY DEF PodBase, ConfigTyped, config, PodStep, Terminated, Created, Started, Readied
<1>3. CASE Terminated(p)
  BY <1>1, <1>2, <1>3 DEF PodBase, ClusterTyped, Terminated, Gone, Phases
<1>4. CASE Created(p)
  BY <1>1, <1>2, <1>4 DEF PodBase, ClusterTyped, Created, Phases
<1>5. CASE Started(p) \/ Readied(p)
  BY <1>1, <1>2, <1>5 DEF PodBase, ClusterTyped, Started, Readied, Phases
<1> QED
  BY <1>3, <1>4, <1>5 DEF PodStep

LEMMA ZeebeStepBase ==
  ASSUME PodBase, NEW b \in Brokers, RollingUpdate(b) \/ Elected(b)
  PROVE  PodBase'
<1>1. CommandTyped' /\ CommandAt'
  BY CommandStays DEF RollingUpdate, Elected
<1>2. ConfigTyped'
  BY DEF PodBase, ConfigTyped, config, RollingUpdate, Elected
<1>3. ClusterTyped'
  BY DEF PodBase, ClusterTyped, RollingUpdate, Elected, Kill, Phases
<1> QED
  BY <1>1, <1>2, <1>3 DEF PodBase

LEMMA BaseKept == PodBase /\ [Next]_vars => PodBase'
<1> SUFFICES ASSUME PodBase, [Next]_vars PROVE PodBase'
  OBVIOUS
<1>1. CASE UNCHANGED vars
  BY <1>1, ClusterRests, CommandStays DEF PodBase, vars, config
<1>2. CASE CommandStep \/ Panics
  BY <1>2, PrepareBase, DeleteBase, RecoverBase, VerifyBase, RoleBase, KillFindsBase, KillNextBase
     DEF CommandStep
<1>3. CASE \E p \in Pods : PodStep(p)
  BY <1>3, PodStepBase
<1>4. CASE \E b \in Brokers : RollingUpdate(b) \/ Elected(b)
  BY <1>4, ZeebeStepBase
<1> QED
  BY <1>1, <1>2, <1>3, <1>4 DEF Next, Finished

-----------------------------------------------------------------------------
(* A lost broker stays down.                                               *)

\* The init container is there once prepare has gone through, and before that
\* nobody can set a flag but for prepare itself.
PatchInv ==
  /\ keys # {} /\ ~patched => ~Done /\ Command.op = "prepare"
  /\ pc # "idle" /\ Command.op = "prepare" => keys # {}
  /\ patched => keys # {}
  /\ initBlock # {} => patched

\* A broker whose loss was brought about waits for its flag as soon as there is
\* a pod again, and its claim goes with the pod that was deleted.
LostInv ==
  /\ simulated # {} => patched
  /\ \A b \in simulated :
       /\ b \in flag
       /\ pod[b] \in {"terminating", "absent", "pending"}
       /\ pod[b] = "pending" => b \in initBlock
       /\ b \in data => pod[b] = "terminating" /\ b \in dropped

LostBase == PodBase /\ PatchInv /\ LostInv

\* Commands end with the script and the step they began with, or one more.
LEMMA PatchKept == PodBase /\ PatchInv /\ [Next]_vars => PatchInv'
<1> SUFFICES ASSUME PodBase, PatchInv, [Next]_vars PROVE PatchInv'
  OBVIOUS
<1>1. ASSUME UNCHANGED <<keys, patched, initBlock>>, UNCHANGED command \/ pc' = "idle",
             UNCHANGED <<script, step>> \/ (~Done /\ Command.op # "prepare")
      PROVE  PatchInv'
  BY <1>1 DEF PatchInv, command, Done, Command
<1>2. ASSUME UNCHANGED <<keys, patched, initBlock>>, UNCHANGED <<script, step>>,
             ~Done, Command.op # "prepare"
      PROVE  PatchInv'
  BY <1>2 DEF PatchInv, Done, Command
<1>3. CASE Prepare
  <2>1. keys' # {}
    BY <1>3, PodAssumption DEF Prepare, DefaultKeys, Brokers
  <2> QED
    BY <1>3, <2>1 DEF PatchInv, Prepare, Begins, At, cluster, Done, Command
<1>4. CASE Patch
  BY <1>4 DEF PatchInv, Patch, At, Ends, Goto, cluster
<1>5. CASE DeleteFinds \/ DeleteClaim
  BY <1>2, <1>5 DEF DeleteFinds, DeleteClaim, Begins, At, Continues, cluster, config
<1>6. CASE SetFlag
  BY <1>6 DEF PatchInv, SetFlag, SetKey, At, Continues, cluster, Done, Command
<1>7. CASE DeleteKills
  <2>1. UNCHANGED <<keys, patched, initBlock>> /\ pc' = "idle" /\ ~Done /\ Command.op = "delete"
    BY <1>7 DEF DeleteKills, NotFound, Deleted, Kill, At, Ends, Goto, cluster, config
  <2> QED
    BY <1>1, <2>1
<1>8. CASE Unblock
  BY <1>8 DEF PatchInv, Unblock, SetKey, Begins, At, cluster, Done, Command
<1>9. CASE RecoverFinds \/ Verify
  BY <1>2, <1>9 DEF RecoverFinds, Verify, Begins, At, Continues, cluster, config
<1>10. CASE RecoverEnds \/ VerifyEnds \/ TimesOut
  BY <1>1, <1>10 DEF RecoverEnds, VerifyEnds, TimesOut, Ends, Goto, At, cluster, config
<1>11. CASE LookupRole \/ RoleFinds
  BY <1>2, <1>11 DEF LookupRole, RoleFinds, Roles, Begins, At, Continues, cluster, config
<1>12. CASE KillFinds
  <2>1. ~Done /\ Command.op # "prepare" /\ UNCHANGED <<script, step>>
    BY <1>12 DEF KillFinds, Begins, At
  <2> QED
    BY <1>2, <1>12, <2>1 DEF KillFinds, cluster, config
<1>13. CASE KillNext
  <2>1. ~Done /\ Command.op # "prepare"
    BY <1>13 DEF PodBase, CommandAt, Killing, KillNext
  <2>2. UNCHANGED <<keys, patched, initBlock>>
    BY <1>13 DEF KillNext, NotFound, Deleted, Kill, cluster, config
  <2>3. pc' = "idle" \/ UNCHANGED <<script, step>>
    BY <1>13 DEF KillNext, NotFound, Ends, Goto, Continues
  <2> QED
    BY <1>1, <1>2, <2>1, <2>2, <2>3
<1>14. CASE Panics
  BY <1>1, <1>14 DEF Panics, Goto, cluster, config
<1>15. CASE \E p \in Pods : PodStep(p)
  BY <1>15 DEF PatchInv, PodStep, Terminated, Created, Started, Readied, config, command, Done, Command
<1>16. CASE \E b \in Brokers : RollingUpdate(b) \/ Elected(b)
  BY <1>1, <1>16 DEF RollingUpdate, Kill, Elected, config, command
<1>17. CASE UNCHANGED vars
  BY <1>1, <1>17 DEF vars, cluster, config, command
<1> QED
  BY <1>3, <1>4, <1>5, <1>6, <1>7, <1>8, <1>9, <1>10, <1>11, <1>12, <1>13, <1>14, <1>15, <1>16, <1>17
     DEF Next, CommandStep, Finished

\* A deleted pod is no reason for a lost broker to come back.
LEMMA KillKeepsLost ==
  ASSUME ClusterTyped, NEW p \in Pods, NEW grace \in BOOLEAN, Deleted(p, grace),
         NEW b \in Brokers,
         /\ pod[b] \in {"terminating", "absent", "pending"}
         /\ pod[b] = "pending" => b \in initBlock
         /\ b \in data => pod[b] = "terminating" /\ b \in dropped
  PROVE  /\ pod'[b] \in {"terminating", "absent", "pending"}
         /\ pod'[b] = "pending" => b \in initBlock'
         /\ b \in data' => pod'[b] = "terminating" /\ b \in dropped'
<1>1. b \in Pods
  BY DEF Pods
<1>2. CASE UNCHANGED cluster
  BY <1>2 DEF cluster
<1>3. CASE Kill(p, grace) /\ p = b
  BY <1>1, <1>3 DEF ClusterTyped, Kill, Gone
<1>4. CASE Kill(p, grace) /\ p # b
  BY <1>1, <1>4 DEF ClusterTyped, Kill, Gone
<1> QED
  BY <1>2, <1>3, <1>4 DEF Deleted

LEMMA LostKept == LostBase /\ [Next]_vars => LostInv'
<1> SUFFICES ASSUME LostBase, [Next]_vars PROVE LostInv'
  OBVIOUS
<1>1. PodBase /\ PatchInv /\ LostInv /\ ClusterTyped /\ simulated \subseteq Brokers
  BY DEF LostBase, PodBase, ConfigTyped
<1>2. ASSUME UNCHANGED <<cluster, patched, flag, simulated>> PROVE LostInv'
  BY <1>1, <1>2 DEF LostInv, cluster
<1>3. CASE Prepare \/ DeleteFinds \/ RecoverFinds \/ RecoverEnds \/ Verify \/ VerifyEnds
           \/ TimesOut \/ Panics
  BY <1>2, <1>3 DEF Prepare, DeleteFinds, RecoverFinds, RecoverEnds, Verify, VerifyEnds,
                    TimesOut, Panics, Continues, config
<1>4. CASE LookupRole \/ RoleFinds \/ KillFinds
  BY <1>2, <1>4 DEF LookupRole, RoleFinds, KillFinds, Continues, config
<1>5. CASE Patch
  BY <1>1, <1>5 DEF LostInv, Patch, cluster
<1>6. CASE DeleteClaim
  BY <1>1, <1>6 DEF LostInv, DeleteClaim, Continues, config
<1>7. CASE SetFlag
  BY <1>1, <1>7 DEF LostInv, SetFlag, SetKey, Continues, cluster
<1>8. CASE Unblock
  BY <1>1, <1>8 DEF LostInv, Unblock, SetKey, cluster
<1>9. CASE DeleteKills
  <2>1. CASE NotFound(target)
    BY <1>2, <2>1 DEF NotFound, config
  <2>2. CASE /\ Deleted(target, TRUE)
             /\ simulated' = simulated \cup ({target} \cap dropped \cap flag)
             /\ UNCHANGED config
    <3>1. target \in Brokers /\ target \in Pods /\ ~Done /\ Command.op = "delete"
      BY <1>1, <1>9 DEF PodBase, CommandAt, DeleteKills, At, Pods
    <3>2. ASSUME NEW b \in simulated
          PROVE  /\ pod'[b] \in {"terminating", "absent", "pending"}
                 /\ pod'[b] = "pending" => b \in initBlock'
                 /\ b \in data' => pod'[b] = "terminating" /\ b \in dropped'
      BY <1>1, <2>2, <3>1, KillKeepsLost DEF LostInv
    <3>3. target \in dropped => pod'[target] = "terminating" /\ target \in dropped'
      BY <1>1, <2>2, <3>1 DEF Deleted, Kill, ClusterTyped, cluster
    <3>4. target \in flag => patched
      BY <1>1, <3>1 DEF PodBase, ConfigTyped, PatchInv
    <3> QED
      BY <1>1, <2>2, <3>2, <3>3, <3>4 DEF LostInv, config
  <2> QED
    BY <1>9, <2>1, <2>2 DEF DeleteKills
<1>10. CASE KillNext
  <2>1. CASE NotFound(Head(todo))
    BY <1>2, <2>1 DEF NotFound, config
  <2>2. CASE Deleted(Head(todo), Command.grace) /\ UNCHANGED <<simulated, config>>
    <3>1. Head(todo) \in Pods /\ Command.grace \in BOOLEAN
      <4>1. todo \in Seq(Pods) /\ todo # <<>> /\ CommandTyped /\ ~Done
        BY <1>1, <1>10 DEF PodBase, CommandTyped, CommandAt, KillNext
      <4> QED
        BY <4>1, CurrentCommand DEF Commands
    <3>2. ASSUME NEW b \in simulated
          PROVE  /\ pod'[b] \in {"terminating", "absent", "pending"}
                 /\ pod'[b] = "pending" => b \in initBlock'
                 /\ b \in data' => pod'[b] = "terminating" /\ b \in dropped'
      BY <1>1, <2>2, <3>1, KillKeepsLost DEF LostInv
    <3> QED
      BY <1>1, <2>2, <3>2 DEF LostInv, config
  <2> QED
    BY <1>10, <2>1, <2>2 DEF KillNext, Continues
<1>11. CASE \E p \in Pods : PodStep(p)
  <2> PICK p \in Pods : PodStep(p)
    BY <1>11
  <2>1. UNCHANGED <<config, simulated>> /\ \A b \in simulated : b \in Pods
    BY <1>1 DEF PodStep, Terminated, Created, Started, Readied, Pods
  <2>2. CASE Terminated(p)
    BY <1>1, <2>1, <2>2 DEF LostInv, ClusterTyped, Terminated, Gone, config
  <2>3. CASE Created(p)
    BY <1>1, <2>1, <2>3 DEF LostInv, ClusterTyped, Created, config
  <2>4. CASE Started(p)
    <3>1. p \notin simulated
      BY <1>1, <2>4 DEF LostInv, Started, Unblocked
    <3> QED
      BY <1>1, <2>1, <2>4, <3>1 DEF LostInv, ClusterTyped, Started, config
  <2>5. CASE Readied(p)
    <3>1. p \notin simulated
      BY <1>1, <2>5 DEF LostInv, Readied
    <3> QED
      BY <1>1, <2>1, <2>5, <3>1 DEF LostInv, ClusterTyped, Readied, config
  <2> QED
    BY <2>2, <2>3, <2>4, <2>5 DEF PodStep
<1>12. CASE \E b \in Brokers : RollingUpdate(b)
  <2>1. PICK a \in Brokers : RollingUpdate(a)
    BY <1>12
  <2>2. simulated = {}
    BY <1>1, <2>1 DEF LostInv, RollingUpdate
  <2> QED
    BY <2>1, <2>2 DEF LostInv, RollingUpdate
<1>13. CASE \E b \in Brokers : Elected(b)
  BY <1>1, <1>13 DEF LostInv, Elected, config
<1>14. CASE UNCHANGED vars
  BY <1>2, <1>14 DEF vars, config
<1> QED
  BY <1>3, <1>4, <1>5, <1>6, <1>7, <1>8, <1>9, <1>10, <1>11, <1>12, <1>13, <1>14
     DEF Next, CommandStep, Finished

LEMMA LostInvariant == Spec => []LostBase
<1>1. Init => LostBase
  BY InitBase DEF Init, LostBase, PatchInv, LostInv
<1>2. LostBase /\ [Next]_vars => LostBase'
  BY BaseKept, PatchKept, LostKept DEF LostBase
<1> QED
  BY <1>1, <1>2, PTL DEF Spec

\* Whatever commands, pods and kubernetes do, the state has its types.
THEOREM PodTypes == Spec => []TypeOK
<1>1. LostBase => TypeOK
  BY BaseTypes DEF LostBase
<1> QED
  BY <1>1, LostInvariant, PTL

\* A broker whose loss "dataloss delete" has brought about stays down, without
\* its data, until "dataloss recover": in every experiment, with and without
\* pauses, for any number of brokers.
THEOREM LostBrokersStayDown == Spec => []LostStaysDown
<1>1. LostBase => LostStaysDown
  BY DEF LostBase, LostInv, LostStaysDown
<1> QED
  BY <1>1, LostInvariant, PTL

-----------------------------------------------------------------------------
(* A node id finds its pod.                                                *)

\* With up to ten brokers the index is the node id if all pods are there.
LEMMA PlaceOfNode ==
  ASSUME N <= 10, ListedBrokers = Brokers, NEW p \in Brokers
  PROVE  Place(p) = p
<1>1. Brokers \subseteq 0..9 /\ p \in 0..(N - 1)
  BY PodAssumption DEF Brokers
<1>2. {q \in Brokers : Alphabetical(q, p)} = 0..(p - 1)
  <2>1. \A q \in Brokers : Alphabetical(q, p) <=> q < p
    BY <1>1, OneDigit
  <2> QED
    BY <1>1, <2>1, PodAssumption DEF Brokers
<1>3. Cardinality(0..(p - 1)) = p
  BY <1>1, PodAssumption, FS_Interval
<1> QED
  BY <1>2, <1>3 DEF Place

\* With an eleventh broker zeebe-10 is listed before zeebe-2: the index is not
\* the node id any more.
LEMMA PlacesShift ==
  ASSUME N = 11, ListedBrokers = Brokers
  PROVE  ~ Found(2, 2)
<1>1. {q \in Brokers : Alphabetical(q, 2)} = {0, 1, 10}
  <2>1. \A q \in 0..10 : Alphabetical(q, 2) <=> q \in {0, 1, 10}
    BY NamesInOrder DEF Before, First, Size
  <2> QED
    BY <2>1 DEF Brokers
<1>2. Cardinality({0, 1, 10}) = 3
  <2>1. IsFiniteSet({0}) /\ Cardinality({0}) = 1
    BY FS_Singleton
  <2>2. IsFiniteSet({0} \cup {1}) /\ Cardinality({0} \cup {1}) = 2
    BY <2>1, FS_AddElement
  <2>3. Cardinality(({0} \cup {1}) \cup {10}) = 3
    BY <2>2, FS_AddElement
  <2>4. ({0} \cup {1}) \cup {10} = {0, 1, 10}
    OBVIOUS
  <2> QED
    BY <2>3, <2>4
<1> QED
  BY <1>1, <1>2 DEF Found, Place

\* With up to ten brokers, an index finds the pod of that ordinal if and only if
\* the pods up to it exist, and otherwise a pod of a higher ordinal.
LEMMA IndexShifts ==
  ASSUME N <= 10, NEW id \in Brokers, NEW p \in Brokers, Found(id, p)
  PROVE  p >= id /\ (p = id <=> 0..id \subseteq ListedBrokers)
<1> DEFINE Lower == {q \in ListedBrokers : q < p}
<1>1. Brokers \subseteq 0..9 /\ ListedBrokers \subseteq Brokers /\ p \in ListedBrokers
  BY PodAssumption DEF Brokers, ListedBrokers, Found
<1>2. Cardinality(Lower) = id
  <2>1. {q \in ListedBrokers : Alphabetical(q, p)} = Lower
    BY <1>1, OneDigit
  <2> QED
    BY <2>1 DEF Found, Place
<1>3. Lower \subseteq 0..(p - 1) /\ p \in 0..9 /\ id \in 0..9
  <2>1. p \in 0..9 /\ id \in 0..9 /\ \A q \in ListedBrokers : q \in 0..9
    BY <1>1
  <2> QED
    BY <2>1
<1>4. IsFiniteSet(0..(p - 1)) /\ Cardinality(0..(p - 1)) = p
  <2> DEFINE last == p - 1
  <2>1. last \in Int /\ 0 \in Int /\ p = (IF 0 > last THEN 0 ELSE last - 0 + 1)
    BY <1>3
  <2> HIDE DEF last
  <2>2. IsFiniteSet(0..last) /\ Cardinality(0..last) = IF 0 > last THEN 0 ELSE last - 0 + 1
    BY <2>1, FS_Interval
  <2> QED
    BY <2>1, <2>2 DEF last
<1> HIDE DEF Lower
<1>5. id <= p /\ (id = p => Lower = 0..(p - 1))
  <2>1. Cardinality(Lower) <= p /\ (Cardinality(Lower) = p => Lower = 0..(p - 1))
    BY <1>3, <1>4, FS_Subset
  <2> QED
    BY <1>2, <2>1
<1>6. CASE p = id
  BY <1>1, <1>3, <1>5, <1>6 DEF Lower
<1>7. CASE p # id
  <2> SUFFICES ASSUME 0..id \subseteq ListedBrokers PROVE FALSE
    BY <1>3, <1>5, <1>7
  <2>1. 0..id \subseteq Lower
    BY <1>3, <1>5, <1>7 DEF Lower
  <2>2. IsFiniteSet(Lower)
    BY <1>3, <1>4, FS_Subset
  <2>3. Cardinality(0..id) = id + 1
    BY <1>3, FS_Interval
  <2> QED
    BY <1>2, <1>3, <2>1, <2>2, <2>3, FS_Subset
<1> QED
  BY <1>6, <1>7

\* The list has a pod at every index below the number of pods, so that with the
\* pods up to a node id one is found for it.
LEMMA IndexFinds ==
  ASSUME NEW id \in Brokers, 0..id \subseteq ListedBrokers
  PROVE  \E p \in Brokers : Found(id, p)
<1>1. ListedBrokers \in SUBSET Brokers /\ id \in Nat
  BY DEF ListedBrokers, Brokers
<1>2. IsFiniteSet(ListedBrokers) /\ Cardinality(ListedBrokers) \in Nat
  BY <1>1, BrokerSets
<1>3. Cardinality(0..id) = id + 1 /\ Cardinality(0..id) <= Cardinality(ListedBrokers)
  BY <1>1, <1>2, FS_Interval, FS_Subset
<1>4. id \in 0..(Cardinality(ListedBrokers) - 1)
  BY <1>1, <1>2, <1>3
<1>5. PICK p \in ListedBrokers : Place(p) = id
  BY <1>4, PlacesTaken
<1> QED
  BY <1>1, <1>5 DEF Found

\* A command that has asked for a role knows a broker.
RoleInv == pc = "find" /\ Command.op \in Roles => target \in Brokers

LEMMA RoleKept ==
  ASSUME RoleInv, [Next]_vars
  PROVE  RoleInv'
<1>1. ASSUME pc' # "find" PROVE RoleInv'
  BY <1>1 DEF RoleInv
<1>2. ASSUME UNCHANGED <<script, step>>, Command.op \notin Roles PROVE RoleInv'
  BY <1>2 DEF RoleInv, Command
<1>3. CASE Prepare \/ Unblock
  BY <1>2, <1>3 DEF Prepare, Unblock, Begins, At, Roles
<1>4. CASE Patch \/ RecoverEnds \/ VerifyEnds \/ TimesOut \/ Panics
  BY <1>1, <1>4 DEF Patch, RecoverEnds, VerifyEnds, TimesOut, Panics, Ends, Goto
<1>5. CASE DeleteFinds \/ DeleteClaim \/ SetFlag \/ DeleteKills
  BY <1>1, <1>5 DEF DeleteFinds, DeleteClaim, SetFlag, DeleteKills, NotFound, Ends, Goto
<1>6. CASE RecoverFinds \/ Verify \/ KillFinds
  BY <1>1, <1>6 DEF RecoverFinds, Verify, KillFinds, Goto
<1>7. CASE LookupRole
  BY <1>7 DEF RoleInv, LookupRole, Goto
<1>8. CASE RoleFinds
  BY <1>1, <1>8 DEF RoleFinds, Goto
<1>9. CASE KillNext
  BY <1>1, <1>9 DEF KillNext, NotFound, Ends, Goto
<1>10. CASE (\E p \in Pods : PodStep(p)) \/ (\E b \in Brokers : RollingUpdate(b) \/ Elected(b))
  BY <1>10 DEF RoleInv, PodStep, Terminated, Created, Started, Readied, RollingUpdate, Elected,
               command, Command
<1>11. CASE UNCHANGED vars
  BY <1>11 DEF RoleInv, vars, command, Command
<1> QED
  BY <1>3, <1>4, <1>5, <1>6, <1>7, <1>8, <1>9, <1>10, <1>11 DEF Next, CommandStep, Finished

\* A restart or terminate of the leader or of a follower takes the node id for
\* an index: with up to ten brokers it finds the pod of the broker that the
\* topology named exactly if the pods up to it exist when it reads the list, and
\* otherwise none or one of a higher ordinal; in every experiment, whatever
\* restarts and is executed again in between.
THEOREM RolesFindTheirPods ==
  ASSUME N <= 10
  PROVE  Spec => RoleFound
<1>1. Init => RoleInv
  BY DEF Init, RoleInv
<1>2. RoleInv /\ [Next]_vars => RoleInv'
  BY RoleKept
<1>3. RoleInv /\ [Next]_vars =>
        [RoleFinds =>
           /\ todo' = <<target>> <=> 0..target \subseteq ListedBrokers
           /\ todo' # <<>> => Head(todo') >= target]_vars
  <2> SUFFICES ASSUME RoleInv, RoleFinds
               PROVE  /\ todo' = <<target>> <=> 0..target \subseteq ListedBrokers
                      /\ todo' # <<>> => Head(todo') >= target
    OBVIOUS
  <2>1. target \in Brokers
    BY DEF RoleInv, RoleFinds, At
  <2>2. CASE \E p \in Brokers : Found(target, p) /\ Goto("kill", target, <<p>>)
    <3>1. PICK p \in Brokers : Found(target, p) /\ Goto("kill", target, <<p>>)
      BY <2>2
    <3>2. p >= target /\ (p = target <=> 0..target \subseteq ListedBrokers)
      BY <2>1, <3>1, IndexShifts
    <3> QED
      BY <3>1, <3>2 DEF Goto
  <2>3. CASE ~(\E p \in Brokers : Found(target, p)) /\ Goto("idle", NoPod, <<>>)
    BY <2>1, <2>3, IndexFinds DEF Goto
  <2> QED
    BY <2>2, <2>3 DEF RoleFinds
<1> QED
  BY <1>1, <1>2, <1>3, PTL DEF Spec, RoleFound

-----------------------------------------------------------------------------
(* One loss at a time.                                                     *)

\* The broker that the current command deletes.
Deleting == IF ~Done /\ Command.op = "delete" THEN {Command.id} ELSE {}

\* Brokers that have lost their data or are about to, with their claim.
Hit == (Brokers \ data) \cup dropped

\* At most one broker is hit.  A claim is in deletion while its pod terminates or
\* before "dataloss delete" has got there, and that command takes the one broker
\* that is hit, if there is one.
HitInv ==
  /\ \A a, b \in Hit : a = b
  /\ \A b \in Brokers : pod[b] = "ready" => b \in data
  /\ \A b \in dropped : pod[b] = "terminating" \/ b \in Deleting
  /\ pc # "idle" /\ Command.op = "delete" => Hit \subseteq {target} /\ target = Command.id

\* A dataloss delete begins only when all pods are there and the brokers but the
\* one it names are ready: what pauses and probes before it are for.
CarefulDelete == DeleteFinds => OthersReady(Command.id)

\* Then nobody else is hit, and the pod that is found is that of the broker.
LEMMA DeleteFindsItsBroker ==
  ASSUME N <= 10, PodBase, HitInv, ~Done, Command.op = "delete", OthersReady(Command.id),
         NEW p \in Brokers, Found(Command.id, p)
  PROVE  Hit \subseteq {Command.id} /\ p = Command.id
<1>1. CommandTyped /\ Command.id \in Brokers /\ Deleting = {Command.id}
  BY CurrentCommand DEF PodBase, Commands, Deleting
<1>2. Hit \subseteq {Command.id}
  BY <1>1 DEF Hit, HitInv, OthersReady, PodBase, ClusterTyped
<1>3. ListedBrokers = Brokers
  BY DEF OthersReady, ListedBrokers
<1> QED
  BY <1>2, <1>3, PlaceOfNode DEF Found

\* The pods move, and nobody else is hit.
LEMMA HitMoves ==
  ASSUME HitInv, UNCHANGED command, Hit' \subseteq Hit,
         \A b \in Brokers : pod'[b] = "ready" => b \in data',
         \A b \in dropped' : pod'[b] = "terminating" \/ b \in Deleting
  PROVE  HitInv'
<1>1. Deleting' = Deleting /\ Done' = Done /\ Command' = Command
  BY DEF Deleting, command, Done, Command
<1>2. pc' = pc /\ target' = target
  BY DEF command
<1> QED
  BY <1>1, <1>2 DEF HitInv

\* A command moves on, the pods and claims stay as they are.
LEMMA CommandHits ==
  ASSUME HitInv, UNCHANGED <<cluster, script, step>>,
         pc' # "idle" /\ Command.op = "delete" => Hit \subseteq {target'} /\ target' = Command.id
  PROVE  HitInv'
<1>1. Deleting' = Deleting /\ Command' = Command /\ Hit' = Hit
  BY DEF Deleting, Done, Command, Hit, cluster
<1> QED
  BY <1>1 DEF HitInv, cluster

\* A command ends: the next one finds the same brokers hit.
LEMMA EndKeepsHit ==
  ASSUME HitInv, pc' = "idle", UNCHANGED script, Hit' \subseteq Hit,
         \A b \in Brokers : pod'[b] = "ready" => b \in data',
         \A b \in dropped' : pod'[b] = "terminating" \/ (b \in Deleting /\ step' = step)
  PROVE  HitInv'
<1>1. step' = step => Deleting' = Deleting
  BY DEF Deleting, Done, Command
<1> QED
  BY <1>1 DEF HitInv

LEMMA HitsKept ==
  ASSUME N <= 10, PodBase, HitInv, [Next]_vars, [CarefulDelete]_vars
  PROVE  HitInv'
<1>1. ClusterTyped /\ ConfigTyped /\ CommandTyped /\ CommandAt
  BY DEF PodBase
<1>2. ASSUME NEW p \in Pods, NEW grace \in BOOLEAN, Deleted(p, grace)
      PROVE  /\ Hit' \subseteq Hit
             /\ \A b \in Brokers : pod'[b] = "ready" => b \in data'
             /\ \A b \in dropped' : b \in dropped /\ (pod[b] = "terminating" \/ b = p => pod'[b] = "terminating")
  <2>1. CASE UNCHANGED cluster /\ pod[p] = "terminating"
    BY <2>1 DEF HitInv, Hit, cluster
  <2>2. CASE Kill(p, TRUE)
    BY <1>1, <2>2 DEF HitInv, ClusterTyped, Hit, Kill, Pods
  <2>3. CASE Kill(p, FALSE)
    BY <1>1, <2>3 DEF HitInv, ClusterTyped, Hit, Kill, Gone, Pods
  <2> QED
    BY <1>2, <2>1, <2>2, <2>3 DEF Deleted
<1>3. ASSUME UNCHANGED <<cluster, script>>, ~Done, pc' = "idle",
             step' = step \/ Command.op # "delete"
      PROVE  HitInv'
  <2>1. Hit' \subseteq Hit /\ \A b \in Brokers : pod'[b] = "ready" => b \in data'
    BY <1>3 DEF HitInv, Hit, cluster
  <2>2. \A b \in dropped' : pod'[b] = "terminating" \/ (b \in Deleting /\ step' = step)
    BY <1>3 DEF HitInv, Deleting, cluster
  <2> QED
    BY <1>3, <2>1, <2>2, EndKeepsHit
<1>4. CASE Prepare \/ Unblock
  <2>1. Command.op # "delete" /\ UNCHANGED <<cluster, script, step>>
    BY <1>4 DEF Prepare, Unblock, Begins, At
  <2> QED
    BY <2>1, CommandHits
<1>5. CASE Patch \/ RecoverEnds \/ VerifyEnds
  <2>1. UNCHANGED <<cluster, script>> /\ ~Done /\ pc' = "idle" /\ Command.op # "delete"
    BY <1>5 DEF Patch, RecoverEnds, VerifyEnds, At, Ends, Goto
  <2> QED
    BY <1>3, <2>1
<1>6. CASE TimesOut \/ Panics
  BY <1>3, <1>6 DEF TimesOut, Panics, At, Goto
<1>7. CASE DeleteFinds
  <2>1. PICK p \in Brokers : Found(Command.id, p) /\ Goto("claim", p, <<>>)
    BY <1>7 DEF DeleteFinds
  <2>2. ~Done /\ Command.op = "delete" /\ UNCHANGED <<cluster, script, step>>
    BY <1>7 DEF DeleteFinds, Begins, At
  <2>3. pc' # pc
    BY <1>7, <2>1 DEF DeleteFinds, Begins, At, Goto
  <2>4. OthersReady(Command.id)
    BY <1>7, <2>3 DEF CarefulDelete, vars, command
  <2>5. Hit \subseteq {Command.id} /\ p = Command.id
    BY <2>1, <2>2, <2>4, DeleteFindsItsBroker
  <2> QED
    BY <2>1, <2>2, <2>5, CommandHits DEF Goto
<1>8. CASE DeleteClaim
  <2>1. /\ ~Done /\ Command.op = "delete" /\ Hit \subseteq {target} /\ target = Command.id
        /\ UNCHANGED <<script, step, pod, data>> /\ target' = target
        /\ dropped' \subseteq dropped \cup {target}
    BY <1>8 DEF HitInv, DeleteClaim, At, Goto, Continues
  <2>2. Deleting' = Deleting /\ Deleting = {target} /\ Command' = Command
    BY <2>1 DEF Deleting, Done, Command
  <2>3. Hit' \subseteq {target}
    BY <2>1 DEF Hit
  <2> QED
    BY <2>1, <2>2, <2>3 DEF HitInv
<1>9. CASE SetFlag
  <2>1. /\ Hit \subseteq {target} /\ target = Command.id /\ target' = target
        /\ UNCHANGED <<script, step, cluster>>
    BY <1>9 DEF HitInv, SetFlag, At, Goto, Continues
  <2> QED
    BY <2>1, CommandHits
<1>10. CASE DeleteKills
  <2>1. /\ ~Done /\ Command.op = "delete" /\ target \in Pods
        /\ target = Command.id /\ Deleting = {target}
    BY <1>1, <1>10 DEF HitInv, CommandAt, DeleteKills, At, Pods, Deleting
  <2>2. CASE NotFound(target)
    BY <1>3, <2>1, <2>2 DEF NotFound, Goto
  <2>3. CASE Deleted(target, TRUE) /\ Ends
    <3>1. UNCHANGED script /\ pc' = "idle"
      BY <2>3 DEF Ends, Goto
    <3>2. \A b \in dropped' : pod'[b] = "terminating" \/ (b \in Deleting /\ step' = step)
      BY <1>2, <2>1, <2>3 DEF HitInv
    <3>3. Hit' \subseteq Hit /\ \A b \in Brokers : pod'[b] = "ready" => b \in data'
      BY <1>2, <2>1, <2>3
    <3> QED
      BY <3>1, <3>2, <3>3, EndKeepsHit
  <2> QED
    BY <1>10, <2>2, <2>3 DEF DeleteKills
<1>11. CASE RecoverFinds \/ Verify \/ LookupRole \/ RoleFinds
  <2>1. Command.op # "delete" /\ UNCHANGED <<cluster, script, step>>
    BY <1>11 DEF RecoverFinds, Verify, LookupRole, RoleFinds, Roles, Begins, At, Continues
  <2> QED
    BY <2>1, CommandHits
<1>12. CASE KillFinds
  <2>1. Command.op # "delete" /\ UNCHANGED <<cluster, script, step>>
    BY <1>12 DEF KillFinds, Begins, At
  <2> QED
    BY <2>1, CommandHits
<1>13. CASE KillNext
  <2>1. /\ ~Done /\ pc = "kill" /\ Command.op \in Killing /\ Command.grace \in BOOLEAN
        /\ Head(todo) \in Pods /\ Command.op # "delete" /\ Deleting = {}
    <3>1. ~Done /\ pc = "kill" /\ Command.op \in Killing /\ todo \in Seq(Pods) /\ todo # <<>>
      BY <1>1, <1>13 DEF CommandTyped, CommandAt, KillNext
    <3> QED
      BY <1>1, <3>1, CurrentCommand DEF Commands, Killing, Deleting
  <2>2. CASE NotFound(Head(todo))
    BY <1>3, <2>1, <2>2 DEF NotFound, Goto
  <2>3. CASE Deleted(Head(todo), Command.grace) /\ UNCHANGED config
    <3>1. /\ Hit' \subseteq Hit
          /\ \A b \in Brokers : pod'[b] = "ready" => b \in data'
          /\ \A b \in dropped' : pod'[b] = "terminating"
      BY <1>2, <2>1, <2>3 DEF HitInv
    <3>2. CASE Ends
      <4>1. pc' = "idle" /\ UNCHANGED script
        BY <3>2 DEF Ends, Goto
      <4> QED
        BY <3>1, <4>1, EndKeepsHit
    <3>3. CASE Continues
      <4>1. Command' = Command /\ Deleting' = Deleting
        BY <3>3 DEF Continues, Done, Command, Deleting
      <4> QED
        BY <2>1, <3>1, <4>1 DEF HitInv
    <3> QED
      BY <1>13, <2>3, <3>2, <3>3, <2>1 DEF KillNext, NotFound, Deleted
  <2> QED
    BY <1>13, <2>2, <2>3 DEF KillNext
<1>14. CASE \E p \in Pods : PodStep(p)
  <2> PICK p \in Pods : PodStep(p)
    BY <1>14
  <2>1. UNCHANGED command
    BY DEF PodStep, Terminated, Created, Started, Readied
  <2>2. /\ Hit' \subseteq Hit
        /\ \A b \in Brokers : pod'[b] = "ready" => b \in data'
        /\ \A b \in dropped' : pod'[b] = "terminating" \/ b \in Deleting
    <3>1. CASE Terminated(p)
      BY <1>1, <3>1 DEF HitInv, ClusterTyped, Hit, Terminated, Gone, Pods
    <3>2. CASE Created(p)
      BY <1>1, <3>2 DEF HitInv, ClusterTyped, Hit, Created, Pods
    <3>3. CASE Started(p)
      BY <1>1, <3>3 DEF HitInv, ClusterTyped, Hit, Started, Pods
    <3>4. CASE Readied(p)
      BY <1>1, <3>4 DEF HitInv, ClusterTyped, Hit, Readied, Pods
    <3> QED
      BY <3>1, <3>2, <3>3, <3>4 DEF PodStep
  <2> QED
    BY <2>1, <2>2, HitMoves
<1>15. CASE \E b \in Brokers : RollingUpdate(b) \/ Elected(b)
  <2> PICK b \in Brokers : RollingUpdate(b) \/ Elected(b)
    BY <1>15
  <2>1. UNCHANGED command
    BY DEF RollingUpdate, Elected
  <2>2. /\ Hit' \subseteq Hit
        /\ \A a \in Brokers : pod'[a] = "ready" => a \in data'
        /\ \A a \in dropped' : pod'[a] = "terminating" \/ a \in Deleting
    BY <1>1 DEF HitInv, ClusterTyped, Hit, RollingUpdate, Elected, Kill, Pods
  <2> QED
    BY <2>1, <2>2, HitMoves
<1>16. CASE UNCHANGED vars
  BY <1>16, CommandHits DEF HitInv, vars, command
<1> QED
  BY <1>4, <1>5, <1>6, <1>7, <1>8, <1>9, <1>10, <1>11, <1>12, <1>13, <1>14, <1>15, <1>16
     DEF Next, CommandStep, Finished

\* "Zeebe should be able to handle data loss of one broker at a time."
\* (broker-dataloss/experiment.json): with up to ten brokers no two of them are
\* without their data, in every experiment, as long as each execution of
\* dataloss delete, the first and every repeated one, begins with all pods there
\* and the other brokers ready.  Nothing is asked of what other commands find,
\* of what panics in between, or of flags and keys.
THEOREM LossesComeOneByOne ==
  ASSUME N <= 10
  PROVE  Spec /\ [][CarefulDelete]_vars => []OneLossAtATime
<1>1. Init => HitInv
  BY DEF Init, HitInv, Hit, Deleting
<1>2. LostBase /\ HitInv /\ [Next]_vars /\ [CarefulDelete]_vars => HitInv'
  BY HitsKept DEF LostBase
<1>3. HitInv => OneLossAtATime
  <2> SUFFICES ASSUME HitInv PROVE OneLossAtATime
    OBVIOUS
  <2>1. \A a, b \in Brokers \ data : a = b
    BY DEF HitInv, Hit
  <2>2. Cardinality({}) = 0
    BY FS_EmptySet
  <2>3. CASE Brokers \ data = {}
    BY <2>2, <2>3 DEF OneLossAtATime
  <2>4. CASE \E b \in Brokers \ data : TRUE
    <3>1. PICK b \in Brokers \ data : Brokers \ data = {b}
      BY <2>1, <2>4
    <3>2. Cardinality({b}) = 1
      BY FS_Singleton
    <3> QED
      BY <3>1, <3>2 DEF OneLossAtATime
  <2> QED
    BY <2>3, <2>4
<1> QED
  BY <1>1, <1>2, <1>3, LostInvariant, PTL DEF Spec

\* In particular with Pauses, as the run has them.
COROLLARY LossesComeOneByOneWithPauses ==
  ASSUME Pauses, N <= 10
  PROVE  Spec => []OneLossAtATime
<1>1. [Next]_vars => [CarefulDelete]_vars
  BY DEF CarefulDelete, DeleteFinds, Begins
<1> QED
  BY <1>1, LossesComeOneByOne, PTL DEF Spec

=============================================================================
