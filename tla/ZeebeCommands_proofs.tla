------------------------ MODULE ZeebeCommands_proofs ------------------------
(***************************************************************************)
(* A verification that reports success has seen what it says, and publish  *)
(* reaches the partition it is asked for: for any number of clients,       *)
(* partitions, instances and commands, and whatever fails, gets lost or is *)
(* added meanwhile.                                                        *)
(*                                                                         *)
(* Both are about the last step of a command and follow from what it has   *)
(* gathered before: CommandInv.  A verification has counted every instance *)
(* and every job once, although jobs time out and are given away again,    *)
(* and what it has seen stays true; a message about to be sent has a key   *)
(* for its partition.  That there is a key at all, and a first one, is a   *)
(* fact about remainders: KeysForPartitions.                               *)
(***************************************************************************)
EXTENDS ZeebeCommands, FiniteSetTheorems, WellFoundedInduction, TLAPS

\* A command at the step it has come to, and what it has seen.
CommandInv(x) ==
  /\ x.pc = "send" => x.op = "publish" /\ x.subject \in CorrelationCodes(x.n, x.count)
  /\ x.pc = "await" => x.op = "result" /\ x.subject \in Ids
  /\ x.pc = "complete" => x.op = "jobs" /\ x.subject \in Ids
  /\ x.op = "result" /\ x.pc # "idle" => x.seen = {}
  /\ x.op \in Verifications =>
       /\ x.count = Cardinality(x.seen)
       /\ \A i \in x.seen : instance[i].state # "none"
  /\ x.op = "jobs" => \A i \in x.seen : instance[i].state = "done"

CommandsInv == TypeOK /\ \A c \in Clients : CommandInv(client[c])

\* The part of TypeOK that is about zeebe.
ZeebeTyped ==
  /\ partitions \in AllPartitions /\ routing \in 0..partitions
  /\ up \subseteq 1..partitions /\ exporting \subseteq AllPartitions
  /\ instance \in [Ids -> [on : 0..partitions, waits : {"none", "job", "message"},
                           state : {"none", "waiting", "locked", "done"}]]
  /\ messages \subseteq AllPartitions \X Codes

\* An instance that was created stays created, a job that is done stays done.
Lasting ==
  \A i \in Ids :
    /\ instance[i].state # "none" => instance'[i].state # "none"
    /\ instance[i].state = "done" => instance'[i].state = "done"

-----------------------------------------------------------------------------
(* Keys.                                                                   *)

LEMMA LeastNumber ==
  ASSUME NEW S \in SUBSET Nat, S # {}
  PROVE  \E x \in S : \A y \in S : x <= y
<1> DEFINE R == {r \in Nat \X Nat : r[1] < r[2]}
<1>1. IsWellFoundedOn(R, Nat)
  BY NatLessThanWellFounded DEF OpToRel
<1>2. PICK x \in S : \A y \in S : ~ (<<y, x>> \in R)
  <2> HIDE DEF R
  <2> QED
    BY <1>1, WFMin, Zenon
<1>3. ASSUME NEW y \in S PROVE x <= y
  <2>1. <<y, x>> \in Nat \X Nat
    OBVIOUS
  <2>2. ~ (y < x)
    BY <1>2, <2>1
  <2> QED
    BY <2>2
<1> QED
  BY <1>3

LEMMA Remainders ==
  ASSUME NEW k \in Nat, NEW count \in Nat, NEW m \in 0..(count - 1)
  PROVE  (k * count + m) % count = m
OBVIOUS

\* The partition of a key is the one it was made with.
LEMMA PartitionOfKey ==
  ASSUME NEW i \in Ids, NEW p \in Nat
  PROVE  ExtractPartitionIdFromKey(KeyOf(i, p)) = p
<1> DEFINE b == 2^KeyBits
<1>1. b \in Nat /\ i \in Nat /\ i < b
  BY CommandsAssumption DEF Ids
<1>2. ExtractPartitionIdFromKey(KeyOf(i, p)) = (p * b + i) \div b
  BY DEF ExtractPartitionIdFromKey, KeyOf
<1> HIDE DEF b
<1>3. (p * b + i) \div b = p
  BY <1>1
<1> QED
  BY <1>2, <1>3

\* FindCorrelationKeyForPartition (internal/zeebe.go) succeeds for each of up
\* to 77 partitions and for no other: one of the 79 characters it tries is
\* mapped to the partition it is asked for.
THEOREM KeysForPartitions ==
  ASSUME NEW count \in Nat, NEW p \in Nat \ {0}
  PROVE  CorrelationCodes(p, count) # {} <=> p <= count /\ count < 78
<1>1. ASSUME p <= count, count < 78
      PROVE  \E code \in Codes : p = PartitionOfCode(code, count)
  <2> DEFINE T == {k \in Nat : k * count + (p - 1) >= 48}
  <2>1. 48 \in T
    BY <1>1
  <2>2. PICK k \in T : \A j \in T : k <= j
    <3>1. T \in SUBSET Nat /\ T # {}
      BY <2>1
    <3> HIDE DEF T
    <3> QED
      BY <3>1, LeastNumber
  <2>3. k \in Nat /\ k * count + (p - 1) >= 48
    OBVIOUS
  <2>4. k * count + (p - 1) <= 126
    <3>1. CASE k = 0
      BY <1>1, <3>1
    <3>2. CASE k # 0
      <4>1. k - 1 \in Nat /\ k - 1 \notin T
        BY <2>2, <2>3, <3>2
      <4>2. ~ ((k - 1) * count + (p - 1) >= 48)
        BY <4>1
      <4>3. (k - 1) * count = k * count - count
        BY <2>3
      <4> QED
        BY <1>1, <2>3, <4>2, <4>3
    <3> QED
      BY <3>1, <3>2
  <2>5. (k * count + (p - 1)) % count = p - 1
    <3>1. p - 1 \in 0..(count - 1)
      BY <1>1
    <3> HIDE DEF T
    <3> QED
      BY <2>3, <3>1, Remainders
  <2>6. k * count + (p - 1) \in Codes
    BY <2>3, <2>4 DEF Codes
  <2>7. p = PartitionOfCode(k * count + (p - 1), count)
    BY <2>5 DEF PartitionOfCode
  <2> QED
    BY <2>6, <2>7
<1> QED
  BY <1>1 DEF CorrelationCodes

\* The key it finds is one for the partition.
LEMMA FoundKey ==
  ASSUME NEW p, NEW count, CorrelationCodes(p, count) # {}
  PROVE  FindCorrelationKeyForPartition(p, count) \in CorrelationCodes(p, count)
<1>1. CorrelationCodes(p, count) \in SUBSET Nat
  BY DEF CorrelationCodes, Codes
<1>2. \E code \in CorrelationCodes(p, count) :
        \A other \in CorrelationCodes(p, count) : code <= other
  BY <1>1, LeastNumber
<1> QED
  BY <1>2 DEF FindCorrelationKeyForPartition

-----------------------------------------------------------------------------
(* Types.                                                                  *)

LEMMA InstanceSets ==
  ASSUME NEW S \in SUBSET Ids
  PROVE  IsFiniteSet(S) /\ Cardinality(S) \in Nat
<1>1. IsFiniteSet(Ids)
  BY CommandsAssumption, FS_Interval DEF Ids
<1> QED
  BY <1>1, FS_Subset, FS_CardinalityType

LEMMA OneMore ==
  ASSUME NEW S \in SUBSET Ids, NEW i \in Ids, i \notin S
  PROVE  Cardinality(S \cup {i}) = Cardinality(S) + 1
BY InstanceSets, FS_AddElement

LEMMA TypesSplit ==
  TypeOK <=> ZeebeTyped /\ client \in [Clients -> CommandStates] /\ started \in 0..MaxCommands
BY DEF TypeOK, ZeebeTyped

LEMMA IdleTyped == Idle \in CommandStates /\ CommandInv(Idle)
<1>1. Idle \in CommandStates
  BY DEF Idle, CommandStates
<1>2. CommandInv(Idle)
  BY DEF Idle, CommandInv, Verifications
<1> QED
  BY <1>1, <1>2

LEMMA EndsTyped ==
  ASSUME NEW ok \in BOOLEAN
  PROVE  [Idle EXCEPT !.ok = ok] \in CommandStates /\ CommandInv([Idle EXCEPT !.ok = ok])
<1>1. [Idle EXCEPT !.ok = ok] \in CommandStates
  BY DEF Idle, CommandStates
<1>2. CommandInv([Idle EXCEPT !.ok = ok])
  BY DEF Idle, CommandInv, Verifications
<1> QED
  BY <1>1, <1>2

LEMMA InitCommands == Init => CommandsInv
<1> SUFFICES ASSUME Init PROVE CommandsInv
  OBVIOUS
<1>1. ZeebeTyped
  <2>1. NoInstance \in [on : 0..partitions, waits : {"none", "job", "message"},
                        state : {"none", "waiting", "locked", "done"}]
    BY CommandsAssumption DEF Init, NoInstance, AllPartitions
  <2>2. routing \in 0..partitions /\ up \subseteq 1..partitions
    BY CommandsAssumption DEF Init, AllPartitions
  <2> QED
    BY <2>1, <2>2 DEF Init, ZeebeTyped
<1>2. client \in [Clients -> CommandStates] /\ \A c \in Clients : CommandInv(client[c])
  BY IdleTyped DEF Init
<1>3. started \in 0..MaxCommands
  BY CommandsAssumption DEF Init
<1> QED
  BY <1>1, <1>2, <1>3, TypesSplit DEF CommandsInv

-----------------------------------------------------------------------------
(* Zeebe moves on and the commands keep what they have seen.               *)

\* How messages are distributed is within the partitions there are.
LEMMA Distributed ==
  ASSUME ZeebeTyped
  PROVE  /\ Distribution \in 1..partitions /\ partitions \in 1..MaxPartitions
         /\ \A code \in Nat : PartitionOfCode(code, Distribution) \in 1..Distribution
<1>1. Distribution \in 1..partitions /\ partitions \in 1..MaxPartitions
  BY CommandsAssumption DEF ZeebeTyped, Distribution, AllPartitions
<1>2. \A code \in Nat : code % Distribution \in 0..(Distribution - 1)
  BY <1>1
<1> QED
  BY <1>1, <1>2 DEF PartitionOfCode

LEMMA CommandsKept ==
  ASSUME NEW x \in CommandStates, CommandInv(x), Lasting
  PROVE  CommandInv(x)'
BY DEF CommandStates, CommandInv, Lasting

LEMMA ZeebeMoves ==
  ASSUME CommandsInv, ZeebeTyped', Lasting, ZeebeStep
  PROVE  CommandsInv'
<1>1. ASSUME NEW c \in Clients PROVE CommandInv(client[c])'
  <2>1. PICK x \in CommandStates : x = client[c]
    BY DEF CommandsInv, TypeOK
  <2>2. CommandInv(x)
    BY <2>1 DEF CommandsInv
  <2>3. CommandInv(x)'
    BY <2>2, CommandsKept
  <2>4. x = client'[c]
    BY <2>1 DEF ZeebeStep
  <2> QED
    BY <2>3, <2>4
<1>2. TypeOK'
  BY DEF CommandsInv, ZeebeStep, TypeOK, ZeebeTyped
<1> QED
  BY <1>1, <1>2 DEF CommandsInv

LEMMA CommandMoves ==
  ASSUME CommandsInv, NEW c \in Clients, NEW x \in CommandStates, Become(c, x),
         ZeebeTyped', Lasting, CommandInv(x)', started' \in 0..MaxCommands
  PROVE  CommandsInv'
<1>1. /\ client' \in [Clients -> CommandStates] /\ client'[c] = x
      /\ \A d \in Clients : d # c => client'[d] = client[d]
  BY DEF CommandsInv, TypeOK, Become
<1>2. ASSUME NEW d \in Clients PROVE CommandInv(client[d])'
  <2>1. CASE d = c
    BY <1>1, <2>1
  <2>2. CASE d # c
    <3>1. PICK y \in CommandStates : y = client[d]
      BY DEF CommandsInv, TypeOK
    <3>2. CommandInv(y)
      BY <3>1 DEF CommandsInv
    <3>3. CommandInv(y)'
      BY <3>2, CommandsKept
    <3>4. y = client'[d]
      BY <1>1, <2>2, <3>1
    <3> QED
      BY <3>3, <3>4
  <2> QED
    BY <2>1, <2>2
<1>3. TypeOK'
  BY <1>1 DEF TypeOK, ZeebeTyped
<1> QED
  BY <1>2, <1>3 DEF CommandsInv

LEMMA ZeebeRests ==
  ASSUME TypeOK, UNCHANGED zeebe
  PROVE  ZeebeTyped' /\ Lasting
BY TypesSplit DEF ZeebeTyped, Lasting, zeebe

LEMMA PartitionSteps ==
  ASSUME CommandsInv, NEW p \in AllPartitions,
         Fails(p) \/ Recovers(p) \/ PartitionAdded \/ RoutingUpdated
  PROVE  CommandsInv'
<1>1. ZeebeTyped
  BY TypesSplit DEF CommandsInv
<1>2. Lasting
  BY DEF Fails, Recovers, PartitionAdded, RoutingUpdated, Lasting
<1>3. ZeebeStep
  BY DEF Fails, Recovers, PartitionAdded, RoutingUpdated
<1>4. ZeebeTyped'
  <2>1. CASE Fails(p) \/ Recovers(p)
    BY <1>1, <2>1 DEF ZeebeTyped, Fails, Recovers
  <2>2. CASE PartitionAdded
    <3>1. partitions' \in AllPartitions /\ routing' \in 0..partitions' /\ up' \subseteq 1..partitions'
      BY <1>1, <2>2, CommandsAssumption DEF ZeebeTyped, PartitionAdded, AllPartitions
    <3>2. 0..partitions \subseteq 0..partitions'
      BY <1>1, <2>2 DEF ZeebeTyped, PartitionAdded, AllPartitions
    <3>3. instance' \in [Ids -> [on : 0..partitions', waits : {"none", "job", "message"},
                                 state : {"none", "waiting", "locked", "done"}]]
      BY <1>1, <2>2, <3>2 DEF ZeebeTyped, PartitionAdded
    <3> QED
      BY <1>1, <2>2, <3>1, <3>3 DEF ZeebeTyped, PartitionAdded
  <2>3. CASE RoutingUpdated
    BY <1>1, <2>3 DEF ZeebeTyped, RoutingUpdated, AllPartitions
  <2> QED
    BY <2>1, <2>2, <2>3
<1> QED
  BY <1>2, <1>3, <1>4, ZeebeMoves

LEMMA InstanceSteps ==
  ASSUME CommandsInv, NEW i \in Ids, JobTimesOut(i) \/ Correlated(i)
  PROVE  CommandsInv'
<1>1. ZeebeTyped
  BY TypesSplit DEF CommandsInv
<1>2. Lasting
  BY <1>1 DEF ZeebeTyped, JobTimesOut, Correlated, Lasting
<1>3. ZeebeStep
  BY DEF JobTimesOut, Correlated
<1>4. ZeebeTyped'
  BY <1>1 DEF ZeebeTyped, JobTimesOut, Correlated
<1> QED
  BY <1>2, <1>3, <1>4, ZeebeMoves

-----------------------------------------------------------------------------
(* Steps of the commands.                                                  *)

\* One more answer: the same command with one more instance.
LEMMA AnswersMove ==
  ASSUME CommandsInv, NEW c \in Clients, NEW i \in Ids, NEW p \in Nat, Answered(c, i, p)
  PROVE  \E x \in CommandStates :
           /\ Become(c, x)
           /\ x.op = client[c].op /\ x.n = client[c].n
           /\ x.count = client[c].count + 1 /\ x.seen = client[c].seen \cup {i}
           /\ x.pc \in {"loop", "idle"} /\ (x.op = "result" => x.pc = "idle")
           /\ x.pc = "idle" =>
                /\ x.op = "creation" => x.n \in {0, p}
                /\ x.op \in {"count", "jobs"} => x.count >= x.n
<1> DEFINE x == [client[c] EXCEPT !.count = @ + 1, !.seen = @ \cup {i}, !.pc = "loop", !.subject = 0]
           enough == CASE x.op = "creation" -> x.n \in {0, ExtractPartitionIdFromKey(KeyOf(i, p))}
                       [] x.op = "result"   -> TRUE
                       [] OTHER             -> x.count >= x.n
           y == IF enough THEN [x EXCEPT !.pc = "idle", !.ok = TRUE] ELSE x
<1>1. client[c] \in CommandStates
  BY DEF CommandsInv, TypeOK
<1>2. x \in CommandStates /\ [x EXCEPT !.pc = "idle", !.ok = TRUE] \in CommandStates
  <2>1. x \in CommandStates
    <3>1. ASSUME NEW z \in CommandStates
          PROVE  [z EXCEPT !.count = @ + 1, !.seen = @ \cup {i}, !.pc = "loop", !.subject = 0]
                   \in CommandStates
      <4>1. z.count + 1 \in Nat /\ z.seen \cup {i} \in SUBSET Ids
        BY DEF CommandStates
      <4>2. ASSUME NEW n \in Nat, NEW S \in SUBSET Ids
            PROVE  [z EXCEPT !.count = n, !.seen = S, !.pc = "loop", !.subject = 0] \in CommandStates
        BY DEF CommandStates
      <4> QED
        BY <4>1, <4>2
    <3> QED
      BY <1>1, <3>1
  <2> HIDE DEF x
  <2> QED
    BY <2>1 DEF CommandStates
<1>3. /\ x.op = client[c].op /\ x.n = client[c].n /\ x.pc = "loop"
      /\ x.count = client[c].count + 1 /\ x.seen = client[c].seen \cup {i}
  BY <1>1 DEF CommandStates
<1>4. LET z == [x EXCEPT !.pc = "idle", !.ok = TRUE]
      IN  /\ z.op = client[c].op /\ z.n = client[c].n /\ z.pc = "idle"
          /\ z.count = client[c].count + 1 /\ z.seen = client[c].seen \cup {i}
  <2> HIDE DEF x
  <2> QED
    BY <1>2, <1>3 DEF CommandStates
<1>5. Become(c, y)
  BY DEF Answered
<1>6. ExtractPartitionIdFromKey(KeyOf(i, p)) = p
  BY PartitionOfKey
<1>7. /\ x.op = "creation" => (enough <=> x.n \in {0, p})
      /\ x.op = "result" => enough
      /\ x.op \in {"count", "jobs"} => (enough <=> x.count >= x.n)
  <2> HIDE DEF x
  <2> QED
    BY <1>6
<1> HIDE DEF x, enough
<1>8. CASE enough
  BY <1>2, <1>3, <1>4, <1>5, <1>7, <1>8
<1>9. CASE ~enough
  BY <1>2, <1>3, <1>5, <1>7, <1>9
<1> QED
  BY <1>8, <1>9

LEMMA NewInstance ==
  ASSUME ZeebeTyped, NEW i \in Ids, NEW p \in up, NEW waits \in {"job", "message"},
         New(i, p, waits), UNCHANGED <<partitions, routing, up, messages, exporting>>
  PROVE  /\ ZeebeTyped' /\ Lasting
         /\ instance[i].state = "none" /\ instance'[i].state = "waiting" /\ instance'[i].on = p
<1>1. instance[i] = NoInstance /\ p \in 0..partitions
  BY DEF ZeebeTyped, New, AllPartitions
<1>2. instance' = [instance EXCEPT ![i] = [on |-> p, waits |-> waits, state |-> "waiting"]]
  BY DEF New
<1>3. ZeebeTyped'
  BY <1>1, <1>2 DEF ZeebeTyped
<1>4. instance[i].state = "none" /\ instance'[i].state = "waiting" /\ instance'[i].on = p
  BY <1>1, <1>2 DEF ZeebeTyped, NoInstance
<1>5. Lasting
  BY <1>2, <1>4 DEF ZeebeTyped, Lasting
<1> QED
  BY <1>3, <1>4, <1>5

LEMMA CreateKeeps ==
  ASSUME CommandsInv, NEW c \in Clients, Create(c)
  PROVE  CommandsInv'
<1>1. PICK i \in Ids, p \in up : New(i, p, "job") /\ (Answered(c, i, p) \/ UNCHANGED client)
  BY DEF Create
<1>2. ZeebeTyped /\ UNCHANGED <<partitions, routing, up, messages, exporting, started>>
  BY TypesSplit DEF CommandsInv, Create
<1>3. /\ ZeebeTyped' /\ Lasting
      /\ instance[i].state = "none" /\ instance'[i].state = "waiting"
  BY <1>1, <1>2, NewInstance
<1>4. CASE Answered(c, i, p)
  <2>1. p \in Nat
    BY <1>2 DEF ZeebeTyped, AllPartitions
  <2>2. PICK x \in CommandStates :
          /\ Become(c, x)
          /\ x.op = client[c].op
          /\ x.count = client[c].count + 1 /\ x.seen = client[c].seen \cup {i}
          /\ x.pc \in {"loop", "idle"}
    BY <1>4, <2>1, AnswersMove
  <2>3. x.op \in {"creation", "count"}
    BY <2>2 DEF Create, At
  <2>4. /\ client[c].seen \in SUBSET Ids /\ i \notin client[c].seen
        /\ client[c].count = Cardinality(client[c].seen)
        /\ \A j \in client[c].seen : instance[j].state # "none"
    BY <1>3, <2>2, <2>3 DEF CommandsInv, TypeOK, CommandStates, CommandInv, Verifications
  <2>5. x.count = Cardinality(x.seen)
    BY <2>2, <2>4, OneMore
  <2>6. \A j \in x.seen : instance'[j].state # "none"
    BY <1>3, <2>2, <2>4 DEF Lasting
  <2>7. CommandInv(x)'
    BY <2>2, <2>3, <2>5, <2>6 DEF CommandInv
  <2> QED
    BY <1>2, <1>3, <2>2, <2>7, CommandMoves DEF CommandsInv, TypeOK
<1>5. CASE UNCHANGED client
  BY <1>2, <1>3, <1>5, ZeebeMoves DEF ZeebeStep
<1> QED
  BY <1>1, <1>4, <1>5

LEMMA CreateWithResultKeeps ==
  ASSUME CommandsInv, NEW c \in Clients, CreateWithResult(c)
  PROVE  CommandsInv'
<1>1. PICK i \in Ids, p \in up :
        /\ New(i, p, "message")
        /\ Become(c, [client[c] EXCEPT !.pc = "await", !.subject = i])
  BY DEF CreateWithResult
<1>2. ZeebeTyped /\ UNCHANGED <<partitions, routing, up, messages, exporting, started>>
  BY TypesSplit DEF CommandsInv, CreateWithResult
<1>3. ZeebeTyped' /\ Lasting
  BY <1>1, <1>2, NewInstance
<1>4. client[c] \in CommandStates /\ CommandInv(client[c]) /\ client[c].op = "result" /\ client[c].pc = "loop"
  BY DEF CommandsInv, TypeOK, CreateWithResult, At
<1>5. PICK x \in CommandStates : x = [client[c] EXCEPT !.pc = "await", !.subject = i]
  BY <1>4 DEF CommandStates
<1>6. /\ x.op = "result" /\ x.pc = "await" /\ x.subject = i
      /\ x.seen = {} /\ x.count = Cardinality(x.seen)
  BY <1>4, <1>5 DEF CommandStates, CommandInv, Verifications
<1>7. CommandInv(x)'
  BY <1>6 DEF CommandInv
<1> QED
  BY <1>1, <1>2, <1>3, <1>5, <1>7, CommandMoves DEF CommandsInv, TypeOK

LEMMA ResultArrivesKeeps ==
  ASSUME CommandsInv, NEW c \in Clients, ResultArrives(c)
  PROVE  CommandsInv'
<1> DEFINE i == client[c].subject
<1>1. ZeebeTyped' /\ Lasting /\ started' \in 0..MaxCommands
  BY ZeebeRests DEF CommandsInv, ResultArrives, TypeOK
<1>2. client[c] \in CommandStates /\ CommandInv(client[c]) /\ client[c].op = "result" /\ client[c].pc = "await"
  BY DEF CommandsInv, TypeOK, ResultArrives, At
<1>3. i \in Ids /\ client[c].seen = {} /\ client[c].count = Cardinality({})
  BY <1>2 DEF CommandInv, Verifications
<1>4. instance[i].state = "done" /\ Answered(c, i, instance[i].on) /\ instance[i].on \in Nat
  BY <1>3, CommandsAssumption DEF ResultArrives, CommandsInv, TypeOK, AllPartitions
<1>5. PICK x \in CommandStates :
        /\ Become(c, x)
        /\ x.op = client[c].op
        /\ x.count = client[c].count + 1 /\ x.seen = client[c].seen \cup {i}
        /\ x.pc \in {"loop", "idle"} /\ (x.op = "result" => x.pc = "idle")
  BY <1>3, <1>4, AnswersMove
<1>6. x.count = Cardinality(x.seen)
  <2>1. {} \in SUBSET Ids /\ i \notin {}
    OBVIOUS
  <2>2. Cardinality({} \cup {i}) = Cardinality({}) + 1
    BY <1>3, <2>1, OneMore
  <2> QED
    BY <1>3, <1>5, <2>2
<1>7. \A j \in x.seen : instance'[j].state # "none"
  <2>1. instance'[i].state = "done"
    BY <1>1, <1>3, <1>4 DEF Lasting
  <2> QED
    BY <1>3, <1>5, <2>1
<1>8. x.op = "result" /\ x.pc = "idle"
  BY <1>2, <1>5
<1>9. CommandInv(x)'
  BY <1>6, <1>7, <1>8 DEF CommandInv
<1> QED
  BY <1>1, <1>5, <1>9, CommandMoves

\* A request that failed is made once more.
LEMMA RetryKeeps ==
  ASSUME CommandsInv, NEW c \in Clients, client[c].pc \in {"await", "complete"},
         Become(c, [client[c] EXCEPT !.pc = "loop", !.subject = 0]),
         ZeebeTyped', Lasting, UNCHANGED started
  PROVE  CommandsInv'
<1>1. client[c] \in CommandStates /\ CommandInv(client[c])
  BY DEF CommandsInv, TypeOK
<1>2. PICK x \in CommandStates : x = [client[c] EXCEPT !.pc = "loop", !.subject = 0]
  BY <1>1 DEF CommandStates
<1>3. CommandInv(x)
  BY <1>1, <1>2 DEF CommandInv, CommandStates
<1>4. CommandInv(x)'
  BY <1>3, CommandsKept
<1> QED
  BY <1>2, <1>4, CommandMoves DEF CommandsInv, TypeOK

LEMMA ActivateKeeps ==
  ASSUME CommandsInv, NEW c \in Clients, Activate(c)
  PROVE  CommandsInv'
<1>1. PICK i \in Ids :
        /\ instance[i].state = "waiting"
        /\ instance' = [instance EXCEPT ![i].state = "locked"]
        /\ \/ Become(c, [client[c] EXCEPT !.pc = "complete", !.subject = i])
           \/ UNCHANGED client
  BY DEF Activate
<1>2. ZeebeTyped /\ UNCHANGED <<partitions, routing, up, messages, exporting, started>>
  BY TypesSplit DEF CommandsInv, Activate
<1>3. ZeebeTyped' /\ Lasting
  BY <1>1, <1>2 DEF ZeebeTyped, Lasting
<1>4. CASE Become(c, [client[c] EXCEPT !.pc = "complete", !.subject = i])
  <2>1. /\ client[c] \in CommandStates /\ CommandInv(client[c])
        /\ client[c].op = "jobs" /\ client[c].pc = "loop"
    BY DEF CommandsInv, TypeOK, Activate, At
  <2>2. PICK x \in CommandStates : x = [client[c] EXCEPT !.pc = "complete", !.subject = i]
    BY <2>1 DEF CommandStates
  <2>3. CommandInv(x)
    BY <2>1, <2>2 DEF CommandInv, CommandStates
  <2>4. CommandInv(x)'
    BY <1>3, <2>3, CommandsKept
  <2> QED
    BY <1>2, <1>3, <1>4, <2>2, <2>4, CommandMoves DEF CommandsInv, TypeOK
<1>5. CASE UNCHANGED client
  BY <1>2, <1>3, <1>5, ZeebeMoves DEF ZeebeStep
<1> QED
  BY <1>1, <1>4, <1>5

\* A completion that is accepted is the first one of its job.
LEMMA CompleteKeeps ==
  ASSUME CommandsInv, NEW c \in Clients, Complete(c)
  PROVE  CommandsInv'
<1> DEFINE i == client[c].subject
           accepted == instance[i].state # "done" /\ instance[i].on \in up
<1>1. /\ instance' = IF accepted THEN [instance EXCEPT ![i].state = "done"] ELSE instance
      /\ \/ accepted /\ Answered(c, i, instance[i].on)
         \/ Become(c, [client[c] EXCEPT !.pc = "loop", !.subject = 0])
  BY DEF Complete
<1>2. ZeebeTyped /\ UNCHANGED <<partitions, routing, up, messages, exporting, started>>
  BY TypesSplit DEF CommandsInv, Complete
<1>3. /\ client[c] \in CommandStates /\ CommandInv(client[c])
      /\ client[c].op = "jobs" /\ client[c].pc = "complete" /\ i \in Ids
  BY DEF CommandsInv, TypeOK, Complete, At, CommandInv
<1>4. ZeebeTyped' /\ Lasting
  BY <1>1, <1>2, <1>3 DEF ZeebeTyped, Lasting
<1>5. CASE accepted /\ Answered(c, i, instance[i].on)
  <2>1. instance[i].on \in Nat
    BY <1>2, <1>3, CommandsAssumption DEF ZeebeTyped, AllPartitions
  <2>2. PICK x \in CommandStates :
          /\ Become(c, x)
          /\ x.op = client[c].op
          /\ x.count = client[c].count + 1 /\ x.seen = client[c].seen \cup {i}
          /\ x.pc \in {"loop", "idle"}
    BY <1>3, <1>5, <2>1, AnswersMove
  <2>3. /\ client[c].seen \in SUBSET Ids /\ i \notin client[c].seen
        /\ client[c].count = Cardinality(client[c].seen)
        /\ \A j \in client[c].seen : instance[j].state = "done"
    BY <1>3, <1>5 DEF CommandStates, CommandInv, Verifications
  <2>4. x.count = Cardinality(x.seen)
    BY <1>3, <2>2, <2>3, OneMore
  <2>5. instance'[i].state = "done"
    BY <1>1, <1>2, <1>3, <1>5 DEF ZeebeTyped
  <2>6. \A j \in x.seen : instance'[j].state = "done"
    BY <1>4, <2>2, <2>3, <2>5 DEF Lasting
  <2>7. x.op = "jobs"
    BY <1>3, <2>2
  <2>8. CommandInv(x)'
    BY <2>2, <2>4, <2>6, <2>7 DEF CommandInv
  <2> QED
    BY <1>2, <1>4, <2>2, <2>8, CommandMoves DEF CommandsInv, TypeOK
<1>6. CASE Become(c, [client[c] EXCEPT !.pc = "loop", !.subject = 0])
  BY <1>2, <1>3, <1>4, <1>6, RetryKeeps
<1> QED
  BY <1>1, <1>5, <1>6

LEMMA EndsKeeps ==
  ASSUME CommandsInv, NEW c \in Clients, NEW ok \in BOOLEAN, Ends(c, ok),
         ZeebeTyped', Lasting, UNCHANGED started
  PROVE  CommandsInv'
<1>1. PICK x \in CommandStates : x = [Idle EXCEPT !.ok = ok]
  BY EndsTyped
<1>2. CommandInv(x)
  BY <1>1, EndsTyped
<1>3. CommandInv(x)' /\ Become(c, x)
  BY <1>1, <1>2, CommandsKept DEF Ends
<1> QED
  BY <1>3, CommandMoves DEF CommandsInv, TypeOK

LEMMA ReadRoutingKeeps ==
  ASSUME CommandsInv, NEW c \in Clients, ReadRouting(c)
  PROVE  CommandsInv'
<1>1. ZeebeTyped /\ ZeebeTyped' /\ Lasting /\ UNCHANGED started
  BY ZeebeRests, TypesSplit DEF CommandsInv, ReadRouting
<1>2. CASE Ends(c, FALSE)
  BY <1>1, <1>2, EndsKeeps
<1>3. CASE /\ CorrelationCodes(client[c].n, Distribution) # {}
           /\ Become(c, [client[c] EXCEPT !.pc = "send", !.count = Distribution,
                !.subject = FindCorrelationKeyForPartition(client[c].n, Distribution)])
  <2>1. client[c] \in CommandStates /\ client[c].op = "publish"
    BY DEF CommandsInv, TypeOK, ReadRouting, At
  <2>2. PICK key \in CorrelationCodes(client[c].n, Distribution) :
          key = FindCorrelationKeyForPartition(client[c].n, Distribution)
    BY <1>3, FoundKey
  <2>3. key \in Codes /\ Distribution \in Nat
    BY <1>1, Distributed DEF CorrelationCodes
  <2>4. PICK x \in CommandStates :
          x = [client[c] EXCEPT !.pc = "send", !.count = Distribution, !.subject = key]
    BY <2>1, <2>3 DEF CommandStates
  <2>5. /\ x.op = "publish" /\ x.pc = "send" /\ x.n = client[c].n
        /\ x.count = Distribution /\ x.subject = key
    BY <2>1, <2>4 DEF CommandStates
  <2>6. CommandInv(x)'
    BY <2>2, <2>5 DEF CommandInv, Verifications
  <2> QED
    BY <1>1, <1>3, <2>2, <2>4, <2>6, CommandMoves DEF CommandsInv, TypeOK
<1> QED
  BY <1>2, <1>3 DEF ReadRouting

\* What a command that is about to publish knows of its key.
LEMMA KeyIsThere ==
  ASSUME CommandsInv, NEW c \in Clients, client[c].pc = "send"
  PROVE  /\ client[c].subject \in Codes
         /\ client[c].n = PartitionOfCode(client[c].subject, client[c].count)
BY DEF CommandsInv, CommandInv, CorrelationCodes

LEMMA PublishKeeps ==
  ASSUME CommandsInv, NEW c \in Clients, Publish(c)
  PROVE  CommandsInv'
<1> DEFINE p == PartitionOfCode(client[c].subject, Distribution)
<1>1. ZeebeTyped /\ UNCHANGED <<partitions, routing, up, instance, exporting, started>>
  BY TypesSplit DEF CommandsInv, Publish
<1>2. client[c].subject \in Codes
  BY KeyIsThere DEF Publish, At
<1>3. p \in AllPartitions
  <2>1. client[c].subject \in Nat
    BY <1>2 DEF Codes
  <2> QED
    BY <1>1, <2>1, Distributed, CommandsAssumption DEF AllPartitions
<1>4. ZeebeTyped' /\ Lasting
  <2>1. messages' \in {messages, messages \cup {<<p, client[c].subject>>}}
    BY DEF Publish
  <2>2. messages' \subseteq AllPartitions \X Codes
    BY <1>1, <1>2, <1>3, <2>1 DEF ZeebeTyped
  <2> QED
    BY <1>1, <2>2 DEF ZeebeTyped, Lasting
<1>5. Ends(c, TRUE) \/ Ends(c, FALSE)
  BY DEF Publish
<1> QED
  BY <1>1, <1>4, <1>5, EndsKeeps

LEMMA ExportingKeeps ==
  ASSUME CommandsInv, NEW c \in Clients, Exporting(c)
  PROVE  CommandsInv'
<1>1. ZeebeTyped /\ UNCHANGED <<partitions, routing, up, instance, messages, started>>
  BY TypesSplit DEF CommandsInv, Exporting
<1>2. up \subseteq AllPartitions
  BY <1>1, CommandsAssumption DEF ZeebeTyped, AllPartitions
<1>3. exporting' \subseteq AllPartitions
  BY <1>1, <1>2 DEF Exporting, ZeebeTyped
<1>4. ZeebeTyped' /\ Lasting
  BY <1>1, <1>3 DEF ZeebeTyped, Lasting
<1>5. Ends(c, TRUE) \/ Ends(c, FALSE)
  BY DEF Exporting
<1> QED
  BY <1>1, <1>4, <1>5, EndsKeeps

LEMMA StartKeeps ==
  ASSUME CommandsInv, NEW c \in Clients, NEW command \in Commands, Start(c, command)
  PROVE  CommandsInv'
<1>1. ZeebeTyped' /\ Lasting
  BY ZeebeRests DEF CommandsInv, Start
<1>2. started' \in 0..MaxCommands
  BY CommandsAssumption DEF CommandsInv, TypeOK, Start
<1>3. command.op \in Ops /\ command.n \in Nat
  BY CommandsAssumption
<1>4. PICK x \in CommandStates :
        x = [Idle EXCEPT !.op = command.op, !.n = command.n, !.pc = "loop"]
  BY <1>3 DEF CommandStates, Idle
<1>5. x.pc = "loop" /\ x.count = 0 /\ x.seen = {}
  BY <1>4 DEF Idle
<1>6. CommandInv(x)'
  BY <1>5, FS_EmptySet DEF CommandInv
<1> QED
  BY <1>1, <1>2, <1>4, <1>6, CommandMoves DEF Start

LEMMA TimerFiresKeeps ==
  ASSUME CommandsInv, NEW c \in Clients, TimerFires(c)
  PROVE  CommandsInv'
<1>1. ZeebeTyped' /\ Lasting
  BY ZeebeRests DEF CommandsInv, TimerFires
<1>2. client[c] \in CommandStates /\ CommandInv(client[c])
  BY DEF CommandsInv, TypeOK
<1>3. PICK x \in CommandStates : x = [client[c] EXCEPT !.late = TRUE]
  BY <1>2 DEF CommandStates
<1>4. CommandInv(x)
  BY <1>2, <1>3 DEF CommandInv, CommandStates
<1>5. CommandInv(x)'
  BY <1>1, <1>4, CommandsKept
<1> QED
  BY <1>1, <1>3, <1>5, CommandMoves DEF TimerFires, CommandsInv, TypeOK

LEMMA StepKeeps == CommandsInv /\ [Next]_vars => CommandsInv'
<1> SUFFICES ASSUME CommandsInv, [Next]_vars PROVE CommandsInv'
  OBVIOUS
<1>1. CASE UNCHANGED vars
  <2>1. ZeebeTyped' /\ Lasting /\ ZeebeStep
    BY <1>1, ZeebeRests DEF CommandsInv, vars, ZeebeStep
  <2> QED
    BY <2>1, ZeebeMoves
<1>2. CASE \E c \in Clients :
             (\E command \in Commands : Start(c, command)) \/ TimerFires(c) \/ TimesOut(c) \/ Request(c)
  <2> PICK c \in Clients :
        (\E command \in Commands : Start(c, command)) \/ TimerFires(c) \/ TimesOut(c) \/ Request(c)
    BY <1>2
  <2>1. CASE \E command \in Commands : Start(c, command)
    BY <2>1, StartKeeps
  <2>2. CASE TimerFires(c)
    BY <2>2, TimerFiresKeeps
  <2>3. CASE TimesOut(c)
    <3>1. ZeebeTyped' /\ Lasting
      BY <2>3, ZeebeRests DEF CommandsInv, TimesOut
    <3> QED
      BY <2>3, <3>1, EndsKeeps DEF TimesOut
  <2>4. CASE ResultMissing(c)
    <3>1. ZeebeTyped' /\ Lasting
      BY <2>4, ZeebeRests DEF CommandsInv, ResultMissing
    <3> QED
      BY <2>4, <3>1, RetryKeeps DEF ResultMissing, At
  <2>5. CASE Create(c) \/ CreateWithResult(c) \/ ResultArrives(c)
    BY <2>5, CreateKeeps, CreateWithResultKeeps, ResultArrivesKeeps
  <2>6. CASE Activate(c) \/ Complete(c) \/ ReadRouting(c) \/ Publish(c) \/ Exporting(c)
    BY <2>6, ActivateKeeps, CompleteKeeps, ReadRoutingKeeps, PublishKeeps, ExportingKeeps
  <2> QED
    BY <2>1, <2>2, <2>3, <2>4, <2>5, <2>6 DEF Request
<1>3. CASE \/ \E p \in AllPartitions : Fails(p) \/ Recovers(p)
           \/ PartitionAdded \/ RoutingUpdated
  <2>1. 1 \in AllPartitions
    BY CommandsAssumption DEF AllPartitions
  <2> QED
    BY <1>3, <2>1, PartitionSteps
<1>4. CASE \E i \in Ids : JobTimesOut(i) \/ Correlated(i)
  BY <1>4, InstanceSteps
<1> QED
  BY <1>1, <1>2, <1>3, <1>4 DEF Next, Finished

LEMMA CommandsInvariant == Spec => []CommandsInv
BY InitCommands, StepKeeps, PTL DEF Spec

-----------------------------------------------------------------------------
(* The properties.                                                         *)

\* Whatever the commands and zeebe do, the state has its types.
THEOREM CommandTypes == Spec => []TypeOK
<1>1. CommandsInv => TypeOK
  BY DEF CommandsInv
<1> QED
  BY <1>1, CommandsInvariant, PTL

\* A step of a command is one of no other.
LEMMA OwnCommand ==
  ASSUME NEW c \in Clients,
         (\E command \in Commands : Start(c, command)) \/ TimerFires(c) \/ TimesOut(c) \/ Request(c)
  PROVE  UNCHANGED client \/ \E x : Become(c, x)
<1>1. CASE \E command \in Commands : Start(c, command)
  BY <1>1 DEF Start
<1>2. CASE TimerFires(c) \/ TimesOut(c) \/ ReadRouting(c) \/ Publish(c) \/ Exporting(c)
  BY <1>2 DEF TimerFires, TimesOut, ReadRouting, Publish, Exporting, Ends
<1>3. CASE Create(c) \/ Complete(c) \/ ResultArrives(c)
  BY <1>3 DEF Create, Complete, ResultArrives, Answered
<1>4. CASE CreateWithResult(c) \/ ResultMissing(c) \/ Activate(c)
  BY <1>4 DEF CreateWithResult, ResultMissing, Activate
<1> QED
  BY <1>1, <1>2, <1>3, <1>4 DEF Request

\* A command that goes on does not succeed.
LEMMA BusyCommand ==
  ASSUME TypeOK, NEW c \in Clients, NEW pc \in {"send", "await", "loop", "complete"}, NEW n, NEW k,
         \/ Become(c, [client[c] EXCEPT !.pc = pc, !.subject = k])
         \/ Become(c, [client[c] EXCEPT !.pc = pc, !.count = n, !.subject = k])
  PROVE  ~ Succeeds(c)
<1>1. client[c] \in CommandStates
  BY DEF TypeOK
<1>2. client'[c] = [client[c] EXCEPT !.pc = pc, !.subject = k]
        \/ client'[c] = [client[c] EXCEPT !.pc = pc, !.count = n, !.subject = k]
  BY DEF Become, TypeOK
<1>3. client'[c].pc = pc
  BY <1>1, <1>2 DEF CommandStates
<1> QED
  BY <1>3 DEF Succeeds

\* Only these steps make a command succeed.
LEMMA SucceedsBy ==
  ASSUME TypeOK, [Next]_vars, NEW c \in Clients, Succeeds(c)
  PROVE  Create(c) \/ ResultArrives(c) \/ Complete(c) \/ Publish(c) \/ Exporting(c)
<1>1. client' # client
  BY DEF Succeeds
<1>2. PICK d \in Clients :
        (\E command \in Commands : Start(d, command)) \/ TimerFires(d) \/ TimesOut(d) \/ Request(d)
  BY <1>1 DEF Next, Finished, vars, Fails, Recovers, PartitionAdded, RoutingUpdated,
              JobTimesOut, Correlated, ZeebeStep
<1>3. d = c
  BY <1>1, <1>2, OwnCommand DEF Become, TypeOK, Succeeds
<1>4. ASSUME NEW x, Become(c, x) PROVE x.pc = "idle" /\ x.ok /\ client[c].pc # "idle"
  BY <1>4 DEF Become, TypeOK, Succeeds
<1>5. ~ \E command \in Commands : Start(c, command)
  BY DEF Start, Succeeds
<1>6. ~ TimesOut(c) /\ ~ ReadRouting(c)
  <2>1. ~ Ends(c, FALSE)
    BY <1>4 DEF Ends, Idle
  <2>2. ~ Become(c, [client[c] EXCEPT !.pc = "send", !.count = Distribution,
                      !.subject = FindCorrelationKeyForPartition(client[c].n, Distribution)])
    <3>1. PICK n, k : n = Distribution /\ k = FindCorrelationKeyForPartition(client[c].n, Distribution)
      OBVIOUS
    <3> QED
      BY <3>1, BusyCommand
  <2> QED
    BY <2>1, <2>2 DEF TimesOut, ReadRouting
<1>7. ~ TimerFires(c)
  BY <1>4 DEF TimerFires, TypeOK, CommandStates
<1>8. ~ CreateWithResult(c) /\ ~ ResultMissing(c)
  BY BusyCommand DEF CreateWithResult, ResultMissing
<1>9. ~ Activate(c)
  BY <1>1, BusyCommand DEF Activate
<1> QED
  BY <1>2, <1>3, <1>5, <1>6, <1>7, <1>8, <1>9 DEF Request

\* What a command that succeeds has seen is true: VerifiedSound for one step.
LEMMA SuccessSound ==
  ASSUME CommandsInv, [Next]_vars, NEW c \in Clients, Succeeds(c)
  PROVE  LET x == client'[c] IN
         /\ x.op = "creation" => \E i \in x.seen : x.n \in {0, instance'[i].on}
         /\ x.op = "result"   => \E i \in x.seen : instance'[i].state = "done"
         /\ x.op = "count"    => Cardinality(x.seen) >= x.n
         /\ x.op = "jobs"     => Cardinality({i \in x.seen : instance'[i].state = "done"}) >= x.n
<1> DEFINE x == client'[c]
<1>1. TypeOK /\ ZeebeTyped /\ CommandsInv' /\ client[c].op \in Ops \cup {"none"}
  BY StepKeeps, TypesSplit DEF CommandsInv, TypeOK, CommandStates
<1>2. /\ x \in CommandStates
      /\ x.op \in {"count", "jobs"} => x.count = Cardinality(x.seen)
      /\ x.op = "jobs" => \A i \in x.seen : instance'[i].state = "done"
  BY <1>1 DEF CommandsInv, CommandInv, TypeOK, Verifications
<1>3. x.pc = "idle"
  BY DEF Succeeds
<1>4. ASSUME NEW i \in Ids, NEW p \in Nat, Answered(c, i, p)
      PROVE  /\ x.op = client[c].op /\ i \in x.seen
             /\ x.op = "creation" => x.n \in {0, p}
             /\ x.op \in {"count", "jobs"} => x.count >= x.n
  <2>1. PICK y \in CommandStates :
          /\ Become(c, y)
          /\ y.op = client[c].op /\ y.seen = client[c].seen \cup {i}
          /\ y.pc = "idle" =>
               /\ y.op = "creation" => y.n \in {0, p}
               /\ y.op \in {"count", "jobs"} => y.count >= y.n
    BY <1>4, AnswersMove
  <2>2. y = x
    BY <1>1, <2>1 DEF Become, TypeOK
  <2> HIDE DEF x
  <2> QED
    BY <1>3, <2>1, <2>2
<1>5. ASSUME x.op = "jobs", x.count >= x.n
      PROVE  Cardinality({i \in x.seen : instance'[i].state = "done"}) >= x.n
  <2>1. {i \in x.seen : instance'[i].state = "done"} = x.seen
    BY <1>2, <1>5
  <2> HIDE DEF x
  <2> QED
    BY <1>2, <1>5, <2>1
<1>6. CASE Create(c)
  <2>1. PICK i \in Ids, p \in up : New(i, p, "job") /\ Answered(c, i, p)
    BY <1>6 DEF Create, Succeeds
  <2>2. p \in Nat
    BY <1>1 DEF ZeebeTyped, AllPartitions
  <2>3. instance'[i].on = p
    BY <1>1, <1>6, <2>1, NewInstance DEF Create
  <2>4. /\ x.op = client[c].op /\ i \in x.seen
        /\ x.op = "creation" => x.n \in {0, p}
        /\ x.op \in {"count", "jobs"} => x.count >= x.n
    BY <1>4, <2>1, <2>2
  <2>5. x.op \in {"creation", "count"}
    BY <1>6, <2>4 DEF Create, At
  <2> HIDE DEF x
  <2> QED
    BY <1>2, <2>3, <2>4, <2>5 DEF x
<1>7. CASE ResultArrives(c)
  <2> DEFINE i == client[c].subject
  <2>1. i \in Ids /\ client[c].op = "result"
    BY <1>7 DEF CommandsInv, CommandInv, ResultArrives, At
  <2>2. Answered(c, i, instance[i].on) /\ instance[i].on \in Nat /\ instance'[i].state = "done"
    BY <1>1, <1>7, <2>1, CommandsAssumption DEF ResultArrives, ZeebeTyped, AllPartitions, zeebe
  <2>3. x.op = "result" /\ i \in x.seen
    BY <1>4, <2>1, <2>2
  <2> QED
    BY <2>2, <2>3
<1>8. CASE Complete(c)
  <2> DEFINE i == client[c].subject
  <2>1. i \in Ids /\ client[c].op = "jobs"
    BY <1>8 DEF CommandsInv, CommandInv, Complete, At
  <2>2. Answered(c, i, instance[i].on)
    <3>1. ~ Become(c, [client[c] EXCEPT !.pc = "loop", !.subject = 0])
      BY <1>1, <1>3 DEF Become, TypeOK, CommandStates
    <3> QED
      BY <1>8, <3>1 DEF Complete
  <2>3. instance[i].on \in Nat
    BY <1>1, <2>1, CommandsAssumption DEF ZeebeTyped, AllPartitions
  <2>4. x.op = "jobs" /\ x.count >= x.n
    BY <1>4, <2>1, <2>2, <2>3
  <2> QED
    BY <1>5, <2>4
<1>9. CASE Publish(c) \/ Exporting(c)
  <2>1. Ends(c, TRUE) \/ Ends(c, FALSE)
    BY <1>9 DEF Publish, Exporting
  <2>2. x.op = "none"
    BY <1>1, <2>1 DEF Ends, Become, Idle, TypeOK
  <2> QED
    BY <2>2
<1> QED
  BY <1>1, <1>6, <1>7, <1>8, <1>9, SucceedsBy

\* A verification that reports success (exit code 0 of zbchaos verify) has seen
\* an instance on the required partition, an instance that has ended, or as
\* many different instances or completed jobs as it was asked for.
THEOREM VerificationsTellTheTruth == Spec => VerifiedSound
<1>1. CommandsInv /\ [Next]_vars =>
        [\A c \in Clients : Succeeds(c) =>
           LET x == client'[c] IN
           /\ x.op = "creation" => \E i \in x.seen : x.n \in {0, instance'[i].on}
           /\ x.op = "result"   => \E i \in x.seen : instance'[i].state = "done"
           /\ x.op = "count"    => Cardinality(x.seen) >= x.n
           /\ x.op = "jobs"     => Cardinality({i \in x.seen : instance'[i].state = "done"}) >= x.n]_vars
  BY SuccessSound
<1> QED
  BY <1>1, CommandsInvariant, PTL DEF Spec, VerifiedSound

\* A publish that succeeds has put its message on the partition it was asked
\* for, unless the distribution changed after the key was found.
THEOREM MessagesReachTheirPartition == Spec => PublishReaches
<1>1. ASSUME CommandsInv, [Next]_vars, NEW c \in Clients,
             Succeeds(c), client[c].op = "publish", client[c].count = Distribution
      PROVE  <<client[c].n, client[c].subject>> \in messages'
  <2>1. Publish(c)
    <3>1. Create(c) \/ ResultArrives(c) \/ Complete(c) \/ Publish(c) \/ Exporting(c)
      BY <1>1, SucceedsBy DEF CommandsInv
    <3> QED
      BY <1>1, <3>1 DEF Create, ResultArrives, Complete, Exporting, At
  <2>2. client[c].n = PartitionOfCode(client[c].subject, Distribution)
    BY <1>1, <2>1, KeyIsThere DEF Publish, At
  <2>3. ~ Ends(c, FALSE)
    BY <1>1 DEF Ends, Become, Idle, Succeeds, CommandsInv, TypeOK
  <2> QED
    BY <2>1, <2>2, <2>3 DEF Publish
<1>2. CommandsInv /\ [Next]_vars =>
        [\A c \in Clients : Succeeds(c) /\ client[c].op = "publish" /\ client[c].count = Distribution
           => <<client[c].n, client[c].subject>> \in messages']_vars
  BY <1>1
<1> QED
  BY <1>2, CommandsInvariant, PTL DEF Spec, PublishReaches

=============================================================================
