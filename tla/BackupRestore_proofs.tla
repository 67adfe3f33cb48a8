------------------------ MODULE BackupRestore_proofs ------------------------
(***************************************************************************)
(* A restore by one process at a time, that nothing restarts brokers       *)
(* beside, keeps restored brokers apart from those it has not reached, and *)
(* succeeds only when it is whole: for every number of brokers, and every  *)
(* sequence of commands that fail or die at any call.                      *)
(*                                                                         *)
(* NoMixture is not inductive.  As long as a broker has data from before   *)
(* the restore, TemplateInv says what the template implies for the pods    *)
(* that exist, and ClientInv what the restore has established by the call  *)
(* it has come to: that all pods are gone when the template changes, that  *)
(* the operator leaves it alone, and that the pods that come afterwards    *)
(* are made from it.                                                       *)
(***************************************************************************)
EXTENDS BackupRestore, FiniteSetTheorems, TLAPS

\* One process at a time runs commands, and no other command restarts a broker
\* while it restores.
Alone == ~Beside /\ \A c, d \in Clients : c = d

SomeOld == \E b \in Brokers : data[b] = "old"

TemplateInv ==
  /\ SomeOld /\ template.init =>
       (saas => paused) /\ \A b \in Brokers : Exists(b) => pod[b].init
  /\ SomeOld /\ ~template.init => \A b \in Brokers : ~pod[b].init /\ ~Restored(b)
  /\ \A b \in Brokers : Runs(b) /\ pod[b].init => Restored(b)
  /\ \A b \in Brokers : Restored(b) => backup = "COMPLETED"

\* A pod that was made from the template as it is, for the scale it had.
Fresh(c, b) ==
  /\ pod[b].phase \in {"pending", "ready"}
  /\ pod[b].env = template.env /\ pod[b].init
  /\ b < client[c].initial

In(c, pcs) == client[c].op = "restore" /\ client[c].pc \in pcs

ClientInv(c) ==
  /\ client[c].pc # "idle" => (saas => paused)
  /\ client[c].initial \in {0, N}
  /\ In(c, {"zero", "update", "up"}) => replicas = 0
  /\ In(c, {"update", "up"}) => Existing = {}
  /\ In(c, {"up", "replicas", "ready", "resume"}) => template.init
  /\ In(c, {"replicas", "ready", "resume"}) =>
       replicas = client[c].initial /\ \A b \in Existing : Fresh(c, b)
  /\ In(c, {"ready", "resume"}) /\ client[c].initial = N => Existing = Brokers
  /\ In(c, {"resume"}) => client[c].initial = N /\ \A b \in Brokers : Ready(b)

RestoreInv ==
  /\ TypeOK /\ replicas \in {0, N}
  /\ TemplateInv
  /\ \A c \in Clients : ClientInv(c)

-----------------------------------------------------------------------------
LEMMA BrokerCount ==
  ASSUME NEW S \in SUBSET Brokers, Cardinality(S) = N
  PROVE  S = Brokers
<1>1. IsFiniteSet(Brokers) /\ Cardinality(Brokers) = N
  <2>1. 0 \in Int /\ N - 1 \in Int /\ ~(0 > N - 1) /\ (N - 1) - 0 + 1 = N
    BY BackupAssumption
  <2> QED
    BY <2>1, FS_Interval DEF Brokers
<1> QED
  BY <1>1, FS_Subset

LEMMA InitRestore == Init => RestoreInv
<1> SUFFICES ASSUME Init PROVE RestoreInv
  OBVIOUS
<1>1. PICK prepared \in BOOLEAN :
        /\ template = [Plain EXCEPT !.env = prepared]
        /\ gateway \in [exists : BOOLEAN, env : {prepared}, runs : {prepared}, up : {TRUE}]
        /\ pod = [b \in Brokers |-> [phase |-> "ready", env |-> prepared, init |-> FALSE]]
        /\ backup = IF prepared THEN "COMPLETED" ELSE "DOES_NOT_EXIST"
        /\ secret = prepared
  BY DEF Init
<1>2. template = [env |-> prepared, init |-> FALSE]
  BY <1>1 DEF Plain
<1>3. TypeOK /\ replicas \in {0, N}
  <2>1. {saas, paused, secret} \subseteq BOOLEAN
    BY <1>1 DEF Init
  <2>2. gateway \in [exists : BOOLEAN, env : BOOLEAN, runs : BOOLEAN, up : BOOLEAN]
    BY <1>1
  <2>3. pod \in [Brokers -> [phase : Phases, env : BOOLEAN, init : BOOLEAN]]
    BY <1>1 DEF Phases
  <2>4. client \in [Clients -> [op : Ops \cup {"none"}, pc : Pcs, initial : 0..N,
                              ok : BOOLEAN, died : BOOLEAN]]
    BY BackupAssumption DEF Init, Idle, Pcs
  <2>5. template \in [env : BOOLEAN, init : BOOLEAN]
    BY ONLY <1>2, prepared \in BOOLEAN, Zenon
  <2>7. backup \in Statuses
    <3>1. backup \in {"COMPLETED", "DOES_NOT_EXIST"}
      BY <1>1
    <3> QED
      BY <3>1 DEF Statuses
  <2>6. /\ replicas = N /\ started = 0 /\ known \in BOOLEAN
        /\ data \in [Brokers -> {"old", "none", "backup", "new"}]
    BY DEF Init
  <2> QED
    BY <2>1, <2>2, <2>3, <2>4, <2>5, <2>6, <2>7, BackupAssumption DEF TypeOK
<1>4. TemplateInv
  BY <1>1, <1>2 DEF Init, TemplateInv, SomeOld, Restored, Runs, Exists
<1>5. \A c \in Clients : ClientInv(c)
  BY DEF Init, ClientInv, In, Idle
<1> QED
  BY <1>3, <1>4, <1>5 DEF RestoreInv

\* The gateway, the answers about a backup and the number of commands do not matter
\* to the invariant.
LEMMA RestoreFrame ==
  ASSUME RestoreInv,
         UNCHANGED <<saas, paused, secret, template, replicas, pod, data, backup, client>>,
         gateway' \in [exists : BOOLEAN, env : BOOLEAN, runs : BOOLEAN, up : BOOLEAN],
         known' \in BOOLEAN, started' \in 0..MaxCommands
  PROVE  RestoreInv'
<1>1. TypeOK'
  BY DEF RestoreInv, TypeOK
<1>2. TemplateInv'
  BY DEF RestoreInv, TemplateInv, SomeOld, Restored, Runs, Exists
<1>3. ASSUME NEW c \in Clients PROVE ClientInv(c)'
  BY <1>3 DEF RestoreInv, ClientInv, In, Fresh, Existing, Exists, Ready
<1> QED
  BY <1>1, <1>2, <1>3 DEF RestoreInv

\* A pod changes, but neither template nor command.
LEMMA PodKeepsRestore ==
  ASSUME RestoreInv, NEW b \in Brokers, PodStep(b)
  PROVE  RestoreInv'
<1> USE DEF PodsOnly, kube
<1>1. TypeOK' /\ replicas' \in {0, N}
  <2> DEFINE PodType == [Brokers -> [phase : Phases, env : BOOLEAN, init : BOOLEAN]]
  <2>1. pod' \in PodType
    <3>1. ASSUME NEW phase \in Phases, Set(b, phase) PROVE pod' \in PodType
      BY <3>1 DEF RestoreInv, TypeOK, Set
    <3>2. /\ pod \in PodType /\ template \in [env : BOOLEAN, init : BOOLEAN]
          /\ Absent \in [phase : Phases, env : BOOLEAN, init : BOOLEAN]
      BY DEF RestoreInv, TypeOK, Absent, Phases
    <3>3. ASSUME Deleted(b) PROVE pod' \in PodType
      <4>1. CASE Set(b, "terminating")
        BY <3>1, <4>1 DEF Phases
      <4>2. CASE pod' = [pod EXCEPT ![b] = Absent]
        BY <3>2, <4>2
      <4> QED
        BY <3>3, <4>1, <4>2 DEF Deleted
    <3>4. CASE Created(b)
      <4>1. [phase |-> "pending", env |-> template.env, init |-> template.init]
              \in [phase : Phases, env : BOOLEAN, init : BOOLEAN]
        BY <3>2 DEF Phases
      <4> QED
        BY <3>2, <3>4, <4>1 DEF Created
    <3>5. CASE Wiped(b)
      BY <3>2, <3>5 DEF Wiped
    <3>6. CASE Started(b)
      BY <3>1, <3>6 DEF Started, Phases
    <3>7. CASE Terminated(b)
      BY <3>2, <3>7 DEF Terminated
    <3> QED
      BY <3>3, <3>4, <3>5, <3>6, <3>7 DEF PodStep, ScaledDown, RollingUpdate
  <2>2. data' \in [Brokers -> {"old", "none", "backup", "new"}]
    BY DEF RestoreInv, TypeOK, PodStep, Created, Wiped, Started, Terminated, ScaledDown,
           RollingUpdate
  <2> QED
    BY <2>1, <2>2 DEF RestoreInv, TypeOK, PodStep, Created, Wiped, Started, Terminated,
       ScaledDown, RollingUpdate
<1>2. TemplateInv'
  BY DEF RestoreInv, TypeOK, TemplateInv, SomeOld, PodStep, Created, Wiped, Started, Terminated,
         ScaledDown, RollingUpdate, Deleted, Set, Absent, Runs, Exists, Restored, Ready,
         Restorable
<1>3. ASSUME NEW c \in Clients PROVE ClientInv(c)'
  <2> USE <1>3 DEF RestoreInv, TypeOK, ClientInv, In, Fresh, Existing, Exists, Ready
  <2>1. CASE Created(b)
    <3>1. pod' = [pod EXCEPT ![b] = [phase |-> "pending", env |-> template.env,
                                      init |-> template.init]]
          /\ 0 <= b /\ b < replicas /\ UNCHANGED <<saas, paused, template, replicas, client>>
      BY <2>1 DEF Created, Brokers
    <3>2. replicas # 0
      BY ONLY <3>1, b \in Brokers, BackupAssumption DEF Brokers
    <3> DEFINE E == {a \in Brokers : pod[a].phase # "absent"}
    <3>5. {a \in Brokers : pod'[a].phase # "absent"} = E \cup {b}
      BY <3>1
    <3>3. ASSUME NEW a \in Brokers, In(c, {"replicas", "ready", "resume"}), Exists(a)'
          PROVE  Fresh(c, a)'
      BY <3>1, <3>3
    <3>4. In(c, {"resume"}) => ~Created(b)
      BY DEF Created
    <3> QED
      BY <2>1, <3>1, <3>2, <3>3, <3>4, <3>5
  <2>2. CASE Wiped(b)
    BY <2>2 DEF Wiped
  <2>3. CASE Started(b)
    BY <2>3 DEF Started, Set
  <2>4. CASE Terminated(b)
    BY <2>4 DEF Terminated, Absent
  <2>5. CASE ScaledDown(b)
    BY <2>5 DEF ScaledDown, Deleted, Set, Absent, Brokers
  <2>6. CASE RollingUpdate(b)
    BY <2>6 DEF RollingUpdate, Outdated, Deleted, Set, Absent
  <2> QED
    BY <2>1, <2>2, <2>3, <2>4, <2>5, <2>6 DEF PodStep
<1> QED
  BY <1>1, <1>2, <1>3 DEF RestoreInv

\* Zeebe, the gateway, the operator and other commands.
LEMMA OthersKeepRestore ==
  ASSUME RestoreInv, Alone,
         \/ Processes \/ GatewayGoes \/ GatewayStarts \/ Reconcile \/ BackupEnds \/ AnswersChange
         \/ \E b \in Brokers : OtherCommand(b)
  PROVE  RestoreInv'
<1> USE DEF RestoreInv, TypeOK, PodsOnly, kube, state, config
<1>1. CASE Processes
  BY <1>1 DEF Processes, TemplateInv, SomeOld, Restored, Runs, Exists, Ready, ClientInv, In,
     Fresh,
     Existing
<1>2. CASE GatewayGoes \/ GatewayStarts \/ AnswersChange
  <2>1. gateway' \in [exists : BOOLEAN, env : BOOLEAN, runs : BOOLEAN, up : BOOLEAN]
    BY <1>2 DEF GatewayGoes, GatewayStarts, AnswersChange
  <2>2. /\ UNCHANGED <<saas, paused, secret, template, replicas, pod, data, backup, client, started>>
        /\ known' \in BOOLEAN
    BY <1>2 DEF GatewayGoes, GatewayStarts, AnswersChange
  <2> QED
    BY <2>1, <2>2, RestoreFrame
<1>3. CASE Reconcile
  <2>1. /\ gateway' \in [exists : BOOLEAN, env : BOOLEAN, runs : BOOLEAN, up : BOOLEAN]
        /\ template' = [env |-> FALSE, init |-> FALSE] /\ replicas' = N
    BY <1>3 DEF Reconcile, Plain
  <2>2. /\ UNCHANGED <<saas, paused, secret, pod, data, backup, known, client, started>>
        /\ saas /\ ~paused
    BY <1>3 DEF Reconcile
  <2>3. TypeOK'
    BY <2>1, <2>2, BackupAssumption
  <2>4. TemplateInv'
    BY <2>1, <2>2 DEF TemplateInv, SomeOld, Restored, Runs, Exists
  <2>5. ASSUME NEW c \in Clients PROVE ClientInv(c)'
    BY <2>2, <2>5 DEF ClientInv, In
  <2> QED
    BY <2>1, <2>3, <2>4, <2>5
<1>4. CASE BackupEnds
  BY <1>4 DEF BackupEnds, Statuses, TemplateInv, SomeOld, Restored, Runs, Exists, Ready,
     ClientInv,
     In, Fresh, Existing
<1>5. ASSUME NEW b \in Brokers, OtherCommand(b) PROVE RestoreInv'
  <2>1. /\ paused' \in BOOLEAN /\ started' \in 0..MaxCommands /\ (paused => paused')
        /\ UNCHANGED <<saas, secret, template, gateway, replicas, data, backup, known, client>>
        /\ \A c \in Clients : client[c].pc = "idle" \/ client[c].op # "restore"
    BY <1>5, BackupAssumption DEF OtherCommand, PausePreventive, Alone
  <2>2. \/ Ready(b) /\ pod' = [pod EXCEPT ![b].phase = "terminating"]
        \/ pod[b].phase = "pending" /\ pod' = [pod EXCEPT ![b] = Absent]
    BY <1>5 DEF OtherCommand, Deleted, Set, Ready
  <2>3. pod' \in [Brokers -> [phase : Phases, env : BOOLEAN, init : BOOLEAN]]
    <3>1. CASE pod' = [pod EXCEPT ![b].phase = "terminating"]
      BY <3>1 DEF Phases
    <3>2. CASE pod' = [pod EXCEPT ![b] = Absent]
      BY <3>2 DEF Phases, Absent
    <3> QED
      BY <2>2, <3>1, <3>2
  <2>4. TemplateInv'
    <3>1. CASE Ready(b) /\ pod' = [pod EXCEPT ![b].phase = "terminating"]
      BY <2>1, <3>1 DEF TemplateInv, SomeOld, Restored, Runs, Exists, Ready
    <3>2. CASE pod' = [pod EXCEPT ![b] = Absent]
      BY <2>1, <3>2 DEF TemplateInv, SomeOld, Restored, Runs, Exists, Absent
    <3> QED
      BY <2>2, <3>1, <3>2
  <2>5. ASSUME NEW c \in Clients PROVE ClientInv(c)'
    BY <2>1, <2>5 DEF ClientInv, In, OtherCommand, PausePreventive
  <2> QED
    BY <2>1, <2>3, <2>4, <2>5
<1> QED
  BY <1>1, <1>2, <1>3, <1>4, <1>5

\* The record of a command, for each way it is assigned.
Commands == [op : Ops \cup {"none"}, pc : Pcs, initial : 0..N, ok : BOOLEAN, died : BOOLEAN]

LEMMA CommandMoves ==
  ASSUME RestoreInv, NEW c \in Clients
  PROVE  /\ \A pc \in Pcs : Goto(c, pc) =>
              /\ client' \in [Clients -> Commands]
              /\ client'[c].op = client[c].op /\ client'[c].pc = pc
              /\ client'[c].initial = client[c].initial /\ client'[c].ok = client[c].ok
         /\ Succeed(c) =>
              /\ client' \in [Clients -> Commands]
              /\ client'[c].op = client[c].op /\ client'[c].pc = "idle"
              /\ client'[c].initial = 0 /\ client'[c].ok
         /\ Abort(c) =>
              /\ client' \in [Clients -> Commands]
              /\ client'[c].op = "none" /\ client'[c].pc = "idle"
              /\ client'[c].initial = 0 /\ ~client'[c].ok
         /\ \A x \in Commands : Become(c, x) =>
              client' \in [Clients -> Commands] /\ client'[c] = x
         /\ Idle \in Commands /\ Idle.op = "none" /\ Idle.pc = "idle" /\ Idle.initial = 0
<1> DEFINE r == client[c]
<1>1. client \in [Clients -> Commands] /\ r \in Commands
  BY DEF RestoreInv, TypeOK, Commands
<1>2. /\ Idle \in Commands /\ Idle.op = "none" /\ Idle.pc = "idle"
      /\ Idle.initial = 0 /\ Idle.ok = FALSE
  BY BackupAssumption DEF Idle, Commands, Pcs
<1>3. ASSUME NEW pc \in Pcs, Goto(c, pc)
      PROVE  /\ client' \in [Clients -> Commands]
             /\ client'[c].op = client[c].op /\ client'[c].pc = pc
             /\ client'[c].initial = client[c].initial /\ client'[c].ok = client[c].ok
  <2>1. [r EXCEPT !.pc = pc] \in Commands
    BY <1>1 DEF Commands
  <2>2. client' = [client EXCEPT ![c] = [r EXCEPT !.pc = pc]]
    BY <1>3 DEF Goto, Become
  <2>3. client'[c] = [r EXCEPT !.pc = pc]
    BY <1>1, <2>2
  <2>4. client' \in [Clients -> Commands]
    BY <1>1, <2>1, <2>2
  <2> QED
    BY <1>1, <2>3, <2>4 DEF Commands
<1>4. ASSUME Succeed(c)
      PROVE  /\ client' \in [Clients -> Commands]
             /\ client'[c].op = client[c].op /\ client'[c].pc = "idle"
             /\ client'[c].initial = 0 /\ client'[c].ok
  <2> DEFINE done == [Idle EXCEPT !.op = r.op, !.ok = TRUE]
  <2>1. /\ done \in Commands /\ done.op = r.op /\ done.pc = "idle"
        /\ done.initial = 0 /\ done.ok
    BY <1>1, <1>2 DEF Commands
  <2>2. client' = [client EXCEPT ![c] = done]
    BY <1>4 DEF Succeed, Become
  <2> HIDE DEF done
  <2>3. client'[c] = done /\ client' \in [Clients -> Commands]
    BY <1>1, <2>1, <2>2
  <2> QED
    BY <2>1, <2>3
<1>5. ASSUME Abort(c)
      PROVE  /\ client' \in [Clients -> Commands]
             /\ client'[c].op = "none" /\ client'[c].pc = "idle"
             /\ client'[c].initial = 0 /\ ~client'[c].ok
  <2>1. client' = [client EXCEPT ![c] = Idle]
    BY <1>5 DEF Abort, Become
  <2>2. client'[c] = Idle /\ client' \in [Clients -> Commands]
    BY <1>1, <1>2, <2>1
  <2> QED
    BY <1>2, <2>2
<1>6. ASSUME NEW x \in Commands, Become(c, x)
      PROVE  client' \in [Clients -> Commands] /\ client'[c] = x
  BY <1>1, <1>6 DEF Become
<1> QED
  BY <1>2, <1>3, <1>4, <1>5, <1>6

\* When a restore resumes reconciliation it is whole.
LEMMA ResumeRestored ==
  ASSUME RestoreInv, NEW c \in Clients, At(c, "restore", "resume")
  PROVE  /\ \A b \in Brokers : Restored(b)
         /\ backup = "COMPLETED" /\ replicas = N
<1>1. /\ client[c].initial = N /\ replicas = N
      /\ \A b \in Brokers : Ready(b)
      /\ \A b \in Existing : pod[b].init
  BY DEF At, RestoreInv, ClientInv, In, Fresh
<1>2. \A b \in Brokers : Runs(b) /\ pod[b].init
  BY <1>1 DEF Existing, Exists, Runs, Ready
<1>3. \A b \in Brokers : Restored(b)
  BY <1>2 DEF RestoreInv, TemplateInv
<1>4. 0 \in Brokers
  BY BackupAssumption DEF Brokers
<1> QED
  BY <1>1, <1>3, <1>4 DEF RestoreInv, TemplateInv

\* The commands.  A step of one changes its own record only, and there is no
\* other.
LEMMA StepKeepsRestore ==
  ASSUME RestoreInv, Alone, NEW c \in Clients,
         Step(c) \/ Fails(c) \/ \E op \in Ops : Start(c, op)
  PROVE  RestoreInv'
<1>0. Clients = {c}
  BY DEF Alone
<1> USE DEF kube, state, config
<1>1. CASE Fails(c)
  <2>1. /\ client' \in [Clients -> Commands]
        /\ client'[c].pc = "idle" /\ client'[c].initial = 0
    <3> DEFINE x == [Idle EXCEPT !.died = TRUE]
    <3>1. x \in Commands /\ x.pc = "idle" /\ x.initial = 0
      BY CommandMoves DEF Commands
    <3>2. Become(c, x)
      BY <1>1 DEF Fails
    <3> QED
      BY <3>1, <3>2, CommandMoves
  <2>2. TypeOK' /\ replicas' \in {0, N}
    BY <1>1, <2>1 DEF Fails, RestoreInv, TypeOK, Commands
  <2>3. TemplateInv'
    BY <1>1 DEF Fails, RestoreInv, TemplateInv, SomeOld, Runs, Exists, Restored, ClientInv, In,
       At
  <2>4. ClientInv(c)'
    BY <1>1, <2>1 DEF Fails, RestoreInv, ClientInv, In, Existing, Fresh, Exists, Ready, At
  <2> QED
    BY <1>0, <2>1, <2>2, <2>3, <2>4 DEF RestoreInv
<1>2. CASE CreateSecret(c)
  <2>1. /\ client' \in [Clients -> Commands]
        /\ \/ client'[c].pc = "idle" /\ client'[c].initial = 0
           \/ /\ client'[c].op = client[c].op /\ client'[c].pc = "brokers"
              /\ client'[c].initial = client[c].initial
    BY <1>2, CommandMoves DEF CreateSecret, Pcs
  <2>2. TypeOK' /\ replicas' \in {0, N}
    BY <1>2, <2>1 DEF CreateSecret, RestoreInv, TypeOK, Commands
  <2>3. TemplateInv'
    BY <1>2 DEF CreateSecret, RestoreInv, TemplateInv, SomeOld, Runs, Exists, Restored,
       ClientInv, In, At
  <2>4. ClientInv(c)'
    BY <1>2, <2>1 DEF CreateSecret, RestoreInv, ClientInv, In, Existing, Fresh, Exists, Ready,
       At
  <2> QED
    BY <1>0, <2>1, <2>2, <2>3, <2>4 DEF RestoreInv
<1>3. CASE SetupBrokers(c)
  <2>1. /\ client' \in [Clients -> Commands]
        /\ client'[c].op = client[c].op /\ client'[c].pc = "gateway"
        /\ client'[c].initial = client[c].initial
    BY <1>3, CommandMoves DEF SetupBrokers, Pcs
  <2>2. TypeOK' /\ replicas' \in {0, N}
    BY <1>3, <2>1 DEF SetupBrokers, RestoreInv, TypeOK, Commands
  <2>3. TemplateInv'
    BY <1>3 DEF SetupBrokers, RestoreInv, TemplateInv, SomeOld, Runs, Exists, Restored,
       ClientInv, In, At
  <2>4. ClientInv(c)'
    BY <1>3, <2>1 DEF SetupBrokers, RestoreInv, ClientInv, In, Existing, Fresh, Exists, Ready,
       At
  <2> QED
    BY <1>0, <2>1, <2>2, <2>3, <2>4 DEF RestoreInv
<1>4. CASE SetupGateway(c)
  <2>1. /\ client' \in [Clients -> Commands]
        /\ client'[c].pc = "idle" /\ client'[c].initial = 0
    BY <1>4, CommandMoves DEF SetupGateway, Pcs
  <2>2. TypeOK' /\ replicas' \in {0, N}
    BY <1>4, <2>1 DEF SetupGateway, RestoreInv, TypeOK, Commands
  <2>3. TemplateInv'
    BY <1>4 DEF SetupGateway, RestoreInv, TemplateInv, SomeOld, Runs, Exists, Restored,
       ClientInv, In, At
  <2>4. ClientInv(c)'
    BY <1>4, <2>1 DEF SetupGateway, RestoreInv, ClientInv, In, Existing, Fresh, Exists, Ready,
       At
  <2> QED
    BY <1>0, <2>1, <2>2, <2>3, <2>4 DEF RestoreInv
<1>5. CASE Post(c)
  <2>1. /\ client' \in [Clients -> Commands]
        /\ client'[c].pc = "idle" /\ client'[c].initial = 0
    BY <1>5, CommandMoves DEF Post, Pcs
  <2>2. TypeOK' /\ replicas' \in {0, N}
    BY <1>5, <2>1 DEF Post, RestoreInv, TypeOK, Commands, Statuses
  <2>3. TemplateInv'
    BY <1>5 DEF Post, RestoreInv, TemplateInv, SomeOld, Runs, Exists, Restored, ClientInv, In,
       At
  <2>4. ClientInv(c)'
    BY <1>5, <2>1 DEF Post, RestoreInv, ClientInv, In, Existing, Fresh, Exists, Ready, At
  <2> QED
    BY <1>0, <2>1, <2>2, <2>3, <2>4 DEF RestoreInv
<1>6. CASE Poll(c)
  <2>1. /\ client' \in [Clients -> Commands]
        /\ client'[c].pc = "idle" /\ client'[c].initial = 0
    BY <1>6, CommandMoves DEF Poll, Pcs
  <2>2. TypeOK' /\ replicas' \in {0, N}
    BY <1>6, <2>1 DEF Poll, RestoreInv, TypeOK, Commands
  <2>3. TemplateInv'
    BY <1>6 DEF Poll, RestoreInv, TemplateInv, SomeOld, Runs, Exists, Restored, ClientInv, In,
       At
  <2>4. ClientInv(c)'
    BY <1>6, <2>1 DEF Poll, RestoreInv, ClientInv, In, Existing, Fresh, Exists, Ready, At
  <2> QED
    BY <1>0, <2>1, <2>2, <2>3, <2>4 DEF RestoreInv
<1>7. CASE ScaleDown(c)
  <2>1. /\ client' \in [Clients -> Commands]
        /\ client'[c].op = client[c].op /\ client'[c].pc = "zero"
        /\ client'[c].initial = replicas
    <3> DEFINE x == [client[c] EXCEPT !.pc = "zero", !.initial = replicas]
    <3>1. /\ x \in Commands
          /\ x.op = client[c].op /\ x.pc = "zero" /\ x.initial = replicas
      BY DEF RestoreInv, TypeOK, Commands, Pcs
    <3>2. Become(c, x)
      BY <1>7 DEF ScaleDown
    <3> QED
      BY <3>1, <3>2, CommandMoves
  <2>2. TypeOK' /\ replicas' \in {0, N}
    BY <1>7, <2>1 DEF ScaleDown, RestoreInv, TypeOK, Commands
  <2>3. TemplateInv'
    BY <1>7 DEF ScaleDown, RestoreInv, TemplateInv, SomeOld, Runs, Exists, Restored, ClientInv,
       In, At
  <2>4. ClientInv(c)'
    BY <1>7, <2>1 DEF ScaleDown, RestoreInv, ClientInv, In, Existing, Fresh, Exists, Ready, At
  <2> QED
    BY <1>0, <2>1, <2>2, <2>3, <2>4 DEF RestoreInv
<1>8. CASE ZeroReached(c)
  <2>1. /\ client' \in [Clients -> Commands]
        /\ client'[c].op = client[c].op /\ client'[c].pc = "update"
        /\ client'[c].initial = client[c].initial
    BY <1>8, CommandMoves DEF ZeroReached, Pcs
  <2>2. TypeOK' /\ replicas' \in {0, N}
    BY <1>8, <2>1 DEF ZeroReached, RestoreInv, TypeOK, Commands
  <2>3. TemplateInv'
    BY <1>8 DEF ZeroReached, RestoreInv, TemplateInv, SomeOld, Runs, Exists, Restored,
       ClientInv, In, At
  <2>4. ClientInv(c)'
    BY <1>8, <2>1 DEF ZeroReached, RestoreInv, ClientInv, In, Existing, Fresh, Exists, Ready, At
  <2> QED
    BY <1>0, <2>1, <2>2, <2>3, <2>4 DEF RestoreInv
<1>9. CASE UpdateTemplate(c)
  <2>1. /\ client' \in [Clients -> Commands]
        /\ client'[c].op = client[c].op /\ client'[c].pc = "up"
        /\ client'[c].initial = client[c].initial
    BY <1>9, CommandMoves DEF UpdateTemplate, Pcs
  <2>2. TypeOK' /\ replicas' \in {0, N}
    BY <1>9, <2>1 DEF UpdateTemplate, RestoreInv, TypeOK, Commands
  <2>3. TemplateInv'
    <3>1. /\ \A b \in Brokers : pod[b].phase = "absent"
          /\ saas => paused
      BY <1>9 DEF UpdateTemplate, RestoreInv, ClientInv, In, At, Existing, Exists
    <3>2. template'.init /\ UNCHANGED <<saas, paused, pod, data, backup>>
      BY <1>9 DEF UpdateTemplate, RestoreInv, TypeOK
    <3> QED
      BY <3>1, <3>2 DEF RestoreInv, TemplateInv, SomeOld, Runs, Exists, Restored
  <2>4. ClientInv(c)'
    BY <1>9, <2>1 DEF UpdateTemplate, RestoreInv, ClientInv, In, Existing, Fresh, Exists,
       Ready, At
  <2> QED
    BY <1>0, <2>1, <2>2, <2>3, <2>4 DEF RestoreInv
<1>10. CASE ScaleUp(c)
  <2>1. /\ client' \in [Clients -> Commands]
        /\ client'[c].op = client[c].op /\ client'[c].pc = "replicas"
        /\ client'[c].initial = client[c].initial
    BY <1>10, CommandMoves DEF ScaleUp, Pcs
  <2>2. TypeOK' /\ replicas' \in {0, N}
    BY <1>10, <2>1 DEF ScaleUp, RestoreInv, TypeOK, Commands, ClientInv
  <2>3. TemplateInv'
    BY <1>10 DEF ScaleUp, RestoreInv, TemplateInv, SomeOld, Runs, Exists, Restored, ClientInv,
       In, At
  <2>4. ClientInv(c)'
    BY <1>10, <2>1 DEF ScaleUp, RestoreInv, ClientInv, In, Existing, Fresh, Exists, Ready, At
  <2> QED
    BY <1>0, <2>1, <2>2, <2>3, <2>4 DEF RestoreInv
<1>11. CASE ReplicasReached(c)
  <2>1. /\ client' \in [Clients -> Commands]
        /\ client'[c].op = client[c].op /\ client'[c].pc = "ready"
        /\ client'[c].initial = client[c].initial
    BY <1>11, CommandMoves DEF ReplicasReached, Pcs
  <2>2. TypeOK' /\ replicas' \in {0, N}
    BY <1>11, <2>1 DEF ReplicasReached, RestoreInv, TypeOK, Commands
  <2>3. TemplateInv'
    BY <1>11 DEF ReplicasReached, RestoreInv, TemplateInv, SomeOld, Runs, Exists, Restored,
       ClientInv, In, At
  <2>4. ClientInv(c)'
    <3>1. client[c].initial = N => Existing = Brokers
      BY <1>11, BrokerCount DEF ReplicasReached, Existing
    <3> QED
      BY <1>11, <2>1, <3>1 DEF ReplicasReached, RestoreInv, ClientInv, In, Existing, Fresh,
         Exists,
         Ready, At
  <2> QED
    BY <1>0, <2>1, <2>2, <2>3, <2>4 DEF RestoreInv
<1>12. CASE Resume(c)
  <2>1. /\ client' \in [Clients -> Commands]
        /\ client'[c].pc = "idle" /\ client'[c].initial = 0
    BY <1>12, CommandMoves DEF Resume, Pcs
  <2>2. TypeOK' /\ replicas' \in {0, N}
    BY <1>12, <2>1 DEF Resume, RestoreInv, TypeOK, Commands
  <2>3. TemplateInv'
    <3>1. \A b \in Brokers : Restored(b)
      BY <1>12, ResumeRestored DEF Resume
    <3> QED
      BY <1>12, <3>1 DEF Resume, RestoreInv, TemplateInv, SomeOld, Runs, Restored
  <2>4. ClientInv(c)'
    BY <1>12, <2>1 DEF Resume, RestoreInv, ClientInv, In, Existing, Fresh, Exists, Ready, At
  <2> QED
    BY <1>0, <2>1, <2>2, <2>3, <2>4 DEF RestoreInv
<1>13. CASE Await(c, "take", "await", "post")
  <2>1. /\ client' \in [Clients -> Commands]
        /\ \/ client'[c].pc = "idle" /\ client'[c].initial = 0
           \/ /\ client'[c].op = client[c].op /\ client'[c].pc = "post"
              /\ client'[c].initial = client[c].initial
    BY <1>13, CommandMoves DEF Await, Pcs
  <2>2. TypeOK' /\ replicas' \in {0, N}
    BY <1>13, <2>1 DEF Await, RestoreInv, TypeOK, Commands
  <2>3. TemplateInv'
    BY <1>13 DEF Await, RestoreInv, TemplateInv, SomeOld, Runs, Exists, Restored, ClientInv,
       In, At
  <2>4. ClientInv(c)'
    BY <1>13, <2>1 DEF Await, RestoreInv, ClientInv, In, Existing, Fresh, Exists, Ready, At
  <2> QED
    BY <1>0, <2>1, <2>2, <2>3, <2>4 DEF RestoreInv
<1>14. CASE Await(c, "restore", "ready", "resume")
  <2>1. /\ client' \in [Clients -> Commands]
        /\ \/ client'[c].pc = "idle" /\ client'[c].initial = 0
           \/ /\ PodsReady /\ client'[c].op = client[c].op /\ client'[c].pc = "resume"
              /\ client'[c].initial = client[c].initial
    BY <1>14, CommandMoves DEF Await, Pcs
  <2>2. TypeOK' /\ replicas' \in {0, N}
    BY <1>14, <2>1 DEF Await, RestoreInv, TypeOK, Commands
  <2>3. TemplateInv'
    BY <1>14 DEF Await, RestoreInv, TemplateInv, SomeOld, Runs, Exists, Restored, ClientInv,
       In, At
  <2>4. ClientInv(c)'
    <3>1. PodsReady => client[c].initial = N /\ \A b \in Brokers : Ready(b)
      BY <1>14, BackupAssumption DEF PodsReady, Await, At, RestoreInv, ClientInv, In, Existing,
         Fresh,
         Exists, Runs, Ready, Brokers
    <3> QED
      BY <1>14, <2>1, <3>1 DEF Await, RestoreInv, ClientInv, In, Existing, Fresh, Exists,
         Ready, At
  <2> QED
    BY <1>0, <2>1, <2>2, <2>3, <2>4 DEF RestoreInv
<1>15. ASSUME NEW op \in Ops, Start(c, op) PROVE RestoreInv'
  <2>1. /\ client' \in [Clients -> Commands]
        /\ client'[c].op = op /\ client'[c].initial = 0
        /\ client'[c].pc \in {"secret", "await", "poll", "down"}
    <3> DEFINE x == [Idle EXCEPT !.op = op, !.pc = Entry(op)]
    <3>1. Entry(op) \in {"secret", "await", "poll", "down"}
      BY BackupAssumption DEF Entry
    <3>2. x \in Commands /\ x.op = op /\ x.pc = Entry(op) /\ x.initial = 0
      BY <3>1, CommandMoves DEF Commands, Pcs
    <3>3. Become(c, x)
      BY <1>15 DEF Start
    <3> HIDE DEF x
    <3> QED
      BY <3>1, <3>2, <3>3, CommandMoves
  <2>2. TypeOK' /\ replicas' \in {0, N}
    <3>1. paused' \in BOOLEAN
      BY <1>15 DEF Start, PausePreventive
    <3>2. started' \in 0..MaxCommands
      <4>1. started \in 0..MaxCommands /\ started < MaxCommands /\ started' = started + 1
        BY <1>15 DEF Start, RestoreInv, TypeOK
      <4> QED
        BY ONLY <4>1, BackupAssumption
    <3> QED
      BY <1>15, <2>1, <3>1, <3>2 DEF Start, RestoreInv, TypeOK, Commands
  <2>3. TemplateInv'
    BY <1>15 DEF Start, Entry, PausePreventive, RestoreInv, TemplateInv, SomeOld, Runs, Exists,
       Restored, ClientInv, In, At
  <2>4. ClientInv(c)'
    BY <1>15, <2>1 DEF Start, Entry, PausePreventive, RestoreInv, ClientInv, In, Existing,
       Fresh, Exists, Ready, At
  <2> QED
    BY <1>0, <2>1, <2>2, <2>3, <2>4 DEF RestoreInv
<1> QED
  BY <1>1, <1>2, <1>3, <1>4, <1>5, <1>6, <1>7, <1>8, <1>9, <1>10, <1>11, <1>12, <1>13, <1>14,
     <1>15 DEF Step, Restore

-----------------------------------------------------------------------------
(* The theorems.                                                           *)

\* The inductive invariant: what a broker runs on, what the template makes of
\* new pods and what each call of a restore has established fit together.
THEOREM RestoreInvariant == ASSUME Alone PROVE Spec => []RestoreInv
<1>1. RestoreInv /\ [Next]_vars => RestoreInv'
  <2> SUFFICES ASSUME RestoreInv, [Next]_vars PROVE RestoreInv'
    OBVIOUS
  <2>1. ASSUME NEW c \in Clients, (\E op \in Ops : Start(c, op)) \/ Fails(c) \/ Step(c)
        PROVE  RestoreInv'
    BY <2>1, StepKeepsRestore
  <2>2. ASSUME NEW b \in Brokers, PodStep(b) PROVE RestoreInv'
    BY <2>2, PodKeepsRestore
  <2>3. CASE UNCHANGED vars
    BY <2>3, RestoreFrame DEF vars, kube, state, RestoreInv, TypeOK
  <2> QED
    BY <2>1, <2>2, <2>3, OthersKeepRestore DEF Next, Finished
<1> QED
  BY InitRestore, <1>1, PTL DEF Spec

\* TypeOK: every command goes through the calls of cmd/backup.go in the order
\* it has them, for any number of brokers.
THEOREM BackupTypes == ASSUME Alone PROVE Spec => []TypeOK
<1>1. RestoreInv => TypeOK
  BY DEF RestoreInv
<1> QED
  BY <1>1, RestoreInvariant, PTL

\* NoMixture: however often a restore fails, dies and is started again, no
\* broker with restored data runs beside one that goes on with its own.
THEOREM RestoreNeverMixes == ASSUME Alone PROVE Spec => []NoMixture
<1>1. RestoreInv => NoMixture
  BY DEF RestoreInv, TemplateInv, SomeOld, NoMixture, Runs, Exists, Restored
<1> QED
  BY <1>1, RestoreInvariant, PTL

\* RestoreSound: a restore succeeds only when all brokers run on a complete
\* backup, at the scale it started from.
THEOREM RestoreSucceedsWhole == ASSUME Alone PROVE Spec => RestoreSound
<1> DEFINE Whole(c) == Succeeds(c, "restore") =>
             /\ \A b \in Brokers : Restored(b)
             /\ backup = "COMPLETED"
             /\ replicas = N /\ ~paused'
<1>1. RestoreInv /\ [Next]_vars => [\A c \in Clients : Whole(c)]_vars
  <2> SUFFICES ASSUME RestoreInv, Next, NEW c \in Clients, Succeeds(c, "restore")
               PROVE  /\ \A b \in Brokers : Restored(b)
                      /\ backup = "COMPLETED"
                      /\ replicas = N /\ ~paused'
    OBVIOUS
  <2>1. Resume(c)
    <3>1. client'[c] # client[c] /\ client'[c].ok /\ client[c].op = "restore"
      BY DEF Succeeds, At
    <3>2. PICK d \in Clients : (\E op \in Ops : Start(d, op)) \/ Fails(d) \/ Step(d)
      BY <3>1 DEF Next, PodStep, Created, Wiped, Started, Terminated, ScaledDown, RollingUpdate,
         OtherCommand, Processes, GatewayGoes, GatewayStarts, Reconcile, BackupEnds,
         AnswersChange, Finished, PodsOnly, kube, state, config, vars
    <3>3. d = c
      BY DEF Alone
    <3>4. ASSUME NEW op \in Ops, Start(c, op) PROVE FALSE
      <4> DEFINE x == [Idle EXCEPT !.op = op, !.pc = Entry(op)]
      <4>1. Entry(op) \in Pcs
        BY BackupAssumption DEF Entry, Pcs
      <4>2. x \in Commands /\ x.ok = Idle.ok
        BY <4>1, CommandMoves DEF Commands
      <4>3. Become(c, x)
        BY <3>4 DEF Start
      <4> HIDE DEF x
      <4> QED
        BY <3>1, <4>2, <4>3, CommandMoves DEF Idle
    <3>5. ASSUME Fails(c) PROVE FALSE
      <4> DEFINE x == [Idle EXCEPT !.died = TRUE]
      <4>1. x \in Commands /\ x.ok = Idle.ok
        BY CommandMoves DEF Commands
      <4>2. Become(c, x)
        BY <3>5 DEF Fails
      <4> HIDE DEF x
      <4> QED
        BY <3>1, <4>1, <4>2, CommandMoves DEF Idle
    <3>6. ASSUME ScaleDown(c) PROVE FALSE
      <4> DEFINE x == [client[c] EXCEPT !.pc = "zero", !.initial = replicas]
      <4>1. x \in Commands /\ x.ok = client[c].ok
        <5>1. client[c] \in Commands /\ replicas \in 0..N
          BY DEF RestoreInv, TypeOK, Commands
        <5> QED
          BY <5>1 DEF Commands, Pcs
      <4>2. Become(c, x)
        BY <3>6 DEF ScaleDown
      <4> HIDE DEF x
      <4> QED
        BY <4>1, <4>2, CommandMoves DEF Succeeds
    <3>7. ~CreateSecret(c) /\ ~SetupBrokers(c) /\ ~SetupGateway(c) /\ ~Post(c) /\ ~Poll(c)
          /\ ~Await(c, "take", "await", "post")
      BY <3>1 DEF CreateSecret, SetupBrokers, SetupGateway, Post, Poll, Await, At
    <3>8. ~ZeroReached(c) /\ ~UpdateTemplate(c) /\ ~ScaleUp(c) /\ ~ReplicasReached(c)
          /\ ~Await(c, "restore", "ready", "resume")
      BY CommandMoves DEF Succeeds, ZeroReached, UpdateTemplate, ScaleUp, ReplicasReached,
         Await,
         Pcs
    <3> QED
      BY <3>2, <3>3, <3>4, <3>5, <3>6, <3>7, <3>8 DEF Step, Restore
  <2> QED
    BY <2>1, ResumeRestored DEF Resume
<1> QED
  BY <1>1, RestoreInvariant, PTL DEF RestoreSound, Spec
=============================================================================
