--------------------------- MODULE BackupRestore ---------------------------
(***************************************************************************)
(* zbchaos backup setup, take, wait and restore (cmd/backup.go), with the  *)
(* pause of the SaaS operator (internal/saas.go, k8helper.go) and          *)
(* ScaleZeebeCluster (internal/statefulset.go).                            *)
(*                                                                         *)
(* A restore takes all brokers down, puts two init containers into the     *)
(* template of the statefulset, one that deletes the data of a broker and  *)
(* one that restores the backup, and brings the brokers up again.  It goes *)
(* through kubernetes call by call, beside the statefulset controller, the *)
(* operator, other commands that restart brokers, and itself: a worker     *)
(* repeats a command that died, or that outlived the lock of its job.      *)
(*                                                                         *)
(* There is one backup id.  Of the data of a broker only its origin is     *)
(* kept, and of the objects only what was set for backups; the label of    *)
(* the namespace that a client removes is left out.  Conflicts on an       *)
(* object are retried by the code or count as a failed call.               *)
(***************************************************************************)
EXTENDS Naturals, FiniteSets

CONSTANTS
  N,            \* the brokers are the ordinals 0..N-1
  Clients,      \* processes that run backup commands
  Ops,          \* the commands they run
  MaxCommands,  \* bound: commands that are started
  Faults,       \* TRUE: calls and processes may fail, answers may get lost
  Beside        \* TRUE: other commands restart brokers during a restore, too

Brokers == 0..(N - 1)

ASSUME BackupAssumption ==
  /\ N \in Nat \ {0}
  /\ Ops \subseteq {"setup", "take", "wait", "restore"}
  /\ MaxCommands \in Nat /\ Faults \in BOOLEAN /\ Beside \in BOOLEAN

VARIABLES
  saas,      \* is there a ZeebeCluster resource, and an operator that owns it?
  paused,    \* its label pauseReconciliation
  secret,    \* the secret zeebe-backup-store-s3 exists
  template,  \* the statefulset: has the backup settings, the init containers
  replicas,  \* its spec.replicas
  gateway,   \* is there a deployment, has it the settings, has the pod that
             \* runs them, is that pod up
  pod,       \* life cycle of a broker pod, and the template it was created with
  data,      \* origin of the data of a broker: from before a restore, deleted,
             \* as in the backup, or processed since
  backup,    \* status of the backup
  known,     \* is a query for it answered with one of the Statuses?
  client,    \* the command a process runs
  started    \* number of commands so far

config == <<secret, template, gateway>>
kube   == <<saas, paused, secret, template, replicas, gateway>>
state  == <<pod, data, backup, known>>
vars   == <<kube, state, client, started>>

Phases == {"absent", "pending", "ready", "terminating"}
\* The statuses a wait looks for, and the one it polls on; there are others.
Statuses == {"DOES_NOT_EXIST", "IN_PROGRESS", "COMPLETED", "FAILED"}
Pcs == {"idle", "secret", "brokers", "gateway", "await", "post", "poll", "down",
        "zero", "update", "up", "replicas", "ready", "resume"}
Plain == [env |-> FALSE, init |-> FALSE]
Absent == [phase |-> "absent", env |-> FALSE, init |-> FALSE]
Idle == [op |-> "none", pc |-> "idle", initial |-> 0, ok |-> FALSE, died |-> FALSE]

TypeOK ==
  /\ {saas, paused, secret} \subseteq BOOLEAN
  /\ template \in [env : BOOLEAN, init : BOOLEAN]
  /\ replicas \in 0..N
  /\ gateway \in [exists : BOOLEAN, env : BOOLEAN, runs : BOOLEAN, up : BOOLEAN]
  /\ pod \in [Brokers -> [phase : Phases, env : BOOLEAN, init : BOOLEAN]]
  /\ data \in [Brokers -> {"old", "none", "backup", "new"}]
  /\ backup \in Statuses /\ known \in BOOLEAN
  /\ client \in [Clients -> [op : Ops \cup {"none"}, pc : Pcs, initial : 0..N,
                          ok : BOOLEAN, died : BOOLEAN]]
  /\ started \in 0..MaxCommands

\* A cluster nobody has set up for backups, or one that has been and has a
\* backup.
Init ==
  \E prepared \in BOOLEAN :
    /\ saas \in BOOLEAN /\ paused = FALSE
    /\ secret = prepared
    /\ template = [Plain EXCEPT !.env = prepared]
    /\ replicas = N
    /\ gateway \in [exists : BOOLEAN, env : {prepared}, runs : {prepared}, up : {TRUE}]
    /\ saas => gateway.exists
    /\ pod = [b \in Brokers |-> [phase |-> "ready", env |-> prepared, init |-> FALSE]]
    /\ data = [b \in Brokers |-> "old"]
    /\ backup = IF prepared THEN "COMPLETED" ELSE "DOES_NOT_EXIST"
    /\ known = TRUE
    /\ client = [c \in Clients |-> Idle]
    /\ started = 0

-----------------------------------------------------------------------------
(* The broker pods.                                                        *)

Exists(b) == pod[b].phase # "absent"
Runs(b) == pod[b].phase \in {"ready", "terminating"}
Ready(b) == pod[b].phase = "ready"
Existing == {b \in Brokers : Exists(b)}
Set(b, phase) == pod' = [pod EXCEPT ![b].phase = phase]
PodsOnly == UNCHANGED <<kube, backup, known, client, started>>

\* A broker shuts down; a pod that has not started one is gone at once.
Deleted(b) ==
  /\ pod[b].phase \in {"pending", "ready"}
  /\ IF Ready(b) THEN Set(b, "terminating") ELSE pod' = [pod EXCEPT ![b] = Absent]

Created(b) ==
  /\ ~Exists(b) /\ b < replicas
  /\ pod' = [pod EXCEPT ![b] = [phase |-> "pending", env |-> template.env,
                                init |-> template.init]]
  /\ UNCHANGED data /\ PodsOnly

\* delete-data.
Wiped(b) ==
  /\ pod[b].phase = "pending" /\ pod[b].init
  /\ data[b] # "none"
  /\ data' = [data EXCEPT ![b] = "none"]
  /\ UNCHANGED pod /\ PodsOnly

\* restore-from-backup: it needs the secret, the settings it copies from the
\* broker, an empty folder and a backup.
Restorable(b) == secret /\ pod[b].env /\ data[b] = "none" /\ backup = "COMPLETED"

Started(b) ==
  /\ pod[b].phase = "pending"
  /\ pod[b].init => Restorable(b)
  /\ Set(b, "ready")
  /\ data' = [data EXCEPT ![b] = IF pod[b].init THEN "backup" ELSE @]
  /\ PodsOnly

Terminated(b) ==
  /\ pod[b].phase = "terminating"
  /\ pod' = [pod EXCEPT ![b] = Absent]
  /\ UNCHANGED data /\ PodsOnly

ScaledDown(b) ==
  /\ b >= replicas
  /\ Deleted(b)
  /\ UNCHANGED data /\ PodsOnly

\* From the highest ordinal down, each after the ones above are ready.
Outdated(b) == <<pod[b].env, pod[b].init>> # <<template.env, template.init>>

RollingUpdate(b) ==
  /\ b < replicas
  /\ Outdated(b)
  /\ \A a \in Brokers : a > b /\ a < replicas => Ready(a) /\ ~Outdated(a)
  /\ Deleted(b)
  /\ UNCHANGED data /\ PodsOnly

\* A majority with restored data processes, and the others it reaches catch up.
Restored(b) == data[b] \in {"backup", "new"}
Processes ==
  LET quorum == {b \in Brokers : Ready(b) /\ Restored(b)} IN
  /\ 2 * Cardinality(quorum) > N
  /\ \E b \in quorum : data[b] = "backup"
  /\ data' = [b \in Brokers |-> IF b \in quorum THEN "new" ELSE data[b]]
  /\ UNCHANGED pod /\ PodsOnly

PodStep(b) ==
  Created(b) \/ Wiped(b) \/ Started(b) \/ Terminated(b) \/ ScaledDown(b) \/ RollingUpdate(b)

-----------------------------------------------------------------------------
(* Gateway, operator, backups and other commands.                          *)

\* The rolling update of the gateway.
GatewayGoes ==
  /\ gateway.exists /\ gateway.up /\ gateway.runs # gateway.env
  /\ gateway' = [gateway EXCEPT !.up = FALSE]
  /\ UNCHANGED <<saas, paused, secret, template, replicas, state, client, started>>

GatewayStarts ==
  /\ ~gateway.up
  /\ gateway' = [gateway EXCEPT !.up = TRUE, !.runs = gateway.env]
  /\ UNCHANGED <<saas, paused, secret, template, replicas, state, client, started>>

\* The operator overwrites what was deployed.
Reconciled == template = Plain /\ replicas = N /\ ~gateway.env
Reconcile ==
  /\ saas /\ ~paused /\ ~Reconciled
  /\ template' = Plain /\ replicas' = N
  /\ gateway' = [gateway EXCEPT !.env = FALSE]
  /\ UNCHANGED <<saas, paused, secret, state, client, started>>

BackupEnds ==
  /\ backup = "IN_PROGRESS"
  /\ backup' \in {"COMPLETED", "FAILED"}
  /\ UNCHANGED <<kube, pod, data, known, client, started>>

\* An error of zeebe or of its backup store, a backup nobody knows (404), one that
\* is incomplete: the answer has no status, or another one.  Or that is over.  It
\* makes a difference only while a wait polls.
AnswersChange ==
  /\ \E c \in Clients : client[c].op = "wait" /\ client[c].pc = "poll"
  /\ known' = ~known
  /\ UNCHANGED <<kube, pod, data, backup, client, started>>

\* Mutant: reconciliation is not paused.
LeavesOperator == UNCHANGED paused

\* Every client that is created in SaaS pauses reconciliation, setup and
\* restore do it again.
PausePreventive == paused' = (paused \/ saas)

\* Another chaos command, one that restarts a broker.
OtherCommand(b) ==
  /\ started < MaxCommands /\ started' = started + 1
  /\ Beside \/ \A c \in Clients : client[c].pc = "idle" \/ client[c].op # "restore"
  /\ PausePreventive
  /\ Deleted(b)
  /\ UNCHANGED <<saas, config, replicas, data, backup, known, client>>

-----------------------------------------------------------------------------
(* Running a command.                                                      *)

At(c, op, pc) == client[c].op = op /\ client[c].pc = pc
Become(c, x) == client' = [client EXCEPT ![c] = x]
Goto(c, pc) == Become(c, [client[c] EXCEPT !.pc = pc])
Succeed(c) == Become(c, [Idle EXCEPT !.op = client[c].op, !.ok = TRUE])
Abort(c) == Become(c, Idle)

Entry(op) ==
  CASE op = "setup" -> "secret" [] op = "take" -> "await"
    [] op = "wait" -> "poll"    [] op = "restore" -> "down"

Start(c, op) ==
  /\ client[c].pc = "idle"
  /\ started < MaxCommands /\ started' = started + 1
  /\ PausePreventive
  /\ Become(c, [Idle EXCEPT !.op = op, !.pc = Entry(op)])
  /\ UNCHANGED <<saas, config, replicas, state>>

\* An error is returned, the command panics, or its process dies.
Fails(c) ==
  /\ Faults
  /\ client[c].pc # "idle"
  /\ Become(c, [Idle EXCEPT !.died = TRUE])
  /\ UNCHANGED <<kube, state, started>>

\* Mutant: no pods count as ready pods.
NoneIsReady ==
  /\ \A b \in Existing : Runs(b)
  /\ saas => gateway.up

\* checkIfBrokersAreRunning looks at the pods that are listed, in which one
\* that terminates is still ready at first.
PodsReady ==
  /\ Existing # {}
  /\ \A b \in Existing : Runs(b)
  /\ saas => gateway.up

\* AwaitReadiness, for at most five minutes.
Await(c, op, here, next) ==
  /\ At(c, op, here)
  /\ \/ PodsReady /\ Goto(c, next)
     \/ ~PodsReady /\ Abort(c)
  /\ UNCHANGED <<kube, state, started>>

\* Where port forwarding ends: at a gateway, or at a broker that embeds one.
Reachable == IF gateway.exists THEN gateway.up ELSE \E b \in Brokers : Runs(b)
Enabled ==
  /\ \A b \in Brokers : Ready(b) /\ pod[b].env
  /\ gateway.exists => gateway.runs

CreateSecret(c) ==
  /\ At(c, "setup", "secret")
  /\ secret' = TRUE
  /\ IF secret THEN Abort(c) ELSE Goto(c, "brokers")
  /\ UNCHANGED <<saas, paused, template, replicas, gateway, state, started>>

SetupBrokers(c) ==
  /\ At(c, "setup", "brokers")
  /\ template' = [template EXCEPT !.env = TRUE]
  /\ Goto(c, "gateway")
  /\ UNCHANGED <<saas, paused, secret, replicas, gateway, state, started>>

\* Items[0] of an empty list panics.
SetupGateway(c) ==
  /\ At(c, "setup", "gateway")
  /\ IF gateway.exists THEN Succeed(c) ELSE Abort(c)
  /\ gateway' = [gateway EXCEPT !.env = gateway.exists]
  /\ UNCHANGED <<saas, paused, secret, template, replicas, state, started>>

\* The answer to a request that started a backup may get lost.
Post(c) ==
  /\ At(c, "take", "post")
  /\ LET accepted == Reachable /\ Enabled /\ backup = "DOES_NOT_EXIST"
     IN  /\ backup' = IF accepted THEN "IN_PROGRESS" ELSE backup
         /\ \/ accepted /\ Succeed(c)
            \/ (~accepted \/ Faults) /\ Abort(c)
  /\ UNCHANGED <<kube, pod, data, known, started>>

\* The answer to a query says that the backup has one of these.
Told(statuses) == known /\ backup \in statuses

\* Mutant: a failed backup is polled on.
PollsFailed(c) ==
  /\ At(c, "wait", "poll")
  /\ IF ~Reachable \/ Told({"DOES_NOT_EXIST"}) THEN Abort(c)
     ELSE Told({"COMPLETED"}) /\ Succeed(c)
  /\ UNCHANGED <<kube, state, started>>

\* getBackupStatus until an answer says that the backup has ended.  No HTTP status
\* is looked at: IN_PROGRESS, no status and any other one are polled again.
Poll(c) ==
  /\ At(c, "wait", "poll")
  /\ IF ~Reachable \/ Told({"FAILED", "DOES_NOT_EXIST"}) THEN Abort(c)
     ELSE Told({"COMPLETED"}) /\ Succeed(c)
  /\ UNCHANGED <<kube, state, started>>

\* The first half of ScaleZeebeCluster reads the scale and writes it, the
\* second polls without a bound.
ScaleDown(c) ==
  /\ At(c, "restore", "down")
  /\ replicas' = 0
  /\ Become(c, [client[c] EXCEPT !.pc = "zero", !.initial = replicas])
  /\ UNCHANGED <<saas, paused, config, state, started>>

\* Mutant: the scale is set, but not waited for.
ZeroNotAwaited(c) ==
  /\ At(c, "restore", "zero")
  /\ Goto(c, "update")
  /\ UNCHANGED <<kube, state, started>>

ZeroReached(c) ==
  /\ At(c, "restore", "zero")
  /\ Existing = {}
  /\ Goto(c, "update")
  /\ UNCHANGED <<kube, state, started>>

UpdateTemplate(c) ==
  /\ At(c, "restore", "update")
  /\ template' = [template EXCEPT !.init = TRUE]
  /\ Goto(c, "up")
  /\ UNCHANGED <<saas, paused, secret, replicas, gateway, state, started>>

\* Mutant: back to the scale that is found.
ScalesToCurrent(c) ==
  /\ At(c, "restore", "up")
  /\ Become(c, [client[c] EXCEPT !.pc = "replicas", !.initial = replicas])
  /\ UNCHANGED <<kube, state, started>>

\* Mutant: one more than the highest ordinal is taken for the highest ordinal.
ScalesByOrdinal(c) ==
  /\ At(c, "restore", "up")
  /\ replicas' = client[c].initial + 1
  /\ Goto(c, "replicas")
  /\ UNCHANGED <<saas, paused, config, state, started>>

ScaleUp(c) ==
  /\ At(c, "restore", "up")
  /\ replicas' = client[c].initial
  /\ Goto(c, "replicas")
  /\ UNCHANGED <<saas, paused, config, state, started>>

ReplicasReached(c) ==
  /\ At(c, "restore", "replicas")
  /\ Cardinality(Existing) = client[c].initial
  /\ Goto(c, "ready")
  /\ UNCHANGED <<kube, state, started>>

Resume(c) ==
  /\ At(c, "restore", "resume")
  /\ paused' = FALSE
  /\ Succeed(c)
  /\ UNCHANGED <<saas, config, replicas, state, started>>

Restore(c) ==
  \/ ScaleDown(c) \/ ZeroReached(c) \/ UpdateTemplate(c) \/ ScaleUp(c)
  \/ ReplicasReached(c) \/ Await(c, "restore", "ready", "resume") \/ Resume(c)

Step(c) ==
  \/ CreateSecret(c) \/ SetupBrokers(c) \/ SetupGateway(c)
  \/ Await(c, "take", "await", "post") \/ Post(c)
  \/ Poll(c)
  \/ Restore(c)

\* Nothing is left to do.
Finished ==
  /\ started = MaxCommands
  /\ UNCHANGED vars

Next ==
  \/ \E c \in Clients : (\E op \in Ops : Start(c, op)) \/ Fails(c) \/ Step(c)
  \/ \E b \in Brokers : PodStep(b) \/ OtherCommand(b)
  \/ Processes \/ GatewayGoes \/ GatewayStarts \/ Reconcile \/ BackupEnds \/ AnswersChange
  \/ Finished

Spec == Init /\ [][Next]_vars

-----------------------------------------------------------------------------
(* Safety.                                                                 *)

\* A broker with the data of a backup never runs beside one that goes on with
\* its own from before: all brokers are down before the template changes, and
\* every pod made since, whoever restarts it, runs the init containers.
NoMixture ==
  ~ \E a, b \in Brokers : Runs(a) /\ Runs(b) /\ data[a] = "old" /\ Restored(b)

\* A restore that reports success has restored all brokers, from a backup that
\* is complete, and has given the cluster back to the operator.
Succeeds(c, op) == At(c, op, client[c].pc) /\ ~client[c].ok /\ client'[c].ok
RestoreSound ==
  [][\A c \in Clients : Succeeds(c, "restore") =>
        /\ \A b \in Brokers : Restored(b)
        /\ backup = "COMPLETED"
        /\ replicas = N /\ ~paused']_vars

\* "Restarts a Zeebe broker" (cmd/restart.go:32): what was processed after a
\* restore is not lost by a restart, only by another restore.
Restoring == \E c \in Clients : client[c].op = "restore" /\ client[c].pc # "idle"
NeverSetBack ==
  [][(\E b \in Brokers : data[b] = "new") /\ (\A b \in Brokers : data'[b] # "new")
       => Restoring]_vars

-----------------------------------------------------------------------------
(* Liveness.                                                               *)

\* Kubernetes and the operator make progress, and so do commands.  No backup has to
\* end, and no answer has to make sense.
BackupFairness ==
  /\ \A b \in Brokers : WF_vars(PodStep(b))
  /\ WF_vars(GatewayGoes) /\ WF_vars(GatewayStarts)
  /\ WF_vars(Reconcile)
  /\ \A c \in Clients : WF_vars(Step(c))

ProgressSpec == Spec /\ BackupFairness

\* Command c is told again and again neither that the backup ended nor how.
KeptWaiting(c) == At(c, "wait", "poll") /\ (~known \/ backup = "IN_PROGRESS")

\* Commands end, the unbounded waits for replicas of a restore included.  Only a wait
\* for a backup may go on for ever (backup.go:222): as long as the backup does, or
\* as its status is not among those that end the loop.
CommandsEnd ==
  \A c \in Clients :
    \/ client[c].pc # "idle" ~> client[c].pc = "idle"
    \/ []<>KeptWaiting(c)

\* A setup that reports success takes effect on a cluster that no restore has
\* left half way: the rolling updates that follow bring the settings to all
\* brokers and gateways, and in SaaS the operator leaves them alone.
SetupTakesEffect ==
  \A c \in Clients :
    client[c].op = "setup" /\ client[c].ok /\ replicas = N /\ ~template.init
      ~> Enabled \/ \E d \in Clients : client[d].op = "restore"

\* A restore that is not interrupted, of a cluster of full size with a complete
\* backup, brings all brokers back, restored.
RestoreBringsBack ==
  \A c \in Clients :
    At(c, "restore", "down") /\ replicas = N /\ backup = "COMPLETED" /\ secret /\ template.env
      ~> client[c].died \/ \A b \in Brokers : Ready(b) /\ Restored(b)
=============================================================================
