# TLA+ specifications of zbchaos

zbchaos (`src/go-chaos`) injects faults into Camunda/Zeebe clusters that run on
kubernetes.  It is used in two ways: a person runs one command
(`zbchaos terminate broker --nodeId 1`), or BPMN processes deployed to a Zeebe
test bench run whole experiments and hand the same commands, as jobs, to zbchaos
workers.  `src/chaos-days` is a blog and holds no program.

What is hard about the program is not in any single function.  A command is a
sequence of calls to three systems (kubernetes, the zeebe management API, the
zeebe engine) that change on their own between the calls; a command may be
executed again from its start, on another replica, after it got half way; and
several of its effects (debug containers, rolling updates, topology changes)
happen long after the call that asked for them has returned.

The specifications keep the control of the code: every state change, guard, early
return and error path of a modelled operation, in the order the code has them.
Names, payloads, log output and formatting are abstracted.

Contents: [inventory](#inventory) · [modules](#modules) · [runs](#runs) ·
[fairness](#fairness) · [findings](#findings) · [proofs](#proofs) ·
[plan](#plan) · [not modelled](#not-modelled) · [how to run](#how-to-run)

## Inventory

| component | state it keeps or changes | operations | interacts with |
|---|---|---|---|
| chaos processes (`internal/bpmn/chaos/*.bpmn`) | token, position, `successfulRun`, `successfulExperiment`, timers | read experiments, run actions in sequence, pause, time out, report | engine jobs |
| workers (`worker/chaos_worker.go`, `cmd/worker.go`) | one slot per job type in each of three replicas | activate, run a command in the process, complete, fail, fail without retries | engine jobs, all commands |
| experiment selection (`internal/chaos-experiments`) | none | look the version up, filter the manifest by it and the cluster plan | read handler of a worker |
| network partitions (`backend/connection.go`, `internal/network.go`, `cmd/connect.go`, `cmd/disconnect.go`) | unreachable routes in the pods' network namespaces, ephemeral containers | disconnect and connect of brokers and gateways | kubernetes, pods |
| cluster scaling (`cmd/cluster.go`, `internal/statefulset.go`) | topology changes of zeebe, replicas of the statefulset | scale brokers and partitions, wait, force failover | management API, statefulset |
| pod faults (`cmd/terminate.go`, `cmd/restart.go`, `internal/pods.go`) | pods | terminate and restart broker, gateway, worker, one or all | kubernetes, topology for a role |
| dataloss (`cmd/dataloss_sim.go`, `internal/dataloss_sim_helper.go`, `internal/volume.go`) | config map of block flags, init container, volume claims | prepare, delete, recover | statefulset, pods |
| verification (`cmd/verify.go`, `internal/zeebe.go`) | process instances, messages and jobs in the cluster under test | readiness, instance creation, instance count, job completion | pods, gateway |
| publish, exporting (`cmd/publish.go`, `cmd/exporting.go`) | messages, exporting | publish to a partition, pause, resume | gateway, management API |
| backup (`cmd/backup.go`) | secret, environment and init containers of the statefulset, replicas, backup status | setup, take, wait, restore | statefulset, gateway, SaaS operator |
| reconciliation (`internal/saas.go`) | pause flag of the SaaS operator | pause, resume | most commands |
| port forwarding, exec (`internal/pods.go`) | goroutines and streams around one call | open, close | gateway pods |
| topology, routing state, stress, deploy, version, flags, logging | none of their own | one request, or output | gateway, kubernetes |

What makes each of them correct, and what makes that hard:

* **Processes and workers.**  A report says PASSED only if every step of every
  experiment really succeeded, chaos is never introduced before the steady state
  was verified, a verdict comes and is final.  Hard: the job lock is five
  minutes (no timeout is set in `cmd/worker.go:85`) and commands may run far
  longer (a scale down waits up to 25), so that a step can be executed by two
  replicas at once; answers get lost, commands panic and take their worker with
  them.
* **Network partitions.**  What a disconnect reported is in force until it is
  taken back, and then nothing of it is left.  Hard: requests return when a debug
  container was added, not when it has run; containers run in any order or not
  at all; a restarted pod has a new IP and no routes; `connect brokers` removes
  the *first* unreachable route it finds, not a particular one.
* **Cluster scaling.**  Pods only go when their brokers have left, and every
  change ends.  Hard: two systems are changed one after the other, either may
  fail or be changed by another client in between, and the result is polled.
* **Pod faults and dataloss.**  A deleted broker stays down without its data
  until it is recovered, one loss at a time, and everything comes back.  Hard: a
  node id is an index into the pods that exist at this moment; flag, claim and
  pod are changed by three calls; a rolling update runs beside them.
* **Backup and restore.**  Brokers with old and with restored data never form one
  cluster, and a restore that reports success is whole.  Hard: a restore that is
  repeated finds the state its first half left; the operator undoes what it
  is not kept from; brokers restart while the template changes.
* **Experiment selection.**  Nothing is run the cluster is too old or too new for.
  Hard: the version has to be looked up and may stay unknown.
* **Verification, publish.**  Success means that what was asked for was seen, and
  every loop ends.  Hard: requests take effect although their answers are lost;
  partitions are added while a correlation key is looked for.

Every hazard met while reading the code is listed with its line under
`hazards` in `PROJECT.json`, together with the properties that would catch it
going wrong, or the reason why no property covers it.

## Modules

| module | models | used by |
|---|---|---|
| `ChaosToolkit` | the three BPMN processes as one token per run, and the life cycle of its job | `ChaosWorkers` |
| `ChaosWorkers` | workers, handlers, commands and the selection of experiments on top of it | `MCChaosWorkers`, `ChaosWorkers_proofs` |
| `ToolkitPromise` | abstract specification: what an automated run promises | refined by `ChaosWorkers` |
| `NetworkPartition` | disconnect and connect, debug containers, pods | `MCNetworkPartition`, `NetworkPartition_proofs` |
| `ClusterScaling` | scale, wait, failover, topology changes, statefulset | `MCClusterScaling`, `ClusterScaling_proofs` |
| `PodFaults` | terminate, restart, dataloss, verify readiness, pods, leaders | `MCPodFaults`, `PodFaults_proofs` |
| `BackupRestore` | backup setup, take, wait, restore; reconciliation | `MCBackupRestore`, `BackupRestore_proofs` |
| `ZeebeCommands` | the other verifications, publish, exporting | `MCZeebeCommands`, `ZeebeCommands_proofs` |
| `ChaosWorkers_proofs` | theorems about verdicts, steps and selection | `ChaosLocks_proofs`, `ChaosPromise_proofs` |
| `ChaosLocks_proofs` | theorems about locks and retries of jobs | |
| `ChaosPromise_proofs` | the refinement of `ToolkitPromise` | |
| `NetworkPartition_proofs`, `ClusterScaling_proofs`, `PodFaults_proofs`, `BackupRestore_proofs`, `ZeebeCommands_proofs` | theorems about the module they are named after | |
| `MC*` | small instances of each for TLC | the `.cfg` files |

`ChaosWorkers` composes the processes with the workers and the selection.  The
others model what a command does inside its single step "the command runs": a
job handler that executes the command, or a person at a terminal, is a member
of `Clients` there (a script in `PodFaults`).  What `ChaosWorkers` establishes,
that a command is executed again after a crash or a lost answer, from its
start and maybe beside itself, shows as a script step that is repeated
(`PodFaults`) or a client that starts over (the others).

Definitions marked *mutant* in a module are plausible bugs of the definition
after them.  No behaviour uses them; they exist so that each property can be
shown to notice one (`mutants` in `PROJECT.json`).

### ChaosToolkit and ChaosWorkers

All multi-instance bodies of the processes are sequential, so that a run has one
token.  `chaosExperiment` runs the probes, the method and the probes again; a
step is a position in that concatenation, and `at[r] = <<experiment, step>>`.

| variable | stands for |
|---|---|
| `token`, `at` | the element the run is at, with its place in the nested loops |
| `planned` | the experiments `readExperiments` returned, in the order of the manifest |
| `job`, `retries` | state of the job of the current service task |
| `successfulRun`, `successfulExperiment` | the process variables of these names |
| `handler` | the zbchaos handler of each process: idle, down, or a copy of the job it was handed |
| `reader` | the same for the read handler |
| `input` | the kind of variables a job carries; each makes `HandleZbChaosJob` take another branch |
| `target` | the target version the run was started with, if any |
| `reachable` | can a tunnel to a gateway of the cluster be opened |
| `succeeded` | history: steps some command of which returned nil |
| `overran` | history: runs of which a lock ran out under a live handler |

`RejectVariables`, `RejectImage`, `StartCommand`, `CommandFails` and
`CommandCompletes` are the branches of `HandleZbChaosJob` in their order;
`CompletionDropped` and the second disjunct of `FailJob` are the answers that are
lost or that the engine rejects because the job is no longer open.  A handler
acts on its copy of the job, whatever became of the job.  `ContextExpires` has no
effect on the command because no command reads its context.  `Crash` is a panic:
`ensureNoError`, a nil `clusterId`, a pod that is deleted.

`HandleReadExperiments` is `ReadSucceeds` and `ReadFails`.  `TargetVersions` is the
lookup of the version: the target of the run; otherwise the version of the
cluster, or none if a gateway can be reached but does not tell; otherwise nothing at
all, because without a service, a running pod or a tunnel `MustGatewayPortForward`
panics (`internal/pods.go:270`), which is a `Crash`.  Gateways come and go
(`GatewayChanges`).  `Fits` is the filter over the constant `Manifest`; without a
version, only experiments without bounds fit.

`ToolkitPromise` has neither jobs nor workers: steps are executed one after the
other, each at least once before it is left, possibly again or late, and the
verdict says whether all succeeded.  `KeepsPromise` says that every behaviour of
`ChaosWorkers` is one of it.

### NetworkPartition

A client's command looks pods up (`LookUpFirst`, `LookUpSecond`, or the gateway
and the list of brokers at once), keeps IPs, and becomes a list of requests, one
`AddContainer` or `RequestFails` each.  A disconnect stops at the first error, a
connect goes on.  Containers are a bag per pod and run in any order.  The three
shell command lines are modelled by what they do to a set of routes; that
`grep -m 1` picks one of several routes is a choice.  `PodStops`/`PodStarts`
give a pod a new incarnation, and with it a new IP and an empty routing table.
`owed`, `cut` and `last` are history.  With `Settled` a command starts only
when all containers have run; without it, at any time.

### ClusterScaling

`pending`, `lastChange` and `finished` are the topology changes of zeebe;
`Join`, `Leave`, `ChangeCompletes` and `ChangeFails` are modelled from what the
code expects of the management API and are marked external.  Growing is
`Request`, `UpdateScale`, `ReplicasReached`, `Poll`..., shrinking is `Request`,
`Poll`..., `UpdateScale`, `ReplicasReached`.  `Poll` is one iteration of
`waitForChange` with an answer, `QueryFails` one without; `ChangeStatus` is
`describeChangeStatus`.  The polls are bounded by `Polls`.  `AnswerLost` is a
change that was accepted although its answer never arrived.

`Target` is what zeebe makes of the request.  The PATCH request lists brokers to
have, or with `force` those to remove.  A zeebe before 8.6 (`legacy`) answers 405,
and `sendScaleRequest` posts the same list to the older endpoint, where it always
names the brokers the cluster is to have (`cmd/cluster.go:170`, `:226`): no list for
partitions, which `Acceptable` refuses, and the brokers that were to be removed for a
failover.  Nor does that request carry a number of partitions (`Parts`).

### PodFaults

Commands are given by a script, the method of an experiment.  Each call to
kubernetes is an action; `Ends` moves on to the next command or, if the answer
of the job got lost, repeats this one, `Panics` starts it over.  Node ids are
resolved by `Found`, an index into the alphabetical list of the pods that
exist, as in `GetBrokerPodForNodeId` (`Place` is the index of a name); roles by
`LookupRole`, the topology of the moment, after which the `leader` may change (`Elected`) before the pod is
deleted.  A topology can only be asked through a gateway that is up
(`Forwarded`).  The config map of block flags is `keys` and `flag`; the init
container makes a pod wait in `pending`.  `RollingUpdate` is what the
statefulset controller does after the patch.  Readiness (`AllReady`) looks at the
pods that are listed, and in SaaS at the gateways as well; like the wait of
`recover` it takes a pod that is being terminated, but still runs, for a ready
one (`SeemsReady`).  `Pauses` is the one assumption on when commands are executed: a
`dataloss delete` begins, and begins again, only when `OthersReady`.

### BackupRestore

| variable | stands for |
|---|---|
| `saas`, `paused` | is there an operator, and the label that pauses it |
| `secret`, `template`, `replicas` | the secret, and of the statefulset the settings for backups, the init containers and the scale |
| `gateway` | the deployment of the gateway, its settings, and the pod it has |
| `pod`, `data` | broker pods with what they were made from, and the origin of a broker's data |
| `backup`, `known` | status of the one backup id, and is a query answered with a status that `waitForBackup` knows |
| `client` | the command a process runs, and the number of replicas a restore remembers |

A restore is `ScaleDown`, `ZeroReached`, `UpdateTemplate`, `ScaleUp`,
`ReplicasReached`, `Await`, `Resume`; setup is `CreateSecret`, `SetupBrokers`,
`SetupGateway`; take is `Await`, `Post`; wait is `Poll`.  A command may fail or die
before each of them (`Fails`) and be started again.  Pods are created from the
template of that moment and keep what they were made with; `Wiped` and `Started`
are the two init containers of a restore.  `Reconcile` is the operator, which puts
back what it deployed unless it is paused, and every client created in SaaS
pauses it (`PausePreventive`).  `Processes` is zeebe at work: a majority of
restored brokers goes on from the backup.  `getBackupStatus` does not look at the
HTTP status and takes any JSON (`cmd/backup.go:338`), so that an error, or a status
nobody thought of, is one `waitForBackup` does not know: `AnswersChange` makes such
answers begin and end, and `Poll` goes on with the next one.

### ZeebeCommands

The loops of `CreateProcessInstanceOnPartition`, of the instance count and of
`AwaitJobCompletion`, request by request: `Create`, `CreateWithResult`, the
activation and completion of jobs, with a timer that is looked at between two
requests (`TimerFires`, `TimesOut`).  Instances are numbers with the partition
they are on and what they wait for; a request may take effect although its
answer is lost.  `KeyOf` and `ExtractPartitionIdFromKey` are the arithmetic of keys,
`CorrelationCodes` the search for a key of one character whose hash belongs to a
partition, over the codes of characters that can be typed.  `PartitionAdded` and
`RoutingUpdated` let the topology and the distribution of messages differ.

## Runs

Twelve runs.  "States" are distinct states.

| run | asks | instance | states |
|---|---|---|---|
| `chaos_run` | are verdicts sound and final, steps in order, retries endless, is only run what fits, is the promise kept, and is every run started, moved on and decided? | 2 workers, 1 run, 4 experiments of 3 steps in the manifest of which one or two are selected, 2 retries, all kinds of input, gateways that come and go | 138k |
| `chaos_timeout_ignored` | does a command end at its timeout? *violated* | 2 workers, 1 experiment, valid input | |
| `network_settled` | do cuts hold and connects take them back? | 3 brokers, 1 gateway, 1 client, 2 disconnects, 1 restart, commands one by one | 82k |
| `network_heals` | do repeated connects heal, with containers in any order and failing? | 2 brokers, 1 gateway, 1 disconnect | 85k |
| `network_connect_gateway` | does connect gateway undo disconnect gateway? *violated* | 2 brokers, 1 gateway | |
| `scaling_changes` | do brokers leave before their pods, do waits tell the truth, do changes and commands end? | up to 3 brokers in 2 regions, 2 partitions, one client that changes, one that waits, 2 changes, with PATCH and without, faults | 216k |
| `scaling_outdated` | do brokers leave first with two changing clients? *violated* | up to 2 brokers, 2 clients | |
| `pods_dataloss` | does a lost broker stay down until it is recovered, does a role find its pod, and do all recover? | 3 brokers, 1 gateway, 1 worker, in SaaS; 14 experiments of 2 to 5 commands, faults, pauses before `dataloss delete` only | 244k |
| `pods_gateway` | does terminate gateway delete gateways only? *violated* | 2 brokers, 2 gateways, 2 commands | |
| `backup_restore` | do old and restored data stay apart, is a restore that succeeds whole, does it bring the brokers back, does setup take effect? | 3 brokers, 1 client, 3 commands, with and without operator and gateway, faults, unknown answers | 244k |
| `backup_restart` | is a restart only a restart? *violated* | 1 broker, 1 client, 2 commands | |
| `zeebe_commands` | has a verification seen what it says, does a message reach its partition, do commands end? | 2 clients, 2 partitions, 2 instances, 2 of 7 commands, faults | 207k |

### Why the bounds are enough

* *Two workers, one run.*  Two replicas are what a re-execution beside a
  straggler takes; a third one adds no other relation between a handler and
  the run.  Runs share nothing but workers: a second run occupies a worker
  like a command that hangs, or a crash, does, and the theorems hold for any
  number of both.
* *Four experiments in the manifest*: one with a lower, one with an upper bound,
  one for another plan, one without bounds, on a cluster whose version is the
  lower bound, with a target below it or none.  Each selection has one or two
  experiments of *probe, action, probe*, so that a step has each kind of
  successor: the next one in the experiment, the first of the next experiment,
  none.  The action of the first one pauses.
* *Two retries* tell the failure that uses one up from those that do not.
* *Three brokers, two disconnects* let one broker hold two routes, so that
  `grep -m 1` has a choice, and let a second pair be disturbed by the
  connect of a first one.  One restartable broker is enough for a stale IP.
* *Two changes, two clients* make the last change a wait sees another client's.
  *One or two polls* stand for 60 to 300: a wait meets every status at
  its first and at its last iteration.
* *Three brokers* are the smallest cluster that restores lost data by a quorum,
  and in which a restored majority can go on without a broker that is not.
  The scripts of `pods_dataloss` lose one broker after the other, with and without
  `prepare` (as `broker-dataloss` does, which prepares nothing), and restart
  others, by id, by role and all, while the one in the middle is down, so that
  an index has a pod before and one behind it to be mistaken for.  Where the
  alphabetical order of names differs from that of the ordinals, and where the
  config map lacks keys, is beyond these bounds: the theorems say up to which
  number of brokers the properties hold, which is ten.
* *Three commands* of a backup client are a setup, a take and a restore, or a
  restore that dies, its repetition, and a restart of a broker in between.
* *Two commands, two partitions, two instances* of `zeebe_commands` let one client
  lose a job or an instance to the other, and a partition be added between
  the two requests of a publish.  `KeyBits` is 3 instead of 51: it only has to
  exceed the instances.
* Counters with a bound in a guard (`MaxDisconnects`, `MaxRestarts`,
  `MaxContainers`, `MaxChanges`, `MaxCommands`, `MaxInstances`, `Polls`) are named in
  the modules.  `Polls` is a bound the code has; the others bound what people
  and clusters do.

### Preconditions

* `Settled` and `~Faults` in the properties of `network_settled` are needed:
  without them a debug container that runs late undoes a later command.  That
  case is what `BrokersHeal` is about.
* `pods_dataloss` assumes of every execution of `dataloss delete`, repeated ones
  included, that it begins when all pods are there and the brokers it does not name
  are ready (`Pauses`, `OthersReady`).  `broker-dataloss` verifies readiness and
  pauses for 60 s before a delete, which mostly has that effect; nothing enforces it
  when the job is executed again.  Only `OneLossAtATime`, and `AllRecover` because
  two of three brokers cannot get their data back, need it; all else holds
  whenever commands are executed.  The theorem `LossesComeOneByOne` assumes exactly
  this of the steps that begin a delete.
* `NoOverlap` is about runs no lock of which ran out under a live handler; what
  holds of the others is `StepsInOrder`, `AdvancesOneStep` and `VerdictFinal`,
  which have no such condition.
* `scaling_changes` has one client that changes the cluster; `scaling_outdated`
  shows why.  Three theorems have the same assumption, `OneChanger`; that a wait
  tells the truth needs no such thing.
* `FailoverKeepsRegion` is about a zeebe that knows the PATCH request.  Before 8.6 the
  fallback keeps the brokers of the other regions, which the theorem
  `LegacyFailoversKeepTheOthers` states.
* `backup_restore` has one client, and other commands restart brokers only
  between restores (`Beside = FALSE`).  Readiness looks at the pods that are
  listed (`internal/pods.go:207`): with a second restore, or a restart beside the
  restore, one that is repeated may find a single pod and report success, and
  without an operator a second restore scales up pods of the first one's
  template.  The theorems about it have the same assumption, `Alone`.
* `RestoreBringsBack` starts from a cluster of full size: a restore that is
  repeated after it died between its two scalings finds 0 replicas and brings
  the cluster back to that (`cmd/backup.go:252`), where its wait for readiness
  runs out.
* `PublishReaches` leaves out a publish between whose two requests the
  distribution of messages changes.

Deadlock is checked in every run.  An experiment or a sequence of commands that
is over stutters explicitly (`Finished` in `PodFaults`, `BackupRestore` and
`ZeebeCommands`); in the others something can always move.

## Fairness

* `EveryRunDecided` assumes that timers of the engine fire and gateways are
  passed, and nothing of workers: they may hang, crash or fail for ever.  It is
  the reason for the boundary timers in the processes.  It starts when the
  experiments are read: `readExperiments` has no timer.
* `EveryRunStarts` assumes that processes restart, locks run out and reading that is
  attempted again and again while it can succeed comes to an end (strong
  fairness).  Its conditions are that variables can be parsed and something fits,
  whatever version the lookup leaves: otherwise the handler fails the job with
  no retries left and the run waits in an incident; and that a run without a
  target version finds a gateway at last.  Without one the lookup panics, the job is
  handed to the next process when its lock has run out, and takes that one down too,
  for as long as no gateway can be reached: nothing in the code ends this.
* `EveryStepLeft` assumes no timer.  Instead kubernetes restarts processes, locks
  and backoffs run out, every command comes back, and a step that is
  attempted again and again is acknowledged at some attempt (strong
  fairness): errors are retried without limit (`chaos_worker.go:136`), so that
  transient faults give it infinitely many attempts.
* `BrokersHeal` assumes that `connect brokers` is repeated, that containers
  run, and that one that is tried again and again succeeds.
* `ChangesEnd`, `CommandsEnd` of `ClusterScaling` assume that zeebe executes the
  operations it can, kubernetes follows the replicas, and commands go on; no
  failure is forced, and any may happen.  `ChangesEnd` names the two
  ways in which a change stays: its client is gone (`Orphaned`), or it has to remove
  a member whose pod a later scale took (`Stranded`).
* `AllRecover` assumes progress of pods, of the election of a leader and of the
  rolling update, and that a command executed again after a timeout succeeds at
  some time (strong fairness); it is stated for behaviours in which panics and
  lost answers end.
* `BackupFairness` assumes progress of pods, gateway and operator, and that
  commands make their calls; each may fail instead.  Nothing is assumed of the
  backup or of the answers about it: `CommandsEnd` names the wait that goes on
  for ever, because it is told again and again that the backup is in progress, or
  nothing it knows (`KeptWaiting`).
* `CommandFairness` assumes that requests return and timers fire.  The loops wait
  in a `select` for a ticker and a timer that may both be ready, of which
  the runtime takes one at random: strong fairness of `TimesOut`.

## Findings

Five places where a comment, a help text or an experiment says one thing and
the code does another; each has a run that finds the counterexample.

1. **The timeout of a command is ignored** (`chaos_timeout_ignored`).
   `chaos_worker.go:37` calls the field "the timeout for the command"; the
   context it ends is read by no command, and the slot of the worker stays taken.
2. **connect gateway leaves half of a disconnect** (`network_connect_gateway`).
   `backend/connection.go:83` removes routes in the gateway, not those towards
   it in the brokers, while `cmd/connect.go:42` says that all gateways are
   connected again.
3. **An outdated change counts as a success** (`scaling_outdated`).  If the
   change of a scale down failed and another one followed before the next
   poll, the statefulset is scaled although the brokers are members
   (`cmd/cluster.go:331` against the comment at `:137`).
4. **terminate gateway may delete brokers** (`pods_gateway`).  Without a running
   gateway the brokers are taken for embedded gateways (`internal/pods.go:124`
   against `cmd/terminate.go:52`), which a repeated command meets.
5. **After a restore, a restart sets a broker back** (`backup_restart`).  Outside of
   SaaS nothing takes the init containers out of the statefulset again
   (`cmd/backup.go:287`), so that every broker that restarts later deletes its data
   and restores the old backup, while `cmd/restart.go:32` describes a restart.

Met as well, and not given a run of their own:

* `broker-dataloss` may lose two brokers: the readiness it waits for looks at the
  pods that are listed, among them one that is being terminated and is still
  ready, and not one that does not exist (`internal/pods.go:207`).  The
  experiment pauses for 60 s after each loss, which makes this unlikely.  And a delete
  that is executed again while its pod does not exist takes the next one's data,
  because the node id is an index.
* A failover of a zeebe before 8.6 keeps the wrong region: after a 405 the brokers to
  remove are posted as those the cluster is to have (`cmd/cluster.go:170`, `:226`,
  `:388`).  Scaling partitions posts no brokers at all (`:118`).
* `backup wait` polls for ever if it is answered with an error or with a status
  it does not know (`cmd/backup.go:222`, `:338`).
* A run that has to look up the version of a cluster without a gateway takes
  down the worker processes one after the other (`worker/chaos_worker.go:222`).
* `connect brokers` takes back one route per broker, so that after two
  disconnects one connect is not enough (`internal/network.go:34`, stated
  positively by `RoutesOwed`).
* A query that fails uses up an iteration of `waitForChange` without its sleep
  (`cmd/cluster.go:311` against `:346`), so that a wait may be far shorter than it
  should.
* A scale up after a scale down that failed half way takes the pod of a member that
  is to leave; the change stays pending and every later one is refused
  (`cmd/cluster.go:127`, the exception `Stranded`).
* `cmd/verify.go:144` says that the creation of an instance is not retried if
  `--awaitResult` is set; the loop tries again until its time is over.
* `exporting pause` and `resume` look at the error of the request, not at the
  status of the answer (`cmd/exporting.go:34`).
* With more than ten brokers an index into alphabetical names is not a node id
  (`internal/zeebe.go:104`); the config map has keys for nine ordinals, so that
  `prepare` blocks a tenth broker (`internal/dataloss_sim_helper.go:138`).
  `PodFaults_proofs!PlacesShift` proves it of eleven brokers and node id 2.
* The search for a correlation key refuses 78 partitions, although its message
  says that they "must not exceed 78" and 79 characters would do
  (`internal/zeebe.go:425`); `KeysForPartitions` states what it accepts.

## Proofs

Every invariant, action property and refinement that a passing run checks is
also a theorem, for every value of the constants.

| module | theorem | statement |
|---|---|---|
| `ChaosWorkers_proofs` | `TypeCorrect` | `Spec => []TypeOK` |
| | `VerdictIsSound` | `Spec => []VerdictSound` |
| | `StepsAreInOrder` | `Spec => []StepsInOrder` |
| | `StepsAdvanceOneByOne` | `Spec => AdvancesOneStep` |
| | `VerdictsAreFinal` | `Spec => VerdictFinal` |
| | `OnlyWhatFitsIsRun` | `Spec => []RunsWhatFits` |
| `ChaosLocks_proofs` | `ReplicasDoNotOverlap` | `Spec => []NoOverlap` |
| | `ErrorsKeepRetries` | `Spec => []ErrorsNeverExhaustRetries` |
| `ChaosPromise_proofs` | `WorkersKeepPromise` | `Spec => KeepsPromise` |
| `NetworkPartition_proofs` | `NetworkTypes` | `Spec => []TypeOK` |
| | `NobodyCutFromItself` | `Spec => []NeverCutFromItself` |
| | `DisconnectsHold` | `Spec => []CutsHold` |
| | `ConnectsTakeRoutesBack` | `Spec => []RoutesOwed` |
| | `GatewaysAreConnected` | `OneGateway` implies `Spec => []GatewayReachesBrokers` |
| `ClusterScaling_proofs` | `ScalingTypes` | `Spec => []TypeOK` |
| | `WaitsTellTheTruth` | `Spec => []WaitVerdictSound` |
| | `BrokersLeaveBeforePods` | `OneChanger` implies `Spec => []BrokersLeaveFirst` |
| | `FailoversKeepTheirRegion` | `OneChanger` implies `Spec => []FailoverKeepsRegion` |
| | `LegacyFailoversKeepTheOthers` | `OneChanger` implies `Spec => []LegacyFailoverKeepsOthers` |
| `PodFaults_proofs` | `PodTypes` | `Spec => []TypeOK` |
| | `LostBrokersStayDown` | `Spec => []LostStaysDown` |
| | `RolesFindTheirPods` | `N <= 10` implies `Spec => RoleFound` |
| | `LossesComeOneByOne` | `N <= 10` implies `Spec /\ [][CarefulDelete]_vars => []OneLossAtATime` |
| `BackupRestore_proofs` | `BackupTypes` | `Alone` implies `Spec => []TypeOK` |
| | `RestoreNeverMixes` | `Alone` implies `Spec => []NoMixture` |
| | `RestoreSucceedsWhole` | `Alone` implies `Spec => RestoreSound` |
| `ZeebeCommands_proofs` | `CommandTypes` | `Spec => []TypeOK` |
| | `VerificationsTellTheTruth` | `Spec => VerifiedSound` |
| | `MessagesReachTheirPartition` | `Spec => PublishReaches` |
| | `KeysForPartitions` | there is a correlation key for partition `p` of `count` exactly if `p <= count` and `count < 78` |

The modules' assumptions on their constants (`ToolkitAssumption` and so on) are
evaluated by TLC in the runs.  They name the types of constants and the
finiteness of sets of pods; what else a theorem needs stands in its ASSUME.

### Automated runs

For every number of runs, workers, experiments, steps and retries, every kind of
input, every manifest, plan and version.

*Assumptions.*  `ToolkitAssumption` (experiments have at least one step, jobs at
least one retry) and `WorkerAssumption` (the kinds of input; `NoRun` is no run;
versions are numbers).  TLC evaluates both in the runs of `MCChaosWorkers`.

*Argument.*  None of the properties is inductive.  That a run which PASSED has
succeeded at all steps is known only because each earlier state of the token
carried a part of it.  `RunInv(r)` writes down what it carries: all steps before
`at[r]` have succeeded; behind the task, as long as `successfulRun` is set, so has
`at[r]`; at the end of an experiment that was successful `at[r]` is its last
step; a PASSED run is at the last step of the last planned experiment.  It also says
that a job that may still be handed out has a retry left, which is what the type
of a handler's copy needs.  `HandlerInv(w)` says that a busy handler, however
late, holds a step its run has reached; steps being in order follows from it
because positions are ordered lexicographically (`BeforeTransitive`,
`NextStep`, `NextFirstStep`).  `ProgressInv` is the conjunction with the types.
`InitProgress` and the lemmas named `...KeepsProgress`, one step per action, make
up `ProgressInvariant`.

`StepsAdvanceOneByOne` adds who can move the token (`WhoAdvances`: the gateways of
the two loops only) to the lemmas about the order.  `VerdictsAreFinal` rests on
`JobInv`: behind the task no job is open, so that no answer, lock or backoff finds
one.  `OnlyWhatFitsIsRun` rests on `FitInv`: what is planned suits the run, the
token stays within the plan, and a handler keeps a step of it even when its run
has gone on; `SelectionSuits` is the lemma about the filter and the lookup.

`ReplicasDoNotOverlap` is about runs no lock of which ran out under a live handler.
`HeldInv` says what such a handler can rely on: as long as its run waits at the task,
it waits at the handler's step and its job stays locked, which is why nobody else
is handed it; and if a timer took the task away, the run is on its way to a FAILED
report, because `runnerEnd` and the loops find the variable that the timer left
false, so that it never comes to another task.  At most one handler is in that
position.  `ErrorsKeepRetries` follows from the retries a handler's copy carries.

`WorkersKeepPromise` maps `token` to the verdict of a run and leaves the rest as it
is.  `InitKeepsPromise` and one lemma per kind of step show that what workers and
the engine do is a step of `ToolkitPromise` or none: answers of handlers are
`Execute` steps not ahead of their run (`ProgressInv`), gateways advance the
run, `StartedInv` gives every run at a task its plan.

### Network partitions

For every number of brokers, gateways, processes, disconnects, restarts and
containers.

*Assumptions.*  `NetworkAssumption`; and for `GatewaysAreConnected` that there is one
gateway, since `connect gateway` asks the first one only (`OneGateway`).

*Argument.*  `NetworkInv` needs nothing of the timing: every request and container of a
command is of its kind, looks up pods that existed, and never names the pod it
runs in; therefore no route does.  The other three properties speak of moments at which
all is quiet, and are stated for commands that wait for each other without faults
(`Calm`).  `CalmInv` says what holds in between, for four things.  `OneCommand`: all
requests and containers belong to one command.  `InForce`: the route of a reported
cut is there or a container that sets it is.  `Accounted`: a broker has at
most one container, and its routes, with what that container adds or takes, are
at most the owed ones; this is what makes it irrelevant which route `grep -m 1`
picks.  `Reaching`: a route to a listed broker is still to be deleted by a container or
by a request.  One lemma per action and part, `...Keeps` for `NetworkInv` and
`...Calmly` for `CalmInv`.  Containers are bags built with the operators of
`Bags`, and `SetsAsSequences` is what is known of a list of pods.

### Cluster scaling

For every number of brokers, regions, partitions, processes, polls and changes.

*Assumptions.*  `ScalingAssumption`, and `OneChanger` where the table says so.

*Argument.*  Zeebe shows only its last change, and a wait concludes from it about an
earlier one.  `NumberingInv` makes that sound: exactly the changes up to the last one
have ended, with the status that is recorded, and the pending one is the next.
`StatusTells` is the lemma about `ChangeStatus`.  `CommandInv` ties a command's result
to what has become of its change.  `ChangerInv` is about the process that asks for
changes: while it waits, the pending change or else the last one is its own, and
leaves the brokers it wants, or what the legacy request makes of them (`Wanted`);
when it goes on to the statefulset, no
change is pending and the members are those.  It fails with two such processes,
which `scaling_outdated` shows.

### Pod faults

For every experiment, and any number of gateways and workers.

*Assumptions.*  `PodAssumption`, and the conditions in the table.  With up to
ten brokers an index into alphabetical names is a node id (`PlaceOfNode`), with
eleven it is not (`PlacesShift`).  That `prepare` writes keys for nine brokers only
does not matter to the safety properties: the tenth stays down until a
`recover` names it.

*Argument.*  `LostBase` is inductive whenever commands are executed: `PatchInv` says that a
config map without a patch exists only within `prepare`, and that pods with the init
container come from the patch; `LostInv` that a broker whose loss was brought about
has its flag set, a claim that goes with its pod, and no pod but one that
terminates or waits for its flag.

`RolesFindTheirPods` is about the list of pods at the moment it is read.  `IndexShifts`
counts the pods before one at index `id`: if those up to `id` exist it is that of
`id`, and if one is missing it is a higher one.  `IndexFinds` says that every index
below the number of pods is taken (`PlacesTaken`).

`HitInv` says which brokers are hit, that is, without data or with a claim in deletion:
at most one, and while a `dataloss delete` is under way only the one it is about.
A claim in deletion goes with a pod that terminates, or is that of the current delete,
and what is ready has its data; so when a delete begins with the other brokers
ready, nobody else is hit, and with all pods there the index finds the broker
(`DeleteFindsItsBroker`).  `CarefulDelete` asks for this of those steps only.  The
experiments, the flags, and what other commands find make no difference.
`LossesComeOneByOneWithPauses` is the special case that the run checks.

### Restore

For every number of brokers and commands, with and without operator and faults.

*Assumptions.*  `BackupAssumption` (evaluated in the runs of `MCBackupRestore`), and
`Alone`: at most one client, and no other command restarts brokers beside a
restore; see the preconditions.

*Argument.*  `NoMixture` is not inductive: it says nothing of the pods that are about
to start, nor of where the restore is.  `TemplateInv` says, as long as a broker
has data from before the restore, what the template implies: with init
containers in it, every pod that exists was made with them and the operator is
paused; without, no pod has them and nothing is restored.  `ClientInv` says what
the restore has established at each call: the scale is 0, all pods are gone when
the template changes, pods that come afterwards are made from it and are within the
scale it remembers, at the end all are ready.  That the number of pods reaching
the number of brokers means all of them is `BrokerCount`.  `RestoreInvariant`
puts it together, with one lemma each for steps of pods, of the surroundings and of
commands; the theorems follow, the last with `ResumeRestored`.

### Commands against zeebe

For every number of clients, partitions, instances and commands.

*Assumptions.*  `CommandsAssumption` only.

*Argument.*  Both properties are about the step with which a command ends, and follow
from what it has gathered (`CommandInv`): its count is the number of
instances it has seen, all of which were created, and for `verify job-completion`
are done; the key of a message about to be sent belongs to the partition it
is for, by the number of partitions read before.  What was seen stays true because
instances never become uncreated or undone (`Lasting`), although a job may time
out and be given to another client.  `KeysForPartitions` is a fact about remainders: among
the codes 48 to 126 there is one of every remainder by up to 77.

### Only model-checked

The properties that something must happen: `EveryRunStarts`, `EveryRunDecided`,
`EveryStepLeft`, `BrokersHeal`, `ChangesEnd`, `CommandsEnd` (of three modules),
`AllRecover`, `SetupTakesEffect` and `RestoreBringsBack`; and what the
runs marked *violated* refute.

*Beyond the prover.*  Liveness under fairness and anything with ENABLED stays with
TLC, and so would induction over data and recursive operators; no module that
is proved about uses a recursive operator.

## Plan

All modules of the plan are built.

| | module | models |
|---|---|---|
| A | `ChaosToolkit`, `ChaosWorkers`, `ToolkitPromise` | processes, jobs, workers, selection |
| B | `NetworkPartition` | disconnect, connect |
| C | `ClusterScaling` | scale, wait, failover |
| D | `PodFaults` | terminate, restart, dataloss, readiness |
| E | `BackupRestore` | setup, take, wait, restore, reconciliation |
| F | `ZeebeCommands` | verifications, publish, exporting |

*Proofs to come*:

1. What the liveness properties rest on and is safety: that a run which is not
   decided always has a timer or a gateway to wait for, that a change
   which is pending has an operation left or is stranded.
2. The findings, the other way round: a further assumption under which each
   property that a run refutes holds, such as `GatewayOnly` in behaviours in which
   a gateway is always running.

## Not modelled

* **Labels, namespaces, flags, logging, version**: configuration, parsing and
  output.  Of the kubernetes client only the preventive pause is modelled.
* **Topology, routing state, cluster status**: each is one request whose answer is
  printed; no state of the program changes.
* **Stress**: one debug container that starts a load generator for a given time.
  Its effect is load, and the models represent no time.
* **Deploy**: creates objects from embedded files and takes existing ones for
  done.
* **Port forwarding and exec**: threads and streams of client-go around a single
  call; whether there is a pod to forward to is part of `PodFaults` and
  `BackupRestore`.  Tunnels that are left open when a command panics
  (`internal/pods.go:270`) end with its process.
* **`worker/fake.go`, `internal/fake.go`**: test doubles.
* **`src/chaos-days`**: a blog.
* Within modelled parts: titles and messages of a report; credentials; replication
  factor and priorities of a scale command, which change no state of the model;
  the content of partitions; the label of the namespace a client removes; the
  second fallback of `GetGatewayPodNames`, to core pods when there is neither
  gateway nor broker (`internal/pods.go:131`).

## How to run

In this directory, with the TLA+ tools, the community modules and tlapm:

    tlc -workers 2 -config ChaosRun.cfg MCChaosWorkers
    tlapm ChaosWorkers_proofs.tla
    tlapm ChaosLocks_proofs.tla

and so on for each `.cfg` and each `*_proofs.tla`.

`PROJECT.json` lists all runs with their configurations, the source lines each
definition models (`map`), the mutants and the hazards.  Runs marked *violated*
above are expected to end with a counterexample.
