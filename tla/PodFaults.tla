----------------------------- MODULE PodFaults -----------------------------
(***************************************************************************)
(* The zbchaos commands that delete pods and volumes: terminate, restart,  *)
(* dataloss prepare/delete/recover, and verify readiness which an          *)
(* experiment puts after them (cmd/terminate.go, restart.go,               *)
(* dataloss_sim.go, internal/pods.go, zeebe.go, volume.go,                 *)
(* dataloss_sim_helper.go), on the statefulset of the brokers and the      *)
(* deployment of the gateways.                                             *)
(*                                                                         *)
(* A command is a sequence of calls to kubernetes.  Commands are given by  *)
(* a script, the method of an experiment; a worker whose command panicked  *)
(* or whose answer got lost executes the same command again.               *)
(***************************************************************************)
EXTENDS Naturals, FiniteSets, Sequences, SequencesExt

CONSTANTS
  N,         \* brokers are the ordinals 0..N-1 of the statefulset
  Gateways,  \* replicas of the gateway deployment
  Workers,   \* replicas of the deployment of workers
  SaaS,      \* TRUE: the cluster is run by an operator
  Scripts,   \* sequences of [op, id]
  NoPod,     \* no pod has been looked up
  Faults,    \* TRUE: calls and processes may fail, answers may get lost
  Pauses     \* TRUE: "dataloss delete" starts, and starts again, only when the
             \* pods are there and the other brokers are ready

Brokers == 0..(N - 1)
Pods == Brokers \cup Gateways \cup Workers
DefaultKeys == 0..8
Ops == {"prepare", "delete", "recover", "verify",
        "broker", "LEADER", "FOLLOWER", "brokers",
        "gateway", "gateways", "worker", "workers"}
Roles == {"LEADER", "FOLLOWER"}
\* Do the deletions of a pod respect its grace period?  "restart" and
\* "dataloss delete" do, "terminate" does not.
Commands == [op : Ops, id : Brokers, grace : BOOLEAN]

ASSUME PodAssumption ==
  /\ N \in Nat \ {0}
  /\ Gateways \cap Nat = {} /\ NoPod \notin Pods
  /\ Workers \cap (Nat \cup Gateways) = {}
  /\ IsFiniteSet(Gateways) /\ IsFiniteSet(Workers)
  /\ SaaS \in BOOLEAN
  /\ \A s \in Scripts : s \in Seq(Commands) /\ s # <<>>
  /\ Faults \in BOOLEAN /\ Pauses \in BOOLEAN

VARIABLES
  pod,        \* life cycle of a pod
  initBlock,  \* pods that were created with the dataloss init container
  dropped,    \* brokers whose volume claim is being deleted
  data,       \* brokers that have their data
  leader,     \* the broker that leads the partition commands are about
  patched,    \* the statefulset has the init container
  keys, flag, \* the config map: ordinals with a key (none: there is no map),
              \* ordinals whose key says "true"
  script, step,      \* the experiment, its current command
  pc, target, todo,  \* where the command is, the pods it is about
  simulated   \* brokers whose loss dataloss delete has brought about: claim
              \* and flag were changed before the pod was deleted (history)

cluster == <<pod, initBlock, dropped, data, leader>>
config  == <<patched, keys, flag>>
command == <<script, step, pc, target, todo>>
vars == <<cluster, config, command, simulated>>

Phases == {"absent", "pending", "starting", "ready", "terminating"}

TypeOK ==
  /\ pod \in [Pods -> Phases]
  /\ initBlock \subseteq Brokers /\ dropped \subseteq Brokers /\ data \subseteq Brokers
  /\ leader \in Brokers
  /\ patched \in BOOLEAN /\ flag \subseteq keys /\ keys \subseteq Brokers
  /\ script \in Scripts /\ step \in 1..(Len(script) + 1)
  /\ pc \in {"idle", "claim", "flag", "find", "kill", "await", "poll"}
  /\ target \in Pods \cup {NoPod}
  /\ todo \in Seq(Pods)
  /\ simulated \subseteq Brokers

Init ==
  /\ pod = [p \in Pods |-> "ready"]
  /\ initBlock = {} /\ dropped = {} /\ data = Brokers /\ leader = 0
  /\ patched = FALSE /\ keys = {} /\ flag = {}
  /\ script \in Scripts /\ step = 1
  /\ pc = "idle" /\ target = NoPod /\ todo = <<>>
  /\ simulated = {}

-----------------------------------------------------------------------------
(* Listing pods.                                                           *)

Running(p) == pod[p] \in {"starting", "ready", "terminating"}

\* All broker pods that exist, but only gateway pods in phase Running.
ListedBrokers == {b \in Brokers : pod[b] # "absent"}
ListedGateways == {g \in Gateways : Running(g)}
ListedWorkers == {w \in Workers : Running(w)}

\* The order of the names zeebe-0, zeebe-1, zeebe-10, zeebe-2, ...
Alphabetical(a, b) ==
  LET Digits(n) == IF n < 10 THEN <<n>> ELSE <<n \div 10, n % 10>>
      x == Digits(a)
      y == Digits(b)
  IN  \/ x[1] < y[1]
      \/ x[1] = y[1] /\ Len(x) < Len(y)
      \/ x[1] = y[1] /\ Len(x) = 2 /\ Len(y) = 2 /\ x[2] < y[2]

\* How many names are listed before the one of p.
Place(p) == Cardinality({q \in ListedBrokers : Alphabetical(q, p)})

\* Mutant: only running brokers are listed, as for gateways.
RunningOnly(id, p) ==
  /\ Running(p)
  /\ Cardinality({q \in ListedBrokers : Running(q) /\ Alphabetical(q, p)}) = id

\* GetBrokerPodForNodeId: an index into that list, not a name.
Found(id, p) == p \in ListedBrokers /\ Place(p) = id

BrokerPodNames ==
  [i \in 1..Cardinality(ListedBrokers) |-> CHOOSE p \in ListedBrokers : Place(p) = i - 1]

\* GetGatewayPodNames: without a running gateway the brokers are taken for
\* embedded gateways.  (Without those either, the pods of a deployment in one
\* piece are listed; there are none beside brokers and gateways.)
GatewayPodNames ==
  IF ListedGateways # {} THEN SetToSeq(ListedGateways) ELSE BrokerPodNames

\* MustGatewayPortForward: to one of the running pods behind the service.
Forwarded == ListedGateways # {}

-----------------------------------------------------------------------------
(* Kubernetes and zeebe.                                                   *)

\* The pod is gone; a claim in deletion goes with it and is created anew.
Gone(S) ==
  /\ data' = data \ (S \cap dropped)
  /\ dropped' = dropped \ S

\* Delete(p) with or without a grace period.
Kill(p, grace) ==
  /\ pod' = [pod EXCEPT ![p] = IF grace THEN "terminating" ELSE "absent"]
  /\ IF grace THEN UNCHANGED <<data, dropped>> ELSE Gone({p})
  /\ UNCHANGED <<initBlock, leader>>

Terminated(p) ==
  /\ pod[p] = "terminating"
  /\ pod' = [pod EXCEPT ![p] = "absent"]
  /\ Gone({p})
  /\ UNCHANGED <<initBlock, leader, config, command, simulated>>

Created(p) ==
  /\ pod[p] = "absent"
  /\ pod' = [pod EXCEPT ![p] = "pending"]
  /\ initBlock' = IF patched /\ p \in Brokers THEN initBlock \cup {p} ELSE initBlock \ {p}
  /\ UNCHANGED <<dropped, data, leader, config, command, simulated>>

\* The init container ends when it reads "false", and loops if it reads
\* nothing.
Unblocked(b) == b \in initBlock => b \in keys \ flag

Started(p) ==
  /\ pod[p] = "pending"
  /\ p \in Brokers => Unblocked(p)
  /\ pod' = [pod EXCEPT ![p] = "starting"]
  /\ UNCHANGED <<initBlock, dropped, data, leader, config, command, simulated>>

\* A broker gets lost data back from the others before it is ready.
Readied(p) ==
  /\ pod[p] = "starting"
  /\ p \in Brokers \ data => 2 * Cardinality(data) > N
  /\ pod' = [pod EXCEPT ![p] = "ready"]
  /\ data' = data \cup ({p} \cap Brokers)
  /\ UNCHANGED <<initBlock, dropped, leader, config, command, simulated>>

\* The rolling update that follows the patch: from the highest ordinal down,
\* one pod at a time, each after the ones above are ready.
RollingUpdate(b) ==
  /\ patched
  /\ b \notin initBlock
  /\ \A a \in Brokers : pod[a] = "ready" /\ (a > b => a \in initBlock)
  /\ Kill(b, TRUE)
  /\ UNCHANGED <<config, command, simulated>>

\* A majority elects another leader, because the old one went or for any other
\* reason.
Elected(b) ==
  /\ b # leader /\ pod[b] = "ready"
  /\ 2 * Cardinality({a \in Brokers : pod[a] = "ready"}) > N
  /\ leader' = b
  /\ UNCHANGED <<pod, initBlock, dropped, data, config, command, simulated>>

\* What the topology says.
HasRole(b, role) ==
  /\ pod[b] = "ready"
  /\ role = (IF b = leader THEN "LEADER" ELSE "FOLLOWER")

\* What pauses and probes before a dataloss delete are to bring about.
OthersReady(id) ==
  \A b \in Brokers : pod[b] = "ready" \/ (b = id /\ pod[b] # "absent")

-----------------------------------------------------------------------------
(* Running a command.                                                      *)

Command == script[step]
Done == step > Len(script)
At(op, where) == ~Done /\ Command.op = op /\ pc = where
Goto(where, p, rest) == pc' = where /\ target' = p /\ todo' = rest

\* A new execution of the current command begins.
Begins(op) ==
  /\ At(op, "idle")
  /\ Pauses /\ op = "delete" => OthersReady(Command.id)
  /\ UNCHANGED <<script, step>>

Continues == UNCHANGED <<script, step, simulated>>

\* The command returned without an error.  Its job is completed, unless the
\* answer gets lost.
Ends ==
  /\ step' \in {step + 1} \cup (IF Faults THEN {step} ELSE {})
  /\ Goto("idle", NoPod, <<>>)
  /\ UNCHANGED script

\* It panicked or its process died.
Panics ==
  /\ Faults
  /\ ~Done /\ pc # "idle"
  /\ Goto("idle", NoPod, <<>>)
  /\ UNCHANGED <<cluster, config, script, step, simulated>>

\* Mutant: with the config map there, all is taken to be prepared.
SkipsExisting ==
  /\ At("prepare", "idle")
  /\ keys' = DefaultKeys \cap Brokers
  /\ IF keys = {}
     THEN Goto("find", NoPod, <<>>) /\ UNCHANGED <<script, step>>
     ELSE Goto("idle", NoPod, <<>>) /\ step' = step + 1 /\ UNCHANGED script
  /\ UNCHANGED <<cluster, patched, flag, simulated>>

\* dataloss prepare: an existing config map is kept, then the patch.
Prepare ==
  /\ Begins("prepare")
  /\ keys' = IF keys = {} THEN DefaultKeys \cap Brokers ELSE keys
  /\ Goto("find", NoPod, <<>>)
  /\ UNCHANGED <<cluster, patched, flag, simulated>>

Patch ==
  /\ At("prepare", "find")
  /\ patched' = TRUE
  /\ Ends
  /\ UNCHANGED <<cluster, keys, flag, simulated>>

\* dataloss delete.
DeleteFinds ==
  /\ Begins("delete")
  /\ \E p \in Brokers : Found(Command.id, p) /\ Goto("claim", p, <<>>)
  /\ UNCHANGED <<cluster, config, simulated>>

\* DeletePvcOfBroker: the pod is read again; an error is ignored.
DeleteClaim ==
  /\ At("delete", "claim")
  /\ \/ pod[target] # "absent" /\ dropped' = dropped \cup {target}
     \/ (Faults \/ pod[target] = "absent") /\ UNCHANGED dropped
  /\ Goto("flag", target, <<>>)
  /\ Continues
  /\ UNCHANGED <<pod, initBlock, data, leader, config>>

SetKey(id, value) ==
  /\ keys' = keys \cup {id}
  /\ flag' = IF value THEN flag \cup {id} ELSE flag \ {id}

\* Mutant: the flags are counted from one.
BlocksNext ==
  /\ At("delete", "flag")
  /\ keys # {} /\ SetKey(Command.id + 1, TRUE)
  /\ Goto("kill", target, <<>>)
  /\ Continues
  /\ UNCHANGED <<cluster, patched>>

\* SetInitContainerBlockFlag: without a config map, or if it has changed in
\* between, an error is returned and ignored.
SetFlag ==
  /\ At("delete", "flag")
  /\ \/ keys # {} /\ SetKey(Command.id, TRUE)
     \/ (Faults \/ keys = {}) /\ UNCHANGED <<keys, flag>>
  /\ Goto("kill", target, <<>>)
  /\ Continues
  /\ UNCHANGED <<cluster, patched>>

\* Delete(p) fails if there is no such pod, and the command panics.
Deleted(p, grace) ==
  /\ pod[p] # "absent"
  /\ IF grace /\ pod[p] = "terminating" THEN UNCHANGED cluster ELSE Kill(p, grace)

NotFound(p) ==
  /\ pod[p] = "absent"
  /\ Goto("idle", NoPod, <<>>)
  /\ UNCHANGED <<cluster, config, script, step, simulated>>

DeleteKills ==
  /\ At("delete", "kill")
  /\ \/ /\ Deleted(target, TRUE)
        /\ simulated' = simulated \cup ({target} \cap dropped \cap flag)
        /\ Ends
        /\ UNCHANGED config
     \/ NotFound(target)

\* Mutant: the update of the config map fails unnoticed.
KeepsFlag ==
  /\ Begins("recover")
  /\ keys # {}
  /\ simulated' = simulated \ {Command.id}
  /\ Goto("find", NoPod, <<>>)
  /\ UNCHANGED <<cluster, config>>

\* dataloss recover.
Unblock ==
  /\ Begins("recover")
  /\ keys # {} /\ SetKey(Command.id, FALSE)
  /\ simulated' = simulated \ {Command.id}
  /\ Goto("find", NoPod, <<>>)
  /\ UNCHANGED <<cluster, patched>>

RecoverFinds ==
  /\ At("recover", "find")
  /\ \/ \E p \in Brokers : Found(Command.id, p) /\ Goto("await", p, <<>>)
     \/ ~(\E p \in Brokers : Found(Command.id, p)) /\ Goto("idle", NoPod, <<>>)
  /\ Continues
  /\ UNCHANGED <<cluster, config>>

\* Running and ready, as checkIfBrokersAreRunning and AwaitPodReadiness see it:
\* a pod that is being terminated still is, at first.
SeemsReady(b) == pod[b] \in {"ready", "terminating"}

\* AwaitPodReadiness.
RecoverEnds ==
  /\ At("recover", "await")
  /\ SeemsReady(target)
  /\ Ends
  /\ UNCHANGED <<cluster, config, simulated>>

\* AwaitReadiness: every broker pod that is listed is running and ready.  Of
\* the gateways only SaaS is asked for.
AllReady ==
  /\ ListedBrokers # {}
  /\ \A b \in ListedBrokers : SeemsReady(b)
  /\ SaaS => \A g \in Gateways : pod[g] = "ready"

\* Neither wait goes on for ever.
TimesOut ==
  /\ \/ At("recover", "await") /\ ~SeemsReady(target)
     \/ At("verify", "poll") /\ ~AllReady
  /\ Goto("idle", NoPod, <<>>)
  /\ UNCHANGED <<cluster, config, script, step, simulated>>

\* verify readiness.
Verify ==
  /\ Begins("verify")
  /\ Goto("poll", NoPod, <<>>)
  /\ UNCHANGED <<cluster, config, simulated>>

VerifyEnds ==
  /\ At("verify", "poll")
  /\ AllReady
  /\ Ends
  /\ UNCHANGED <<cluster, config, simulated>>

\* A broker by its role: GetBrokerNodeId.  Of several followers the last one
\* the topology names is taken.
LookupRole ==
  /\ Forwarded
  /\ \E role \in Roles, b \in Brokers :
       Begins(role) /\ HasRole(b, role) /\ Goto("find", b, <<>>)
  /\ UNCHANGED <<cluster, config, simulated>>

\* Its node id selects a pod, as one that was given.
RoleFinds ==
  /\ \E role \in Roles : At(role, "find")
  /\ \/ \E p \in Brokers : Found(target, p) /\ Goto("kill", target, <<p>>)
     \/ ~(\E p \in Brokers : Found(target, p)) /\ Goto("idle", NoPod, <<>>)
  /\ Continues
  /\ UNCHANGED <<cluster, config>>

\* terminate and restart, of a broker, a gateway, a worker or all of them:
\* the names are read once, then the pods are deleted one by one.
KillFinds ==
  /\ \/ /\ Begins("broker") /\ Forwarded
        /\ \E p \in Brokers : Found(Command.id, p) /\ Goto("kill", NoPod, <<p>>)
     \/ Begins("brokers") /\ BrokerPodNames # <<>> /\ Goto("kill", NoPod, BrokerPodNames)
     \/ /\ Begins("gateway") /\ GatewayPodNames # <<>>
        /\ Goto("kill", NoPod, <<Head(GatewayPodNames)>>)
     \/ Begins("gateways") /\ GatewayPodNames # <<>> /\ Goto("kill", NoPod, GatewayPodNames)
     \/ Begins("worker") /\ \E w \in ListedWorkers : Goto("kill", NoPod, <<w>>)
     \/ /\ Begins("workers") /\ ListedWorkers # {}
        /\ Goto("kill", NoPod, SetToSeq(ListedWorkers))
  /\ UNCHANGED <<cluster, config, simulated>>

KillNext ==
  /\ pc = "kill" /\ todo # <<>>
  /\ \/ /\ Deleted(Head(todo), Command.grace)
        /\ IF Len(todo) = 1
           THEN Ends /\ UNCHANGED simulated
           ELSE Goto("kill", NoPod, Tail(todo)) /\ Continues
        /\ UNCHANGED config
     \/ NotFound(Head(todo))

CommandStep ==
  \/ Prepare \/ Patch
  \/ DeleteFinds \/ DeleteClaim \/ SetFlag \/ DeleteKills
  \/ Unblock \/ RecoverFinds \/ RecoverEnds
  \/ Verify \/ VerifyEnds \/ TimesOut
  \/ LookupRole \/ RoleFinds \/ KillFinds \/ KillNext

PodStep(p) == Terminated(p) \/ Created(p) \/ Started(p) \/ Readied(p)

\* The experiment is over and nothing moves any more.
Finished == Done /\ UNCHANGED vars

Next ==
  \/ CommandStep
  \/ Panics
  \/ \E p \in Pods : PodStep(p)
  \/ \E b \in Brokers : RollingUpdate(b) \/ Elected(b)
  \/ Finished

Spec == Init /\ [][Next]_vars

-----------------------------------------------------------------------------
(* Safety.                                                                 *)

\* Once dataloss delete has gone through, the broker stays down, without its
\* data, until it is recovered: the flag is set before the pod goes, and every
\* pod created since the patch waits for it, whatever restarts and repeated
\* commands do meanwhile, with and without pauses.
LostStaysDown ==
  \A b \in simulated :
    /\ pod[b] \notin {"starting", "ready"}
    /\ pod[b] # "terminating" => b \notin data

\* "Zeebe should be able to handle data loss of one broker at a time."
\* (broker-dataloss/experiment.json): what the commands do never amounts to
\* more, whatever else restarts, panics and is executed again, with up to ten
\* brokers and with Pauses.  Without them two brokers may be lost: an execution
\* of dataloss delete that follows too soon, a repeated one included, finds a
\* shorter list of pods and with it another broker, or it comes before the
\* broker deleted last has its data back, for the probe in between takes a pod
\* that is terminating for a ready one.
OneLossAtATime == Cardinality(Brokers \ data) <= 1

\* A command that asks for the leader or a follower takes the node id that the
\* topology named for an index into a list of pods that is read later.  With up
\* to ten brokers it finds the pod of that broker if and only if the pods up to
\* it exist at that moment, running or not, and else none or one of a higher
\* ordinal; with and without pauses.
RoleFound ==
  [][RoleFinds =>
       /\ todo' = <<target>> <=> 0..target \subseteq ListedBrokers
       /\ todo' # <<>> => Head(todo') >= target]_vars

\* "Terminates a Zeebe gateway." (cmd/terminate.go:52): it deletes no broker.
GatewayOnly ==
  pc = "kill" /\ Command.op \in {"gateway", "gateways"} =>
    \A i \in DOMAIN todo : todo[i] \in Gateways

-----------------------------------------------------------------------------
(* Liveness.                                                               *)

\* Pods and the rolling update make progress, and so do commands: one that is
\* executed again after a timeout succeeds at some time.
PodFairness ==
  /\ \A p \in Pods : WF_vars(PodStep(p))
  /\ WF_vars(\E b \in Brokers : RollingUpdate(b))
  /\ WF_vars(pod[leader] # "ready" /\ \E b \in Brokers : Elected(b))
  /\ WF_vars(CommandStep)
  /\ SF_vars(CommandStep /\ step' # step)

ProgressSpec == Spec /\ PodFairness

\* A command has to be executed again, and not because it ran out of time.
Fault == pc # "idle" /\ pc' = "idle" /\ step' = step /\ ~TimesOut

\* An experiment that recovers what it deleted ends with all pods ready and all
\* brokers in possession of their data, provided that commands do not panic for
\* ever, and with Pauses: brokers cannot get back what a majority has lost.
AllRecover ==
  <>[][~Fault]_vars =>
    <>[](Done /\ data = Brokers /\ \A p \in Pods : pod[p] = "ready")
=============================================================================
