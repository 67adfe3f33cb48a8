---------------------------- MODULE ChaosWorkers ----------------------------
(***************************************************************************)
(* The zbchaos worker processes (worker/chaos_worker.go, cmd/worker.go) on *)
(* top of the processes of ChaosToolkit.                                   *)
(*                                                                         *)
(* Every process runs two job workers with MaxJobsActive(1): one for       *)
(* "zbchaos" jobs, whose handler runs a zbchaos command in the process,    *)
(* and one for "readExperiments" jobs.  A handler is a thread: what it     *)
(* does is bound to the job it was handed, whatever the engine does to     *)
(* that job in the meantime.  A command that meets an error it does not    *)
(* return panics and takes the process with it; kubernetes restarts it.    *)
(*                                                                         *)
(* The command itself is a step that may succeed, return an error, panic,  *)
(* or never come back.  No command looks at the context it is given, so    *)
(* nothing ends it but itself: "overdue" is a command whose context has    *)
(* expired and that goes on.  A Complete or Fail the handler sends may     *)
(* get lost on the way (its error is logged or dropped); one that arrives  *)
(* for a job that is no longer open is rejected.                           *)
(***************************************************************************)
EXTENDS ChaosToolkit

CONSTANTS
  Workers,     \* worker processes (deploy/deployment.yaml: 3 replicas)
  Inputs,      \* kinds of job variables a run may carry, see below
  NoRun,       \* what an idle read handler holds
  Manifest,    \* Manifest[e]: what an experiment demands of plan and version
  ClusterPlan, \* the plan of the cluster
  Version,     \* the version of the cluster
  Targets,     \* the target versions a run may be started with
  NoVersion    \* no version is given or known

(***************************************************************************)
(* What HandleZbChaosJob finds in the job's variables.                     *)
(*   valid        runs the command                                         *)
(*   unparseable  GetVariablesAs fails                                     *)
(*   noImageTag   zeebeImage has no ":<tag>"                               *)
(*   noCluster    clusterId is absent: a nil pointer is dereferenced       *)
(***************************************************************************)
AllInputs == {"valid", "unparseable", "noImageTag", "noCluster"}

(***************************************************************************)
(* Versions count the minor releases: 83 for 8.3.x.  A text that is no     *)
(* version is 0, since semver sorts it below every version.                *)
(***************************************************************************)
ASSUME WorkerAssumption ==
  /\ Inputs \subseteq AllInputs
  /\ NoRun \notin Runs
  /\ \A e \in Experiments :
       Manifest[e].min \in Nat \cup {NoVersion} /\ Manifest[e].max \in Nat \cup {NoVersion}
  /\ Version \in Nat /\ NoVersion \notin Nat
  /\ Targets \subseteq Nat \cup {NoVersion}

VARIABLES
  input,      \* the variables a run was started with
  target,     \* its target version
  reachable,  \* a tunnel to a gateway of the cluster can be opened
  handler,    \* the "zbchaos" handler of a process and the job it holds
  reader,     \* the run whose read job a process' other handler holds
  \* history
  succeeded,  \* positions of which some command returned nil
  overran     \* runs of which a lock ran out under a live handler

workerVars == <<input, target, handler, reader, succeeded>>
vars == <<toolkitVars, workerVars, overran, reachable>>

Idle == [pc |-> "idle"]
Down == [pc |-> "down"]
\* A handler keeps the job as it was activated, its retries included.
Handling ==
  [pc : {"handling", "running", "overdue"}, run : Runs, pos : Positions, retries : 1..Retries]

ProgressTypeOK ==
  /\ ToolkitTypeOK
  /\ input \in [Runs -> Inputs]
  /\ target \in [Runs -> Targets]
  /\ handler \in [Workers -> {Idle, Down} \cup Handling]
  /\ reader \in [Workers -> Runs \cup {NoRun}]
  /\ succeeded \in [Runs -> SUBSET Positions]

TypeOK == ProgressTypeOK /\ overran \subseteq Runs /\ reachable \in BOOLEAN

Init ==
  /\ ToolkitInit
  /\ input \in [Runs -> Inputs]
  /\ target \in [Runs -> Targets]
  /\ handler = [w \in Workers |-> Idle]
  /\ reader = [w \in Workers |-> NoRun]
  /\ succeeded = [r \in Runs |-> {}]
  /\ overran = {}
  /\ reachable \in BOOLEAN

Busy(w) == handler[w] \notin {Idle, Down}
Running(w) == handler[w].pc \in {"running", "overdue"}

\* Handler w is about to act on variables of kind i.
Finds(w, i) == handler[w].pc = "handling" /\ input[handler[w].run] = i

\* Mutant: an answer counts for whatever job its run has open.
CurrentRunOnly(w) == token[handler[w].run] = "task"

\* The job handler w holds is still the current one of its run.
Current(w) ==
  LET r == handler[w].run IN token[r] = "task" /\ at[r] = handler[w].pos

Become(w, h) == handler' = [handler EXCEPT ![w] = h]

-----------------------------------------------------------------------------
(* HandleZbChaosJob.                                                       *)

\* The poller hands an activatable job to an idle handler.
Activate(w, r) ==
  /\ handler[w] = Idle
  /\ token[r] = "task"
  /\ JobActivated(r)
  /\ Become(w, [pc |-> "handling", run |-> r, pos |-> at[r], retries |-> retries[r]])
  /\ UNCHANGED <<input, target, reader, succeeded, overran, reachable>>

\* A Fail command for the job w holds: it takes effect, or it is lost or
\* rejected.  Either way the handler returns.
FailJob(w, k, backoff) ==
  /\ Become(w, Idle)
  /\ \/ Current(w) /\ JobFailed(handler[w].run, k, backoff)
     \/ UNCHANGED toolkitVars
  /\ UNCHANGED <<input, target, reader, succeeded, overran, reachable>>

RejectVariables(w) ==
  /\ Finds(w, "unparseable")
  /\ FailJob(w, 0, FALSE)

RejectImage(w) ==
  /\ Finds(w, "noImageTag")
  /\ FailJob(w, handler[w].retries - 1, FALSE)

StartCommand(w) ==
  /\ Finds(w, "valid")
  /\ Become(w, [handler[w] EXCEPT !.pc = "running"])
  /\ UNCHANGED <<toolkitVars, input, target, reader, succeeded, overran, reachable>>

\* Mutant: the job is given back at the timeout while the command goes on.
ContextFailsJob(w) ==
  /\ handler[w].pc = "running"
  /\ Become(w, [handler[w] EXCEPT !.pc = "overdue"])
  /\ Current(w) /\ JobFailed(handler[w].run, handler[w].retries, TRUE)
  /\ UNCHANGED <<input, target, reader, succeeded, overran, reachable>>

\* provider.timeout has elapsed on the worker: the context is cancelled, and
\* that is all.
ContextExpires(w) ==
  /\ handler[w].pc = "running"
  /\ Become(w, [handler[w] EXCEPT !.pc = "overdue"])
  /\ UNCHANGED <<toolkitVars, input, target, reader, succeeded, overran, reachable>>

\* Mutant: the return after the error branch is missing.
ErrorCompletes(w) ==
  /\ Running(w)
  /\ Become(w, Idle)
  /\ Current(w)
  /\ ActionJobCompleted(handler[w].run)
  /\ UNCHANGED <<input, target, reader, succeeded, overran, reachable>>

\* Mutant: a failed command uses up a retry.
ErrorCostsRetry(w) ==
  /\ Running(w)
  /\ FailJob(w, handler[w].retries - 1, TRUE)

\* Mutant: a failed command is not retried.
ErrorIsFinal(w) ==
  /\ Running(w)
  /\ FailJob(w, 0, TRUE)

\* The command returned an error: back off, keep the number of retries.
CommandFails(w) ==
  /\ Running(w)
  /\ FailJob(w, handler[w].retries, TRUE)

Success(w) ==
  /\ Running(w)
  /\ succeeded' = [succeeded EXCEPT ![handler[w].run] = @ \cup {handler[w].pos}]
  /\ Become(w, Idle)
  /\ UNCHANGED <<input, target, reader, overran, reachable>>

\* The command returned nil and the engine accepts the Complete command.
CommandCompletes(w) ==
  /\ Success(w)
  /\ Current(w)
  /\ ActionJobCompleted(handler[w].run)

\* The command returned nil; the Complete command is lost or rejected.
CompletionDropped(w) ==
  /\ Success(w)
  /\ UNCHANGED toolkitVars

-----------------------------------------------------------------------------
(* HandleReadExperiments.                                                  *)

\* Mutant: a missing version is compared like any other text.
UnknownIsOldest(e, v) ==
  LET x == Manifest[e]
      known == IF v = NoVersion THEN 0 ELSE v
  IN  /\ ClusterPlan \in x.plans
      /\ x.min = NoVersion \/ known >= x.min
      /\ x.max = NoVersion \/ known <= x.max

\* Both bounds include their version; without a version only experiments that
\* have no bounds fit.
Fits(e, v) ==
  LET x == Manifest[e] IN
  /\ ClusterPlan \in x.plans
  /\ x.min = NoVersion \/ (v # NoVersion /\ v >= x.min)
  /\ x.max = NoVersion \/ (v # NoVersion /\ v <= x.max)

Selection(v) == {e \in Experiments : Fits(e, v)}

\* The target version of a run, or the one the gateway of the cluster reports.  A
\* process without a kubernetes client and a gateway that gives no topology leave
\* it open; without a gateway to open a tunnel to, the lookup panics (Crash).
TargetVersions(r) ==
  IF target[r] # NoVersion THEN {target[r]}
  ELSE IF reachable THEN {Version, NoVersion} ELSE {}

ActivateRead(w, r) ==
  /\ handler[w] # Down
  /\ reader[w] = NoRun
  /\ token[r] = "readExperiments"
  /\ JobActivated(r)
  /\ reader' = [reader EXCEPT ![w] = r]
  /\ UNCHANGED <<input, target, handler, succeeded, overran, reachable>>

EndRead(w) ==
  /\ reader[w] # NoRun
  /\ reader' = [reader EXCEPT ![w] = NoRun]
  /\ UNCHANGED <<input, target, handler, succeeded, overran, reachable>>

\* Some experiments fit the version that was found.
ReadSucceeds(w) ==
  /\ EndRead(w)
  /\ \E v \in TargetVersions(reader[w]) :
       /\ Selection(v) # {}
       /\ \/ ReadJobCompleted(reader[w], Selection(v))
          \/ UNCHANGED toolkitVars

\* Mutant: a version that cannot be looked up is an error.
UnknownFails(w) ==
  /\ EndRead(w)
  /\ token[reader[w]] = "readExperiments" /\ NoVersion \in TargetVersions(reader[w])
  /\ JobFailed(reader[w], 0, FALSE)

\* Unparseable variables or no experiment that fits: every branch fails the job
\* with no retries left.
ReadFails(w) ==
  /\ EndRead(w)
  /\ \/ input[reader[w]] = "unparseable"
     \/ \E v \in TargetVersions(reader[w]) : Selection(v) = {}
  /\ \/ token[reader[w]] = "readExperiments" /\ JobFailed(reader[w], 0, FALSE)
     \/ UNCHANGED toolkitVars

\* The gateways, their service, or the way to them go and come back.
GatewayChanges ==
  /\ reachable' = ~reachable
  /\ UNCHANGED <<toolkitVars, workerVars, overran>>

-----------------------------------------------------------------------------
(* The processes.                                                          *)

\* A panic in either handler (ensureNoError, a nil clusterId, a tunnel
\* that cannot be opened) or the end of the pod.  Both handlers die with the process.
Crash(w) ==
  /\ handler[w] # Down
  /\ Become(w, Down)
  /\ reader' = [reader EXCEPT ![w] = NoRun]
  /\ UNCHANGED <<toolkitVars, input, target, succeeded, overran, reachable>>

Restart(w) ==
  /\ handler[w] = Down
  /\ Become(w, Idle)
  /\ UNCHANGED <<toolkitVars, input, target, reader, succeeded, overran, reachable>>

\* A live handler holds the current job of run r.
HeldByLive(r) ==
  \E w \in Workers :
    \/ Busy(w) /\ handler[w].run = r /\ Current(w)
    \/ reader[w] = r /\ token[r] = "readExperiments"

\* The go client asks for the default lock of 5 minutes.  A command may run
\* longer, or its worker may have died with it.
LockExpires(r) ==
  /\ JobTimedOut(r)
  /\ overran' = IF HeldByLive(r) THEN overran \cup {r} ELSE overran
  /\ UNCHANGED <<workerVars, reachable>>

Handler(w) ==
  \/ \E r \in Runs : Activate(w, r)
  \/ RejectVariables(w)
  \/ RejectImage(w)
  \/ StartCommand(w)
  \/ ContextExpires(w)
  \/ CommandFails(w)
  \/ CommandCompletes(w)
  \/ CompletionDropped(w)

Reader(w) ==
  \/ \E r \in Runs : ActivateRead(w, r)
  \/ ReadSucceeds(w)
  \/ ReadFails(w)

Engine(r) == EngineStep(r) /\ UNCHANGED <<workerVars, overran, reachable>>

Next ==
  \/ \E w \in Workers : Handler(w) \/ Reader(w) \/ Crash(w) \/ Restart(w)
  \/ \E r \in Runs : Engine(r) \/ LockExpires(r)
  \/ GatewayChanges

Spec == Init /\ [][Next]_vars

-----------------------------------------------------------------------------
(* Safety.                                                                 *)

\* A run reports PASSED only if, for every step of every planned experiment,
\* some command for exactly that step returned without an error: lost or late
\* answers, re-executions and crashes never turn into a green report.
VerdictSound ==
  \A r \in Runs : token[r] = "PASSED" =>
    \A p \in Positions : p[1] \in planned[r] => p \in succeeded[r]

\* Whatever worker is busy with a step, a re-execution on a second replica or
\* a straggler included, all earlier steps of that run have succeeded: chaos
\* is never introduced before the steady state was verified.
StepsInOrder ==
  \A w \in Workers : Busy(w) =>
    \A p \in Positions :
      p[1] \in planned[handler[w].run] /\ Before(p, handler[w].pos)
        => p \in succeeded[handler[w].run]

\* A worker only ever introduces the chaos of an experiment that is for the plan,
\* and within whose bounds the target version of the run lies, or the version of
\* the cluster when there is no target, whether or not it could be looked up
\* (chaos_experiments.go:67).  A target that is no version counts as the oldest.
RunsWhatFits ==
  \A w \in Workers : Busy(w) =>
    LET x == Manifest[handler[w].pos[1]]
        v == IF target[handler[w].run] = NoVersion THEN Version ELSE target[handler[w].run]
    IN  /\ ClusterPlan \in x.plans
        /\ x.min # NoVersion => x.min <= v
        /\ x.max # NoVersion => v <= x.max

\* "Allow only one job at a time" across the replicas (cmd/worker.go:84): as
\* long as no lock of a run has run out under a live handler, two replicas are
\* never busy for it at once, and no handler is still busy with a step the run
\* has left behind or after it has PASSED.
NoOverlap ==
  \A w \in Workers : Busy(w) /\ handler[w].run \notin overran =>
    /\ at[handler[w].run] = handler[w].pos
    /\ token[handler[w].run] # "PASSED"
    /\ \A v \in Workers : Busy(v) /\ handler[v].run = handler[w].run => v = w

\* "Do not reduce number of retries" (chaos_worker.go:136): an action that can
\* be run at all is retried until a timer of the process decides, it never
\* ends up in an incident.
ErrorsNeverExhaustRetries ==
  \A r \in Runs :
    input[r] = "valid" /\ token[r] # "readExperiments" => job[r] # "incident"

\* The token moves to the next step only, and only after a command for the
\* step it leaves has succeeded: a stale Complete never advances a later step.
AdvancesOneStep ==
  [][\A r \in Runs : at'[r] # at[r] /\ token[r] # "readExperiments" =>
       /\ at[r] \in succeeded[r]
       /\ Before(at[r], at'[r])
       /\ \A p \in Positions :
            p[1] \in planned[r] => ~(Before(at[r], p) /\ Before(p, at'[r]))]_vars

\* A verdict is final: no late answer, lock or timer disturbs a run that ended.
VerdictFinal ==
  [][\A r \in Runs : token[r] \in Verdicts =>
       token'[r] = token[r] /\ job'[r] = job[r] /\ at'[r] = at[r]]_vars

-----------------------------------------------------------------------------
(* Liveness.                                                               *)

\* Timers of the engine fire and gateways are passed.  Nothing is assumed of
\* the workers: they may all hang, crash or fail for ever.
TimerFairness ==
  /\ \A r \in Runs :
       /\ WF_vars(Engine(r) /\ ActionTimedOut(r))
       /\ WF_vars(Engine(r) /\ token[r] # "task")
  /\ \A w \in Workers : WF_vars(ContextExpires(w))

\* Once the experiments are read, the run reports a verdict.
EveryRunDecided ==
  TimerFairness => \A r \in Runs : token[r] = "task" ~> token[r] \in Verdicts

TimerSpec == Spec /\ TimerFairness

\* "the timeout for the command" (chaos_worker.go:37): a command whose timeout
\* has elapsed comes to an end and frees the only slot of its worker.
CommandStopsAtTimeout ==
  \A w \in Workers : handler[w].pc = "overdue" ~> handler[w].pc # "overdue"

\* Processes are restarted, job locks run out, and reading that is attempted again
\* and again while it can succeed comes to an end.  Nothing is assumed of gateways.
ReaderFairness ==
  /\ \A w \in Workers : WF_vars(Restart(w)) /\ WF_vars(ReadSucceeds(w) \/ ReadFails(w))
  /\ \A r \in Runs :
       /\ WF_vars(LockExpires(r))
       /\ SF_vars(\E w \in Workers : ActivateRead(w, r))
       /\ SF_vars(\E w \in Workers :
                    ReadSucceeds(w) /\ reader[w] = r /\ token'[r] # "readExperiments")

\* Something fits whatever the lookup of the version finds.
AlwaysFits(r) ==
  \A v \in (IF target[r] = NoVersion THEN {Version, NoVersion} ELSE {target[r]}) :
    Selection(v) # {}

\* Reading fails for good, with an incident nothing resolves, when nothing fits
\* (chaos_worker.go:194), but not because a gateway does not tell its version: the
\* experiments without bounds are run then.  A run that has to look the version up
\* starts unless gateways are gone for good or again and again: the lookup panics
\* without one (pods.go:270), and the job takes down one process after the other.
EveryRunStarts ==
  ReaderFairness =>
    \A r \in Runs :
      <>[](target[r] # NoVersion \/ reachable)
        => (input[r] # "unparseable" /\ AlwaysFits(r) ~> token[r] # "readExperiments")

\* No timer is assumed to fire; instead every command comes back, processes
\* are restarted, job locks and backoffs run out, and a step that is attempted
\* again and again goes through and is acknowledged at some attempt.
WorkerFairness ==
  /\ \A w \in Workers :
       /\ WF_vars(Restart(w))
       /\ WF_vars(CommandFails(w) \/ CommandCompletes(w) \/ CompletionDropped(w))
  /\ \A r \in Runs :
       /\ WF_vars(LockExpires(r))
       /\ WF_vars(Engine(r) /\ BackoffElapsed(r))
       /\ SF_vars(\E w \in Workers : Activate(w, r))
       /\ SF_vars(\E w \in Workers : StartCommand(w) /\ handler[w].run = r)
       /\ SF_vars(\E w \in Workers : CommandCompletes(w) /\ handler[w].run = r)

\* No crash, lost answer or failed attempt strands a step: with transient
\* faults it is re-executed until it is left.
EveryStepLeft ==
  WorkerFairness =>
    \A r \in Runs : token[r] = "task" /\ input[r] = "valid" ~> token[r] # "task"
=============================================================================
