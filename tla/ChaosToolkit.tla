---------------------------- MODULE ChaosToolkit ----------------------------
(***************************************************************************)
(* The three BPMN processes that drive an automated chaos run, as the      *)
(* Zeebe engine executes them, and the life cycle of the jobs they create. *)
(*                                                                         *)
(*   chaosToolkit     read the experiments, run them one after another     *)
(*   chaosExperiment  verify the steady state, introduce chaos, verify the *)
(*                    steady state again; 3 h boundary timer               *)
(*   actionRunner     one service task, its boundary timer, an optional    *)
(*                    pause                                                *)
(*                                                                         *)
(* A run is one instance of chaosToolkit.  It has one token: every         *)
(* multi-instance body of the three processes is sequential.  The job of   *)
(* the service task the token is at is the only job of the run a broker    *)
(* still knows; commands about any other job are rejected (NOT_FOUND).     *)
(*                                                                         *)
(* Left out: titles, descriptions and the failure messages of the report.  *)
(***************************************************************************)
EXTENDS Naturals

CONSTANTS
  Runs,            \* the instances of chaosToolkit
  MaxExperiments,  \* the experiments there are, in the order of the manifest
  Probes,          \* Probes[e]: number of steady-state probes of experiment e
  Method,          \* Method[e]: number of chaos actions of experiment e
  Pauses,          \* the <<experiment, step>> that define action.pauses
  Retries          \* retries a new job starts with (Zeebe's default is 3)

Experiments == 1..MaxExperiments

(***************************************************************************)
(* chaosExperiment runs the probes, the method and the probes again, each  *)
(* as a sequential multi-instance over actionRunner: a step is a position  *)
(* in that concatenation.                                                  *)
(***************************************************************************)
StepsOf(e) == Probes[e] + Method[e] + Probes[e]
Positions  == UNION {{e} \X (1..StepsOf(e)) : e \in Experiments}
Before(p, q) == p[1] < q[1] \/ (p[1] = q[1] /\ p[2] < q[2])
IsFirst(e, S) == e \in S /\ \A f \in S : e <= f

ASSUME ToolkitAssumption ==
  /\ MaxExperiments \in Nat \ {0}
  /\ Probes \in [Experiments -> Nat]
  /\ Method \in [Experiments -> Nat]
  /\ \A e \in Experiments : StepsOf(e) > 0
  /\ Pauses \subseteq Positions
  /\ Retries \in Nat \ {0}

VARIABLES
  token,                \* where the run's token is
  planned,              \* the experiments readExperiments returned
  at,                   \* <<experiment, step>> the token is at
  job,                  \* state of the job of the current service task
  retries,              \* retries left on that job
  successfulRun,        \* process variable, set by actionRunner
  successfulExperiment  \* process variable, set by chaosExperiment

toolkitVars ==
  <<token, planned, at, job, retries, successfulRun, successfulExperiment>>

Verdicts == {"PASSED", "FAILED"}
InExperiment == {"task", "pause", "runnerEnd"}
Tokens == {"readExperiments", "experimentEnd"} \cup InExperiment \cup Verdicts
JobStates ==
  {"activatable", "activated", "failed", "incident", "completed", "cancelled"}

ToolkitTypeOK ==
  /\ token \in [Runs -> Tokens]
  /\ planned \in [Runs -> SUBSET Experiments]
  /\ at \in [Runs -> Positions]
  /\ job \in [Runs -> JobStates]
  /\ retries \in [Runs -> 0..Retries]
  /\ successfulRun \in [Runs -> BOOLEAN]
  /\ successfulExperiment \in [Runs -> BOOLEAN]

ToolkitInit ==
  /\ token = [r \in Runs |-> "readExperiments"]
  /\ planned = [r \in Runs |-> {}]
  /\ at = [r \in Runs |-> <<1, 1>>]
  /\ job = [r \in Runs |-> "activatable"]
  /\ retries = [r \in Runs |-> Retries]
  /\ successfulRun = [r \in Runs |-> TRUE]
  /\ successfulExperiment = [r \in Runs |-> TRUE]

-----------------------------------------------------------------------------
(* The engine's side of a job.                                             *)

\* Complete and Fail commands are accepted in these two states only.
Open(r) == job[r] \in {"activatable", "activated"}

\* The start event of actionRunner sets successfulRun; the service task then
\* creates its job.
EnterTask(r, p) ==
  /\ token' = [token EXCEPT ![r] = "task"]
  /\ at' = [at EXCEPT ![r] = p]
  /\ job' = [job EXCEPT ![r] = "activatable"]
  /\ retries' = [retries EXCEPT ![r] = Retries]
  /\ successfulRun' = [successfulRun EXCEPT ![r] = TRUE]

\* The start event of chaosExperiment sets successfulExperiment.
EnterExperiment(r, e) ==
  /\ EnterTask(r, <<e, 1>>)
  /\ successfulExperiment' = [successfulExperiment EXCEPT ![r] = TRUE]

JobActivated(r) ==
  /\ job[r] = "activatable"
  /\ job' = [job EXCEPT ![r] = "activated"]
  /\ UNCHANGED <<token, planned, at, retries, successfulRun, successfulExperiment>>

\* A Fail command with k retries left.  No retry: an incident.  A backoff
\* keeps the job from being activated until it has elapsed.
JobFailed(r, k, backoff) ==
  /\ Open(r)
  /\ retries' = [retries EXCEPT ![r] = k]
  /\ job' = [job EXCEPT ![r] = IF k = 0 THEN "incident"
                               ELSE IF backoff THEN "failed" ELSE "activatable"]
  /\ UNCHANGED <<token, planned, at, successfulRun, successfulExperiment>>

\* The readExperiments job completes with the experiments S.
ReadJobCompleted(r, S) ==
  /\ token[r] = "readExperiments"
  /\ Open(r)
  /\ planned' = [planned EXCEPT ![r] = S]
  /\ \E e \in S : IsFirst(e, S) /\ EnterExperiment(r, e)

\* The job of an action completes: "Should pause after action?"
ActionJobCompleted(r) ==
  /\ token[r] = "task"
  /\ Open(r)
  /\ job' = [job EXCEPT ![r] = "completed"]
  /\ token' = [token EXCEPT ![r] = IF at[r] \in Pauses THEN "pause" ELSE "runnerEnd"]
  /\ UNCHANGED <<planned, at, retries, successfulRun, successfulExperiment>>

\* The lock of an activated job times out: the engine hands the job out again.
JobTimedOut(r) ==
  /\ job[r] = "activated"
  /\ job' = [job EXCEPT ![r] = "activatable"]
  /\ UNCHANGED <<token, planned, at, retries, successfulRun, successfulExperiment>>

BackoffElapsed(r) ==
  /\ job[r] = "failed"
  /\ job' = [job EXCEPT ![r] = "activatable"]
  /\ UNCHANGED <<token, planned, at, retries, successfulRun, successfulExperiment>>

-----------------------------------------------------------------------------
(* Timers and gateways of the processes.                                   *)

PauseElapsed(r) ==
  /\ token[r] = "pause"
  /\ token' = [token EXCEPT ![r] = "runnerEnd"]
  /\ UNCHANGED <<planned, at, job, retries, successfulRun, successfulExperiment>>

\* Mutant: the boundary event forgets its output successfulRun = false.
TimedOutUnnoticed(r) ==
  /\ token[r] = "task"
  /\ token' = [token EXCEPT ![r] = "runnerEnd"]
  /\ job' = [job EXCEPT ![r] = "cancelled"]
  /\ UNCHANGED <<planned, at, retries, successfulRun, successfulExperiment>>

\* Mutant: an incident takes the timer with it.
TimedOutUnlessIncident(r) ==
  /\ token[r] = "task"
  /\ job[r] # "incident"
  /\ token' = [token EXCEPT ![r] = "runnerEnd"]
  /\ job' = [job EXCEPT ![r] = "cancelled"]
  /\ successfulRun' = [successfulRun EXCEPT ![r] = FALSE]
  /\ UNCHANGED <<planned, at, retries, successfulExperiment>>

\* The interrupting boundary timer of the service task: provider.timeout
\* seconds, one hour by default.  It fires whatever the job's state is, an
\* incident included.
ActionTimedOut(r) ==
  /\ token[r] = "task"
  /\ token' = [token EXCEPT ![r] = "runnerEnd"]
  /\ job' = [job EXCEPT ![r] = "cancelled"]
  /\ successfulRun' = [successfulRun EXCEPT ![r] = FALSE]
  /\ UNCHANGED <<planned, at, retries, successfulExperiment>>

\* Mutant: the loop runs once too often.
NextActionOffByOne(r) ==
  /\ token[r] = "runnerEnd"
  /\ successfulRun[r]
  /\ IF at[r][2] <= StepsOf(at[r][1])
     THEN EnterTask(r, <<at[r][1], at[r][2] + 1>>)
     ELSE /\ token' = [token EXCEPT ![r] = "experimentEnd"]
          /\ UNCHANGED <<at, job, retries, successfulRun>>
  /\ UNCHANGED <<planned, successfulExperiment>>

\* "Successful run?", default branch: the next action, or the experiment ends.
NextAction(r) ==
  /\ token[r] = "runnerEnd"
  /\ successfulRun[r]
  /\ IF at[r][2] < StepsOf(at[r][1])
     THEN EnterTask(r, <<at[r][1], at[r][2] + 1>>)
     ELSE /\ token' = [token EXCEPT ![r] = "experimentEnd"]
          /\ UNCHANGED <<at, job, retries, successfulRun>>
  /\ UNCHANGED <<planned, successfulExperiment>>

\* "Successful run?", branch successfulRun = false: the error end event is
\* caught on the boundary of the "Chaos Experiment" subprocess.
ActionErrorCaught(r) ==
  /\ token[r] = "runnerEnd"
  /\ ~successfulRun[r]
  /\ token' = [token EXCEPT ![r] = "experimentEnd"]
  /\ successfulExperiment' = [successfulExperiment EXCEPT ![r] = FALSE]
  /\ UNCHANGED <<planned, at, job, retries, successfulRun>>

\* Mutant: the timer outlives the subprocess it is attached to.
ExperimentTimerLeaks(r) ==
  /\ token' = [token EXCEPT ![r] = "experimentEnd"]
  /\ job' = [job EXCEPT ![r] = IF token[r] = "task" THEN "cancelled" ELSE @]
  /\ successfulExperiment' = [successfulExperiment EXCEPT ![r] = FALSE]
  /\ UNCHANGED <<planned, at, retries, successfulRun>>

\* The 3 h boundary timer of the "Chaos Experiment" subprocess.
ExperimentTimedOut(r) ==
  /\ token[r] \in InExperiment
  /\ token' = [token EXCEPT ![r] = "experimentEnd"]
  /\ job' = [job EXCEPT ![r] = IF token[r] = "task" THEN "cancelled" ELSE @]
  /\ successfulExperiment' = [successfulExperiment EXCEPT ![r] = FALSE]
  /\ UNCHANGED <<planned, at, retries, successfulRun>>

\* Mutant: the loop over the experiments ends with the first success.
FirstExperimentDecides(r) ==
  /\ token[r] = "experimentEnd"
  /\ token' = [token EXCEPT ![r] = IF successfulExperiment[r] THEN "PASSED" ELSE "FAILED"]
  /\ UNCHANGED <<planned, at, job, retries, successfulRun, successfulExperiment>>

\* The experiments of run r after the one it is at.
Later(r) == {e \in planned[r] : at[r][1] < e}

\* "Successful experiment?" and the end of the multi-instance over experiments.
NextExperiment(r) ==
  /\ token[r] = "experimentEnd"
  /\ IF successfulExperiment[r] /\ Later(r) # {}
     THEN /\ \E e \in Later(r) : IsFirst(e, Later(r)) /\ EnterExperiment(r, e)
          /\ UNCHANGED planned
     ELSE /\ token' = [token EXCEPT ![r] = IF successfulExperiment[r] THEN "PASSED"
                                           ELSE "FAILED"]
          /\ UNCHANGED <<planned, at, job, retries, successfulRun,
                         successfulExperiment>>

\* What the engine does on its own, timeouts of jobs aside.
EngineStep(r) ==
  \/ BackoffElapsed(r)
  \/ PauseElapsed(r)
  \/ ActionTimedOut(r)
  \/ NextAction(r)
  \/ ActionErrorCaught(r)
  \/ ExperimentTimedOut(r)
  \/ NextExperiment(r)
=============================================================================
