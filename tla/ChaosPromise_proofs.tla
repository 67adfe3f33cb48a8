------------------------ MODULE ChaosPromise_proofs ------------------------
(***************************************************************************)
(* The workers and processes implement ToolkitPromise, for every number of *)
(* runs, workers, experiments and steps: the initial states map to its     *)
(* initial state, and each step maps to a step of the promise or to none.  *)
(*                                                                         *)
(* What an answer, a timer or a gateway does to a run is a step of the     *)
(* promise because of ProgressInv: the step a handler reports is not ahead *)
(* of its run, and a run that goes on or has PASSED has succeeded so far.  *)
(* StartedInv adds that a run has a plan from the moment it is at a task.  *)
(***************************************************************************)
EXTENDS MCChaosWorkers, ChaosWorkers_proofs

Verdict(r) == IF token[r] \in Verdicts THEN token[r] ELSE "none"

StartedInv ==
  /\ \A r \in Runs : token[r] = "readExperiments" <=> planned[r] = {}
  /\ \A w \in Workers : Busy(w) => token[handler[w].run] # "readExperiments"

-----------------------------------------------------------------------------
LEMMA RunsAreStarted == Spec => []StartedInv
<1>1. Init => StartedInv
  BY DEF Init, ToolkitInit, StartedInv, Busy
<1>2. ProgressInv /\ StartedInv /\ [Next]_vars => StartedInv'
  <2> SUFFICES ASSUME ProgressInv, StartedInv, [Next]_vars PROVE StartedInv'
    OBVIOUS
  <2> USE DEF ProgressInv, ProgressTypeOK, ToolkitTypeOK
  <2>1. \A r \in Runs : token[r] # "readExperiments" =>
          token'[r] # "readExperiments" /\ planned'[r] = planned[r]
    <3> SUFFICES ASSUME NEW r \in Runs, token[r] # "readExperiments"
                 PROVE  token'[r] # "readExperiments" /\ planned'[r] = planned[r]
      OBVIOUS
    <3>1. ASSUME NEW w \in Workers, Handler(w)
          PROVE  token'[r] # "readExperiments" /\ planned'[r] = planned[r]
      BY <3>1 DEF Handler, Activate, JobActivated, RejectVariables, RejectImage, StartCommand,
         FailJob, JobFailed, ContextExpires, CommandFails, CommandCompletes, ActionJobCompleted,
         CompletionDropped, Success, toolkitVars
    <3>2. ASSUME NEW w \in Workers, Reader(w)
          PROVE  token'[r] # "readExperiments" /\ planned'[r] = planned[r]
      BY <3>2 DEF Reader, ActivateRead, JobActivated, ReadFails, JobFailed, ReadSucceeds,
         ReadJobCompleted, EnterExperiment, EnterTask, toolkitVars
    <3>3. ASSUME NEW q \in Runs, EngineStep(q) \/ JobTimedOut(q)
          PROVE  token'[r] # "readExperiments" /\ planned'[r] = planned[r]
      BY <3>3 DEF EngineStep, JobTimedOut, BackoffElapsed, PauseElapsed, ActionTimedOut,
         NextAction, ActionErrorCaught, ExperimentTimedOut, NextExperiment, EnterExperiment,
         EnterTask
    <3> QED
      BY <3>1, <3>2, <3>3 
         DEF Next, Crash, Restart, Engine, LockExpires, GatewayChanges, vars, toolkitVars
  <2>2. \A r \in Runs : token[r] = "readExperiments" =>
          (token'[r] = "readExperiments" <=> planned'[r] = {})
    <3> SUFFICES ASSUME NEW r \in Runs, token[r] = "readExperiments"
                 PROVE  token'[r] = "readExperiments" <=> planned'[r] = {}
      OBVIOUS
    <3>0. planned[r] = {}
      BY DEF StartedInv
    <3>1. ASSUME NEW w \in Workers, Handler(w) PROVE token'[r] = token[r] /\ planned'[r] = planned[r]
      BY <3>1 DEF Handler, Activate, JobActivated, RejectVariables, RejectImage, StartCommand,
         FailJob, JobFailed, ContextExpires, CommandFails, CommandCompletes, ActionJobCompleted,
         CompletionDropped, Success, toolkitVars
    <3>2. ASSUME NEW w \in Workers, Reader(w)
          PROVE  token'[r] = "readExperiments" <=> planned'[r] = {}
      <4>1. CASE UNCHANGED <<token, planned>>
        BY <3>0, <4>1
      <4>2. ASSUME NEW q \in Runs, NEW S, ReadJobCompleted(q, S)
            PROVE  token'[r] = "readExperiments" <=> planned'[r] = {}
        BY <3>0, <4>2 DEF ReadJobCompleted, EnterExperiment, EnterTask
      <4> QED
        BY <3>2, <4>1, <4>2 DEF Reader, ActivateRead, JobActivated, ReadFails, JobFailed,
           ReadSucceeds, EndRead, toolkitVars
    <3>3. ASSUME NEW q \in Runs, EngineStep(q) \/ JobTimedOut(q)
          PROVE  token'[r] = token[r] /\ planned'[r] = planned[r]
      BY <3>3 DEF EngineStep, JobTimedOut, BackoffElapsed, PauseElapsed, ActionTimedOut,
         NextAction, ActionErrorCaught, ExperimentTimedOut, NextExperiment, EnterExperiment,
         EnterTask, InExperiment
    <3> QED
      BY <3>0, <3>1, <3>2, <3>3 
         DEF Next, Crash, Restart, Engine, LockExpires, GatewayChanges, vars, toolkitVars
  <2>3. \A w \in Workers : Busy(w)' =>
          \/ Busy(w) /\ handler'[w].run = handler[w].run
          \/ handler'[w].run \in Runs /\ token[handler'[w].run] = "task"
    <3> SUFFICES ASSUME NEW w \in Workers, Busy(w)'
                 PROVE  \/ Busy(w) /\ handler'[w].run = handler[w].run
                        \/ handler'[w].run \in Runs /\ token[handler'[w].run] = "task"
      OBVIOUS
    <3>1. ASSUME NEW v \in Workers, NEW r \in Runs, Activate(v, r)
          PROVE  \/ Busy(w) /\ handler'[w].run = handler[w].run
                 \/ handler'[w].run \in Runs /\ token[handler'[w].run] = "task"
      <4>1. CASE v = w
        BY <3>1, <4>1 DEF Activate, Become
      <4>2. CASE v # w
        BY <3>1, <4>2 DEF Activate, Become, Busy
      <4> QED
        BY <4>1, <4>2
    <3>2. ASSUME NEW v \in Workers, StartCommand(v) \/ ContextExpires(v)
          PROVE  Busy(w) /\ handler'[w].run = handler[w].run
      <4>1. handler[v] \in Handling /\ Busy(v)
        BY <3>2 DEF StartCommand, ContextExpires, Finds, Busy, Idle, Down
      <4> QED
        BY <3>2, <4>1 DEF StartCommand, ContextExpires, Become, Busy, Handling
    <3>3. ASSUME NEW v \in Workers, NEW x \in {Idle, Down}, Become(v, x)
          PROVE  Busy(w) /\ handler'[w].run = handler[w].run
      BY <3>3 DEF Become, Busy
    <3>4. CASE handler' = handler
      BY <3>4 DEF Busy
    <3> QED
      BY <3>1, <3>2, <3>3, <3>4 DEF Next, Handler, RejectVariables, RejectImage, FailJob,
         CommandFails, CommandCompletes, CompletionDropped, Success, Reader, ActivateRead,
         ReadSucceeds, ReadFails, EndRead, Crash, Restart, Engine, LockExpires, GatewayChanges, vars,
         workerVars
  <2>4. \A w \in Workers : Busy(w) => handler[w].run \in Runs
    BY DEF Busy, Handling
  <2>5. \A w \in Workers : Busy(w)' => token'[handler'[w].run] # "readExperiments"
    BY <2>1, <2>3, <2>4 DEF StartedInv
  <2>6. \A r \in Runs : token'[r] = "readExperiments" <=> planned'[r] = {}
    BY <2>1, <2>2 DEF StartedInv
  <2> QED
    BY ONLY <2>5, <2>6 DEF StartedInv
<1> QED
  BY <1>1, <1>2, ProgressInvariant, PTL DEF Spec

-----------------------------------------------------------------------------
(* The steps of the promise.                                               *)

LEMMA Stutters ==
  ASSUME UNCHANGED <<planned, at, succeeded>>,
         \A r \in Runs : Verdict(r)' = Verdict(r)
  PROVE  UNCHANGED Promise!promiseVars
BY DEF Promise!promiseVars, Verdict

\* A step of the engine that changes neither plan nor position of a run.
LEMMA SameVerdict ==
  ASSUME ProgressInv, NEW r \in Runs, token' \in [Runs -> Tokens],
         \A q \in Runs \ {r} : token'[q] = token[q],
         token[r] \notin Verdicts, token'[r] \notin Verdicts
  PROVE  \A q \in Runs : Verdict(q)' = Verdict(q)
BY DEF Verdict

\* A command that returns nil, with or without an answer that counts.
LEMMA SuccessExecutes ==
  ASSUME ProgressInv, StartedInv, NEW w \in Workers,
         CommandCompletes(w) \/ CompletionDropped(w)
  PROVE  Promise!Next
<1> PICK r \in Runs, p \in Positions : handler[w].run = r /\ handler[w].pos = p /\ Busy(w)
  BY DEF CommandCompletes, CompletionDropped, Success, Running, ProgressInv, ProgressTypeOK,
     Busy, Handling, Idle, Down
<1>1. /\ succeeded' = [succeeded EXCEPT ![r] = @ \cup {p}]
      /\ UNCHANGED <<planned, at>>
  BY DEF CommandCompletes, CompletionDropped, Success, ActionJobCompleted, toolkitVars
<1>2. \A q \in Runs : Verdict(q)' = Verdict(q)
  BY DEF Verdict, CommandCompletes, CompletionDropped, ActionJobCompleted, toolkitVars, Verdicts,
     ProgressInv, ProgressTypeOK, ToolkitTypeOK
<1>3. planned[r] # {}
  BY DEF StartedInv
<1>4. PICK e \in 1..MaxExperiments : \E s \in 1..StepsOf(e) : p = <<e, s>>
  BY PositionPairs DEF Experiments
<1> PICK s \in 1..StepsOf(e) : p = <<e, s>>
  BY <1>4
<1>5. Promise!NotAfter(<<e, s>>, at[r])
  <2>1. NotAfter(p, at[r])
    BY DEF ProgressInv, HandlerInv
  <2>2. at[r] \in Positions
    BY DEF ProgressInv, ProgressTypeOK, ToolkitTypeOK
  <2>3. PICK f \in Experiments : \E t \in 1..StepsOf(f) : at[r] = <<f, t>>
    BY <2>2, PositionPairs
  <2> QED
    BY <1>4, <2>1, <2>3, StepsOfNat DEF Promise!NotAfter, NotAfter, Before, Experiments
<1>6. Promise!Execute(r, <<e, s>>)
  BY <1>1, <1>2, <1>3, <1>4, <1>5 DEF Promise!Execute, Promise!Started, Verdict
<1> QED
  BY <1>6 DEF Promise!Next, Experiments

LEMMA ReadPlans ==
  ASSUME ProgressInv, StartedInv, NEW r \in Runs, NEW S \in SUBSET Experiments,
         ReadJobCompleted(r, S), UNCHANGED succeeded
  PROVE  Promise!Next
<1>1. planned[r] = {} /\ token[r] = "readExperiments"
  BY DEF StartedInv, ReadJobCompleted
<1>2. \A q \in Runs : Verdict(q)' = Verdict(q)
  BY <1>1 DEF Verdict, ReadJobCompleted, EnterExperiment, EnterTask, Verdicts,
     ProgressInv, ProgressTypeOK, ToolkitTypeOK
<1>3. Promise!Plan(r, S)
  BY <1>1, <1>2 DEF Promise!Plan, Promise!Started, Promise!IsFirst, IsFirst, Verdict,
     ReadJobCompleted, EnterExperiment, EnterTask
<1>4. S \in (SUBSET (1..MaxExperiments)) \ {{}}
  <2>1. S # {}
    BY DEF ReadJobCompleted
  <2> QED
    BY <2>1 DEF Experiments
<1> QED
  BY <1>3, <1>4 DEF Promise!Next

LEMMA NextActionAdvances ==
  ASSUME ProgressInv, StartedInv, NEW r \in Runs, NextAction(r), UNCHANGED succeeded
  PROVE  [Promise!Next]_Promise!promiseVars
<1>1. /\ token[r] = "runnerEnd" /\ at[r] \in succeeded[r] /\ planned[r] # {}
      /\ at \in [Runs -> Positions] /\ token \in [Runs -> Tokens] /\ UNCHANGED planned
  BY DEF NextAction, ProgressInv, RunInv, StartedInv, ProgressTypeOK, ToolkitTypeOK
<1>2. \A q \in Runs : Verdict(q)' = Verdict(q)
  BY <1>1 DEF Verdict, NextAction, EnterTask, Verdicts
<1>3. CASE at[r][2] < StepsOf(at[r][1])
  <2>0. PICK e \in Experiments : \E s \in 1..StepsOf(e) : at[r] = <<e, s>>
    BY <1>1, PositionPairs
  <2>1. PICK s \in 1..StepsOf(e) : at[r] = <<e, s>>
    BY <2>0
  <2>2. s < StepsOf(e) /\ at' = [at EXCEPT ![r] = <<e, s + 1>>]
    BY <1>3, <2>1 DEF NextAction, EnterTask
  <2>3. Promise!Started(r) /\ Verdict(r) = "none"
    BY <1>1 DEF Promise!Started, Verdict, Verdicts
  <2>4. ~Promise!AtEnd(r)
    BY <2>1, <2>2, StepsOfNat DEF Promise!AtEnd
  <2>5. Promise!Advance(r)
    BY <1>1, <1>2, <2>1, <2>2, <2>3, <2>4 DEF Promise!Advance, Verdict
  <2> QED
    BY <2>5 DEF Promise!Next
<1>4. CASE ~(at[r][2] < StepsOf(at[r][1]))
  BY <1>1, <1>2, <1>4, Stutters DEF NextAction
<1> QED
  BY <1>3, <1>4

LEMMA NextExperimentAdvances ==
  ASSUME ProgressInv, StartedInv, NEW r \in Runs, NextExperiment(r), UNCHANGED succeeded
  PROVE  Promise!Next
<1>1. /\ token[r] = "experimentEnd" /\ planned[r] # {} /\ UNCHANGED planned
      /\ successfulExperiment[r] => at[r] \in succeeded[r] /\ AtEnd(r)
      /\ at \in [Runs -> Positions] /\ token \in [Runs -> Tokens]
  BY DEF NextExperiment, ProgressInv, RunInv, StartedInv, ProgressTypeOK, ToolkitTypeOK
<1>2. Promise!Started(r) /\ Verdict(r) = "none"
  BY <1>1 DEF Promise!Started, Verdict, Verdicts
<1>3. successfulExperiment[r] => Promise!AtEnd(r)
  BY <1>1, PositionPairs DEF AtEnd, Promise!AtEnd
<1>4. Promise!Later(r) = Later(r)
  BY DEF Promise!Later, Later
<1>5. CASE successfulExperiment[r] /\ Later(r) # {}
  <2>1. \A q \in Runs : Verdict(q)' = Verdict(q)
    BY <1>1, <1>5 DEF Verdict, NextExperiment, EnterExperiment, EnterTask, Verdicts
  <2>2. PICK e \in Later(r) : IsFirst(e, Later(r)) /\ at' = [at EXCEPT ![r] = <<e, 1>>]
    BY <1>5 DEF NextExperiment, EnterExperiment, EnterTask
  <2>3. Promise!Advance(r)
    BY <1>1, <1>2, <1>3, <1>4, <1>5, <2>1, <2>2
    DEF Promise!Advance, Promise!IsFirst, IsFirst, Verdict
  <2> QED
    BY <2>3 DEF Promise!Next
<1>6. CASE ~(successfulExperiment[r] /\ Later(r) # {})
  <2> DEFINE verdict == [q \in Runs |-> IF token[q] \in Verdicts THEN token[q] ELSE "none"]
  <2>1. /\ UNCHANGED at
        /\ token' = [token EXCEPT ![r] = IF successfulExperiment[r] THEN "PASSED" ELSE "FAILED"]
    BY <1>6 DEF NextExperiment
  <2>2. verdict' = [verdict EXCEPT ![r] = IF successfulExperiment[r] THEN "PASSED" ELSE "FAILED"]
    BY <1>1, <2>1 DEF Verdicts
  <2>3. CASE successfulExperiment[r]
    BY <1>1, <1>2, <1>3, <1>4, <1>6, <2>1, <2>2, <2>3
    DEF Promise!Next, Promise!Pass, Verdict
  <2>4. CASE ~successfulExperiment[r]
    BY <1>1, <1>2, <2>1, <2>2, <2>4 DEF Promise!Next, Promise!GiveUp, Verdict
  <2> QED
    BY <2>3, <2>4
<1> QED
  BY <1>5, <1>6

-----------------------------------------------------------------------------
(* Everything else is invisible.                                           *)

LEMMA HandlerSteps ==
  ASSUME ProgressInv, StartedInv, NEW w \in Workers, Handler(w)
  PROVE  [Promise!Next]_Promise!promiseVars
<1>1. CASE CommandCompletes(w) \/ CompletionDropped(w)
  BY <1>1, SuccessExecutes
<1>2. CASE ~(CommandCompletes(w) \/ CompletionDropped(w))
  <2>1. UNCHANGED <<planned, at, succeeded, token>>
    BY <1>2 DEF Handler, Activate, JobActivated, RejectVariables, RejectImage, StartCommand,
       FailJob, JobFailed, ContextExpires, CommandFails, toolkitVars
  <2> QED
    BY <2>1, Stutters DEF Verdict
<1> QED
  BY <1>1, <1>2

LEMMA ReaderSteps ==
  ASSUME ProgressInv, StartedInv, NEW w \in Workers, Reader(w)
  PROVE  [Promise!Next]_Promise!promiseVars
<1>1. CASE UNCHANGED <<planned, at, token>>
  <2>1. UNCHANGED succeeded
    BY DEF Reader, ActivateRead, ReadSucceeds, ReadFails, EndRead
  <2> QED
    BY <1>1, <2>1, Stutters DEF Verdict
<1>2. ASSUME NEW v, ReadJobCompleted(reader[w], Selection(v)), EndRead(w)
      PROVE  Promise!Next
  <2>1. reader[w] \in Runs /\ UNCHANGED succeeded
    BY <1>2 DEF EndRead, ProgressInv, ProgressTypeOK
  <2>2. Selection(v) \in SUBSET Experiments
    BY DEF Selection
  <2> QED
    BY <1>2, <2>1, <2>2, ReadPlans
<1> QED
  BY <1>1, <1>2 DEF Reader, ActivateRead, JobActivated, ReadSucceeds, ReadFails, JobFailed,
     toolkitVars

LEMMA EngineSteps ==
  ASSUME ProgressInv, StartedInv, NEW r \in Runs, Engine(r) \/ LockExpires(r)
  PROVE  [Promise!Next]_Promise!promiseVars
<1>1. UNCHANGED succeeded
  BY DEF Engine, LockExpires, workerVars
<1>2. CASE BackoffElapsed(r) \/ JobTimedOut(r)
  BY <1>1, <1>2, Stutters DEF BackoffElapsed, JobTimedOut, Verdict
<1>3. CASE PauseElapsed(r) \/ ActionTimedOut(r) \/ ActionErrorCaught(r) \/ ExperimentTimedOut(r)
  <2>1. UNCHANGED <<planned, at>>
    BY <1>3 DEF PauseElapsed, ActionTimedOut, ActionErrorCaught, ExperimentTimedOut
  <2>2. /\ token \in [Runs -> Tokens] /\ token[r] \notin Verdicts
        /\ \E t \in Tokens \ Verdicts : token' = [token EXCEPT ![r] = t]
    BY <1>3 DEF PauseElapsed, ActionTimedOut, ActionErrorCaught, ExperimentTimedOut, InExperiment,
       Verdicts, Tokens, ProgressInv, ProgressTypeOK, ToolkitTypeOK
  <2>3. \A q \in Runs : Verdict(q)' = Verdict(q)
    BY <2>2, SameVerdict
  <2> QED
    BY <1>1, <2>1, <2>3, Stutters
<1> QED
  BY <1>1, <1>2, <1>3, NextActionAdvances, NextExperimentAdvances DEF Engine, EngineStep, LockExpires

\* The initial state of the workers and processes is that of the promise.
LEMMA InitKeepsPromise == Init => Promise!Init
BY DEF Init, ToolkitInit, Promise!Init, Verdicts

\* KeepsPromise: without jobs, locks, workers and processes, what a run does is
\* to execute its planned steps one after the other, each maybe more than once,
\* and to tell whether they succeeded.
THEOREM WorkersKeepPromise == Spec => KeepsPromise
<1>1. ProgressInv /\ StartedInv /\ [Next]_vars => [Promise!Next]_Promise!promiseVars
  <2> SUFFICES ASSUME ProgressInv, StartedInv, [Next]_vars
               PROVE  [Promise!Next]_Promise!promiseVars
    OBVIOUS
  <2>1. ASSUME UNCHANGED <<planned, at, succeeded, token>>
        PROVE  [Promise!Next]_Promise!promiseVars
    BY <2>1, Stutters DEF Verdict
  <2>2. ASSUME NEW w \in Workers, Crash(w) \/ Restart(w)
        PROVE  [Promise!Next]_Promise!promiseVars
    BY <2>1, <2>2 DEF Crash, Restart, toolkitVars
  <2>3. CASE GatewayChanges \/ UNCHANGED vars
    BY <2>1, <2>3 DEF GatewayChanges, vars, toolkitVars, workerVars
  <2> QED
    BY <2>2, <2>3, HandlerSteps, ReaderSteps, EngineSteps DEF Next
<1> QED
  BY <1>1, InitKeepsPromise, ProgressInvariant, RunsAreStarted, PTL
  DEF Spec, KeepsPromise, Promise!Spec
=============================================================================
