------------------------ MODULE ChaosWorkers_proofs ------------------------
(***************************************************************************)
(* Type correctness, soundness of the verdict, the order of the steps, the *)
(* finality of a verdict and the selection of experiments, for every       *)
(* number of runs, workers, experiments and steps.                         *)
(*                                                                         *)
(* Neither VerdictSound nor StepsInOrder is inductive: a PASSED verdict is *)
(* the end of a chain of tokens, each of which must carry the knowledge    *)
(* that the steps behind it have succeeded.  RunInv states that chain for  *)
(* the run, HandlerInv ties a handler, however late, to a step its run has *)
(* reached already.  JobInv adds that nothing is left to answer behind the *)
(* task, FitInv that runs and handlers stay within what was selected.      *)
(***************************************************************************)
EXTENDS ChaosWorkers, TLAPS

NotAfter(p, q) == p = q \/ Before(p, q)
AtEnd(r) == at[r][2] = StepsOf(at[r][1])

RunInv(r) ==
  /\ \A p \in Positions : p[1] \in planned[r] /\ Before(p, at[r]) => p \in succeeded[r]
  /\ token[r] \in {"pause", "runnerEnd"} /\ successfulRun[r] => at[r] \in succeeded[r]
  /\ token[r] = "experimentEnd" /\ successfulExperiment[r] =>
       at[r] \in succeeded[r] /\ AtEnd(r)
  /\ token[r] = "PASSED" =>
       at[r] \in succeeded[r] /\ AtEnd(r) /\ \A e \in planned[r] : ~(at[r][1] < e)
  /\ token[r] = "readExperiments" => at[r] = <<1, 1>>
  /\ job[r] \in {"activatable", "activated", "failed"} => retries[r] > 0

HandlerInv(w) == Busy(w) => NotAfter(handler[w].pos, at[handler[w].run])

ProgressInv ==
  /\ ProgressTypeOK
  /\ \A r \in Runs : RunInv(r)
  /\ \A w \in Workers : HandlerInv(w)

-----------------------------------------------------------------------------
LEMMA StepsOfNat == \A e \in Experiments : StepsOf(e) \in Nat /\ StepsOf(e) >= 1
  BY ToolkitAssumption DEF StepsOf, Experiments

LEMMA RetriesPositive == Retries \in 0..Retries /\ Retries > 0 /\ 0 \in 0..Retries
  BY ToolkitAssumption

LEMMA PositionPairs ==
  ASSUME NEW p
  PROVE  p \in Positions <=>
           \E e \in Experiments : \E s \in 1..StepsOf(e) : p = <<e, s>>
  BY DEF Positions

\* Positions are ordered lexicographically.
LEMMA BeforeTransitive ==
  ASSUME NEW p \in Positions, NEW q \in Positions, NEW t \in Positions,
         Before(p, q), NotAfter(q, t)
  PROVE  Before(p, t)
  BY PositionPairs, StepsOfNat DEF Before, NotAfter, Experiments

LEMMA FirstPosition == <<1, 1>> \in Positions /\ \A p \in Positions : ~Before(p, <<1, 1>>)
  BY PositionPairs, StepsOfNat, ToolkitAssumption DEF Before, Experiments

LEMMA NextStep ==
  ASSUME NEW p \in Positions, p[2] < StepsOf(p[1])
  PROVE  /\ <<p[1], p[2] + 1>> \in Positions
         /\ Before(p, <<p[1], p[2] + 1>>)
         /\ \A q \in Positions : Before(q, <<p[1], p[2] + 1>>) => NotAfter(q, p)
  BY PositionPairs, StepsOfNat DEF Before, NotAfter, Experiments

LEMMA NextFirstStep ==
  ASSUME NEW p \in Positions, p[2] = StepsOf(p[1]), NEW S \in SUBSET Experiments,
         NEW e, IsFirst(e, {f \in S : p[1] < f})
  PROVE  /\ <<e, 1>> \in Positions
         /\ Before(p, <<e, 1>>)
         /\ \A q \in Positions : q[1] \in S /\ Before(q, <<e, 1>>) => NotAfter(q, p)
  BY PositionPairs, StepsOfNat DEF Before, NotAfter, Experiments, IsFirst

\* Nothing of the experiments S comes before the first step of the first one.
LEMMA FirstStepOfPlan ==
  ASSUME NEW S \in SUBSET Experiments, NEW e, IsFirst(e, S)
  PROVE  /\ <<e, 1>> \in Positions
         /\ NotAfter(<<1, 1>>, <<e, 1>>)
         /\ \A q \in Positions : q[1] \in S => ~Before(q, <<e, 1>>)
  BY PositionPairs, StepsOfNat DEF Before, NotAfter, Experiments, IsFirst

-----------------------------------------------------------------------------
(* What the steps of the handlers do to the parts of the invariant.        *)

\* A step that leaves the run alone and forgets no success.
LEMMA RunUntouched ==
  ASSUME ProgressInv, UNCHANGED toolkitVars, NEW r \in Runs,
         succeeded[r] \subseteq succeeded'[r]
  PROVE  RunInv(r)'
  BY DEF ProgressInv, RunInv, toolkitVars, AtEnd

\* A handler that keeps its job, and a run that does not go back.
LEMMA HandlerUntouched ==
  ASSUME ProgressInv, NEW w \in Workers,
         \/ ~Busy(w)'
         \/ /\ Busy(w)
            /\ handler'[w].pos = handler[w].pos
            /\ handler'[w].run = handler[w].run
            /\ NotAfter(at[handler[w].run], at'[handler[w].run]),
         at' \in [Runs -> Positions]
  PROVE  HandlerInv(w)'
<1>1. CASE ~Busy(w)'
  BY <1>1 DEF HandlerInv
<1>2. CASE Busy(w) /\ handler'[w].pos = handler[w].pos
                   /\ handler'[w].run = handler[w].run
                   /\ NotAfter(at[handler[w].run], at'[handler[w].run])
  <2>1. handler[w] \in Handling
    BY <1>2 DEF ProgressInv, ProgressTypeOK, Busy
  <2>2. /\ handler[w].pos \in Positions
        /\ at[handler[w].run] \in Positions
        /\ at'[handler[w].run] \in Positions
    BY <2>1 DEF ProgressInv, ProgressTypeOK, ToolkitTypeOK, Handling
  <2>3. NotAfter(handler[w].pos, at[handler[w].run])
    BY <1>2 DEF ProgressInv, HandlerInv
  <2>4. NotAfter(handler[w].pos, at'[handler[w].run])
    BY <1>2, <2>2, <2>3, BeforeTransitive DEF NotAfter
  <2> QED
    BY <1>2, <2>4 DEF HandlerInv, NotAfter
<1> QED
  BY <1>1, <1>2

LEMMA FailKeepsProgress ==
  ASSUME ProgressInv, NEW w \in Workers, NEW k \in 0..Retries, NEW b \in BOOLEAN,
         Busy(w), FailJob(w, k, b)
  PROVE  ProgressInv'
<1>1. handler[w] \in Handling
  BY DEF ProgressInv, ProgressTypeOK, Busy
<1>2. ProgressTypeOK'
  <2>1. CASE UNCHANGED toolkitVars
    BY <2>1 DEF ProgressInv, ProgressTypeOK, ToolkitTypeOK, FailJob, Become, toolkitVars, Idle
  <2>2. CASE JobFailed(handler[w].run, k, b)
    BY <1>1, <2>2 DEF ProgressInv, ProgressTypeOK, ToolkitTypeOK, FailJob, Become,
      Idle, JobFailed, JobStates, Handling
  <2> QED
    BY <2>1, <2>2 DEF FailJob
<1>3. ASSUME NEW r \in Runs PROVE RunInv(r)'
  <2>1. CASE UNCHANGED toolkitVars
    BY <2>1, RunUntouched DEF FailJob
  <2>2. CASE JobFailed(handler[w].run, k, b)
    BY <1>1, <2>2 DEF ProgressInv, ProgressTypeOK, ToolkitTypeOK, RunInv, AtEnd, FailJob,
      JobFailed, Handling
  <2> QED
    BY <2>1, <2>2 DEF FailJob
<1>4. ASSUME NEW v \in Workers PROVE HandlerInv(v)'
  <2>1. at' = at
    BY DEF FailJob, JobFailed, toolkitVars
  <2>2. CASE v = w
    BY <2>2 DEF ProgressInv, ProgressTypeOK, HandlerInv, FailJob, Become, Busy
  <2>3. CASE v # w
    BY <2>1, <2>3 DEF ProgressInv, ProgressTypeOK, HandlerInv, FailJob, Become, Busy, NotAfter
  <2> QED
    BY <2>2, <2>3
<1> QED
  BY <1>2, <1>3, <1>4 DEF ProgressInv

\* A step of the engine that leaves token order, plan and position alone needs
\* the invariant of its own run only.
LEMMA EngineFrame ==
  ASSUME ProgressInv, ProgressTypeOK', NEW r \in Runs, RunInv(r)',
         UNCHANGED <<handler, succeeded>>,
         NotAfter(at[r], at'[r]),
         \A q \in Runs \ {r} :
           /\ token'[q] = token[q] /\ at'[q] = at[q] /\ job'[q] = job[q]
           /\ planned'[q] = planned[q] /\ retries'[q] = retries[q]
           /\ successfulRun'[q] = successfulRun[q]
           /\ successfulExperiment'[q] = successfulExperiment[q]
  PROVE  ProgressInv'
<1>1. ASSUME NEW q \in Runs PROVE RunInv(q)'
  BY DEF ProgressInv, RunInv, AtEnd
<1>2. ASSUME NEW w \in Workers PROVE HandlerInv(w)'
  <2>1. CASE Busy(w)
    <3>1. handler[w].run \in Runs
      BY <2>1 DEF ProgressInv, ProgressTypeOK, Busy, Handling
    <3>2. NotAfter(at[handler[w].run], at'[handler[w].run])
      BY <3>1 DEF NotAfter
    <3> QED
      BY <2>1, <3>2, HandlerUntouched DEF ProgressTypeOK, ToolkitTypeOK
  <2>2. CASE ~Busy(w)
    BY <2>2 DEF HandlerInv, Busy
  <2> QED
    BY <2>1, <2>2
<1> QED
  BY <1>1, <1>2 DEF ProgressInv
\* The steps of the engine that stay at their position.
LEMMA EngineInPlace ==
  ASSUME ProgressInv, NEW r \in Runs, UNCHANGED workerVars,
         \/ BackoffElapsed(r) \/ PauseElapsed(r) \/ ActionTimedOut(r)
         \/ ActionErrorCaught(r) \/ ExperimentTimedOut(r) \/ JobTimedOut(r)
  PROVE  ProgressInv'
<1> USE DEF BackoffElapsed, PauseElapsed, ActionTimedOut, ActionErrorCaught,
        ExperimentTimedOut, JobTimedOut
<1>1. ProgressTypeOK'
  BY DEF ProgressInv, ProgressTypeOK, ToolkitTypeOK, workerVars, Tokens, InExperiment, JobStates
<1>2. RunInv(r)'
  BY DEF ProgressInv, ProgressTypeOK, ToolkitTypeOK, RunInv, AtEnd, workerVars, InExperiment
<1>3. at' = at
  OBVIOUS
<1> QED
  BY <1>1, <1>2, <1>3, EngineFrame
     DEF ProgressInv, ProgressTypeOK, ToolkitTypeOK, workerVars, NotAfter

\* Entering a task at a position all of whose predecessors have succeeded.
LEMMA EnterTaskKeepsProgress ==
  ASSUME ProgressInv, NEW r \in Runs, NEW p \in Positions, EnterTask(r, p),
         UNCHANGED <<workerVars, planned>>,
         \/ UNCHANGED successfulExperiment
         \/ successfulExperiment' = [successfulExperiment EXCEPT ![r] = TRUE],
         NotAfter(at[r], p),
         \A q \in Positions : q[1] \in planned[r] /\ Before(q, p) => q \in succeeded[r]
  PROVE  ProgressInv'
<1> USE DEF EnterTask
<1>1. ProgressTypeOK'
  BY RetriesPositive
     DEF ProgressInv, ProgressTypeOK, ToolkitTypeOK, workerVars, Tokens, InExperiment, JobStates
<1>2. RunInv(r)'
  BY RetriesPositive DEF ProgressInv, ProgressTypeOK, ToolkitTypeOK, RunInv, AtEnd, workerVars
<1> QED
  BY <1>1, <1>2, EngineFrame DEF ProgressInv, ProgressTypeOK, ToolkitTypeOK, workerVars

LEMMA NextActionKeepsProgress ==
  ASSUME ProgressInv, NEW r \in Runs, UNCHANGED workerVars, NextAction(r)
  PROVE  ProgressInv'
<1>1. at[r] \in Positions /\ at[r] \in succeeded[r]
  BY DEF ProgressInv, ProgressTypeOK, ToolkitTypeOK, RunInv, NextAction
<1>2. CASE at[r][2] < StepsOf(at[r][1])
  <2> DEFINE p == <<at[r][1], at[r][2] + 1>>
  <2>1. p \in Positions /\ NotAfter(at[r], p)
    BY <1>1, <1>2, NextStep DEF NotAfter
  <2>2. \A q \in Positions : q[1] \in planned[r] /\ Before(q, p) => q \in succeeded[r]
    BY <1>1, <1>2, NextStep DEF ProgressInv, RunInv, NotAfter
  <2>3. EnterTask(r, p) /\ UNCHANGED <<planned, successfulExperiment>>
    BY <1>2 DEF NextAction
  <2> QED
    BY <2>1, <2>2, <2>3, EnterTaskKeepsProgress
<1>3. CASE ~(at[r][2] < StepsOf(at[r][1]))
  <2>1. AtEnd(r)
    BY <1>1, <1>3, PositionPairs, StepsOfNat DEF AtEnd, Experiments
  <2>2. ProgressTypeOK'
    BY <1>3 DEF NextAction, ProgressInv, ProgressTypeOK, ToolkitTypeOK, workerVars, Tokens
  <2>3. RunInv(r)'
    BY <1>1, <1>3, <2>1
       DEF NextAction, ProgressInv, ProgressTypeOK, ToolkitTypeOK, RunInv, AtEnd, workerVars
  <2> QED
    BY <1>3, <2>2, <2>3, EngineFrame
       DEF NextAction, ProgressInv, ProgressTypeOK, ToolkitTypeOK, workerVars, NotAfter
<1> QED
  BY <1>2, <1>3

LEMMA NextExperimentKeepsProgress ==
  ASSUME ProgressInv, NEW r \in Runs, UNCHANGED workerVars, NextExperiment(r)
  PROVE  ProgressInv'
<1>1. at[r] \in Positions
  BY DEF ProgressInv, ProgressTypeOK, ToolkitTypeOK
<1>2. CASE successfulExperiment[r] /\ Later(r) # {}
  <2>1. PICK e \in Later(r) : IsFirst(e, Later(r)) /\ EnterExperiment(r, e)
    BY <1>2 DEF NextExperiment
  <2> DEFINE p == <<e, 1>>
  <2>2. AtEnd(r) /\ at[r] \in succeeded[r]
    BY <1>2 DEF NextExperiment, ProgressInv, RunInv
  <2>3. planned[r] \in SUBSET Experiments /\ IsFirst(e, {f \in planned[r] : at[r][1] < f})
    BY <2>1 DEF Later, ProgressInv, ProgressTypeOK, ToolkitTypeOK
  <2>4. /\ p \in Positions /\ NotAfter(at[r], p)
        /\ \A q \in Positions : q[1] \in planned[r] /\ Before(q, p) => NotAfter(q, at[r])
    BY <1>1, <2>2, <2>3, NextFirstStep DEF NotAfter, AtEnd
  <2>5. \A q \in Positions : q[1] \in planned[r] /\ Before(q, p) => q \in succeeded[r]
    BY <2>2, <2>4 DEF ProgressInv, RunInv, NotAfter
  <2>6. EnterTask(r, p) /\ UNCHANGED planned
        /\ successfulExperiment' = [successfulExperiment EXCEPT ![r] = TRUE]
    BY <1>2, <2>1 DEF NextExperiment, EnterExperiment
  <2> QED
    BY <2>4, <2>5, <2>6, EnterTaskKeepsProgress
<1>3. CASE ~(successfulExperiment[r] /\ Later(r) # {})
  <2>1. successfulExperiment[r] => Later(r) = {}
    BY <1>3
  <2>2. ProgressTypeOK'
    BY <1>3 DEF NextExperiment, ProgressInv, ProgressTypeOK, ToolkitTypeOK, workerVars, Tokens,
                Verdicts
  <2>3. RunInv(r)'
    BY <1>3, <2>1
       DEF NextExperiment, ProgressInv, ProgressTypeOK, ToolkitTypeOK, RunInv, AtEnd, workerVars,
           Later
  <2> QED
    BY <1>3, <2>2, <2>3, EngineFrame
       DEF NextExperiment, ProgressInv, ProgressTypeOK, ToolkitTypeOK, workerVars, NotAfter
<1> QED
  BY <1>2, <1>3

-----------------------------------------------------------------------------
(* The invariant.                                                          *)

LEMMA InitProgress == Init => ProgressInv
<1> SUFFICES ASSUME Init PROVE ProgressInv
  OBVIOUS
<1> USE DEF Init, ToolkitInit
<1>1. ProgressTypeOK
  BY FirstPosition, ToolkitAssumption
     DEF ProgressTypeOK, ToolkitTypeOK, Tokens, JobStates, InExperiment
<1>2. \A r \in Runs : RunInv(r)
  BY FirstPosition, RetriesPositive DEF RunInv, AtEnd
<1>3. \A w \in Workers : HandlerInv(w)
  BY DEF HandlerInv, Busy
<1> QED
  BY <1>1, <1>2, <1>3 DEF ProgressInv

LEMMA HandlerKeepsProgress ==
  ASSUME ProgressInv, NEW w \in Workers, Handler(w)
  PROVE  ProgressInv'
<1>1. ASSUME NEW r \in Runs, Activate(w, r) PROVE ProgressInv'
  <2> USE <1>1 DEF Activate, JobActivated, Become
  <2>1. retries[r] \in 1..Retries
    BY ToolkitAssumption DEF ProgressInv, ProgressTypeOK, ToolkitTypeOK, RunInv
  <2>2. ProgressTypeOK'
    BY <2>1 DEF ProgressInv, ProgressTypeOK, ToolkitTypeOK, JobStates, Handling
  <2>3. ASSUME NEW q \in Runs PROVE RunInv(q)'
    BY <2>3 DEF ProgressInv, ProgressTypeOK, ToolkitTypeOK, RunInv, AtEnd
  <2>4. ASSUME NEW v \in Workers PROVE HandlerInv(v)'
    BY <2>4 DEF ProgressInv, ProgressTypeOK, HandlerInv, Busy, NotAfter
  <2> QED
    BY <2>2, <2>3, <2>4 DEF ProgressInv
<1>2. CASE RejectVariables(w)
  <2>1. Busy(w)
    BY <1>2 DEF RejectVariables, Finds, Busy, Idle, Down
  <2> QED
    BY <1>2, <2>1, FailKeepsProgress, RetriesPositive DEF RejectVariables
<1>3. CASE RejectImage(w)
  <2>1. Busy(w)
    BY <1>3 DEF RejectImage, Finds, Busy, Idle, Down
  <2>2. handler[w].retries - 1 \in 0..Retries
    BY <2>1, ToolkitAssumption DEF ProgressInv, ProgressTypeOK, Busy, Handling
  <2> QED
    BY <1>3, <2>1, <2>2, FailKeepsProgress DEF RejectImage
<1>4. CASE StartCommand(w) \/ ContextExpires(w)
  <2> USE <1>4 DEF StartCommand, ContextExpires, Become, Finds
  <2>1. handler[w] \in Handling
    BY DEF ProgressInv, ProgressTypeOK, Idle, Down
  <2>2. ProgressTypeOK'
    BY <2>1 DEF ProgressInv, ProgressTypeOK, ToolkitTypeOK, Handling, toolkitVars
  <2>3. ASSUME NEW q \in Runs PROVE RunInv(q)'
    BY <2>3, RunUntouched
  <2>4. ASSUME NEW v \in Workers PROVE HandlerInv(v)'
    BY <2>1, <2>4 DEF ProgressInv, ProgressTypeOK, HandlerInv, Busy, NotAfter, toolkitVars,
                      Handling, Idle, Down
  <2> QED
    BY <2>2, <2>3, <2>4 DEF ProgressInv
<1>5. CASE CommandFails(w)
  <2>1. Busy(w)
    BY <1>5 DEF CommandFails, Running, Busy, Idle, Down
  <2>2. handler[w].retries \in 0..Retries
    BY <2>1, ToolkitAssumption DEF ProgressInv, ProgressTypeOK, Busy, Handling
  <2> QED
    BY <1>5, <2>1, <2>2, FailKeepsProgress DEF CommandFails
<1>6. CASE CommandCompletes(w) \/ CompletionDropped(w)
  <2> USE <1>6 DEF CommandCompletes, CompletionDropped, Success, Become
  <2>1. handler[w] \in Handling
    BY DEF ProgressInv, ProgressTypeOK, Running, Idle, Down
  <2>2. at' = at
    BY DEF ActionJobCompleted, toolkitVars
  <2>3. ProgressTypeOK'
    BY <2>1 DEF ProgressInv, ProgressTypeOK, ToolkitTypeOK, Handling, toolkitVars,
                ActionJobCompleted, Tokens, InExperiment, JobStates
  <2>4. ASSUME NEW q \in Runs PROVE RunInv(q)'
    <3>1. succeeded[q] \subseteq succeeded'[q]
      BY <2>1 DEF ProgressInv, ProgressTypeOK, Handling
    <3>2. CASE CompletionDropped(w)
      BY <3>1, <3>2, RunUntouched
    <3>3. CASE CommandCompletes(w)
      BY <2>1, <3>1, <3>3 DEF ProgressInv, ProgressTypeOK, ToolkitTypeOK, RunInv, AtEnd,
                         ActionJobCompleted, Handling, Current
    <3> QED
      BY <3>2, <3>3
  <2>5. ASSUME NEW v \in Workers PROVE HandlerInv(v)'
    BY <2>2 DEF ProgressInv, ProgressTypeOK, HandlerInv, Busy, NotAfter
  <2> QED
    BY <2>3, <2>4, <2>5 DEF ProgressInv
<1> QED
  BY <1>1, <1>2, <1>3, <1>4, <1>5, <1>6 DEF Handler

LEMMA ReaderKeepsProgress ==
  ASSUME ProgressInv, NEW w \in Workers, Reader(w)
  PROVE  ProgressInv'
<1>1. ASSUME NEW r \in Runs, ActivateRead(w, r) PROVE ProgressInv'
  <2> USE <1>1 DEF ActivateRead, JobActivated
  <2>1. ProgressTypeOK'
    BY DEF ProgressInv, ProgressTypeOK, ToolkitTypeOK, JobStates
  <2>2. ASSUME NEW q \in Runs PROVE RunInv(q)'
    BY <2>2 DEF ProgressInv, ProgressTypeOK, ToolkitTypeOK, RunInv, AtEnd
  <2>3. ASSUME NEW v \in Workers PROVE HandlerInv(v)'
    BY <2>3 DEF ProgressInv, HandlerInv, Busy, NotAfter
  <2> QED
    BY <2>1, <2>2, <2>3 DEF ProgressInv
<1>2. CASE ReadSucceeds(w)
  <2> USE <1>2 DEF ReadSucceeds, EndRead
  <2>1. reader[w] \in Runs
    BY DEF ProgressInv, ProgressTypeOK
  <2>2. CASE UNCHANGED toolkitVars
    <3>1. ProgressTypeOK'
      BY <2>2 DEF ProgressInv, ProgressTypeOK, ToolkitTypeOK, toolkitVars
    <3>2. ASSUME NEW q \in Runs PROVE RunInv(q)'
      BY <2>2, <3>2, RunUntouched
    <3>3. ASSUME NEW v \in Workers PROVE HandlerInv(v)'
      BY <2>2, <3>3 DEF ProgressInv, HandlerInv, Busy, NotAfter, toolkitVars
    <3> QED
      BY <3>1, <3>2, <3>3 DEF ProgressInv
  <2>3. ASSUME NEW S \in SUBSET Experiments, ReadJobCompleted(reader[w], S)
        PROVE  ProgressInv'
    <3>1. PICK e \in S : IsFirst(e, S) /\ EnterExperiment(reader[w], e)
      BY <2>3 DEF ReadJobCompleted
    <3> USE <2>1, <2>3, <3>1 DEF ReadJobCompleted, EnterExperiment, EnterTask
    <3>2. /\ at[reader[w]] = <<1, 1>>
          /\ at' = [at EXCEPT ![reader[w]] = <<e, 1>>]
          /\ <<e, 1>> \in Positions
          /\ NotAfter(<<1, 1>>, <<e, 1>>)
          /\ \A q \in Positions : q[1] \in S => ~Before(q, <<e, 1>>)
      BY FirstStepOfPlan DEF ProgressInv, ProgressTypeOK, ToolkitTypeOK, RunInv
    <3>3. ProgressTypeOK'
      BY <3>2, RetriesPositive
         DEF ProgressInv, ProgressTypeOK, ToolkitTypeOK, Tokens, InExperiment, JobStates
    <3>4. ASSUME NEW q \in Runs PROVE RunInv(q)'
      <4>1. CASE q = reader[w]
        <5>1. /\ token'[q] = "task" /\ at'[q] = <<e, 1>> /\ planned'[q] = S
              /\ retries'[q] = Retries
          BY <3>2, <4>1 DEF ProgressInv, ProgressTypeOK, ToolkitTypeOK
        <5>2. \A p \in Positions : p[1] \in planned'[q] => ~Before(p, at'[q])
          BY <3>2, <5>1
        <5> QED
          BY ONLY <5>1, <5>2, RetriesPositive DEF RunInv, Before
      <4>2. CASE q # reader[w]
        BY <3>4, <4>2 DEF ProgressInv, ProgressTypeOK, ToolkitTypeOK, RunInv, AtEnd
      <4> QED
        BY <4>1, <4>2
    <3>5. ASSUME NEW v \in Workers PROVE HandlerInv(v)'
      <4>1. CASE Busy(v)
        <5>1. handler[v].run \in Runs
          BY <4>1 DEF ProgressInv, ProgressTypeOK, Busy, Handling
        <5>2. NotAfter(at[handler[v].run], at'[handler[v].run])
          BY <3>2, <5>1 DEF ProgressInv, ProgressTypeOK, ToolkitTypeOK, NotAfter
        <5> QED
          BY <3>3, <3>5, <4>1, <5>2, HandlerUntouched DEF ProgressTypeOK, ToolkitTypeOK
      <4>2. CASE ~Busy(v)
        BY <4>2 DEF HandlerInv, Busy
      <4> QED
        BY <4>1, <4>2
    <3> QED
      BY <3>3, <3>4, <3>5 DEF ProgressInv
  <2>4. PICK v : \/ ReadJobCompleted(reader[w], Selection(v))
                 \/ UNCHANGED toolkitVars
    OBVIOUS
  <2>5. Selection(v) \in SUBSET Experiments
    BY DEF Selection
  <2> QED
    BY <2>2, <2>3, <2>4, <2>5
<1>3. CASE ReadFails(w)
  <2> USE <1>3 DEF ReadFails, EndRead
  <2>1. reader[w] \in Runs
    BY DEF ProgressInv, ProgressTypeOK
  <2>2. at' = at
    BY DEF JobFailed, toolkitVars
  <2>3. ProgressTypeOK'
    BY <2>1, ToolkitAssumption
       DEF ProgressInv, ProgressTypeOK, ToolkitTypeOK, toolkitVars, JobFailed, JobStates
  <2>4. ASSUME NEW q \in Runs PROVE RunInv(q)'
    BY <2>1, <2>4
       DEF ProgressInv, ProgressTypeOK, ToolkitTypeOK, RunInv, AtEnd, toolkitVars, JobFailed
  <2>5. ASSUME NEW v \in Workers PROVE HandlerInv(v)'
    BY <2>2, <2>5 DEF ProgressInv, HandlerInv, Busy, NotAfter
  <2> QED
    BY <2>3, <2>4, <2>5 DEF ProgressInv
<1> QED
  BY <1>1, <1>2, <1>3 DEF Reader

LEMMA ProcessKeepsProgress ==
  ASSUME ProgressInv, NEW w \in Workers, Crash(w) \/ Restart(w)
  PROVE  ProgressInv'
<1> USE DEF Crash, Restart, Become
<1>1. ProgressTypeOK'
  BY DEF ProgressInv, ProgressTypeOK, ToolkitTypeOK, toolkitVars
<1>2. ASSUME NEW q \in Runs PROVE RunInv(q)'
  BY <1>2, RunUntouched
<1>3. ASSUME NEW v \in Workers PROVE HandlerInv(v)'
  BY <1>3 DEF ProgressInv, ProgressTypeOK, HandlerInv, Busy, NotAfter, toolkitVars
<1> QED
  BY <1>1, <1>2, <1>3 DEF ProgressInv

\* Every behaviour of the workers and processes keeps the invariant.
THEOREM ProgressInvariant == Spec => []ProgressInv
<1>1. Init => ProgressInv
  BY InitProgress
<1>2. ProgressInv /\ [Next]_vars => ProgressInv'
  <2> SUFFICES ASSUME ProgressInv, [Next]_vars PROVE ProgressInv'
    OBVIOUS
  <2>1. ASSUME NEW w \in Workers, Handler(w) \/ Reader(w) \/ Crash(w) \/ Restart(w)
        PROVE  ProgressInv'
    BY <2>1, HandlerKeepsProgress, ReaderKeepsProgress, ProcessKeepsProgress
  <2>2. ASSUME NEW r \in Runs, Engine(r) \/ LockExpires(r) PROVE ProgressInv'
    BY <2>2, EngineInPlace, NextActionKeepsProgress, NextExperimentKeepsProgress
       DEF Engine, EngineStep, LockExpires
  <2>3. CASE GatewayChanges \/ UNCHANGED vars
    <3>1. ASSUME NEW q \in Runs PROVE RunInv(q)'
      BY <2>3, <3>1, RunUntouched DEF GatewayChanges, vars, workerVars
    <3>2. ASSUME NEW v \in Workers PROVE HandlerInv(v)'
      BY <2>3, <3>2
         DEF GatewayChanges, vars, workerVars, toolkitVars, ProgressInv, HandlerInv, Busy, NotAfter
    <3>3. ProgressTypeOK'
      BY <2>3 DEF GatewayChanges, vars, workerVars, toolkitVars, ProgressInv, ProgressTypeOK, ToolkitTypeOK
    <3> QED
      BY <3>1, <3>2, <3>3 DEF ProgressInv
  <2> QED
    BY <2>1, <2>2, <2>3 DEF Next
<1> QED
  BY <1>1, <1>2, PTL DEF Spec

-----------------------------------------------------------------------------
(* What follows from it.                                                   *)

\* The state of the engine, the jobs and the handlers is always well typed.
THEOREM TypeCorrect == Spec => []TypeOK
<1>1. Init => overran \subseteq Runs
  BY DEF Init
<1>2. overran \subseteq Runs /\ [Next]_vars => (overran \subseteq Runs)'
  <2> SUFFICES ASSUME overran \subseteq Runs, [Next]_vars
               PROVE  overran' \subseteq Runs
    OBVIOUS
  <2>1. ASSUME NEW w \in Workers, Handler(w) PROVE overran' = overran
    BY <2>1 DEF Handler, Activate, RejectVariables, RejectImage, StartCommand, FailJob,
       ContextExpires, CommandFails, CommandCompletes, CompletionDropped, Success
  <2>2. ASSUME NEW w \in Workers, Reader(w) PROVE overran' = overran
    BY <2>2 DEF Reader, ActivateRead, ReadSucceeds, ReadFails, EndRead
  <2>3. ASSUME NEW w \in Workers, Crash(w) \/ Restart(w) PROVE overran' = overran
    BY <2>3 DEF Crash, Restart
  <2>4. ASSUME NEW r \in Runs, Engine(r) \/ LockExpires(r) PROVE overran' \subseteq Runs
    BY <2>4 DEF Engine, LockExpires
  <2> QED
    BY <2>1, <2>2, <2>3, <2>4 DEF Next, GatewayChanges, vars
<1>3. Init => reachable \in BOOLEAN
  BY DEF Init
<1>4. reachable \in BOOLEAN /\ [Next]_vars => (reachable \in BOOLEAN)'
  <2> SUFFICES ASSUME reachable \in BOOLEAN, [Next]_vars PROVE reachable' \in BOOLEAN
    OBVIOUS
  <2>1. ASSUME NEW w \in Workers, Handler(w) PROVE reachable' = reachable
    BY <2>1 DEF Handler, Activate, RejectVariables, RejectImage, StartCommand, FailJob,
       ContextExpires, CommandFails, CommandCompletes, CompletionDropped, Success
  <2>2. ASSUME NEW w \in Workers, Reader(w) PROVE reachable' = reachable
    BY <2>2 DEF Reader, ActivateRead, ReadSucceeds, ReadFails, EndRead
  <2>3. ASSUME NEW w \in Workers, Crash(w) \/ Restart(w) PROVE reachable' = reachable
    BY <2>3 DEF Crash, Restart
  <2>4. ASSUME NEW r \in Runs, Engine(r) \/ LockExpires(r) PROVE reachable' = reachable
    BY <2>4 DEF Engine, LockExpires
  <2> QED
    BY <2>1, <2>2, <2>3, <2>4 DEF Next, GatewayChanges, vars
<1>5. ProgressInv /\ overran \subseteq Runs /\ reachable \in BOOLEAN => TypeOK
  BY DEF ProgressInv, TypeOK
<1> QED
  BY <1>1, <1>2, <1>3, <1>4, <1>5, ProgressInvariant, PTL DEF Spec

\* A PASSED report means that every planned step succeeded, however often
\* commands were repeated, answers were lost and workers crashed.
THEOREM VerdictIsSound == Spec => []VerdictSound
<1>1. ProgressInv => VerdictSound
  <2> SUFFICES ASSUME ProgressInv, NEW r \in Runs, token[r] = "PASSED",
                      NEW p \in Positions, p[1] \in planned[r]
               PROVE  p \in succeeded[r]
    BY DEF VerdictSound
  <2>1. /\ at[r] \in Positions
        /\ at[r] \in succeeded[r]
        /\ AtEnd(r)
        /\ ~(at[r][1] < p[1])
    BY DEF ProgressInv, RunInv, ProgressTypeOK, ToolkitTypeOK
  <2>2. NotAfter(p, at[r])
    BY <2>1, PositionPairs, StepsOfNat DEF AtEnd, NotAfter, Before, Experiments
  <2> QED
    BY <2>1, <2>2 DEF ProgressInv, RunInv, NotAfter
<1> QED
  BY <1>1, ProgressInvariant, PTL

\* Re-executions and stragglers included, no worker is ever busy with a step
\* one of whose predecessors has not succeeded.
THEOREM StepsAreInOrder == Spec => []StepsInOrder
<1>1. ProgressInv => StepsInOrder
  <2> SUFFICES ASSUME ProgressInv, NEW w \in Workers, Busy(w),
                      NEW p \in Positions, p[1] \in planned[handler[w].run],
                      Before(p, handler[w].pos)
               PROVE  p \in succeeded[handler[w].run]
    BY DEF StepsInOrder
  <2>1. handler[w] \in Handling
    BY DEF ProgressInv, ProgressTypeOK, Busy
  <2>2. /\ handler[w].pos \in Positions
        /\ handler[w].run \in Runs
        /\ at[handler[w].run] \in Positions
    BY <2>1 DEF ProgressInv, ProgressTypeOK, ToolkitTypeOK, Handling
  <2>3. NotAfter(handler[w].pos, at[handler[w].run])
    BY DEF ProgressInv, HandlerInv
  <2>4. Before(p, at[handler[w].run])
    BY <2>2, <2>3, BeforeTransitive
  <2> QED
    BY <2>2, <2>4 DEF ProgressInv, RunInv
<1> QED
  BY <1>1, ProgressInvariant, PTL

-----------------------------------------------------------------------------
(* Steps.                                                                  *)

\* Only the two gateways of the loops move the token to another step.
LEMMA WhoAdvances ==
  ASSUME ProgressInv, Next, NEW r \in Runs, at'[r] # at[r], token[r] # "readExperiments"
  PROVE  NextAction(r) \/ NextExperiment(r)
<1>0. at \in [Runs -> Positions]
  BY DEF ProgressInv, ProgressTypeOK, ToolkitTypeOK
<1>1. ASSUME NEW w \in Workers, Handler(w) PROVE at' = at
  BY <1>1 DEF Handler, Activate, JobActivated, RejectVariables, RejectImage, StartCommand,
     FailJob, JobFailed, ContextExpires, CommandFails, CommandCompletes, ActionJobCompleted,
     CompletionDropped, Success, toolkitVars
<1>2. ASSUME NEW w \in Workers, Reader(w) PROVE at'[r] = at[r]
  <2>1. CASE \E q \in Runs : ActivateRead(w, q)
    BY <2>1 DEF ActivateRead, JobActivated
  <2>2. CASE ReadFails(w)
    BY <2>2 DEF ReadFails, JobFailed, toolkitVars
  <2>3. CASE ReadSucceeds(w)
    BY <1>0, <2>3 DEF ReadSucceeds, ReadJobCompleted, EnterExperiment, EnterTask, toolkitVars
  <2> QED
    BY <1>2, <2>1, <2>2, <2>3 DEF Reader
<1>3. ASSUME NEW w \in Workers, Crash(w) \/ Restart(w) PROVE at' = at
  BY <1>3 DEF Crash, Restart, toolkitVars
<1>4. ASSUME NEW q \in Runs, Engine(q) \/ LockExpires(q)
      PROVE  NextAction(r) \/ NextExperiment(r)
  <2>1. NextAction(q) \/ NextExperiment(q)
    BY <1>4 DEF Engine, EngineStep, LockExpires, JobTimedOut, BackoffElapsed, PauseElapsed,
       ActionTimedOut, ActionErrorCaught, ExperimentTimedOut
  <2>2. q # r => at'[r] = at[r]
    BY <1>0, <2>1 DEF NextAction, NextExperiment, EnterExperiment, EnterTask
  <2> QED
    BY <2>1, <2>2
<1> QED
  BY <1>1, <1>2, <1>3, <1>4 DEF Next, GatewayChanges, toolkitVars

\* AdvancesOneStep: a step is left only for its successor, and only after a
\* command for it has succeeded; an answer that comes late advances nothing.
THEOREM StepsAdvanceOneByOne == Spec => AdvancesOneStep
<1> DEFINE Advance(r) ==
      at'[r] # at[r] /\ token[r] # "readExperiments" =>
        /\ at[r] \in succeeded[r]
        /\ Before(at[r], at'[r])
        /\ \A p \in Positions :
             p[1] \in planned[r] => ~(Before(at[r], p) /\ Before(p, at'[r]))
<1>1. ProgressInv /\ [Next]_vars => [\A r \in Runs : Advance(r)]_vars
  <2> SUFFICES ASSUME ProgressInv, Next, NEW r \in Runs,
                      at'[r] # at[r], token[r] # "readExperiments"
               PROVE  /\ at[r] \in succeeded[r]
                      /\ Before(at[r], at'[r])
                      /\ \A p \in Positions :
                           p[1] \in planned[r] => ~(Before(at[r], p) /\ Before(p, at'[r]))
    OBVIOUS
  <2>1. /\ at \in [Runs -> Positions] /\ at[r] \in Positions /\ planned[r] \in SUBSET Experiments
        /\ RunInv(r)
    BY DEF ProgressInv, ProgressTypeOK, ToolkitTypeOK
  <2>2. ASSUME NEW p \in Positions, NotAfter(p, at[r]) PROVE ~Before(at[r], p)
    BY <2>1, <2>2, PositionPairs DEF NotAfter, Before, Experiments
  <2>3. CASE NextAction(r)
    <3>1. at[r] \in succeeded[r]
      BY <2>1, <2>3 DEF NextAction, RunInv
    <3>2. at[r][2] < StepsOf(at[r][1]) /\ at'[r] = <<at[r][1], at[r][2] + 1>>
      BY <2>1, <2>3 DEF NextAction, EnterTask
    <3>3. Before(at[r], at'[r]) /\ \A p \in Positions : Before(p, at'[r]) => NotAfter(p, at[r])
      BY <2>1, <3>2, NextStep
    <3> QED
      BY <2>2, <3>1, <3>3
  <2>4. CASE NextExperiment(r)
    <3>1. at[r] \in succeeded[r] /\ AtEnd(r)
      BY <2>1, <2>4 DEF NextExperiment, RunInv
    <3>2. PICK e \in Later(r) : IsFirst(e, Later(r)) /\ at'[r] = <<e, 1>>
      BY <2>1, <2>4 DEF NextExperiment, EnterExperiment, EnterTask
    <3>3. /\ Before(at[r], at'[r])
          /\ \A p \in Positions : p[1] \in planned[r] /\ Before(p, at'[r]) => NotAfter(p, at[r])
      BY <2>1, <3>1, <3>2, NextFirstStep DEF AtEnd, Later
    <3> QED
      BY <2>2, <3>1, <3>3
  <2> QED
    BY <2>3, <2>4, WhoAdvances
<1> QED
  BY <1>1, ProgressInvariant, PTL DEF Spec, AdvancesOneStep

-----------------------------------------------------------------------------
(* The end of a run.                                                       *)

\* Behind the task no job of the run is left that could still be answered,
\* locked or handed out.
JobInv == \A r \in Runs :
            token[r] \notin {"readExperiments", "task"} => job[r] \in {"completed", "cancelled"}

LEMMA JobsEnd == Spec => []JobInv
<1>1. Init => JobInv
  BY DEF Init, ToolkitInit, JobInv
<1>2. ProgressInv /\ JobInv /\ [Next]_vars => JobInv'
  <2> SUFFICES ASSUME ProgressInv, JobInv, [Next]_vars, NEW r \in Runs,
                      token'[r] \notin {"readExperiments", "task"}
               PROVE  job'[r] \in {"completed", "cancelled"}
    BY DEF JobInv
  <2>0. token \in [Runs -> Tokens] /\ job \in [Runs -> JobStates]
    BY DEF ProgressInv, ProgressTypeOK, ToolkitTypeOK
  <2> USE <2>0 DEF JobInv
  <2>1. ASSUME NEW w \in Workers, Handler(w) PROVE job'[r] \in {"completed", "cancelled"}
    <3>1. CASE \E q \in Runs : Activate(w, q)
      BY <3>1 DEF Activate, JobActivated
    <3>2. CASE UNCHANGED toolkitVars
      BY <3>2 DEF toolkitVars
    <3>3. ASSUME NEW k, NEW b, FailJob(w, k, b) PROVE job'[r] \in {"completed", "cancelled"}
      BY <3>3 DEF FailJob, Current, JobFailed, toolkitVars
    <3>4. CASE CommandCompletes(w)
      BY <3>4 DEF CommandCompletes, ActionJobCompleted
    <3> QED
      BY <2>1, <3>1, <3>2, <3>3, <3>4 DEF Handler, RejectVariables, RejectImage, StartCommand,
         ContextExpires, CommandFails, CompletionDropped
  <2>2. ASSUME NEW w \in Workers, Reader(w) PROVE job'[r] \in {"completed", "cancelled"}
    <3>1. CASE \E q \in Runs : ActivateRead(w, q)
      BY <3>1 DEF ActivateRead, JobActivated
    <3>2. CASE UNCHANGED toolkitVars
      BY <3>2 DEF toolkitVars
    <3>3. CASE ReadSucceeds(w)
      BY <3>2, <3>3 DEF ReadSucceeds, ReadJobCompleted, EnterExperiment, EnterTask
    <3>4. CASE ReadFails(w)
      BY <3>2, <3>4 DEF ReadFails, JobFailed
    <3> QED
      BY <2>2, <3>1, <3>3, <3>4 DEF Reader
  <2>3. ASSUME NEW q \in Runs, EngineStep(q) \/ JobTimedOut(q)
        PROVE  job'[r] \in {"completed", "cancelled"}
    BY <2>3 DEF EngineStep, JobTimedOut, BackoffElapsed, PauseElapsed, ActionTimedOut, NextAction,
       ActionErrorCaught, ExperimentTimedOut, NextExperiment, EnterExperiment, EnterTask,
       InExperiment
  <2>4. CASE UNCHANGED toolkitVars
    BY <2>4 DEF toolkitVars
  <2> QED
    BY <2>1, <2>2, <2>3, <2>4
    DEF Next, Crash, Restart, Engine, LockExpires, GatewayChanges, vars
<1> QED
  BY <1>1, <1>2, ProgressInvariant, PTL DEF Spec

\* VerdictFinal: no late answer, lock, timer or other run disturbs one that has
\* ended.
THEOREM VerdictsAreFinal == Spec => VerdictFinal
<1> DEFINE Final(r) == token[r] \in Verdicts =>
                         token'[r] = token[r] /\ job'[r] = job[r] /\ at'[r] = at[r]
<1>1. ProgressInv /\ JobInv /\ [Next]_vars => [\A r \in Runs : Final(r)]_vars
  <2> SUFFICES ASSUME ProgressInv, JobInv, Next, NEW r \in Runs, token[r] \in Verdicts
               PROVE  token'[r] = token[r] /\ job'[r] = job[r] /\ at'[r] = at[r]
    OBVIOUS
  <2>0. /\ token \in [Runs -> Tokens] /\ job \in [Runs -> JobStates] /\ at \in [Runs -> Positions]
        /\ token[r] \in {"PASSED", "FAILED"} /\ job[r] \in {"completed", "cancelled"}
    BY DEF ProgressInv, ProgressTypeOK, ToolkitTypeOK, Verdicts, JobInv
  <2> DEFINE Same == token'[r] = token[r] /\ job'[r] = job[r] /\ at'[r] = at[r]
  <2>1. ASSUME NEW w \in Workers, Handler(w) PROVE Same
    <3>1. CASE \E q \in Runs : Activate(w, q)
      BY <2>0, <3>1 DEF Activate, JobActivated
    <3>2. CASE UNCHANGED toolkitVars
      BY <3>2 DEF toolkitVars
    <3>3. ASSUME NEW k, NEW b, FailJob(w, k, b) PROVE Same
      BY <2>0, <3>3 DEF FailJob, Current, JobFailed, toolkitVars
    <3>4. CASE CommandCompletes(w)
      BY <2>0, <3>4 DEF CommandCompletes, ActionJobCompleted
    <3> QED
      BY <2>1, <3>1, <3>2, <3>3, <3>4 DEF Handler, RejectVariables, RejectImage, StartCommand,
         ContextExpires, CommandFails, CompletionDropped
  <2>2. ASSUME NEW w \in Workers, Reader(w) PROVE Same
    <3>1. CASE \E q \in Runs : ActivateRead(w, q)
      BY <2>0, <3>1 DEF ActivateRead, JobActivated
    <3>2. CASE UNCHANGED toolkitVars
      BY <3>2 DEF toolkitVars
    <3>3. CASE ReadSucceeds(w)
      BY <2>0, <3>2, <3>3 DEF ReadSucceeds, ReadJobCompleted, EnterExperiment, EnterTask
    <3>4. CASE ReadFails(w)
      BY <2>0, <3>2, <3>4 DEF ReadFails, JobFailed
    <3> QED
      BY <2>2, <3>1, <3>3, <3>4 DEF Reader
  <2>3. ASSUME NEW q \in Runs, EngineStep(q) \/ JobTimedOut(q) PROVE Same
    BY <2>0, <2>3 DEF EngineStep, JobTimedOut, BackoffElapsed, PauseElapsed, ActionTimedOut,
       NextAction, ActionErrorCaught, ExperimentTimedOut, NextExperiment, EnterExperiment,
       EnterTask, InExperiment
  <2>4. CASE UNCHANGED toolkitVars
    BY <2>4 DEF toolkitVars
  <2> QED
    BY <2>1, <2>2, <2>3, <2>4 DEF Next, Crash, Restart, Engine, LockExpires, GatewayChanges
<1> QED
  BY <1>1, ProgressInvariant, JobsEnd, PTL DEF Spec, VerdictFinal

-----------------------------------------------------------------------------
(* Selection.                                                              *)

\* Experiment e is for the cluster run r is about.
Suits(r, e) ==
  LET x == Manifest[e]
      v == IF target[r] = NoVersion THEN Version ELSE target[r]
  IN  /\ ClusterPlan \in x.plans
      /\ x.min # NoVersion => x.min <= v
      /\ x.max # NoVersion => v <= x.max

\* What is planned suits, the token stays within the plan, and a handler, however
\* late, has a step of it.
FitInv ==
  /\ \A r \in Runs :
       /\ \A e \in planned[r] : Suits(r, e)
       /\ token[r] # "readExperiments" => at[r][1] \in planned[r]
  /\ \A w \in Workers : Busy(w) => Suits(handler[w].run, handler[w].pos[1])

\* Whatever version the lookup leaves a run with, what is selected suits.
LEMMA SelectionSuits ==
  ASSUME ProgressInv, NEW r \in Runs, NEW v \in TargetVersions(r), NEW e \in Selection(v)
  PROVE  e \in Experiments /\ Suits(r, e)
<1>1. /\ e \in Experiments /\ Fits(e, v)
      /\ Manifest[e].min \in Nat \cup {NoVersion} /\ Manifest[e].max \in Nat \cup {NoVersion}
  BY WorkerAssumption DEF Selection
<1>2. /\ Version \in Nat /\ NoVersion \notin Nat
      /\ target[r] \in Nat \cup {NoVersion}
  BY WorkerAssumption DEF ProgressInv, ProgressTypeOK
<1> QED
  BY <1>1, <1>2 DEF Fits, Suits, TargetVersions

LEMMA FitInvariant == Spec => []FitInv
<1>1. Init => FitInv
  BY DEF Init, ToolkitInit, FitInv, Busy
<1>2. ProgressInv /\ FitInv /\ [Next]_vars => FitInv'
  <2> SUFFICES ASSUME ProgressInv, FitInv, [Next]_vars PROVE FitInv'
    OBVIOUS
  <2>0. /\ token \in [Runs -> Tokens] /\ at \in [Runs -> Positions]
        /\ planned \in [Runs -> SUBSET Experiments]
        /\ handler \in [Workers -> {Idle, Down} \cup Handling] /\ target' = target
    BY DEF ProgressInv, ProgressTypeOK, ToolkitTypeOK, Next, Handler, Reader, Activate,
       RejectVariables, RejectImage, StartCommand, FailJob, ContextExpires, CommandFails,
       CommandCompletes, CompletionDropped, Success, ActivateRead, ReadSucceeds, ReadFails,
       EndRead, Crash, Restart, Engine, LockExpires, GatewayChanges, workerVars, vars
  <2> DEFINE RunFits(r) == /\ \A e \in planned[r] : Suits(r, e)
                           /\ token[r] # "readExperiments" => at[r][1] \in planned[r]
             HandlerFits(w) == Busy(w) => Suits(handler[w].run, handler[w].pos[1])
             RunsKept == /\ planned' = planned /\ at' = at
                         /\ \A r \in Runs :
                              token'[r] # "readExperiments" => token[r] # "readExperiments"
  <2>1. ASSUME RunsKept, NEW r \in Runs PROVE RunFits(r)'
    BY <2>0, <2>1 DEF FitInv, Suits
  <2>2. ASSUME NEW w \in Workers,
               \/ ~Busy(w)'
               \/ /\ Busy(w)
                  /\ handler'[w].run = handler[w].run /\ handler'[w].pos = handler[w].pos
        PROVE  HandlerFits(w)'
    BY <2>0, <2>2 DEF FitInv, Suits
  <2>3. ASSUME NEW w \in Workers, NEW r \in Runs, Activate(w, r) PROVE FitInv'
    <3>1. RunsKept
      BY <2>3 DEF Activate, JobActivated
    <3>2. handler'[w].run = r /\ handler'[w].pos = at[r]
      BY <2>0, <2>3 DEF Activate, Become
    <3>3. Suits(r, at[r][1])
      BY <2>3 DEF FitInv, Activate
    <3>4. HandlerFits(w)'
      BY <2>0, <3>2, <3>3 DEF Suits
    <3>5. ASSUME NEW v \in Workers \ {w} PROVE HandlerFits(v)'
      <4>1. handler'[v] = handler[v]
        BY <2>0, <2>3 DEF Activate, Become
      <4> QED
        BY <2>2, <4>1 DEF Busy
    <3> QED
      BY <2>1, <3>1, <3>4, <3>5 DEF FitInv
  <2>4. ASSUME NEW w \in Workers, Handler(w), ~ \E r \in Runs : Activate(w, r) PROVE FitInv'
    <3>1. RunsKept
      BY <2>0, <2>4 DEF Handler, RejectVariables, RejectImage, StartCommand, FailJob, JobFailed,
         ContextExpires, CommandFails, CommandCompletes, ActionJobCompleted, CompletionDropped,
         Success, toolkitVars
    <3>2. \/ handler' = [handler EXCEPT ![w] = Idle]
          \/ /\ handler' = [handler EXCEPT ![w] = [handler[w] EXCEPT !.pc = "running"]]
             /\ handler[w].pc = "handling"
          \/ /\ handler' = [handler EXCEPT ![w] = [handler[w] EXCEPT !.pc = "overdue"]]
             /\ handler[w].pc = "running"
      BY <2>4 DEF Handler, RejectVariables, RejectImage, StartCommand, FailJob, Finds,
         ContextExpires, CommandFails, CommandCompletes, CompletionDropped, Success, Become
    <3>3. ASSUME NEW v \in Workers PROVE HandlerFits(v)'
      <4>1. CASE v # w
        BY <2>0, <2>2, <3>2, <4>1 DEF Busy
      <4>2. CASE v = w /\ handler'[w] = Idle
        BY <2>2, <4>2 DEF Busy
      <4>3. CASE v = w /\ handler'[w] # Idle
        <5>1. handler[w] \in Handling /\ Busy(w)
          BY <2>0, <3>2, <4>3 DEF Busy, Idle, Down
        <5>2. handler'[w].run = handler[w].run /\ handler'[w].pos = handler[w].pos
          BY <2>0, <3>2, <4>3, <5>1 DEF Handling
        <5> QED
          BY <2>2, <4>3, <5>1, <5>2
      <4> QED
        BY <4>1, <4>2, <4>3
    <3> QED
      BY <2>1, <3>1, <3>3 DEF FitInv
  <2>5. ASSUME NEW w \in Workers, ReadSucceeds(w), ~UNCHANGED toolkitVars PROVE FitInv'
    <3>1. PICK v \in TargetVersions(reader[w]) : ReadJobCompleted(reader[w], Selection(v))
      BY <2>5 DEF ReadSucceeds
    <3> DEFINE r == reader[w]
    <3>2. r \in Runs /\ handler' = handler
      BY <2>5 DEF ReadSucceeds, EndRead, ProgressInv, ProgressTypeOK
    <3>3. PICK e \in Selection(v) : at' = [at EXCEPT ![r] = <<e, 1>>]
      BY <3>1 DEF ReadJobCompleted, EnterExperiment, EnterTask
    <3>4. /\ planned' = [planned EXCEPT ![r] = Selection(v)]
          /\ token' = [token EXCEPT ![r] = "task"]
      BY <3>1 DEF ReadJobCompleted, EnterExperiment, EnterTask
    <3>5. \A f \in Selection(v) : Suits(r, f)
      BY <3>1, <3>2, SelectionSuits
    <3>6. ASSUME NEW q \in Runs PROVE RunFits(q)'
      <4>1. CASE q = r
        <5>1. planned'[q] = Selection(v) /\ at'[q] = <<e, 1>>
          BY <2>0, <3>2, <3>3, <3>4, <4>1
        <5> QED
          BY <2>0, <3>3, <3>5, <4>1, <5>1 DEF Suits
      <4>2. CASE q # r
        BY <2>0, <3>3, <3>4, <4>2 DEF FitInv, Suits
      <4> QED
        BY <4>1, <4>2
    <3>7. ASSUME NEW u \in Workers PROVE HandlerFits(u)'
      BY <2>0, <3>2 DEF FitInv, Suits, Busy
    <3> QED
      BY <3>6, <3>7 DEF FitInv
  <2>6. ASSUME NEW r \in Runs, NextAction(r) \/ NextExperiment(r), UNCHANGED workerVars
        PROVE  FitInv'
    <3>1. planned' = planned /\ handler' = handler
      BY <2>6 DEF NextAction, NextExperiment, EnterExperiment, EnterTask, workerVars
    <3>2. at'[r][1] \in planned[r]
      <4>1. CASE NextAction(r)
        BY <2>0, <4>1 DEF NextAction, EnterTask, FitInv
      <4>2. CASE NextExperiment(r)
        <5>1. CASE at' = at
          BY <4>2, <5>1 DEF NextExperiment, FitInv
        <5>2. CASE \E e \in Later(r) : at' = [at EXCEPT ![r] = <<e, 1>>]
          BY <2>0, <5>2 DEF Later
        <5> QED
          BY <4>2, <5>1, <5>2 DEF NextExperiment, EnterExperiment, EnterTask
      <4> QED
        BY <2>6, <4>1, <4>2
    <3>3. \A q \in Runs \ {r} : token'[q] = token[q] /\ at'[q] = at[q]
      BY <2>0, <2>6 DEF NextAction, NextExperiment, EnterExperiment, EnterTask
    <3> QED
      BY <2>0, <3>1, <3>2, <3>3 DEF FitInv, Suits, Busy
  <2>7. ASSUME RunsKept, handler' = handler PROVE FitInv'
    BY <2>0, <2>1, <2>7 DEF FitInv, Suits, Busy
  <2>8. ASSUME NEW w \in Workers, Reader(w) PROVE FitInv'
    <3>1. handler' = handler
      BY <2>8 DEF Reader, ActivateRead, ReadSucceeds, ReadFails, EndRead
    <3>2. CASE UNCHANGED toolkitVars
      BY <2>7, <3>1, <3>2 DEF toolkitVars
    <3>3. CASE \E r \in Runs : ActivateRead(w, r)
      BY <2>7, <3>1, <3>3 DEF ActivateRead, JobActivated
    <3>4. CASE ReadFails(w)
      BY <2>7, <3>1, <3>2, <3>4 DEF ReadFails, JobFailed
    <3> QED
      BY <2>5, <2>8, <3>2, <3>3, <3>4 DEF Reader
  <2>9. ASSUME NEW w \in Workers, Crash(w) \/ Restart(w) PROVE FitInv'
    <3>1. RunsKept
      BY <2>9 DEF Crash, Restart, toolkitVars
    <3>2. handler' = [handler EXCEPT ![w] = Idle] \/ handler' = [handler EXCEPT ![w] = Down]
      BY <2>9 DEF Crash, Restart, Become
    <3>3. ASSUME NEW v \in Workers PROVE HandlerFits(v)'
      <4>1. CASE v = w
        BY <2>0, <2>2, <3>2, <4>1 DEF Busy
      <4>2. CASE v # w
        BY <2>0, <2>2, <3>2, <4>2 DEF Busy
      <4> QED
        BY <4>1, <4>2
    <3> QED
      BY <2>1, <3>1, <3>3 DEF FitInv
  <2>10. ASSUME NEW r \in Runs, Engine(r) \/ LockExpires(r) PROVE FitInv'
    <3>1. UNCHANGED workerVars
      BY <2>10 DEF Engine, LockExpires
    <3>2. CASE NextAction(r) \/ NextExperiment(r)
      BY <2>6, <3>1, <3>2
    <3>3. CASE \/ BackoffElapsed(r) \/ PauseElapsed(r) \/ ActionTimedOut(r)
               \/ ActionErrorCaught(r) \/ ExperimentTimedOut(r) \/ JobTimedOut(r)
      <4>1. RunsKept
        BY <2>0, <3>3 DEF BackoffElapsed, PauseElapsed, ActionTimedOut, ActionErrorCaught,
           ExperimentTimedOut, JobTimedOut, InExperiment
      <4> QED
        BY <2>7, <3>1, <4>1 DEF workerVars
    <3> QED
      BY <2>10, <3>2, <3>3 DEF Engine, EngineStep, LockExpires
  <2>11. CASE GatewayChanges \/ UNCHANGED vars
    BY <2>7, <2>11 DEF GatewayChanges, vars, workerVars, toolkitVars
  <2> QED
    BY <2>3, <2>4, <2>8, <2>9, <2>10, <2>11 DEF Next
<1> QED
  BY <1>1, <1>2, ProgressInvariant, PTL DEF Spec

\* RunsWhatFits: no worker ever introduces the chaos of an experiment that is not
\* for the plan and version of its run, a straggler of an earlier step included.
THEOREM OnlyWhatFitsIsRun == Spec => []RunsWhatFits
<1>1. FitInv => RunsWhatFits
  BY DEF FitInv, RunsWhatFits, Suits
<1> QED
  BY <1>1, FitInvariant, PTL
=============================================================================
