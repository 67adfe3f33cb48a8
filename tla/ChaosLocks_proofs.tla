------------------------- MODULE ChaosLocks_proofs -------------------------
(***************************************************************************)
(* The locks of jobs and their retries, for every number of runs, workers  *)
(* and steps: one replica at a time is busy for a run as long as no lock   *)
(* of it runs out under a live handler, and commands that fail never use   *)
(* a job up.                                                               *)
(*                                                                         *)
(* NoOverlap is not inductive: HeldInv says in addition that the job a     *)
(* handler holds stays locked while its run waits at the task, and that a  *)
(* run whose task was taken from a handler by a timer is on its way to a   *)
(* FAILED report, which is why it never moves on to another step.          *)
(***************************************************************************)
EXTENDS ChaosWorkers_proofs

\* What has become of a run some handler is still busy with.
HeldRun(r) ==
  /\ token[r] \in {"task", "runnerEnd", "experimentEnd", "FAILED"}
  /\ token[r] = "task" => job[r] = "activated"
  /\ token[r] = "runnerEnd" => ~successfulRun[r]
  /\ token[r] = "experimentEnd" => ~successfulExperiment[r]

BusyFor(w, r) == Busy(w) /\ handler[w].run = r

HeldInv ==
  \A r \in Runs \ overran : \A w \in Workers : BusyFor(w, r) =>
    /\ HeldRun(r)
    /\ at[r] = handler[w].pos
    /\ \A v \in Workers : BusyFor(v, r) => v = w

\* The states an invariant of the proofs of the steps is stated for.
LockInv == ProgressInv /\ JobInv /\ HeldInv

-----------------------------------------------------------------------------
LEMMA HandlerTypes ==
  ASSUME ProgressInv, NEW w \in Workers
  PROVE  /\ Busy(w) => handler[w] \in Handling /\ handler[w].run \in Runs
         /\ Running(w) \/ handler[w].pc = "handling" => Busy(w)
BY DEF ProgressInv, ProgressTypeOK, Busy, Running, Handling, Idle, Down

\* A step that changes no run but r, hands out no job, and after which r is as
\* a handler that is still busy for it needs it.
LEMMA HeldStep ==
  ASSUME LockInv, NEW r \in Runs, overran \subseteq overran',
         \A q \in Runs \ {r} :
           /\ token'[q] = token[q] /\ at'[q] = at[q] /\ job'[q] = job[q]
           /\ successfulRun'[q] = successfulRun[q]
           /\ successfulExperiment'[q] = successfulExperiment[q],
         \A w \in Workers : Busy(w)' =>
           Busy(w) /\ handler'[w].run = handler[w].run /\ handler'[w].pos = handler[w].pos,
         \A w \in Workers : BusyFor(w, r)' /\ r \notin overran' =>
           HeldRun(r)' /\ at'[r] = at[r]
  PROVE  HeldInv'
<1> SUFFICES ASSUME NEW q \in Runs \ overran', NEW w \in Workers, BusyFor(w, q)'
             PROVE  /\ HeldRun(q)'
                    /\ at'[q] = handler'[w].pos
                    /\ \A v \in Workers : BusyFor(v, q)' => v = w
  BY DEF HeldInv
<1>1. /\ BusyFor(w, q) /\ q \in Runs \ overran
      /\ \A v \in Workers : BusyFor(v, q)' => BusyFor(v, q)
  BY DEF BusyFor
<1>2. /\ HeldRun(q) /\ at[q] = handler[w].pos
      /\ \A v \in Workers : BusyFor(v, q) => v = w
  BY <1>1 DEF LockInv, HeldInv
<1>3. handler'[w].pos = handler[w].pos
  BY DEF BusyFor
<1>4. CASE q = r
  BY <1>1, <1>2, <1>3, <1>4
<1>5. CASE q # r
  <2>1. HeldRun(q)' /\ at'[q] = at[q]
    BY <1>2, <1>5 DEF HeldRun
  <2> QED
    BY <1>1, <1>2, <1>3, <2>1
<1> QED
  BY <1>4, <1>5

\* The same for a step that leaves the engine alone.
LEMMA HeldFrame ==
  ASSUME LockInv, UNCHANGED toolkitVars, overran' = overran,
         \A w \in Workers : Busy(w)' =>
           Busy(w) /\ handler'[w].run = handler[w].run /\ handler'[w].pos = handler[w].pos
  PROVE  HeldInv'
BY DEF LockInv, HeldInv, HeldRun, BusyFor, toolkitVars

\* A handler that returns is busy no more, the others keep their jobs.
LEMMA Returned ==
  ASSUME LockInv, NEW w \in Workers, Become(w, Idle)
  PROVE  /\ ~Busy(w)'
         /\ \A v \in Workers : Busy(v)' =>
              v # w /\ Busy(v) /\ handler'[v].run = handler[v].run /\ handler'[v].pos = handler[v].pos
BY DEF LockInv, ProgressInv, ProgressTypeOK, Become, Busy

LEMMA FailKeepsHeld ==
  ASSUME LockInv, NEW w \in Workers, NEW k, NEW b, Busy(w), FailJob(w, k, b)
  PROVE  HeldInv'
<1> PICK r \in Runs : r = handler[w].run
  BY HandlerTypes DEF LockInv
<1>1. Become(w, Idle) /\ overran' = overran
  BY DEF FailJob
<1>2. CASE UNCHANGED toolkitVars
  BY <1>1, <1>2, Returned, HeldFrame
<1>3. CASE JobFailed(r, k, b)
  <2>1. ASSUME NEW v \in Workers, BusyFor(v, r)', r \notin overran' PROVE FALSE
    <3>1. v # w /\ BusyFor(v, r) /\ BusyFor(w, r)
      BY <1>1, <2>1, Returned DEF BusyFor
    <3> QED
      BY <1>1, <2>1, <3>1 DEF LockInv, HeldInv
  <2>2. \A q \in Runs \ {r} :
           /\ token'[q] = token[q] /\ at'[q] = at[q] /\ job'[q] = job[q]
           /\ successfulRun'[q] = successfulRun[q]
           /\ successfulExperiment'[q] = successfulExperiment[q]
    BY <1>3 DEF JobFailed, LockInv, ProgressInv, ProgressTypeOK, ToolkitTypeOK
  <2> QED
    BY <1>1, <2>1, <2>2, Returned, HeldStep
<1> QED
  BY <1>2, <1>3 DEF FailJob

LEMMA HandlerKeepsHeld ==
  ASSUME LockInv, NEW w \in Workers, Handler(w)
  PROVE  HeldInv'
<1>1. ASSUME NEW r \in Runs, Activate(w, r) PROVE HeldInv'
  <2>1. /\ token[r] = "task" /\ job[r] = "activatable" /\ job' = [job EXCEPT ![r] = "activated"]
        /\ handler' = [handler EXCEPT ![w] = [pc |-> "handling", run |-> r, pos |-> at[r],
                                              retries |-> retries[r]]]
        /\ UNCHANGED <<token, at, successfulRun, successfulExperiment, overran>>
        /\ handler[w] = Idle
    BY <1>1 DEF Activate, JobActivated, Become
  <2>2. /\ handler'[w].run = r /\ handler'[w].pos = at[r] /\ job'[r] = "activated"
        /\ \A v \in Workers \ {w} : handler'[v] = handler[v]
        /\ \A q \in Runs \ {r} : job'[q] = job[q]
    BY <2>1 DEF LockInv, ProgressInv, ProgressTypeOK, ToolkitTypeOK
  <2>3. ASSUME r \notin overran, NEW v \in Workers, BusyFor(v, r) PROVE FALSE
    BY <2>1, <2>3 DEF LockInv, HeldInv, HeldRun
  <2>4. ~Busy(w)
    BY <2>1 DEF Busy
  <2> SUFFICES ASSUME NEW q \in Runs \ overran', NEW u \in Workers, BusyFor(u, q)'
               PROVE  /\ HeldRun(q)'
                      /\ at'[q] = handler'[u].pos
                      /\ \A v \in Workers : BusyFor(v, q)' => v = u
    BY DEF HeldInv
  <2>5. \A v \in Workers : BusyFor(v, q)' => v = w \/ BusyFor(v, q)
    BY <2>2 DEF BusyFor, Busy
  <2>6. q \in Runs \ overran
    BY <2>1
  <2>7. CASE q = r
    <3>1. u = w
      BY <2>3, <2>5, <2>6, <2>7
    <3> QED
      BY <2>1, <2>2, <2>3, <2>5, <2>6, <2>7, <3>1 DEF HeldRun
  <2>8. CASE q # r
    <3>1. u # w /\ BusyFor(u, q) /\ handler'[u] = handler[u]
      BY <2>2, <2>5, <2>8 DEF BusyFor
    <3>2. \A v \in Workers : BusyFor(v, q)' => BusyFor(v, q)
      BY <2>2, <2>5, <2>8 DEF BusyFor
    <3>3. HeldRun(q) /\ at[q] = handler[u].pos /\ \A v \in Workers : BusyFor(v, q) => v = u
      BY <2>6, <3>1 DEF LockInv, HeldInv
    <3> QED
      BY <2>1, <2>2, <2>8, <3>1, <3>2, <3>3 DEF HeldRun
  <2> QED
    BY <2>7, <2>8
<1>2. CASE RejectVariables(w) \/ RejectImage(w) \/ CommandFails(w)
  <2>1. Busy(w)
    BY <1>2, HandlerTypes DEF RejectVariables, RejectImage, CommandFails, Finds, LockInv
  <2> QED
    BY <1>2, <2>1, FailKeepsHeld DEF RejectVariables, RejectImage, CommandFails
<1>3. CASE StartCommand(w) \/ ContextExpires(w)
  <2>1. PICK pc : handler' = [handler EXCEPT ![w] = [handler[w] EXCEPT !.pc = pc]]
    BY <1>3 DEF StartCommand, ContextExpires, Become
  <2>2. handler[w] \in Handling
    BY <1>3, HandlerTypes DEF StartCommand, ContextExpires, Finds, Running, LockInv
  <2>3. handler'[w].run = handler[w].run /\ handler'[w].pos = handler[w].pos
    BY <2>1, <2>2 DEF LockInv, ProgressInv, ProgressTypeOK, Handling
  <2>4. Busy(w) /\ \A v \in Workers \ {w} : handler'[v] = handler[v]
    BY <1>3, <2>1, HandlerTypes
    DEF StartCommand, ContextExpires, Finds, Running, LockInv, ProgressInv, ProgressTypeOK
  <2>5. UNCHANGED toolkitVars /\ overran' = overran
    BY <1>3 DEF StartCommand, ContextExpires
  <2> QED
    BY <2>3, <2>4, <2>5, HeldFrame DEF Busy
<1>4. CASE CompletionDropped(w)
  BY <1>4, Returned, HeldFrame DEF CompletionDropped, Success
<1>5. CASE CommandCompletes(w)
  <2> PICK r \in Runs : r = handler[w].run
    BY <1>5, HandlerTypes DEF CommandCompletes, Success, LockInv
  <2>1. /\ Become(w, Idle) /\ overran' = overran /\ Busy(w)
        /\ ActionJobCompleted(r)
    BY <1>5, HandlerTypes DEF CommandCompletes, Success, LockInv
  <2>2. ASSUME NEW v \in Workers, BusyFor(v, r)', r \notin overran' PROVE FALSE
    <3>1. v # w /\ BusyFor(v, r) /\ BusyFor(w, r)
      BY <2>1, <2>2, Returned DEF BusyFor
    <3> QED
      BY <2>1, <2>2, <3>1 DEF LockInv, HeldInv
  <2>3. \A q \in Runs \ {r} :
           /\ token'[q] = token[q] /\ at'[q] = at[q] /\ job'[q] = job[q]
           /\ successfulRun'[q] = successfulRun[q]
           /\ successfulExperiment'[q] = successfulExperiment[q]
    BY <2>1 DEF ActionJobCompleted, LockInv, ProgressInv, ProgressTypeOK, ToolkitTypeOK
  <2> QED
    BY <2>1, <2>2, <2>3, Returned, HeldStep
<1> QED
  BY <1>1, <1>2, <1>3, <1>4, <1>5 DEF Handler

\* No handler holds a job of a run whose experiments are still being read.
LEMMA ReaderKeepsHeld ==
  ASSUME LockInv, NEW w \in Workers, Reader(w)
  PROVE  HeldInv'
<1>1. handler' = handler /\ overran' = overran
  BY DEF Reader, ActivateRead, ReadSucceeds, ReadFails, EndRead
<1>2. ASSUME NEW r \in Runs, token[r] = "readExperiments",
             \A q \in Runs \ {r} :
               /\ token'[q] = token[q] /\ at'[q] = at[q] /\ job'[q] = job[q]
               /\ successfulRun'[q] = successfulRun[q]
               /\ successfulExperiment'[q] = successfulExperiment[q]
      PROVE  HeldInv'
  <2>1. ASSUME NEW v \in Workers, BusyFor(v, r)', r \notin overran' PROVE FALSE
    BY <1>1, <1>2, <2>1 DEF LockInv, HeldInv, HeldRun, BusyFor, Busy
  <2> QED
    BY <1>1, <1>2, <2>1, HeldStep DEF Busy
<1>3. CASE UNCHANGED toolkitVars
  BY <1>1, <1>3, HeldFrame DEF Busy
<1>4. reader[w] # NoRun => reader[w] \in Runs
  BY DEF LockInv, ProgressInv, ProgressTypeOK
<1> USE DEF LockInv, ProgressInv, ProgressTypeOK, ToolkitTypeOK
<1>5. CASE \E r \in Runs : ActivateRead(w, r)
  BY <1>2, <1>5 DEF ActivateRead, JobActivated
<1>6. CASE ReadFails(w)
  BY <1>2, <1>3, <1>4, <1>6 DEF ReadFails, EndRead, JobFailed
<1>7. CASE ReadSucceeds(w)
  BY <1>2, <1>3, <1>4, <1>7
  DEF ReadSucceeds, EndRead, ReadJobCompleted, EnterExperiment, EnterTask
<1> QED
  BY <1>5, <1>6, <1>7 DEF Reader

LEMMA EngineKeepsHeld ==
  ASSUME LockInv, NEW r \in Runs, Engine(r) \/ LockExpires(r)
  PROVE  HeldInv'
<1>1. handler' = handler /\ overran \subseteq overran'
  BY DEF Engine, LockExpires, workerVars
<1>2. \A q \in Runs \ {r} :
        /\ token'[q] = token[q] /\ at'[q] = at[q] /\ job'[q] = job[q]
        /\ successfulRun'[q] = successfulRun[q]
        /\ successfulExperiment'[q] = successfulExperiment[q]
  BY DEF Engine, EngineStep, LockExpires, JobTimedOut, BackoffElapsed, PauseElapsed,
     ActionTimedOut, NextAction, ActionErrorCaught, ExperimentTimedOut, NextExperiment,
     EnterExperiment, EnterTask, LockInv, ProgressInv, ProgressTypeOK, ToolkitTypeOK
<1>3. ASSUME NEW w \in Workers, BusyFor(w, r)', r \notin overran'
      PROVE  HeldRun(r)' /\ at'[r] = at[r]
  <2>1. BusyFor(w, r) /\ r \notin overran
    BY <1>1, <1>3 DEF BusyFor, Busy
  <2>2. HeldRun(r) /\ at[r] = handler[w].pos
    BY <2>1 DEF LockInv, HeldInv
  <2>3. token[r] # "task" => job[r] \in {"completed", "cancelled"}
    BY <2>2 DEF HeldRun, LockInv, JobInv
  <2>4. ~LockExpires(r)
    <3> SUFFICES ASSUME LockExpires(r) PROVE FALSE
      OBVIOUS
    <3>1. token[r] = "task"
      BY <2>3 DEF LockExpires, JobTimedOut
    <3>2. HeldByLive(r)
      BY <2>1, <2>2, <3>1 DEF HeldByLive, BusyFor, Current
    <3> QED
      BY <1>3, <3>2 DEF LockExpires
  <2>5. token[r] \in {"task", "runnerEnd", "experimentEnd", "FAILED"}
    BY <2>2 DEF HeldRun
  <2>6. CASE BackoffElapsed(r) \/ PauseElapsed(r) \/ NextAction(r)
    BY <2>2, <2>3, <2>6 DEF BackoffElapsed, PauseElapsed, NextAction, HeldRun
  <2>7. CASE ActionTimedOut(r) \/ ActionErrorCaught(r) \/ ExperimentTimedOut(r)
    BY <2>2, <2>7 DEF ActionTimedOut, ActionErrorCaught, ExperimentTimedOut, HeldRun,
       LockInv, ProgressInv, ProgressTypeOK, ToolkitTypeOK
  <2>8. CASE NextExperiment(r)
    BY <2>2, <2>8 DEF NextExperiment, HeldRun, LockInv, ProgressInv, ProgressTypeOK, ToolkitTypeOK
  <2> QED
    BY <2>4, <2>6, <2>7, <2>8 DEF Engine, EngineStep
<1> QED
  BY <1>1, <1>2, <1>3, HeldStep DEF Busy

LEMMA JobsAreHeldOnce == Spec => []HeldInv
<1>1. Init => HeldInv
  BY DEF Init, HeldInv, BusyFor, Busy
<1>2. LockInv /\ [Next]_vars => HeldInv'
  <2> SUFFICES ASSUME LockInv, [Next]_vars PROVE HeldInv'
    OBVIOUS
  <2>1. ASSUME NEW w \in Workers, Crash(w) \/ Restart(w) PROVE HeldInv'
    BY <2>1, HeldFrame DEF Crash, Restart, Become, Busy, LockInv, ProgressInv, ProgressTypeOK
  <2>2. CASE GatewayChanges \/ UNCHANGED vars
    BY <2>2, HeldFrame DEF GatewayChanges, vars, workerVars, Busy
  <2> QED
    BY <2>1, <2>2, HandlerKeepsHeld, ReaderKeepsHeld, EngineKeepsHeld DEF Next
<1>3. ProgressInv /\ JobInv /\ HeldInv => LockInv
  BY DEF LockInv
<1> QED
  BY <1>1, <1>2, <1>3, ProgressInvariant, JobsEnd, PTL DEF Spec

-----------------------------------------------------------------------------
\* MaxJobsActive(1) and the lock of a job keep replicas apart: as long as no lock
\* of a run has run out under a live handler, one of them is busy for the run, and
\* with the step the run is at.
THEOREM ReplicasDoNotOverlap == Spec => []NoOverlap
<1>1. ProgressInv /\ HeldInv => NoOverlap
  <2> SUFFICES ASSUME ProgressInv, HeldInv, NEW w \in Workers, Busy(w),
                      handler[w].run \notin overran
               PROVE  /\ at[handler[w].run] = handler[w].pos
                      /\ token[handler[w].run] # "PASSED"
                      /\ \A v \in Workers :
                           Busy(v) /\ handler[v].run = handler[w].run => v = w
    BY DEF NoOverlap
  <2>1. handler[w].run \in Runs
    BY HandlerTypes
  <2> QED
    BY <2>1 DEF HeldInv, HeldRun, BusyFor
<1> QED
  BY <1>1, ProgressInvariant, JobsAreHeldOnce, PTL

\* "Do not reduce number of retries": a job whose variables are valid is never
\* out of retries, however often its command fails.
THEOREM ErrorsKeepRetries == Spec => []ErrorsNeverExhaustRetries
<1>1. Init => ErrorsNeverExhaustRetries
  BY DEF Init, ToolkitInit, ErrorsNeverExhaustRetries
<1>2. ProgressInv /\ ErrorsNeverExhaustRetries /\ [Next]_vars => ErrorsNeverExhaustRetries'
  <2> SUFFICES ASSUME ProgressInv, ErrorsNeverExhaustRetries, [Next]_vars, NEW r \in Runs,
                      input'[r] = "valid", token'[r] # "readExperiments"
               PROVE  job'[r] # "incident"
    BY DEF ErrorsNeverExhaustRetries
  <2>1. input' = input
    BY DEF Next, vars, workerVars, Handler, Activate, RejectVariables, RejectImage, StartCommand,
       FailJob, ContextExpires, CommandFails, CommandCompletes, CompletionDropped, Success,
       Reader, ActivateRead, ReadSucceeds, ReadFails, EndRead, Crash, Restart, Engine, LockExpires,
       GatewayChanges
  <2>2. /\ token \in [Runs -> Tokens] /\ job \in [Runs -> JobStates]
        /\ token[r] # "readExperiments" => job[r] # "incident"
    BY <2>1 DEF ErrorsNeverExhaustRetries, ProgressInv, ProgressTypeOK, ToolkitTypeOK
  <2>3. CASE UNCHANGED toolkitVars
    BY <2>2, <2>3 DEF toolkitVars
  <2>4. ASSUME NEW w \in Workers, NEW k, NEW b, Busy(w), FailJob(w, k, b),
               k # 0 \/ input[handler[w].run] # "valid"
        PROVE  job'[r] # "incident"
    BY <2>1, <2>2, <2>3, <2>4 DEF FailJob, JobFailed
  <2>5. ASSUME NEW w \in Workers, Handler(w) PROVE job'[r] # "incident"
    <3>1. CASE \E q \in Runs : Activate(w, q)
      BY <2>2, <3>1 DEF Activate, JobActivated
    <3>2. CASE RejectVariables(w) \/ RejectImage(w)
      BY <2>4, <3>2, HandlerTypes DEF RejectVariables, RejectImage, Finds
    <3>3. CASE CommandFails(w)
      <4>1. Busy(w) /\ handler[w].retries # 0
        BY <3>3, HandlerTypes, ToolkitAssumption DEF CommandFails, Handling
      <4> QED
        BY <2>4, <3>3, <4>1 DEF CommandFails
    <3>4. CASE CommandCompletes(w)
      BY <2>2, <3>4 DEF CommandCompletes, ActionJobCompleted
    <3> QED
      BY <2>3, <2>5, <3>1, <3>2, <3>3, <3>4
      DEF Handler, StartCommand, ContextExpires, CompletionDropped
  <2>6. ASSUME NEW w \in Workers, Reader(w) PROVE job'[r] # "incident"
    <3>1. CASE \E q \in Runs : ActivateRead(w, q)
      BY <2>2, <3>1 DEF ActivateRead, JobActivated
    <3>2. CASE ReadFails(w)
      BY <2>2, <2>3, <3>2 DEF ReadFails, JobFailed
    <3>3. CASE ReadSucceeds(w)
      BY <2>2, <2>3, <3>3 DEF ReadSucceeds, ReadJobCompleted, EnterExperiment, EnterTask
    <3> QED
      BY <2>6, <3>1, <3>2, <3>3 DEF Reader
  <2>7. ASSUME NEW q \in Runs, EngineStep(q) \/ JobTimedOut(q) PROVE job'[r] # "incident"
    BY <2>2, <2>7 DEF EngineStep, JobTimedOut, BackoffElapsed, PauseElapsed, ActionTimedOut,
       NextAction, ActionErrorCaught, ExperimentTimedOut, NextExperiment, EnterExperiment,
       EnterTask, InExperiment
  <2> QED
    BY <2>3, <2>5, <2>6, <2>7 DEF Next, Crash, Restart, Engine, LockExpires, GatewayChanges, vars
<1> QED
  BY <1>1, <1>2, ProgressInvariant, PTL DEF Spec
=============================================================================
