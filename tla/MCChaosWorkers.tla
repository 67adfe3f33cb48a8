--------------------------- MODULE MCChaosWorkers ---------------------------
(***************************************************************************)
(* ChaosWorkers on small instances, and the mapping under which it         *)
(* implements ToolkitPromise.                                              *)
(***************************************************************************)
EXTENDS ChaosWorkers

CONSTANTS w1, w2, r1

\* Experiments of three steps: probe, chaos action, probe; the chaos action of
\* the first one pauses.
OneEach == [e \in Experiments |-> 1]
PauseOnce == {<<1, 2>>}

\* The first experiment needs 8.4, the second is for another plan, the third has
\* no bounds and the fourth is for up to 8.3: the cluster runs 8.4, and a run has
\* that or 8.3 for a target.
Bounds ==
  [e \in Experiments |->
     [plans |-> IF e = 2 THEN {"test"} ELSE {"g3-s"},
      min |-> IF e = 1 THEN 84 ELSE NoVersion,
      max |-> IF e = 4 THEN 83 ELSE NoVersion]]
Unbounded ==
  [e \in Experiments |-> [plans |-> {"g3-s"}, min |-> NoVersion, max |-> NoVersion]]
AnyTarget == {NoVersion, 83}
NoTarget == {NoVersion}

Promise == INSTANCE ToolkitPromise WITH
  Last <- [e \in Experiments |-> StepsOf(e)],
  Longest <- MaxExperiments,
  plan <- planned,
  current <- at,
  executed <- succeeded,
  verdict <- [r \in Runs |-> IF token[r] \in Verdicts THEN token[r] ELSE "none"]

\* Every behaviour of the processes and workers is one of the promise: the
\* retries, lost answers and crashes show as repeated or late executions only.
KeepsPromise == Promise!Spec
=============================================================================
