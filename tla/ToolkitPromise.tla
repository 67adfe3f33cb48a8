--------------------------- MODULE ToolkitPromise ---------------------------
(***************************************************************************)
(* What an automated chaos run promises, without jobs, locks, workers and  *)
(* processes: the planned steps are executed one after the other, a step   *)
(* is left only after it has succeeded, each may be executed more than     *)
(* once, and the verdict says whether all of them succeeded.               *)
(***************************************************************************)
EXTENDS Naturals

CONSTANTS
  Runs,      \* the runs
  Last,      \* Last[e]: the number of steps of experiment e
  Longest    \* the number of experiments there are

VARIABLES
  plan,      \* the experiments of a run, none before they are read
  current,   \* <<experiment, step>> the run is at
  executed,  \* the steps some execution of which succeeded
  verdict    \* "none", "PASSED" or "FAILED"

promiseVars == <<plan, current, executed, verdict>>

NotAfter(p, q) == p[1] < q[1] \/ (p[1] = q[1] /\ p[2] <= q[2])
Later(r) == {e \in plan[r] : current[r][1] < e}
AtEnd(r) == current[r][2] = Last[current[r][1]]
Started(r) == plan[r] # {}
IsFirst(e, S) == e \in S /\ \A f \in S : e <= f

Init ==
  /\ plan = [r \in Runs |-> {}]
  /\ current = [r \in Runs |-> <<1, 1>>]
  /\ executed = [r \in Runs |-> {}]
  /\ verdict = [r \in Runs |-> "none"]

Plan(r, S) ==
  /\ ~Started(r)
  /\ plan' = [plan EXCEPT ![r] = S]
  /\ \E e \in S : IsFirst(e, S) /\ current' = [current EXCEPT ![r] = <<e, 1>>]
  /\ UNCHANGED <<executed, verdict>>

\* Also a repeated or a late execution.
Execute(r, p) ==
  /\ Started(r)
  /\ NotAfter(p, current[r])
  /\ executed' = [executed EXCEPT ![r] = @ \cup {p}]
  /\ UNCHANGED <<plan, current, verdict>>

Advance(r) ==
  /\ Started(r)
  /\ verdict[r] = "none"
  /\ current[r] \in executed[r]
  /\ \/ /\ ~AtEnd(r)
        /\ current' = [current EXCEPT ![r] = <<@[1], @[2] + 1>>]
     \/ /\ AtEnd(r)
        /\ \E e \in Later(r) :
             IsFirst(e, Later(r)) /\ current' = [current EXCEPT ![r] = <<e, 1>>]
  /\ UNCHANGED <<plan, executed, verdict>>

Pass(r) ==
  /\ Started(r)
  /\ verdict[r] = "none"
  /\ AtEnd(r) /\ Later(r) = {}
  /\ current[r] \in executed[r]
  /\ verdict' = [verdict EXCEPT ![r] = "PASSED"]
  /\ UNCHANGED <<plan, current, executed>>

\* A step or the experiment timed out.
GiveUp(r) ==
  /\ Started(r)
  /\ verdict[r] = "none"
  /\ verdict' = [verdict EXCEPT ![r] = "FAILED"]
  /\ UNCHANGED <<plan, current, executed>>

Next ==
  \E r \in Runs :
    \/ \E S \in (SUBSET (1..Longest)) \ {{}} : Plan(r, S)
    \/ \E e \in 1..Longest : \E s \in 1..Last[e] : Execute(r, <<e, s>>)
    \/ Advance(r)
    \/ Pass(r)
    \/ GiveUp(r)

Spec == Init /\ [][Next]_promiseVars
=============================================================================
