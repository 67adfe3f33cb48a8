-------------------------- MODULE MCZeebeCommands --------------------------
(* ZeebeCommands on a small cluster.                                       *)
EXTENDS ZeebeCommands

CONSTANTS c1, c2

Command(op, n) == [op |-> op, n |-> n]

AllCommands ==
  {Command("creation", 2), Command("result", 0), Command("count", 2), Command("jobs", 2),
   Command("publish", 1), Command("publish", 2), Command("pause", 0)}
=============================================================================
