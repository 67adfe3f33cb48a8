--------------------------- MODULE ZeebeCommands ---------------------------
(***************************************************************************)
(* The zbchaos commands that talk to zeebe: verify instance-creation,      *)
(* instance-count and job-completion, publish, exporting pause and resume  *)
(* (cmd/verify.go, publish.go, exporting.go, internal/zeebe.go).           *)
(*                                                                         *)
(* The verifications send one request after the other until they have      *)
(* seen enough or their time is over.  Partitions come and go meanwhile,   *)
(* answers get lost after the request took effect, jobs time out and go to *)
(* somebody else, and a partition that is added takes part in the          *)
(* distribution of messages later than it shows up in the topology.        *)
(*                                                                         *)
(* Instances of "benchmark" wait for a job, those of "oneReceiveMsgEvent"  *)
(* for a message with the correlation key "0".  Authentication, variables  *)
(* and versions of processes are left out.                                 *)
(***************************************************************************)
EXTENDS Integers, FiniteSets

CONSTANTS
  Clients,       \* processes that run commands
  Commands,      \* the commands they run
  MaxPartitions, \* partitions after scaling up
  KeyBits,       \* bits of a key below the partition id (51 in zeebe)
  MaxInstances,  \* bound: instances that are created
  MaxCommands,   \* bound: commands that are started
  Faults         \* TRUE: requests may fail, answers may get lost

Ids == 1..MaxInstances
AllPartitions == 1..MaxPartitions
Codes == 48..126
Verifications == {"creation", "result", "count", "jobs"}
Ops == Verifications \cup {"publish", "pause", "resume"}

ASSUME CommandsAssumption ==
  /\ {MaxPartitions, KeyBits, MaxInstances} \subseteq Nat \ {0}
  /\ MaxInstances < 2^KeyBits
  /\ MaxCommands \in Nat /\ Faults \in BOOLEAN
  \* n: partition for creation and publish, number for count and jobs
  /\ Commands \subseteq [op : Ops, n : Nat]

VARIABLES
  partitions, \* in the topology
  routing,    \* partitions messages are distributed over, 0: not reported
  up,         \* partitions that answer
  instance,   \* process instances by number
  messages,   \* [partition, code] of published messages
  exporting,  \* partitions that export
  client,     \* the command a process runs
  started     \* number of commands so far

zeebe == <<partitions, routing, up, instance, messages, exporting>>
vars == <<zeebe, client, started>>

NoInstance == [on |-> 0, waits |-> "none", state |-> "none"]
Idle == [op |-> "none", n |-> 0, pc |-> "idle", count |-> 0, late |-> FALSE,
         subject |-> 0, seen |-> {}, ok |-> FALSE]

CommandStates ==
  [op : Ops \cup {"none"}, n : Nat, pc : {"idle", "loop", "complete", "await", "send"},
   count : Nat, late : BOOLEAN, subject : {0} \cup Ids \cup Codes, seen : SUBSET Ids,
   ok : BOOLEAN]

TypeOK ==
  /\ partitions \in AllPartitions /\ routing \in 0..partitions
  /\ up \subseteq 1..partitions /\ exporting \subseteq AllPartitions
  /\ instance \in [Ids -> [on : 0..partitions, waits : {"none", "job", "message"},
                           state : {"none", "waiting", "locked", "done"}]]
  /\ messages \subseteq AllPartitions \X Codes
  /\ client \in [Clients -> CommandStates]
  /\ started \in 0..MaxCommands

Init ==
  /\ partitions \in AllPartitions
  /\ routing \in {0, partitions}
  /\ up = 1..partitions /\ exporting = AllPartitions
  /\ instance = [i \in Ids |-> NoInstance]
  /\ messages = {}
  /\ client = [c \in Clients |-> Idle]
  /\ started = 0

-----------------------------------------------------------------------------
(* Keys.                                                                   *)

\* A key holds the partition in its upper bits.
KeyOf(i, p) == p * 2^KeyBits + i

\* Mutant: all keys are taken for keys of the first partition.
FirstPartition(key) == 1

ExtractPartitionIdFromKey(key) == key \div 2^KeyBits

\* Where zeebe puts a message whose correlation key is one character.
PartitionOfCode(code, count) == (code % count) + 1

\* Mutant: characters that cannot be typed, too.
AnyCharacter(p, count) ==
  {code \in 0..126 : p <= count /\ count < 78 /\ p = PartitionOfCode(code, count)}

\* The first character that fits, none for a partition that does not exist or
\* when there are too many.
CorrelationCodes(p, count) ==
  {code \in Codes : p <= count /\ count < 78 /\ p = PartitionOfCode(code, count)}
FindCorrelationKeyForPartition(p, count) ==
  CHOOSE code \in CorrelationCodes(p, count) :
    \A other \in CorrelationCodes(p, count) : code <= other

\* What messages are distributed by.
Distribution == IF routing > 0 THEN routing ELSE partitions

-----------------------------------------------------------------------------
(* Zeebe.                                                                  *)

ZeebeStep == UNCHANGED <<client, started>>

Fails(p) ==
  /\ Faults
  /\ p \in up /\ up' = up \ {p}
  /\ UNCHANGED <<partitions, routing, instance, messages, exporting>> /\ ZeebeStep

Recovers(p) ==
  /\ p \in 1..partitions \ up /\ up' = up \cup {p}
  /\ UNCHANGED <<partitions, routing, instance, messages, exporting>> /\ ZeebeStep

\* A partition is added, and takes part in the distribution of messages later.
\* Only versions that report the routing can add partitions.
PartitionAdded ==
  /\ routing > 0 /\ partitions < MaxPartitions
  /\ partitions' = partitions + 1
  /\ UNCHANGED <<routing, up, instance, messages, exporting>> /\ ZeebeStep

RoutingUpdated ==
  /\ routing > 0 /\ routing < partitions
  /\ routing' = partitions
  /\ UNCHANGED <<partitions, up, instance, messages, exporting>> /\ ZeebeStep

\* The lock of a job runs out.
JobTimesOut(i) ==
  /\ Faults
  /\ instance[i].state = "locked"
  /\ instance' = [instance EXCEPT ![i].state = "waiting"]
  /\ UNCHANGED <<partitions, routing, up, messages, exporting>> /\ ZeebeStep

\* A message is correlated once.
Correlated(i) ==
  LET message == <<PartitionOfCode(48, Distribution), 48>> IN
  /\ instance[i].waits = "message" /\ instance[i].state = "waiting"
  /\ instance[i].on \in up /\ message[1] \in up
  /\ message \in messages
  /\ messages' = messages \ {message}
  /\ instance' = [instance EXCEPT ![i].state = "done"]
  /\ UNCHANGED <<partitions, routing, up, exporting>> /\ ZeebeStep

-----------------------------------------------------------------------------
(* Running a command.                                                      *)

At(c, ops, pc) == client[c].op \in ops /\ client[c].pc = pc
Become(c, x) == client' = [client EXCEPT ![c] = x]
Ends(c, ok) == Become(c, [Idle EXCEPT !.ok = ok])

Start(c, command) ==
  /\ client[c].pc = "idle"
  /\ started < MaxCommands /\ started' = started + 1
  /\ Become(c, [Idle EXCEPT !.op = command.op, !.n = command.n, !.pc = "loop"])
  /\ UNCHANGED zeebe

\* The timer of the loop: it may fire while a request is under way and is looked
\* at between two requests.  A tick whose request fails changes nothing, and the
\* loop goes on.
TimerFires(c) ==
  /\ At(c, Verifications, client[c].pc) /\ client[c].pc # "idle"
  /\ ~client[c].late
  /\ Become(c, [client[c] EXCEPT !.late = TRUE])
  /\ UNCHANGED <<zeebe, started>>

\* Mutant: every request starts the timer anew.
RestartsTimer(c) ==
  /\ At(c, Verifications, "loop")
  /\ Become(c, [client[c] EXCEPT !.late = FALSE])
  /\ UNCHANGED <<zeebe, started>>

TimesOut(c) ==
  /\ At(c, Verifications, "loop")
  /\ client[c].late
  /\ Ends(c, FALSE)
  /\ UNCHANGED <<zeebe, started>>

\* One more answer.  The loops end when there are enough; which partition the
\* answer came from counts for creation only, and partition 0 is any.
Answered(c, i, p) ==
  LET x == [client[c] EXCEPT !.count = @ + 1, !.seen = @ \cup {i}, !.pc = "loop", !.subject = 0]
      enough == CASE x.op = "creation" -> x.n \in {0, ExtractPartitionIdFromKey(KeyOf(i, p))}
                  [] x.op = "result"   -> TRUE
                  [] OTHER             -> x.count >= x.n
  IN  Become(c, IF enough THEN [x EXCEPT !.pc = "idle", !.ok = TRUE] ELSE x)

\* The gateway picks a partition for a new instance.
New(i, p, waits) ==
  /\ p \in up
  /\ i \in Ids /\ instance[i] = NoInstance /\ \A j \in 1..(i - 1) : instance[j] # NoInstance
  /\ instance' = [instance EXCEPT ![i] = [on |-> p, waits |-> waits, state |-> "waiting"]]

\* CreateProcessInstanceCreator without waiting for the result.
Create(c) ==
  /\ At(c, {"creation", "count"}, "loop")
  /\ \E i \in Ids, p \in up :
       /\ New(i, p, "job")
       /\ \/ Answered(c, i, p)
          \/ Faults /\ UNCHANGED client
  /\ UNCHANGED <<partitions, routing, up, messages, exporting, started>>

\* With --awaitResult the answer comes when the instance has ended.
CreateWithResult(c) ==
  /\ At(c, {"result"}, "loop")
  /\ \E i \in Ids, p \in up :
       /\ New(i, p, "message")
       /\ Become(c, [client[c] EXCEPT !.pc = "await", !.subject = i])
  /\ UNCHANGED <<partitions, routing, up, messages, exporting, started>>

ResultArrives(c) ==
  /\ At(c, {"result"}, "await")
  /\ LET i == client[c].subject
     IN  instance[i].state = "done" /\ Answered(c, i, instance[i].on)
  /\ UNCHANGED <<zeebe, started>>

\* The request runs out of time, or its answer is lost: a new one is made.
ResultMissing(c) ==
  /\ At(c, {"result"}, "await")
  /\ Faults \/ instance[client[c].subject].state # "done"
  /\ Become(c, [client[c] EXCEPT !.pc = "loop", !.subject = 0])
  /\ UNCHANGED <<zeebe, started>>

\* CreateJobCompleter activates a job, then completes it.
Activate(c) ==
  /\ At(c, {"jobs"}, "loop")
  /\ \E i \in Ids :
       /\ instance[i].waits = "job" /\ instance[i].state = "waiting" /\ instance[i].on \in up
       /\ instance' = [instance EXCEPT ![i].state = "locked"]
       /\ \/ Become(c, [client[c] EXCEPT !.pc = "complete", !.subject = i])
          \/ Faults /\ UNCHANGED client
  /\ UNCHANGED <<partitions, routing, up, messages, exporting, started>>

\* Mutant: the error of the second request is dropped.
CountsActivated(c) ==
  /\ At(c, {"jobs"}, "complete")
  /\ LET i == client[c].subject
         accepted == instance[i].state # "done" /\ instance[i].on \in up
     IN  /\ instance' = IF accepted THEN [instance EXCEPT ![i].state = "done"] ELSE instance
         /\ Answered(c, i, instance[i].on)
  /\ UNCHANGED <<partitions, routing, up, messages, exporting, started>>

\* A job that somebody else has completed is not found.
Complete(c) ==
  /\ At(c, {"jobs"}, "complete")
  /\ LET i == client[c].subject
         accepted == instance[i].state # "done" /\ instance[i].on \in up
     IN  /\ instance' = IF accepted THEN [instance EXCEPT ![i].state = "done"] ELSE instance
         /\ \/ accepted /\ Answered(c, i, instance[i].on)
            \/ (~accepted \/ Faults) /\ Become(c, [client[c] EXCEPT !.pc = "loop", !.subject = 0])
  /\ UNCHANGED <<partitions, routing, up, messages, exporting, started>>

\* Mutant: the partitions of the topology.
ReadsTopology(c) ==
  /\ At(c, {"publish"}, "loop")
  /\ IF CorrelationCodes(client[c].n, partitions) = {} THEN Ends(c, FALSE)
     ELSE \/ Faults /\ Ends(c, FALSE)
          \/ Become(c, [client[c] EXCEPT !.pc = "send", !.count = Distribution,
                 !.subject = FindCorrelationKeyForPartition(client[c].n, partitions)])
  /\ UNCHANGED <<zeebe, started>>

\* publish looks up how messages are distributed, then sends one.
ReadRouting(c) ==
  /\ At(c, {"publish"}, "loop")
  /\ IF CorrelationCodes(client[c].n, Distribution) = {} THEN Ends(c, FALSE)
     ELSE \/ Faults /\ Ends(c, FALSE)
          \/ Become(c, [client[c] EXCEPT !.pc = "send", !.count = Distribution,
                 !.subject = FindCorrelationKeyForPartition(client[c].n, Distribution)])
  /\ UNCHANGED <<zeebe, started>>

\* Without an answer a nil response is read.
Publish(c) ==
  /\ At(c, {"publish"}, "send")
  /\ LET p == PartitionOfCode(client[c].subject, Distribution) IN
     \/ /\ p \in up
        /\ messages' = messages \cup {<<p, client[c].subject>>}
        /\ \/ Ends(c, TRUE)
           \/ Faults /\ Ends(c, FALSE)
     \/ (Faults \/ p \notin up) /\ UNCHANGED messages /\ Ends(c, FALSE)
  /\ UNCHANGED <<partitions, routing, up, instance, exporting, started>>

\* The status of the answer is not looked at.
Exporting(c) ==
  /\ At(c, {"pause", "resume"}, "loop")
  /\ \/ /\ exporting' = IF client[c].op = "pause" THEN exporting \ up ELSE exporting \cup up
        /\ \/ Ends(c, TRUE)
           \/ Faults /\ Ends(c, FALSE)
     \/ Faults /\ UNCHANGED exporting /\ Ends(c, FALSE)
  /\ UNCHANGED <<partitions, routing, up, instance, messages, started>>

Request(c) ==
  \/ Create(c)
  \/ CreateWithResult(c) \/ ResultArrives(c) \/ ResultMissing(c)
  \/ Activate(c) \/ Complete(c)
  \/ ReadRouting(c) \/ Publish(c) \/ Exporting(c)

\* Nothing is left to do.
Finished ==
  /\ started = MaxCommands
  /\ UNCHANGED vars

Next ==
  \/ \E c \in Clients :
       (\E command \in Commands : Start(c, command)) \/ TimerFires(c) \/ TimesOut(c) \/ Request(c)
  \/ \E p \in AllPartitions : Fails(p) \/ Recovers(p)
  \/ PartitionAdded \/ RoutingUpdated
  \/ \E i \in Ids : JobTimesOut(i) \/ Correlated(i)
  \/ Finished

Spec == Init /\ [][Next]_vars

-----------------------------------------------------------------------------
(* Safety.                                                                 *)

Succeeds(c) == client[c].pc # "idle" /\ client'[c].pc = "idle" /\ client'[c].ok

\* A verification that reports success has seen what it says: an instance on
\* the required partition, an instance that has ended, or as many different
\* instances or completed jobs as it was asked for, whatever got lost.
VerifiedSound ==
  [][\A c \in Clients : Succeeds(c) =>
       LET x == client'[c] IN
       /\ x.op = "creation" => \E i \in x.seen : x.n \in {0, instance'[i].on}
       /\ x.op = "result"   => \E i \in x.seen : instance'[i].state = "done"
       /\ x.op = "count"    => Cardinality(x.seen) >= x.n
       /\ x.op = "jobs"     => Cardinality({i \in x.seen : instance'[i].state = "done"}) >= x.n]_vars

\* "Publish a message to a certain partition." (cmd/publish.go:28): while
\* partitions are added, too, unless the distribution changes between the two
\* requests.
PublishReaches ==
  [][\A c \in Clients : Succeeds(c) /\ client[c].op = "publish" /\ client[c].count = Distribution
       => <<client[c].n, client[c].subject>> \in messages']_vars

-----------------------------------------------------------------------------
(* Liveness.                                                               *)

\* Each request returns, timers fire, and of a timer and a ticker that are both
\* ready the select takes either, at random.
CommandFairness ==
  \A c \in Clients :
    /\ WF_vars(TimerFires(c)) /\ SF_vars(TimesOut(c))
    /\ WF_vars(Request(c) /\ client' # client)

ProgressSpec == Spec /\ CommandFairness

\* Commands end, whatever fails.
CommandsEnd == \A c \in Clients : client[c].pc # "idle" ~> client[c].pc = "idle"
=============================================================================
