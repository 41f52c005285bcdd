--------------------------- MODULE FleetScenarios ---------------------------
(***************************************************************************)
(* The fault scenarios as programs for Fleet: sequences of the driver's    *)
(* primitive steps.  Each definition is one function of the harness, with  *)
(* the steps it makes in its order; a loop is unrolled.                    *)
(*                                                                         *)
(* A step names the node it is about: a node, or "prior", the owner the    *)
(* scenario remembers, "successor", the first other node in order, or      *)
(* "remaining", the last other one.                                        *)
(***************************************************************************)
EXTENDS Naturals, Sequences, FiniteSets, SequencesExt

CONSTANTS
  Order,    \* the nodes, in the harness's order (context line 40)
  Batch,    \* writes of an acknowledged batch (24, 12 or 4 in the code)
  Traffic,  \* writes of a traffic burst (96, 40 or 24)
  Beside,   \* writes beside the replacement of one node of a rolling deployment (24)
  Rounds    \* rounds of the crash schedules (3)

Nodes == {Order[i] : i \in DOMAIN Order}
ASSUME OrderAssumption ==
  /\ Order \in Seq(Nodes) /\ Cardinality(Nodes) = Len(Order) /\ Len(Order) > 1
  /\ Batch \in Nat \ {0} /\ Traffic \in Nat /\ Beside \in Nat /\ Rounds \in Nat \ {0}

Do(op, at) == <<[op |-> op, at |-> at]>>
Simply(op) == <<[op |-> op]>>

ForAll(steps(_)) == FlattenSeq([i \in DOMAIN Order |-> steps(Order[i])])
DoAll(op, nodes) == [i \in DOMAIN nodes |-> [op |-> op, at |-> nodes[i]]]
Times(n, steps) == FlattenSeq([i \in 1..n |-> steps])

\* Hand writes to the client: their entry nodes, and whether each has to be
\* acknowledged.  Join waits for all of them.
Send(entries, strict) ==
  <<[op |-> "send", entries |-> entries, strict |-> strict, held |-> FALSE]>>
Join == Simply("join")
RoundRobin(count) == [i \in 1..count |-> Order[((i - 1) % Len(Order)) + 1]]

\* A finalizer of the scenario's scope, and the scope's end before the scenario's.
Guard(what, n) == <<[op |-> "guard", what |-> what, at |-> n]>>

\* The end of an inner scope: its finalizers run.
Leave == Simply("leave")

-----------------------------------------------------------------------------
(* FleetControls.ts.                                                       *)

\* Lines 130-136.
Pause(n) ==
  Do("running", n) \o Do("reserve", n) \o Do("pause", n) \o Do("frozen", n)

\* Lines 137-142.
Unpause(n) == Do("unpause", n) \o Do("forget", n) \o Do("thawed", n)

\* Lines 374-383.
Kill(n) == Do("running", n) \o Do("kill", n) \o Do("dead", n)

\* Lines 389-407 and 408-417.
Partition(n) ==
  Do("running", n) \o Do("attached", n) \o Do("disconnect", n) \o Do("detached", n)
Reconnect(n) == Do("connect", n)

\* Lines 92-110: poll until the node has exited, then ask how.
Fenced(n) == Do("await", n) \o Do("exited3", n)

-----------------------------------------------------------------------------
(* QualificationContext.ts.                                                *)

\* Domain.ts line 16.
LeaseLapse == Simply("lapse")

\* Lines 211-215.
Start(n) == Do("start", n) \o Do("ready", n)

\* Lines 222-223; the starts are concurrent, and nothing depends on their order.
StartAll == ForAll(Start)

\* Lines 226-233: an inspection, and the kill unless the node had exited.
KillIfRunning(n) == <<[op |-> "unless", at |-> n, skip |-> Len(Kill(n))]>> \o Kill(n)

\* Mutant: no wait between the last kill and the first start.
RestartAllAtOnce == ForAll(Kill) \o StartAll
RestartAll == ForAll(KillIfRunning) \o LeaseLapse \o StartAll

\* Lines 326-331 and 332-340.
AcknowledgedBatch == Send(RoundRobin(Batch), TRUE) \o Join
StartTraffic == Send(RoundRobin(Traffic), FALSE)

\* Line 234.
WriteAcknowledged(n) == Send(<<n>>, TRUE) \o Join

Owner(register) == <<[op |-> "owner", into |-> register]>>
Verify(n) == Do("verify", n)

-----------------------------------------------------------------------------
(* QualificationTraffic.ts, lines 11-74.                                   *)

FinalBatch == AcknowledgedBatch \o Verify(Order[1])

PausedOwner ==
  AcknowledgedBatch \o Owner("prior") \o Simply("oldActivation")
  \o Pause("prior") \o LeaseLapse \o WriteAcknowledged("successor")
  \o Owner("after") \o Simply("advanced") \o Simply("takeover")
  \o StartTraffic \o Unpause("prior") \o Join \o Simply("receipts")
  \o Do("stopped", "prior") \o Do("exited3", "prior")
  \o Start("prior") \o FinalBatch

CrashRound ==
  Owner("prior") \o StartTraffic \o Kill("prior")
  \o LeaseLapse \o Start("prior") \o Join \o ForAll(Verify)

RestartRound ==
  Owner("prior") \o StartTraffic \o Kill("prior")
  \o Start("prior") \o Kill("prior")
  \o LeaseLapse \o Start("prior") \o Join \o ForAll(Verify)

CrashLedger  == AcknowledgedBatch \o Times(Rounds, CrashRound) \o FinalBatch
RestartRaces == AcknowledgedBatch \o Times(Rounds, RestartRound) \o FinalBatch

-----------------------------------------------------------------------------
(* QualificationFaults.ts, lines 16-49.  Its evidence, lines 32-44, is the *)
(* subject of StorageProxy.                                                *)

StorageFault ==
  AcknowledgedBatch \o Simply("disturb") \o Guard("store", Order[1]) \o StartTraffic \o Join
  \o Simply("restore") \o RestartAll \o AcknowledgedBatch \o Verify(Order[1])

-----------------------------------------------------------------------------
(* Multinode.ts and the stages of Resilience.ts that follow it.            *)

\* Multinode.ts lines 161-172: the state must be exactly what was acknowledged.
Check(n) == Do("exact", n)
Readable(n) == Do("readable", n)
Handoff == Owner("after") \o Simply("advanced") \o Simply("handoff")

\* Lines 202-218.
Routing ==
  Send(RoundRobin(Len(Order)), TRUE) \o Join \o ForAll(Check) \o Owner("prior")

\* Lines 220-230.
OwnerFailover ==
  Kill("prior") \o LeaseLapse \o Readable("successor") \o Check("successor")
  \o Handoff \o WriteAcknowledged("successor")

\* Lines 232-241.
OwnerRejoin ==
  Start("prior") \o Check("prior") \o Check("successor")
  \o WriteAcknowledged("prior") \o Check("successor")

\* Mutant: the partition is healed before its effect is awaited.
StoragePartitionHealed ==
  Owner("prior") \o Partition("prior") \o Reconnect("prior") \o Fenced("prior")

\* Lines 243-274: the isolated owner is asked for one more write.
StoragePartition ==
  Owner("prior") \o Partition("prior") \o Fenced("prior")
  \o Send(<<"prior">>, FALSE) \o Join \o Simply("refused")
  \o Readable("successor") \o Check("successor") \o Handoff
  \o WriteAcknowledged("successor") \o Reconnect("prior")
  \o Start("prior") \o Check("prior") \o WriteAcknowledged("prior")
  \o Check("successor") \o Check("prior")

Multinode == Routing \o OwnerFailover \o OwnerRejoin \o StoragePartition

\* Resilience.ts lines 129-147, entered with an active cell.
PausedOwnerStage ==
  Routing \o Pause("prior") \o LeaseLapse \o Readable("successor")
  \o Check("successor") \o Owner("after") \o Simply("advanced")
  \o WriteAcknowledged("successor") \o Unpause("prior") \o Fenced("prior")
  \o Start("prior") \o ForAll(Check)

\* Lines 214-225; the kills and the starts are concurrent.
SimultaneousRestart ==
  Routing \o WriteAcknowledged(Order[1]) \o ForAll(Kill) \o LeaseLapse
  \o StartAll \o ForAll(Check)

\* Line 180 for every node.
CheckAll == ForAll(Check)

\* Lines 148-212: the worker holds its responses for five seconds (fixture, lines
\* 67-70), and the owner is killed once its log shows a write in its hold.
InterruptedWrites ==
  WriteAcknowledged(Order[1]) \o Owner("prior")
  \o <<[op |-> "send", entries |-> [i \in 1..Batch |-> "prior"], strict |-> FALSE,
        held |-> TRUE]>>
  \o Simply("entered") \o Kill("prior") \o Join \o Simply("interrupted")
  \o LeaseLapse \o Do("survivors", "successor") \o Do("start", "prior")
  \o Do("ready", "prior") \o CheckAll

\* Lines 77-106: the lease record is polled until its log is open to these peers.
Ensemble(peers, active) ==
  <<[op |-> "ensemble", at |-> "prior", peers |-> peers, active |-> active]>>
Both == {"successor", "remaining"}

\* Lines 107-122.
RecruitBoth ==
  Owner("prior") \o Kill("prior") \o LeaseLapse \o Start("prior")
  \o WriteAcknowledged("prior") \o Owner("prior") \o Ensemble(Both, FALSE)
  \o WriteAcknowledged("prior") \o Ensemble(Both, TRUE)

\* Lines 226-252.
FollowerLoss ==
  WriteAcknowledged(Order[1]) \o RecruitBoth
  \o Kill("successor") \o LeaseLapse
  \o WriteAcknowledged("prior") \o Ensemble({"remaining"}, FALSE)
  \o WriteAcknowledged("prior") \o Ensemble({"remaining"}, TRUE)
  \o Partition("prior") \o WriteAcknowledged("prior") \o Kill("prior") \o LeaseLapse
  \o Readable("remaining") \o Check("remaining") \o Reconnect("prior")
  \o Start("prior") \o Start("successor") \o CheckAll

\* FleetControls.ts lines 164-242: the container is made anew, on an empty disk.
Discard(n) == Do("discard", n)

\* Lines 253-309; its starts are not awaited, and fifteen seconds pass.
ReplicaDiskLoss ==
  WriteAcknowledged(Order[1]) \o RecruitBoth
  \o Partition("prior") \o WriteAcknowledged("prior")
  \o ForAll(Kill) \o LeaseLapse \o ForAll(Discard)
  \o DoAll("start", Order) \o LeaseLapse
  \o Do("attempt", Order[1]) \o Simply("judge")

-----------------------------------------------------------------------------
(* FleetFaults.ts.                                                         *)

\* Lines 51-95.  Mutant: the finalizer is installed once the limit is set.
LimitThenGuard(n, size) ==
  <<[op |-> "limit", at |-> n, size |-> size]>> \o Guard("limit", n)
MemoryLimit(n, size) ==
  Guard("limit", n) \o <<[op |-> "limit", at |-> n, size |-> size]>>

\* Lines 96-144.
PartitionPeers(n) == Do("paired", n) \o Guard("peers", n) \o Do("unpair", n)

-----------------------------------------------------------------------------
(* QualificationFaults.ts and QualificationCapacity.ts.                    *)

\* Faults lines 50-84 and 125-140.
PeerPartition ==
  AcknowledgedBatch \o Owner("prior") \o PartitionPeers("prior") \o Do("unpaired", "prior")
  \o StartTraffic \o Join \o Leave
  \o Verify("successor") \o KillIfRunning("prior") \o LeaseLapse
  \o Start("prior") \o ForAll(Verify)

\* Faults lines 85-124; the fixture is replaced for the deployment alone.
Replaced(n) ==
  Send(RoundRobin(Beside), FALSE) \o Do("stop", n) \o Start(n) \o Join \o Do("revised", n) \o Verify(n)
RollingDeployment ==
  AcknowledgedBatch \o Simply("deploy") \o ForAll(Replaced)
  \o Verify(Order[1])

\* Capacity lines 12-38: everything the lost disk held comes back from the store.
LargeRestore ==
  Times(Batch, WriteAcknowledged(Order[1])) \o Owner("prior") \o Kill("prior")
  \o LeaseLapse \o Discard("prior") \o Start("prior") \o Check("prior")

\* Capacity lines 57-114: limits, pressure, and the evidence that it was felt.
Squeeze(nodes, size) ==
  FlattenSeq([i \in DOMAIN nodes |-> MemoryLimit(nodes[i], size)])
  \o DoAll("limited", nodes) \o DoAll("pressure", nodes) \o Simply("felt")

\* Mutant: the fleet is started while its limits still hold.
RecoverThenLeave(nodes) ==
  StartTraffic \o Join \o ForAll(KillIfRunning) \o LeaseLapse \o StartAll \o Leave
  \o DoAll("unlimited", nodes) \o ForAll(Verify)
\* Lines 125-154.
LeaveThenRecover(nodes) ==
  StartTraffic \o Join \o ForAll(KillIfRunning) \o Leave
  \o LeaseLapse \o StartAll \o DoAll("unlimited", nodes) \o ForAll(Verify)

MemoryPressure == AcknowledgedBatch \o Squeeze(Order, "low") \o LeaveThenRecover(Order)

\* Lines 115-124: no node is left that could take over.
InsufficientSpare ==
  AcknowledgedBatch \o Squeeze(Tail(Order), "tiny") \o Kill(Order[1])
  \o DoAll("stopped", Tail(Order)) \o LeaveThenRecover(Tail(Order))

-----------------------------------------------------------------------------
(* QualificationDependencies.ts and QualificationStreams.ts.               *)

Home(op) == Do(op, Order[1])
KillAll == ForAll(Kill)

\* Context lines 216-221.
Crash(n) == Kill(n) \o LeaseLapse \o Start(n)

\* Dependencies lines 6-66, with its four messages.
Enqueue(retry) == <<[op |-> "enqueue", at |-> Order[1], retry |-> retry]>>
Drained(times) == <<[op |-> "drained", at |-> Order[1], times |-> times]>>
QueueOutage == KillAll \o Simply("notDue") \o Simply("overdue") \o StartAll
QueueAcceptance == Enqueue(FALSE) \o Home("noEvents") \o QueueOutage \o Drained(1)
QueueRedelivery == Enqueue(TRUE) \o Home("delivered") \o QueueOutage \o Drained(2)

\* Lines 67-100.
WorkflowRecovery ==
  Home("flowStart") \o Home("firstSeen") \o Home("flowWaits") \o RestartAll
  \o Home("firstOnce") \o Home("flowContinue") \o Home("flowComplete") \o Home("bothOnce")

\* Streams lines 284-285 and 300-322: a record for the first reader, two for the second.
StreamReconnect ==
  Times(3, WriteAcknowledged(Order[1])) \o Home("expect") \o Owner("prior")
  \o Home("follow") \o Crash("prior") \o Simply("cutOff") \o Home("rest") \o Verify(Order[1])

\* Lines 240-277.
SocketFailover ==
  Times(Batch, WriteAcknowledged(Order[1])) \o Home("hold") \o Owner("prior")
  \o Kill("prior") \o Simply("closed") \o LeaseLapse \o Start("prior")
  \o Home("reconnect") \o Verify(Order[1])

Applications == {"QueueAcceptance", "QueueRedelivery", "WorkflowRecovery", "StreamReconnect",
                 "SocketFailover"}

\* The scenarios whose writes may be acknowledged by followers' disks.  The others
\* ask nothing of where a row is kept: there, an acknowledged row is in the store.
FleetDurable == {"FollowerLoss", "ReplicaDiskLoss", "LargeRestore"}

Scenarios ==
  {"PausedOwner", "CrashLedger", "RestartRaces", "StorageFault", "Multinode",
   "PausedOwnerStage", "SimultaneousRestart", "InterruptedWrites", "FollowerLoss",
   "ReplicaDiskLoss", "PeerPartition", "RollingDeployment", "LargeRestore",
   "MemoryPressure", "InsufficientSpare"} \cup Applications
Scenario(name) ==
  CASE name = "PausedOwner" -> PausedOwner
    [] name = "CrashLedger" -> CrashLedger
    [] name = "RestartRaces" -> RestartRaces
    [] name = "StorageFault" -> StorageFault
    [] name = "Multinode" -> Multinode
    [] name = "PausedOwnerStage" -> PausedOwnerStage
    [] name = "SimultaneousRestart" -> SimultaneousRestart
    [] name = "InterruptedWrites" -> InterruptedWrites
    [] name = "FollowerLoss" -> FollowerLoss
    [] name = "ReplicaDiskLoss" -> ReplicaDiskLoss
    [] name = "PeerPartition" -> PeerPartition
    [] name = "RollingDeployment" -> RollingDeployment
    [] name = "LargeRestore" -> LargeRestore
    [] name = "MemoryPressure" -> MemoryPressure
    [] name = "InsufficientSpare" -> InsufficientSpare
    [] name = "QueueAcceptance" -> QueueAcceptance
    [] name = "QueueRedelivery" -> QueueRedelivery
    [] name = "WorkflowRecovery" -> WorkflowRecovery
    [] name = "StreamReconnect" -> StreamReconnect
    [] name = "SocketFailover" -> SocketFailover
=============================================================================
