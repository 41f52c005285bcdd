-------------------------- MODULE ObjectScenarios --------------------------
(***************************************************************************)
(* The in-place deployment cases (src/InPlaceDeployment.ts) and the        *)
(* storage durability cases (src/StorageDurability.ts) as programs for     *)
(* ResidentObject: sequences of the driver's primitive steps, in the order *)
(* of the code.                                                            *)
(*                                                                         *)
(* A request is sent into a slot and joined later.  Json joins at once and *)
(* wants status 200; a check names an oracle of ObjectOracles.  Time is    *)
(* counted in ticks of half a second.                                      *)
(***************************************************************************)
EXTENDS Naturals, Sequences, FiniteSets, SequencesExt

CONSTANT Order  \* the nodes, in the harness's order

Nodes == {Order[i] : i \in DOMAIN Order}
ASSUME ObjectOrderAssumption ==
  Order \in Seq(Nodes) /\ Cardinality(Nodes) = Len(Order) /\ Len(Order) > 1

TickMs == 500
Ticks(ms) == (ms + TickMs - 1) \div TickMs

Simply(op) == <<[op |-> op]>>
ForAll(steps(_)) == FlattenSeq([i \in DOMAIN Order |-> steps(Order[i])])

Sleep(ms) == <<[op |-> "sleep", ticks |-> Ticks(ms)]>>
Send(slot, call, ms) == <<[op |-> "send", slot |-> slot, call |-> call, bound |-> Ticks(ms)]>>
Join(slot, into, check) == <<[op |-> "join", slot |-> slot, into |-> into, check |-> check]>>

\* Domain.ts: a request is given up after 10 seconds, unless it says otherwise.
RequestMs == 10000
Json(call, into, check) == Send("main", call, RequestMs) \o Join("main", into, check)

\* Read something of the nodes, or of the object through each node, and keep it;
\* or compare it with what it has to be.
Take(what, into) == <<[op |-> "take", what |-> what, into |-> into]>>
See(what, n, is) == <<[op |-> "see", what |-> what, at |-> n, is |-> is]>>
Check(oracle) == <<[op |-> "check", oracle |-> oracle]>>

\* QualificationContext.ts: an acknowledged batch, one acknowledged write, the
\* audit of the history through a node.
AcknowledgedBatch == Json("batch", "batch", "ok")
WriteAcknowledged == Json("write", "write", "ok")
Verify(n) == See("history", n, "acknowledged")
VerifyAll == ForAll(Verify)

\* restartAll; the wait is Domain.ts's leaseLapse.
LeaseLapseMs == 11000
RestartAll == Simply("restartAll") \o Sleep(LeaseLapseMs)

-----------------------------------------------------------------------------
(* InPlaceDeployment.ts.                                                   *)

\* identity, of each node, kept by each case for the end.
Identities == Take("process", "before")
SameProcess(n) == See("process", n, "before")

\* publish: the replacement is in place while deploy reads it.
Publish(kind) ==
  Simply("replace") \o <<[op |-> "deploy", kind |-> kind]>> \o Simply("release")

\* reload, with what checkReload is to make of the answer; revisionOf.
Reload(n, check) == <<[op |-> "reload", at |-> n, check |-> check]>>
Revisions(n, revision) ==
  See("worker", n, revision) \o See("object", n, revision) \o See("service", n, revision)

\* run.  checkAdoption is the comparison of the processes and of the three
\* revisions.
Run(kind) ==
  LET adopted == IF kind = "valid" THEN 2 ELSE 1
      check   == IF kind = "valid" THEN "adopted" ELSE "failed"
      Initial(n)  == See("worker", n, 1) \o See("object", n, 1)
      Waits(n)    == See("worker", n, 1)
      Trigger(n)  == Reload(n, check)
      Adoption(n) == SameProcess(n) \o Revisions(n, adopted) \o Verify(n)
  IN  AcknowledgedBatch \o Identities \o ForAll(Initial) \o Publish(kind)
      \o ForAll(Waits) \o ForAll(Trigger) \o ForAll(Adoption)
      \o AcknowledgedBatch \o VerifyAll

ReloadAll == LET Trigger(n) == Reload(n, "adopted") IN ForAll(Trigger)

HoldMs == 6000

\* From the alarm to the trigger of lifecycleAdoption.  Mutant:
\* the reload does not wait for the requests to arrive.
OpenWorkAndTrigger ==
  Json("arm", "armed", "ok") \o Simply("guardProxy")
  \o <<[op |-> "mode", mode |-> "latency", ticks |-> Ticks(15000)]>>
  \o Send("held", "hold", 60000) \o Send("pending", "pendingSync", 60000)
OpenWork ==
  Json("arm", "armed", "ok") \o Simply("guardProxy")
  \o <<[op |-> "mode", mode |-> "latency", ticks |-> Ticks(15000)]>>
  \o Send("held", "hold", 60000) \o Send("pending", "pendingSync", 60000)
  \o Sleep(500)

Normal == <<[op |-> "mode", mode |-> "normal", ticks |-> 0]>>

\* The poll of the object's revision, until it is the adopted one.
ObjectMoves == Simply("pollObject")

\* The two states sampled while the object moves are recorded and not judged.
LifecycleAdoption ==
  LET Adoption(n) == SameProcess(n) \o See("service", n, 2) \o Verify(n)
  IN  AcknowledgedBatch \o Identities \o Take("worker", "workerBefore")
      \o Publish("valid") \o OpenWork \o Simply("stamp") \o ReloadAll
      \o Take("state", "during") \o Send("writes", "batch", RequestMs)
      \o Take("worker", "workerAfter") \o Sleep(2000) \o Sleep(2000)
      \o Join("held", "inFlight", "ok") \o Join("pending", "pendingSync", "ok")
      \o Join("writes", "writes", "ok") \o Normal \o ObjectMoves
      \o Json("alarmState", "alarm", "ok") \o Check("lifecycle") \o ForAll(Adoption)
      \o AcknowledgedBatch \o VerifyAll

Connect(socket) == <<[op |-> "connect", socket |-> socket]>>
Exchange(socket, into) == <<[op |-> "exchange", socket |-> socket, into |-> into]>>
KeepsProcessAndHistory == LET Kept(n) == SameProcess(n) \o Verify(n) IN ForAll(Kept)

SocketPreservation ==
  AcknowledgedBatch \o Connect("hibernatable") \o Exchange("hibernatable", "before_")
  \o Take("rows", "rowsBefore") \o Identities \o Publish("valid") \o ReloadAll
  \o ObjectMoves \o Exchange("hibernatable", "after_") \o AcknowledgedBatch
  \o Take("rows", "rowsAfter") \o Take("sockets", "closed") \o Check("socket")
  \o KeepsProcessAndHistory

\* The start of forcedAdoption's clock.
StampThenTrigger ==
  Identities \o Publish("valid") \o Simply("stamp") \o ReloadAll

\* The deadline of infra/adoption-deadline.yaml.
DeadlineMs == 20000
ForcedAdoption ==
  AcknowledgedBatch
  \o Connect("hibernatable") \o Exchange("hibernatable", "hibernatableBefore")
  \o Connect("regular") \o Exchange("regular", "regularBefore")
  \o StampThenTrigger \o Take("worker", "workerAfter")
  \o Simply("awaitClose") \o Take("regular", "regularClose") \o ObjectMoves
  \o Exchange("hibernatable", "hibernatableAfter") \o Take("sockets", "closed")
  \o Connect("regular") \o Exchange("regular", "reconnect")
  \o Check("forced") \o AcknowledgedBatch \o KeepsProcessAndHistory

ModuleMismatch ==
  LET Trigger(n) == Reload(n, "any")
  IN  AcknowledgedBatch \o Identities \o Publish("valid") \o Simply("tamper")
      \o ForAll(Trigger) \o Take("worker", "worker") \o Take("objects", "object")
      \o Take("service", "service") \o Check("mismatch")
      \o AcknowledgedBatch \o KeepsProcessAndHistory

-----------------------------------------------------------------------------
(* StorageDurability.ts.                                                   *)

\* request and json: the driver waits 50 seconds for these.
Request(call, check) == Send("main", call, 50000) \o Join("main", call, check)
State(check) == Request("state", check)
Seed == Request("seed", "before")

Recovery == Seed \o Request("sync", "after") \o RestartAll \o State("after")

\* The finalizer and the injection of outage.  Mutant: the other way round.
InjectThenGuard ==
  <<[op |-> "mode", mode |-> "throttle", ticks |-> Ticks(14000)]>> \o Simply("guardProxy")
GuardThenInject ==
  Simply("guardProxy") \o <<[op |-> "mode", mode |-> "throttle", ticks |-> Ticks(14000)]>>

Outage ==
  Seed \o GuardThenInject \o Request("syncUnconfirmed", "syncRejection")
  \o Simply("evidence") \o Normal \o RestartAll \o State("outageRecovery")

Deadline(path) ==
  Seed \o Json("id", "before_", "ok") \o Simply("stamp") \o Request(path, "timedOut")
  \o Take("elapsed", "elapsed") \o Json("id", "after_", "ok")
  \o Check("newActivation") \o State("before") \o Check("deadline")

CursorOutput(path) ==
  Seed \o Request("consumedOutbound", "ok") \o Json("witness", "control", "one")
  \o Request(path, "any") \o Json("witness", "witness", "ok") \o Check(path)

AbortSync ==
  Seed \o WriteAcknowledged \o Json("id", "before_", "ok") \o Request("syncAbort", "any")
  \o Json("id", "after_", "ok") \o State("ok") \o Request("sync", "ok")
  \o Check("abort") \o WriteAcknowledged \o Verify(Order[1])

\* partitionPeers: the restoration is there before the cut; one for each peer.
ForEachPeer(steps) == FlattenSeq([i \in 1 .. Len(Order) - 1 |-> steps])
PartitionPeer == Simply("guardPeer") \o Simply("cutPeer")

\* The interruption of barrierPartition.
CutThenWindow ==
  ForEachPeer(PartitionPeer) \o Simply("probe") \o Take("inFlight", "inFlight") \o Simply("openWindow")

\* The peers are reconnected when the inner scope ends.
BarrierPartition ==
  LET Read(n) == Json("state", "read", "keep")
  IN  Seed \o AcknowledgedBatch \o Simply("proveFleet")
      \o Send("barrier", "barrier", 120000) \o Sleep(2000)
      \o CutThenWindow \o <<[op |-> "await", slot |-> "barrier", ticks |-> Ticks(40000)]>>
      \o Take("proofs", "proofs") \o ForEachPeer(Simply("reconnect")) \o Join("barrier", "barrier", "ok")
      \o RestartAll \o ForAll(Read) \o Check("barrier") \o VerifyAll

\* inPlaceDeploymentCases and storageDurabilityCases.
Scenarios ==
  [reloadAdoption |-> Run("valid"), reloadInvalid |-> Run("invalid"),
   reloadInFlight |-> LifecycleAdoption, reloadSocket |-> SocketPreservation,
   reloadForced |-> ForcedAdoption, reloadModuleBytes |-> ModuleMismatch,
   cursorResponse |-> CursorOutput("cursorResponse"),
   cursorOutbound |-> CursorOutput("cursorOutbound"),
   syncRecovery |-> Recovery, syncOutage |-> Outage,
   syncTransaction |-> Seed \o Request("syncTransaction", "transactionSync"),
   cursorSync |-> Seed \o Request("cursorSync", "cursorSync"),
   syncAbort |-> AbortSync, syncBarrierPartition |-> BarrierPartition,
   transactionDeadline |-> Deadline("transactionDeadline"),
   gateDeadline |-> Deadline("gateDeadline")]
=============================================================================
