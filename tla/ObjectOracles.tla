--------------------------- MODULE ObjectOracles ---------------------------
(***************************************************************************)
(* The pure oracles of the in-place deployment and durability cases        *)
(* (src/QualificationOracles.ts, src/StorageDurability.ts) over what the   *)
(* driver has seen: o maps the name of an observation to what was seen.    *)
(* Revisions are 1 and 2 (qualification-v1 and -v2); the durable value is  *)
(* a number: Before, After, Pending, or Barrier plus the round.            *)
(***************************************************************************)
EXTENDS ObjectScenarios

Before == 1
After == 2
Pending == 3
Barrier == 4

Uniform(values, revision) == \A n \in Nodes : values[n] = revision

checkLifecycleAdoption(o) ==
  /\ Uniform(o.workerBefore, 1) /\ Uniform(o.workerAfter, 2)
  /\ o.during.node >= 2 /\ o.during.object = o.during.node - 1
  /\ o.inFlight.revision = 1
  /\ o.alarm.count = 1 /\ o.alarm.revision = 1 /\ ~o.alarm.pending
  /\ ~o.pendingSync.rejected /\ o.pendingSync.revision = 1 /\ o.pendingSync.value = Pending

checkSocketPreservation(o) ==
  /\ o.closed.hibernatable = "open"
  /\ o.before_.revision = 1 /\ o.after_.revision = 2
  /\ o.after_.counter = o.before_.counter + 1
  /\ o.before_.activation # o.after_.activation
  /\ o.rowsBefore > 0 /\ o.rowsAfter > o.rowsBefore

checkForcedAdoption(o) ==
  /\ o.regularBefore.revision = 1
  /\ o.regularClose.code = 1012
  /\ o.regularClose.at >= Ticks(DeadlineMs) /\ o.regularClose.at < Ticks(DeadlineMs + 60000)
  /\ o.closed.hibernatable = "open"
  /\ o.hibernatableBefore.revision = 1 /\ o.hibernatableAfter.revision = 2
  /\ o.hibernatableAfter.counter = o.hibernatableBefore.counter + 1
  /\ o.reconnect.revision = 2 /\ o.reconnect.counter = 1
  /\ Uniform(o.workerAfter, 2)

\* Every node refused the bytes, and said it was their digest.
checkModuleMismatch(o) ==
  /\ Len(o.reloads) = Len(Order)
  /\ \A i \in DOMAIN o.reloads : o.reloads[i] = "digest mismatch"
  /\ Uniform(o.worker, 1) /\ Uniform(o.object, 1) /\ Uniform(o.service, 1)

\* InPlaceDeployment.ts: status, outcome, and the marker of the
\* invalid module.
checkReload(reply, check) ==
  CASE check = "adopted" -> reply = "adopted"
    [] check = "failed"  -> reply = "tck-invalid-deployment"
    [] check = "any"     -> TRUE

-----------------------------------------------------------------------------
(* StorageDurability.ts.                                                   *)

checkSyncedState(reply, after) ==
  /\ reply.rows = (IF after THEN {1, 2} ELSE {1})
  /\ reply.value = (IF after THEN After ELSE Before)
checkTransactionSync(reply) == reply.rejected /\ reply.rows = {1}
checkCursorSync(reply) == reply.first = 2 /\ reply.rejected /\ reply.remaining = {3}

checkOutageRecovery(reply) == reply.rows = {1} /\ reply.value \in {Before, After}

\* The oracle that judges the reply to a request, with its status.
Judge(check, r) ==
  CASE check = "any"             -> TRUE
    [] check = "ok"              -> r.status = 200
    [] check = "keep"            -> r.status = 200
    [] check = "before"          -> r.status = 200 /\ checkSyncedState(r, FALSE)
    [] check = "after"           -> r.status = 200 /\ checkSyncedState(r, TRUE)
    [] check = "outageRecovery"  -> r.status = 200 /\ checkOutageRecovery(r)
    [] check = "one"             -> r.status = 200 /\ r.count = 1
    [] check = "transactionSync" -> r.status = 200 /\ checkTransactionSync(r)
    [] check = "cursorSync"      -> r.status = 200 /\ checkCursorSync(r)
    [] check = "syncRejection"   -> r.status = 500 /\ r.cause = "sync"
    [] check = "timedOut"        -> r.status = 500 /\ r.cause = "limit"

checkDeadlineRecovery(o) ==
  /\ o.before_.activation # o.after_.activation
  /\ o.elapsed >= Ticks(25000) /\ o.elapsed < Ticks(45000)

\* Nothing got out of the object but the error.
checkCursorOutput(reply, witness) ==
  reply.status = 500 /\ reply.cause = "cursor" /\ witness.count = 1

classifyAbortSync(reply) ==
  CASE reply.status = 200 /\ reply.pending = "resolved"  -> "sync-resolved"
    [] reply.status = 200 /\ reply.pending = "unsettled" -> "sync-unsettled"
    [] reply.status = 200 /\ reply.pending = "rejected"  -> "sync-rejected"
    [] reply.status = 200 /\ reply.pending = "aborted"   -> "abort-error"
    [] reply.status = 500 /\ reply.cause = "abort"       -> "abort-error"
    [] OTHER                                             -> "unclassified"

checkAbortSync(o) ==
  /\ classifyAbortSync(o.syncAbort) \in {"abort-error", "sync-rejected", "sync-unsettled"}
  /\ o.before_.activation # o.after_.activation
  /\ checkOutageRecovery(o.state)
  /\ checkSyncedState(o.sync, TRUE)

\* Mutant: the surviving value is compared with nothing.
BarrierHoldsLoosely(o) ==
  /\ o.inFlight /\ "fleet" \notin o.proofs /\ o.barrier.rounds > 0
  /\ \A i, j \in DOMAIN o.read : o.read[i].rows = {1} /\ o.read[i].value = o.read[j].value
  /\ (~o.blocked /\ ~o.barrier.rejected) => o.proofs # {}
checkBarrierPartition(o) ==
  /\ o.inFlight /\ "fleet" \notin o.proofs /\ o.barrier.rounds > 0
  /\ \A i, j \in DOMAIN o.read : o.read[i].rows = {1} /\ o.read[i].value = o.read[j].value
  /\ o.barrier.resolved > 0 => o.read[1].value >= Barrier + o.barrier.resolved
  /\ (~o.blocked /\ ~o.barrier.rejected) => o.proofs # {}

\* The oracle a case ends with.
Oracle(name, o) ==
  CASE name = "lifecycle"      -> checkLifecycleAdoption(o)
    [] name = "socket"         -> checkSocketPreservation(o)
    [] name = "forced"         -> checkForcedAdoption(o)
    [] name = "mismatch"       -> checkModuleMismatch(o)
    [] name = "newActivation"  -> o.before_.activation # o.after_.activation
    [] name = "deadline"       -> checkDeadlineRecovery(o)
    [] name = "cursorResponse" -> checkCursorOutput(o.cursorResponse, o.witness)
    [] name = "cursorOutbound" -> checkCursorOutput(o.cursorOutbound, o.witness)
    [] name = "abort"          -> checkAbortSync(o)
    [] name = "barrier"        -> checkBarrierPartition(o)
=============================================================================
