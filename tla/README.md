# A TLA+ verification of celld-tck

celld-tck tests *celld*, a runtime for Workers and Durable Objects. It starts
celld and a reference (workerd under Miniflare), runs one fixture on both,
injects faults into a fleet of celld nodes and its object store, and judges what
it sees. It is a TypeScript program in Effect: fibers, scopes with finalizers,
timers and interruption. A test kit is wrong in two ways: it passes a candidate
that broke its promises, or it accuses one that kept them. Nearly every property
here is one of the two, stated over the interleavings, crashes, lost answers and
timers that the program lives with.

celld itself is not under test here. Where a model needs it, celld is an external
actor that keeps the promises the documents state, or breaks one named in a
constant of the module (`Faulty`, `Faults`, `Defects`).

Contents

1. [The system](#1-the-system)
2. [The modules](#2-the-modules)
3. [The runs and what they show](#3-the-runs-and-what-they-show)
4. [Bounds](#4-bounds)
5. [Fairness, and why the system may stop](#5-fairness-and-why-the-system-may-stop)
6. [Proofs](#6-proofs)
7. [Disagreements with the documents](#7-disagreements-with-the-documents)
8. [What is not modelled](#8-what-is-not-modelled)
9. [Plan](#9-plan)

Paths are relative to the repository; `File.ts` alone is `src/File.ts`.

## 1. The system

| Component | Source | State it keeps | Operations |
| --- | --- | --- | --- |
| Suite executor | `SuiteExecutor.ts`, `Report.ts`, `Resources.ts`, `Artifacts.ts` | results table, error list, scopes with finalizers | `runCase`, `record`, `execute`, `cleanupError`, `owned`, `cleanupAll` |
| Runners | `Runner.ts`, `Recovery.ts`, `Multinode.ts`, `Qualification.ts`, `DeploymentChecks.ts` | the environment that is up, the position in the case loop | one run each of the API, recovery, multinode/fleet/resilience and qualification suites |
| Case oracle | `Oracle.ts`, `KnownBugs.ts` | status and cause of one evaluation; the registry of known bugs | `evaluate`, `validateBugRegistry` |
| Ledger and history oracle | `History.ts`, `Audit.ts`, `QualificationContext.ts` | an append-only file of intents, acknowledgments and observations | `attemptWrite`, `verify`, `auditLedger`, `checkHistory`, `checkHistoryKv`, `checkFencedReceipts` |
| Fleet controls and scenarios | `FleetControls.ts`, `FleetFaults.ts`, `QualificationTraffic.ts`, `QualificationFaults.ts`, `QualificationCapacity.ts`, `Multinode.ts`, `Resilience.ts` | Docker's containers, limits and networks; which nodes the scenario froze; the finalizers it owes | pause, unpause, kill, start, partition, reconnect, discard, limit, cut off from peers; scenarios built of them |
| Application scenarios | `QualificationDependencies.ts`, `QualificationStreams.ts`, the fixture's queue, workflow, stream and sockets | what was accepted, counted, received so far | enqueue, wait out the delay, send an event, follow and resume a stream, hold sockets |
| Deployment and durability cases | `InPlaceDeployment.ts`, `StorageDurability.ts`, `QualificationOracles.ts`, `fixtures/qualification/Durability.ts` | the fixture on disk, the deployment pointer, open requests and sockets, samples | publish, reload, tamper, open and join requests, cut peers, disturb the store; the oracles |
| Recovery cases | `Local.ts`, `Recovery.ts`, `Outage.ts`, `DiskLoss.ts` | one process, its volume, the store | stop, kill, prepare and complete a restart, stop and restore the store, discard the disk |
| Storage proxy | `StorageProxy.ts`, `QualificationFaults.ts`, `QualificationOracles.ts` | the mode and its window, the last 2048 events, requests under way | `/mode`, `/stats`, forwarding |
| Telemetry collector | `TelemetryCollector.ts`, `QualificationTelemetry.ts`, `TelemetryOracles.ts` | mode and window, deliveries, records | `/mode`, `/reset`, OTLP deliveries, the cases that read them |
| Fleet operations, security | `QualificationOperations.ts`, `OperationsOracles.ts`, `QualificationSecurity.ts` | as the fleet | see section 8 |
| Boundary | `Processes.ts`, `Build.ts`, `Compose.ts`, `Transport.ts`, `WebSocket.ts`, `Reference*.ts` | none that lasts | single commands, requests, conversations |

How they interact. `main.ts` chooses a runner. A runner calls the executor's
`execute` with its work, acquires environments through `owned` (whose finalizers
run when the scope closes, by return, failure or interruption), and hands each
case to `runCase`, or, in the API suite, evaluates it through `Oracle.evaluate`
and hands the result to `record`. A qualification or stage case drives a
`QualificationContext`: it writes through the ledger, calls the fleet controls
and the sidecars (proxy, collector), polls, and ends with `verify`. Signals, the
suite's deadline and each case's timer are interruptions of the fiber that runs
all this.

Where it is hard:

- *interruption*: between any two steps, at an interruptible point, by a signal,
  by the suite's deadline or by the case's own; finalizers run after it;
- *concurrency*: up to four writes at once, their answers in any order; nodes
  that lose a lease, fence themselves, take over; proxy requests under way when
  the mode changes; exporters with timers of their own;
- *failure*: killed, frozen and partitioned nodes, a lost disk, a store that is
  down, a driver that dies while it writes its ledger, report files that cannot
  be written, finalizers that fail, die or hang;
- *unreliable answers*: a write that was executed without an answer, long after
  its client gave up; a dropped response that is retried; a message delivered once
  more;
- *work under way*: a deployment triggered under an open request, an alarm and a
  barrier; a whole fleet that is down while a queue's delay runs out;
- *time*: a window of disturbance that ends by itself, leases that must have
  lapsed, an alarm that must not have been due, polls that must give up.

What makes each part correct is in section 3, with the run that checks it; the
list of hazards by line is in `PROJECT.json`.

## 2. The modules

```
SuiteContract  <--refines--  SuiteExecutor  <--extends--  Runners  <--  Runners_proofs
FleetScenarios  <--  FleetNodes  <--  FleetApplications  <--  Fleet  <--  Fleet_proofs
ObjectScenarios  <--  ObjectOracles  <--  ResidentObject  <--  Case_proofs
Oracle  <--  Case_proofs              History   <--  History_proofs
StorageProxy  <--  StorageProxy_proofs    Recovery  <--  Recovery_proofs
Telemetry  <--  Telemetry_proofs      SequenceLemmas (used by four of the proofs)
```

An `MC…` module instantiates one of these for TLC where its constants need
definitions. The composition of parts is by `EXTENDS`: `Runners` is the executor
with its most general client replaced by one of the four real ones; `Fleet`
executes the programs that `FleetScenarios` translates from the scenarios, over
the nodes of `FleetNodes` and the work of `FleetApplications`; and
`ResidentObject` executes those of `ObjectScenarios`.

### SuiteContract, SuiteExecutor

`SuiteContract` is what a reader of a report is promised: a verdict is given at
most once, the run is judged once, when nothing can change, and a success needs
an acceptable verdict for every case. `SuiteExecutor` shows that the code
implements it.

| Variables | Code |
| --- | --- |
| `results`, `recorded`, `errors` | the table and list of `makeSuiteExecutor` (32–58) |
| `cur`, `stage`, `setupDone`, `outcome` | the local state of one `runCase` (77–139) |
| `owner` | the scope in which a finalizer was left (`Resources.ts` 23–36) |
| `phase`, `workExit`, `json`, `junit`, `reportFailed`, `exitCode` | `execute` and its `onExit` (140–202) |
| `pending` | an interruption that was requested and not yet taken |
| `ran`, `ready`, `broken`, `trouble` | ghosts: what really happened, for the properties to compare |

The client is the most general one: while no case runs it may acquire, run,
record or return. A case's body, its setup and each finalizer ends in every way
it can.

### Runners

The four runners as programs (`Program`): setup steps, acquisitions, cases,
scopes. The executor's actions stay as they are; the client's are restricted to
the next step of the program. `kind` chooses the runner. The result of an API
case arrives through `Record`, the others' through `RunCase`, as in the code.

### Oracle

One `evaluate` from the registry's validation to the returned result. `stage` is
the next statement, `ends` how each external effect ended (`Causes`: any set of
failure, defect and interruption, the empty one being success), `status` the
variable of line 42, `mode` the waiver under examination. The registry and the
scope of an expectation (version with fork builds, date, flags as sorted lists)
are data the module computes on. The names `OracleInit`, `OracleNext` and `OracleSpec` are
its own because `Case_proofs` extends it together with `ResidentObject`.

### History

Writes, the object of the fixture with its KV mirror, the ledger on disk, and
`verify` step by step: read the ledger, page through the rows, compare, record
the observation, scan the mirror. A crash of the driver leaves a torn last line
or not; the audit then repeats the verification. `checkHistory` is a predicate
over the ledger and the rows that were read. The object executes a request at
any time after it was sent (`Late` allows it after the client gave up).

### FleetScenarios, FleetNodes, FleetApplications, Fleet

A scenario is a sequence of primitive steps (`Pause`, `Kill`, `Batch`, `Verify`,
…), one operator per function of the harness, in its order; loops are unrolled.
`Fleet` runs one, with three kinds of actors between any two steps: nodes (leases
lapse, nodes fence and exit with status 3, are ended by the kernel under a memory
limit, take over, answer), writes (sent, executed, answered, given up) and an
interruption. The driver's side is `Fleet`; what moves by itself is `FleetNodes`.

| Variables | Code |
| --- | --- |
| `container`, `online`, `host`, `storeFault` | what Docker and the proxy hold: process states, networks, published ports, memory limits, the code that was deployed and loaded |
| `lease`, `own`, `active`, `rows`, `log` | what celld holds: leases, the ownership record, activations, the cell's rows and the disks the last of them are on |
| `jobs` | the queue's messages and their counts, the workflow's steps, the stream and the sockets (`FleetApplications`) |
| `writes`, `queue` | the client's requests, and those still to send (`traffic`, `acknowledgedBatch`) |
| `pausedSet`, `finalizers` | what the scope will thaw (`FleetControls.ts` 48) and take back (`FleetFaults.ts`) |
| `memory` | what the scenario remembers: ownership records, receipts, verified rows |

A row is acknowledged from the store or, in the scenarios that are about it, from
the followers' disks, which a discard empties. Verification uses the history
oracle's verdict on acknowledged rows, `checkFencedReceipts` after a takeover, and
`checkReplicaLoss` after the loss of disks. `FleetApplications` has the fixture's
side of a queue (a message counts its delivery and may ask to be delivered again),
of a workflow of two steps with an event between them, of a stream and of sockets,
and what the driver reads of each. Time is not measured; where a scenario races a
clock, `jobs.clock` says which side of it the driver is on.

### ObjectScenarios, ObjectOracles, ResidentObject

The six in-place deployment cases and the ten storage durability cases drive one
resident object with many things open at once, and are about time. So this model
has a clock, in ticks of half a second: requests have bounds, the proxy's window,
the alarm, the safe-point deadline and the transaction limits run down. celld is
prompt (what is due happens before the next tick); the driver may stall once.
`ObjectScenarios` has the programs, `ObjectOracles` the pure oracles over what was
observed, `ResidentObject` the driver, the fixture's routes and celld.

| Variables | Code |
| --- | --- |
| `home`, `fleet` | the owner; the deployment pointer, what each node serves, its process |
| `obj` | the object: its value and rows and what of them is saved, its alarm, its sockets, the round of the barrier (`Durability.ts`) |
| `calls` | the driver's forked requests, by slot |
| `env` | the fixture's file, the proxy's mode and window, the peers' network |
| `seen`, `acked` | the observations that the oracles judge |
| `finalizers` | restorations, last first; `NamesAssumption`: no node is called like one |
| `defect`, `betrayed` | the one thing celld does wrong, of those the documents name for the case |

### Recovery

One celld process, its volume and its store, and the six recovery cases as
programs over the controls of `Local.ts`. A transaction writes two items (KV and
SQL); the store may acknowledge early, show dirty reads or come back with one
item wrong (`Faults`). The alarm's deadline is a clock with two values. Ghosts
say what was betrayed, what was never saved and how the process really ended.

### StorageProxy

The proxy's requests from arrival to answer, with the mode captured at arrival;
the bounded list of events; the storage fault scenario around it, from the first
batch to the verification after the restart, with the interruption between setting the mode and
installing the finalizer that resets it. celld asks for the next object until it is
told that the object is there; the store takes each object once.

### Telemetry

The collector's deliveries and records, celld's exporters (logs and spans in
batches of their own, retried), and two cases, each deciding on one reading of
the collector. A batch's records stand for its digest. `left` is the ghost that
says what had not reached the collector when it was read.

## 3. The runs and what they show

| Run | Config | Question |
| --- | --- | --- |
| `executor` | `MCSuiteExecutor.cfg` | Does a report ever claim more than happened, lose a case, precede a cleanup, or come with the wrong exit status? Does the run end? Is it an implementation of the contract? |
| `runners` | `MCRunners.cfg` | Do environments overlap; is a case judged in another's environment; is one skipped, or run after a failure it depends on? |
| `oracle` | `MCOracle.cfg` | Can a case pass, or be waived, without the evidence it needs? |
| `history` | `MCHistory.cfg` | Is the history oracle sound under late and lost answers, and complete for what the ledger holds? |
| `fleet` | `MCFleet.cfg` | Do twenty scenarios accuse a correct fleet, miss a loss or a broken promise, leave a node frozen, limited or cut off, or wait for what never happens? |
| `object` | `MCResidentObject.cfg` | Do the deployment and durability cases accuse a correct celld, miss a defect they are there to find, leave a disturbance behind, or hang? |
| `recovery` | `MCRecovery.cfg` | Do the recovery cases blame a store that kept its promises, miss a loss, or prove less than they say? |
| `proxy` | `MCStorageProxy.cfg` | Is the evidence of a disturbance real, and kept; does the disturbance end; is celld told the truth of the store, across the restart too? |
| `telemetry` | `MCTelemetry.cfg` | What do the telemetry cases pass, and when do they fail a correct celld? |
| `history_mirror`, `fleet_restart`, `telemetry_names` | `MCHistoryMirror.cfg`, `MCFleetRestart.cfg`, `MCTelemetryNames.cfg` | Three statements of the documents that the code does not keep (section 7). |

Some answers need their exceptions spelled out, and the properties do so:

- `Fleet.NoFalseAlarm` has three. `LookedEarly`: a scenario inspects once a node
  that is just about to end by itself, fencing or outgrowing its limit
  (`QualificationTraffic.ts` 50, `QualificationContext.ts` 228–230,
  `QualificationCapacity.ts` 127–129). `TooSlow`: the driver lost a race against a
  clock: the lease of an owner it had cut off the store, the five seconds a
  response is held, the fifteen of the queue's delay, the stream it meant to cut
  off. `DuplicatedEarly`: the redelivery case compares the counts of the first
  deliveries exactly (`QualificationDependencies.ts` 38–41) and so fails a queue that
  delivers one twice, which `docs/QUALIFICATION.md` 27 permits.
- `Fleet.DamageIsSeen` accepts a missing row only in the case about the loss of
  every disk, and only with the loss declared or the cell refusing to serve.
- `Fleet.NothingStaysBroken` is about nodes. A store fault is not in it, because
  `runStorageFault` sets the mode before its finalizer exists; its end is the
  proxy's `DisturbanceEnds`. Nor is the partition of a node from every network
  (`fleet.partition`), for which the code installs no finalizer: the fleet of those
  stages ends with its stack.
- `ResidentObject.NoFalseAlarm` has two. `AlarmOvertaken`: nothing between arming
  the alarm and the reload waits for its handler to have started, and the object
  may move first, so that the alarm runs on the new code.
  `RejectedAtOnce`: a barrier may reject (`docs/STORAGE-DURABILITY.md` 34); one that
  does before the driver has looked leaves the fixture's loop, and the case says that
  nothing was in flight.
- `ResidentObject.DefectsAreCaught` has four, each between two looks of a case.
  `ClaimsOutsideWindow`: a barrier's claim of fleet replication counts only if it is
  logged between the look at the log after the cut and the one after the wait
  (`StorageDurability.ts` 439–444); `docs/STORAGE-DURABILITY.md` 48 says that there is
  none. `OthersWaited`: one logged wait stands for every round of the barrier, and
  none is asked for once a round was blocked or rejected (lines 323–326, 368–371).
  `EarlyByTheReloads`: the driver's clock starts before the three reloads and celld's
  deadline with the owner's (`InPlaceDeployment.ts` 527–530), so a close that is early
  by less than the reloads took is late enough. `MovesAfterTheLook`: while requests,
  alarm and barrier hold the object, its generation is judged once after the reloads;
  the two samples taken later are recorded and not judged (lines 406–417).
  The deadline cases accept an error between 25 and 45 seconds
  (`StorageDurability.ts` 144–171). The model's two defects of that limit are an error
  after 10 seconds and none at all; smaller ones would pass.
- `StorageProxy.EvidenceIsSound` has one. `BrokenOff`: the store took an object and
  its answer broke off on the way (`StorageProxy.ts` 108–111). What is dropped then
  is the 412 of the retry, and the check counts dropped answers of status 200 only: the
  disturbance happened and the case says it did not.
- `Recovery.NoFalseAlarm`: three causes remain. Docker killed a process that was
  slow to stop; the alarm's deadline passed before the process was proved
  stopped; the node fenced itself between `prepareRestart`'s look at it and its
  kill (`Local.ts` 428–442). The last is the same pair of steps as in the fleet.
- `History.NoFalseAlarm`: the KV scan fails a good store only if
  a request its client had given up was executed between two reads.
- `Telemetry.FalseAlarmsAreEarly`: the polls wait for log lines, and spans travel
  on their own, so a correct celld can fail when the collector is read too early,
  an answer was lost, or the window closed before anything met it.
- `Telemetry.DefectsAreCaught`: two defects can pass. A node that records what it
  should not may not have flushed it when the absence is checked, and a batch that
  was repeated because an answer got lost looks like one that was retried.

Each property of a passing run has a mutant: a definition that models code,
changed the way a bug would, under which TLC finds the property violated. The
mutated definitions stand before the ones they replace, marked as mutants.

## 4. Bounds

Every bound is a constant of its module or a number in its config.

| Run | Bounds | Why they are enough |
| --- | --- | --- |
| `executor` | 2 cases, 2 resources | A verdict can be lost, overwritten or blamed on the other of two cases; a finalizer can run in the case's or the work's scope, or fail before another. The proofs remove the bound for safety. |
| `runners` | 2 fixtures with 2 cases each or 4 cases, 2 deployment checks | One environment before and one after; a case before and one after the failing one. The proofs remove the bound for safety. |
| `oracle` | 2 cases, 2 bugs, registries of up to two entries, 2 releases with fork builds, profiles with repeated flags | Every clause of the registry's and the scope's conditions can fail alone. The proofs remove the bound. |
| `history` | 2 writes at once, 2 verifications, pages of one row, 3 pages, 2 ticks of the clock | Overlap, order and equality of two intervals; a full last page and an empty next one; an observation used by a later verification. The proofs remove the bound. |
| `fleet` | 3 nodes, batches and bursts of 2 with 2 under way, 1 write beside a replacement, 1 crash round, 2 messages | The three roles (old owner, successor, bystander) are distinct; one write on each side of a fault. `MCFleetRestart` needs two nodes. At most one wrong in a run. For `NothingStaysBroken` the proof removes the bound. |
| `object` | 3 nodes, the object on the first or last; one stall of up to 3 s (`MaxLag`); 7 s between a barrier's rounds (`RestMs`, 100 ms in the fixture: three rounds in 20 s); uploads given up after 8 s (`GiveUpMs`) | First and last node are adopted first and last. Three seconds is a slow command; with six, `reload-in-flight` and the outage case lose their own races. A longer rest makes fewer rounds with the same orders in each. For `EverythingIsRestored` the proof removes the bounds. |
| `recovery` | 2 uncertain writes instead of 3, 2-valued clock | One uncertain write kept and one lost. The proofs remove the bound for safety. |
| `proxy` | 3 remembered events for 2048, 1 upload, 4 requests | The fourth event evicts the first. `BrokenOff` needs `Limit = 4`, `MaxRequests = 5`, which passes too but takes several times as long; the proof removes both bounds. |
| `telemetry` | 2 nodes, 2 attempts for 5, 1 lost answer, of a log batch | First delivery, retry and drop are distinct; more attempts repeat the second. The proofs remove these bounds for safety. |

## 5. Fairness, and why the system may stop

All liveness is about runs that end. The fairness assumed:

- *executor and runners*: timers fire; an interrupted fiber reaches an
  interruptible point; each finalizer ends, since `owned` bounds it by 45 seconds
  and `cleanupAll` each step by 15. Nothing is assumed of cases or clients, which
  may hang: `Terminates` holds by the suite's deadline, `RunEnds` in qualification,
  which has none, by each case's own. `Runners` also assumes that the runner's own
  straight-line code goes on.
- *fleet*: leases that are not renewed lapse, a process that lost its lease exits,
  a live node takes over and answers, requests are answered or given up, and the
  driver goes on. Each is what the scenario's wait is for; celld's documents
  promise the first three. `Work` is the same for applications: a queue with a live
  node delivers what is due, a workflow goes on, a stream has its next record.
- *object*: as long as the driver can go on, celld has something due or time can pass,
  one of them happens. Nothing is assumed of a celld that has a defect: each wait of a
  case has a bound of its own.
- *recovery*: the process starts, answers and stops, the alarm's deadline passes
  and the driver goes on. A healthy store is assumed to answer within the
  timeouts.
- *proxy*: requests are forwarded, celld retries, the window closes, the driver
  and its finalizers go on.
- *telemetry*: exporters send what they have, the window closes, the driver goes
  on. A poll may give up whatever the exporters still have, but not before the
  window has closed: 25 seconds (`OUTAGE_MS`) against the 60 or more of 121 attempts.

`CHECK_DEADLOCK FALSE` in every config: each model is one finite job, and its last
state (report written, verdict given, scope closed) has no successor. That nothing
gets stuck before it is what the liveness properties say, where there is one;
`history` and `oracle` have bounded work and no waiting.

## 6. Proofs

Nine components are proved about with TLAPS, for every value of their constants.

**`Runners_proofs`**, first part: the executor. It assumes only what `SuiteExecutor` assumes of its
constants (the policy is one of the code's two, the selection is nonempty). None
of the properties is inductive, because a report is written long after the
things it speaks about. `IInv` adds what connects them:

- `CaseUnderWay`: the running case has no verdict yet, and only it has a scope;
- `TableMatches`: exactly the recorded cases have left "not reached", and those
  with the one under way are the cases that were started;
- `BrokenMatches`, `BlameMatches`: what a case's end implies for its verdict;
- `TroubleMatches`: a failed cleanup, a stop and a failed write have each left a
  trace in the executor's own variables;
- `FilesMatch`: the files written are what `Report` would still produce.

`IInvStep` has one step per action. From it follow type correctness, the four
safety invariants, the action property `NoCaseAfterStop`, and `Implements`: every
step is a step of `SuiteContract` or a stutter; that a verdict is final is a part of
the contract.

**`Case_proofs`**, first part: `Oracle`. It assumes that a registry's list of
expectations is a sequence. `VerdictInv` ties each stage of `evaluate` to the calls that must have succeeded
before it: `ReferenceInv` (the status is "reference-error" exactly until the
reference's check has passed), `CandidateInv`, `ExitInv` (the cause of the end,
the interruptions, the result), `ModeInv` and `WaiverInv` (how a waiver mode was
entered, and what it has shown), `RegistryInv` (nothing starts before the
registry was validated). All of its five properties are proved. `OnlyOpenBugs`
needs the lemma `ExpectationIsOne`: in a validated registry, the entry found for
a case is the only one, so the check that was made of "an" entry was made of it.

**`Case_proofs`**, second part: `ResidentObject`. It proves `EverythingIsRestored`:
however one of the sixteen cases is left, and whatever celld did meanwhile, the fixture,
the storage proxy and the peer network are what they were once the scope is closed. It
assumes that the order names every node once, that there are at least two, and that no
node is called "source" or "proxy" (the finalizers of the model are named so). A label
says what the scope owes before a step: nothing, the fixture, the proxy's mode, `k` peers,
or `k` peers with one more finalizer than peers that were cut off.

- `CasesAreLabelled`: every step of every program has one. The programs are shown to be
  labelled part by part, through concatenation (`ConcatLeads`), loops over any number of
  nodes (`StillLoop`, `PeerLoopLeads`) and scopes of their own (`PublishTakesBack`).
- `ObjectInv`, the inductive invariant: while the case runs, the list of finalizers is
  what the next step's label says (`FollowsLabels`), so nothing is cut off, injected or
  replaced without its restoration; once it has ended, passed, failed or interrupted,
  whatever is disturbed is on the list (`DisturbedIsListed`).
- `PeerLeft` is what the labels are counted for: as long as fewer peers are cut off than
  there are, `partitionPeers` finds a next one, and it is not the owner.

The order of the list matters only for the fixture and for the peers: `release` and
`reconnect` take the last finalizer, and the label says that it is theirs.

**`StorageProxy_proofs`** assumes what `StorageProxy` assumes of its constants (the
modes are some of the code's, the memory holds at least one event). It proves
type correctness, `EvidenceIsSound` and `NothingIsFeigned`. An
answer that was dropped says nothing of where its object is, so evidence is sound
only through the history of requests. `IInv` has it:

- `StageInv`: what the mode at arrival and the stage reached say of the status;
- `ObjectInv`: celld has asked for no object beyond the next one;
- `StoredInv`: the store holds exactly what an upload was answered 200 for, and never
  more than the next object;
- `TakenOnce`: before the kill, a 412 follows that upload;
- `OneAtATime`: before the kill, an object is asked for again only after an answer was
  seen, and it did not say that the object is there;
- `RememberedInv`: up to its limit the proxy remembers every request;
- `ProgressInv`: what celld knows to be there is, which process is up where in the
  scenario, and that what was asked for is there once the last batch is acknowledged.

The two that hold before the kill only are lost to late uploads: eleven seconds of
sleep (`Domain.ts` 16) are shorter than the twelve of a held request and the fifteen
an idle connection to the store may live (`StorageProxy.ts` 68, 111). An upload of the
killed process may overtake the new process's own, which then gets the 412. That is
harmless to `NothingIsFeigned`, because such an upload is of the next object or of an
earlier one.

`StatsInv` is the step that needs them all: when the check finds nothing, a disturbed
upload whose answer was dropped had status 412 (or it would be evidence), so an
earlier upload of that object had 200 (`TakenOnce`), was seen by celld without
telling it (`OneAtATime`), and can only have broken off. That is how `BrokenOff` was
found: the bounds of the run did not reach it.

**`History_proofs`** assumes what `History` assumes of its constants (positive
bounds, a page of at least one row). It proves type correctness, `NoFalseAlarm`
and `LossIsDetected`. The oracle compares a copy of the ledger with rows that are
read page by page while the store goes on executing requests, so none is
inductive. The parts of `IInv` are about one thing each: the table's order
(`RowsInOrder`), that every row has its intent in the ledger before it can exist and
what the ledger says of each write, the clock's order of starts, executions and
answers, what a promise says of the rows, and, for each state of the verification,
what the copies hold of the rows. A row that was read and one that was promised
are then compared by their place in the table and by the clock. The proof
corrected the model: `TypeOK` had one page too few.

**`SequenceLemmas`** is about `FlattenSeq`, of which the programs are made. A set of
sequences that is closed under concatenation holds the concatenation of any number
of its members. The induction over the length is the choice of a smallest
counterexample, since no backend can instantiate an induction rule.

**`Fleet_proofs`** proves `NothingStaysBroken`: however a scenario is left, no node
stays frozen, limited or cut off. It assumes what `Fleet` assumes. First,
`ProgramsAreSound`: in every scenario a step that breaks something stands right
behind the one that says how to mend it, and no jump lands between the two. Every
part of a program is shown to be sound by itself, and soundness to survive
concatenation, choice and loops of any length. Second, `Listed`: what is broken is
on the list from which the scope is closed (`Shape`, `BrokenIsListed`,
`StepIsPrepared`). Neither half holds without the other: the list is complete only
because no jump enters a program behind its preparation.

**`Runners_proofs`**, the runners. It also assumes that no identity is
selected twice (`SuiteExecutor.ts` 36) and that the resources are the code's. A label
says what a runner may rely on at each step of its program: which environment is up,
which cases were run, which of them are known to have passed. `ProgramsAreLabelled`
composes the labels from the programs' parts, for every selection; `RunnersIInv` says
that the run follows them. `RunnersRefineExecutor` shows every step of a runner to be one
of the executor's, which carries all theorems of the first part over. Proved
are the type invariant, `EnvironmentsAreSeparate`, `NoCascade` and `NothingSkipped`.

**`Recovery_proofs`** assumes that `Cases` and `Faults` are some of the module's, and
proves type correctness, `NoFalseAlarm`, `LossIsCaught` and `PassProvesItsName` for any
number of writes into the outage. `CasesHaveStages` gives every step of a program a
stage to start from and one to lead to, part by part. `IInv` then says, by
stage, how the process has ended so far, which requests may be under way, where
the clock stands, and what the disk and the store hold:

- `Upright`, `EndsMatch`, `Activations`: after each lifecycle control the process and the
  store are as it left them, except that the node may have fenced itself;
- `Requests`: no write but those asked for has an outcome, and only during the outage
  does a request stay behind that was given up;
- `Deadlines`: the alarm runs at most once, and from the kill on in a later activation;
- `Contents`: as long as no promise is broken, disk and store hold whole transactions
  that were asked for; `Betrayals`: a broken one is visible in what is read next;
- `Savings`: what was not in the store when the process died does not come back to a
  cell without its disk.

The lemmas on the checks (`RestartRead`, `AlarmRead`, `OutageRead`, `FinalRead`) say that
what a check accepts is exactly what keeps celld's promises, except for the alarm's, which
accepts no more than that. Both directions are needed: one for `NoFalseAlarm`, one for
`LossIsCaught`. `CorruptedTears` is why the outage's check suffices: one item
more or less tears a transaction.

**`Telemetry_proofs`** assumes what `Telemetry` assumes of its constants; a batch is
delivered more than once if need be (`MAX_ATTEMPTS` is 5), without which a correct celld
would have no retry to show. It proves type correctness, `DefectsAreCaught` and
`FalseAlarmsAreEarly`, for any number of deliveries and of lost answers. A verdict is
about what had been received when the collector was read, so `IInv` follows the records:

- `Whereabouts`: every record, held or received, is due to a request that was made;
- `NothingIsLost`: until the window opens, what was recorded is held by its node or was
  received; `OnceEach`: without a fault, in one place and counted once;
- `Evidence`: what was received left a delivery and a resource behind;
- `Retried`, `NoRetries`, `Trails`: how the statuses a batch has met count its attempts.

Two sides meet there. `Known` classifies what can have been received, so that a chain
that is found rules each defect out (`ChainIsSound`, `IndependenceIsSound`); and
`AllIsThere` says that everything was, once, if nothing is left, so that the same
checks hold (`ChainIsFound`, `TracingIsComplete`, `ProbeIsComplete`, `IsolationIsComplete`).

TLC checked each inductive invariant before it was proved, on the bounds of the run of its
component (`ObjectInv` with a stall of half a second).

Model-checked only:

- all liveness, which is outside the prover's reach;
- `Fleet.NoFalseAlarm` and `DamageIsSeen`: what is sound for one scenario depends on all
  that scenario remembers, so that their invariant is one for each of the twenty;
- `ResidentObject.NoFalseAlarm` and `DefectsAreCaught`: they are about time in half
  seconds, and their invariant has to bound every wait of sixteen programs;
- that `telemetry`'s cases end, and that the documents' statement of section 7 fails.

No module that is proved about has a recursive definition: `EvaluateGroup` of the
executor's clients and `TryAll` of `Recovery` are written as the functions and
sequences that the code's loops run through. The type invariant of `FleetNodes` is for
the reader and was checked with the same instance; its config leaves it out, as
those of `Recovery` and `Telemetry` do with their proved ones.

## 7. Disagreements with the documents

- `docs/QUALIFICATION.md` 13 says the complete KV scan must match the SQL history
  exactly, and that an unanswered transaction may be wholly present. `verify`
  reads them in two requests; a write that is executed between them is wholly
  present and fails the scan. Run `history_mirror`.
- The comment at `QualificationContext.ts` 224 says `restartAll` is for fleets
  that may already have lost nodes. A node that exits by itself between its
  inspection and the kill's own fails the scenario instead. Run `fleet_restart`.
- `docs/CLI-TELEMETRY.md` 185–186 says every payload must name the configured
  service. The collector keeps the resource of the last accepted batch of each
  signal, and the case looks at no other. Run `telemetry_names`.

## 8. What is not modelled

- Fleet operations (`QualificationOperations.ts`) and their oracles
  (`OperationsOracles.ts`): rolling upgrade, balancing and namespaces; planned, section 9.
- The follower-recovery stage of `Multinode.ts` (276–351); hibernation, which evicts
  one object through an internal endpoint; the undisturbed loads, slow-consumer and
  queue-load.
- The artifacts a case writes, and the shape of Docker's and the operator's JSON.
- What each API case sends and compares. `Oracle` takes a case as three effects
  that end in any way.
- Security cases: single requests, pure checks.
- Decoders (protobuf, Parquet, JSONC), provenance, option parsing, the evidence
  site: sequential and stateless.
- Formatting, logging, and the text of messages; the content of JUnit files
  beyond what `Report` says of each case.
- `Date.now()` going backwards: the clock of `History` does not.
- The proxy's `pathContains`, which the modelled scenario does not use; buffers
  of the collector at their limit of 8192 entries.

## 9. Plan

Done, in the order of importance: the executor with its contract and proofs, the
history oracle, the case oracle with its proofs, the fleet with its scenarios, the
runners, recovery, the proxy with its proofs, telemetry, in-place deployment and
storage durability, queues, workflows, streams and sockets.

Next:

1. Fleet operations and their oracles: a rolling upgrade under traffic, balancing,
   and operations on namespaces, as programs of a module over `FleetNodes`.
2. The follower-recovery stage of `Multinode.ts`, on `log` of `FleetNodes`.
3. An abstract specification that `History`, `Fleet` and `Recovery` refine: *an
   oracle's verdict is monotone in what the store promised*.

Proofs: done for the executor, the runners, the oracle, the ledger, the proxy, recovery,
telemetry, and for what the fleet's scenarios and the deployment and durability cases leave
behind. Next are `Fleet.NoFalseAlarm` and `DamageIsSeen`, scenario by scenario, with labels
that say what the driver has read and what it has acknowledged.
