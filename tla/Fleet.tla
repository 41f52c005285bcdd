------------------------------- MODULE Fleet -------------------------------
(***************************************************************************)
(* A fault scenario drives a fleet: the fleet controls                     *)
(* (src/FleetControls.ts), the context of a scenario                       *)
(* (src/QualificationContext.ts) and the programs of FleetScenarios, with  *)
(* the nodes of FleetNodes and the work of FleetApplications moving        *)
(* between any two steps of the driver.                                    *)
(***************************************************************************)
EXTENDS FleetApplications

CONSTANT Interrupts  \* the case's timer or a signal may stop the scenario
ASSUME FleetAssumption == Interrupts \in BOOLEAN

-----------------------------------------------------------------------------
(* The driver: inspections, FleetControls.ts lines 49-110.                 *)

Quietly == UNCHANGED <<docker, cell, requests, notes>>

\* Docker says of a frozen container that it runs.
State(n, expected) ==
  CASE expected = "running"   -> container[n] \in {"up", "paused"}
    [] expected = "frozen"    -> container[n] = "paused"
    [] expected = "thawed"    -> container[n] # "paused"
    [] expected = "dead"      -> container[n] = "killed"
    [] expected = "stopped"   -> container[n] \notin {"up", "paused"}
    [] expected = "exited3"   -> container[n] = "fenced"
    [] expected = "attached"  -> n \in online
    [] expected = "detached"  -> n \notin online
    [] expected = "paired"    -> n \in host.peers
    [] expected = "unpaired"  -> n \notin host.peers /\ n \in online
    [] expected = "limited"   -> host.limit[n] # "full"
    [] expected = "unlimited" -> host.limit[n] = "full"
    [] expected = "revised"   -> host.code[n] = host.deployed

Inspections == {"running", "frozen", "thawed", "dead", "stopped", "exited3", "attached",
                "detached", "paired", "unpaired", "limited", "unlimited", "revised"}

Inspect ==
  /\ Running /\ Step.op \in Inspections
  /\ Expect(State(Subject, Step.op)) /\ Quietly

\* restartAll asks first (context line 229).
SkipUnlessRunning ==
  /\ At("unless")
  /\ pc' = IF State(Subject, "running") THEN pc + 1 ELSE pc + 1 + Step.skip
  /\ UNCHANGED <<phase, outcome>> /\ Quietly

AwaitExit == At("await") /\ State(Subject, "stopped") /\ Advance /\ Quietly

\* Health is polled until the node answers.
Ready == At("ready") /\ Healthy(Subject) /\ Advance /\ Quietly

\* Resilience.ts lines 36-40 and 77-106: the owner's lease record is polled.
checkEnsemble ==
  /\ own.node = Subject
  /\ log.ensemble = {Node(peer) : peer \in Step.peers}
  /\ Step.active => log.active
AwaitEnsemble == At("ensemble") /\ checkEnsemble /\ Advance /\ Quietly

-----------------------------------------------------------------------------
(* Docker commands.                                                        *)

Reserve ==
  /\ Running /\ Step.op \in {"reserve", "forget"}
  /\ pausedSet' = IF Step.op = "reserve" THEN pausedSet \cup {Subject}
                                         ELSE pausedSet \ {Subject}
  /\ Advance
  /\ UNCHANGED <<docker, cell, requests, script, memory, finalizers, died>>

\* Freezing needs a running container, thawing a frozen one.
FreezeOrThaw ==
  /\ Running /\ Step.op \in {"pause", "unpause"}
  /\ LET from == IF Step.op = "pause" THEN "up" ELSE "paused"
         to   == IF Step.op = "pause" THEN "paused" ELSE "up"
     IN  /\ Expect(container[Subject] = from)
         /\ container' = IF container[Subject] # from THEN container
                         ELSE [container EXCEPT ![Subject] = to]
  /\ UNCHANGED <<online, storeFault, host, cell, requests, notes>>

\* A container that has exited is left as it is: its status stays.
Halt ==
  /\ Running /\ Step.op \in {"kill", "stop"} /\ Advance
  /\ IF State(Subject, "running")
     THEN Ends(Subject, IF Step.op = "kill" THEN "killed" ELSE "stopped")
     ELSE UNCHANGED <<docker, cell, writes>>
  /\ UNCHANGED <<queue, notes>>

\* A fresh process of a node: a lease, no activation, the deployed code.
DockerStart ==
  /\ At("start") /\ Advance
  /\ IF State(Subject, "running") THEN UNCHANGED <<container, host, lease, betrayed>>
     ELSE /\ container' = [container EXCEPT ![Subject] = "up"]
          /\ lease' = lease \cup ({Subject} \cap online)
          /\ \E old \in IF MayErr("oldCode") THEN BOOLEAN ELSE {FALSE} :
               /\ host' = [host EXCEPT !.published = @ \cup {Subject},
                                       !.code[Subject] = IF old THEN @ ELSE host.deployed]
               /\ betrayed' = (betrayed \/ host'.code[Subject] # host.deployed)
  /\ UNCHANGED <<online, storeFault, own, active, rows, log, jobs, requests, notes>>

\* The container is replaced: every network, no process, an empty disk.
EmptyDisk ==
  /\ At("discard") /\ Advance
  /\ container' = [container EXCEPT ![Subject] = "stopped"]
  /\ online' = online \cup {Subject}
  /\ host' = [host EXCEPT !.peers = @ \cup {Subject}]
  /\ log' = [log EXCEPT !.copies = @ \ {Subject}]
  /\ UNCHANGED <<storeFault, lease, own, active, rows, jobs, betrayed, requests, notes>>

Attach ==
  /\ Running /\ Step.op \in {"connect", "disconnect"} /\ Advance
  /\ online' = IF Step.op = "connect" THEN online \cup {Subject} ELSE online \ {Subject}
  /\ UNCHANGED <<container, storeFault, host, cell, requests, notes>>

\* Off the peers' network a node has no public port either (QualificationFaults.ts
\* line 130).
Adjust ==
  /\ Running /\ Step.op \in {"unpair", "limit", "deploy"} /\ Advance
  /\ host' = CASE Step.op = "unpair" -> [host EXCEPT !.peers = @ \ {Subject},
                                                    !.published = @ \ {Subject}]
               [] Step.op = "limit"  -> [host EXCEPT !.limit[Subject] = Step.size]
               [] Step.op = "deploy" -> [host EXCEPT !.deployed = 2]
  /\ UNCHANGED <<container, online, storeFault, cell, requests, notes>>

SetFault ==
  /\ Running /\ Step.op \in {"disturb", "restore"} /\ Advance
  /\ storeFault' = (Step.op = "disturb")
  /\ UNCHANGED <<container, online, host, cell, requests, notes>>

\* Eleven seconds, with leases of ten: what is not renewed has lapsed.
Lapse == /\ At("lapse") /\ \A n \in lease : container[n] = "up" /\ n \in online
         /\ Advance /\ Quietly

-----------------------------------------------------------------------------
(* Finalizers.                                                             *)

\* Installed before the mutation it takes back, or after it.
Install ==
  /\ At("guard") /\ Advance
  /\ finalizers' = finalizers \cup {[what |-> Step.what, at |-> Subject]}
  /\ UNCHANGED <<docker, cell, requests, script, memory, pausedSet, died>>

Finalized(what) == {f.at : f \in {g \in finalizers : g.what = what}}

\* Limits are set back, nodes attached to their peers again, the store undisturbed.
TakenBack(stuck) ==
  /\ host' = [host EXCEPT !.limit = [n \in Nodes |-> IF n \in Finalized("limit") \ stuck
                                                     THEN "full" ELSE @[n]],
                          !.peers = @ \cup (Finalized("peers") \ stuck)]
  /\ storeFault' = (storeFault /\ Finalized("store") = {})

LeaveScope ==
  /\ At("leave") /\ Advance /\ TakenBack({}) /\ finalizers' = {}
  /\ UNCHANGED <<container, online, cell, requests, script, memory, pausedSet, died>>

-----------------------------------------------------------------------------
(* Writes and reads.                                                       *)

Submit ==
  /\ At("send") /\ Advance
  /\ queue' = [entries |-> Step.entries, strict |-> Step.strict, held |-> Step.held]
  /\ UNCHANGED <<docker, cell, writes, notes>>

JoinWrites == /\ At("join") /\ queue.entries = <<>> /\ Waiting = {}
              /\ Advance /\ Quietly

\* The owner's log is polled for a write in its hold.
Entered == /\ At("entered")
           /\ \E w \in DOMAIN writes : writes[w].held /\ writes[w].server = "committed"
           /\ Advance /\ Quietly

\* /pressure is answered, or the process does not survive it; a tiny limit it cannot.
Squeezed ==
  /\ At("pressure") /\ Advance
  /\ \/ /\ container[Subject] = "up" /\ host.limit[Subject] # "tiny"
        /\ memory' = [memory EXCEPT !.felt = TRUE] /\ UNCHANGED <<docker, cell, writes>>
     \/ /\ container[Subject] = "up" /\ Ends(Subject, "killed") /\ UNCHANGED memory
     \/ /\ container[Subject] # "up" /\ UNCHANGED <<docker, cell, writes, memory>>
  /\ UNCHANGED <<queue, script, pausedSet, finalizers, died>>

\* The ownership record, or what of the ledger a later step is checked against.
Remember ==
  /\ Running /\ Step.op \in {"owner", "oldActivation", "takeover"} /\ Advance
  /\ memory' = CASE Step.op = "owner" /\ Step.into = "prior" -> [memory EXCEPT !.prior = own]
                 [] Step.op = "owner" /\ Step.into = "after" -> [memory EXCEPT !.after = own]
                 [] Step.op = "oldActivation" -> [memory EXCEPT !.old = memory.lastAck]
                 [] Step.op = "takeover" ->
                      [memory EXCEPT !.takeover = {w \in DOMAIN writes : writes[w].client = "acked"}]
  /\ UNCHANGED <<docker, cell, requests, script, pausedSet, finalizers, died>>

\* History.ts lines 158-171.
checkFencedReceipts ==
  \A w \in DOMAIN writes \ memory.takeover :
    writes[w].client = "acked" => writes[w].by # memory.old

Acked == {w \in DOMAIN writes : writes[w].client = "acked"}
Held(w) == writes[w].seq \in DOMAIN rows /\ rows[writes[w].seq] = w

\* What checkHistory and the KV scan ask of the rows (module History).
HistoryHolds ==
  /\ \A w \in Acked : Held(w)
  /\ \A seen \in memory.observed : seen[1] \in DOMAIN rows /\ rows[seen[1]] = seen[2]

\* checkOutageState with an outcome for each acknowledged write only.
StateIsExact == {rows[i] : i \in DOMAIN rows} = Acked

\* The same with uncertain writes, which may be there.
StateIsConsistent ==
  /\ {rows[i] : i \in DOMAIN rows} \subseteq DOMAIN writes
  /\ Acked \subseteq {rows[i] : i \in DOMAIN rows}

\* Resilience.ts lines 46-68: what the followers lost has to be declared, for the
\* epoch at which they were recruited.
LossDeclared == memory.prior.epoch \in log.lost

\* Mutant: any subset of the acknowledged writes is taken for a declared loss.
ReplicaLossUndeclared == {rows[i] : i \in DOMAIN rows} \subseteq Acked
checkReplicaLoss ==
  StateIsExact \/ ({rows[i] : i \in DOMAIN rows} \subseteq Acked /\ LossDeclared)

\* Traffic lines 30-33; Multinode lines 44, 45-51 and 258-262; Resilience lines
\* 193-196 and 276-300; capacity lines 111-114.
Compare ==
  /\ Running
  /\ Step.op \in {"advanced", "handoff", "receipts", "refused", "interrupted", "judge", "felt"}
  /\ Expect(CASE Step.op = "advanced" -> /\ memory.after.node # memory.prior.node
                                         /\ memory.after.epoch > memory.prior.epoch
              [] Step.op = "handoff"  -> memory.after.node = Successor
              [] Step.op = "receipts" -> checkFencedReceipts
              [] Step.op = "refused"  -> writes[Len(writes)].client # "acked"
              [] Step.op = "interrupted" ->
                   \E w \in DOMAIN writes : writes[w].held /\ w \notin Acked
              [] Step.op = "judge" -> IF memory.answered THEN checkReplicaLoss
                                      ELSE LossDeclared \/ log.refused
              [] Step.op = "felt" ->
                   memory.felt \/ \E n \in Nodes : container[n] = "killed")
  /\ Quietly

Read ==
  /\ Running /\ Step.op \in {"verify", "exact"}
  /\ IF ~Reachable(Subject) THEN Fail /\ UNCHANGED memory
     ELSE /\ Serving
          /\ Expect(IF Step.op = "verify" THEN HistoryHolds ELSE StateIsExact)
          /\ memory' = IF Step.op = "exact" THEN memory
                       ELSE [memory EXCEPT !.observed = {<<i, rows[i]>> : i \in DOMAIN rows}]
  /\ UNCHANGED <<docker, cell, requests, script, pausedSet, finalizers, died>>

\* Reads that are retried until the cell has been activated again.
ReadAgain == /\ At("readable") /\ Reachable(Subject) /\ Serving
             /\ Advance /\ Quietly

\* Resilience lines 198-206: from here on, an uncertain write that has survived is
\* held to be acknowledged.
ReadSurvivors ==
  /\ At("survivors") /\ Reachable(Subject) /\ Serving
  /\ Expect(StateIsConsistent)
  /\ writes' = [w \in DOMAIN writes |->
                  IF \E i \in DOMAIN rows : rows[i] = w
                  THEN [writes[w] EXCEPT !.client = "acked"] ELSE writes[w]]
  /\ UNCHANGED <<docker, cell, queue, notes>>

\* Lines 267-276: asked once, whatever comes of it.
Attempt ==
  /\ At("attempt") /\ Advance /\ (Reachable(Subject) => Serving)
  /\ memory' = [memory EXCEPT !.answered = Serving /\ Reachable(Subject)]
  /\ UNCHANGED <<docker, cell, requests, script, pausedSet, finalizers, died>>

Pass ==
  /\ phase = "run" /\ pc > Len(Program)
  /\ phase' = "closing" /\ outcome' = "passed"
  /\ UNCHANGED pc /\ Quietly

-----------------------------------------------------------------------------
(* The end of the scope.                                                   *)

\* What happens to the cell from here on is of no concern to anybody.
Interrupt ==
  /\ Interrupts /\ phase = "run"
  /\ phase' = "closing" /\ outcome' = "interrupted" /\ pc' = 1
  /\ own' = Unknown /\ active' = [n \in Nodes |-> 0] /\ rows' = <<>> /\ log' = NoLog /\ jobs' = NoJobs
  /\ betrayed' = FALSE /\ lease' = Nodes
  /\ writes' = <<>> /\ queue' = NothingToSend /\ memory' = NoMemory
  /\ UNCHANGED <<docker, script, pausedSet, finalizers, died>>

\* FleetControls lines 122-126, and the scope's own finalizers: every node is thawed
\* and set back, whatever became of the others; a command that fails for the node
\* stuck makes its finalizer fatal.
Close(stuck) ==
  /\ phase = "closing" /\ phase' = "closed"
  /\ LET thaws == {n \in pausedSet \ stuck : container[n] = "paused"}
     IN  /\ container' = [n \in Nodes |-> IF n \in thaws THEN "up" ELSE container[n]]
         /\ died' = \/ thaws # pausedSet
                    \/ stuck \cap (Finalized("limit") \cup Finalized("peers")) # {}
  /\ TakenBack(stuck)
  /\ UNCHANGED <<online, cell, requests, script, pc, outcome, memory, pausedSet, finalizers>>

DriverStep ==
  \/ Inspect \/ SkipUnlessRunning \/ AwaitExit \/ Ready \/ AwaitEnsemble \/ Reserve
  \/ FreezeOrThaw \/ Halt \/ DockerStart \/ EmptyDisk \/ Attach \/ Adjust \/ SetFault
  \/ Lapse \/ Install \/ LeaveScope \/ Submit \/ JoinWrites \/ Entered \/ Squeezed
  \/ Remember \/ Compare \/ Read \/ ReadAgain \/ ReadSurvivors \/ Attempt \/ Pass
  \/ ApplicationStep \/ Close({})

Next ==
  \/ DriverStep \/ Interrupt \/ SendNext \/ Reconfigure \/ Work \/ Forget
  \/ \E n \in Nodes : LeaseLapses(n) \/ Fence(n) \/ OutOfMemory(n) \/ Activate(n)
                      \/ Refuse(n) \/ Close({n})
  \/ \E w \in DOMAIN writes : Serve(w) \/ ServeStale(w) \/ Receive(w) \/ GiveUp(w)

Spec == Init /\ [][Next]_vars

\* The driver goes on, and so do leases, processes and requests.
FairSpec ==
  /\ Spec /\ WF_vars(DriverStep) /\ WF_vars(SendNext) /\ WF_vars(Reconfigure) /\ WF_vars(Work)
  /\ WF_vars(\E n \in Nodes : LeaseLapses(n))
  /\ WF_vars(\E n \in Nodes : Fence(n))
  /\ WF_vars(\E n \in Nodes : Activate(n))
  /\ WF_vars(\E w \in DOMAIN writes : Serve(w))
  /\ WF_vars(\E w \in DOMAIN writes : Receive(w) \/ GiveUp(w))

-----------------------------------------------------------------------------
(* Properties.                                                             *)

\* The driver looked, once, at a node that was just ending by itself: fencing, or
\* outgrowing its limit (capacity lines 127-129).
LookedEarly ==
  LET n == Subject
  IN  /\ Step.op \in Inspections
      /\ \/ container[n] = "fenced"
         \/ container[n] = "up" /\ n \notin lease
         \/ container[n] = "killed" /\ host.limit[n] # "full"

\* The driver was slower than the time it raced: the lease of an owner it had cut
\* off the store (Resilience.ts lines 239-240 and 257-258), the five seconds for
\* which the worker holds a response (lines 166-187), the fifteen of the queue's delay
\* (QualificationDependencies.ts lines 33-45) or the stream it wanted to cut off
\* (QualificationStreams.ts lines 313-319).
TooSlow ==
  \/ /\ script \in FleetDurable /\ Step.op = "join"
     /\ LET n == memory.prior.node
        IN  n \notin online /\ (n \notin lease \/ container[n] = "fenced")
  \/ Step.op \in {"interrupted", "cutOff"}
  \/ Step.op \in {"noEvents", "delivered", "notDue"} /\ jobs.clock = "past"

\* The queue delivered a message once more, which it may (docs/QUALIFICATION.md line
\* 27), before the driver had counted the first deliveries (lines 33-41).
DuplicatedEarly == Step.op = "delivered" /\ jobs.again # 0

\* No scenario accuses a fleet that keeps its promises, whatever was in flight
\* at each fault, but for a single look at a node that is just ending by itself
\* (traffic.paused-owner, line 50; restartAll, lines 228-230), a race against the
\* clock that the driver lost, and a duplicate where the redelivery case allows none.
NoFalseAlarm ==
  ~betrayed /\ outcome = "failed" /\ phase = "closing" => LookedEarly \/ TooSlow \/ DuplicatedEarly

\* The scenarios have the power they are run for: none passes when an acknowledged
\* write is gone, through a process that went on after its activation was over, a
\* takeover that dropped a row or the loss of every disk that held it, unless the
\* loss was declared or the cell refused to serve (History.ts lines 131-171,
\* Resilience.ts lines 46-68), or when a node still runs the old code.  None of the
\* application cases passes over a lost message, a step run twice, a record left out
\* or a clean close, and the queue cases only pass with messages that have outlived
\* every node (QualificationDependencies.ts lines 44-59).
DamageIsSeen ==
  outcome = "passed" =>
    /\ \/ \A w \in Acked : Held(w)
       \/ script = "ReplicaDiskLoss" /\ (LossDeclared \/ log.refused)
    /\ script = "RollingDeployment" => \A n \in Nodes : host.code[n] = host.deployed
    /\ script \in Applications => ~betrayed
    /\ Messages \ {jobs.again} \subseteq jobs.late

\* Leaving the scope, however it is left, thaws every frozen node, lifts every
\* memory limit and gives every node its peers back, or a finalizer reports that it
\* could not (FleetControls.ts lines 122-142, FleetFaults.ts lines 87-93 and 135-143).
NothingStaysBroken ==
  phase = "closed" /\ ~died =>
    \A n \in Nodes : container[n] # "paused" /\ host.limit[n] = "full" /\ n \in host.peers

\* No wait of a scenario is left to its time limit: whatever the fleet was doing
\* when the faults struck, each join of writes, poll and retried read is for
\* something that a live fleet does (FleetControls.ts lines 92-110, context
\* lines 211-245, Resilience.ts lines 77-106).
ScenarioEnds == <>(phase = "closed")

\* QualificationContext.ts line 224: restartAll is for fleets that may already
\* have lost nodes, and stops whatever survived.
SurvivesLostNodes ==
  script = "StorageFault" => outcome # "failed"
=============================================================================
