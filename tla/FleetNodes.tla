----------------------------- MODULE FleetNodes -----------------------------
(***************************************************************************)
(* A fleet of celld nodes, a scenario's place in its program, and the      *)
(* requests between them: what the driver of Fleet acts on and what moves  *)
(* between its steps.                                                      *)
(*                                                                         *)
(* celld itself is external, modelled from what the scenarios rely on: a   *)
(* node renews a lease while it runs and reaches the store, and exits with *)
(* status 3 when it cannot; the cell has one owner, at an epoch that only  *)
(* grows, and another node takes over when the owner's lease has lapsed.   *)
(* Time is not measured: leaseLapse waits for the leases that are not      *)
(* renewed to lapse, and a poll goes on until its node has answered.       *)
(***************************************************************************)
EXTENDS FleetScenarios

CONSTANTS
  Selection,    \* the names of the scenarios to run
  Concurrency,  \* writes under way at once (4 in the code)
  Faulty        \* what the fleet does wrong: some of Wrongs, or nothing

Wrongs == {"stale", "lossy", "oldCode", "forgetful", "skips", "clean"}
ASSUME NodesAssumption ==
  /\ Selection \subseteq Scenarios /\ Concurrency \in Nat \ {0}
  /\ Faulty \subseteq Wrongs

VARIABLES
  container,    \* of each node: "up", "paused", "stopped", "killed" (137), "fenced" (3)
  online,       \* the nodes attached to the store's network
  storeFault,   \* the fault proxy disturbs the store
  host,         \* what else Docker holds of the nodes, and the deployed code
  lease,        \* the nodes whose lease in the store has not lapsed
  own,          \* the cell's ownership record
  active,       \* of each node: the epoch its process has activated, or 0
  rows,         \* the cell's history
  log,          \* where its last rows are kept
  jobs,         \* the queue, the workflow and the sockets of FleetApplications
  betrayed,     \* ghost: the fleet has broken a promise
  writes,       \* the driver's writes, in the order they were sent
  queue,        \* what is left to send, and how
  script, pc,   \* the scenario and its next step
  phase,        \* "run", "closing" its scope, "closed"
  outcome,      \* "none", "passed", "failed", "interrupted"
  memory,       \* what the driver remembers
  pausedSet,    \* paused, FleetControls.ts line 48
  finalizers,   \* of the scenario's scope
  died          \* a finalizer failed

docker == <<container, online, storeFault, host>>
cell == <<lease, own, active, rows, log, jobs, betrayed>>
requests == <<writes, queue>>
control == <<pc, phase, outcome>>
notes == <<script, memory, pausedSet, finalizers, died>>
vars == <<docker, cell, requests, control, notes>>

Unknown == [node |-> Order[1], epoch |-> 0]

\* prior, after: ownership records; lastAck: the activation of the last
\* acknowledgment; old: the activation before the takeover; takeover: the
\* writes acknowledged by then; observed: the rows a verification has read;
\* felt: a pressure request was answered; answered: so was the single read.
NoMemory == [prior |-> Unknown, after |-> Unknown, lastAck |-> 0, old |-> 0,
             takeover |-> {}, observed |-> {}, felt |-> FALSE, answered |-> FALSE]

\* limit: memory limits; peers: the nodes on the peers' network; published: those
\* whose public port Docker forwards; deployed, code: what a start loads, has loaded.
NoFaults == [limit |-> [n \in Nodes |-> "full"], peers |-> Nodes, published |-> Nodes,
             deployed |-> 1, code |-> [n \in Nodes |-> 1]]

\* The last tail rows are on the disks of copies alone; the others are in the store.
\* lost: the epochs declared lost; refused: the log is given up as incomplete.
NoLog == [tail |-> 0, copies |-> {}, ensemble |-> {}, active |-> FALSE,
          lost |-> {}, refused |-> FALSE]

\* queue: of each message, "ready", "delayed", "done" or "lost"; count: deliveries the
\* consumer has counted; again: the message delivered once too often, or 0; clock: of
\* the driver's 15 seconds; down: every node was dead in time; late: delivered since;
\* first, last: counts of the workflow's steps; expected: what a stream has to show;
\* got: what the one in flight has shown; by: the activation of stream and sockets.
NoJobs == [queue |-> <<>>, count |-> <<>>, retrying |-> FALSE, again |-> 0, clock |-> "none",
           down |-> FALSE, late |-> {}, flow |-> "none", event |-> FALSE, first |-> 0,
           last |-> 0, expected |-> <<>>, got |-> 0, by |-> 0, sockets |-> {}, clean |-> FALSE]

Write == [entry : Nodes, strict : BOOLEAN, held : BOOLEAN,
          client : {"waiting", "acked", "uncertain"},
          server : {"flying", "committed", "cut"},
          seq : Nat, host : Nodes, by : Nat]

Owners == [node : Nodes, epoch : Nat]
Program == Scenario(script)

TypeOK ==
  /\ container \in [Nodes -> {"up", "paused", "stopped", "killed", "fenced"}]
  /\ online \subseteq Nodes /\ lease \subseteq Nodes /\ storeFault \in BOOLEAN
  /\ host \in [limit : [Nodes -> {"full", "low", "tiny"}], peers : SUBSET Nodes,
               published : SUBSET Nodes, deployed : 1..2, code : [Nodes -> 1..2]]
  /\ own \in Owners /\ active \in [Nodes -> Nat] /\ betrayed \in BOOLEAN
  /\ writes \in Seq(Write) /\ rows \in Seq(DOMAIN writes)
  /\ log.tail \in 0..Len(rows) /\ log.copies \subseteq Nodes
  /\ log.ensemble \subseteq Nodes /\ log.lost \subseteq Nat
  /\ script \in Selection /\ pc \in 1..(Len(Program) + 1)
  /\ phase \in {"run", "closing", "closed"}
  /\ outcome \in {"none", "passed", "failed", "interrupted"}
  /\ (phase = "run" <=> outcome = "none")
  /\ memory.prior \in Owners /\ memory.after \in Owners
  /\ memory.takeover \subseteq DOMAIN writes
  /\ memory.observed \subseteq Nat \X DOMAIN writes
  /\ pausedSet \subseteq Nodes /\ died \in BOOLEAN
  /\ finalizers \subseteq [what : {"limit", "peers", "store"}, at : Nodes]

NothingToSend == [entries |-> <<>>, strict |-> FALSE, held |-> FALSE]

\* Local.ts has started every node; the first request activates the cell.
Init ==
  /\ container = [n \in Nodes |-> "up"] /\ online = Nodes /\ storeFault = FALSE
  /\ host = NoFaults
  /\ lease = Nodes /\ own = Unknown /\ active = [n \in Nodes |-> 0] /\ rows = <<>>
  /\ log = NoLog /\ jobs = NoJobs /\ betrayed = FALSE
  /\ writes = <<>> /\ queue = NothingToSend
  /\ script \in Selection /\ pc = 1 /\ phase = "run" /\ outcome = "none"
  /\ memory = NoMemory /\ pausedSet = {} /\ finalizers = {} /\ died = FALSE

-----------------------------------------------------------------------------
(* The driver's next step.                                                 *)

Running == phase = "run" /\ pc <= Len(Program)
Step == Program[pc]
At(op) == Running /\ Step.op = op

Others == SelectSeq(Order, LAMBDA n : n # memory.prior.node)
Successor == Head(Others)
Node(name) == CASE name = "prior" -> memory.prior.node
                [] name = "successor" -> Successor
                [] name = "remaining" -> Last(Others)
                [] OTHER -> name
Subject == Node(Step.at)

Advance == pc' = pc + 1 /\ UNCHANGED <<phase, outcome>>
Fail == phase' = "closing" /\ outcome' = "failed" /\ UNCHANGED pc
Expect(condition) == IF condition THEN Advance ELSE Fail

-----------------------------------------------------------------------------
(* The fleet, while the driver looks on.                                   *)

Holds(n)   == container[n] = "up" /\ n \in lease
Healthy(n) == Holds(n) /\ n \in online
Renews(n)  == container[n] = "up" /\ n \in online /\ ~storeFault
Up == {n \in Nodes : container[n] = "up"}

\* The followers acknowledge for an owner that the store cannot be asked.
Backed == log.ensemble # {} /\ log.ensemble \subseteq Up

\* The owner of record is a process that has activated the cell.
Serving ==
  /\ own.epoch > 0 /\ active[own.node] = own.epoch
  /\ Holds(own.node) /\ (own.node \in online \/ Backed)

\* Another owner can have every acknowledged row, or no node has them any more.
Recoverable == log.tail = 0 \/ log.copies \cap Up # {}
Lost == log.tail > 0 /\ log.copies = {}

\* n may activate the cell: n is its owner, restarted, or the owner's lease has
\* lapsed, or there has been no owner yet.
MayActivate(n) ==
  /\ Healthy(n) /\ ~Serving /\ ~log.refused /\ (Recoverable \/ Lost)
  /\ (own.epoch = 0 \/ own.node = n \/ own.node \notin lease)

\* A request finds its entry node's public port, and from there the owner.
Open(n) == /\ n \in host.published /\ Holds(n)
           /\ (n \in online \/ n = own.node)
Joined(n) == n = own.node \/ {n, own.node} \subseteq host.peers

\* A request that reaches n is answered sooner or later.
Reachable(n) ==
  /\ Open(n)
  /\ \/ Serving /\ Joined(n)
     \/ MayActivate(n)
     \/ MayActivate(own.node) /\ Joined(n)

\* It breaks one promise at most.
MayErr(how) == how \in Faulty /\ ~betrayed

LeaseLapses(n) ==
  /\ phase = "run" /\ n \in lease /\ ~Renews(n)
  /\ lease' = lease \ {n}
  /\ UNCHANGED <<docker, own, active, rows, log, jobs, betrayed, requests, control, notes>>

\* What becomes of the requests a process held when it ends.
Cut(n) ==
  [w \in DOMAIN writes |->
     IF \/ writes[w].server = "flying" /\ writes[w].entry = n
        \/ writes[w].server = "committed" /\ n \in {writes[w].entry, writes[w].host}
     THEN [writes[w] EXCEPT !.server = "cut"] ELSE writes[w]]

Ends(n, how) ==
  /\ container' = [container EXCEPT ![n] = how]
  /\ active' = [active EXCEPT ![n] = 0]
  /\ writes' = Cut(n)
  /\ UNCHANGED <<online, storeFault, host, lease, own, rows, log, jobs, betrayed>>

\* A node that cannot renew its lease, or finds it lapsed, exits by itself.
Fence(n) ==
  /\ phase = "run" /\ container[n] = "up" /\ ~(n \in lease /\ Renews(n))
  /\ Ends(n, "fenced")
  /\ UNCHANGED <<queue, control, notes>>

\* The kernel ends a process that outgrows its container's limit.
OutOfMemory(n) ==
  /\ phase = "run" /\ container[n] = "up" /\ host.limit[n] # "full"
  /\ Ends(n, "killed")
  /\ UNCHANGED <<queue, control, notes>>

CellReads ==
  {"verify", "exact", "readable", "survivors", "attempt", "noEvents", "firstOnce", "bothOnce",
   "delivered", "drained", "firstSeen", "flowWaits", "flowComplete", "expect", "follow",
   "rest", "hold", "reconnect"}

\* The nodes through which a request is waiting for the cell.
Entries ==
  {writes[w].entry : w \in {v \in DOMAIN writes : writes[v].server = "flying"}}
  \cup (IF Running /\ Step.op \in CellReads THEN {Subject} ELSE {})
Asked(n) ==
  /\ phase = "run" /\ MayActivate(n)
  /\ \E entry \in Entries : Open(entry) /\ (n = entry \/ (n = own.node /\ Joined(entry)))

\* What a new owner finds: its first rows, the healthy nodes as its followers, and
\* the epochs it declares lost.  All it found is in the store.
Kept == IF Lost THEN Len(rows) - log.tail ELSE Len(rows)
Found(n, count, declared) ==
  /\ rows' = SubSeq(rows, 1, count)
  /\ log' = IF script \notin FleetDurable THEN log
            ELSE [NoLog EXCEPT !.ensemble = {m \in Nodes \ {n} : Healthy(m)},
                               !.lost = log.lost \cup declared]

\* The next epoch.  Rows that nobody has any more are declared lost.
Activate(n) ==
  /\ Asked(n)
  /\ own' = [node |-> n, epoch |-> own.epoch + 1]
  /\ active' = [active EXCEPT ![n] = own.epoch + 1]
  /\ \/ Found(n, Kept, IF Lost THEN {own.epoch} ELSE {}) /\ UNCHANGED betrayed
     \/ /\ MayErr("lossy") /\ (Lost \/ rows # <<>>)
        /\ Found(n, IF Lost THEN Kept ELSE Kept - 1, {}) /\ betrayed' = TRUE
  /\ UNCHANGED <<docker, lease, jobs, requests, control, notes>>

\* No complete true witness: the cell stays down, and the log says why.
Refuse(n) ==
  /\ Asked(n) /\ Lost
  /\ log' = [log EXCEPT !.refused = TRUE]
  /\ UNCHANGED <<docker, lease, own, active, rows, jobs, betrayed, requests, control, notes>>

\* The owner goes on with the followers it still has.
Reconfigure ==
  /\ phase = "run" /\ Serving /\ own.node \in online /\ ~(log.ensemble \subseteq Up)
  /\ log' = [log EXCEPT !.ensemble = @ \cap Up, !.active = FALSE]
  /\ UNCHANGED <<docker, lease, own, active, rows, jobs, betrayed, requests, control, notes>>

Answers(w, seq, node) ==
  writes' = [writes EXCEPT ![w] = [@ EXCEPT !.server = "committed", !.seq = seq,
                                            !.host = node, !.by = active[node]]]

\* A row is acknowledged once it is in the store, or on every follower's disk.
InStore == own.node \in online /\ log' = [log EXCEPT !.tail = 0, !.active = Backed]
OnDisks ==
  /\ script \in FleetDurable /\ Backed
  /\ LET disks == {own.node} \cup log.ensemble
     IN  log' = [log EXCEPT !.tail = @ + 1, !.active = TRUE,
                            !.copies = IF log.tail = 0 THEN disks ELSE @ \cap disks]

Serve(w) ==
  /\ phase = "run" /\ writes[w].server = "flying"
  /\ Serving /\ Open(writes[w].entry) /\ Joined(writes[w].entry)
  /\ rows' = Append(rows, w)
  /\ Answers(w, Len(rows) + 1, own.node)
  /\ InStore \/ OnDisks
  /\ UNCHANGED <<docker, lease, own, active, jobs, betrayed, queue, control, notes>>

\* Split brain: a process whose activation is over acknowledges by itself.
ServeStale(w) ==
  /\ phase = "run" /\ MayErr("stale") /\ writes[w].server = "flying"
  /\ LET n == writes[w].entry
     IN  /\ container[n] = "up" /\ active[n] \notin {0, own.epoch}
         /\ Answers(w, Len(rows) + 1, n)
  /\ betrayed' = TRUE
  /\ UNCHANGED <<docker, lease, own, active, rows, log, jobs, queue, control, notes>>

-----------------------------------------------------------------------------
(* The client: up to Concurrency writes under way.                         *)

Waiting == {w \in DOMAIN writes : writes[w].client = "waiting"}

\* A connection to a node that does not run, or has no public port, is refused.
SendNext ==
  /\ phase = "run" /\ queue.entries # <<>> /\ Cardinality(Waiting) < Concurrency
  /\ LET n == Node(Head(queue.entries))
     IN  writes' = Append(writes,
           [entry |-> n, strict |-> queue.strict, held |-> queue.held, client |-> "waiting",
            server |-> IF container[n] \in {"up", "paused"} /\ n \in host.published
                       THEN "flying" ELSE "cut",
            seq |-> 0, host |-> n, by |-> 0])
  /\ queue' = [queue EXCEPT !.entries = Tail(@)]
  /\ UNCHANGED <<docker, cell, control, notes>>

Receive(w) ==
  /\ phase = "run" /\ w \in Waiting /\ writes[w].server = "committed"
  /\ writes' = [writes EXCEPT ![w].client = "acked"]
  /\ memory' = [memory EXCEPT !.lastAck = writes[w].by]
  /\ UNCHANGED <<docker, cell, queue, control, script, pausedSet, finalizers, died>>

\* The response was lost, or there is none in 10 seconds.
Unanswered(w) ==
  \/ writes[w].server = "cut"
  \/ writes[w].server = "flying" /\ (~Reachable(writes[w].entry) \/ storeFault)

GiveUp(w) ==
  /\ phase = "run" /\ w \in Waiting /\ Unanswered(w)
  /\ writes' = [writes EXCEPT ![w].client = "uncertain"]
  /\ IF writes[w].strict THEN Fail ELSE UNCHANGED control
  /\ UNCHANGED <<docker, cell, queue, notes>>
=============================================================================
