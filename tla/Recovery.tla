------------------------------ MODULE Recovery ------------------------------
(***************************************************************************)
(* The recovery cases: one celld process and its object store, stopped,    *)
(* killed, robbed of its disk or cut from the store by the lifecycle       *)
(* controls of src/Local.ts, and the checks of src/Recovery.ts and         *)
(* src/Outage.ts on what the cell holds afterwards.                        *)
(*                                                                         *)
(* A case is a program, a sequence of the driver's primitive steps; the    *)
(* process and the clock move between any two of them.  celld is external: *)
(* a request executes on the local disk, is committed to the store, and    *)
(* only then answered; a write that was not answered may be kept or lost   *)
(* as a whole when its cell is activated again.  "Faults" lets it break    *)
(* these promises.                                                         *)
(*                                                                         *)
(* What a cell stores is a set of items: a transaction adds one to the     *)
(* key-value store and one to the database.                                *)
(***************************************************************************)
EXTENDS Naturals, Sequences, FiniteSets

CONSTANTS
  Uncertain,  \* writes attempted while the store is down (3)
  Cases,      \* the cases to run
  Faults      \* what celld does wrong: "early", "dirty", "corrupt"

Baseline   == 1
Unanswered == [k \in 1..Uncertain |-> k + 1]
Last       == Uncertain + 2
Alarm      == Uncertain + 3
RolledBack == 0
Ids        == 0..Alarm

ItemsOf(i) == IF i = Alarm THEN {<<"alarm", i>>} ELSE {<<"kv", i>>, <<"sql", i>>}
Armed == <<"alarm", Alarm>>
Fired == <<"fired", Alarm>>
Items == UNION {ItemsOf(i) : i \in Ids}

-----------------------------------------------------------------------------
(* The lifecycle controls and the cases, as programs.                      *)

Write(i) == <<[op |-> "write", id |-> i]>>   \* must be acknowledged
Steps(ops) == [k \in DOMAIN ops |-> [op |-> ops[k], id |-> RolledBack]]

\* Local.ts lines 490-520.
Stop(crash) == Steps(IF crash THEN <<"mustRun", "kill", "exit137">>
                     ELSE <<"mustRun", "stop", "exit0">>)

\* Local.ts lines 521-541 and the readiness poll of the cases.
Start == Steps(<<"start", "mustRun", "ready">>)

\* Local.ts lines 374-405, 406-425, 426-453 and 454-489.
StopStorage    == Steps(<<"mustRun", "stopMinio", "minioDown">>)
RestoreStorage == Steps(<<"startMinio", "minioUp">>)
PrepareRestart == Steps(<<"survivor", "kill", "exit137">>)
DiscardDisk == Steps(<<"seeMinio", "owned", "remove", "create", "replaced",
                       "empty", "sameMinio">>)

\* Recovery.ts lines 178-262.
Seeded    == Write(Baseline) \o Steps(<<"before">>)
Recovers(crash) ==
  Seeded \o Stop(crash) \o Steps(<<"lapse">>) \o Start \o Steps(<<"recovers">>)
\* Mutant: the clock is not read once the process is known to be stopped.
ArmedUntimed == Seeded \o Write(Alarm) \o Stop(TRUE)
ArmedAndStopped == Seeded \o Write(Alarm) \o Stop(TRUE) \o Steps(<<"notDue">>)
OverdueAlarm == ArmedAndStopped \o Steps(<<"lapse">>) \o Start \o Steps(<<"poll">>)
DiskLoss ==
  ArmedAndStopped \o Steps(<<"lapse">>) \o DiscardDisk \o Start \o Steps(<<"poll">>)

\* Outage.ts lines 66-137.  A try may remain uncertain.  Mutant: celld is started before the store.
TryAll == [k \in 1..Uncertain |-> [op |-> "try", id |-> Unanswered[k]]]
StorageOutageHasty ==
  Seeded \o StopStorage \o TryAll \o Steps(<<"lapse">>)
  \o PrepareRestart \o Steps(<<"lapse">>) \o Start \o RestoreStorage
  \o Steps(<<"recovered">>) \o Write(Last)
  \o Stop(TRUE) \o Steps(<<"lapse">>) \o Start \o Steps(<<"final">>)
StorageOutage ==
  Seeded \o StopStorage \o TryAll \o Steps(<<"lapse">>)
  \o PrepareRestart \o Steps(<<"lapse">>) \o RestoreStorage \o Start
  \o Steps(<<"recovered">>) \o Write(Last)
  \o Stop(TRUE) \o Steps(<<"lapse">>) \o Start \o Steps(<<"final">>)

Programs ==
  [graceful |-> Recovers(FALSE), crash |-> Recovers(TRUE), facets |-> Recovers(FALSE),
   overdueAlarm |-> OverdueAlarm, diskLoss |-> DiskLoss, storageOutage |-> StorageOutage]
AlarmCases == {"overdueAlarm", "diskLoss"}

ASSUME RecoveryAssumption ==
  /\ Uncertain \in Nat /\ Cases \subseteq DOMAIN Programs
  /\ Faults \subseteq {"early", "dirty", "corrupt"}

-----------------------------------------------------------------------------
VARIABLES
  process,     \* "up", or how it ended: "exit0", "exit3", "exit137", "created"
  generation,  \* activations of the cell so far: the last one's token
  active,      \* the process has the cell activated
  flying,      \* requests that reached the process and have not executed
  disk,        \* what the cell holds on the local disk
  bucket,      \* what the object store holds
  store,       \* the object store: whether it runs, how often it was started
  containerId, \* the celld container's identity
  clock,       \* the alarm's deadline: "none", "ahead", "past"
  case, pc, verdict,  \* the case, its next step, "running" or its end
  outcomes,    \* of each write: "none", "sent", "acked", "uncertain"
  memory,      \* what the driver remembers
  betrayed,    \* ghost: celld has broken a promise
  unsaved,     \* ghost: acknowledged, and not in the store when the process died
  ends,        \* ghost: how the process ended, each time
  alarmRan,    \* ghost: the activation in which the alarm ran, or 0
  dueUp        \* ghost: the deadline passed while the process ran

celld  == <<process, generation, active, flying, disk, bucket, store, containerId>>
driver == <<case, pc, verdict, outcomes, memory>>
ghosts == <<betrayed, unsaved, ends, alarmRan, dueUp>>
vars   == <<celld, clock, driver, ghosts>>

NoMemory == [seeded |-> 0, recovered |-> {}, container |-> 0, minio |-> 0]
Program  == Programs[case]

TypeOK ==
  /\ process \in {"up", "exit0", "exit3", "exit137", "created"}
  /\ generation \in Nat /\ active \in BOOLEAN
  /\ flying \subseteq Ids
  /\ disk \subseteq Items \cup {Fired} /\ bucket \subseteq Items \cup {Fired}
  /\ store.up \in BOOLEAN /\ store.starts \in Nat /\ containerId \in Nat
  /\ clock \in {"none", "ahead", "past"}
  /\ case \in Cases /\ pc \in 1..(Len(Program) + 1)
  /\ verdict \in {"running", "pass", "failed"}
  /\ verdict = "pass" => pc > Len(Program)
  /\ outcomes \in [Ids -> {"none", "sent", "acked", "uncertain"}]
  /\ (active => process = "up") /\ (process # "up" => flying = {})

\* acquireLocal has returned and the cell's class answers /ready.
Init ==
  /\ process = "up" /\ generation = 0 /\ active = FALSE /\ flying = {}
  /\ disk = {} /\ bucket = {} /\ store = [up |-> TRUE, starts |-> 1]
  /\ containerId = 1 /\ clock = "none"
  /\ case \in Cases /\ pc = 1 /\ verdict = "running"
  /\ outcomes = [i \in Ids |-> "none"] /\ memory = NoMemory
  /\ betrayed = FALSE /\ unsaved = {} /\ ends = <<>> /\ alarmRan = 0 /\ dueUp = FALSE

Acked == {i \in Ids : outcomes[i] = "acked"}
Settled == {i \in Ids : outcomes[i] \in {"acked", "uncertain"}}

-----------------------------------------------------------------------------
(* The process.                                                            *)

\* What celld promises of the content a cell is activated with.
Keeps(content) ==
  /\ \A i \in Acked \ {Alarm} : ItemsOf(i) \subseteq content
  /\ Alarm \in Acked => Armed \in content \/ Fired \in content
  /\ \A i \in Ids : ItemsOf(i) \subseteq content \/ ItemsOf(i) \cap content = {}
  /\ \A i \in Ids : outcomes[i] = "none" => ItemsOf(i) \cap content = {}
  /\ memory.recovered \subseteq content

\* The store's content, and whole transactions that only the disk has.
Rebuilt == {bucket \cup UNION {ItemsOf(i) : i \in kept} :
              kept \in SUBSET {i \in Ids : ItemsOf(i) \subseteq disk \ bucket}}
Corrupted == {content \ {x} : content \in Rebuilt, x \in Items}
             \cup {content \cup {x} : content \in Rebuilt, x \in Items}

Activate ==
  /\ process = "up" /\ ~active /\ store.up
  /\ active' = TRUE /\ generation' = generation + 1
  /\ \E content \in Rebuilt \cup (IF "corrupt" \in Faults /\ generation > 0
                                  THEN Corrupted ELSE {}) :
       /\ disk' = content
       /\ betrayed' = (betrayed \/ ~Keeps(content))
  /\ UNCHANGED <<process, flying, bucket, store, containerId, clock, driver,
                 unsaved, ends, alarmRan, dueUp>>

Execute == \E i \in flying :
  /\ process = "up" /\ active
  /\ disk' = disk \cup ItemsOf(i) /\ flying' = flying \ {i}
  /\ clock' = IF i = Alarm THEN "ahead" ELSE clock
  /\ UNCHANGED <<process, generation, active, bucket, store, containerId, driver, ghosts>>

Commit ==
  /\ process = "up" /\ active /\ store.up /\ bucket # disk
  /\ bucket' = disk
  /\ UNCHANGED <<process, generation, active, flying, disk, store, containerId,
                 clock, driver, ghosts>>

RunAlarm ==
  /\ process = "up" /\ active /\ clock = "past" /\ Armed \in disk
  /\ disk' = (disk \ {Armed}) \cup {Fired} /\ alarmRan' = generation
  /\ UNCHANGED <<process, generation, active, flying, bucket, store, containerId,
                 clock, driver, betrayed, unsaved, ends, dueUp>>

DeadlinePasses ==
  /\ clock = "ahead" /\ clock' = "past" /\ dueUp' = (process = "up")
  /\ UNCHANGED <<celld, driver, betrayed, unsaved, ends, alarmRan>>

\* Without the store the node's lease is not renewed, and it exits by itself.
Ends(how) ==
  /\ process' = how /\ active' = FALSE /\ flying' = {}
  /\ ends' = Append(ends, how)
  /\ unsaved' = unsaved \cup
       {i \in Acked \ {Alarm} : ~(ItemsOf(i) \subseteq bucket')}

Fence ==
  /\ process = "up" /\ ~store.up /\ UNCHANGED bucket /\ Ends("exit3")
  /\ UNCHANGED <<generation, disk, store, containerId, clock, driver,
                 betrayed, alarmRan, dueUp>>

-----------------------------------------------------------------------------
(* The driver.                                                             *)

Step == Program[pc]
At(op) == verdict = "running" /\ pc <= Len(Program) /\ Step.op = op

Advance == pc' = pc + 1 /\ UNCHANGED verdict
Fail == verdict' = "failed" /\ UNCHANGED pc
Expect(condition) == IF condition THEN Advance ELSE Fail

\* Steps that look, wait, or compare, and change nothing but the driver.
Look ==
  /\ \/ At("mustRun") /\ Expect(process = "up")
     \/ At("exit0") /\ Expect(process = "exit0")
     \/ At("exit137") /\ Expect(process = "exit137")
     \/ At("minioDown") /\ Expect(~store.up)
     \/ At("minioUp") /\ Expect(store.up)
     \/ At("lapse") /\ clock # "ahead" /\ Advance   \* 11 s outlast the alarm's 5 s
     \/ At("ready") /\ Expect(process = "up" /\ store.up)
     \/ At("notDue") /\ Expect(clock # "past")
     \/ At("owned") /\ Expect(process # "up")
     \/ At("replaced") /\ Expect(containerId # memory.container)
     \/ At("empty") /\ Expect(disk = {})
     \/ At("sameMinio") /\ Expect(store.starts = memory.minio)
  /\ UNCHANGED <<celld, clock, case, outcomes, memory, ghosts>>

\* Local.ts lines 428-452: a node that runs is killed, one that has exited with
\* status 3 is left as it is.
Survivor ==
  /\ At("survivor")
  /\ IF process = "up" THEN Advance
     ELSE IF process = "exit3" THEN pc' = pc + 3 /\ UNCHANGED verdict
     ELSE Fail
  /\ UNCHANGED <<celld, clock, case, outcomes, memory, ghosts>>

\* compose stop and kill; a container that does not run is left as it is.
DockerStop ==
  /\ At("stop") /\ Advance
  /\ \/ process = "up" /\ bucket' = disk /\ Ends("exit0")
     \/ process = "up" /\ UNCHANGED bucket /\ Ends("exit137")  \* 20 s were not enough
     \/ process # "up" /\ UNCHANGED <<process, active, flying, bucket, unsaved, ends>>
  /\ UNCHANGED <<generation, disk, store, containerId, clock, case, outcomes, memory,
                 betrayed, alarmRan, dueUp>>

DockerKill ==
  /\ At("kill") /\ Advance /\ UNCHANGED bucket
  /\ \/ process = "up" /\ Ends("exit137")
     \/ process # "up" /\ UNCHANGED <<process, active, flying, unsaved, ends>>
  /\ UNCHANGED <<generation, disk, store, containerId, clock, case, outcomes, memory,
                 betrayed, alarmRan, dueUp>>

DockerStart ==
  /\ At("start") /\ Advance /\ process' = "up"
  /\ UNCHANGED <<generation, active, flying, disk, bucket, store, containerId, clock,
                 case, outcomes, memory, ghosts>>

Minio ==
  /\ \/ At("stopMinio") /\ store' = [store EXCEPT !.up = FALSE]
     \/ At("startMinio") /\ store' = [up |-> TRUE, starts |-> store.starts + 1]
  /\ Advance
  /\ UNCHANGED <<process, generation, active, flying, disk, bucket, containerId, clock,
                 case, outcomes, memory, ghosts>>

\* FleetControls.ts lines 164-245 between the two looks at MinIO.
Observe ==
  /\ At("seeMinio") /\ Advance
  /\ memory' = [memory EXCEPT !.minio = store.starts, !.container = containerId]
  /\ UNCHANGED <<celld, clock, case, outcomes, ghosts>>
Replace ==
  /\ \/ At("remove") /\ disk' = {} /\ UNCHANGED <<process, containerId>>
     \/ At("create") /\ process' = "created" /\ containerId' = containerId + 1
        /\ UNCHANGED disk
  /\ Advance
  /\ UNCHANGED <<generation, active, flying, bucket, store, clock, case, outcomes,
                 memory, ghosts>>

-----------------------------------------------------------------------------
(* Requests.                                                               *)

Awaiting(op) == At(op) /\ outcomes[Step.id] # "none"

Send ==
  /\ At("write") \/ At("try")
  /\ outcomes[Step.id] = "none"
  /\ outcomes' = [outcomes EXCEPT ![Step.id] = "sent"]
  /\ flying' = IF process = "up" THEN flying \cup {Step.id} ELSE flying
  /\ UNCHANGED <<process, generation, active, disk, bucket, store, containerId, clock,
                 case, pc, verdict, memory, ghosts>>

\* Outage.ts lines 35-38: only a complete 200 with the fixture's body counts.
Acknowledge ==
  /\ Awaiting("write") \/ Awaiting("try")
  /\ process = "up" /\ active /\ Step.id \notin flying
  /\ ItemsOf(Step.id) \subseteq bucket \/ "early" \in Faults
  /\ outcomes' = [outcomes EXCEPT ![Step.id] = "acked"] /\ Advance
  /\ memory' = IF Step.id = Baseline THEN [memory EXCEPT !.seeded = generation] ELSE memory
  /\ UNCHANGED <<celld, clock, case, ghosts>>

\* Lines 33-34 and 40: an error, or no answer while celld or its store is down.
Classify ==
  /\ Awaiting("write") \/ Awaiting("try")
  /\ process # "up" \/ ~store.up
  /\ outcomes' = [outcomes EXCEPT ![Step.id] = "uncertain"]
  /\ Expect(Step.op = "try")
  /\ UNCHANGED <<celld, clock, case, memory, ghosts>>

\* Outage.ts lines 43-64.  Mutant: a transaction counts as present when its row is.
checkOutageStateRows(state) ==
  /\ \A i \in Acked : <<"sql", i>> \in state
  /\ \A x \in state : x[2] \in Settled
checkOutageState(state) ==
  state = UNION {ItemsOf(i) : i \in
            {j \in Settled : j \in Acked \/ ItemsOf(j) \cap state # {}}}

\* Recovery.ts lines 34-52 and 61-86.
checkRecovered(state, expected) == generation # memory.seeded /\ state = expected

\* A read is answered by the active cell, when what it shows is committed.
Read ==
  /\ process = "up" /\ active /\ (disk = bucket \/ "dirty" \in Faults)
  /\ \/ /\ At("before") /\ UNCHANGED memory
        /\ IF case = "storageOutage" THEN Expect(checkOutageState(disk))
           ELSE Expect(disk = ItemsOf(Baseline) /\ generation = memory.seeded)
     \/ /\ At("recovers") /\ UNCHANGED memory
        /\ Expect(checkRecovered(disk, ItemsOf(Baseline)))
     \/ /\ At("poll") /\ Fired \in disk /\ UNCHANGED memory
        /\ Expect(checkRecovered(disk, ItemsOf(Baseline) \cup {Fired}))
     \/ /\ At("recovered") /\ memory' = [memory EXCEPT !.recovered = disk]
        /\ Expect(checkOutageState(disk))
     \/ /\ At("final") /\ UNCHANGED memory
        /\ Expect(checkOutageState(disk) /\ disk = memory.recovered \cup ItemsOf(Last))
  /\ UNCHANGED <<celld, clock, case, outcomes, ghosts>>

\* Mutant: the alarm is polled for as long as it takes.
ReadFailsPatiently ==
  /\ \E op \in {"before", "recovers", "poll", "recovered", "final"} : At(op)
  /\ process # "up" \/ ~store.up
  /\ Fail
  /\ UNCHANGED <<celld, clock, case, outcomes, memory, ghosts>>
\* Nothing will answer: the poll's attempts run out, a read's transport fails.
ReadFails ==
  /\ \/ At("poll") /\ active /\ {Armed, Fired} \cap disk = {}
     \/ /\ \E op \in {"before", "recovers", "poll", "recovered", "final"} : At(op)
        /\ process # "up" \/ ~store.up
  /\ Fail
  /\ UNCHANGED <<celld, clock, case, outcomes, memory, ghosts>>

Finish ==
  /\ verdict = "running" /\ pc > Len(Program)
  /\ verdict' = "pass" /\ UNCHANGED pc
  /\ UNCHANGED <<celld, clock, case, outcomes, memory, ghosts>>

Process == Activate \/ Execute \/ Commit \/ RunAlarm
Driver ==
  \/ Look \/ Survivor \/ DockerStop \/ DockerKill \/ DockerStart \/ Minio
  \/ Observe \/ Replace \/ Send \/ Acknowledge \/ Classify \/ Read \/ ReadFails \/ Finish
Next == Process \/ DeadlinePasses \/ Fence \/ Driver

\* celld serves what reaches it, time passes, the driver goes on.
Spec == Init /\ [][Next]_vars
FairSpec == Spec /\ WF_vars(Process) /\ WF_vars(DeadlinePasses) /\ WF_vars(Driver)

-----------------------------------------------------------------------------
\* Property: before celld has broken a promise a case fails for one of three
\* reasons only: Docker had to kill a process that was asked to stop, the alarm
\* was due before the process was proved stopped, or the node fenced itself
\* between prepareRestart's look at it and its kill (Local.ts lines 428-442).
NoFalseAlarm ==
  verdict = "failed" /\ ~betrayed =>
    \/ case \in {"graceful", "facets"} /\ process = "exit137"
    \/ case \in AlarmCases /\ clock = "past"
    \/ case = "storageOutage" /\ process = "exit3"

\* Property: no case passes when the cell has lost or torn an acknowledged
\* transaction, brought back one that was never made, or dropped one that an
\* earlier read had shown (Recovery.ts lines 61-86, Outage.ts lines 43-64, 133).
LossIsCaught == verdict = "pass" => ~betrayed

\* Property: a pass proves what the case is named for.  The process ended, each
\* time, the way the case is about (Local.ts lines 443-451, 505-518).  An alarm
\* case shows an overdue alarm: its deadline passed while the process was down,
\* and it ran in a later activation than the one that set it (Recovery.ts lines
\* 226-247).  After the loss of the disk every acknowledgment must have been in
\* the store when it was given, for nothing but the store can have kept it
\* (Local.ts lines 454-489), even of a celld that acknowledges early.
PassProvesItsName ==
  verdict = "pass" =>
    /\ CASE case \in {"graceful", "facets"} -> ends = <<"exit0">>
         [] case \in {"crash"} \cup AlarmCases -> ends = <<"exit137">>
         [] case = "storageOutage" -> ends \in {"exit3", "exit137"} \X {"exit137"}
    /\ case \in AlarmCases => ~dueUp /\ alarmRan > memory.seeded
    /\ case = "diskLoss" => unsaved = {}

\* Property: every case comes to an end, pass or fail, without its timer.
CaseEnds == <>(verdict # "running")
=============================================================================
