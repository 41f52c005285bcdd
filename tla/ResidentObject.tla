--------------------------- MODULE ResidentObject ---------------------------
(***************************************************************************)
(* One resident object of a celld fleet, and a case of ObjectScenarios     *)
(* that deploys under it, cuts its storage off or resets it: the driver's  *)
(* side of src/InPlaceDeployment.ts and src/StorageDurability.ts, the      *)
(* fixture's (fixtures/qualification/Durability.ts and worker.ts), and     *)
(* celld as docs/IN-PLACE-DEPLOYMENT.md and docs/STORAGE-DURABILITY.md say *)
(* it behaves, with at most one defect, of those that the documents say    *)
(* the case finds.                                                         *)
(*                                                                         *)
(* Time passes in ticks, and celld is prompt: what is due happens before   *)
(* the next tick.  The driver may stall: once in a case, up to MaxLag      *)
(* ticks pass while it could have taken its next step.                     *)
(***************************************************************************)
EXTENDS ObjectOracles, TLC

CONSTANTS
  Homes,       \* nodes that may own the object
  Selection,   \* the names of the cases to run
  MaxLag,      \* ticks the driver may lose, at one step of a case
  RestMs,      \* what passes between the rounds of sync-barrier (100 ms in the fixture)
  GiveUpMs,    \* celld gives up an upload that is refused for that long
  Flawed,      \* celld may have a defect
  Interrupts   \* the case's timer or a signal may stop the case

ASSUME ResidentAssumption ==
  /\ Homes \subseteq Nodes /\ Selection \subseteq DOMAIN Scenarios /\ MaxLag \in Nat /\ RestMs \in Nat /\ GiveUpMs \in Nat
  /\ Flawed \in BOOLEAN /\ Interrupts \in BOOLEAN

\* The scope's restorations are named, and those of the peers after their nodes.
ASSUME NamesAssumption == Nodes \cap {"source", "proxy"} = {}

VARIABLES
  home,        \* the node that owns the object
  fleet,       \* the deployment pointer; of each node: what it serves, its process
  obj,         \* the object, its alarm and its sockets
  calls,       \* the driver's requests, by slot
  env,         \* what the driver disturbs: the fixture, the storage proxy, the peers
  defect,      \* the one thing celld does wrong, or "none" as long as it has not
  betrayed,    \* ghost: it has broken a promise, if so in the window of its log
  script, pc,  \* the case and its next step
  phase,       \* "run", "closing" its scope, "closed"
  outcome,     \* "none", "passed", "failed", "interrupted"
  timer,       \* ticks spent in the current step
  watch,       \* ticks since the case started its clock
  lag,         \* ticks of the driver's stall
  seen,        \* the observations
  acked,       \* acknowledged batches and writes
  finalizers   \* restorations the scope owes

celld == <<home, fleet, obj, defect, betrayed>>
driver == <<script, pc, phase, outcome, timer, watch, lag, seen, acked, finalizers>>
vars == <<celld, calls, env, driver>>

Program == Scenarios[script]
Slots == {"main", "held", "pending", "writes", "barrier"}
Never == Ticks(90000)
Idle == [call |-> "none", state |-> "idle", left |-> 0, bound |-> 0, gen |-> 0,
         reply |-> [status |-> 0]]
NoSocket == [state |-> "none", counter |-> 0, code |-> 0, at |-> 0]

\* What the documents say each case finds.
DefectsOf ==
  [reloadAdoption |-> {"early", "silent", "restarts", "staleService", "losesHistory"},
   reloadInvalid |-> {"adoptsRefused", "otherError", "restarts"},
   reloadInFlight |-> {"impatient", "cutsRequests", "dropsAlarm", "rejectsBarrier", "silent", "neverMoves",
                       "losesHistory"},
   reloadSocket |-> {"neverMoves", "closesSocket", "forgetsAttachment", "sameInstance", "losesHistory"},
   reloadForced |-> {"neverForces", "forcesEarly", "wrongCode", "closesSocket"},
   reloadModuleBytes |-> {"adoptsTampered", "adoptsRefused", "lengthOnly"},
   cursorResponse |-> {"leaks"}, cursorOutbound |-> {"leaks"},
   syncRecovery |-> {"forgets"}, syncOutage |-> {"forgets", "losesSeed"},
   syncTransaction |-> {"acceptsSync", "keepsTransaction"},
   cursorSync |-> {"acceptsSync", "eatsRows"},
   syncAbort |-> {"resolves", "stays", "losesSeed"},
   syncBarrierPartition |-> {"falseFleet", "forgets", "shortCircuit", "bucketOnly"},
   transactionDeadline |-> {"noLimit", "hasty", "stays", "keepsTransaction"},
   gateDeadline |-> {"noLimit", "hasty", "stays"}]

NewFleet ==
  [pointer |-> "old", served |-> [n \in Nodes |-> 1],
   process |-> [n \in Nodes |-> 1], ensemble |-> FALSE]
NewObject ==
  [gen |-> 1, activation |-> 1, rows |-> {}, value |-> 0,
   saved |-> [rows |-> {}, value |-> 0], history |-> 0, witness |-> 0,
   moving |-> FALSE, left |-> 0, refused |-> FALSE,
   alarm |-> [state |-> "off", left |-> 0, count |-> 0, revision |-> 0],
   hibernatable |-> NoSocket, regular |-> NoSocket,
   round |-> 0, waiting |-> FALSE, rest |-> 0, resolved |-> 0,
   rejected |-> FALSE, proofs |-> {}]

Init ==
  /\ home \in Homes
  /\ fleet = NewFleet /\ obj = NewObject
  /\ calls = [s \in Slots |-> Idle]
  /\ env = [source |-> 1, mode |-> "normal", window |-> 0, peers |-> Nodes]
  /\ script \in Selection /\ pc = 1 /\ phase = "run" /\ outcome = "none"
  /\ defect = "none" /\ betrayed = "no"
  /\ timer = 0 /\ watch = Never /\ lag = 0 /\ seen = <<>> /\ acked = 0 /\ finalizers = <<>>

Running == phase = "run" /\ pc <= Len(Program)
Step == Program[pc]
At(op) == Running /\ Step.op = op

-----------------------------------------------------------------------------
(* What celld does wrong, when it does: one defect a case.                 *)

May(d) == Flawed /\ d \in DefectsOf[script] /\ defect \in {"none", d}
\* The part of the owner's log that barrierPartition judges is written from here on,
\* and until it is read.
Window == Running /\ (Step.op = "await" \/ (Step.op = "take" /\ Step.what = "proofs"))
Betrays(where) == betrayed' = IF betrayed = "window" THEN betrayed ELSE where
Does(d) == May(d) /\ defect' = d /\ Betrays("elsewhere")
Behaves == UNCHANGED <<defect, betrayed>>
\* Either, for an outcome that names what is wrong with it.
Commits(d) == IF d = "none" THEN Behaves ELSE Does(d)

-----------------------------------------------------------------------------
(* The object's requests.                                                  *)

Open == {s \in Slots : calls[s].state = "open"}
Disturbed(mode) == env.mode = mode /\ env.window > 0

\* Storage work takes a forwarded request, 750 ms when that is delayed
\* (StorageProxy.ts); the platform's limit is 30 seconds, the handlers
\* hold for 40.
Delay == IF Disturbed("latency") THEN Ticks(750) ELSE 0
Durations(call) ==
  CASE call = "hold" -> {Ticks(HoldMs)}
    [] call \in {"pendingSync", "batch"} -> {Delay}
    [] call = "syncUnconfirmed" /\ Disturbed("throttle") -> {0, Ticks(GiveUpMs)}
    [] call = "barrier" -> {Ticks(20000)}
    [] call \in {"transactionDeadline", "gateDeadline"} ->
         {Ticks(30000)} \cup (IF May("hasty") THEN {Ticks(10000)} ELSE {})
                       \cup (IF May("noLimit") THEN {Ticks(40000)} ELSE {})
    [] OTHER -> {0}

\* Durability.ts: the unconfirmed puts that precede a barrier.
Put(call) ==
  CASE call = "pendingSync" -> [obj EXCEPT !.value = Pending]
    [] call \in {"syncUnconfirmed", "syncAbort"} ->
         [obj EXCEPT !.value = After, !.refused = @ \/ Disturbed("throttle")]
    [] OTHER -> obj

\* A request that arrives while the object moves waits for the new code.
Enter(s) ==
  /\ calls[s].state = "sent" /\ ~obj.moving
  /\ \E ticks \in Durations(calls[s].call) :
       /\ calls' = [calls EXCEPT ![s].state = "open", ![s].left = ticks, ![s].gen = obj.gen]
       /\ Commits(IF calls[s].call \notin {"transactionDeadline", "gateDeadline"} THEN "none"
                  ELSE IF ticks = Ticks(10000) THEN "hasty"
                  ELSE IF ticks = Ticks(40000) THEN "noLimit" ELSE "none")
  /\ obj' = Put(calls[s].call)
  /\ UNCHANGED <<home, fleet, env, driver>>

\* One thing celld may do: the object afterwards and the answer.
Right(o, reply) == {[obj |-> o, reply |-> reply, defect |-> "none"]}
Wrong(d, o, reply) ==
  IF May(d) THEN {[obj |-> o, reply |-> reply, defect |-> d]} ELSE {}

Ok == [status |-> 200]
Error(cause) == [status |-> 500, cause |-> cause]
Content(o) == [status |-> 200, rows |-> o.rows, value |-> o.value]
Saved(o) == [o EXCEPT !.saved = [rows |-> o.rows, value |-> o.value]]

\* A reset keeps what was saved; an unconfirmed value may have been.
Resets(o) ==
  {[o EXCEPT !.activation = @ + 1, !.rows = o.saved.rows, !.value = v] :
     v \in {o.saved.value, o.value}}
Reset(o) == [o EXCEPT !.activation = @ + 1, !.rows = o.saved.rows, !.value = o.saved.value]

\* Durability.ts, by route.
BarrierOutcomes(c) ==
  LET seeded == Saved([obj EXCEPT !.rows = {1}, !.value = Before])
      synced == [obj EXCEPT !.rows = @ \cup {2}, !.value = After]
      kept   == Saved(obj)
  IN  CASE c.call = "seed" -> Right(seeded, Content(seeded))
        [] c.call = "sync" ->
             Right(Saved(synced), Content(synced)) \cup Wrong("forgets", synced, Content(synced))
        [] c.call = "pendingSync" ->
             LET reply(no) == [status |-> 200, revision |-> c.gen, rejected |-> no,
                               value |-> obj.value]
             IN  Right(kept, reply(FALSE)) \cup Wrong("rejectsBarrier", obj, reply(TRUE))
        [] c.call = "syncUnconfirmed" ->
             IF Disturbed("throttle")
             THEN Right(obj, Error("sync")) \cup Wrong("forgets", obj, Ok)
             ELSE Right(kept, Ok)
        [] c.call = "syncAbort" ->
             UNION {Right(o, r) : o \in Resets(obj),
                    r \in {Error("abort"), [status |-> 200, pending |-> "rejected"],
                           [status |-> 200, pending |-> "unsettled"]}}
             \cup Wrong("resolves", Reset(obj), [status |-> 200, pending |-> "resolved"])
             \cup Wrong("stays", obj, Error("abort"))
             \cup Wrong("losesSeed", [Reset(obj) EXCEPT !.rows = {}], Error("abort"))

TransactionOutcomes(c) ==
  LET reply(no, o) == [status |-> 200, rejected |-> no, rows |-> o.rows]
      inserted == [obj EXCEPT !.rows = @ \cup {99}]
      cursor(no, rest) == [status |-> 200, first |-> 2, rejected |-> no, remaining |-> rest]
      limit == Error("limit")
  IN  CASE c.call = "syncTransaction" ->
             Right(obj, reply(TRUE, obj)) \cup Wrong("acceptsSync", obj, reply(FALSE, obj))
             \cup Wrong("keepsTransaction", inserted, reply(TRUE, inserted))
        [] c.call = "cursorSync" ->
             Right(obj, cursor(TRUE, {3})) \cup Wrong("acceptsSync", obj, cursor(FALSE, {3}))
             \cup Wrong("eatsRows", obj, cursor(TRUE, {}))
        [] c.call \in {"transactionDeadline", "gateDeadline"} ->
             IF defect = "noLimit" THEN Right(obj, Ok) ELSE
             Right(Reset(obj), limit) \cup Wrong("stays", obj, limit)
                  \cup Wrong("keepsTransaction", [Reset(obj) EXCEPT !.rows = @ \cup {99}], limit)

WitnessOutcomes(c) ==
  LET witnessed == [obj EXCEPT !.witness = @ + 1]
  IN  CASE c.call = "consumedOutbound" -> Right(witnessed, Ok)
        [] c.call = "witness" -> Right(obj, [status |-> 200, count |-> obj.witness])
        [] c.call = "cursorResponse" -> Right(obj, Error("cursor")) \cup Wrong("leaks", obj, Ok)
        [] c.call = "cursorOutbound" ->
             Right(obj, Error("cursor")) \cup Wrong("leaks", witnessed, Error("cursor"))

\* worker.ts: the other routes.
RouteOutcomes(c) ==
  CASE c.call \in {"batch", "write"} -> Right([obj EXCEPT !.history = @ + 1], Ok)
    [] c.call = "state" -> Right(obj, Content(obj))
    [] c.call = "id" -> Right(obj, [status |-> 200, activation |-> obj.activation])
    [] c.call = "hold" -> Right(obj, [status |-> 200, revision |-> c.gen])
    [] c.call = "arm" ->
         Right([obj EXCEPT !.alarm.state = "armed", !.alarm.left = Ticks(2000)], Ok)
    [] c.call = "alarmState" ->
         Right(obj, [status |-> 200, count |-> obj.alarm.count,
                     revision |-> obj.alarm.revision, pending |-> obj.alarm.state = "armed"])

Outcomes(c) ==
  IF c.call \in {"seed", "sync", "pendingSync", "syncUnconfirmed", "syncAbort"}
  THEN BarrierOutcomes(c)
  ELSE IF c.call \in {"syncTransaction", "cursorSync", "transactionDeadline", "gateDeadline"}
  THEN TransactionOutcomes(c)
  ELSE IF c.call \in {"consumedOutbound", "witness", "cursorResponse", "cursorOutbound"}
  THEN WitnessOutcomes(c)
  ELSE RouteOutcomes(c)

Reply(s, reply) == [Idle EXCEPT !.call = calls[s].call, !.state = "replied", !.reply = reply]
Finish(s) ==
  /\ calls[s].state = "open" /\ calls[s].call # "barrier" /\ calls[s].left = 0
  /\ \E end \in Outcomes(calls[s]) :
       /\ obj' = end.obj /\ Commits(end.defect)
       /\ calls' = [calls EXCEPT ![s] = Reply(s, end.reply)]
  /\ UNCHANGED <<home, fleet, env, driver>>

\* The driver stops waiting.
TimeOut(s) ==
  /\ calls[s].state \in {"sent", "open"} /\ calls[s].bound = 0
  /\ calls' = [calls EXCEPT ![s].state = "failed"]
  /\ UNCHANGED <<celld, env, driver>>

-----------------------------------------------------------------------------
(* /durability/sync-barrier: put and sync, round after round.              *)

Reachable == env.peers # {home}

RoundDue ==
  /\ calls["barrier"].state = "open" /\ calls["barrier"].left > 0
  /\ ~obj.waiting /\ obj.rest = 0 /\ ~obj.rejected
StartRound ==
  /\ RoundDue
  /\ obj' = [obj EXCEPT !.round = @ + 1, !.value = Barrier + obj.round + 1, !.waiting = TRUE]
  /\ UNCHANGED <<home, fleet, defect, betrayed, calls, env, driver>>

Resolved(o, proof) ==
  [o EXCEPT !.resolved = obj.round, !.waiting = FALSE, !.rest = Ticks(RestMs),
            !.proofs = @ \cup proof]

\* A peer or the bucket; without a peer the bucket, a rejection, or neither.
SettleRound ==
  /\ calls["barrier"].state = "open" /\ obj.waiting
  /\ \/ Reachable /\ obj' = Resolved(Saved(obj), {"fleet"}) /\ Behaves
     \/ obj' = Resolved(Saved(obj), {"bucket"}) /\ Behaves
     \/ ~Reachable /\ obj' = [obj EXCEPT !.rejected = TRUE, !.waiting = FALSE] /\ Behaves
     \/ /\ ~Reachable /\ obj' = Resolved(Saved(obj), {"fleet"})
        /\ May("falseFleet") /\ defect' = "falseFleet"
        /\ Betrays(IF Window THEN "window" ELSE "elsewhere")
     \/ obj' = Resolved(obj, {}) /\ Does("shortCircuit")
     \/ /\ May("forgets") /\ obj' = Resolved(obj, {"bucket"})
        /\ defect' = "forgets" /\ UNCHANGED betrayed
  /\ UNCHANGED <<home, fleet, calls, env, driver>>

BarrierOver ==
  /\ calls["barrier"].state = "open" /\ ~obj.waiting
  /\ obj.rejected \/ calls["barrier"].left = 0
EndBarrier ==
  /\ BarrierOver
  /\ calls' = [calls EXCEPT !["barrier"] = Reply("barrier",
       [status |-> 200, rounds |-> obj.round, resolved |-> obj.resolved,
        rejected |-> obj.rejected])]
  /\ UNCHANGED <<celld, env, driver>>

\* The ensemble forms within the eight attempts of proveFleetDurability.
FormEnsemble ==
  /\ At("proveFleet") /\ ~fleet.ensemble /\ defect # "bucketOnly"
  /\ \/ fleet' = [fleet EXCEPT !.ensemble = TRUE] /\ Behaves
     \/ Does("bucketOnly") /\ UNCHANGED fleet
  /\ UNCHANGED <<home, obj, calls, env, driver>>

-----------------------------------------------------------------------------
(* The alarm, and the move of the object to the new deployment.            *)

\* An alarm that is due while the object waits to move runs at once, or after.
AlarmDue == obj.alarm.state = "armed" /\ obj.alarm.left = 0
StartAlarm ==
  /\ AlarmDue
  /\ \/ /\ obj' = [obj EXCEPT !.alarm.state = "running", !.alarm.left = Ticks(1500),
                              !.alarm.revision = obj.gen]
        /\ Behaves
     \/ obj' = [obj EXCEPT !.alarm.state = "off"] /\ Does("dropsAlarm")
  /\ UNCHANGED <<home, fleet, calls, env, driver>>

AlarmOver == obj.alarm.state = "running" /\ obj.alarm.left = 0
EndAlarm ==
  /\ AlarmOver
  /\ obj' = [obj EXCEPT !.alarm.state = "done", !.alarm.count = @ + 1]
  /\ UNCHANGED <<home, fleet, defect, betrayed, calls, env, driver>>

\* docs/IN-PLACE-DEPLOYMENT.md, the safe point.
SafePoint == obj.alarm.state # "running" /\ obj.regular.state # "open" /\ Open = {}

Moved(o) == [o EXCEPT !.gen = 2, !.activation = @ + 1, !.moving = FALSE]
MoveDue == obj.moving /\ SafePoint /\ defect # "neverMoves"
Moves ==
  \/ obj' = Moved(obj) /\ Behaves
  \/ /\ obj.hibernatable.state = "open" /\ Does("closesSocket")
     /\ obj' = [Moved(obj) EXCEPT !.hibernatable.state = "closed"]
  \/ obj' = [Moved(obj) EXCEPT !.hibernatable.counter = 0] /\ Does("forgetsAttachment")
  \/ obj' = [Moved(obj) EXCEPT !.activation = obj.activation] /\ Does("sameInstance")
  \/ obj' = [Moved(obj) EXCEPT !.history = @ - 1] /\ Does("losesHistory")
  \/ UNCHANGED obj /\ Does("neverMoves")
Move ==
  /\ obj.moving
  /\ \/ ~SafePoint /\ obj' = Moved(obj) /\ Does("impatient")
     \/ MoveDue /\ Moves
  /\ UNCHANGED <<home, fleet, calls, env, driver>>

Cut ==
  [s \in Slots |-> IF s \in Open THEN [calls[s] EXCEPT !.state = "failed"] ELSE calls[s]]
Forced(code) ==
  [Moved(obj) EXCEPT !.alarm.state = IF @ = "running" THEN "off" ELSE @,
     !.regular = IF @.state # "open" THEN @
                 ELSE [@ EXCEPT !.state = "closed", !.code = code, !.at = watch]]

\* The deadline has passed.
ForceDue == obj.moving /\ obj.left = 0 /\ ~SafePoint /\ defect # "neverForces"
ForceMove ==
  /\ obj.moving /\ ~SafePoint
  /\ \/ ForceDue /\ obj' = Forced(1012) /\ calls' = Cut /\ Behaves
     \/ ForceDue /\ obj' = Forced(1011) /\ calls' = Cut /\ Does("wrongCode")
     \/ ForceDue /\ UNCHANGED <<obj, calls>> /\ Does("neverForces")
     \/ /\ ForceDue /\ calls' = Cut /\ Does("closesSocket")
        /\ obj' = [Forced(1012) EXCEPT !.hibernatable.state = "closed"]
     \/ obj.left > 0 /\ obj' = Forced(1012) /\ calls' = Cut /\ Does("forcesEarly")
  /\ UNCHANGED <<home, fleet, env, driver>>

-----------------------------------------------------------------------------
(* The driver's next step, and time.                                       *)

ReadsObject ==
  \/ Step.op \in {"connect", "exchange"}
  \/ Step.op \in {"see", "take"} /\ Step.what \in {"object", "objects", "history", "rows"}

\* What the step is waiting for, and for how long.
Polls ==
  CASE Step.op = "pollObject" -> obj.moving \/ obj.gen = 1
    [] Step.op = "awaitClose" -> obj.regular.state = "open"
    [] Step.op = "proveFleet" -> ~fleet.ensemble
    [] Step.op = "await"      -> calls[Step.slot].state = "open"
    [] OTHER                  -> ReadsObject /\ obj.moving
\* Mutant: the close of the socket is awaited without a bound.
BudgetOfPatience ==
  CASE Step.op = "awaitClose" -> Never + 1
    [] Step.op = "pollObject" -> IF obj.moving THEN Ticks(RequestMs) ELSE Ticks(90000)
    [] Step.op = "proveFleet" -> Ticks(8000)
    [] Step.op = "await"      -> Step.ticks
    [] Step.op = "connect"    -> Ticks(20000)
    [] Step.op = "exchange"   -> Ticks(25000)
    [] OTHER                  -> Ticks(RequestMs)
Budget ==
  CASE Step.op = "awaitClose" -> Ticks(90000)
    [] Step.op = "pollObject" -> IF obj.moving THEN Ticks(RequestMs) ELSE Ticks(90000)
    [] Step.op = "proveFleet" -> Ticks(8000)
    [] Step.op = "await"      -> Step.ticks
    [] Step.op = "connect"    -> Ticks(20000)
    [] Step.op = "exchange"   -> Ticks(25000)
    [] OTHER                  -> Ticks(RequestMs)
Expired == Polls /\ timer >= Budget

Waits ==
  CASE Step.op = "sleep" -> timer < Step.ticks
    [] Step.op = "probe" -> timer < Ticks(500)
    [] Step.op = "join"  -> calls[Step.slot].state \in {"sent", "open"}
    [] OTHER             -> Polls /\ ~Expired

Blocked == Running /\ Waits

\* What celld does before any more time passes.
Due ==
  \/ \E s \in Slots : \/ calls[s].state = "sent" /\ ~obj.moving
                      \/ calls[s].state = "open" /\ calls[s].call # "barrier" /\ calls[s].left = 0
                      \/ calls[s].state \in {"sent", "open"} /\ calls[s].bound = 0
  \/ AlarmDue /\ ~obj.moving
  \/ AlarmOver
  \/ MoveDue
  \/ ForceDue
  \/ RoundDue
  \/ BarrierOver
  \/ calls["barrier"].state = "open" /\ obj.waiting /\ Reachable
  \/ At("proveFleet") /\ ~fleet.ensemble /\ defect # "bucketOnly" /\ timer + 1 >= Budget

Less(ticks) == IF ticks > 0 THEN ticks - 1 ELSE 0

Tick ==
  /\ phase = "run" /\ ~Due
  /\ \/ Blocked /\ UNCHANGED lag /\ timer' = IF timer < Never THEN timer + 1 ELSE timer
     \/ ~Blocked /\ lag < MaxLag /\ lag' = lag + 1 /\ UNCHANGED timer
  /\ calls' = [s \in Slots |-> IF calls[s].state \notin {"sent", "open"} THEN calls[s]
       ELSE [calls[s] EXCEPT !.bound = Less(@),
               !.left = IF calls[s].state = "open" THEN Less(@) ELSE @]]
  /\ obj' = [obj EXCEPT !.left = IF obj.moving THEN Less(@) ELSE @,
                        !.alarm.left = Less(@), !.rest = Less(@)]
  /\ env' = [env EXCEPT !.window = Less(@)]
  /\ watch' = IF watch < Never THEN watch + 1 ELSE watch
  /\ UNCHANGED <<home, fleet, defect, betrayed, script, pc, phase, outcome, seen, acked,
                 finalizers>>

Advance == pc' = pc + 1 /\ timer' = 0 /\ UNCHANGED <<phase, outcome>>
Fail == phase' = "closing" /\ outcome' = "failed" /\ UNCHANGED <<pc, timer>>
Expect(condition) == IF condition THEN Advance ELSE Fail
Saw(label, observed) == seen' = (label :> observed) @@ seen
\* A stall is over when the driver moves again: the case has had its one.
MovesOn == lag' = IF lag = 0 THEN 0 ELSE MaxLag
Otherwise == UNCHANGED <<script, watch>> /\ MovesOn

-----------------------------------------------------------------------------
(* Requests and observations.                                              *)

SendCall ==
  /\ At("send") /\ Advance
  /\ calls' = [calls EXCEPT ![Step.slot] =
       [Idle EXCEPT !.call = Step.call, !.state = "sent", !.bound = Step.bound]]
  /\ Otherwise /\ UNCHANGED <<celld, env, seen, acked, finalizers>>

\* An observation that is taken of each node is kept for each.
Keep(step, reply) ==
  IF step.check = "keep" /\ step.into \in DOMAIN seen THEN Append(seen[step.into], reply)
  ELSE IF step.check = "keep" THEN <<reply>> ELSE reply

JoinCall ==
  /\ At("join")
  /\ LET c == calls[Step.slot]
     IN  /\ Expect(c.state = "replied" /\ Judge(Step.check, c.reply))
         /\ Saw(Step.into, Keep(Step, c.reply))
         /\ acked' = IF c.state = "replied" /\ c.call \in {"batch", "write"} THEN acked + 1
                                                                            ELSE acked
  /\ calls' = [calls EXCEPT ![Step.slot] = Idle]
  /\ Otherwise /\ UNCHANGED <<celld, env, finalizers>>

Quietly == Otherwise /\ UNCHANGED <<celld, calls, env, seen, acked, finalizers>>

Service(n) == IF defect = "staleService" THEN 1 ELSE fleet.served[n]

SeeIt ==
  /\ At("see")
  /\ Expect(/\ ~Expired
            /\ CASE Step.what = "worker"  -> fleet.served[Step.at] = Step.is
                 [] Step.what = "object"  -> obj.gen = Step.is
                 [] Step.what = "service" -> Service(Step.at) = Step.is
                 [] Step.what = "process" -> fleet.process[Step.at] = seen.before[Step.at]
                 [] Step.what = "history" -> obj.history >= acked)
  /\ Quietly

TakeIt ==
  /\ At("take")
  /\ Expect(~Expired)
  /\ Saw(Step.into,
       CASE Step.what = "process"  -> fleet.process
         [] Step.what = "worker"   -> fleet.served
         [] Step.what = "service"  -> [n \in Nodes |-> Service(n)]
         [] Step.what = "objects"  -> [n \in Nodes |-> obj.gen]
         [] Step.what = "state"    -> [node |-> fleet.served[home], object |-> obj.gen]
         [] Step.what = "rows"     -> obj.history
         [] Step.what = "sockets"  -> [hibernatable |-> obj.hibernatable.state]
         [] Step.what = "regular"  -> obj.regular
         [] Step.what = "elapsed"  -> watch
         [] Step.what = "inFlight" -> calls["barrier"].state = "open"
         [] Step.what = "proofs"   -> obj.proofs)
  /\ Otherwise /\ UNCHANGED <<celld, calls, env, acked, finalizers>>

CheckAll == At("check") /\ Expect(Oracle(Step.oracle, seen)) /\ Quietly

\* Sleeps, polls, the probe of the peers, and the evidence of the proxy.
Wait ==
  /\ \/ At("sleep") /\ Advance
     \/ At("probe") /\ Expect(~Reachable)
     \/ At("evidence") /\ Expect(obj.refused)
     \/ (At("pollObject") \/ At("awaitClose") \/ At("proveFleet")) /\ Expect(~Expired)
  /\ Quietly

AwaitCall ==
  /\ At("await") /\ Advance /\ Saw("blocked", Expired)
  /\ Otherwise /\ UNCHANGED <<celld, calls, env, acked, finalizers>>

\* The case's clock, and the window of the owner's log.
Mark ==
  /\ \/ At("stamp") /\ watch' = 0 /\ UNCHANGED obj
     \/ At("openWindow") /\ obj' = [obj EXCEPT !.proofs = {}] /\ UNCHANGED watch
  /\ Advance
  /\ MovesOn /\ UNCHANGED <<home, fleet, defect, betrayed, calls, env, script, seen, acked, finalizers>>

ConnectSocket ==
  /\ At("connect") /\ Expect(~Expired)
  /\ obj' = [obj EXCEPT ![Step.socket] = [NoSocket EXCEPT !.state = "open"]]
  /\ Otherwise /\ UNCHANGED <<home, fleet, defect, betrayed, calls, env, seen, acked, finalizers>>

ExchangeMessage ==
  /\ At("exchange")
  /\ LET socket == obj[Step.socket]
     IN  /\ Expect(~Expired /\ socket.state = "open")
         /\ obj' = [obj EXCEPT ![Step.socket].counter = @ + 1]
         /\ Saw(Step.into, [counter |-> socket.counter + 1, revision |-> obj.gen,
                             activation |-> obj.activation])
  /\ Otherwise /\ UNCHANGED <<home, fleet, defect, betrayed, calls, env, acked, finalizers>>

-----------------------------------------------------------------------------
(* What the driver changes.                                                *)

\* publish: the fixture is replaced in a scope of its own.
ReplaceFixture ==
  /\ At("replace") /\ Expect(env.source = 1)
  /\ env' = [env EXCEPT !.source = 2] /\ finalizers' = <<"source">> \o finalizers
  /\ Otherwise /\ UNCHANGED <<celld, calls, seen, acked>>

PutFixtureBack ==
  /\ At("release") /\ Advance
  /\ env' = [env EXCEPT !.source = 1] /\ finalizers' = Tail(finalizers)
  /\ Otherwise /\ UNCHANGED <<celld, calls, seen, acked>>

\* Nobody adopts before the trigger: the poll of the pointer is an hour away.
Deploy ==
  /\ At("deploy") /\ Advance
  /\ LET published == [fleet EXCEPT !.pointer = IF env.source = 2 THEN Step.kind ELSE "old"]
     IN  \/ fleet' = published /\ Behaves
         \/ fleet' = [published EXCEPT !.served = [n \in Nodes |-> 2]] /\ Does("early")
  /\ Otherwise /\ UNCHANGED <<home, obj, calls, env, seen, acked, finalizers>>

Tamper ==
  /\ At("tamper") /\ Advance /\ fleet' = [fleet EXCEPT !.pointer = "tampered"]
  /\ Otherwise
  /\ UNCHANGED <<home, obj, defect, betrayed, calls, env, seen, acked, finalizers>>

Adopted(n) == [fleet EXCEPT !.served[n] = 2]
MaxAge == IF script = "reloadForced" THEN Ticks(DeadlineMs) ELSE Ticks(60000)
Leaves(n) == IF n = home THEN [obj EXCEPT !.moving = TRUE, !.left = MaxAge] ELSE obj

\* What a node makes of POST /reload: its answer, and fleet, object and requests
\* afterwards.
Answer(reply, f, o, c) ==
  [reply |-> reply, fleet |-> f, obj |-> o, calls |-> c, defect |-> "none"]
Reloads(n) ==
  LET adopts == Answer("adopted", Adopted(n), Leaves(n), calls)
      bad(d, answer) == IF May(d) THEN {[answer EXCEPT !.defect = d]} ELSE {}
      refuses(why) == Answer(why, fleet, obj, calls)
      quietly(why) == [refuses(why) EXCEPT !.fleet = Adopted(n), !.obj = Leaves(n)]
      restarts(answer) == [answer EXCEPT !.fleet.process[n] = @ + 1]
  IN  CASE fleet.pointer = "valid" ->
             {adopts} \cup bad("staleService", adopts)
             \cup bad("silent", [adopts EXCEPT !.fleet = fleet, !.obj = obj])
             \cup bad("restarts", restarts(adopts))
             \cup (IF n # home THEN {} ELSE
                     bad("impatient", [adopts EXCEPT !.obj = Moved(obj)])
                     \cup (IF Open = {} THEN {} ELSE
                             bad("cutsRequests", [adopts EXCEPT !.calls = Cut])))
        [] fleet.pointer = "invalid" ->
             {refuses("tck-invalid-deployment")} \cup bad("otherError", refuses("failed"))
             \cup bad("adoptsRefused", quietly("tck-invalid-deployment"))
             \cup bad("restarts", restarts(refuses("tck-invalid-deployment")))
        [] fleet.pointer = "tampered" ->
             {refuses("digest mismatch")} \cup bad("lengthOnly", refuses("size mismatch"))
             \cup bad("adoptsTampered", adopts)
             \cup bad("adoptsRefused", quietly("digest mismatch"))
        [] OTHER -> {refuses("nothing to adopt")}

ReloadNode ==
  /\ At("reload")
  /\ \E answer \in Reloads(Step.at) :
       /\ fleet' = answer.fleet /\ obj' = answer.obj /\ calls' = answer.calls
       /\ Commits(answer.defect) /\ Expect(checkReload(answer.reply, Step.check))
       /\ Saw("reloads", Append(IF "reloads" \in DOMAIN seen THEN seen.reloads ELSE <<>>,
                                answer.reply))
  /\ Otherwise /\ UNCHANGED <<home, env, acked, finalizers>>

SetMode ==
  /\ At("mode") /\ Advance /\ env' = [env EXCEPT !.mode = Step.mode, !.window = Step.ticks]
  /\ Otherwise /\ UNCHANGED <<celld, calls, seen, acked, finalizers>>

GuardProxy ==
  /\ At("guardProxy") /\ Advance /\ finalizers' = <<"proxy">> \o finalizers
  /\ Otherwise /\ UNCHANGED <<celld, calls, env, seen, acked>>

\* partitionPeers: the restoration of a peer, then its cut; the scope's end takes
\* the restorations in reverse.
NextPeer == Order[Min({i \in DOMAIN Order : Order[i] # home /\ Order[i] \in env.peers})]
Restored(n) == [env EXCEPT !.peers = @ \cup {n}]
SetPeers ==
  /\ \/ At("guardPeer") /\ finalizers' = <<NextPeer>> \o finalizers /\ UNCHANGED env
     \/ At("cutPeer") /\ env' = [env EXCEPT !.peers = @ \ {NextPeer}] /\ UNCHANGED finalizers
     \/ /\ At("reconnect") /\ env' = Restored(Head(finalizers))
        /\ finalizers' = Tail(finalizers)
  /\ Advance /\ Otherwise /\ UNCHANGED <<celld, calls, seen, acked>>

\* restartAll: what was saved is there; a confirmed value that is not is lost.
Restart ==
  /\ At("restartAll") /\ Advance
  /\ \E o \in IF defect = "forgets" THEN {Reset(obj)} ELSE Resets(obj) :
       \/ /\ obj' = [o EXCEPT !.hibernatable = NoSocket, !.regular = NoSocket]
          /\ IF obj.resolved > 0 /\ o.value < Barrier + obj.resolved THEN Betrays("elsewhere")
             ELSE UNCHANGED betrayed
          /\ UNCHANGED defect
       \/ obj' = [o EXCEPT !.rows = {}] /\ Does("losesSeed")
  /\ calls' = Cut
  /\ Otherwise /\ UNCHANGED <<home, fleet, env, seen, acked, finalizers>>

-----------------------------------------------------------------------------
(* The end of the case.                                                    *)

Pass ==
  /\ phase = "run" /\ pc > Len(Program)
  /\ phase' = "closing" /\ outcome' = "passed" /\ UNCHANGED <<pc, timer>> /\ Quietly

\* The case's timer or a signal: the requests are abandoned, and so is what has
\* been seen; nothing is judged, whatever celld did wrong, and the fleet goes
\* with its stack.
Interrupt ==
  /\ Interrupts /\ phase = "run"
  /\ phase' = "closing" /\ outcome' = "interrupted"
  /\ pc' = 1 /\ timer' = 0 /\ watch' = Never /\ lag' = 0 /\ seen' = <<>> /\ acked' = 0
  /\ calls' = [s \in Slots |-> Idle] /\ fleet' = NewFleet /\ obj' = NewObject
  /\ UNCHANGED <<home, defect, betrayed, env, script, finalizers>>

\* The scope's finalizers, last first.
Finalize ==
  /\ phase = "closing" /\ finalizers # <<>>
  /\ env' = CASE Head(finalizers) = "source" -> [env EXCEPT !.source = 1]
              [] Head(finalizers) = "proxy"  -> [env EXCEPT !.mode = "normal", !.window = 0]
              [] OTHER -> Restored(Head(finalizers))
  /\ finalizers' = Tail(finalizers)
  /\ UNCHANGED <<celld, calls, script, pc, phase, outcome, timer, watch, lag, seen, acked>>

Close ==
  /\ phase = "closing" /\ finalizers = <<>>
  /\ phase' = "closed"
  /\ UNCHANGED <<celld, calls, env, script, pc, outcome, timer, watch, lag, seen, acked,
                 finalizers>>

\* The driver goes on unless it waits for something.
DriverStep ==
  /\ ~Blocked
  /\ \/ SendCall \/ JoinCall \/ SeeIt \/ TakeIt \/ CheckAll \/ Wait \/ AwaitCall \/ Mark
     \/ ConnectSocket \/ ExchangeMessage \/ ReplaceFixture \/ PutFixtureBack \/ Deploy \/ Tamper
     \/ ReloadNode \/ SetMode \/ GuardProxy \/ SetPeers \/ Restart \/ Pass \/ Finalize \/ Close

\* What celld does once the case is over is nothing to it.
CelldStep ==
  /\ phase = "run"
  /\ \/ \E s \in Slots : Enter(s) \/ Finish(s) \/ TimeOut(s)
     \/ StartRound \/ SettleRound \/ EndBarrier \/ FormEnsemble
     \/ StartAlarm \/ EndAlarm \/ Move \/ ForceMove

Next == DriverStep \/ CelldStep \/ Tick \/ Interrupt

Spec == Init /\ [][Next]_vars

\* As long as the driver can go on, celld has something due or time can pass, one of
\* them happens.
FairSpec == Spec /\ WF_vars(Tick \/ CelldStep \/ DriverStep)

-----------------------------------------------------------------------------
(* Properties.                                                             *)

\* The reload outran the alarm it was to meet: nothing between the arming and
\* the trigger (InPlaceDeployment.ts, reload-in-flight) waits for the handler
\* to have started, and the object may move first.
AlarmOvertaken ==
  /\ script = "reloadInFlight" /\ obj.gen = 2
  /\ (obj.alarm.state # "done" \/ obj.alarm.revision = 2)

\* The barrier was rejected, as it may be, before the driver had seen it open:
\* the fixture leaves its loop, and the case then says nothing was in flight.
RejectedAtOnce == script = "syncBarrierPartition" /\ obj.rejected /\ ~seen.inFlight

\* No case accuses a celld that keeps its promises, with the driver up to MaxLag
\* ticks behind: the holds, bounds, windows and deadlines of the cases leave that
\* much room.  The two exceptions are AlarmOvertaken and RejectedAtOnce.
NoFalseAlarm == outcome = "failed" /\ betrayed = "no" => AlarmOvertaken \/ RejectedAtOnce

\* What the cases miss.  Claims of replication are read between the look at the log
\* after the cut and the one after the wait (StorageDurability.ts lines 439-444).
ClaimsOutsideWindow == defect = "falseFleet" /\ betrayed = "elsewhere"

\* One logged wait stands for all of them, and none is asked for when a round was
\* rejected or blocked (StorageDurability.ts lines 323-326 and 370-371).
OthersWaited ==
  defect = "shortCircuit" /\ (seen.proofs # {} \/ seen.blocked \/ seen.barrier.rejected)

\* The driver's clock starts before the first reload, and celld's deadline with the
\* owner's (InPlaceDeployment.ts lines 527-530): what is early by less than the driver
\* lost meanwhile is late enough for it.
EarlyByTheReloads == defect = "forcesEarly" /\ obj.left <= MaxLag

\* The object's generation is judged once, right after the reloads; the two samples
\* of it while it moves are not (InPlaceDeployment.ts lines 400-417).
MovesAfterTheLook == defect = "impatient" /\ seen.during.object = 1

\* A defect the documents name is seen by the case they name it for, at whichever of
\* celld's steps it happens and whatever the driver was doing meanwhile, but for the
\* four that fall between the looks the case takes.
DefectsAreCaught ==
  outcome = "passed" /\ betrayed # "no" =>
    \/ ClaimsOutsideWindow \/ OthersWaited
    \/ EarlyByTheReloads \/ MovesAfterTheLook

\* However a case is left, the fixture on disk, the storage proxy and the peer
\* network are what they were: each restoration exists before its change.
EverythingIsRestored ==
  phase = "closed" => env.source = 1 /\ env.mode = "normal" /\ env.peers = Nodes

\* No case hangs: each request, poll and sleep ends, also when celld does not do
\* what it is waited for.
CaseEnds == <>(phase = "closed")
=============================================================================
