------------------------- MODULE FleetApplications -------------------------
(***************************************************************************)
(* What an application keeps under way in the fleet, and the driver's      *)
(* steps that put it there and judge it: the queue and the workflow of     *)
(* src/QualificationDependencies.ts, the streams and sockets of            *)
(* src/QualificationStreams.ts, with the fixture's side of each            *)
(* (fixtures/qualification/worker.ts).                                     *)
(*                                                                         *)
(* External: a queue delivers what it has accepted at least once, not      *)
(* before its delay, and tells the consumer nothing else; a workflow does  *)
(* not run a step again whose result it has stored; a stream and a socket  *)
(* end with the activation they belong to.                                 *)
(***************************************************************************)
EXTENDS FleetNodes

Steady == UNCHANGED <<docker, lease, own, active, rows, log, requests, notes>>
Serviced == \E n \in Nodes : Healthy(n)

-----------------------------------------------------------------------------
(* The queue.                                                              *)

Messages == DOMAIN jobs.queue
DueNow(m) == jobs.queue[m] = "ready" \/ (jobs.queue[m] = "delayed" /\ jobs.clock = "past")

\* The consumer counts the delivery in the object, and has a message that asks for
\* it delivered once more, 15 seconds later.
Settled(m) == IF jobs.retrying /\ jobs.count[m] = 0 THEN "delayed" ELSE "done"

\* One message may be delivered and, what the consumer said of it lost, once more.
Deliver(m) ==
  /\ phase = "run" /\ Serviced /\ DueNow(m)
  /\ \/ jobs' = [jobs EXCEPT !.count[m] = @ + 1, !.queue[m] = Settled(m),
                             !.late = IF jobs.down THEN @ \cup {m} ELSE @]
     \/ /\ jobs.again = 0
        /\ jobs' = [jobs EXCEPT !.count[m] = @ + 1, !.again = m,
                                !.late = IF jobs.down THEN @ \cup {m} ELSE @]
  /\ Steady /\ UNCHANGED <<betrayed, control>>

\* Fifteen seconds since the driver read its clock, before it sent the messages.
DelayPasses ==
  /\ phase = "run" /\ jobs.clock = "ahead" /\ jobs' = [jobs EXCEPT !.clock = "past"]
  /\ Steady /\ UNCHANGED <<betrayed, control>>

-----------------------------------------------------------------------------
(* The workflow: two steps, each counted, and an event between them.       *)

RunStep ==
  /\ phase = "run" /\ Serviced
  /\ jobs' = CASE jobs.flow = "started" -> [jobs EXCEPT !.first = @ + 1, !.flow = "firstDone"]
               [] jobs.flow = "firstDone" -> [jobs EXCEPT !.flow = "waiting"]
               [] jobs.flow = "waiting" /\ jobs.event ->
                    [jobs EXCEPT !.last = @ + 1, !.flow = "lastDone"]
               [] jobs.flow = "lastDone" -> [jobs EXCEPT !.flow = "complete"]
               [] OTHER -> jobs
  /\ jobs' # jobs /\ Steady /\ UNCHANGED <<betrayed, control>>

\* A fleet that is down loses a message, or the result of a step.
Forget ==
  /\ phase = "run" /\ Up = {} /\ MayErr("forgetful")
  /\ \/ \E m \in Messages : /\ jobs.queue[m] \in {"ready", "delayed"}
                            /\ jobs' = [jobs EXCEPT !.queue[m] = "lost"]
     \/ jobs.flow = "waiting" /\ jobs' = [jobs EXCEPT !.flow = "started"]
  /\ betrayed' = TRUE /\ Steady /\ UNCHANGED control

-----------------------------------------------------------------------------
(* Streams and sockets, entered through the first node.                    *)

\* The activation that accepted them is still there, and so is their entry.
Lives == Serving /\ own.epoch = jobs.by /\ container[Order[1]] = "up"

\* The stream in flight reaches the next of the records it was opened for.
NextRecord ==
  /\ phase = "run" /\ jobs.got > 0 /\ jobs.got < Len(jobs.expected) - 1 /\ Lives
  /\ jobs' = [jobs EXCEPT !.got = @ + 1]
  /\ Steady /\ UNCHANGED <<betrayed, control>>

\* A lost transport is not a clean close.
SocketEnds(s) ==
  /\ phase = "run" /\ s \in jobs.sockets /\ ~Lives
  /\ \/ jobs' = [jobs EXCEPT !.sockets = @ \ {s}] /\ UNCHANGED betrayed
     \/ /\ MayErr("clean") /\ betrayed' = TRUE
        /\ jobs' = [jobs EXCEPT !.sockets = @ \ {s}, !.clean = TRUE]
  /\ Steady /\ UNCHANGED control

-----------------------------------------------------------------------------
(* The driver's steps.                                                     *)

\* /queue/send: each message with its delay, or with the wish to be retried.
SendMessages ==
  /\ At("enqueue") /\ Expect(Reachable(Subject))
  /\ jobs' = [jobs EXCEPT !.queue = [m \in 1..Batch |-> IF Step.retry THEN "ready" ELSE "delayed"],
                          !.count = [m \in 1..Batch |-> 0],
                          !.retrying = Step.retry, !.clock = "ahead"]
  /\ Steady /\ UNCHANGED betrayed

\* /flow/start and /flow/continue.
Tell ==
  /\ Running /\ Step.op \in {"flowStart", "flowContinue"} /\ Expect(Reachable(Subject))
  /\ jobs' = IF Step.op = "flowStart" THEN [jobs EXCEPT !.flow = "started"]
                                      ELSE [jobs EXCEPT !.event = TRUE]
  /\ Steady /\ UNCHANGED betrayed

\* /events, once; the driver's clock (lines 42, 83, 94-97).
ReadEvents ==
  /\ Running /\ Step.op \in {"noEvents", "firstOnce", "bothOnce"}
  /\ IF ~Reachable(Subject) THEN Fail
     ELSE /\ Serving
          /\ Expect(CASE Step.op = "noEvents"  -> \A m \in Messages : jobs.count[m] = 0
                      [] Step.op = "firstOnce" -> jobs.first = 1 /\ jobs.last = 0
                      [] Step.op = "bothOnce"  -> jobs.first = 1 /\ jobs.last = 1)
  /\ Steady /\ UNCHANGED <<jobs, betrayed>>

\* /events or /flow/status, polled (lines 34-37, 54-59, 71-81, 85-92), and what is
\* asked of the answer (lines 38-41, 60-63 and 93).
Met ==
  CASE Step.op = "delivered"    -> \A m \in Messages : jobs.count[m] >= 1
    [] Step.op = "drained"      -> \A m \in Messages : jobs.count[m] >= Step.times
    [] Step.op = "firstSeen"    -> jobs.first > 0
    [] Step.op = "flowWaits"    -> jobs.flow = "waiting"
    [] Step.op = "flowComplete" -> jobs.flow = "complete"
Right ==
  CASE Step.op = "delivered"    -> \A m \in Messages : jobs.count[m] = 1
    [] Step.op = "flowComplete" -> jobs.first = 1 /\ jobs.last = 1
    [] OTHER                    -> TRUE
Hopeless == \E m \in Messages : jobs.queue[m] = "lost"
PollEvents ==
  /\ Running /\ Step.op \in {"delivered", "drained", "firstSeen", "flowWaits", "flowComplete"}
  /\ \/ Reachable(Subject) /\ Serving /\ Met /\ Expect(Right)
     \/ (~Reachable(Subject) \/ (~Met /\ Hopeless)) /\ Fail
  /\ Steady /\ UNCHANGED <<jobs, betrayed>>

\* Lines 45 and 51: fifteen seconds are not over when the last node is dead, and
\* they are after sixteen more.
Clock ==
  /\ \/ At("notDue") /\ Expect(jobs.clock = "ahead") /\ jobs' = [jobs EXCEPT !.down = Up = {}]
     \/ At("overdue") /\ jobs.clock = "past" /\ Advance /\ UNCHANGED jobs
  /\ Steady /\ UNCHANGED betrayed

\* The history the streams are held against; the first reader has its record, the
\* second is in flight once it has one.
OpenStream ==
  /\ Running /\ Step.op \in {"expect", "follow"}
  /\ IF ~Reachable(Subject) THEN Fail /\ UNCHANGED jobs
     ELSE /\ Serving /\ Advance
          /\ jobs' = IF Step.op = "expect" THEN [jobs EXCEPT !.expected = rows]
                                           ELSE [jobs EXCEPT !.by = own.epoch, !.got = 1]
  /\ Steady /\ UNCHANGED betrayed

\* Lines 315-319: it has ended without the end it was opened for.
JoinStream ==
  /\ At("cutOff") /\ ~Lives /\ Expect(jobs.got < Len(jobs.expected) - 1)
  /\ Steady /\ UNCHANGED <<jobs, betrayed>>

\* Lines 320-321: the rest, from the first reader's cursor on.
ReadRest ==
  /\ At("rest")
  /\ IF ~Reachable(Subject) THEN Fail /\ UNCHANGED betrayed
     ELSE /\ Serving
          /\ \/ Expect(<<Head(jobs.expected)>> \o Tail(rows) = jobs.expected) /\ UNCHANGED betrayed
             \/ /\ MayErr("skips") /\ Len(rows) > 1 /\ betrayed' = TRUE
                /\ Expect(<<Head(jobs.expected)>> \o Tail(Tail(rows)) = jobs.expected)
  /\ Steady /\ UNCHANGED jobs

\* Lines 184-221 and 240-245: sockets that have each had an answer; line 258, again.
HoldSockets ==
  /\ At("hold")
  /\ IF ~Reachable(Subject) THEN Fail /\ UNCHANGED jobs
     ELSE /\ Serving /\ Advance
          /\ jobs' = [jobs EXCEPT !.sockets = {1, 2}, !.by = own.epoch]
  /\ Steady /\ UNCHANGED betrayed

\* QualificationOracles.ts lines 42-69, with the retried connection's activation.
checkSocketFailover == ~jobs.clean /\ own.epoch # jobs.by
SeeSockets ==
  /\ \/ At("closed") /\ jobs.sockets = {} /\ Advance
     \/ At("reconnect") /\ Reachable(Subject) /\ Serving /\ Expect(checkSocketFailover)
  /\ Steady /\ UNCHANGED <<jobs, betrayed>>

ApplicationStep ==
  \/ SendMessages \/ Tell \/ ReadEvents \/ PollEvents \/ Clock
  \/ OpenStream \/ JoinStream \/ ReadRest \/ HoldSockets \/ SeeSockets

\* What goes on by itself.
Work ==
  \/ DelayPasses \/ RunStep \/ NextRecord
  \/ \E m \in Messages : Deliver(m)
  \/ \E s \in jobs.sockets : SocketEnds(s)
=============================================================================
