---------------------------- MODULE StorageProxy ----------------------------
(***************************************************************************)
(* The proxy between celld and its store (src/StorageProxy.ts) in the      *)
(* storage fault scenario (src/QualificationFaults.ts, lines 16-49): the   *)
(* driver opens a window of disturbance, lets celld upload through it,     *)
(* asks the proxy for evidence that the cell's own uploads were disturbed, *)
(* and kills and restarts the fleet.                                       *)
(*                                                                         *)
(* The mode of a request is the one in force when it arrives, whatever     *)
(* happens to it later.  celld is external: one upload at a time, retried  *)
(* with a request of its own until an answer says that the object is there.*)
(* Uploads are conditional, so the store takes each object once.           *)
(***************************************************************************)
EXTENDS Naturals, Sequences, FiniteSets, SequencesExt

CONSTANTS
  Modes,       \* the fault modes to try: "latency", "throttle", "timeout", "drop"
  Limit,       \* events the proxy keeps (2048)
  Uploads,     \* uploads the traffic, or the last batch, causes (24 and 4 writes)
  MaxRequests, \* bound: requests celld makes
  Interrupts   \* the case's timer or a signal may stop the scenario

ASSUME ProxyAssumption ==
  /\ Modes \subseteq {"latency", "throttle", "timeout", "drop"}
  /\ Limit \in Nat \ {0} /\ Uploads \in Nat /\ MaxRequests \in Nat
  /\ Interrupts \in BOOLEAN

VARIABLES
  control,   \* the mode of the control listener
  window,    \* Date.now() < until
  requests,  \* every request that reached the proxy, in order
  events,    \* what it remembers of them: their places in requests
  stored,    \* the objects in the store
  committed, \* uploads celld knows to be stored
  wanted,    \* uploads its writes have asked for
  process,   \* the incarnation of celld
  fault,     \* the scenario's mode
  pc, outcome, \* the scenario's next step; "none", "passed", "failed", "interrupted"
  restores,  \* the finalizer that ends the disturbance is installed
  evidence,  \* what the evidence check said, once it was asked
  struck     \* ghost: by then an upload of the cell had been disturbed

proxy  == <<control, window, requests, events>>
celld  == <<stored, committed, wanted, process>>
driver == <<fault, pc, outcome, restores, evidence, struck>>
vars   == <<proxy, celld, driver>>

Request == [object : Nat, method : {"PUT", "GET"}, mode : Modes \cup {"normal"},
            stage : {"held", "upstream", "responded", "answered", "dropped",
                     "destroyed", "throttled"},
            status : {0, 200, 404, 412}, by : Nat]

\* Object 0 stands for everything that is not under the cell's ltx path; a
\* connection that breaks there is not told from one that does not.
OfCell(i) == requests[i].object > 0
Stage(i) == requests[i].stage
Sees(i) == requests[i].stage \in {"answered", "dropped", "destroyed", "throttled"}

Program == <<"batch", "mode", "finalizer", "traffic", "join", "normal", "stats",
             "kill", "lapse", "start", "writes", "again", "verify">>
Reached(step) == pc > CHOOSE k \in DOMAIN Program : Program[k] = step
At(step) == outcome = "none" /\ pc <= Len(Program) /\ Program[pc] = step
\* celld runs; once the scenario has ended what it asks for is of no interest.
Alive == outcome = "none" /\ ~(Reached("kill") /\ ~Reached("start"))

TypeOK ==
  /\ control \in Modes \cup {"normal"} /\ window \in BOOLEAN
  /\ requests \in Seq(Request) /\ Len(requests) <= MaxRequests
  /\ events \in Seq(DOMAIN requests) /\ Len(events) <= Limit
  /\ stored \subseteq 1..wanted /\ committed \in 0..wanted /\ wanted \in Nat
  /\ process \in Nat /\ fault \in Modes
  /\ pc \in 1..(Len(Program) + 1)
  /\ outcome \in {"none", "passed", "failed", "interrupted"}
  /\ restores \in BOOLEAN /\ evidence \in {"unasked", "seen", "absent"}
  /\ struck \in BOOLEAN

Init ==
  /\ control = "normal" /\ window = FALSE /\ requests = <<>> /\ events = <<>>
  /\ stored = {} /\ committed = 0 /\ wanted = 1 /\ process = 1
  /\ fault \in Modes /\ pc = 1 /\ outcome = "none"
  /\ restores = FALSE /\ evidence = "unasked" /\ struck = FALSE

-----------------------------------------------------------------------------
(* The data listener, lines 42-116.                                        *)

\* Lines 45-50.
ModeNow == IF window THEN control ELSE "normal"

\* Lines 51-74: the event is recorded, then the mode decides.
New(object, method) ==
  [object |-> object, method |-> method, mode |-> ModeNow,
   stage |-> CASE ModeNow = "throttle" -> "throttled"
               [] ModeNow \in {"timeout", "latency"} -> "held"
               [] OTHER -> "upstream",
   status |-> 0, by |-> process]
\* Mutant: the record makes room one event too late.
ArriveLate(object, method) ==
  /\ requests' = Append(requests, New(object, method))
  /\ events' = Append(IF Len(events) > Limit THEN Tail(events) ELSE events,
                      Len(requests) + 1)
  /\ UNCHANGED <<control, window>>
Arrive(object, method) ==
  /\ requests' = Append(requests, New(object, method))
  /\ events' = Append(IF Len(events) >= Limit THEN Tail(events) ELSE events,
                      Len(requests) + 1)
  /\ UNCHANGED <<control, window>>

Becomes(i, stage) ==
  /\ requests' = [requests EXCEPT ![i].stage = stage]
  /\ UNCHANGED <<control, window, events>>

\* Lines 69-75: twelve seconds and a broken connection, or a delay.  Mutant: the
\* connection is not destroyed, its answer is ended, and so is a 200.
ReleaseAnswers == \E i \in DOMAIN requests :
  /\ Stage(i) = "held"
  /\ IF requests[i].mode = "timeout"
     THEN /\ requests' = [requests EXCEPT ![i].stage = "answered", ![i].status = 200]
          /\ UNCHANGED <<control, window, events>>
     ELSE Becomes(i, "upstream")
  /\ UNCHANGED <<celld, driver>>
Release == \E i \in DOMAIN requests :
  /\ Stage(i) = "held"
  /\ Becomes(i, IF requests[i].mode = "timeout" THEN "destroyed" ELSE "upstream")
  /\ UNCHANGED <<celld, driver>>

\* The store answers; its PUT is conditional on the object's absence.
Upstream == \E i \in DOMAIN requests :
  LET r == requests[i]
      there == r.object \in stored
      status == CASE r.object = 0 -> 200
                  [] r.method = "PUT" -> IF there THEN 412 ELSE 200
                  [] OTHER -> IF there THEN 200 ELSE 404
  IN /\ r.stage = "upstream"
     /\ requests' = [requests EXCEPT ![i].stage = "responded", ![i].status = status]
     /\ stored' = IF r.method = "PUT" /\ r.object > 0 THEN stored \cup {r.object}
                  ELSE stored
     /\ UNCHANGED <<control, window, events, committed, wanted, process, driver>>

\* Lines 90-107.
Relay == \E i \in DOMAIN requests :
  /\ Stage(i) = "responded"
  /\ \/ Becomes(i, IF requests[i].mode = "drop" /\ requests[i].method = "PUT"
                   THEN "dropped" ELSE "answered")
     \/ OfCell(i) /\ Becomes(i, "destroyed")   \* it breaks off, lines 108-111
  /\ UNCHANGED <<celld, driver>>

\* Lines 117-120: the connection to the store breaks, or takes 15 seconds.
UpstreamBreaks == \E i \in DOMAIN requests :
  /\ Stage(i) = "upstream" /\ OfCell(i) /\ Becomes(i, "destroyed")
  /\ UNCHANGED <<celld, driver>>

\* Date.now() >= until.  Mutant: the window stays open until it is told otherwise.
WindowStaysOpen == FALSE /\ UNCHANGED vars
WindowCloses ==
  /\ window /\ window' = FALSE
  /\ UNCHANGED <<control, requests, events, celld, driver>>

\* Lines 126-141.
SetMode(mode) ==
  /\ control' = mode /\ window' = (mode # "normal")
  /\ UNCHANGED <<requests, events>>

-----------------------------------------------------------------------------
(* celld.                                                                  *)

Own(i) == requests[i].by = process
Current == {i \in DOMAIN requests : Own(i) /\ requests[i].object = committed + 1}

\* The answer says that the object is there: taken now, or by an earlier attempt.
Tells(i) == Stage(i) = "answered" /\ requests[i].status \in {200, 412}

Upload ==
  /\ Alive /\ committed < wanted /\ Len(requests) < MaxRequests
  /\ \A i \in Current : Sees(i) /\ ~Tells(i)
  /\ \E method \in {"PUT", "GET"} :
       /\ method = "GET" => Current # {}
       /\ Arrive(committed + 1, method)
  /\ UNCHANGED <<celld, driver>>

Learn ==
  /\ Alive /\ committed < wanted
  /\ \E i \in Current : Tells(i)
  /\ committed' = committed + 1
  /\ UNCHANGED <<proxy, stored, wanted, process, driver>>

\* Leases and listings, one at a time, until the record of them has been read.
OtherRequest ==
  /\ Alive /\ ~Reached("stats") /\ Len(requests) < MaxRequests
  /\ \A i \in DOMAIN requests : OfCell(i) \/ Sees(i)
  /\ Arrive(0, "PUT")
  /\ UNCHANGED <<celld, driver>>

-----------------------------------------------------------------------------
(* The scenario, QualificationFaults.ts lines 16-49.                       *)

Advance == pc' = pc + 1 /\ UNCHANGED <<fault, outcome>>
Remains == UNCHANGED <<restores, evidence, struck>>

\* Lines 21 and 46: every write of a batch is acknowledged, or the case fails.
Batch ==
  /\ At("batch") \/ At("again")
  /\ \/ committed = wanted /\ Advance
     \/ committed < wanted /\ outcome' = "failed" /\ UNCHANGED <<fault, pc>>
  /\ Remains /\ UNCHANGED <<proxy, celld>>
\* Lines 30 and 46.  What becomes of the traffic's writes is not asked: they end with
\* their uploads or with the client's patience.
Traffic ==
  /\ At("traffic") \/ At("writes")
  /\ wanted' = wanted + Uploads
  /\ Advance /\ Remains /\ UNCHANGED <<proxy, stored, committed, process>>
Join == At("join") /\ Advance /\ Remains /\ UNCHANGED <<proxy, celld>>

\* Lines 26-31: the mode, and only then the finalizer.
Disturb == At("mode") /\ SetMode(fault) /\ Advance /\ Remains /\ UNCHANGED celld
Install ==
  /\ At("finalizer") /\ restores' = TRUE /\ Advance
  /\ UNCHANGED <<evidence, struck, proxy, celld>>
Restore == At("normal") /\ SetMode("normal") /\ Advance /\ Remains /\ UNCHANGED celld

\* QualificationOracles.ts lines 12-26.  Mutant: the mode alone is evidence.
hasEventOfMode(mode) == \E k \in DOMAIN events : requests[events[k]].mode = mode
hasStorageFaultEvidence(mode) ==
  \E k \in DOMAIN events :
    LET event == requests[events[k]]
    IN /\ event.mode = mode /\ event.object > 0
       /\ mode = "drop" =>
            event.method = "PUT" /\ event.status = 200 /\ event.stage = "dropped"

\* What each mode is meant to do to an upload of the cell.
Disturbed(i) ==
  /\ OfCell(i) /\ requests[i].mode = fault
  /\ CASE fault = "throttle" -> Stage(i) = "throttled"
       [] fault = "timeout"  -> Stage(i) \in {"held", "destroyed"} /\ requests[i].status = 0
       [] fault = "drop"     -> requests[i].object \in stored /\ Stage(i) = "dropped"
       [] OTHER              -> TRUE

\* Lines 32-44.
Stats ==
  /\ At("stats")
  /\ evidence' = IF hasStorageFaultEvidence(fault) THEN "seen" ELSE "absent"
  /\ struck' = \E i \in DOMAIN requests : Disturbed(i)
  /\ IF evidence' = "seen" THEN Advance ELSE outcome' = "failed" /\ UNCHANGED <<fault, pc>>
  /\ UNCHANGED <<restores, proxy, celld>>

\* QualificationContext.ts lines 226-233: every process is killed; what its
\* requests had reached, the proxy, goes on without it.
KillAll ==
  /\ At("kill") /\ process' = process + 1
  /\ Advance /\ Remains /\ UNCHANGED <<proxy, stored, committed, wanted>>

\* Line 231 and Domain.ts line 16: a sleep of eleven seconds.  They outlast the delay
\* of 750 ms, and nothing else: a request may be held for twelve, and a connection to
\* the store may stay open for fifteen without a sign of life (line 111).
Lapse ==
  /\ At("lapse")
  /\ \A i \in DOMAIN requests : ~(Stage(i) = "held" /\ requests[i].mode = "latency")
  /\ Advance /\ Remains /\ UNCHANGED <<proxy, celld>>
\* Line 232: celld finds what the store has taken by now.
Start ==
  /\ At("start") /\ committed' = Cardinality(stored)
  /\ Advance /\ Remains /\ UNCHANGED <<proxy, stored, wanted, process>>
\* Line 47.
Verify ==
  /\ At("verify") /\ outcome' = "passed" /\ pc' = pc + 1
  /\ Remains /\ UNCHANGED <<fault, proxy, celld>>

\* The scope closes: the finalizer, if it is installed.
Interrupt ==
  /\ Interrupts /\ outcome = "none" /\ outcome' = "interrupted"
  /\ UNCHANGED <<fault, pc, proxy, celld>> /\ Remains
Close ==
  /\ outcome # "none" /\ restores /\ restores' = FALSE
  /\ SetMode("normal")
  /\ UNCHANGED <<fault, pc, outcome, evidence, struck, celld>>

Proxy == Release \/ Upstream \/ Relay \/ UpstreamBreaks
Scenario ==
  \/ Batch \/ Traffic \/ Join \/ Disturb \/ Install \/ Restore \/ Stats
  \/ KillAll \/ Lapse \/ Start \/ Verify
Next == Proxy \/ WindowCloses \/ Upload \/ Learn \/ OtherRequest \/ Scenario
        \/ Interrupt \/ Close

\* Sleeps end, the clock reaches the window's end, finalizers run.
Spec == Init /\ [][Next]_vars
FairSpec == Spec /\ WF_vars(Proxy) /\ WF_vars(WindowCloses) /\ WF_vars(Scenario)
            /\ WF_vars(Close) /\ WF_vars(Upload) /\ WF_vars(Learn)

-----------------------------------------------------------------------------
\* Property: what the check takes for evidence is an upload of the cell that was
\* disturbed as the mode says, a dropped one being in the store, unanswered; and
\* one that was disturbed is found, as long as the proxy has not seen more
\* requests than it remembers (QualificationOracles.ts lines 12-26,
\* StorageProxy.ts line 56), unless the store took an object and its answer broke
\* off on the way (lines 108-111): what is dropped then is the 412 of a retry,
\* which the check does not count.
BrokenOff ==
  \E i \in DOMAIN requests : OfCell(i) /\ Stage(i) = "destroyed" /\ requests[i].status = 200
EvidenceIsSound ==
  /\ evidence = "seen" => struck
  /\ evidence = "absent" /\ Len(requests) <= Limit => ~struck \/ (fault = "drop" /\ BrokenOff)

\* Property: whatever the proxy delays, refuses, breaks off or leaves unanswered, and
\* although an upload of a killed process may reach the store when the next one is at
\* work, celld is never told of an object that is not there and the store is never more
\* than the next object ahead of celld; and a scenario that passed has left everything
\* in the store (StorageProxy.ts lines 55-118, QualificationContext.ts lines 226-233).
NothingIsFeigned ==
  /\ 1..committed \subseteq stored /\ stored \subseteq 1..(committed + 1)
  /\ outcome = "passed" => stored = 1..wanted

\* Property: whatever becomes of the scenario, even between the mode and its
\* finalizer, the store is undisturbed in the end (StorageProxy.ts lines 45-50).
DisturbanceEnds == <>[](ModeNow = "normal")
=============================================================================
