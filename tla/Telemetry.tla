------------------------------ MODULE Telemetry ------------------------------
(***************************************************************************)
(* The telemetry cases that read a collector: the sidecar of               *)
(* src/TelemetryCollector.ts, which records what celld exports and can     *)
(* refuse it for a while, and the driver's traceContext and                *)
(* exportIsolation (src/QualificationTelemetry.ts), whose oracles          *)
(* (src/TelemetryOracles.ts) decide on one reading of the collector.       *)
(*                                                                         *)
(* celld is external.  A node notes a log line at once and a span when it  *)
(* has ended; at a tick its exporter makes a batch of the logs and one of  *)
(* the spans, sends them on their own, and repeats one that was refused or *)
(* got no answer.  Defects names the ways in which celld may be wrong.     *)
(* What the traced case's first writes export has no part in it.           *)
(* No buffer of the collector reaches its limit of 8192 entries, and       *)
(* celld's answers to the driver are the business of History.              *)
(***************************************************************************)
EXTENDS Naturals, Sequences, FiniteSets, FiniteSetsExt, Bags

CONSTANTS
  Homes,         \* the nodes that may own the traced cell
  Defects,       \* defects celld may have, "none" among them
  MaxAttempts,   \* deliveries of one batch, MAX_ATTEMPTS in TelemetryOracles.ts
  LostReplies,   \* how many of the collector's answers get lost
  Losing         \* the signals whose answers do

ASSUME HomesAssumption == Homes \subseteq {"celld", "celld3"}
ASSUME DefectsAssumption == "none" \in Defects
ASSUME BoundsAssumption ==
  MaxAttempts \in Nat \ {0, 1} /\ LostReplies \in Nat /\ Losing \subseteq {"traces", "logs"}

Cases == {"trace-context", "export-isolation"}
Nodes == {"celld", "celld3"}      \* the second one samples no root request
Signals == {"traces", "logs"}
None == "none"

VARIABLES
  case, defect,
  home,         \* the node that owns the traced cell
  step,         \* the driver's next step
  open,         \* open[n]: spans of n that have not ended
  pending,      \* pending[n]: records n has not put in a batch
  sending,      \* sending[n][s]: the batch in flight, or {}
  attempts,     \* attempts[n][s]: how often it was sent
  mode,         \* the collector's mode
  trail,        \* trail[n][s]: the statuses the batch in flight has met
  groups,       \* what batches no longer in flight have met
  received,     \* the bag of records accepted
  resources,    \* resources[s]: the service named by the last batch accepted
  verdict,
  lost,         \* ghost: answers lost
  left,         \* ghost: records not yet accepted at the last reading
  misnamed      \* ghost: some payload did not name the service when it was judged

celld == <<open, pending, sending, attempts>>
collector == <<mode, trail, groups, received, resources>>
setting == <<case, defect, home>>
ghosts == <<lost, left, misnamed>>
vars == <<setting, step, celld, collector, verdict, ghosts>>

-----------------------------------------------------------------------------
(* Records.  A trace is named by the request that began it, a span by its  *)
(* place in it.                                                            *)

Log(body, trace, span) ==
  [signal |-> "logs", name |-> body, trace |-> trace, span |-> span, parent |-> None]
Span(name, trace, span, parent) ==
  [signal |-> "traces", name |-> name, trace |-> trace, span |-> span, parent |-> parent]

\* A request to /trace/emit: one line, in a handler of its own trace.
Emit(marker, parent) ==
  [logs |-> {Log(marker, marker, marker)},
   spans |-> {Span("celld.fetch", marker, marker, parent)}]

\* The trace the cell is in, the handler its second line is put down to, and
\* what the downstream fixture reads in the header of the outbound call.
CellTrace == IF defect = "new trace" THEN "cell" ELSE "sent"
AwaitSpan == IF defect = "await" THEN "worker" ELSE "cell"
Header == [trace |-> CellTrace,
           span |-> IF defect = "reuse" THEN "cell" ELSE "outbound"]

WorkerPart ==
  [logs |-> {Log("worker", "sent", "worker")},
   spans |-> {Span("celld.fetch", "sent", "worker", "remote")}]
CellPart ==
  [logs |-> {Log("cell", CellTrace, "cell"), Log("cell-await", CellTrace, AwaitSpan)},
   spans |-> {Span("celld.cell_fetch", CellTrace, "cell",
                   IF defect = "orphan" THEN None ELSE "worker"),
              Span("fetch", CellTrace, "outbound", "cell")}]

Nothing == [logs |-> {}, spans |-> {}]
Together(a, b) == [logs |-> a.logs \cup b.logs, spans |-> a.spans \cup b.spans]

\* What a step of the driver makes node n record.
Produced(at, n) ==
  CASE at = "chain" ->
         Together(IF n = "celld" THEN WorkerPart ELSE Nothing,
                  IF n = home THEN CellPart ELSE Nothing)
    [] at = "malformed" /\ n = "celld" ->
         Emit("malformed", IF defect = "adopt" THEN "remote" ELSE None)
    [] at \in {"sampled", "outage"} /\ n = "celld" -> Emit(at, None)
    [] at = "probe" /\ n = "celld" ->
         IF defect = "mute" THEN Nothing ELSE Emit(at, None)
    [] at = "unsampled" /\ n = "celld3" ->
         IF defect = "sample" THEN Emit(at, None) ELSE Nothing
    [] at \in {"batch", "traffic"} /\ n = "celld3" ->
         [Nothing EXCEPT !.spans = {Span("celld.cell_fetch", at, at, None)}]
    [] OTHER -> Nothing

Service(n) == IF defect = "misname" /\ n = "celld3" THEN "other" ELSE "tck-telemetry"

-----------------------------------------------------------------------------
(* celld's exporters and the collector.                                    *)

\* The fleet is removed with its case.
InUse == verdict = None

Undelivered == UNION {open[n] \cup pending[n] \cup sending[n]["traces"] \cup
                      sending[n]["logs"] : n \in Nodes}

SpansEnd(n) ==
  /\ InUse /\ open[n] # {}
  /\ pending' = [pending EXCEPT ![n] = @ \cup open[n]]
  /\ open' = [open EXCEPT ![n] = {}]
  /\ UNCHANGED <<setting, step, sending, attempts, collector, verdict, ghosts>>

Flush(n) ==
  /\ InUse /\ pending[n] # {} /\ \A s \in Signals : sending[n][s] = {}
  /\ sending' = [sending EXCEPT ![n] = [s \in Signals |-> {r \in pending[n] : r.signal = s}]]
  /\ attempts' = [attempts EXCEPT ![n] = [s \in Signals |-> 0]]
  /\ pending' = [pending EXCEPT ![n] = {}]
  /\ UNCHANGED <<setting, step, open, collector, verdict, ghosts>>

Status(m) == CASE m = "normal" -> 200 [] m = "transient" -> 503 [] m = "permanent" -> 400

\* Deliveries of one digest, celld resending the same encoded body: where it
\* came from and the statuses it met.
Group(n, s, statuses) == [node |-> n, signal |-> s, statuses |-> statuses]
Deliveries ==
  groups \cup {Group(p[1], p[2], trail[p[1]][p[2]]) :
                 p \in {q \in Nodes \X Signals : trail[q[1]][q[2]] # <<>>}}

\* A rejected payload is a delivery, but its records are not received.
Accept(n, s) ==
  IF Status(mode) = 200
    THEN /\ received' = received (+) SetToBag(sending[n][s])
         /\ resources' = [resources EXCEPT ![s] = Service(n)]
    ELSE UNCHANGED <<received, resources>>

\* The collector answers, and the exporter keeps a batch it may send again.
Deliver(n, s) ==
  /\ InUse /\ sending[n][s] # {} /\ Accept(n, s)
  /\ attempts' = [attempts EXCEPT ![n][s] = @ + 1]
  /\ \E answered \in BOOLEAN :
       LET met == Append(trail[n][s], Status(mode))
           again == /\ attempts'[n][s] < MaxAttempts
                    /\ ~answered \/ (Status(mode) = 503 /\ defect # "give up")
       IN /\ answered \/ (lost < LostReplies /\ s \in Losing)
          /\ lost' = IF answered THEN lost ELSE lost + 1
          /\ sending' = IF again THEN sending ELSE [sending EXCEPT ![n][s] = {}]
          /\ trail' = [trail EXCEPT ![n][s] = IF again THEN met ELSE <<>>]
          /\ groups' = IF again THEN groups ELSE groups \cup {Group(n, s, met)}
  /\ UNCHANGED <<setting, step, open, pending, mode, verdict, left, misnamed>>

\* Mutant: the window is compared with the wrong clock.
WindowStays == InUse /\ mode # "normal" /\ UNCHANGED vars

\* Date.now() passes the collector's until.
WindowEnds ==
  /\ InUse /\ mode # "normal" /\ mode' = "normal"
  /\ UNCHANGED <<setting, step, celld, trail, groups, received, resources, verdict, ghosts>>

-----------------------------------------------------------------------------
(* The driver.                                                             *)

Program ==
  [c \in Cases |->
    IF c = "trace-context"
      THEN <<"reset", "chain", "malformed", "sampled", "unsampled", "markers">>
      ELSE <<"batch", "reset", "probe", "envelope", "disturb", "traffic", "outage",
             "refusal", "window">>]
Requests == {"batch", "chain", "malformed", "sampled", "unsampled", "probe", "traffic", "outage"}
Readings == {"markers", "envelope", "refusal", "window"}
Decisive == {"markers", "window"}

At == IF verdict = None THEN Program[case][step] ELSE "done"
Advance == step' = step + 1 /\ UNCHANGED verdict

Request ==
  /\ At \in Requests /\ Advance
  /\ pending' = [n \in Nodes |-> pending[n] \cup Produced(At, n).logs]
  /\ open' = [n \in Nodes |-> open[n] \cup Produced(At, n).spans]
  /\ UNCHANGED <<setting, sending, attempts, collector, ghosts>>

\* The sidecar forgets everything but the resources, and works normally.
Reset ==
  /\ At = "reset" /\ Advance
  /\ trail' = [n \in Nodes |-> [s \in Signals |-> <<>>]] /\ groups' = {}
  /\ received' = EmptyBag /\ mode' = "normal"
  /\ UNCHANGED <<setting, celld, resources, ghosts>>

Disturb ==
  /\ At = "disturb" /\ Advance
  /\ mode' = "transient"
  /\ UNCHANGED <<setting, celld, trail, groups, received, resources, ghosts>>

Received(signal) == {r \in BagToSet(received) : r.signal = signal}
Copies(records) == MapThenSumSet(LAMBDA r : received[r], records)
LogsOf(body) == Copies({r \in Received("logs") : r.name = body})

ChainMarkers == {"worker", "cell", "cell-await"}
Markers == ChainMarkers \cup {"malformed", "sampled"}
Refused(d) == \E i \in DOMAIN d.statuses : d.statuses[i] = 503

\* What each poll waits for.
Settled ==
  CASE At = "markers"  -> \A body \in Markers : LogsOf(body) > 0
    [] At = "envelope" -> LogsOf("probe") > 0
    [] At = "refusal"  -> \E d \in Deliveries : Refused(d)
    [] At = "window"   -> mode = "normal" /\ \E d \in Deliveries : Refused(d)

\* Mutant: the only span of its name, in whatever trace.
checkStepByName(span, name, parent) ==
  /\ span.signal = "traces" /\ span.name = name /\ span.trace = "sent" /\ span.parent = parent
  /\ 1 = Copies({r \in Received("traces") : r.name = name})

\* A step of the chain: the only span of its name, in its trace, under its
\* parent.
checkStep(span, name, parent) ==
  /\ span.signal = "traces" /\ span.name = name /\ span.trace = "sent" /\ span.parent = parent
  /\ 1 = Copies({r \in Received("traces") :
                     r.name = name /\ r.trace = "sent" /\ r.parent = parent})

checkLogCorrelation(body, span) ==
  /\ LogsOf(body) = 1
  /\ \E r \in BagToSet(received) : r = Log(body, "sent", span.span)

checkOutboundHeader(outbound, cell) ==
  Header.trace = "sent" /\ Header.span # cell.span /\ Header.span = outbound.span

checkChain ==
  \E worker, cell, outbound \in BagToSet(received) :
    /\ checkStep(worker, "celld.fetch", "remote")
    /\ checkStep(cell, "celld.cell_fetch", worker.span)
    /\ checkStep(outbound, "fetch", cell.span)
    /\ Cardinality({worker.span, cell.span, outbound.span}) = 3
    /\ checkLogCorrelation("worker", worker)
    /\ checkLogCorrelation("cell", cell)
    /\ checkLogCorrelation("cell-await", cell)
    /\ checkOutboundHeader(outbound, cell)

traceOfMarker(body) == LogsOf(body) = 1

checkIndependentTrace(body) ==
  \E log, root \in BagToSet(received) :
    /\ log.signal = "logs" /\ log.name = body /\ log.trace # "sent"
    /\ root.signal = "traces" /\ root.span = log.span /\ root.parent = None
    /\ 1 = Copies({r \in Received("traces") : r.span = log.span})

checkNotRecorded(body) == LogsOf(body) = 0

traceContextHolds ==
  /\ checkChain
  /\ traceOfMarker("malformed") /\ checkIndependentTrace("malformed")
  /\ traceOfMarker("sampled") /\ checkNotRecorded("unsampled")

checkExportEnvelope ==
  \A s \in Signals :
    /\ \E d \in Deliveries : d.signal = s
    /\ resources[s] = "tck-telemetry"

\* Mutant: having been refused is good enough.
checkRetryEvidenceOfRefusal ==
  /\ \A d \in Deliveries : Len(d.statuses) <= MaxAttempts
  /\ \E d \in Deliveries : Refused(d)

checkRetryEvidence ==
  /\ \A d \in Deliveries : Len(d.statuses) <= MaxAttempts
  /\ \E d \in Deliveries : Len(d.statuses) > 1 /\ Refused(d)

checkOutageObserved == \E d \in Deliveries : Refused(d)

\* The oracles that judge a reading; the poll for a refusal has none.
Holds ==
  CASE At = "markers"  -> traceContextHolds
    [] At = "envelope" -> checkExportEnvelope
    [] At = "refusal"  -> TRUE
    [] At = "window"   -> checkOutageObserved /\ checkRetryEvidence

Misnamed == \E d \in Deliveries : Service(d.node) # "tck-telemetry"

\* A poll that is done, and the checks on the state it returned.
Read ==
  /\ At \in Readings /\ Settled
  /\ IF ~Holds THEN verdict' = "fail" /\ UNCHANGED step
     ELSE IF At \in Decisive THEN verdict' = "pass" /\ UNCHANGED step
     ELSE Advance
  /\ left' = Undelivered
  /\ misnamed' = IF At = "envelope" THEN Misnamed ELSE misnamed
  /\ UNCHANGED <<setting, celld, collector, lost>>

\* A poll makes 121 attempts at half a second: longer than the collector's window
\* of 25 seconds, whatever celld's exporters have left.
GiveUp ==
  /\ At \in Readings /\ ~Settled /\ mode = "normal"
  /\ verdict' = "fail" /\ left' = Undelivered
  /\ UNCHANGED <<setting, step, celld, collector, lost, misnamed>>

\* The defects that a case is there to find.
Sought ==
  [c \in Cases |-> IF c = "trace-context"
    THEN {"new trace", "await", "reuse", "orphan", "adopt", "sample"}
    ELSE {"give up", "mute"}]

Concerns == [c \in Cases |-> Sought[c] \cup {"none", "misname"}]

Init ==
  /\ case \in Cases /\ defect \in Defects \cap Concerns[case]
  /\ home \in Homes
  /\ step = 1 /\ verdict = None
  /\ open = [n \in Nodes |-> {}] /\ pending = [n \in Nodes |-> {}]
  /\ sending = [n \in Nodes |-> [s \in Signals |-> {}]]
  /\ attempts = [n \in Nodes |-> [s \in Signals |-> 0]]
  /\ mode = "normal" /\ groups = {}
  /\ trail = [n \in Nodes |-> [s \in Signals |-> <<>>]]
  /\ received = EmptyBag
  /\ resources = [s \in Signals |-> None]
  /\ lost = 0 /\ left = {} /\ misnamed = FALSE

Driver == Request \/ Reset \/ Disturb \/ Read \/ GiveUp
Exporter ==
  \E n \in Nodes : SpansEnd(n) \/ Flush(n) \/ \E s \in Signals : Deliver(n, s)

Next == Driver \/ Exporter \/ WindowEnds

Spec == Init /\ [][Next]_vars

\* The driver goes on, exporters send what they have, which is finite, and the
\* window closes by itself.
FairSpec ==
  /\ Spec
  /\ WF_vars(Driver) /\ WF_vars(Exporter) /\ WF_vars(WindowEnds)

-----------------------------------------------------------------------------
(* Properties.                                                             *)

TypeOK ==
  /\ case \in Cases /\ defect \in Defects /\ home \in Nodes
  /\ step \in 1..Len(Program[case]) /\ verdict \in {None, "pass", "fail"}
  /\ mode \in {"normal", "transient", "permanent"}
  /\ \A n \in Nodes : \A r \in open[n] : r.signal = "traces"
  /\ \A n \in Nodes, s \in Signals :
       /\ \A r \in sending[n][s] : r.signal = s
       /\ attempts[n][s] \in 0..MaxAttempts
       /\ sending[n][s] # {} => attempts[n][s] < MaxAttempts
  /\ \A d \in Deliveries :
       Len(d.statuses) <= MaxAttempts /\ \A i \in DOMAIN d.statuses : d.statuses[i] \in {200, 400, 503}
  /\ IsABag(received) /\ lost \in 0..LostReplies

\* A case passes a defective celld in two ways only: the record that should
\* not exist was still on its way when the collector was read, or the batch
\* that was refused had been sent before because an answer got lost.
DefectsAreCaught ==
  verdict = "pass" /\ defect \in Sought[case] =>
    \/ defect = "sample" /\ \E r \in left : r.name = "unsampled" \/ r.trace = "unsampled"
    \/ defect = "give up" /\ lost > 0

\* A correct celld fails a case only when the collector was read before all
\* of the records had reached it, when an answer was lost, or when the window
\* closed before anything met it.
FalseAlarmsAreEarly ==
  verdict = "fail" /\ defect = "none" =>
    \/ left # {}
    \/ lost > 0
    \/ case = "export-isolation" /\ \A d \in Deliveries : ~Refused(d)

\* Every case comes to a verdict.
CaseEnds == <>(verdict # None)

\* docs/CLI-TELEMETRY.md: every payload has to name the configured service.
EveryPayloadNamesTheService == verdict = "pass" => ~misnamed

=============================================================================
