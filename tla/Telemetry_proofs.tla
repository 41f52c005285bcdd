--------------------------- MODULE Telemetry_proofs ---------------------------
(***************************************************************************)
(* Proofs about the telemetry cases, for every owner of the cell, every    *)
(* number of deliveries of a batch and every number of lost answers.       *)
(*                                                                         *)
(* A verdict is about what the collector had received when it was read.    *)
(* The invariant follows the records there: nothing is received that no    *)
(* request is to blame for, nothing a case waits for is lost on the way,   *)
(* without a fault nothing arrives twice, and what a batch has met is      *)
(* known as long as it can be sent again.  Each oracle then holds when all *)
(* has arrived, and fails for each defect that its case is there to find.  *)
(***************************************************************************)
EXTENDS Telemetry, FiniteSetTheorems, TLAPS

-----------------------------------------------------------------------------
(* Counting.  No check sums over more than one record.                     *)

\* Nothing is counted in no records.
LEMMA CopiesOfNone == Copies({}) = 0
<1>. DEFINE f == [s \in SUBSET {} |-> 0]
<1>1. SUBSET {} = {{}}
  OBVIOUS
<1>. QED BY <1>1 DEF Copies, MapThenSumSet, MapThenFoldSet

\* One record counts as often as it was received.
LEMMA CopiesOfOne ==
  ASSUME NEW r, IsABag(received), r \in BagToSet(received)
  PROVE  Copies({r}) = received[r] /\ Copies({r}) \in Nat \ {0}
<1>1. SUBSET {r} = {{}, {r}} /\ {r} # {}
  OBVIOUS
<1>2. received[r] \in Nat \ {0}
  BY DEF IsABag, BagToSet
<1>. DEFINE Choice(s) == CHOOSE x \in s : TRUE
            Folded(g) == g = [s \in SUBSET {r} |->
               IF s = {} THEN 0 ELSE received[Choice(s)] + g[s \ {Choice(s)}]]
            f == [s \in SUBSET {r} |-> IF s = {} THEN 0 ELSE received[r]]
            G == CHOOSE g : Folded(g)
<1>3. Choice({r}) = r
  OBVIOUS
<1>5. Folded(f)
  <2>1. ASSUME NEW s \in SUBSET {r}
        PROVE  f[s] = IF s = {} THEN 0 ELSE received[Choice(s)] + f[s \ {Choice(s)}]
    <3>1. CASE s = {}
      BY <3>1
    <3>2. CASE s = {r}
      <4>1. s \ {Choice(s)} = {}
        BY <3>2, <1>3
      <4>2. f[{}] = 0 /\ f[s] = received[r]
        BY <1>1, <3>2
      <4>. HIDE DEF f
      <4>. QED BY <4>1, <4>2, <3>2, <1>1, <1>2, <1>3
    <3>. QED BY <1>1, <3>1, <3>2
  <2>. HIDE DEF Choice
  <2>. QED BY <2>1, Zenon
<1>6. Folded(G)
  <2>. HIDE DEF f, Folded
  <2>. QED BY <1>5
<1>7. G[{r}] = received[r]
  <2>1. G[{}] = 0
    BY <1>1, <1>6
  <2>2. G[{r}] = received[Choice({r})] + G[{r} \ {Choice({r})}]
    BY <1>1, <1>6
  <2>3. {r} \ {Choice({r})} = {}
    BY <1>3
  <2>. HIDE DEF G, Folded
  <2>. QED BY <2>1, <2>2, <2>3, <1>2, <1>3
<1>8. Copies({r}) = G[{r}]
  BY DEF Copies, MapThenSumSet, MapThenFoldSet
<1>. QED BY <1>2, <1>7, <1>8

-----------------------------------------------------------------------------
(* The inductive invariant.                                                *)

Words ==
  {None, "remote", "sent", "worker", "cell", "cell-await", "outbound", "celld.fetch",
   "celld.cell_fetch", "fetch"} \cup Requests
Record == [signal : Signals, name : Words, trace : Words, span : Words, parent : Words]
Statuses == {200, 400, 503}

\* The request that a record is due to, and what a node records of one.
Origin(r) == IF r.trace \in {"sent", "cell"} THEN "chain" ELSE r.trace
Records(n, at) == Produced(at, n).logs \cup Produced(at, n).spans

Past == {Program[case][i] : i \in 1 .. step - 1}
HeldBy(n) == open[n] \cup pending[n] \cup sending[n]["traces"] \cup sending[n]["logs"]

Typing ==
  /\ TypeOK /\ mode # "permanent" /\ defect \in Concerns[case]
  /\ open \in [Nodes -> SUBSET Record] /\ pending \in [Nodes -> SUBSET Record]
  /\ sending \in [Nodes -> [Signals -> SUBSET Record]]
  /\ attempts \in [Nodes -> [Signals -> Nat]]
  /\ trail \in [Nodes -> [Signals -> Seq(Statuses)]]
  /\ groups \subseteq [node : Nodes, signal : Signals, statuses : Seq(Statuses)]
  /\ BagToSet(received) \subseteq Record
  /\ resources \in [Signals -> {None, "tck-telemetry", "other"}]

\* A trail belongs to a batch in flight, and is no longer than its attempts.
Trails ==
  \A n \in Nodes, s \in Signals :
    /\ sending[n][s] = {} => trail[n][s] = <<>>
    /\ Len(trail[n][s]) <= attempts[n][s]

\* The window opens at the fifth step of the isolation case.
Undisturbed == case = "trace-context" \/ step <= 5
Quiet == Undisturbed => mode = "normal"

\* Nothing exists that no request is to blame for.
Whereabouts ==
  /\ \A n \in Nodes : \A r \in HeldBy(n) :
       Origin(r) \in Past \cap Requests /\ r \in Records(n, Origin(r))
  /\ \A r \in BagToSet(received) :
       Origin(r) \in Past \cap Requests /\ \E n \in Nodes : r \in Records(n, Origin(r))

\* What the collector may not have missed.
Kept ==
  IF case = "trace-context" THEN Past \cap Requests ELSE IF step = 4 THEN {"probe"} ELSE {}
NothingIsLost ==
  \A at \in Kept, n \in Nodes : \A r \in Records(n, at) : r \in HeldBy(n) \cup BagToSet(received)

\* As long as no answer is lost and celld is right, a record is in one place.
Faultless == defect = "none" /\ lost = 0
OnceEach ==
  Faultless /\ case = "trace-context" =>
    /\ \A n \in Nodes :
         /\ open[n] \cap pending[n] = {}
         /\ \A s \in Signals : (open[n] \cup pending[n]) \cap sending[n][s] = {}
         /\ HeldBy(n) \cap BagToSet(received) = {}
    /\ \A r \in BagToSet(received) : received[r] = 1

\* What was received came in a batch, from a resource.
Evidence ==
  \A r \in BagToSet(received) :
    /\ \E d \in Deliveries : d.signal = r.signal
    /\ defect = "none" => resources[r.signal] = "tck-telemetry"

\* A correct celld sends a refused batch again.
Retried ==
  Faultless =>
    /\ \A n \in Nodes, s \in Signals : sending[n][s] # {} =>
         /\ Len(trail[n][s]) = attempts[n][s]
         /\ case = "trace-context" \/ step <= 2 => attempts[n][s] = 0
    /\ \A d \in groups : Refused(d) => Len(d.statuses) > 1

\* One that gives up does not; a mute one does not get as far as the window.
NoRetries ==
  defect = "give up" /\ lost = 0 =>
    /\ \A n \in Nodes, s \in Signals : trail[n][s] = <<>>
    /\ \A d \in groups : Len(d.statuses) = 1
Silence == defect = "mute" => step <= 4

Facts ==
  /\ Typing /\ Trails /\ Quiet /\ Whereabouts /\ NothingIsLost /\ OnceEach /\ Evidence /\ Retried
  /\ NoRetries /\ Silence
IInv == Facts /\ DefectsAreCaught /\ FalseAlarmsAreEarly

-----------------------------------------------------------------------------
(* The programs and the records.                                           *)

\* The programs, step by step.
LEMMA Steps ==
  ASSUME Typing, verdict = None
  PROVE  /\ At = Program[case][step]
         /\ case = "trace-context" =>
              /\ step \in 1..6 /\ At # "disturb" /\ At # "probe"
              /\ At = "reset" => step = 1
              /\ At \in Requests => step \in 2..5
              /\ At \in Readings => step = 6 /\ At = "markers"
         /\ case # "trace-context" =>
              /\ case = "export-isolation" /\ step \in 1..9
              /\ At = "reset" => step = 2
              /\ At \in Requests => step \in {1, 3, 6, 7}
              /\ step = 3 => At = "probe"
              /\ At = "disturb" => step = 5
              /\ At \in Readings => \/ step = 4 /\ At = "envelope"
                                    \/ step = 8 /\ At = "refusal"
                                    \/ step = 9 /\ At = "window"
         /\ At \notin Past
         /\ At \notin Decisive => step + 1 \in 1 .. Len(Program[case])
<1>1. /\ At = Program[case][step] /\ case \in Cases /\ step \in 1 .. Len(Program[case])
  BY DEF Typing, TypeOK, At
<1>2. CASE case = "trace-context"
  <2>1. Program[case] = <<"reset", "chain", "malformed", "sampled", "unsampled", "markers">>
    BY <1>2 DEF Program, Cases
  <2>2. step \in 1..6
    BY <1>1, <2>1
  <2>3. At \notin Past
    BY <1>1, <2>1, <2>2 DEF Past
  <2>. QED BY <1>1, <1>2, <2>1, <2>2, <2>3 DEF Requests, Readings, Decisive
<1>3. CASE case # "trace-context"
  <2>0. case = "export-isolation"
    BY <1>1, <1>3 DEF Cases
  <2>1. Program[case] = <<"batch", "reset", "probe", "envelope", "disturb", "traffic", "outage",
                          "refusal", "window">>
    BY <2>0 DEF Program, Cases
  <2>2. step \in 1..9
    BY <1>1, <2>1
  <2>3. At \notin Past
    BY <1>1, <2>1, <2>2 DEF Past
  <2>4. \/ step = 1 /\ At = "batch"
        \/ step = 2 /\ At = "reset"
        \/ step = 3 /\ At = "probe"
        \/ step = 4 /\ At = "envelope"
        \/ step = 5 /\ At = "disturb"
        \/ step = 6 /\ At = "traffic"
        \/ step = 7 /\ At = "outage"
        \/ step = 8 /\ At = "refusal"
        \/ step = 9 /\ At = "window"
    <3>. DEFINE P == Program[case]
    <3>1. /\ P[1] = "batch" /\ P[2] = "reset" /\ P[3] = "probe" /\ P[4] = "envelope"
          /\ P[5] = "disturb" /\ P[6] = "traffic" /\ P[7] = "outage" /\ P[8] = "refusal" /\ P[9] = "window"
      BY <2>1
    <3>2. At = P[step]
      BY <1>1
    <3>. HIDE DEF P
    <3>3. \/ step = 1 \/ step = 2 \/ step = 3 \/ step = 4 \/ step = 5 \/ step = 6 \/ step = 7
          \/ step = 8 \/ step = 9
      BY <2>2
    <3>4. /\ step = 1 => At = "batch"
          /\ step = 2 => At = "reset"
          /\ step = 3 => At = "probe"
          /\ step = 4 => At = "envelope"
          /\ step = 5 => At = "disturb"
          /\ step = 6 => At = "traffic"
          /\ step = 7 => At = "outage"
          /\ step = 8 => At = "refusal"
          /\ step = 9 => At = "window"
      BY ONLY <3>1, <3>2
    <3>. QED BY ONLY <3>3, <3>4
  <2>5. Len(Program[case]) = 9
    BY <2>1
  <2>6. At \notin Decisive => step + 1 \in 1..9
    BY <2>2, <2>4 DEF Decisive
  <2>7. /\ At = "reset" => step = 2
        /\ At \in Requests => step \in {1, 3, 6, 7}
        /\ step = 3 => At = "probe"
        /\ At = "disturb" => step = 5
    BY <2>4 DEF Requests
  <2>8. ASSUME At \in Readings
        PROVE  \/ step = 4 /\ At = "envelope"
               \/ step = 8 /\ At = "refusal"
               \/ step = 9 /\ At = "window"
    <3>1. At \in {"envelope", "refusal", "window"} \/ (At = "markers" /\ At = "window")
      BY <2>4, <2>8 DEF Readings
    <3>. QED BY <2>4, <3>1
  <2>9. At \notin Decisive => step + 1 \in 1 .. Len(Program[case])
    BY <2>5, <2>6
  <2>10. At = Program[case][step]
    BY <1>1
  <2>. QED BY ONLY <1>3, <2>0, <2>2, <2>3, <2>7, <2>8, <2>9, <2>10
<1>. QED BY <1>2, <1>3

\* What is past after a step of the program.
LEMMA PastGrows ==
  ASSUME Typing, verdict = None, UNCHANGED case
  PROVE  /\ UNCHANGED step => UNCHANGED Past
         /\ step' = step + 1 => Past' = Past \cup {At}
<1>1. step \in Nat /\ At = Program[case][step] /\ Program' = Program
  BY DEF Typing, TypeOK, At, Program, Cases
<1>2. ASSUME step' = step + 1 PROVE Past' = Past \cup {At}
  <2>1. 1 .. step' - 1 = (1 .. step - 1) \cup {step} \/ step = 0
    BY <1>1, <1>2
  <2>2. step # 0
    BY DEF Typing, TypeOK
  <2>. QED BY <1>1, <1>2, <2>1, <2>2 DEF Past
<1>. QED BY <1>1, <1>2 DEF Past

\* Log lines and spans are records.
LEMMA LogRecord ==
  ASSUME NEW b \in Words, NEW t \in Words, NEW s \in Words
  PROVE  /\ Log(b, t, s) \in Record
         /\ Log(b, t, s).signal = "logs"
         /\ Log(b, t, s).trace = t
<1>1. None \in Words
  BY DEF Words
<1>. QED BY <1>1 DEF Log, Record, Signals

LEMMA SpanRecord ==
  ASSUME NEW b \in Words, NEW t \in Words, NEW s \in Words, NEW p \in Words
  PROVE  /\ Span(b, t, s, p) \in Record
         /\ Span(b, t, s, p).signal = "traces"
         /\ Span(b, t, s, p).trace = t
BY DEF Span, Record, Signals

\* A record tells which request, and which node, it is due to.
LEMMA Produce ==
  ASSUME Typing, NEW at \in Requests, NEW n \in Nodes
  PROVE  /\ Records(n, at) \subseteq Record
         /\ \A r \in Records(n, at) : Origin(r) = at
         /\ \A r \in Produced(at, n).logs : r.signal = "logs"
         /\ \A r \in Produced(at, n).spans : r.signal = "traces"
         /\ \A m \in Nodes : m # n => Records(m, at) \cap Records(n, at) = {}
<1>. DEFINE Fits(p) == /\ \A r \in p.logs : r \in Record /\ Origin(r) = at /\ r.signal = "logs"
                       /\ \A r \in p.spans : r \in Record /\ Origin(r) = at /\ r.signal = "traces"
<1>1. Fits(Nothing)
  BY DEF Nothing
<1>2. ASSUME NEW parent \in {None, "remote"}, at # "chain" PROVE Fits(Emit(at, parent))
  <2>1. at \in Words /\ at \notin {"sent", "cell"} /\ parent \in Words /\ "celld.fetch" \in Words
    BY <1>2 DEF Requests, Words
  <2>2. Emit(at, parent).logs = {Log(at, at, at)} /\ Emit(at, parent).spans = {Span("celld.fetch", at, at, parent)}
    BY DEF Emit
  <2>3. LET r == Log(at, at, at) IN r \in Record /\ Origin(r) = at /\ r.signal = "logs"
    <3>1. LET r == Log(at, at, at) IN r \in Record /\ r.trace = at /\ r.signal = "logs"
      BY ONLY <2>1, LogRecord
    <3>. QED BY ONLY <2>1, <3>1 DEF Origin
  <2>4. LET r == Span("celld.fetch", at, at, parent)
        IN  r \in Record /\ Origin(r) = at /\ r.signal = "traces"
    <3>1. LET r == Span("celld.fetch", at, at, parent)
          IN  r \in Record /\ r.trace = at /\ r.signal = "traces"
      BY ONLY <2>1, SpanRecord
    <3>. QED BY ONLY <2>1, <3>1 DEF Origin
  <2>. QED BY <2>2, <2>3, <2>4
<1>3. ASSUME at = "chain" PROVE Fits(WorkerPart)
  <2>1. {"worker", "sent", "remote", "celld.fetch"} \subseteq Words
    BY DEF Words
  <2>. QED BY <1>3, <2>1, LogRecord, SpanRecord DEF WorkerPart, Origin
<1>4. ASSUME at = "chain" PROVE Fits(CellPart)
  <2>1. CellTrace \in {"sent", "cell"} /\ AwaitSpan \in {"worker", "cell"}
    BY DEF CellTrace, AwaitSpan
  <2>2. \A r \in CellPart.logs : r = Log("cell", CellTrace, "cell") \/ r = Log("cell-await", CellTrace, AwaitSpan)
    BY DEF CellPart
  <2>3. \A r \in CellPart.spans :
          \/ \E parent \in {None, "worker"} : r = Span("celld.cell_fetch", CellTrace, "cell", parent)
          \/ r = Span("fetch", CellTrace, "outbound", "cell")
    BY DEF CellPart
  <2>4. {"cell", "cell-await", "sent", "worker", None, "outbound", "fetch", "celld.cell_fetch"} \subseteq Words
    BY DEF Words
  <2>5. ASSUME NEW r \in CellPart.logs PROVE r \in Record /\ Origin(r) = at /\ r.signal = "logs"
    <3>1. PICK b \in {"cell", "cell-await"}, s \in {"cell", "worker"} : r = Log(b, CellTrace, s)
      BY <2>1, <2>2
    <3>2. b \in Words /\ CellTrace \in Words /\ s \in Words
      BY <2>1, <2>4
    <3>3. r \in Record /\ r.signal = "logs" /\ r.trace = CellTrace
      <4>1. /\ Log(b, CellTrace, s) \in Record
            /\ Log(b, CellTrace, s).signal = "logs"
            /\ Log(b, CellTrace, s).trace = CellTrace
        BY ONLY <3>2, LogRecord, Zenon
      <4>. QED BY ONLY <3>1, <4>1
    <3>. QED BY <1>4, <2>1, <3>3 DEF Origin
  <2>6. ASSUME NEW r \in CellPart.spans PROVE r \in Record /\ Origin(r) = at /\ r.signal = "traces"
    <3>1. PICK b \in {"celld.cell_fetch", "fetch"}, s \in {"cell", "outbound"}, p \in {None, "worker", "cell"} :
             r = Span(b, CellTrace, s, p)
      BY <2>3
    <3>2. b \in Words /\ CellTrace \in Words /\ s \in Words /\ p \in Words
      BY <2>1, <2>4
    <3>3. r \in Record /\ r.signal = "traces" /\ r.trace = CellTrace
      BY ONLY <3>1, <3>2, SpanRecord
    <3>. QED BY <1>4, <2>1, <3>3 DEF Origin
  <2>. QED BY <2>5, <2>6
<1>5. ASSUME NEW p, NEW q, Fits(p), Fits(q) PROVE Fits(Together(p, q))
  BY <1>5 DEF Together
<1>6. ASSUME at \in {"batch", "traffic"}
      PROVE  Fits([Nothing EXCEPT !.spans = {Span("celld.cell_fetch", at, at, None)}])
  <2>1. at \in Words /\ at \notin {"sent", "cell"}
    BY <1>6 DEF Words, Requests
  <2>2. "celld.cell_fetch" \in Words /\ None \in Words
    BY DEF Words
  <2>. QED BY <2>1, <2>2, SpanRecord DEF Nothing, Origin
<1>7. ASSUME NEW m \in Nodes PROVE Fits(Produced(at, m))
  <2>1. CASE at = "chain"
    <3>. DEFINE p == IF m = "celld" THEN WorkerPart ELSE Nothing
                q == IF m = home THEN CellPart ELSE Nothing
    <3>1. Produced(at, m) = Together(p, q)
      BY <2>1 DEF Produced
    <3>2. Fits(p) /\ Fits(q)
      <4>. HIDE DEF Fits
      <4>. QED BY <2>1, <1>1, <1>3, <1>4
    <3>. HIDE DEF Fits, p, q
    <3>. QED BY <3>1, <3>2, <1>5
  <2>2. CASE at # "chain"
    <3>1. Produced(at, m) \in {Nothing, Emit(at, None), Emit(at, "remote"),
                               [Nothing EXCEPT !.spans = {Span("celld.cell_fetch", at, at, None)}]}
      BY <2>2 DEF Produced, Requests
    <3>2. Produced(at, m) = [Nothing EXCEPT !.spans = {Span("celld.cell_fetch", at, at, None)}]
            => at \in {"batch", "traffic"} \/ Fits(Produced(at, m))
      <4>1. at \in Requests \ {"chain", "batch", "traffic"}
              => Produced(at, m) \in {Nothing, Emit(at, None), Emit(at, "remote")}
        BY DEF Produced, Requests
      <4>. HIDE DEF Fits
      <4>. QED BY <4>1, <1>1, <1>2, <2>2
    <3>. HIDE DEF Fits
    <3>. QED BY <3>1, <3>2, <2>2, <1>1, <1>2, <1>6
  <2>. QED BY <2>1, <2>2
<1>8. ASSUME NEW m \in Nodes, m # n PROVE Records(m, at) \cap Records(n, at) = {}
  <2>0. Records("celld", at) \cap Records("celld3", at) = {}
    <3>1. CASE at = "chain"
      <4>1. /\ Records("celld", at) = WorkerPart.logs \cup WorkerPart.spans
                 \cup (IF home = "celld" THEN CellPart.logs \cup CellPart.spans ELSE {})
            /\ Records("celld3", at) = IF home = "celld3" THEN CellPart.logs \cup CellPart.spans ELSE {}
        BY <3>1 DEF Records, Produced, Together, Nothing
      <4>2. (WorkerPart.logs \cup WorkerPart.spans) \cap (CellPart.logs \cup CellPart.spans) = {}
        BY DEF WorkerPart, CellPart, Log, Span
      <4>. QED BY <4>1, <4>2
    <3>2. CASE at # "chain"
      BY <3>2 DEF Records, Produced, Requests, Nothing
    <3>. QED BY <3>1, <3>2
  <2>. QED BY <1>8, <2>0 DEF Nodes
<1>. QED BY <1>7, <1>8 DEF Records

\* What the nodes hold, and that it changes with its parts only.
LEMMA Held ==
  ASSUME Typing, NEW n \in Nodes
  PROVE  /\ HeldBy(n) \subseteq Record
         /\ \A r \in Record : r \in HeldBy(n) <=>
              r \in open[n] \/ r \in pending[n] \/ \E s \in Signals : r \in sending[n][s]
BY DEF Typing, HeldBy, Signals

\* What the collector has counted comes from a batch in flight or from one that is over.
LEMMA CountedIn ==
  ASSUME NEW G, NEW T, NEW d
  PROVE  d \in G \cup {Group(p[1], p[2], T[p[1]][p[2]]) :
                       p \in {q \in Nodes \X Signals : T[q[1]][q[2]] # <<>>}}
           <=> \/ d \in G
               \/ \E n \in Nodes, s \in Signals : T[n][s] # <<>> /\ d = Group(n, s, T[n][s])
<1>. DEFINE D == {Group(p[1], p[2], T[p[1]][p[2]]) :
                    p \in {q \in Nodes \X Signals : T[q[1]][q[2]] # <<>>}}
<1>1. ASSUME NEW n \in Nodes, NEW s \in Signals, T[n][s] # <<>>
      PROVE  Group(n, s, T[n][s]) \in D
  <2>1. /\ <<n, s>> \in {q \in Nodes \X Signals : T[q[1]][q[2]] # <<>>}
        /\ <<n, s>>[1] = n /\ <<n, s>>[2] = s
    BY <1>1
  <2>. QED BY <2>1
<1>2. ASSUME d \in D
      PROVE  \E n \in Nodes, s \in Signals : T[n][s] # <<>> /\ d = Group(n, s, T[n][s])
  <2>1. PICK p \in Nodes \X Signals : T[p[1]][p[2]] # <<>> /\ d = Group(p[1], p[2], T[p[1]][p[2]])
    BY <1>2
  <2>2. p[1] \in Nodes /\ p[2] \in Signals
    OBVIOUS
  <2>. QED BY <2>1, <2>2
<1>. QED BY <1>1, <1>2

LEMMA Counted ==
  ASSUME NEW d
  PROVE  d \in Deliveries <=>
           \/ d \in groups
           \/ \E n \in Nodes, s \in Signals : trail[n][s] # <<>> /\ d = Group(n, s, trail[n][s])
BY CountedIn DEF Deliveries

LEMMA CountedNext ==
  ASSUME NEW d
  PROVE  d \in Deliveries' <=>
           \/ d \in groups'
           \/ \E n \in Nodes, s \in Signals : trail'[n][s] # <<>> /\ d = Group(n, s, trail'[n][s])
<1>1. Deliveries' = groups' \cup {Group(p[1], p[2], trail'[p[1]][p[2]]) :
                       p \in {q \in Nodes \X Signals : trail'[q[1]][q[2]] # <<>>}}
  BY DEF Deliveries
<1>. QED BY <1>1, CountedIn

-----------------------------------------------------------------------------
(* The exporters.                                                          *)

\* A node that moves its records on leaves the collector, and what it holds, alone.
LEMMA MovingKeeps ==
  ASSUME Facts, Typing', Trails',
         \A n \in Nodes : HeldBy(n)' = HeldBy(n),
         UNCHANGED <<setting, step, collector, verdict, ghosts>>
  PROVE  /\ Quiet' /\ Whereabouts' /\ NothingIsLost' /\ Evidence' /\ NoRetries' /\ Silence'
<1>1. UNCHANGED <<case, defect, home, step, mode, trail, groups, received, resources, verdict, lost>>
  BY DEF setting, collector, ghosts
<1>2. Past' = Past /\ Kept' = Kept /\ Deliveries' = Deliveries
  BY <1>1 DEF Past, Kept, Deliveries, Program
<1>3. \A n, at : Records(n, at)' = Records(n, at)
  BY <1>1 DEF Records, Produced, WorkerPart, CellPart, CellTrace, AwaitSpan
<1>4. Whereabouts'
  BY <1>1, <1>2, <1>3 DEF Facts, Whereabouts
<1>5. NothingIsLost'
  BY <1>1, <1>2, <1>3 DEF Facts, NothingIsLost
<1>6. Evidence'
  BY <1>1, <1>2 DEF Facts, Evidence
<1>7. Quiet' /\ NoRetries' /\ Silence'
  BY <1>1 DEF Facts, Quiet, Undisturbed, NoRetries, Silence
<1>. QED BY <1>4, <1>5, <1>6, <1>7

\* Spans end.
LEMMA SpansEndKeeps == ASSUME Facts, NEW n \in Nodes, SpansEnd(n) PROVE Facts'
<1>1. /\ InUse /\ UNCHANGED <<setting, step, sending, attempts, collector, verdict, ghosts>>
      /\ UNCHANGED <<case, defect, home, step, mode, trail, groups, received, resources, lost, left, misnamed>>
      /\ pending' = [pending EXCEPT ![n] = @ \cup open[n]]
      /\ open' = [open EXCEPT ![n] = {}]
  BY DEF SpansEnd, setting, collector, ghosts
<1>2. Typing
  BY DEF Facts
<1>3. /\ \A m \in Nodes : open'[m] = IF m = n THEN {} ELSE open[m]
      /\ \A m \in Nodes : pending'[m] = IF m = n THEN pending[n] \cup open[n] ELSE pending[m]
  BY <1>1, <1>2 DEF Typing
<1>4. Typing'
  <2>1. TypeOK'
    <3>1. Deliveries' = Deliveries /\ Program' = Program
      BY <1>1 DEF Deliveries, Program
    <3>. QED BY <1>1, <1>2, <1>3, <3>1 DEF Typing, TypeOK
  <2>2. /\ open' \in [Nodes -> SUBSET Record] /\ pending' \in [Nodes -> SUBSET Record]
    BY <1>1, <1>2 DEF Typing
  <2>3. Concerns' = Concerns
    BY DEF Concerns
  <2>. QED BY <1>1, <1>2, <2>1, <2>2, <2>3 DEF Typing
<1>5. Trails'
  BY <1>1 DEF Facts, Trails
<1>6. \A m \in Nodes : HeldBy(m)' = HeldBy(m)
  BY <1>1, <1>3 DEF HeldBy
<1>7. Retried'
  BY <1>1 DEF Facts, Retried, Faultless, Refused
<1>8. OnceEach'
  BY <1>1, <1>3, <1>6 DEF Facts, OnceEach, Faultless
<1>. QED BY <1>1, <1>4, <1>5, <1>6, <1>7, <1>8, MovingKeeps DEF Facts

\* A batch of each signal is made.
LEMMA FlushKeeps == ASSUME Facts, NEW n \in Nodes, Flush(n) PROVE Facts'
<1>1. /\ InUse /\ UNCHANGED <<setting, step, collector, verdict, ghosts>>
      /\ UNCHANGED <<case, defect, home, step, open, mode, trail, groups, received, resources, lost, left, misnamed>>
      /\ \A s \in Signals : sending[n][s] = {}
      /\ sending' = [sending EXCEPT ![n] = [s \in Signals |-> {r \in pending[n] : r.signal = s}]]
      /\ attempts' = [attempts EXCEPT ![n] = [s \in Signals |-> 0]]
      /\ pending' = [pending EXCEPT ![n] = {}]
  BY DEF Flush, setting, collector, ghosts
<1>2. Typing
  BY DEF Facts
<1>3. /\ \A m \in Nodes, s \in Signals :
           sending'[m][s] = IF m = n THEN {r \in pending[n] : r.signal = s} ELSE sending[m][s]
      /\ \A m \in Nodes, s \in Signals : attempts'[m][s] = IF m = n THEN 0 ELSE attempts[m][s]
      /\ \A m \in Nodes : pending'[m] = IF m = n THEN {} ELSE pending[m]
  BY <1>1, <1>2 DEF Typing
<1>4. Typing'
  <2>1. TypeOK'
    <3>1. Deliveries' = Deliveries /\ Program' = Program
      BY <1>1 DEF Deliveries, Program
    <3>2. \A m \in Nodes, s \in Signals :
            /\ \A r \in sending'[m][s] : r.signal = s
            /\ attempts'[m][s] \in 0..MaxAttempts
            /\ sending'[m][s] # {} => attempts'[m][s] < MaxAttempts
      <4>1. ASSUME NEW s \in Signals
            PROVE  /\ \A r \in sending'[n][s] : r.signal = s
                   /\ attempts'[n][s] \in 0..MaxAttempts /\ attempts'[n][s] < MaxAttempts
        <5>1. sending'[n][s] = {r \in pending[n] : r.signal = s} /\ attempts'[n][s] = 0
          BY ONLY <1>3, n \in Nodes, s \in Signals
        <5>. QED BY <5>1, BoundsAssumption
      <4>2. ASSUME NEW m \in Nodes, m # n, NEW s \in Signals
            PROVE  /\ \A r \in sending'[m][s] : r.signal = s
                   /\ attempts'[m][s] \in 0..MaxAttempts
                   /\ sending'[m][s] # {} => attempts'[m][s] < MaxAttempts
        <5>1. sending'[m][s] = sending[m][s] /\ attempts'[m][s] = attempts[m][s]
          BY <1>3, <4>2
        <5>. QED BY <1>2, <5>1 DEF Typing, TypeOK
      <4>. QED BY <4>1, <4>2
    <3>. QED BY <1>1, <1>2, <3>1, <3>2 DEF Typing, TypeOK
  <2>2. /\ pending' \in [Nodes -> SUBSET Record] /\ sending' \in [Nodes -> [Signals -> SUBSET Record]]
        /\ attempts' \in [Nodes -> [Signals -> Nat]]
    BY <1>1, <1>2 DEF Typing
  <2>3. Concerns' = Concerns
    BY DEF Concerns
  <2>. QED BY <1>1, <1>2, <2>1, <2>2, <2>3 DEF Typing
<1>5. Trails'
  BY <1>1, <1>3 DEF Facts, Trails
<1>6. \A r \in pending[n] : r.signal \in {"traces", "logs"}
  BY <1>2 DEF Typing, Record, Signals
<1>7. \A m \in Nodes : HeldBy(m)' = HeldBy(m)
  <2>1. "traces" \in Signals /\ "logs" \in Signals
    BY DEF Signals
  <2>2. HeldBy(n)' = HeldBy(n)
    <3>1. /\ open'[n] = open[n] /\ pending'[n] = {}
          /\ sending'[n]["traces"] \cup sending'[n]["logs"] = pending[n]
      <4>1. /\ open'[n] = open[n] /\ pending'[n] = {}
            /\ sending'[n]["traces"] = {r \in pending[n] : r.signal = "traces"}
            /\ sending'[n]["logs"] = {r \in pending[n] : r.signal = "logs"}
        BY <1>1, <1>3, <2>1
      <4>. QED BY <4>1, <1>6
    <3>2. sending[n]["traces"] = {} /\ sending[n]["logs"] = {}
      BY <1>1, <2>1
    <3>. QED BY <3>1, <3>2 DEF HeldBy
  <2>3. ASSUME NEW m \in Nodes, m # n PROVE HeldBy(m)' = HeldBy(m)
    BY <1>1, <1>3, <2>1, <2>3 DEF HeldBy
  <2>. QED BY <2>2, <2>3
<1>8. Retried'
  <2>1. \A s \in Signals : Len(trail[n][s]) = 0
    BY <1>1 DEF Facts, Trails
  <2>. QED BY <1>1, <1>3, <2>1 DEF Facts, Retried, Faultless, Refused
<1>9. OnceEach'
  BY <1>1, <1>3, <1>7 DEF Facts, OnceEach, Faultless
<1>. QED BY <1>1, <1>4, <1>5, <1>7, <1>8, <1>9, MovingKeeps DEF Facts

\* One more copy of each record of a set.
LEMMA OneMoreOfEach ==
  ASSUME NEW B, IsABag(B), NEW S, NEW C, C = B (+) SetToBag(S)
  PROVE  /\ IsABag(C) /\ BagToSet(C) = BagToSet(B) \cup S
         /\ \A r \in S \ BagToSet(B) : C[r] = 1
         /\ \A r \in BagToSet(B) \ S : C[r] = B[r]
<1>. DEFINE D == SetToBag(S)
<1>1. DOMAIN D = S /\ \A r \in S : D[r] = 1
  BY DEF SetToBag
<1>2. C = [e \in (DOMAIN B) \cup (DOMAIN D) |->
             (IF e \in DOMAIN B THEN B[e] ELSE 0) + (IF e \in DOMAIN D THEN D[e] ELSE 0)]
  BY DEF (+)
<1>3. \A e \in DOMAIN B : B[e] \in Nat /\ B[e] > 0
  BY DEF IsABag
<1>. HIDE DEF D
<1>4. DOMAIN C = DOMAIN B \cup S
  BY <1>1, <1>2
<1>5. ASSUME NEW e \in DOMAIN C PROVE C[e] \in {k \in Nat : k > 0}
  BY <1>1, <1>2, <1>3, <1>4, <1>5
<1>6. C = [e \in DOMAIN C |-> C[e]]
  BY <1>2
<1>7. IsABag(C)
  BY <1>5, <1>6 DEF IsABag
<1>8. ASSUME NEW r \in S \ DOMAIN B PROVE C[r] = 1
  BY <1>1, <1>2, <1>4
<1>9. ASSUME NEW r \in DOMAIN B \ S PROVE C[r] = B[r]
  BY <1>1, <1>2, <1>3, <1>4
<1>. QED BY <1>4, <1>7, <1>8, <1>9 DEF BagToSet

\* What a delivery changes: the attempts, the record of the batch, the batch itself
\* unless it is sent again, and what was received if the collector accepts it.
Delivery(n, s, answered, again) ==
  LET met == Append(trail[n][s], Status(mode))
  IN  /\ attempts' = [attempts EXCEPT ![n] = [attempts[n] EXCEPT ![s] = attempts[n][s] + 1]]
      /\ again <=> attempts[n][s] + 1 < MaxAttempts /\ (~answered \/ (Status(mode) = 503 /\ defect # "give up"))
      /\ lost' = IF answered THEN lost ELSE lost + 1
      /\ answered \/ lost < LostReplies
      /\ sending' = IF again THEN sending ELSE [sending EXCEPT ![n] = [sending[n] EXCEPT ![s] = {}]]
      /\ trail' = [trail EXCEPT ![n] = [trail[n] EXCEPT ![s] = IF again THEN met ELSE <<>>]]
      /\ groups' = IF again THEN groups ELSE groups \cup {Group(n, s, met)}

LEMMA DeliverDoes ==
  ASSUME Facts, NEW n \in Nodes, NEW s \in Signals, Deliver(n, s)
  PROVE  /\ InUse /\ sending[n][s] # {} /\ Accept(n, s)
         /\ UNCHANGED <<case, defect, home, step, open, pending, mode, verdict, left, misnamed>>
         /\ \E answered, again \in BOOLEAN : Delivery(n, s, answered, again)
<1>1. PICK answered \in BOOLEAN :
        LET met == Append(trail[n][s], Status(mode))
            again == /\ attempts'[n][s] < MaxAttempts
                     /\ ~answered \/ (Status(mode) = 503 /\ defect # "give up")
        IN /\ answered \/ (lost < LostReplies /\ s \in Losing)
           /\ lost' = IF answered THEN lost ELSE lost + 1
           /\ sending' = IF again THEN sending ELSE [sending EXCEPT ![n][s] = {}]
           /\ trail' = [trail EXCEPT ![n][s] = IF again THEN met ELSE <<>>]
           /\ groups' = IF again THEN groups ELSE groups \cup {Group(n, s, met)}
  BY DEF Deliver
<1>2. attempts' = [attempts EXCEPT ![n][s] = @ + 1]
  BY DEF Deliver
<1>3. attempts'[n][s] = attempts[n][s] + 1
  BY <1>2 DEF Facts, Typing
<1>. DEFINE again == /\ attempts'[n][s] < MaxAttempts
                     /\ ~answered \/ (Status(mode) = 503 /\ defect # "give up")
<1>4. again \in BOOLEAN
  OBVIOUS
<1>5. Delivery(n, s, answered, again)
  BY <1>1, <1>2, <1>3 DEF Delivery
<1>6. \E yes \in BOOLEAN : Delivery(n, s, answered, yes)
  <2>. HIDE DEF again
  <2>. QED BY <1>4, <1>5
<1>. QED BY <1>6 DEF Deliver, setting

\* A delivery, batch by batch.
LEMMA DeliveryIsLocal ==
  ASSUME Facts, NEW n \in Nodes, NEW s \in Signals, NEW answered \in BOOLEAN, NEW again \in BOOLEAN,
         Delivery(n, s, answered, again)
  PROVE  /\ \A m \in Nodes, z \in Signals : m # n \/ z # s =>
              /\ attempts'[m][z] = attempts[m][z] /\ sending'[m][z] = sending[m][z]
              /\ trail'[m][z] = trail[m][z]
         /\ attempts'[n][s] = attempts[n][s] + 1
         /\ sending'[n][s] = IF again THEN sending[n][s] ELSE {}
         /\ trail'[n][s] = IF again THEN Append(trail[n][s], Status(mode)) ELSE <<>>
         /\ sending' \in [Nodes -> [Signals -> SUBSET Record]]
         /\ attempts' \in [Nodes -> [Signals -> Nat]]
         /\ trail' \in [Nodes -> [Signals -> Seq(Statuses)]]
         /\ Append(trail[n][s], Status(mode)) \in Seq(Statuses)
         /\ Len(Append(trail[n][s], Status(mode))) = Len(trail[n][s]) + 1
         /\ Status(mode) \in {200, 503} /\ (Status(mode) = 200 <=> mode = "normal")
<1>1. /\ sending \in [Nodes -> [Signals -> SUBSET Record]]
      /\ attempts \in [Nodes -> [Signals -> Nat]]
      /\ trail \in [Nodes -> [Signals -> Seq(Statuses)]]
  BY DEF Facts, Typing
<1>2. Status(mode) \in {200, 503} /\ (Status(mode) = 200 <=> mode = "normal")
  BY DEF Facts, Typing, TypeOK, Status
<1>3. /\ Append(trail[n][s], Status(mode)) \in Seq(Statuses)
      /\ Len(Append(trail[n][s], Status(mode))) = Len(trail[n][s]) + 1
  <2>1. trail[n][s] \in Seq(Statuses) /\ Status(mode) \in Statuses
    BY <1>1, <1>2 DEF Statuses
  <2>. QED BY <2>1
<1>4. <<>> \in Seq(Statuses)
  OBVIOUS
<1>. DEFINE next == IF again THEN Append(trail[n][s], Status(mode)) ELSE <<>>
<1>5. next \in Seq(Statuses)
  BY <1>3, <1>4
<1>6. trail' = [trail EXCEPT ![n] = [trail[n] EXCEPT ![s] = next]]
  BY DEF Delivery
<1>. HIDE DEF next
<1>7. /\ trail' \in [Nodes -> [Signals -> Seq(Statuses)]]
      /\ trail'[n][s] = next
      /\ \A m \in Nodes, z \in Signals : m # n \/ z # s => trail'[m][z] = trail[m][z]
  BY <1>1, <1>5, <1>6
<1>8. /\ attempts' \in [Nodes -> [Signals -> Nat]]
      /\ attempts'[n][s] = attempts[n][s] + 1
      /\ \A m \in Nodes, z \in Signals : m # n \/ z # s => attempts'[m][z] = attempts[m][z]
  <2>1. attempts' = [attempts EXCEPT ![n] = [attempts[n] EXCEPT ![s] = attempts[n][s] + 1]]
    BY DEF Delivery
  <2>. QED BY <1>1, <2>1
<1>9. /\ sending' \in [Nodes -> [Signals -> SUBSET Record]]
      /\ sending'[n][s] = IF again THEN sending[n][s] ELSE {}
      /\ \A m \in Nodes, z \in Signals : m # n \/ z # s => sending'[m][z] = sending[m][z]
  <2>1. CASE again
    BY <1>1, <2>1 DEF Delivery
  <2>2. CASE ~again
    <3>1. sending' = [sending EXCEPT ![n] = [sending[n] EXCEPT ![s] = {}]]
      BY <2>2 DEF Delivery
    <3>. QED BY <1>1, <2>2, <3>1
  <2>. QED BY <2>1, <2>2
<1>10. trail'[n][s] = IF again THEN Append(trail[n][s], Status(mode)) ELSE <<>>
  BY <1>7 DEF next
<1>. QED BY <1>2, <1>3, <1>7, <1>8, <1>9, <1>10

\* What the collector has counted is still counted, and the batch delivered with it.
LEMMA DeliveryIsCounted ==
  ASSUME Facts, NEW n \in Nodes, NEW s \in Signals, NEW answered \in BOOLEAN, NEW again \in BOOLEAN,
         Delivery(n, s, answered, again)
  PROVE  LET new == Group(n, s, Append(trail[n][s], Status(mode)))
         IN  /\ new \in Deliveries'
             /\ \A d \in Deliveries' : d \in Deliveries \/ d = new
             /\ \A d \in Deliveries : d \in Deliveries' \/ d.signal = s
<1>. DEFINE met == Append(trail[n][s], Status(mode))
            new == Group(n, s, met)
<1>1. /\ met \in Seq(Statuses) /\ Len(met) = Len(trail[n][s]) + 1 /\ trail[n][s] \in Seq(Statuses)
      /\ trail'[n][s] = IF again THEN met ELSE <<>>
      /\ \A m \in Nodes, z \in Signals : m # n \/ z # s => trail'[m][z] = trail[m][z]
      /\ groups' = IF again THEN groups ELSE groups \cup {new}
  <2>1. trail[n][s] \in Seq(Statuses)
    BY DEF Facts, Typing
  <2>2. groups' = IF again THEN groups ELSE groups \cup {new}
    BY DEF Delivery
  <2>. QED BY <2>1, <2>2, DeliveryIsLocal
<1>2. met # <<>>
  BY <1>1
<1>. HIDE DEF met
<1>3. \A d : d \in Deliveries' <=>
         \/ d \in groups'
         \/ \E m \in Nodes, z \in Signals : trail'[m][z] # <<>> /\ d = Group(m, z, trail'[m][z])
  BY CountedNext
<1>4. new \in Deliveries'
  BY <1>1, <1>2, <1>3
<1>5. ASSUME NEW d \in Deliveries' PROVE d \in Deliveries \/ d = new
  <2>1. CASE d \in groups'
    BY <1>1, <2>1, Counted
  <2>2. ASSUME NEW m \in Nodes, NEW z \in Signals, trail'[m][z] # <<>>, d = Group(m, z, trail'[m][z])
        PROVE  d \in Deliveries \/ d = new
    <3>1. CASE m # n \/ z # s
      BY <1>1, <2>2, <3>1, Counted
    <3>2. CASE m = n /\ z = s
      BY <1>1, <2>2, <3>2
    <3>. QED BY <3>1, <3>2
  <2>. QED BY <1>3, <1>5, <2>1, <2>2
<1>6. ASSUME NEW d \in Deliveries PROVE d \in Deliveries' \/ d.signal = s
  <2>1. CASE d \in groups
    BY <1>1, <1>3, <2>1
  <2>2. ASSUME NEW m \in Nodes, NEW z \in Signals, trail[m][z] # <<>>, d = Group(m, z, trail[m][z])
        PROVE  d \in Deliveries' \/ d.signal = s
    <3>1. CASE m # n \/ z # s
      <4>1. trail'[m][z] = trail[m][z]
        BY <1>1, <3>1
      <4>. QED BY <4>1, <1>3, <2>2
    <3>2. CASE m = n /\ z = s
      BY <2>2, <3>2 DEF Group
    <3>. QED BY <3>1, <3>2
  <2>. QED BY <2>1, <2>2, Counted
<1>. QED BY <1>4, <1>5, <1>6 DEF met

\* What the collector accepts.
LEMMA AcceptIsLocal ==
  ASSUME Facts, NEW n \in Nodes, NEW s \in Signals, Accept(n, s), Status(mode) \in {200, 503}
  PROVE  /\ IsABag(received') /\ BagToSet(received') \subseteq Record
         /\ resources' \in [Signals -> {None, "tck-telemetry", "other"}]
         /\ Status(mode) = 200 =>
              /\ BagToSet(received') = BagToSet(received) \cup sending[n][s]
              /\ \A r \in sending[n][s] \ BagToSet(received) : received'[r] = 1
              /\ \A r \in BagToSet(received) \ sending[n][s] : received'[r] = received[r]
              /\ resources'[s] = Service(n)
              /\ \A z \in Signals : z # s => resources'[z] = resources[z]
         /\ Status(mode) # 200 => UNCHANGED <<received, resources>>
<1>1. /\ IsABag(received) /\ BagToSet(received) \subseteq Record /\ sending[n][s] \subseteq Record
      /\ resources \in [Signals -> {None, "tck-telemetry", "other"}]
  BY DEF Facts, Typing, TypeOK
<1>2. CASE Status(mode) = 200
  <2>1. /\ received' = received (+) SetToBag(sending[n][s])
        /\ resources' = [resources EXCEPT ![s] = Service(n)]
    BY <1>2 DEF Accept
  <2>2. /\ IsABag(received') /\ BagToSet(received') = BagToSet(received) \cup sending[n][s]
        /\ \A r \in sending[n][s] \ BagToSet(received) : received'[r] = 1
        /\ \A r \in BagToSet(received) \ sending[n][s] : received'[r] = received[r]
    BY <1>1, <2>1, OneMoreOfEach
  <2>3. Service(n) \in {None, "tck-telemetry", "other"}
    BY DEF Service
  <2>4. /\ resources' \in [Signals -> {None, "tck-telemetry", "other"}]
        /\ resources'[s] = Service(n)
        /\ \A z \in Signals : z # s => resources'[z] = resources[z]
    BY <1>1, <2>1, <2>3
  <2>. QED BY <1>1, <1>2, <2>2, <2>4
<1>3. CASE Status(mode) # 200
  BY <1>1, <1>3 DEF Accept, BagToSet
<1>. QED BY <1>2, <1>3

\* A delivery leaves the system typed.
LEMMA DeliverTyped ==
  ASSUME Facts, NEW n \in Nodes, NEW s \in Signals, Deliver(n, s)
  PROVE  Typing' /\ Trails'
<1>1. /\ sending[n][s] # {} /\ Accept(n, s)
      /\ UNCHANGED <<case, defect, home, step, open, pending, mode, verdict, left, misnamed>>
  BY DeliverDoes
<1>2. PICK answered \in BOOLEAN, again \in BOOLEAN : Delivery(n, s, answered, again)
  BY DeliverDoes
<1>. DEFINE met == Append(trail[n][s], Status(mode))
<1>3. /\ \A m \in Nodes, z \in Signals : m # n \/ z # s =>
           /\ attempts'[m][z] = attempts[m][z] /\ sending'[m][z] = sending[m][z]
           /\ trail'[m][z] = trail[m][z]
      /\ attempts'[n][s] = attempts[n][s] + 1
      /\ sending'[n][s] = IF again THEN sending[n][s] ELSE {}
      /\ trail'[n][s] = IF again THEN met ELSE <<>>
      /\ sending' \in [Nodes -> [Signals -> SUBSET Record]]
      /\ attempts' \in [Nodes -> [Signals -> Nat]]
      /\ trail' \in [Nodes -> [Signals -> Seq(Statuses)]]
      /\ met \in Seq(Statuses) /\ Len(met) = Len(trail[n][s]) + 1
      /\ Status(mode) \in {200, 503}
  BY <1>2, DeliveryIsLocal
<1>4. /\ again => attempts[n][s] + 1 < MaxAttempts
      /\ lost' = IF answered THEN lost ELSE lost + 1
      /\ answered \/ lost < LostReplies
      /\ groups' = IF again THEN groups ELSE groups \cup {Group(n, s, met)}
  BY <1>2 DEF Delivery
<1>5. /\ IsABag(received') /\ BagToSet(received') \subseteq Record
      /\ resources' \in [Signals -> {None, "tck-telemetry", "other"}]
  BY <1>1, <1>3, AcceptIsLocal
<1>6. Typing /\ Trails
  BY DEF Facts
<1>7. /\ attempts[n][s] \in Nat /\ attempts[n][s] < MaxAttempts /\ MaxAttempts \in Nat
      /\ trail[n][s] \in Seq(Statuses) /\ Len(trail[n][s]) \in Nat /\ Len(trail[n][s]) <= attempts[n][s]
  BY <1>1, <1>6, BoundsAssumption DEF Typing, TypeOK, Trails
<1>8. met \in Seq(Statuses) /\ Len(met) \in Nat /\ Len(met) = Len(trail[n][s]) + 1
  BY <1>3, <1>7
<1>9. \A d \in Deliveries' : d \in Deliveries \/ d = Group(n, s, met)
  BY <1>2, DeliveryIsCounted
<1>. HIDE DEF met
<1>10. /\ \A m \in Nodes, z \in Signals :
            /\ \A r \in sending'[m][z] : r.signal = z
            /\ attempts'[m][z] \in 0..MaxAttempts
            /\ sending'[m][z] # {} => attempts'[m][z] < MaxAttempts
  <2>1. /\ \A r \in sending'[n][s] : r.signal = s
        /\ attempts'[n][s] \in 0..MaxAttempts
        /\ sending'[n][s] # {} => attempts'[n][s] < MaxAttempts
    <3>1. \A r \in sending[n][s] : r.signal = s
      BY <1>6 DEF Typing, TypeOK
    <3>. QED BY <1>3, <1>4, <1>7, <3>1
  <2>2. ASSUME NEW m \in Nodes, NEW z \in Signals, m # n \/ z # s
        PROVE  /\ \A r \in sending'[m][z] : r.signal = z
               /\ attempts'[m][z] \in 0..MaxAttempts
               /\ sending'[m][z] # {} => attempts'[m][z] < MaxAttempts
    <3>1. attempts'[m][z] = attempts[m][z] /\ sending'[m][z] = sending[m][z]
      BY <1>3, <2>2
    <3>. QED BY <1>6, <3>1 DEF Typing, TypeOK
  <2>. QED BY <2>1, <2>2
<1>11. \A d \in Deliveries' :
         Len(d.statuses) <= MaxAttempts /\ \A i \in DOMAIN d.statuses : d.statuses[i] \in {200, 400, 503}
  <2>1. LET d == Group(n, s, met)
        IN  Len(d.statuses) <= MaxAttempts /\ \A i \in DOMAIN d.statuses : d.statuses[i] \in {200, 400, 503}
    <3>1. Len(met) <= MaxAttempts /\ \A i \in DOMAIN met : met[i] \in {200, 400, 503}
      BY <1>7, <1>8 DEF Statuses
    <3>. QED BY <3>1 DEF Group
  <2>. QED BY <1>6, <1>9, <2>1 DEF Typing, TypeOK
<1>12. lost' \in 0..LostReplies
  BY <1>4, <1>6, BoundsAssumption DEF Typing, TypeOK
<1>13. groups' \subseteq [node : Nodes, signal : Signals, statuses : Seq(Statuses)]
  <2>1. Group(n, s, met) \in [node : Nodes, signal : Signals, statuses : Seq(Statuses)]
    BY <1>8 DEF Group
  <2>. QED BY <1>4, <1>6, <2>1 DEF Typing
<1>14. TypeOK'
  <2>1. Program' = Program
    BY DEF Program
  <2>2. /\ case' \in Cases /\ defect' \in Defects /\ home' \in Nodes
        /\ step' \in 1..Len(Program'[case']) /\ verdict' \in {None, "pass", "fail"}
        /\ mode' \in {"normal", "transient", "permanent"}
        /\ \A m \in Nodes : \A r \in open'[m] : r.signal = "traces"
    BY <1>1, <1>6, <2>1 DEF Typing, TypeOK
  <2>. QED BY <1>5, <1>10, <1>11, <1>12, <2>2 DEF TypeOK
<1>15. Typing'
  <2>1. Concerns' = Concerns
    BY DEF Concerns
  <2>. QED BY <1>1, <1>3, <1>5, <1>6, <1>13, <1>14, <2>1 DEF Typing
<1>16. Trails'
  <2>1. Len(<<>>) = 0 /\ attempts[n][s] + 1 >= 0
    BY <1>7
  <2>2. (sending'[n][s] = {} => trail'[n][s] = <<>>) /\ Len(trail'[n][s]) <= attempts'[n][s]
    BY <1>1, <1>3, <1>7, <1>8, <2>1
  <2>3. ASSUME NEW m \in Nodes, NEW z \in Signals, m # n \/ z # s
        PROVE  (sending'[m][z] = {} => trail'[m][z] = <<>>) /\ Len(trail'[m][z]) <= attempts'[m][z]
    <3>1. sending'[m][z] = sending[m][z] /\ trail'[m][z] = trail[m][z] /\ attempts'[m][z] = attempts[m][z]
      BY <1>3, <2>3
    <3>. QED BY <1>6, <3>1 DEF Trails
  <2>. QED BY <2>2, <2>3 DEF Trails
<1>. QED BY <1>15, <1>16

\* A delivery moves records from a node to the collector, unless they are refused.
LEMMA DeliverMoves ==
  ASSUME Facts, NEW n \in Nodes, NEW s \in Signals, Deliver(n, s)
  PROVE  /\ sending[n][s] \subseteq HeldBy(n)
         /\ \A m \in Nodes : m # n => HeldBy(m)' = HeldBy(m)
         /\ HeldBy(n)' \subseteq HeldBy(n) /\ HeldBy(n) \subseteq HeldBy(n)' \cup sending[n][s]
         /\ BagToSet(received) \subseteq BagToSet(received')
         /\ BagToSet(received') \subseteq BagToSet(received) \cup sending[n][s]
         /\ mode = "normal" => BagToSet(received') = BagToSet(received) \cup sending[n][s]
<1>1. /\ Accept(n, s) /\ UNCHANGED <<open, pending>>
  BY DeliverDoes
<1>2. PICK answered \in BOOLEAN, again \in BOOLEAN : Delivery(n, s, answered, again)
  BY DeliverDoes
<1>3. /\ \A m \in Nodes, z \in Signals : m # n \/ z # s => sending'[m][z] = sending[m][z]
      /\ sending'[n][s] = IF again THEN sending[n][s] ELSE {}
      /\ Status(mode) \in {200, 503} /\ (Status(mode) = 200 <=> mode = "normal")
  BY <1>2, DeliveryIsLocal
<1>4. /\ Status(mode) = 200 => BagToSet(received') = BagToSet(received) \cup sending[n][s]
      /\ Status(mode) # 200 => received' = received
  BY <1>1, <1>3, AcceptIsLocal
<1>5. "traces" \in Signals /\ "logs" \in Signals /\ (s = "traces" \/ s = "logs")
  BY DEF Signals
<1>6. /\ sending[n][s] \subseteq HeldBy(n)
      /\ \A m \in Nodes : m # n => HeldBy(m)' = HeldBy(m)
  BY <1>1, <1>3, <1>5 DEF HeldBy
<1>7. HeldBy(n)' \subseteq HeldBy(n) /\ HeldBy(n) \subseteq HeldBy(n)' \cup sending[n][s]
  <2>1. CASE s = "traces"
    <3>1. sending'[n]["logs"] = sending[n]["logs"]
      BY <1>3, <1>5, <2>1
    <3>2. sending'[n]["traces"] \subseteq sending[n]["traces"]
      BY <1>3, <2>1
    <3>. QED BY <1>1, <2>1, <3>1, <3>2 DEF HeldBy
  <2>2. CASE s = "logs"
    <3>1. sending'[n]["traces"] = sending[n]["traces"]
      BY <1>3, <1>5, <2>2
    <3>2. sending'[n]["logs"] \subseteq sending[n]["logs"]
      BY <1>3, <2>2
    <3>. QED BY <1>1, <2>2, <3>1, <3>2 DEF HeldBy
  <2>. QED BY <1>5, <2>1, <2>2
<1>8. received' = received => BagToSet(received') = BagToSet(received)
  BY DEF BagToSet
<1>. QED BY <1>3, <1>4, <1>6, <1>7, <1>8

\* Records of a request are the same as long as the setting is.
LEMMA RecordsStay ==
  ASSUME UNCHANGED <<case, defect, home>>
  PROVE  \A n, at : Records(n, at)' = Records(n, at)
BY DEF Records, Produced, WorkerPart, CellPart, CellTrace, AwaitSpan

\* No two nodes hold the same record.
LEMMA NoRecordTwice ==
  ASSUME Facts, NEW n \in Nodes, NEW m \in Nodes, n # m
  PROVE  HeldBy(m) \cap HeldBy(n) = {}
<1>1. SUFFICES ASSUME NEW r, r \in HeldBy(m), r \in HeldBy(n) PROVE FALSE
  OBVIOUS
<1>2. Origin(r) \in Requests /\ r \in Records(m, Origin(r)) /\ r \in Records(n, Origin(r))
  BY <1>1 DEF Facts, Whereabouts
<1>. QED BY <1>2, Produce DEF Facts

\* A delivery loses no record, and blames no request wrongly.
LEMMA DeliverKeepsRecords ==
  ASSUME Facts, NEW n \in Nodes, NEW s \in Signals, Deliver(n, s)
  PROVE  Quiet' /\ Whereabouts' /\ NothingIsLost' /\ Silence'
<1>1. UNCHANGED <<case, defect, home, step, mode>>
  BY DeliverDoes
<1>2. Past' = Past /\ Kept' = Kept
  BY <1>1 DEF Past, Kept, Program
<1>3. \A m, at : Records(m, at)' = Records(m, at)
  BY <1>1, RecordsStay
<1>4. /\ sending[n][s] \subseteq HeldBy(n)
      /\ \A m \in Nodes : m # n => HeldBy(m)' = HeldBy(m)
      /\ HeldBy(n)' \subseteq HeldBy(n) /\ HeldBy(n) \subseteq HeldBy(n)' \cup sending[n][s]
      /\ BagToSet(received) \subseteq BagToSet(received')
      /\ BagToSet(received') \subseteq BagToSet(received) \cup sending[n][s]
      /\ mode = "normal" => BagToSet(received') = BagToSet(received) \cup sending[n][s]
  BY DeliverMoves
<1>5. Whereabouts'
  <2>1. /\ \A m \in Nodes : \A r \in HeldBy(m) : Origin(r) \in Past \cap Requests /\ r \in Records(m, Origin(r))
        /\ \A r \in BagToSet(received) :
             Origin(r) \in Past \cap Requests /\ \E m \in Nodes : r \in Records(m, Origin(r))
    BY DEF Facts, Whereabouts
  <2>2. ASSUME NEW m \in Nodes, NEW r \in HeldBy(m)'
        PROVE  Origin(r) \in Past \cap Requests /\ r \in Records(m, Origin(r))
    BY <1>4, <2>1, <2>2
  <2>3. ASSUME NEW r \in BagToSet(received')
        PROVE  Origin(r) \in Past \cap Requests /\ \E m \in Nodes : r \in Records(m, Origin(r))
    BY <1>4, <2>1, <2>3
  <2>. QED BY <1>2, <1>3, <2>2, <2>3 DEF Whereabouts
<1>6. NothingIsLost'
  <2>1. SUFFICES ASSUME NEW at \in Kept, NEW m \in Nodes, NEW r \in Records(m, at)
                 PROVE  r \in HeldBy(m)' \/ r \in BagToSet(received')
    BY <1>2, <1>3 DEF NothingIsLost
  <2>2. mode = "normal"
    BY DEF Facts, Quiet, Undisturbed, Kept
  <2>3. r \in HeldBy(m) \/ r \in BagToSet(received)
    BY DEF Facts, NothingIsLost
  <2>. QED BY <1>4, <2>2, <2>3
<1>7. Quiet' /\ Silence'
  BY <1>1 DEF Facts, Quiet, Undisturbed, Silence
<1>. QED BY <1>5, <1>6, <1>7

\* Without a fault no record is in two places after a delivery either.
LEMMA DeliverKeepsOnceEach ==
  ASSUME Facts, NEW n \in Nodes, NEW s \in Signals, Deliver(n, s)
  PROVE  OnceEach'
<1>1. SUFFICES ASSUME Faultless', case' = "trace-context"
               PROVE  /\ \A m \in Nodes :
                           /\ open'[m] \cap pending'[m] = {}
                           /\ \A z \in Signals : (open'[m] \cup pending'[m]) \cap sending'[m][z] = {}
                           /\ HeldBy(m)' \cap BagToSet(received') = {}
                      /\ \A r \in BagToSet(received') : received'[r] = 1
  BY DEF OnceEach
<1>2. /\ UNCHANGED <<case, defect, open, pending, mode>> /\ Accept(n, s)
  BY DeliverDoes
<1>3. PICK answered \in BOOLEAN, again \in BOOLEAN : Delivery(n, s, answered, again)
  BY DeliverDoes
<1>4. /\ lost' = 0 /\ lost' = IF answered THEN lost ELSE lost + 1
      /\ again <=> attempts[n][s] + 1 < MaxAttempts /\ (~answered \/ (Status(mode) = 503 /\ defect # "give up"))
  BY <1>1, <1>3 DEF Faultless, Delivery
<1>5. answered /\ Faultless
  <2>1. lost \in Nat
    BY BoundsAssumption DEF Facts, Typing, TypeOK
  <2>2. ~answered => lost' = lost + 1
    BY <1>4, Zenon
  <2>3. lost + 1 # 0
    BY <2>1
  <2>4. answered /\ lost = 0
    BY <1>4, <2>2, <2>3, Zenon
  <2>. QED BY <1>1, <1>2, <2>4 DEF Faultless
<1>6. mode = "normal" /\ Status(mode) = 200
  BY <1>1, <1>2 DEF Facts, Quiet, Undisturbed, Status
<1>7. ~again
  <2>1. Status(mode) # 503
    BY <1>6
  <2>. QED BY <1>4, <1>5, <2>1, Zenon
<1>8. /\ \A m \in Nodes, z \in Signals : m # n \/ z # s => sending'[m][z] = sending[m][z]
      /\ sending'[n][s] = {}
  BY <1>3, <1>7, DeliveryIsLocal
<1>9. /\ \A m \in Nodes :
           /\ open[m] \cap pending[m] = {}
           /\ \A z \in Signals : (open[m] \cup pending[m]) \cap sending[m][z] = {}
           /\ HeldBy(m) \cap BagToSet(received) = {}
      /\ \A r \in BagToSet(received) : received[r] = 1
  BY <1>1, <1>2, <1>5 DEF Facts, OnceEach
<1>10. /\ sending[n][s] \subseteq HeldBy(n)
       /\ \A m \in Nodes : m # n => HeldBy(m)' = HeldBy(m)
       /\ HeldBy(n)' \subseteq HeldBy(n)
       /\ BagToSet(received') = BagToSet(received) \cup sending[n][s]
  BY <1>6, DeliverMoves
<1>11. HeldBy(n)' \cap sending[n][s] = {}
  <2>1. ASSUME NEW z \in Signals, z # s PROVE sending[n][z] \cap sending[n][s] = {}
    <3>1. (\A r \in sending[n][z] : r.signal = z) /\ (\A r \in sending[n][s] : r.signal = s)
      BY DEF Facts, Typing, TypeOK
    <3>. QED BY <2>1, <3>1
  <2>2. \A z \in Signals : sending'[n][z] \cap sending[n][s] = {}
    BY <1>8, <2>1
  <2>3. (open[n] \cup pending[n]) \cap sending[n][s] = {}
    BY <1>9
  <2>. QED BY <1>2, <2>2, <2>3 DEF HeldBy, Signals
<1>12. \A m \in Nodes : HeldBy(m)' \cap BagToSet(received') = {}
  <2>1. ASSUME NEW m \in Nodes, m # n PROVE HeldBy(m) \cap sending[n][s] = {}
    BY <1>10, <2>1, NoRecordTwice
  <2>. QED BY <1>9, <1>10, <1>11, <2>1
<1>13. \A r \in BagToSet(received') : received'[r] = 1
  <2>1. /\ \A r \in sending[n][s] \ BagToSet(received) : received'[r] = 1
        /\ \A r \in BagToSet(received) \ sending[n][s] : received'[r] = received[r]
    BY <1>2, <1>6, AcceptIsLocal
  <2>2. sending[n][s] \cap BagToSet(received) = {}
    BY <1>9, <1>10
  <2>. QED BY <1>9, <1>10, <2>1, <2>2
<1>14. \A m \in Nodes : /\ open'[m] \cap pending'[m] = {}
                        /\ \A z \in Signals : (open'[m] \cup pending'[m]) \cap sending'[m][z] = {}
  BY <1>2, <1>8, <1>9
<1>. QED BY <1>12, <1>13, <1>14

\* What a delivery adds to the collector it leaves evidence of.
LEMMA DeliverKeepsEvidence ==
  ASSUME Facts, NEW n \in Nodes, NEW s \in Signals, Deliver(n, s)
  PROVE  Evidence'
<1>1. Accept(n, s) /\ UNCHANGED defect
  BY DeliverDoes
<1>2. PICK answered \in BOOLEAN, again \in BOOLEAN : Delivery(n, s, answered, again)
  BY DeliverDoes
<1>3. Status(mode) \in {200, 503}
  BY <1>2, DeliveryIsLocal
<1>4. PICK new \in Deliveries' : new.signal = s /\ \A d \in Deliveries : d \in Deliveries' \/ d.signal = s
  <2>. DEFINE q == Group(n, s, Append(trail[n][s], Status(mode)))
  <2>1. q.signal = s
    BY DEF Group
  <2>. QED BY <1>2, <2>1, DeliveryIsCounted
<1>5. BagToSet(received') \subseteq BagToSet(received) \cup sending[n][s]
  BY DeliverMoves
<1>6. ASSUME NEW r \in BagToSet(received') PROVE \E d \in Deliveries' : d.signal = r.signal
  <2>1. CASE r \in BagToSet(received)
    BY <1>4, <2>1 DEF Facts, Evidence
  <2>2. CASE r \in sending[n][s]
    <3>1. r.signal = s
      BY <2>2 DEF Facts, Typing, TypeOK
    <3>. QED BY <1>4, <3>1
  <2>. QED BY <1>5, <2>1, <2>2
<1>7. ASSUME NEW r \in BagToSet(received'), defect = "none"
      PROVE  resources'[r.signal] = "tck-telemetry"
  <2>1. Service(n) = "tck-telemetry"
    BY <1>7 DEF Service
  <2>2. r \in Record
    BY <1>1, <1>3, AcceptIsLocal
  <2>3. r.signal \in Signals
    BY <2>2 DEF Record
  <2>4. CASE Status(mode) = 200
    <3>1. resources'[s] = Service(n) /\ \A z \in Signals : z # s => resources'[z] = resources[z]
      BY <1>1, <1>3, <2>4, AcceptIsLocal
    <3>2. CASE r.signal = s
      BY <2>1, <3>1, <3>2
    <3>3. CASE r.signal # s
      <4>1. r \in BagToSet(received)
        BY <1>5, <3>3 DEF Facts, Typing, TypeOK
      <4>2. resources[r.signal] = "tck-telemetry"
        BY <1>7, <4>1 DEF Facts, Evidence
      <4>. QED BY <2>3, <3>1, <3>3, <4>2
    <3>. QED BY <3>2, <3>3
  <2>5. CASE Status(mode) # 200
    <3>1. UNCHANGED <<received, resources>>
      BY <1>1, <1>3, <2>5, AcceptIsLocal
    <3>2. BagToSet(received') = BagToSet(received)
      BY <3>1 DEF BagToSet
    <3>. QED BY <1>7, <3>1, <3>2 DEF Facts, Evidence
  <2>. QED BY <2>4, <2>5
<1>. QED BY <1>1, <1>6, <1>7 DEF Evidence

\* A batch that a correct celld is done with was sent again if it was refused; one
\* that gives up does not send any batch again.
LEMMA DeliverKeepsRetries ==
  ASSUME Facts, NEW n \in Nodes, NEW s \in Signals, Deliver(n, s)
  PROVE  Retried' /\ NoRetries'
<1>1. /\ sending[n][s] # {} /\ UNCHANGED <<case, defect, step, mode>>
  BY DeliverDoes
<1>2. PICK answered \in BOOLEAN, again \in BOOLEAN : Delivery(n, s, answered, again)
  BY DeliverDoes
<1>. DEFINE met == Append(trail[n][s], Status(mode))
<1>3. /\ \A m \in Nodes, z \in Signals : m # n \/ z # s =>
           /\ attempts'[m][z] = attempts[m][z] /\ sending'[m][z] = sending[m][z]
           /\ trail'[m][z] = trail[m][z]
      /\ attempts'[n][s] = attempts[n][s] + 1
      /\ sending'[n][s] = IF again THEN sending[n][s] ELSE {}
      /\ trail'[n][s] = IF again THEN met ELSE <<>>
      /\ met \in Seq(Statuses) /\ Len(met) = Len(trail[n][s]) + 1
      /\ Status(mode) \in {200, 503} /\ (Status(mode) = 200 <=> mode = "normal")
  BY <1>2, DeliveryIsLocal
<1>4. /\ groups' = IF again THEN groups ELSE groups \cup {Group(n, s, met)}
      /\ lost' = IF answered THEN lost ELSE lost + 1
      /\ again <=> attempts[n][s] + 1 < MaxAttempts /\ (~answered \/ (Status(mode) = 503 /\ defect # "give up"))
  BY <1>2 DEF Delivery
<1>5. /\ lost \in Nat /\ attempts[n][s] \in Nat /\ MaxAttempts \in Nat /\ MaxAttempts >= 2
      /\ trail[n][s] \in Seq(Statuses)
  BY BoundsAssumption DEF Facts, Typing, TypeOK
<1>6. lost' = 0 => answered /\ lost = 0
  <2>1. lost + 1 # 0
    BY <1>5
  <2>. QED BY <1>4, <2>1, Zenon
<1>7. met[Len(met)] = Status(mode)
  <2>1. /\ met[Len(trail[n][s]) + 1] = Status(mode)
        /\ Len(met) = Len(trail[n][s]) + 1
    BY <1>5
  <2>. QED BY <2>1
<1>8. Group(n, s, met).statuses = met
  BY DEF Group
<1>. HIDE DEF met
<1>9. Retried'
  <2>1. SUFFICES ASSUME Faultless'
                 PROVE  /\ \A m \in Nodes, z \in Signals : sending'[m][z] # {} =>
                             /\ Len(trail'[m][z]) = attempts'[m][z]
                             /\ case = "trace-context" \/ step <= 2 => attempts'[m][z] = 0
                        /\ \A d \in groups' : Refused(d) => Len(d.statuses) > 1
    BY <1>1 DEF Retried, Refused
  <2>2. Faultless /\ answered /\ defect = "none"
    BY <1>1, <1>6, <2>1 DEF Faultless
  <2>3. /\ \A m \in Nodes, z \in Signals : sending[m][z] # {} =>
             /\ Len(trail[m][z]) = attempts[m][z]
             /\ case = "trace-context" \/ step <= 2 => attempts[m][z] = 0
        /\ \A d \in groups : Refused(d) => Len(d.statuses) > 1
    BY <2>2 DEF Facts, Retried
  <2>4. again => mode # "normal"
    BY <1>3, <1>4, <2>2
  <2>5. case = "trace-context" \/ step <= 2 => ~again
    <3>1. step \in Nat
      BY DEF Facts, Typing, TypeOK
    <3>. QED BY <2>4, <3>1 DEF Facts, Quiet, Undisturbed
  <2>6. sending'[n][s] # {} =>
          /\ Len(trail'[n][s]) = attempts'[n][s]
          /\ case = "trace-context" \/ step <= 2 => attempts'[n][s] = 0
    BY <1>1, <1>3, <2>3, <2>5
  <2>7. ASSUME ~again, Refused(Group(n, s, met)) PROVE Len(met) > 1
    <3>1. Len(met) = attempts[n][s] + 1
      BY <1>1, <1>3, <2>3
    <3>2. CASE Status(mode) = 503
      BY <1>4, <1>5, <2>2, <2>7, <3>1, <3>2
    <3>3. CASE Status(mode) = 200
      <4>1. PICK i \in DOMAIN met : met[i] = 503
        BY <1>8, <2>7 DEF Refused
      <4>2. i # Len(met) /\ i \in 1 .. Len(met)
        BY <1>3, <1>7, <3>3, <4>1
      <4>. QED BY <1>5, <3>1, <4>2
    <3>. QED BY <1>3, <3>2, <3>3
  <2>8. \A d \in groups' : Refused(d) => Len(d.statuses) > 1
    BY <1>4, <1>8, <2>3, <2>7
  <2>9. ASSUME NEW m \in Nodes, NEW z \in Signals, sending'[m][z] # {}
        PROVE  /\ Len(trail'[m][z]) = attempts'[m][z]
               /\ case = "trace-context" \/ step <= 2 => attempts'[m][z] = 0
    <3>1. CASE m = n /\ z = s
      BY <2>6, <2>9, <3>1
    <3>2. CASE m # n \/ z # s
      BY <1>3, <2>3, <2>9, <3>2
    <3>. QED BY <3>1, <3>2
  <2>. QED BY <2>8, <2>9
<1>10. NoRetries'
  <2>1. SUFFICES ASSUME defect = "give up", lost' = 0
                 PROVE  /\ \A m \in Nodes, z \in Signals : trail'[m][z] = <<>>
                        /\ \A d \in groups' : Len(d.statuses) = 1
    BY <1>1 DEF NoRetries
  <2>2. ~again /\ lost = 0
    BY <1>4, <1>6, <2>1
  <2>3. /\ \A m \in Nodes, z \in Signals : trail[m][z] = <<>>
        /\ \A d \in groups : Len(d.statuses) = 1
    BY <2>1, <2>2 DEF Facts, NoRetries
  <2>4. Len(met) = 1
    BY <1>3, <2>3
  <2>5. \A m \in Nodes, z \in Signals : trail'[m][z] = <<>>
    BY <1>3, <2>2, <2>3
  <2>. QED BY <1>4, <1>8, <2>3, <2>4, <2>5
<1>. QED BY <1>9, <1>10

\* A delivery.
LEMMA DeliverKeeps == ASSUME Facts, NEW n \in Nodes, NEW s \in Signals, Deliver(n, s) PROVE Facts'
BY DeliverTyped, DeliverKeepsRecords, DeliverKeepsOnceEach, DeliverKeepsEvidence, DeliverKeepsRetries
   DEF Facts

-----------------------------------------------------------------------------
(* The driver.                                                             *)

\* The types of what a step of the driver may change are kept together.
LEMMA StepTyped ==
  ASSUME Facts, UNCHANGED <<setting, sending, attempts, received, resources, lost>>,
         open' \in [Nodes -> SUBSET Record], pending' \in [Nodes -> SUBSET Record],
         \A n \in Nodes : \A r \in open'[n] : r.signal = "traces",
         step' \in 1 .. Len(Program[case]), verdict' \in {None, "pass", "fail"},
         mode' \in {"normal", "transient"}, UNCHANGED <<trail, groups>>
  PROVE  Typing' /\ Trails'
<1>1. UNCHANGED <<case, defect, home>> /\ Typing /\ Trails
  BY DEF Facts, setting
<1>2. Program' = Program /\ Concerns' = Concerns /\ Deliveries' = Deliveries
  BY DEF Program, Concerns, Deliveries
<1>3. TypeOK'
  BY <1>1, <1>2 DEF Typing, TypeOK
<1>4. Typing'
  BY <1>1, <1>2, <1>3 DEF Typing
<1>. QED BY <1>1, <1>4 DEF Trails

\* A request is recorded, and by no node twice.
LEMMA RequestKeeps == ASSUME Facts, Request PROVE Facts'
<1>. DEFINE P(n) == Produced(At, n)
<1>1. /\ At \in Requests /\ step' = step + 1 /\ UNCHANGED verdict
      /\ pending' = [n \in Nodes |-> pending[n] \cup P(n).logs]
      /\ open' = [n \in Nodes |-> open[n] \cup P(n).spans]
      /\ UNCHANGED <<setting, sending, attempts, collector, ghosts>>
      /\ UNCHANGED <<case, defect, home, mode, trail, groups, received, resources, lost>>
  BY DEF Request, Advance, setting, collector, ghosts
<1>2. Typing /\ verdict = None /\ At \notin Decisive
  BY <1>1 DEF Facts, At, Requests, Decisive
<1>3. /\ case = "trace-context" => step \in 2..5
      /\ case # "trace-context" => step \in {1, 3, 6, 7} /\ (step = 3 => At = "probe")
      /\ At \notin Past /\ step + 1 \in 1 .. Len(Program[case]) /\ step \in Nat
  BY <1>1, <1>2, Steps DEF Typing, TypeOK
<1>4. Past' = Past \cup {At}
  BY <1>1, <1>2, PastGrows
<1>5. \A n, at : Records(n, at)' = Records(n, at)
  BY <1>1, RecordsStay
<1>6. /\ \A n \in Nodes : Records(n, At) \subseteq Record
      /\ \A n \in Nodes : \A r \in Records(n, At) : Origin(r) = At
      /\ \A n \in Nodes : \A r \in P(n).logs : r.signal = "logs"
      /\ \A n \in Nodes : \A r \in P(n).spans : r.signal = "traces"
      /\ \A n \in Nodes : Records(n, At) = P(n).logs \cup P(n).spans
  BY <1>1, <1>2, Produce DEF Records
<1>. HIDE DEF P
<1>7. \A n \in Nodes : HeldBy(n)' = HeldBy(n) \cup Records(n, At)
  <2>1. \A n \in Nodes : open'[n] = open[n] \cup P(n).spans /\ pending'[n] = pending[n] \cup P(n).logs
    BY <1>1
  <2>. QED BY <1>1, <1>6, <2>1 DEF HeldBy
<1>8. Typing' /\ Trails'
  <2>1. open' \in [Nodes -> SUBSET Record] /\ pending' \in [Nodes -> SUBSET Record]
    BY <1>1, <1>2, <1>6 DEF Typing
  <2>2. \A n \in Nodes : \A r \in open'[n] : r.signal = "traces"
    BY <1>1, <1>2, <1>6 DEF Typing, TypeOK
  <2>3. step' \in 1 .. Len(Program[case]) /\ verdict' \in {None, "pass", "fail"}
        /\ mode' \in {"normal", "transient"}
    BY <1>1, <1>2, <1>3 DEF Typing, TypeOK
  <2>. QED BY <1>1, <2>1, <2>2, <2>3, StepTyped
<1>9. Whereabouts'
  <2>1. ASSUME NEW n \in Nodes, NEW r \in HeldBy(n)'
        PROVE  Origin(r) \in Past' \cap Requests /\ r \in Records(n, Origin(r))
    <3>1. CASE r \in HeldBy(n)
      BY <1>4, <3>1 DEF Facts, Whereabouts
    <3>2. CASE r \in Records(n, At)
      BY <1>1, <1>4, <1>6, <3>2
    <3>. QED BY <1>7, <2>1, <3>1, <3>2
  <2>2. ASSUME NEW r \in BagToSet(received)
        PROVE  Origin(r) \in Past' \cap Requests /\ \E n \in Nodes : r \in Records(n, Origin(r))
    BY <1>4 DEF Facts, Whereabouts
  <2>3. BagToSet(received') = BagToSet(received)
    BY <1>1 DEF BagToSet
  <2>. QED BY <1>5, <2>1, <2>2, <2>3 DEF Whereabouts
<1>10. NothingIsLost'
  <2>1. \A at \in Kept' : at \in Kept \/ at = At
    <3>1. Kept' = IF case = "trace-context" THEN Past' \cap Requests
                  ELSE IF step' = 4 THEN {"probe"} ELSE {}
      BY <1>1 DEF Kept
    <3>2. CASE case = "trace-context"
      BY <1>4, <3>1, <3>2 DEF Kept
    <3>3. CASE case # "trace-context"
      BY <1>1, <1>3, <3>1, <3>3
    <3>. QED BY <3>2, <3>3
  <2>2. BagToSet(received') = BagToSet(received)
    BY <1>1 DEF BagToSet
  <2>3. ASSUME NEW at \in Kept', NEW n \in Nodes, NEW r \in Records(n, at)
        PROVE  r \in HeldBy(n)' \cup BagToSet(received')
    <3>1. CASE at = At
      BY <1>7, <2>3, <3>1
    <3>2. CASE at \in Kept
      BY <1>7, <2>2, <2>3, <3>2 DEF Facts, NothingIsLost
    <3>. QED BY <2>1, <3>1, <3>2
  <2>. QED BY <1>5, <2>3 DEF NothingIsLost
<1>11. OnceEach'
  <2>1. SUFFICES ASSUME Faultless, case = "trace-context"
                 PROVE  /\ \A n \in Nodes :
                             /\ open'[n] \cap pending'[n] = {}
                             /\ \A s \in Signals : (open'[n] \cup pending'[n]) \cap sending'[n][s] = {}
                             /\ HeldBy(n)' \cap BagToSet(received') = {}
                        /\ \A r \in BagToSet(received') : received'[r] = 1
    BY <1>1 DEF OnceEach, Faultless
  <2>2. /\ \A n \in Nodes :
             /\ open[n] \cap pending[n] = {}
             /\ \A s \in Signals : (open[n] \cup pending[n]) \cap sending[n][s] = {}
             /\ HeldBy(n) \cap BagToSet(received) = {}
        /\ \A r \in BagToSet(received) : received[r] = 1
    BY <2>1 DEF Facts, OnceEach
  <2>3. ASSUME NEW n \in Nodes, NEW r \in Records(n, At)
        PROVE  r \notin BagToSet(received) /\ \A m \in Nodes : r \notin HeldBy(m)
    BY <1>3, <1>6 DEF Facts, Whereabouts
  <2>4. BagToSet(received') = BagToSet(received)
    BY <1>1 DEF BagToSet
  <2>5. ASSUME NEW n \in Nodes
        PROVE  /\ open'[n] \cap pending'[n] = {}
               /\ \A s \in Signals : (open'[n] \cup pending'[n]) \cap sending'[n][s] = {}
               /\ HeldBy(n)' \cap BagToSet(received') = {}
    <3>1. open'[n] = open[n] \cup P(n).spans /\ pending'[n] = pending[n] \cup P(n).logs
      BY <1>1
    <3>2. P(n).logs \cap P(n).spans = {}
      BY <1>6
    <3>3. \A r \in P(n).logs \cup P(n).spans :
            r \notin open[n] /\ r \notin pending[n] /\ \A s \in Signals : r \notin sending[n][s]
      BY <1>6, <2>3 DEF HeldBy, Signals
    <3>4. HeldBy(n)' \cap BagToSet(received') = {}
      BY <1>7, <2>2, <2>3, <2>4
    <3>. QED BY <1>1, <2>2, <3>1, <3>2, <3>3, <3>4
  <2>. QED BY <1>1, <2>2, <2>4, <2>5
<1>12. Quiet' /\ Silence'
  <2>1. defect = "mute" => case # "trace-context"
    <3>1. Concerns["trace-context"] =
            {"new trace", "await", "reuse", "orphan", "adopt", "sample"} \cup {"none", "misname"}
      BY DEF Concerns, Sought, Cases
    <3>2. defect \in Concerns[case]
      BY <1>2 DEF Typing
    <3>. QED BY <3>1, <3>2
  <2>2. Silence'
    BY <1>1, <1>3, <2>1 DEF Facts, Silence
  <2>. QED BY <1>1, <1>3, <2>2 DEF Facts, Quiet, Undisturbed
<1>13. Evidence' /\ NoRetries'
  <2>1. Deliveries' = Deliveries /\ BagToSet(received') = BagToSet(received)
    BY <1>1 DEF Deliveries, BagToSet
  <2>. QED BY <1>1, <2>1 DEF Facts, Evidence, NoRetries
<1>14. Retried'
  BY <1>1, <1>3 DEF Facts, Retried, Faultless, Refused
<1>. QED BY <1>8, <1>9, <1>10, <1>11, <1>12, <1>13, <1>14 DEF Facts

\* The collector forgets, before there is anything to remember.
LEMMA ResetKeeps == ASSUME Facts, Reset PROVE Facts'
<1>1. /\ At = "reset" /\ step' = step + 1 /\ UNCHANGED verdict
      /\ trail' = [n \in Nodes |-> [s \in Signals |-> <<>>]] /\ groups' = {}
      /\ received' = EmptyBag /\ mode' = "normal"
      /\ UNCHANGED <<case, defect, home, open, pending, sending, attempts, resources, lost>>
  BY DEF Reset, Advance, setting, celld, ghosts
<1>2. Typing /\ verdict = None /\ At \notin Decisive /\ At \notin Requests
  BY <1>1 DEF Facts, At, Requests, Decisive
<1>3. /\ case = "trace-context" => step = 1
      /\ case # "trace-context" => step = 2
      /\ step + 1 \in 1 .. Len(Program[case])
  BY <1>1, <1>2, Steps
<1>4. BagToSet(received') = {} /\ IsABag(received')
  BY <1>1 DEF EmptyBag, SetToBag, BagToSet, IsABag
<1>5. \A n \in Nodes, s \in Signals : trail'[n][s] = <<>>
  BY <1>1
<1>6. \A d : d \notin Deliveries'
  BY <1>1, <1>5, CountedNext
<1>7. Typing' /\ Trails'
  <2>1. Program' = Program /\ Concerns' = Concerns
    BY DEF Program, Concerns
  <2>2. TypeOK'
    BY <1>1, <1>2, <1>3, <1>4, <1>6, <2>1 DEF Typing, TypeOK
  <2>3. trail' \in [Nodes -> [Signals -> Seq(Statuses)]]
    <3>1. <<>> \in Seq(Statuses)
      OBVIOUS
    <3>. QED BY <1>1, <3>1
  <2>4. Typing'
    BY <1>1, <1>2, <1>4, <2>1, <2>2, <2>3 DEF Typing
  <2>5. \A n \in Nodes, s \in Signals : Len(trail'[n][s]) <= attempts'[n][s]
    <3>1. \A n \in Nodes, s \in Signals : attempts[n][s] \in Nat
      BY <1>2 DEF Typing
    <3>2. Len(<<>>) = 0
      OBVIOUS
    <3>. QED BY <1>1, <1>5, <3>1, <3>2
  <2>. QED BY <1>5, <2>4, <2>5 DEF Trails
<1>8. Past' = Past \cup {At} /\ \A n \in Nodes : HeldBy(n)' = HeldBy(n)
  BY <1>1, <1>2, PastGrows DEF HeldBy
<1>9. \A n, at : Records(n, at)' = Records(n, at)
  BY <1>1, RecordsStay
<1>10. Whereabouts'
  BY <1>4, <1>8, <1>9 DEF Facts, Whereabouts
<1>11. NothingIsLost'
  <2>1. case = "trace-context" => Past = {}
    BY <1>3 DEF Past
  <2>2. Kept' = {}
    BY <1>1, <1>2, <1>3, <1>8, <2>1 DEF Kept
  <2>. QED BY <2>2 DEF NothingIsLost
<1>12. OnceEach'
  BY <1>1, <1>4, <1>8 DEF Facts, OnceEach, Faultless
<1>13. Quiet' /\ Evidence'
  BY <1>1, <1>4 DEF Quiet, Evidence
<1>14. Retried'
  <2>1. Len(<<>>) = 0
    OBVIOUS
  <2>2. case = "trace-context" \/ step <= 2
    BY <1>3
  <2>3. Faultless => \A n \in Nodes, s \in Signals : sending[n][s] # {} => attempts[n][s] = 0
    BY <2>2 DEF Facts, Retried
  <2>. QED BY <1>1, <1>5, <2>1, <2>3 DEF Retried, Faultless
<1>15. NoRetries' /\ Silence'
  BY <1>1, <1>3, <1>5 DEF NoRetries, Silence
<1>. QED BY <1>7, <1>10, <1>11, <1>12, <1>13, <1>14, <1>15 DEF Facts

\* Steps that leave the records and their deliveries alone.
LEMMA LookingKeeps ==
  ASSUME Facts, Typing', Trails', Quiet', Silence', verdict = None,
         UNCHANGED <<setting, celld, trail, groups, received, resources, lost>>,
         step' = step \/ (step' = step + 1 /\ At \notin Requests /\ step > 3)
  PROVE  Facts'
<1>1. UNCHANGED <<case, defect, home, open, pending, sending, attempts, trail, groups, received, resources, lost>>
  BY DEF setting, celld
<1>2. Typing /\ step \in Nat
  <2>1. step \in Nat
    BY DEF Facts, Typing, TypeOK
  <2>. QED BY <2>1 DEF Facts
<1>3. Past' \cap Requests = Past \cap Requests
  BY <1>1, <1>2, PastGrows
<1>4. \A n, at : Records(n, at)' = Records(n, at)
  BY <1>1, RecordsStay
<1>5. /\ \A n \in Nodes : HeldBy(n)' = HeldBy(n)
      /\ BagToSet(received') = BagToSet(received) /\ Deliveries' = Deliveries
  BY <1>1 DEF HeldBy, BagToSet, Deliveries
<1>6. Whereabouts'
  BY <1>3, <1>4, <1>5 DEF Facts, Whereabouts
<1>7. Kept' \subseteq Kept
  BY <1>1, <1>2, <1>3 DEF Kept
<1>8. NothingIsLost'
  BY <1>4, <1>5, <1>7 DEF Facts, NothingIsLost
<1>9. OnceEach'
  BY <1>1, <1>5 DEF Facts, OnceEach, Faultless
<1>10. Evidence' /\ NoRetries'
  <2>1. Evidence'
    BY <1>1, <1>5 DEF Facts, Evidence
  <2>2. NoRetries'
    BY <1>1 DEF Facts, NoRetries
  <2>. QED BY <2>1, <2>2
<1>11. Retried'
  BY <1>1, <1>2 DEF Facts, Retried, Faultless, Refused
<1>. QED BY <1>6, <1>8, <1>9, <1>10, <1>11 DEF Facts

\* The collector begins to refuse.
LEMMA DisturbKeeps == ASSUME Facts, Disturb PROVE Facts'
<1>1. /\ At = "disturb" /\ step' = step + 1 /\ UNCHANGED verdict /\ mode' = "transient"
      /\ UNCHANGED <<setting, celld, trail, groups, received, resources, ghosts>>
      /\ UNCHANGED <<case, defect, open, pending, sending, attempts, lost>>
  BY DEF Disturb, Advance, setting, celld, ghosts
<1>2. Typing /\ verdict = None /\ At \notin Decisive /\ At \notin Requests
  BY <1>1 DEF Facts, At, Requests, Decisive
<1>3. case # "trace-context" /\ step = 5 /\ step + 1 \in 1 .. Len(Program[case])
  BY <1>1, <1>2, Steps
<1>4. Typing' /\ Trails'
  BY <1>1, <1>2, <1>3, StepTyped DEF Typing, TypeOK
<1>5. Quiet' /\ Silence'
  BY <1>1, <1>3 DEF Facts, Quiet, Undisturbed, Silence
<1>. QED BY <1>1, <1>2, <1>3, <1>4, <1>5, LookingKeeps

\* The window closes.
LEMMA WindowEndsKeeps == ASSUME Facts, WindowEnds PROVE Facts'
<1>1. /\ InUse /\ mode' = "normal"
      /\ UNCHANGED <<setting, step, celld, trail, groups, received, resources, verdict, ghosts>>
      /\ UNCHANGED <<case, defect, open, pending, sending, attempts, lost>>
  BY DEF WindowEnds, setting, celld, ghosts
<1>2. Typing /\ verdict = None
  BY <1>1 DEF Facts, InUse
<1>3. Typing' /\ Trails'
  BY <1>1, <1>2, StepTyped DEF Typing, TypeOK
<1>4. Quiet' /\ Silence'
  BY <1>1 DEF Facts, Quiet, Silence
<1>. QED BY <1>1, <1>2, <1>3, <1>4, LookingKeeps

-----------------------------------------------------------------------------
(* What the collector can have received.                                   *)

\* The one log line of a name.
TheLog(body) ==
  IF body = "worker" THEN Log("worker", "sent", "worker")
  ELSE IF body = "cell" THEN Log("cell", CellTrace, "cell")
  ELSE IF body = "cell-await" THEN Log("cell-await", CellTrace, AwaitSpan)
  ELSE Log(body, body, body)

\* The spans of the chain.
WorkerSpan == Span("celld.fetch", "sent", "worker", "remote")
CellSpan == Span("celld.cell_fetch", CellTrace, "cell", IF defect = "orphan" THEN None ELSE "worker")
FetchSpan == Span("fetch", CellTrace, "outbound", "cell")

\* The root span of a request outside of the chain.
RootSpan(at) ==
  Span("celld.fetch", at, at, IF at = "malformed" /\ defect = "adopt" THEN "remote" ELSE None)

\* The chain is made of three lines and three spans, which name no request.
LEMMA ChainParts ==
  ASSUME NEW n \in Nodes, NEW r \in Records(n, "chain")
  PROVE  /\ r.signal = "logs" => r = TheLog(r.name)
         /\ r.signal = "traces" => r \in {WorkerSpan, CellSpan, FetchSpan}
         /\ r.name \notin Requests /\ r.span \notin Requests
<1>1. Records(n, "chain") \subseteq
        (WorkerPart.logs \cup CellPart.logs) \cup (WorkerPart.spans \cup CellPart.spans)
  BY DEF Records, Produced, Together, Nothing
<1>2. WorkerPart.logs \cup CellPart.logs = {TheLog("worker"), TheLog("cell"), TheLog("cell-await")}
  BY DEF WorkerPart, CellPart, TheLog
<1>3. WorkerPart.spans \cup CellPart.spans = {WorkerSpan, CellSpan, FetchSpan}
  BY DEF WorkerPart, CellPart, WorkerSpan, CellSpan, FetchSpan
<1>4. ASSUME NEW body \in {"worker", "cell", "cell-await"}
      PROVE  /\ TheLog(body).signal = "logs" /\ TheLog(body).name = body
             /\ TheLog(body).span \in {"worker", "cell"}
  BY DEF TheLog, Log, AwaitSpan
<1>5. \A q \in {WorkerSpan, CellSpan, FetchSpan} :
        /\ q.signal = "traces" /\ q.name \in {"celld.fetch", "celld.cell_fetch", "fetch"}
        /\ q.span \in {"worker", "cell", "outbound"}
  BY DEF WorkerSpan, CellSpan, FetchSpan, Span
<1>6. CASE r \in {TheLog("worker"), TheLog("cell"), TheLog("cell-await")}
  BY <1>4, <1>6 DEF Requests
<1>7. CASE r \in {WorkerSpan, CellSpan, FetchSpan}
  BY <1>5, <1>7 DEF Requests
<1>. QED BY <1>1, <1>2, <1>3, <1>6, <1>7

\* Any other request records at most a line and a span of its own name.
LEMMA OtherParts ==
  ASSUME NEW at \in Requests \ {"chain"}, NEW n \in Nodes, NEW r \in Records(n, at)
  PROVE  /\ r.span = at /\ r.trace = at
         /\ r.signal = "logs" => r = TheLog(r.name) /\ r.name = at
         /\ r.signal = "traces" => r = RootSpan(at) \/ at \in {"batch", "traffic"}
         /\ at = "unsampled" => defect = "sample"
<1>1. \/ r = Log(at, at, at)
      \/ \E parent \in {None, "remote"} : r = Span("celld.fetch", at, at, parent)
      \/ r = Span("celld.cell_fetch", at, at, None)
  BY DEF Records, Produced, Requests, Emit, Nothing
<1>2. TheLog(at) = Log(at, at, at)
  BY DEF TheLog, Requests
<1>3. /\ r.span = at /\ r.trace = at
      /\ r.signal = "logs" => r = TheLog(r.name) /\ r.name = at
  BY <1>1, <1>2 DEF Log, Span
<1>4. ASSUME r.signal = "traces" PROVE r = RootSpan(at) \/ at \in {"batch", "traffic"}
  <2>1. CASE at \in {"batch", "traffic"}
    BY <2>1
  <2>2. CASE at \notin {"batch", "traffic"}
    <3>1. Records(n, at) \subseteq {Log(at, at, at), RootSpan(at)}
      BY <2>2 DEF Records, Produced, Requests, Emit, Nothing, RootSpan
    <3>2. Log(at, at, at).signal = "logs"
      BY DEF Log
    <3>. QED BY <1>4, <3>1, <3>2
  <2>. QED BY <2>1, <2>2
<1>5. at = "unsampled" => defect = "sample"
  BY DEF Records, Produced, Nothing
<1>. QED BY <1>3, <1>4, <1>5

\* Where a record that was received comes from.
LEMMA Known ==
  ASSUME Facts, NEW r \in BagToSet(received)
  PROVE  /\ r \in Record
         /\ r.signal = "logs" => r = TheLog(r.name)
         /\ r.signal = "traces" /\ r.trace = "sent" => r \in {WorkerSpan, CellSpan, FetchSpan}
         /\ \A at \in {"malformed", "sampled"} :
              r.signal = "traces" /\ r.span = at => r = RootSpan(at)
         /\ r.signal = "logs" /\ r.name = "unsampled" => defect = "sample"
<1>1. PICK n \in Nodes : Origin(r) \in Requests /\ r \in Records(n, Origin(r))
  BY DEF Facts, Whereabouts
<1>2. r \in Record
  BY DEF Facts, Typing
<1>3. CASE Origin(r) = "chain"
  BY <1>1, <1>2, <1>3, ChainParts DEF Requests
<1>4. CASE Origin(r) # "chain"
  <2>1. Origin(r) = r.trace /\ r.trace # "sent"
    BY <1>4 DEF Origin
  <2>. QED BY <1>1, <1>2, <1>4, <2>1, OtherParts
<1>. QED BY <1>3, <1>4

\* How often a line is counted.
LEMMA LinesCounted ==
  ASSUME Facts, NEW body
  PROVE  \/ /\ TheLog(body) \in BagToSet(received) /\ TheLog(body).name = body
            /\ LogsOf(body) = received[TheLog(body)] /\ LogsOf(body) \in Nat \ {0}
         \/ LogsOf(body) = 0 /\ ~\E r \in BagToSet(received) : r.signal = "logs" /\ r.name = body
<1>. DEFINE Lines == {r \in Received("logs") : r.name = body}
<1>1. LogsOf(body) = Copies(Lines)
  BY DEF LogsOf
<1>2. \A r : r \in Lines <=> r \in BagToSet(received) /\ r.signal = "logs" /\ r.name = body
  BY DEF Received
<1>3. \A r \in Lines : r = TheLog(body)
  BY <1>2, Known
<1>. HIDE DEF Lines
<1>4. CASE Lines = {}
  BY <1>1, <1>2, <1>4, CopiesOfNone
<1>5. CASE Lines # {}
  <2>1. Lines = {TheLog(body)} /\ TheLog(body) \in BagToSet(received) /\ TheLog(body).name = body
    BY <1>2, <1>3, <1>5
  <2>2. IsABag(received)
    BY DEF Facts, Typing, TypeOK
  <2>. QED BY <1>1, <2>1, <2>2, CopiesOfOne
<1>. QED BY <1>4, <1>5

\* A line that was received is counted.
LEMMA LineCounted ==
  ASSUME Facts, NEW r \in BagToSet(received), r.signal = "logs"
  PROVE  LogsOf(r.name) = received[r] /\ LogsOf(r.name) \in Nat \ {0}
<1>1. r = TheLog(r.name)
  BY Known
<1>. QED BY <1>1, LinesCounted

-----------------------------------------------------------------------------
(* The verdicts on the traced case.                                        *)

\* The spans of the chain differ in their names.
LEMMA SpansDiffer ==
  /\ WorkerSpan.name = "celld.fetch" /\ WorkerSpan.span = "worker" /\ WorkerSpan.signal = "traces"
  /\ WorkerSpan.trace = "sent" /\ WorkerSpan.parent = "remote"
  /\ CellSpan.name = "celld.cell_fetch" /\ CellSpan.span = "cell" /\ CellSpan.signal = "traces"
  /\ CellSpan.trace = CellTrace /\ CellSpan.parent = IF defect = "orphan" THEN None ELSE "worker"
  /\ FetchSpan.name = "fetch" /\ FetchSpan.span = "outbound" /\ FetchSpan.signal = "traces"
  /\ FetchSpan.trace = CellTrace /\ FetchSpan.parent = "cell"
BY DEF WorkerSpan, CellSpan, FetchSpan, Span

\* The chain is not found when one of its defects is there.
LEMMA ChainIsSound ==
  ASSUME Facts, checkChain
  PROVE  defect \notin {"new trace", "await", "reuse", "orphan"}
<1>1. PICK worker \in BagToSet(received), cell \in BagToSet(received), outbound \in BagToSet(received) :
        /\ checkStep(worker, "celld.fetch", "remote")
        /\ checkStep(cell, "celld.cell_fetch", worker.span)
        /\ checkLogCorrelation("cell-await", cell)
        /\ checkOutboundHeader(outbound, cell)
  BY DEF checkChain
<1>2. /\ worker.signal = "traces" /\ worker.name = "celld.fetch" /\ worker.trace = "sent"
      /\ cell.signal = "traces" /\ cell.name = "celld.cell_fetch" /\ cell.trace = "sent"
      /\ cell.parent = worker.span
  BY <1>1 DEF checkStep
<1>3. worker = WorkerSpan /\ cell = CellSpan
  <2>1. worker \in {WorkerSpan, CellSpan, FetchSpan} /\ cell \in {WorkerSpan, CellSpan, FetchSpan}
    BY <1>2, Known
  <2>. QED BY <1>2, <2>1, SpansDiffer
<1>4. defect # "new trace" /\ defect # "orphan"
  BY <1>2, <1>3, SpansDiffer DEF CellTrace, None
<1>5. defect # "await"
  <2>1. PICK r \in BagToSet(received) : r = Log("cell-await", "sent", "cell")
    BY <1>1, <1>3, SpansDiffer DEF checkLogCorrelation
  <2>2. r.signal = "logs" /\ r.name = "cell-await" /\ r.span = "cell"
    BY <2>1 DEF Log
  <2>3. r = TheLog("cell-await")
    BY <2>2, Known
  <2>4. TheLog("cell-await").span = AwaitSpan
    BY DEF TheLog, Log
  <2>. QED BY <2>2, <2>3, <2>4 DEF AwaitSpan
<1>6. defect # "reuse"
  BY <1>1, <1>3, SpansDiffer DEF checkOutboundHeader, Header
<1>. QED BY <1>4, <1>5, <1>6

\* A malformed traceparent that was adopted is no root.
LEMMA IndependenceIsSound ==
  ASSUME Facts, checkIndependentTrace("malformed")
  PROVE  defect # "adopt"
<1>1. PICK log \in BagToSet(received), root \in BagToSet(received) :
        /\ log.signal = "logs" /\ log.name = "malformed"
        /\ root.signal = "traces" /\ root.span = log.span /\ root.parent = None
  BY DEF checkIndependentTrace
<1>2. log.span = "malformed"
  <2>1. log = TheLog("malformed")
    BY <1>1, Known
  <2>. QED BY <2>1 DEF TheLog, Log
<1>3. root = RootSpan("malformed")
  BY <1>1, <1>2, Known
<1>. QED BY <1>1, <1>3 DEF RootSpan, Span, None

\* What the collector must have been told by the time of the markers.
LEMMA MarkersKept ==
  ASSUME Facts, At = "markers"
  PROVE  \A at \in {"chain", "malformed", "sampled", "unsampled"}, n \in Nodes :
           \A r \in Records(n, at) : r \in HeldBy(n) \cup BagToSet(received)
<1>1. Typing /\ verdict = None
  BY DEF Facts, At
<1>2. step = 6 /\ case = "trace-context"
  <2>1. At \in Readings /\ At # "envelope" /\ At # "refusal" /\ At # "window"
    BY DEF Readings
  <2>. QED BY <1>1, <2>1, Steps
<1>3. Program[case] = <<"reset", "chain", "malformed", "sampled", "unsampled", "markers">>
  BY <1>2 DEF Program, Cases
<1>4. \A i \in 1..5 : Program[case][i] \in Past
  BY <1>2 DEF Past
<1>5. {"chain", "malformed", "sampled", "unsampled"} \subseteq Past
  <2>1. Program[case][2] \in Past /\ Program[case][3] \in Past /\ Program[case][4] \in Past /\ Program[case][5] \in Past
    BY <1>4
  <2>. QED BY <1>3, <2>1
<1>6. {"chain", "malformed", "sampled", "unsampled"} \subseteq Kept
  BY <1>2, <1>5 DEF Kept, Requests
<1>. QED BY <1>6 DEF Facts, NothingIsLost

\* A request that should not be sampled is, and its line is on its way or received.
LEMMA SamplingIsSound ==
  ASSUME Facts, At = "markers", defect = "sample", checkNotRecorded("unsampled")
  PROVE  \E r \in Undelivered : r.name = "unsampled" \/ r.trace = "unsampled"
<1>. DEFINE r == Log("unsampled", "unsampled", "unsampled")
<1>1. r \in Records("celld3", "unsampled") /\ r.name = "unsampled" /\ r.signal = "logs"
  BY DEF Records, Produced, Emit, Log
<1>2. "celld3" \in Nodes
  BY DEF Nodes
<1>3. r \in HeldBy("celld3") \cup BagToSet(received)
  BY <1>1, <1>2, MarkersKept
<1>. HIDE DEF r
<1>4. r \notin BagToSet(received)
  BY <1>1, LineCounted DEF checkNotRecorded
<1>5. r \in Undelivered
  BY <1>2, <1>3, <1>4 DEF Undelivered, HeldBy
<1>. QED BY <1>1, <1>5

\* A traced case that passes has no defect it looks for, except as DefectsAreCaught says.
LEMMA TracingIsSound ==
  ASSUME Facts, At = "markers", traceContextHolds, defect \in Sought["trace-context"]
  PROVE  defect = "sample" /\ \E r \in Undelivered : r.name = "unsampled" \/ r.trace = "unsampled"
<1>1. /\ checkChain /\ checkIndependentTrace("malformed") /\ checkNotRecorded("unsampled")
  BY DEF traceContextHolds
<1>2. defect \in {"new trace", "await", "reuse", "orphan", "adopt", "sample"}
  BY DEF Sought, Cases
<1>3. defect = "sample"
  BY <1>1, <1>2, ChainIsSound, IndependenceIsSound
<1>. QED BY <1>1, <1>3, SamplingIsSound

\* Nothing held is nothing undelivered.
LEMMA NothingHeld == ASSUME NEW n \in Nodes, Undelivered = {} PROVE HeldBy(n) = {}
BY DEF Undelivered, HeldBy

\* Without a fault and with nothing undelivered, the collector has it all, once.
LEMMA AllIsThere ==
  ASSUME Facts, At = "markers", Undelivered = {}, Faultless
  PROVE  /\ {WorkerSpan, CellSpan, FetchSpan, RootSpan("malformed")} \subseteq BagToSet(received)
         /\ \A body \in Markers : TheLog(body) \in BagToSet(received)
         /\ \A body \in Markers : LogsOf(body) = 1
         /\ \A r \in BagToSet(received) : Copies({r}) = 1
<1>1. \A at \in {"chain", "malformed", "sampled"}, n \in Nodes : Records(n, at) \subseteq BagToSet(received)
  BY MarkersKept, NothingHeld
<1>2. /\ home \in Nodes /\ "celld" \in Nodes /\ IsABag(received)
  BY DEF Facts, Typing, TypeOK, Nodes
<1>3. /\ WorkerPart.logs \cup WorkerPart.spans \subseteq Records("celld", "chain")
      /\ CellPart.logs \cup CellPart.spans \subseteq Records(home, "chain")
  BY DEF Records, Produced, Together
<1>4. /\ TheLog("worker") \in WorkerPart.logs /\ WorkerSpan \in WorkerPart.spans
      /\ TheLog("cell") \in CellPart.logs /\ TheLog("cell-await") \in CellPart.logs
      /\ CellSpan \in CellPart.spans /\ FetchSpan \in CellPart.spans
  BY DEF WorkerPart, CellPart, TheLog, WorkerSpan, CellSpan, FetchSpan
<1>5. /\ TheLog("malformed") \in Records("celld", "malformed")
      /\ RootSpan("malformed") \in Records("celld", "malformed")
      /\ TheLog("sampled") \in Records("celld", "sampled")
  BY DEF Records, Produced, Emit, TheLog, RootSpan, Faultless
<1>6. \A body \in Markers : TheLog(body) \in BagToSet(received)
  BY <1>1, <1>2, <1>3, <1>4, <1>5 DEF Markers, ChainMarkers
<1>7. {WorkerSpan, CellSpan, FetchSpan, RootSpan("malformed")} \subseteq BagToSet(received)
  BY <1>1, <1>2, <1>3, <1>4, <1>5
<1>8. case = "trace-context"
  <2>1. At \in Readings /\ At # "envelope" /\ At # "refusal" /\ At # "window"
    BY DEF Readings
  <2>2. Typing /\ verdict = None
    BY DEF Facts, At
  <2>. QED BY <2>1, <2>2, Steps
<1>9. \A r \in BagToSet(received) : received[r] = 1
  BY <1>8 DEF Facts, OnceEach
<1>10. \A r \in BagToSet(received) : Copies({r}) = 1
  BY <1>2, <1>9, CopiesOfOne
<1>11. ASSUME NEW body \in Markers PROVE LogsOf(body) = 1
  <2>1. TheLog(body).signal = "logs" /\ TheLog(body).name = body
    BY DEF TheLog, Log
  <2>. QED BY <1>6, <1>9, <2>1, LineCounted
<1>. QED BY <1>6, <1>7, <1>10, <1>11

\* The chain is found when it is there.
LEMMA ChainIsFound ==
  ASSUME Facts, At = "markers", Undelivered = {}, Faultless
  PROVE  checkChain
<1>1. /\ {WorkerSpan, CellSpan, FetchSpan} \subseteq BagToSet(received)
      /\ \A body \in Markers : TheLog(body) \in BagToSet(received)
      /\ \A body \in Markers : LogsOf(body) = 1
      /\ \A r \in BagToSet(received) : Copies({r}) = 1
  BY AllIsThere
<1>2. CellTrace = "sent" /\ AwaitSpan = "cell" /\ Header = [trace |-> "sent", span |-> "outbound"]
  BY DEF Faultless, CellTrace, AwaitSpan, Header
<1>3. CellSpan.parent = "worker"
  BY SpansDiffer DEF Faultless
<1>4. ASSUME NEW r \in {WorkerSpan, CellSpan, FetchSpan} PROVE checkStep(r, r.name, r.parent)
  <2>1. r.signal = "traces" /\ r.trace = "sent" /\ r \in BagToSet(received)
    BY <1>1, <1>2, SpansDiffer
  <2>2. \A q \in BagToSet(received) :
          q.signal = "traces" /\ q.name = r.name /\ q.trace = "sent" => q = r
    <3>1. \A q \in BagToSet(received) :
            q.signal = "traces" /\ q.trace = "sent" => q \in {WorkerSpan, CellSpan, FetchSpan}
      BY Known
    <3>. QED BY <3>1, SpansDiffer
  <2>3. {q \in Received("traces") : q.name = r.name /\ q.trace = "sent" /\ q.parent = r.parent} = {r}
    BY <2>1, <2>2 DEF Received
  <2>. QED BY <1>1, <2>1, <2>3 DEF checkStep
<1>5. /\ checkStep(WorkerSpan, "celld.fetch", "remote")
      /\ checkStep(CellSpan, "celld.cell_fetch", WorkerSpan.span)
      /\ checkStep(FetchSpan, "fetch", CellSpan.span)
  BY <1>3, <1>4, SpansDiffer
<1>6. /\ checkLogCorrelation("worker", WorkerSpan)
      /\ checkLogCorrelation("cell", CellSpan)
      /\ checkLogCorrelation("cell-await", CellSpan)
  <2>1. /\ TheLog("worker") = Log("worker", "sent", WorkerSpan.span)
        /\ TheLog("cell") = Log("cell", "sent", CellSpan.span)
        /\ TheLog("cell-await") = Log("cell-await", "sent", CellSpan.span)
    BY <1>2, SpansDiffer DEF TheLog
  <2>. QED BY <1>1, <2>1 DEF checkLogCorrelation, Markers, ChainMarkers
<1>7. checkOutboundHeader(FetchSpan, CellSpan)
  BY <1>2, SpansDiffer DEF checkOutboundHeader
<1>8. Cardinality({WorkerSpan.span, CellSpan.span, FetchSpan.span}) = 3
  <2>. DEFINE S == {"worker", "cell", "outbound"}
  <2>1. {"worker"} = {} \cup {"worker"} /\ {"worker", "cell"} = {"worker"} \cup {"cell"}
        /\ S = {"worker", "cell"} \cup {"outbound"}
    OBVIOUS
  <2>2. IsFiniteSet({"worker"}) /\ Cardinality({"worker"}) = 1
    BY FS_Singleton
  <2>3. IsFiniteSet({"worker", "cell"}) /\ Cardinality({"worker", "cell"}) = 2
    BY <2>1, <2>2, FS_AddElement
  <2>4. Cardinality(S) = 3
    BY <2>1, <2>3, FS_AddElement
  <2>. QED BY <2>4, SpansDiffer
<1>. QED BY <1>1, <1>5, <1>6, <1>7, <1>8 DEF checkChain

\* A correct traced case that has been read in full passes.
LEMMA TracingIsComplete ==
  ASSUME Facts, At = "markers", Undelivered = {}, Faultless
  PROVE  traceContextHolds /\ Settled
<1>1. /\ RootSpan("malformed") \in BagToSet(received)
      /\ \A body \in Markers : TheLog(body) \in BagToSet(received)
      /\ \A body \in Markers : LogsOf(body) = 1
      /\ \A r \in BagToSet(received) : Copies({r}) = 1
  BY AllIsThere
<1>2. traceOfMarker("malformed") /\ traceOfMarker("sampled")
  BY <1>1 DEF traceOfMarker, Markers
<1>3. checkIndependentTrace("malformed")
  <2>. DEFINE log == TheLog("malformed")
              root == RootSpan("malformed")
  <2>1. /\ log.signal = "logs" /\ log.name = "malformed" /\ log.trace # "sent" /\ log.span = "malformed"
        /\ root.signal = "traces" /\ root.span = "malformed" /\ root.parent = None
    BY DEF TheLog, Log, RootSpan, Span, Faultless
  <2>2. log \in BagToSet(received) /\ root \in BagToSet(received)
    BY <1>1 DEF Markers
  <2>. HIDE DEF log
  <2>3. {r \in Received("traces") : r.span = "malformed"} = {root}
    <3>1. \A r \in BagToSet(received) : r.signal = "traces" /\ r.span = "malformed" => r = root
      BY Known
    <3>. HIDE DEF root
    <3>. QED BY <2>1, <2>2, <3>1 DEF Received
  <2>. HIDE DEF root
  <2>. QED BY <1>1, <2>1, <2>2, <2>3 DEF checkIndependentTrace
<1>4. checkNotRecorded("unsampled")
  <2>1. ~\E r \in BagToSet(received) : r.signal = "logs" /\ r.name = "unsampled"
    BY Known DEF Faultless
  <2>2. TheLog("unsampled").signal = "logs"
    BY DEF TheLog, Log
  <2>. QED BY <2>1, <2>2, LinesCounted DEF checkNotRecorded
<1>5. Settled
  BY <1>1 DEF Settled
<1>. QED BY <1>2, <1>3, <1>4, <1>5, ChainIsFound DEF traceContextHolds

-----------------------------------------------------------------------------
(* The verdicts on the isolation case.                                     *)

\* A probe that records nothing is waited for in vain.
LEMMA MuteIsSilent ==
  ASSUME Facts, At = "envelope", defect = "mute"
  PROVE  ~Settled
<1>1. ~\E r \in BagToSet(received) : r.signal = "logs" /\ r.name = "probe"
  <2>1. SUFFICES ASSUME NEW r \in BagToSet(received), r.signal = "logs", r.name = "probe" PROVE FALSE
    OBVIOUS
  <2>2. PICK n \in Nodes : Origin(r) \in Requests /\ r \in Records(n, Origin(r))
    BY DEF Facts, Whereabouts
  <2>3. Origin(r) # "chain"
    BY <2>1, <2>2, ChainParts DEF Requests
  <2>4. Origin(r) = "probe"
    BY <2>1, <2>2, <2>3, OtherParts
  <2>5. Records(n, "probe") = {}
    BY DEF Records, Produced, Nothing
  <2>. QED BY <2>2, <2>4, <2>5
<1>2. TheLog("probe").signal = "logs"
  BY DEF TheLog, Log
<1>3. LogsOf("probe") = 0
  BY <1>1, <1>2, LinesCounted
<1>. QED BY <1>3 DEF Settled

\* A correct celld's probe that was delivered is read and named.
LEMMA ProbeIsComplete ==
  ASSUME Facts, At = "envelope", Undelivered = {}, Faultless
  PROVE  Settled /\ checkExportEnvelope
<1>1. step = 4 /\ case # "trace-context"
  <2>1. Typing /\ verdict = None /\ At \in Readings
    BY DEF Facts, At, Readings
  <2>. QED BY <2>1, Steps
<1>2. Kept = {"probe"} /\ "celld" \in Nodes
  BY <1>1 DEF Kept, Nodes
<1>3. Records("celld", "probe") \subseteq BagToSet(received)
  BY <1>2, NothingHeld DEF Facts, NothingIsLost
<1>. DEFINE log == TheLog("probe")
            root == RootSpan("probe")
<1>4. log \in Records("celld", "probe") /\ root \in Records("celld", "probe")
  BY DEF Records, Produced, Emit, TheLog, RootSpan, Faultless
<1>5. log.signal = "logs" /\ log.name = "probe" /\ root.signal = "traces"
  BY DEF TheLog, Log, RootSpan, Span
<1>. HIDE DEF log, root
<1>6. Settled
  <2>1. LogsOf("probe") \in Nat \ {0}
    BY <1>3, <1>4, <1>5, LineCounted
  <2>. QED BY <2>1 DEF Settled
<1>7. ASSUME NEW s \in Signals
      PROVE  (\E d \in Deliveries : d.signal = s) /\ resources[s] = "tck-telemetry"
  <2>1. PICK r \in BagToSet(received) : r.signal = s
    BY <1>3, <1>4, <1>5 DEF Signals
  <2>. QED BY <2>1 DEF Facts, Evidence, Faultless
<1>. QED BY <1>6, <1>7 DEF checkExportEnvelope

\* The isolation case passes a celld that gives up only after a lost answer.
LEMMA IsolationIsSound ==
  ASSUME Facts, At = "window", checkRetryEvidence, defect \in Sought["export-isolation"]
  PROVE  defect = "give up" /\ lost > 0
<1>1. defect \in {"give up", "mute"}
  BY DEF Sought, Cases
<1>2. step = 9
  <2>1. Typing /\ verdict = None /\ At \in Readings
    BY DEF Facts, At, Readings
  <2>. QED BY <2>1, Steps
<1>3. defect = "give up"
  <2>1. defect = "mute" => step <= 4
    BY DEF Facts, Silence
  <2>2. ~(step <= 4)
    BY ONLY <1>2
  <2>. QED BY <1>1, <2>1, <2>2, Zenon
<1>4. PICK d \in Deliveries : Len(d.statuses) > 1
  BY DEF checkRetryEvidence
<1>5. lost # 0
  <2>1. SUFFICES ASSUME lost = 0 PROVE FALSE
    OBVIOUS
  <2>2. /\ \A n \in Nodes, s \in Signals : trail[n][s] = <<>>
        /\ \A e \in groups : Len(e.statuses) = 1
    BY <1>3, <2>1 DEF Facts, NoRetries
  <2>3. d \in groups
    BY <2>2, Counted
  <2>4. Len(d.statuses) = 1
    BY <2>2, <2>3
  <2>. QED BY ONLY <1>4, <2>4
<1>6. lost \in Nat
  BY BoundsAssumption DEF Facts, Typing, TypeOK
<1>7. lost > 0
  BY ONLY <1>5, <1>6
<1>. QED BY <1>3, <1>7

\* A correct celld that was refused shows it once it has delivered all.
LEMMA IsolationIsComplete ==
  ASSUME Facts, Undelivered = {}, Faultless, \E d \in Deliveries : Refused(d)
  PROVE  checkOutageObserved /\ checkRetryEvidence
<1>1. PICK d \in Deliveries : Refused(d)
  OBVIOUS
<1>2. \A n \in Nodes, s \in Signals : trail[n][s] = <<>>
  <2>1. \A n \in Nodes, s \in Signals : sending[n][s] = {}
    BY DEF Undelivered, Signals
  <2>. QED BY <2>1 DEF Facts, Trails
<1>3. d \in groups
  BY <1>2, Counted
<1>4. Len(d.statuses) > 1
  BY <1>1, <1>3 DEF Facts, Retried
<1>5. \A e \in Deliveries : Len(e.statuses) <= MaxAttempts
  BY DEF Facts, Typing, TypeOK
<1>. QED BY <1>1, <1>4, <1>5 DEF checkOutageObserved, checkRetryEvidence

-----------------------------------------------------------------------------
(* The readings.                                                           *)

\* A poll that is done.
LEMMA ReadKeeps == ASSUME Facts, Read PROVE IInv'
<1>1. /\ At \in Readings /\ Settled
      /\ left' = Undelivered
      /\ UNCHANGED <<setting, celld, collector, lost>>
      /\ UNCHANGED <<case, defect, open, pending, sending, attempts, mode, trail, groups, received, resources>>
  BY DEF Read, setting, celld, collector
<1>2. \/ ~Holds /\ verdict' = "fail" /\ step' = step
      \/ Holds /\ At \in Decisive /\ verdict' = "pass" /\ step' = step
      \/ Holds /\ At \notin Decisive /\ step' = step + 1 /\ verdict' = verdict
  BY DEF Read, Advance
<1>3. Typing /\ verdict = None /\ At \notin Requests /\ At \notin {"disturb", "reset"}
  BY <1>1 DEF Facts, At, Readings, Requests
<1>4. /\ step \in 1 .. Len(Program[case])
      /\ At \notin Decisive => step + 1 \in 1 .. Len(Program[case])
      /\ case = "trace-context" => At = "markers"
      /\ case # "trace-context" => /\ case = "export-isolation"
                                   /\ \/ step = 4 /\ At = "envelope"
                                      \/ step = 8 /\ At = "refusal"
                                      \/ step = 9 /\ At = "window"
  BY <1>1, <1>3, Steps DEF Typing, TypeOK
<1>5. step' \in 1 .. Len(Program[case]) /\ verdict' \in {None, "pass", "fail"}
  BY <1>2, <1>3, <1>4
<1>6. Typing' /\ Trails'
  BY <1>1, <1>3, <1>5, StepTyped DEF Typing, TypeOK
<1>7. Silence'
  <2>1. SUFFICES ASSUME defect = "mute" PROVE step' <= 4
    BY <1>1 DEF Silence
  <2>2. step <= 4 /\ step \in Nat
    BY <1>4, <2>1 DEF Facts, Silence
  <2>3. At # "envelope"
    BY <1>1, <2>1, MuteIsSilent
  <2>4. At \in Decisive
    BY <1>4, <2>2, <2>3 DEF Decisive
  <2>. QED BY <1>2, <2>2, <2>4
<1>8. Quiet'
  BY <1>1, <1>2, <1>4 DEF Facts, Quiet, Undisturbed
<1>9. step' = step + 1 => case # "trace-context" /\ step > 3
  BY <1>2, <1>4 DEF Decisive
<1>10. Facts'
  BY <1>1, <1>2, <1>3, <1>6, <1>7, <1>8, <1>9, LookingKeeps
<1>11. DefectsAreCaught'
  <2>1. SUFFICES ASSUME verdict' = "pass", defect \in Sought[case]
                 PROVE  \/ defect = "sample" /\ \E r \in Undelivered : r.name = "unsampled" \/ r.trace = "unsampled"
                        \/ defect = "give up" /\ lost > 0
    <3>1. Sought' = Sought
      BY DEF Sought
    <3>. QED BY <1>1, <3>1 DEF DefectsAreCaught
  <2>2. Holds /\ At \in Decisive
    BY <1>2, <1>3, <2>1 DEF None
  <2>3. CASE At = "markers"
    <3>1. case = "trace-context" /\ traceContextHolds
      BY <1>4, <2>2, <2>3 DEF Holds
    <3>. QED BY <2>1, <2>3, <3>1, TracingIsSound
  <2>4. CASE At = "window"
    <3>1. case = "export-isolation" /\ checkRetryEvidence
      BY <1>4, <2>2, <2>4 DEF Holds
    <3>. QED BY <2>1, <2>4, <3>1, IsolationIsSound
  <2>. QED BY <2>2, <2>3, <2>4 DEF Decisive
<1>12. FalseAlarmsAreEarly'
  <2>1. SUFFICES ASSUME verdict' = "fail", defect = "none", Undelivered = {}, ~(lost > 0)
                 PROVE  FALSE
    BY <1>1 DEF FalseAlarmsAreEarly
  <2>2. ~Holds
    BY <1>2, <1>3, <2>1 DEF None
  <2>3. Faultless
    <3>1. lost \in Nat
      BY BoundsAssumption DEF Facts, Typing, TypeOK
    <3>. QED BY <2>1, <3>1 DEF Faultless
  <2>4. CASE At = "markers"
    BY <2>1, <2>2, <2>3, <2>4, TracingIsComplete DEF Holds
  <2>5. CASE At = "envelope"
    BY <2>1, <2>2, <2>3, <2>5, ProbeIsComplete DEF Holds
  <2>6. CASE At = "refusal"
    BY <2>2, <2>6 DEF Holds
  <2>7. CASE At = "window"
    <3>1. \E d \in Deliveries : Refused(d)
      BY <1>1, <2>7 DEF Settled
    <3>. QED BY <2>1, <2>2, <2>3, <2>7, <3>1, IsolationIsComplete DEF Holds
  <2>. QED BY <1>1, <2>4, <2>5, <2>6, <2>7 DEF Readings
<1>. QED BY <1>10, <1>11, <1>12 DEF IInv

\* A poll that gave up.
LEMMA GiveUpKeeps == ASSUME Facts, GiveUp PROVE IInv'
<1>1. /\ At \in Readings /\ ~Settled /\ mode = "normal"
      /\ verdict' = "fail" /\ left' = Undelivered
      /\ UNCHANGED <<setting, step, celld, collector, lost>>
      /\ UNCHANGED <<case, defect, open, pending, sending, attempts, mode, trail, groups, received, resources>>
  BY DEF GiveUp, setting, celld, collector
<1>2. Typing /\ verdict = None
  BY <1>1 DEF Facts, At, Readings
<1>3. Typing' /\ Trails'
  BY <1>1, <1>2, StepTyped DEF Typing, TypeOK
<1>4. Quiet' /\ Silence'
  BY <1>1 DEF Facts, Quiet, Undisturbed, Silence
<1>5. Facts'
  BY <1>1, <1>2, <1>3, <1>4, LookingKeeps
<1>6. DefectsAreCaught'
  BY <1>1 DEF DefectsAreCaught
<1>7. FalseAlarmsAreEarly'
  <2>1. SUFFICES ASSUME defect = "none", ~(lost > 0), Undelivered = {}
                 PROVE  case = "export-isolation" /\ \A d \in Deliveries : ~Refused(d)
    <3>1. Deliveries' = Deliveries /\ \A d : Refused(d)' = Refused(d)
      BY <1>1 DEF Deliveries, Refused
    <3>. QED BY <1>1, <3>1 DEF FalseAlarmsAreEarly
  <2>2. Faultless
    <3>1. lost \in Nat
      BY BoundsAssumption DEF Facts, Typing, TypeOK
    <3>. QED BY <2>1, <3>1 DEF Faultless
  <2>3. At # "markers" /\ At # "envelope"
    BY <1>1, <2>1, <2>2, TracingIsComplete, ProbeIsComplete
  <2>4. case = "export-isolation"
    BY <1>1, <1>2, <2>3, Steps
  <2>5. \A d \in Deliveries : ~Refused(d)
    <3>1. At = "refusal" \/ At = "window"
      BY <1>1, <2>3 DEF Readings
    <3>2. CASE At = "refusal"
      BY <1>1, <3>2 DEF Settled
    <3>3. CASE At = "window"
      BY <1>1, <3>3 DEF Settled
    <3>. QED BY <3>1, <3>2, <3>3
  <2>. QED BY <2>4, <2>5
<1>. QED BY <1>5, <1>6, <1>7 DEF IInv

-----------------------------------------------------------------------------
(* The theorems.                                                           *)

\* Nothing has happened.
LEMMA InitHolds == Init => IInv
<1>. SUFFICES ASSUME Init PROVE IInv
  OBVIOUS
<1>1. /\ case \in Cases /\ defect \in Defects \cap Concerns[case] /\ home \in Homes
      /\ step = 1 /\ verdict = None /\ mode = "normal" /\ groups = {} /\ lost = 0
      /\ open = [n \in Nodes |-> {}] /\ pending = [n \in Nodes |-> {}]
      /\ sending = [n \in Nodes |-> [s \in Signals |-> {}]]
      /\ attempts = [n \in Nodes |-> [s \in Signals |-> 0]]
      /\ trail = [n \in Nodes |-> [s \in Signals |-> <<>>]]
      /\ received = EmptyBag /\ resources = [s \in Signals |-> None]
  BY DEF Init
<1>2. /\ \A n \in Nodes : open[n] = {} /\ pending[n] = {}
      /\ \A n \in Nodes, s \in Signals : sending[n][s] = {} /\ attempts[n][s] = 0 /\ trail[n][s] = <<>>
  BY <1>1
<1>3. BagToSet(received) = {} /\ IsABag(received)
  BY <1>1 DEF EmptyBag, SetToBag, BagToSet, IsABag
<1>4. \A d : d \notin Deliveries
  BY <1>1, <1>2, Counted
<1>5. \A n \in Nodes : HeldBy(n) = {}
  BY <1>2 DEF HeldBy, Signals
<1>6. Past = {}
  BY <1>1 DEF Past
<1>7. step \in 1 .. Len(Program[case])
  <2>1. /\ Len(Program["trace-context"]) = 6 /\ Len(Program["export-isolation"]) = 9
    BY DEF Program, Cases
  <2>2. step = 1 /\ (case = "trace-context" \/ case = "export-isolation")
    BY <1>1 DEF Cases
  <2>3. Len(Program[case]) = 6 \/ Len(Program[case]) = 9
    BY <2>1, <2>2
  <2>. QED BY <2>2, <2>3
<1>8. TypeOK
  <2>1. lost \in 0 .. LostReplies /\ 0 \in 0 .. MaxAttempts
    BY <1>1, BoundsAssumption
  <2>2. home \in Nodes
    BY <1>1, HomesAssumption DEF Nodes
  <2>. QED BY <1>1, <1>2, <1>3, <1>4, <1>7, <2>1, <2>2 DEF TypeOK
<1>9. Typing
  <2>1. <<>> \in Seq(Statuses)
    OBVIOUS
  <2>2. trail \in [Nodes -> [Signals -> Seq(Statuses)]]
    BY <1>1, <2>1
  <2>. QED BY <1>1, <1>3, <1>8, <2>2 DEF Typing
<1>10. Trails /\ Retried
  <2>1. Len(<<>>) = 0
    OBVIOUS
  <2>. QED BY <1>1, <1>2, <2>1 DEF Trails, Retried
<1>11. Whereabouts /\ OnceEach /\ Evidence
  BY <1>2, <1>3, <1>5 DEF Whereabouts, OnceEach, Evidence
<1>12. NothingIsLost
  BY <1>1, <1>6 DEF NothingIsLost, Kept
<1>13. Quiet /\ NoRetries /\ Silence
  BY <1>1, <1>2 DEF Quiet, NoRetries, Silence
<1>14. DefectsAreCaught /\ FalseAlarmsAreEarly
  BY <1>1 DEF DefectsAreCaught, FalseAlarmsAreEarly, None
<1>. QED BY <1>9, <1>10, <1>11, <1>12, <1>13, <1>14 DEF IInv, Facts

\* Until there is a verdict there is nothing to say of it.
LEMMA NoVerdictYet ==
  ASSUME verdict' = None
  PROVE  DefectsAreCaught' /\ FalseAlarmsAreEarly'
BY DEF DefectsAreCaught, FalseAlarmsAreEarly, None

LEMMA Inductive == IInv /\ [Next]_vars => IInv'
<1>. SUFFICES ASSUME IInv, [Next]_vars PROVE IInv'
  OBVIOUS
<1>1. Facts
  BY DEF IInv
<1>2. CASE Request
  <2>1. Facts' /\ verdict' = None
    BY <1>1, <1>2, RequestKeeps DEF Request, Advance, At, Requests
  <2>. QED BY <2>1, NoVerdictYet DEF IInv
<1>3. CASE Reset
  <2>1. Facts' /\ verdict' = None
    BY <1>1, <1>3, ResetKeeps DEF Reset, Advance, At
  <2>. QED BY <2>1, NoVerdictYet DEF IInv
<1>4. CASE Disturb
  <2>1. Facts' /\ verdict' = None
    BY <1>1, <1>4, DisturbKeeps DEF Disturb, Advance, At
  <2>. QED BY <2>1, NoVerdictYet DEF IInv
<1>5. CASE Read
  BY <1>1, <1>5, ReadKeeps
<1>6. CASE GiveUp
  BY <1>1, <1>6, GiveUpKeeps
<1>7. ASSUME NEW n \in Nodes, SpansEnd(n) PROVE IInv'
  <2>1. Facts' /\ verdict' = None
    BY <1>1, <1>7, SpansEndKeeps DEF SpansEnd, InUse
  <2>. QED BY <2>1, NoVerdictYet DEF IInv
<1>8. ASSUME NEW n \in Nodes, Flush(n) PROVE IInv'
  <2>1. Facts' /\ verdict' = None
    BY <1>1, <1>8, FlushKeeps DEF Flush, InUse
  <2>. QED BY <2>1, NoVerdictYet DEF IInv
<1>9. ASSUME NEW n \in Nodes, NEW s \in Signals, Deliver(n, s) PROVE IInv'
  <2>1. Facts' /\ verdict' = None
    BY <1>1, <1>9, DeliverKeeps DEF Deliver, InUse
  <2>. QED BY <2>1, NoVerdictYet DEF IInv
<1>10. CASE WindowEnds
  <2>1. Facts' /\ verdict' = None
    BY <1>1, <1>10, WindowEndsKeeps DEF WindowEnds, InUse
  <2>. QED BY <2>1, NoVerdictYet DEF IInv
<1>11. CASE UNCHANGED vars
  <2>1. /\ UNCHANGED <<case, defect, home, step, open, pending, sending, attempts, mode, trail>>
        /\ UNCHANGED <<groups, received, resources, verdict, lost, left>>
    BY <1>11 DEF vars, setting, celld, collector, ghosts
  <2>2. UNCHANGED <<Program, Concerns, Sought, Deliveries, Past, Kept>>
    BY <2>1 DEF Program, Concerns, Sought, Deliveries, Past, Kept
  <2>3. \A n, at : Records(n, at)' = Records(n, at)
    BY <2>1, RecordsStay
  <2>4. /\ \A n \in Nodes : HeldBy(n)' = HeldBy(n)
        /\ BagToSet(received') = BagToSet(received) /\ (Faultless' <=> Faultless)
        /\ \A d : Refused(d)' <=> Refused(d)
    BY <2>1 DEF HeldBy, BagToSet, Faultless, Refused
  <2>5. TypeOK'
    BY <1>1, <2>1, <2>2 DEF Facts, Typing, TypeOK
  <2>6. Typing' /\ Trails'
    BY <1>1, <2>1, <2>2, <2>4, <2>5 DEF Facts, Typing, Trails
  <2>7. Quiet' /\ Silence' /\ NoRetries'
    BY <1>1, <2>1 DEF Facts, Quiet, Undisturbed, Silence, NoRetries
  <2>8. Whereabouts' /\ NothingIsLost'
    BY <1>1, <2>2, <2>3, <2>4 DEF Facts, Whereabouts, NothingIsLost
  <2>9. OnceEach' /\ Evidence' /\ Retried'
    BY <1>1, <2>1, <2>2, <2>4 DEF Facts, OnceEach, Evidence, Retried
  <2>10. DefectsAreCaught' /\ FalseAlarmsAreEarly'
    BY <2>1, <2>2, <2>4 DEF IInv, DefectsAreCaught, FalseAlarmsAreEarly
  <2>. QED BY <2>6, <2>7, <2>8, <2>9, <2>10 DEF IInv, Facts
<1>. QED BY <1>2, <1>3, <1>4, <1>5, <1>6, <1>7, <1>8, <1>9, <1>10, <1>11 DEF Next, Driver, Exporter

\* The types of everything the cases and the collector keep.
THEOREM TelemetryTypeCorrect == Spec => []TypeOK
<1>1. IInv => TypeOK
  BY DEF IInv, Facts, Typing
<1>. QED BY <1>1, InitHolds, Inductive, PTL DEF Spec

\* Tracing or exporting wrongly does not pass, but for the two excuses.
THEOREM DefectsAreAlwaysCaught == Spec => []DefectsAreCaught
<1>1. IInv => DefectsAreCaught
  BY DEF IInv
<1>. QED BY <1>1, InitHolds, Inductive, PTL DEF Spec

\* A correct celld fails for being slow, for a lost answer or for a missed window only.
THEOREM FalseAlarmsAreAlwaysEarly == Spec => []FalseAlarmsAreEarly
<1>1. IInv => FalseAlarmsAreEarly
  BY DEF IInv
<1>. QED BY <1>1, InitHolds, Inductive, PTL DEF Spec
=============================================================================
