-------------------------- MODULE Recovery_proofs --------------------------
(***************************************************************************)
(* Proofs about the recovery cases, for every number of writes that are    *)
(* attempted while the store is down.                                      *)
(*                                                                         *)
(* What the process, its disk and its store are, and what the driver knows *)
(* of them, depends on how far a case has come.  The first part gives each *)
(* step of a program the stage it is taken in; the second says what holds  *)
(* in a stage, and shows that every step of the process, of the clock and  *)
(* of the driver keeps it.                                                 *)
(***************************************************************************)
EXTENDS Recovery, SequenceTheorems, TLAPS

SL == INSTANCE SequenceLemmas

-----------------------------------------------------------------------------
(* The stages of a case.                                                   *)

Graceful == {"graceful", "facets"}
Simple   == Graceful \cup {"crash"}
Outage   == "storageOutage"

\* Which step takes a case from which stage to which: the steps that all cases
\* begin with, and those of each kind of case.
SeedMoves == {<<"write", "fresh", "seeded">>, <<"before", "seeded", "shown">>}
RestartMoves == {<<"mustRun", "restarted", "restarted">>, <<"ready", "restarted", "restarted">>}
SimpleMoves(c) ==
  {<<"mustRun", "shown", "shown">>, <<"lapse", "ended", "ended">>,
   <<"start", "ended", "restarted">>, <<"recovers", "restarted", "passed">>}
  \cup (IF c \in Graceful THEN {<<"stop", "shown", "ending">>, <<"exit0", "ending", "ended">>}
        ELSE {<<"kill", "shown", "ending">>, <<"exit137", "ending", "ended">>})
AlarmMoves(c) ==
  {<<"write", "shown", "armed">>, <<"mustRun", "armed", "armed">>,
   <<"kill", "armed", "ending">>, <<"exit137", "ending", "ended">>,
   <<"notDue", "ended", "timely">>, <<"lapse", "timely", "overdue">>,
   <<"poll", "restarted", "passed">>}
  \cup (IF c = "overdueAlarm" THEN {<<"start", "overdue", "restarted">>}
        ELSE {<<"seeMinio", "overdue", "overdue">>, <<"owned", "overdue", "overdue">>,
              <<"remove", "overdue", "removed">>, <<"create", "removed", "created">>,
              <<"replaced", "created", "created">>, <<"empty", "created", "created">>,
              <<"sameMinio", "created", "created">>, <<"start", "created", "restarted">>})
OutageMoves ==
  {<<"mustRun", "shown", "shown">>, <<"stopMinio", "shown", "dark">>,
   <<"minioDown", "dark", "dark">>, <<"try", "dark", "dark">>, <<"lapse", "dark", "dark">>,
   <<"survivor", "dark", "dark">>, <<"kill", "dark", "struck">>,
   <<"exit137", "struck", "downed">>, <<"lapse", "downed", "downed">>,
   <<"startMinio", "downed", "lit">>, <<"minioUp", "lit", "lit">>,
   <<"start", "lit", "restarted">>, <<"recovered", "restarted", "recovered">>,
   <<"write", "recovered", "renewed">>, <<"mustRun", "renewed", "renewed">>,
   <<"kill", "renewed", "endingAgain">>, <<"exit137", "endingAgain", "endedAgain">>,
   <<"lapse", "endedAgain", "endedAgain">>, <<"start", "endedAgain", "restartedAgain">>,
   <<"mustRun", "restartedAgain", "restartedAgain">>,
   <<"ready", "restartedAgain", "restartedAgain">>, <<"final", "restartedAgain", "passed">>}
Moves(c) ==
  SeedMoves \cup RestartMoves
  \cup (IF c \in Simple THEN SimpleMoves(c)
        ELSE IF c \in AlarmCases THEN AlarmMoves(c) ELSE OutageMoves)

\* Step e of case c leads from stage a to stage b.
StepFits(c, e, a, b) ==
  /\ <<e.op, a, b>> \in Moves(c) /\ e.id \in Ids
  /\ e.op = "write" => e.id = IF a = "fresh" THEN Baseline
                              ELSE IF a = "shown" THEN Alarm ELSE Last
  /\ e.op = "try" => e.id \in 2..(Uncertain + 1)

\* h gives the steps of the program p of case c their stages, and its end; a node
\* that fenced itself need not be killed.
Labels(c, p, h) ==
  \A i \in 1..Len(p) :
    /\ StepFits(c, p[i], h[i], h[i + 1])
    /\ p[i].op = "survivor" => i + 2 <= Len(p) /\ h[i + 3] = "downed"

\* p is a program of case c that leads from stage a to stage b.
Leads(c, p, a, b) ==
  /\ \E S : p \in Seq(S)
  /\ \E h : h[1] = a /\ h[Len(p) + 1] = b /\ Labels(c, p, h)

\* The stages of case c's program, from the first to the end.
IsLabelling(c, h) ==
  /\ h[1] = "fresh" /\ h[Len(Programs[c]) + 1] = "passed"
  /\ Labels(c, Programs[c], h)
StagesOf(c) == CHOOSE h : IsLabelling(c, h)

-----------------------------------------------------------------------------
(* What holds in a stage.                                                  *)

Stage == StagesOf(case)[pc]

First  == {"fresh", "seeded", "shown", "armed"}
Down   == {"ending", "ended", "timely", "overdue", "removed", "struck", "downed", "lit"}
Second == {"restarted", "recovered", "renewed"}
Again  == {"endingAgain", "endedAgain", "restartedAgain"}
Late   == {"recovered", "renewed"} \cup Again
Stages == First \cup Down \cup Second \cup Again \cup {"dark", "created", "passed"}

\* What the process, the store and the driver's memory can be.
Typing ==
  /\ TypeOK
  /\ store \in [up : BOOLEAN, starts : Nat]
  /\ memory \in [seeded : Nat, recovered : SUBSET (Items \cup {Fired}),
                 container : Nat, minio : Nat]

\* Some stages belong to one kind of case.
KindMatches ==
  /\ Stage \in Stages
  /\ Stage \in {"armed", "timely", "overdue"} => case \in AlarmCases
  /\ Stage \in {"removed", "created"} => case = "diskLoss"
  /\ Stage \in {"dark", "struck", "downed", "lit"} \cup Late => case = Outage

\* The process and the store are as the last lifecycle control left them, except
\* that the node may have fenced itself while the store was down.
Upright ==
  /\ Stage \in First \cup Second \cup {"restartedAgain", "passed"} => process = "up"
  /\ store.up <=> Stage \notin {"dark", "struck", "downed"}
  /\ Stage = "dark" => process \in {"up", "exit3"}
  /\ Stage \in {"struck", "downed", "lit"} => process \in {"exit3", "exit137"}
  /\ Stage = "ending" =>
       process \in {"exit137"} \cup (IF case \in Graceful THEN {"exit0"} ELSE {})
  /\ Stage = "ended" => process = IF case \in Graceful THEN "exit0" ELSE "exit137"
  /\ Stage \in {"timely", "overdue", "removed", "endingAgain", "endedAgain"} =>
       process = "exit137"
  /\ Stage = "created" => process = "created"

\* How the process has ended so far.
FirstEnds == IF case \in Graceful THEN {<<"exit0">>}
             ELSE IF case = Outage THEN {<<"exit3">>, <<"exit137">>} ELSE {<<"exit137">>}
BothEnds  == {<<"exit3", "exit137">>, <<"exit137", "exit137">>}
EndsMatch ==
  /\ Stage \in First => ends = <<>>
  /\ Stage = "dark" => ends = IF process = "up" THEN <<>> ELSE <<process>>
  /\ Stage \in Down => ends = <<process>>
  /\ Stage \in Second \cup {"created"} => ends \in FirstEnds
  /\ Stage \in Again => ends \in BothEnds
  /\ Stage = "passed" => ends \in IF case = Outage THEN BothEnds ELSE FirstEnds

\* The cell was activated once by each process that has ended.
Activations ==
  /\ generation = Len(ends) + (IF active THEN 1 ELSE 0)
  /\ Stage \in (First \cup {"dark", "recovered", "renewed", "passed"}) \ {"fresh"}
       /\ process = "up" => active
  /\ Stage # "fresh" => memory.seeded = 1

\* The writes that have been sent by now.
Asked ==
  IF Stage \in {"fresh", "seeded"} \/ case \in Simple THEN {Baseline}
  ELSE IF case \in AlarmCases THEN {Baseline, Alarm}
  ELSE IF Stage \in Late \cup {"passed"} THEN 1..Last ELSE 1..(Uncertain + 1)

\* At most the write the driver waits for is without an outcome, and only while
\* the store is down does a request stay behind that was given up.
Requests ==
  /\ \A i \in flying : outcomes[i] = "sent" \/ (Stage = "dark" /\ outcomes[i] = "uncertain")
  /\ \A i \in Ids : outcomes[i] = "sent" =>
       pc <= Len(Program) /\ Step.op \in {"write", "try"} /\ Step.id = i
  /\ \A i \in Ids \ Asked : outcomes[i] = "none"
  /\ IF Stage = "fresh" THEN outcomes[Baseline] \in {"none", "sent"}
     ELSE outcomes[Baseline] = "acked"
  /\ case \in AlarmCases /\ Stage \notin {"fresh", "seeded", "shown"} => outcomes[Alarm] = "acked"
  /\ Stage \in Late \ {"recovered"} => outcomes[Last] = "acked"

\* The alarm runs once, when its deadline has passed; from the kill on that is in
\* a later activation.
Deadlines ==
  /\ clock # "past" => ~dueUp /\ alarmRan = 0
  /\ alarmRan = 0 => Fired \notin disk \cup bucket
  /\ case \in AlarmCases =>
       /\ Stage = "shown" /\ outcomes[Alarm] # "none" => Alarm \in flying \/ clock # "none"
       /\ Stage \in {"armed", "ending", "ended", "timely"} => clock # "none"
       /\ Stage \in {"timely", "overdue", "removed", "created"} => ~dueUp /\ alarmRan = 0
       /\ Stage \in {"overdue", "removed", "created", "restarted"} => clock = "past"
       /\ Stage \in {"restarted", "passed"} => ~dueUp /\ alarmRan \in {0, 2}
       /\ Stage = "passed" => alarmRan = 2

Whole(content) ==
  \A i \in Ids : ItemsOf(i) \subseteq content \/ ItemsOf(i) \cap content = {}
Unheard(content) ==
  \A i \in Ids : outcomes[i] = "none" => ItemsOf(i) \cap content = {}

\* celld has broken a promise exactly if what it came back with, which the driver
\* is about to read, shows it.
Betrayals ==
  /\ betrayed => Stage \in {"restarted", "restartedAgain"} /\ active
  /\ Stage \in {"restarted", "restartedAgain"} /\ active => (betrayed <=> ~Keeps(disk))

\* Until then the disk and the store hold whole transactions that were asked for.
Contents ==
  /\ ~betrayed => Whole(disk) /\ Whole(bucket) /\ Unheard(disk) /\ Unheard(bucket)
  /\ ~betrayed /\ case = Outage => bucket \subseteq disk
  /\ Stage = "fresh" /\ ~active => disk = {} /\ bucket = {}
  /\ Stage = "fresh" /\ outcomes[Baseline] # "none" =>
       Baseline \in flying \/ ItemsOf(Baseline) \subseteq disk
  /\ Stage = "seeded" => ItemsOf(Baseline) \subseteq disk
  /\ Stage \in {"removed", "created"} => disk = {}
  /\ Stage \notin Late \cup {"passed"} => memory.recovered = {}
  /\ Stage \in Late /\ ~betrayed =>
       memory.recovered \subseteq disk /\ disk \subseteq memory.recovered \cup ItemsOf(Last)
  /\ Stage \in Late => Whole(memory.recovered)

\* What was not in the store when the process died does not come back to a cell
\* that has lost its disk.
Savings ==
  case = "diskLoss" =>
    /\ unsaved \subseteq {Baseline}
    /\ Stage \in First => unsaved = {}
    /\ Stage = "restarted" /\ ~active => disk = {}
    /\ Stage = "passed" => unsaved = {}
    /\ unsaved # {} =>
         IF active THEN ~(ItemsOf(Baseline) \subseteq disk)
         ELSE ItemsOf(Baseline) \cap bucket = {}

\* The alarm's request is executed at most once, and nothing else sets the clock.
AlarmOnce ==
  /\ outcomes[Alarm] = "none" => clock = "none" /\ Alarm \notin flying
  /\ Alarm \in flying => clock = "none"

Course ==
  /\ KindMatches /\ Upright /\ EndsMatch /\ Activations /\ Requests /\ Deadlines
  /\ Betrayals /\ Contents /\ Savings

IInv == Typing /\ AlarmOnce /\ NoFalseAlarm /\ (verdict # "failed" => Course)

-----------------------------------------------------------------------------
(* The programs lead from "fresh" to "passed".                             *)

\* One part behind another one that leads to where it begins.
LEMMA ConcatLeads ==
  ASSUME NEW k, NEW p, NEW q, NEW a, NEW b, NEW c, Leads(k, p, a, b), Leads(k, q, b, c)
  PROVE  Leads(k, p \o q, a, c)
<1>. DEFINE r == p \o q
<1>1. /\ \E S : p \in Seq(S)
      /\ \E S : q \in Seq(S)
  BY DEF Leads
<1>2. /\ \E S : r \in Seq(S)
      /\ Len(p) \in Nat /\ Len(q) \in Nat
      /\ Len(r) = Len(p) + Len(q)
      /\ \A i \in 1..Len(p) : r[i] = p[i]
      /\ \A i \in 1..Len(q) : r[Len(p) + i] = q[i]
  BY <1>1, SL!ConcatOfParts
<1>. HIDE DEF r
<1>3. PICK f : f[1] = a /\ f[Len(p) + 1] = b /\ Labels(k, p, f)
  BY DEF Leads
<1>4. PICK g : g[1] = b /\ g[Len(q) + 1] = c /\ Labels(k, q, g)
  BY DEF Leads
<1>. DEFINE h == [i \in 1..(Len(r) + 1) |-> IF i <= Len(p) THEN f[i] ELSE g[i - Len(p)]]
<1>5. /\ \A i \in 1..(Len(p) + 1) : h[i] = f[i]
      /\ \A i \in 1..(Len(q) + 1) : h[Len(p) + i] = g[i]
  <2>1. ASSUME NEW i \in 1..(Len(q) + 1) PROVE h[Len(p) + i] = g[i]
    <3>1. Len(p) + i \in 1..(Len(r) + 1) /\ ~(Len(p) + i <= Len(p)) /\ (Len(p) + i) - Len(p) = i
      BY <1>2
    <3>. QED BY <3>1
  <2>2. ASSUME NEW i \in 1..(Len(p) + 1) PROVE h[i] = f[i]
    <3>1. CASE i <= Len(p)
      <4>1. i \in 1..(Len(r) + 1)
        BY <1>2, <3>1
      <4>. QED BY <4>1, <3>1
    <3>2. CASE i = Len(p) + 1
      <4>1. 1 \in 1..(Len(q) + 1)
        BY <1>2
      <4>2. h[Len(p) + 1] = g[1]
        BY <4>1, <2>1
      <4>. QED BY <4>2, <3>2, <1>3, <1>4
    <3>. QED BY <3>1, <3>2, <1>2
  <2>. QED BY <2>1, <2>2
<1>. HIDE DEF h
<1>6. h[1] = a /\ h[Len(r) + 1] = c
  <2>1. 1 \in 1..(Len(p) + 1) /\ Len(q) + 1 \in 1..(Len(q) + 1)
    BY <1>2
  <2>2. Len(r) + 1 = Len(p) + (Len(q) + 1)
    BY <1>2
  <2>. QED BY <2>1, <2>2, <1>3, <1>4, <1>5
<1>7. ASSUME NEW i \in 1..Len(r)
      PROVE  /\ StepFits(k, r[i], h[i], h[i + 1])
             /\ r[i].op = "survivor" => i + 2 <= Len(r) /\ h[i + 3] = "downed"
  <2>1. CASE i <= Len(p)
    <3>1. i \in 1..Len(p) /\ i \in 1..(Len(p) + 1) /\ i + 1 \in 1..(Len(p) + 1)
      BY <2>1, <1>2
    <3>2. i + 2 <= Len(p) => i + 3 \in 1..(Len(p) + 1) /\ i + 2 <= Len(r)
      BY <1>2, <3>1
    <3>. QED BY <3>1, <3>2, <1>2, <1>3, <1>5 DEF Labels
  <2>2. CASE ~(i <= Len(p))
    <3>1. PICK j \in 1..Len(q) : i = Len(p) + j
      <4>1. i - Len(p) \in 1..Len(q) /\ i = Len(p) + (i - Len(p))
        BY <2>2, <1>2
      <4>. QED BY <4>1
    <3>2. j \in 1..(Len(q) + 1) /\ j + 1 \in 1..(Len(q) + 1) /\ i + 1 = Len(p) + (j + 1)
      BY <3>1, <1>2
    <3>3. j + 2 <= Len(q) =>
            j + 3 \in 1..(Len(q) + 1) /\ i + 2 <= Len(r) /\ i + 3 = Len(p) + (j + 3)
      BY <3>1, <1>2
    <3>. QED BY <3>1, <3>2, <3>3, <1>2, <1>4, <1>5 DEF Labels
  <2>. QED BY <2>1, <2>2
<1>8. Leads(k, r, a, c)
  BY <1>2, <1>6, <1>7 DEF Leads, Labels
<1>. QED BY <1>8 DEF r

\* A request that must be acknowledged.
LEMMA WriteLeads ==
  ASSUME NEW c, NEW a, NEW b, NEW i \in Ids, <<"write", a, b>> \in Moves(c),
         i = IF a = "fresh" THEN Baseline ELSE IF a = "shown" THEN Alarm ELSE Last
  PROVE  Leads(c, Write(i), a, b)
<1>. DEFINE e == [op |-> "write", id |-> i]
<1>1. PICK p : p = Write(i)
  OBVIOUS
<1>2. p \in Seq({e}) /\ Len(p) = 1 /\ p[1] = e
  BY <1>1 DEF Write
<1>3. StepFits(c, e, a, b) /\ e.op # "survivor"
  BY DEF StepFits
<1>. HIDE DEF e
<1>4. PICK h : h = [k \in 1..2 |-> IF k = 1 THEN a ELSE b]
  OBVIOUS
<1>5. h[1] = a /\ h[2] = b /\ Len(p) + 1 = 2
  BY <1>2, <1>4
<1>6. Labels(c, p, h)
  <2>1. \A k \in 1..Len(p) : k = 1 /\ k + 1 = 2
    BY <1>2
  <2>. QED BY <2>1, <1>2, <1>3, <1>5 DEF Labels
<1>7. Leads(c, p, a, b)
  BY <1>2, <1>5, <1>6 DEF Leads
<1>. QED BY <1>1, <1>7

\* Steps that carry no request: n of them.
LEMMA StepsLead ==
  ASSUME NEW c, NEW S, NEW ops \in Seq(S), NEW h,
         \A i \in 1..Len(ops) :
           /\ <<ops[i], h[i], h[i + 1]>> \in Moves(c)
           /\ ops[i] \notin {"write", "try"}
           /\ ops[i] = "survivor" => i + 2 <= Len(ops) /\ h[i + 3] = "downed"
  PROVE  Leads(c, Steps(ops), h[1], h[Len(ops) + 1])
<1>1. /\ Steps(ops) \in Seq([op : S, id : {RolledBack}])
      /\ Len(Steps(ops)) = Len(ops)
      /\ \A i \in 1..Len(ops) : Steps(ops)[i] = [op |-> ops[i], id |-> RolledBack]
  <2>1. Len(ops) \in Nat /\ DOMAIN ops = 1..Len(ops) /\ \A i \in 1..Len(ops) : ops[i] \in S
    OBVIOUS
  <2>2. Steps(ops) = [i \in 1..Len(ops) |-> [op |-> ops[i], id |-> RolledBack]]
    BY <2>1 DEF Steps
  <2>. QED BY <2>1, <2>2
<1>2. RolledBack \in Ids
  BY RecoveryAssumption DEF RolledBack, Ids, Alarm
<1>3. ASSUME NEW i \in 1..Len(ops)
      PROVE  Steps(ops)[i].op = ops[i] /\ StepFits(c, Steps(ops)[i], h[i], h[i + 1])
  <2>1. Steps(ops)[i].op = ops[i] /\ Steps(ops)[i].id = RolledBack
    <3>1. Steps(ops)[i] = [op |-> ops[i], id |-> RolledBack]
      BY <1>1
    <3>. QED BY ONLY <3>1
  <2>2. <<ops[i], h[i], h[i + 1]>> \in Moves(c) /\ ops[i] # "write" /\ ops[i] # "try"
    OBVIOUS
  <2>. QED BY <2>1, <2>2, <1>2 DEF StepFits
<1>4. Labels(c, Steps(ops), h)
  BY <1>1, <1>3 DEF Labels
<1>5. h[Len(Steps(ops)) + 1] = h[Len(ops) + 1]
  BY <1>1
<1>. QED BY <1>1, <1>4, <1>5 DEF Leads

\* One step that carries no request.
LEMMA OneLeads ==
  ASSUME NEW c, NEW a, NEW b, NEW op, <<op, a, b>> \in Moves(c),
         op \notin {"write", "try", "survivor"}
  PROVE  Leads(c, Steps(<<op>>), a, b)
<1>. DEFINE ops == <<op>>
            h   == <<a, b>>
<1>1. ops \in Seq({op}) /\ Len(ops) = 1 /\ ops[1] = op
  OBVIOUS
<1>2. h[1] = a /\ h[2] = b
  OBVIOUS
<1>. HIDE DEF ops, h
<1>3. \A i \in 1..Len(ops) : i = 1 /\ i + 1 = 2
  BY <1>1
<1>4. Leads(c, Steps(ops), h[1], h[Len(ops) + 1])
  BY <1>1, <1>2, <1>3, StepsLead
<1>5. Len(ops) + 1 = 2
  BY <1>1
<1>. QED BY <1>2, <1>4, <1>5 DEF ops

\* Two such steps.
LEMMA TwoLead ==
  ASSUME NEW c, NEW a, NEW b, NEW d, NEW op1, NEW op2,
         <<op1, a, b>> \in Moves(c), <<op2, b, d>> \in Moves(c),
         {op1, op2} \cap {"write", "try", "survivor"} = {}
  PROVE  Leads(c, Steps(<<op1, op2>>), a, d)
<1>. DEFINE ops == <<op1, op2>>
            h   == <<a, b, d>>
<1>1. ops \in Seq({op1, op2}) /\ Len(ops) = 2 /\ ops[1] = op1 /\ ops[2] = op2
  OBVIOUS
<1>2. h[1] = a /\ h[2] = b /\ h[3] = d
  OBVIOUS
<1>. HIDE DEF ops, h
<1>3. \A i \in 1..Len(ops) : (i = 1 /\ i + 1 = 2) \/ (i = 2 /\ i + 1 = 3)
  BY <1>1
<1>4. Leads(c, Steps(ops), h[1], h[Len(ops) + 1])
  BY <1>1, <1>2, <1>3, StepsLead
<1>5. Len(ops) + 1 = 3
  BY <1>1
<1>. QED BY <1>2, <1>4, <1>5 DEF ops

\* Three such steps, the first of which may be prepareRestart's look at the node.
LEMMA ThreeLead ==
  ASSUME NEW c, NEW a, NEW b, NEW d, NEW e, NEW op1, NEW op2, NEW op3,
         <<op1, a, b>> \in Moves(c), <<op2, b, d>> \in Moves(c), <<op3, d, e>> \in Moves(c),
         {op1, op2, op3} \cap {"write", "try"} = {}, "survivor" \notin {op2, op3},
         op1 = "survivor" => e = "downed"
  PROVE  Leads(c, Steps(<<op1, op2, op3>>), a, e)
<1>. DEFINE ops == <<op1, op2, op3>>
            h   == <<a, b, d, e>>
<1>1. /\ ops \in Seq({op1, op2, op3}) /\ Len(ops) = 3
      /\ ops[1] = op1 /\ ops[2] = op2 /\ ops[3] = op3
  OBVIOUS
<1>2. h[1] = a /\ h[2] = b /\ h[3] = d /\ h[4] = e
  OBVIOUS
<1>. HIDE DEF ops, h
<1>3. \A i \in 1..Len(ops) :
        \/ i = 1 /\ i + 1 = 2 /\ i + 2 <= Len(ops) /\ i + 3 = 4
        \/ i = 2 /\ i + 1 = 3
        \/ i = 3 /\ i + 1 = 4
  BY <1>1
<1>. DEFINE Fits(i) ==
       /\ <<ops[i], h[i], h[i + 1]>> \in Moves(c)
       /\ ops[i] \notin {"write", "try"}
       /\ ops[i] = "survivor" => i + 2 <= Len(ops) /\ h[i + 3] = "downed"
<1>6. ASSUME NEW i \in 1..Len(ops) PROVE Fits(i)
  <2>1. CASE i = 1
    BY <1>1, <1>2, <1>3, <2>1
  <2>2. CASE i = 2
    BY <1>1, <1>2, <1>3, <2>2
  <2>3. CASE i = 3
    BY <1>1, <1>2, <1>3, <2>3
  <2>. QED BY <2>1, <2>2, <2>3, <1>3
<1>4. Leads(c, Steps(ops), h[1], h[Len(ops) + 1])
  BY <1>1, <1>6, StepsLead
<1>5. Len(ops) + 1 = 4
  BY <1>1
<1>. QED BY <1>2, <1>4, <1>5 DEF ops

\* The writes into the outage, however many.
LEMMA TriesLead == Leads(Outage, TryAll, "dark", "dark")
<1>. DEFINE e(k) == [op |-> "try", id |-> k + 1]
<1>1. Uncertain \in Nat
  BY RecoveryAssumption
<1>2. TryAll = [k \in 1..Uncertain |-> e(k)]
  BY DEF TryAll, Unanswered
<1>. DEFINE S == [op : {"try"}, id : Nat]
<1>8. \A k \in 1..Uncertain : e(k) \in S
  BY <1>1
<1>. HIDE DEF S
<1>3. TryAll \in Seq(S) /\ Len(TryAll) = Uncertain
  BY <1>1, <1>2, <1>8
<1>4. PICK h : h = [k \in 1..(Uncertain + 1) |-> "dark"]
  OBVIOUS
<1>5. h[1] = "dark" /\ h[Len(TryAll) + 1] = "dark"
  BY <1>1, <1>3, <1>4
<1>6. ASSUME NEW k \in 1..Len(TryAll)
      PROVE  StepFits(Outage, TryAll[k], h[k], h[k + 1]) /\ TryAll[k].op # "survivor"
  <2>1. TryAll[k].op = "try" /\ TryAll[k].id = k + 1
    BY <1>2, <1>3
  <2>2. h[k] = "dark" /\ h[k + 1] = "dark"
    BY <1>1, <1>3, <1>4
  <2>3. k + 1 \in 2..(Uncertain + 1) /\ k + 1 \in Ids
    BY <1>1, <1>3 DEF Ids, Alarm
  <2>4. <<"try", "dark", "dark">> \in Moves(Outage)
    BY DEF Moves, OutageMoves, Outage, Simple, Graceful, AlarmCases
  <2>. QED BY <2>1, <2>2, <2>3, <2>4 DEF StepFits
<1>7. Labels(Outage, TryAll, h)
  BY <1>6 DEF Labels
<1>. QED BY <1>3, <1>5, <1>7 DEF Leads

\* What a case begins with, and the start of a process that was stopped.
LEMMA SeededLeads == ASSUME NEW c PROVE Leads(c, Seeded, "fresh", "shown")
<1>1. <<"write", "fresh", "seeded">> \in Moves(c) /\ <<"before", "seeded", "shown">> \in Moves(c)
  BY DEF Moves, SeedMoves
<1>2. Leads(c, Write(Baseline), "fresh", "seeded")
  <2>1. Baseline \in Ids
    BY RecoveryAssumption DEF Baseline, Ids, Alarm
  <2>. QED BY <1>1, <2>1, WriteLeads
<1>3. Leads(c, Steps(<<"before">>), "seeded", "shown")
  BY <1>1, OneLeads
<1>. QED BY <1>2, <1>3, ConcatLeads DEF Seeded

\* The process is started and found ready.
LEMMA StartLeads ==
  ASSUME NEW c, NEW a, NEW b, <<"start", a, b>> \in Moves(c),
         <<"mustRun", b, b>> \in Moves(c), <<"ready", b, b>> \in Moves(c)
  PROVE  Leads(c, Start, a, b)
BY ThreeLead DEF Start

\* The process is stopped or killed, and found so (Local.ts 490-520).
LEMMA StopLeads ==
  ASSUME NEW c, NEW crash \in BOOLEAN, NEW a, NEW b, NEW d,
         <<"mustRun", a, a>> \in Moves(c),
         <<IF crash THEN "kill" ELSE "stop", a, b>> \in Moves(c),
         <<IF crash THEN "exit137" ELSE "exit0", b, d>> \in Moves(c)
  PROVE  Leads(c, Stop(crash), a, d)
<1>1. CASE crash
  <2>1. Leads(c, Steps(<<"mustRun", "kill", "exit137">>), a, d)
    BY <1>1, ThreeLead
  <2>. QED BY <1>1, <2>1 DEF Stop
<1>2. CASE ~crash
  <2>1. Leads(c, Steps(<<"mustRun", "stop", "exit0">>), a, d)
    BY <1>2, ThreeLead
  <2>. QED BY <1>2, <2>1 DEF Stop
<1>. QED BY <1>1, <1>2

\* The graceful, the crash and the facets case (Recovery.ts 202-258).
LEMMA RecoversLeads ==
  ASSUME NEW c \in Simple, NEW crash \in BOOLEAN, crash <=> c = "crash"
  PROVE  Leads(c, Recovers(crash), "fresh", "passed")
<1>1. /\ <<"mustRun", "shown", "shown">> \in Moves(c)
      /\ <<IF crash THEN "kill" ELSE "stop", "shown", "ending">> \in Moves(c)
      /\ <<IF crash THEN "exit137" ELSE "exit0", "ending", "ended">> \in Moves(c)
  BY DEF Moves, SimpleMoves, Simple, Graceful
<1>2. /\ <<"lapse", "ended", "ended">> \in Moves(c) /\ <<"start", "ended", "restarted">> \in Moves(c)
      /\ <<"mustRun", "restarted", "restarted">> \in Moves(c)
      /\ <<"ready", "restarted", "restarted">> \in Moves(c)
      /\ <<"recovers", "restarted", "passed">> \in Moves(c)
  BY DEF Moves, SimpleMoves, RestartMoves
<1>3. Leads(c, Stop(crash), "shown", "ended")
  BY <1>1, StopLeads
<1>4. Leads(c, Steps(<<"lapse">>), "ended", "ended")
  BY <1>2, OneLeads
<1>5. Leads(c, Start, "ended", "restarted")
  BY <1>2, StartLeads
<1>6. Leads(c, Steps(<<"recovers">>), "restarted", "passed")
  BY <1>2, OneLeads
<1>7. Leads(c, Seeded \o Stop(crash), "fresh", "ended")
  BY <1>3, SeededLeads, ConcatLeads
<1>8. Leads(c, Seeded \o Stop(crash) \o Steps(<<"lapse">>), "fresh", "ended")
  BY <1>4, <1>7, ConcatLeads
<1>9. Leads(c, Seeded \o Stop(crash) \o Steps(<<"lapse">>) \o Start, "fresh", "restarted")
  BY <1>5, <1>8, ConcatLeads
<1>. QED BY <1>6, <1>9, ConcatLeads DEF Recovers

\* The alarm cases up to the time when the alarm is overdue.
LEMMA ArmedLeads ==
  ASSUME NEW c \in AlarmCases
  PROVE  Leads(c, ArmedAndStopped \o Steps(<<"lapse">>), "fresh", "overdue")
<1>1. Moves(c) = SeedMoves \cup RestartMoves \cup AlarmMoves(c)
  BY DEF Moves, AlarmCases, Simple, Graceful
<1>2. /\ <<"write", "shown", "armed">> \in Moves(c) /\ <<"mustRun", "armed", "armed">> \in Moves(c)
      /\ <<"kill", "armed", "ending">> \in Moves(c) /\ <<"exit137", "ending", "ended">> \in Moves(c)
      /\ <<"notDue", "ended", "timely">> \in Moves(c)
      /\ <<"lapse", "timely", "overdue">> \in Moves(c)
  BY <1>1 DEF AlarmMoves
<1>3. Leads(c, Write(Alarm), "shown", "armed")
  <2>1. Alarm \in Ids
    BY RecoveryAssumption DEF Ids, Alarm
  <2>. QED BY <1>2, <2>1, WriteLeads
<1>4. Leads(c, Stop(TRUE), "armed", "ended")
  BY <1>2, StopLeads
<1>5. Leads(c, Steps(<<"notDue">>), "ended", "timely")
  BY <1>2, OneLeads
<1>6. Leads(c, Steps(<<"lapse">>), "timely", "overdue")
  BY <1>2, OneLeads
<1>7. Leads(c, Seeded \o Write(Alarm), "fresh", "armed")
  BY <1>3, SeededLeads, ConcatLeads
<1>8. Leads(c, Seeded \o Write(Alarm) \o Stop(TRUE), "fresh", "ended")
  BY <1>4, <1>7, ConcatLeads
<1>9. Leads(c, ArmedAndStopped, "fresh", "timely")
  BY <1>5, <1>8, ConcatLeads DEF ArmedAndStopped
<1>. QED BY <1>6, <1>9, ConcatLeads

\* Started, the cell is polled for the alarm that has run.
LEMMA PollLeads ==
  ASSUME NEW c \in AlarmCases, NEW a, <<"start", a, "restarted">> \in Moves(c), NEW p,
         Leads(c, p, "fresh", a)
  PROVE  Leads(c, p \o Start \o Steps(<<"poll">>), "fresh", "passed")
<1>1. Moves(c) = SeedMoves \cup RestartMoves \cup AlarmMoves(c)
  BY DEF Moves, AlarmCases, Simple, Graceful
<1>2. /\ <<"mustRun", "restarted", "restarted">> \in Moves(c)
      /\ <<"ready", "restarted", "restarted">> \in Moves(c)
      /\ <<"poll", "restarted", "passed">> \in Moves(c)
  BY <1>1 DEF RestartMoves, AlarmMoves
<1>3. Leads(c, Start, a, "restarted")
  BY <1>2, StartLeads
<1>4. Leads(c, Steps(<<"poll">>), "restarted", "passed")
  BY <1>2, OneLeads
<1>5. Leads(c, p \o Start, "fresh", "restarted")
  BY <1>3, ConcatLeads
<1>. QED BY <1>4, <1>5, ConcatLeads

\* The overdue alarm (Recovery.ts 220-258).
LEMMA OverdueAlarmLeads == Leads("overdueAlarm", OverdueAlarm, "fresh", "passed")
<1>1. <<"start", "overdue", "restarted">> \in Moves("overdueAlarm")
  BY DEF Moves, AlarmMoves, Simple, Graceful, AlarmCases
<1>2. "overdueAlarm" \in AlarmCases
  BY DEF AlarmCases
<1>. QED BY <1>1, <1>2, ArmedLeads, PollLeads DEF OverdueAlarm

\* The loss of the disk (Recovery.ts 236-258, Local.ts 454-489).
LEMMA DiskLossLeads == Leads("diskLoss", DiskLoss, "fresh", "passed")
<1>. DEFINE c == "diskLoss"
<1>1. /\ <<"seeMinio", "overdue", "overdue">> \in Moves(c) /\ <<"owned", "overdue", "overdue">> \in Moves(c)
      /\ <<"remove", "overdue", "removed">> \in Moves(c) /\ <<"create", "removed", "created">> \in Moves(c)
      /\ <<"replaced", "created", "created">> \in Moves(c) /\ <<"empty", "created", "created">> \in Moves(c)
      /\ <<"sameMinio", "created", "created">> \in Moves(c)
      /\ <<"start", "created", "restarted">> \in Moves(c)
  BY DEF Moves, AlarmMoves, Simple, Graceful, AlarmCases
<1>2. c \in AlarmCases
  BY DEF AlarmCases
<1>3. Leads(c, DiscardDisk, "overdue", "created")
  <2>. DEFINE ops == <<"seeMinio", "owned", "remove", "create", "replaced", "empty", "sameMinio">>
              h   == <<"overdue", "overdue", "overdue", "removed", "created", "created", "created",
                       "created">>
  <2>7. ops \in Seq({"seeMinio", "owned", "remove", "create", "replaced", "empty", "sameMinio"})
    OBVIOUS
  <2>1. /\ Len(ops) = 7
        /\ ops[1] = "seeMinio" /\ ops[2] = "owned" /\ ops[3] = "remove" /\ ops[4] = "create"
        /\ ops[5] = "replaced" /\ ops[6] = "empty" /\ ops[7] = "sameMinio"
    OBVIOUS
  <2>2. /\ h[1] = "overdue" /\ h[2] = "overdue" /\ h[3] = "overdue" /\ h[4] = "removed"
        /\ h[5] = "created" /\ h[6] = "created" /\ h[7] = "created" /\ h[8] = "created"
    OBVIOUS
  <2>3. Steps(ops) = DiscardDisk
    BY DEF DiscardDisk
  <2>. HIDE DEF ops, h, c
  <2>4. ASSUME NEW i \in 1..Len(ops)
        PROVE  /\ <<ops[i], h[i], h[i + 1]>> \in Moves(c)
               /\ ops[i] \notin {"write", "try"} /\ ops[i] # "survivor"
    <3>. i \in Int
      BY <2>1
    <3>1. CASE i = 1
      BY <3>1, <1>1, <2>1, <2>2
    <3>2. CASE i = 2
      BY <3>2, <1>1, <2>1, <2>2
    <3>3. CASE i = 3
      BY <3>3, <1>1, <2>1, <2>2
    <3>4. CASE i = 4
      BY <3>4, <1>1, <2>1, <2>2
    <3>5. CASE i = 5
      BY <3>5, <1>1, <2>1, <2>2
    <3>6. CASE i = 6
      BY <3>6, <1>1, <2>1, <2>2
    <3>7. CASE i = 7
      BY <3>7, <1>1, <2>1, <2>2
    <3>. QED BY <3>1, <3>2, <3>3, <3>4, <3>5, <3>6, <3>7, <2>1
  <2>5. Leads(c, Steps(ops), h[1], h[Len(ops) + 1])
    BY <2>7, <2>4, StepsLead
  <2>6. Len(ops) + 1 = 8
    BY <2>1
  <2>. QED BY <2>2, <2>3, <2>5, <2>6
<1>4. Leads(c, ArmedAndStopped \o Steps(<<"lapse">>) \o DiscardDisk, "fresh", "created")
  BY <1>2, <1>3, ArmedLeads, ConcatLeads
<1>. QED BY <1>1, <1>2, <1>4, PollLeads DEF DiskLoss

\* The storage outage (Outage.ts 66-137).
LEMMA StorageOutageLeads == Leads(Outage, StorageOutage, "fresh", "passed")
<1>. DEFINE c == Outage
<1>1. Moves(c) = SeedMoves \cup RestartMoves \cup OutageMoves
  BY DEF Moves, AlarmCases, Simple, Graceful, Outage
<1>. HIDE DEF c
<1>2. Leads(c, StopStorage, "shown", "dark")
  BY <1>1, ThreeLead DEF OutageMoves, StopStorage
<1>3. Leads(c, TryAll, "dark", "dark")
  BY TriesLead DEF c
<1>4. Leads(c, Steps(<<"lapse">>), "dark", "dark")
  BY <1>1, OneLeads DEF OutageMoves
<1>5. Leads(c, PrepareRestart, "dark", "downed")
  BY <1>1, ThreeLead DEF OutageMoves, PrepareRestart
<1>6. Leads(c, Steps(<<"lapse">>), "downed", "downed")
  BY <1>1, OneLeads DEF OutageMoves
<1>7. Leads(c, RestoreStorage, "downed", "lit")
  BY <1>1, TwoLead DEF OutageMoves, RestoreStorage
<1>8. Leads(c, Start, "lit", "restarted")
  BY <1>1, StartLeads DEF OutageMoves, RestartMoves
<1>9. Leads(c, Steps(<<"recovered">>), "restarted", "recovered")
  BY <1>1, OneLeads DEF OutageMoves
<1>10. Leads(c, Write(Last), "recovered", "renewed")
  <2>1. Last \in Ids
    BY RecoveryAssumption DEF Ids, Alarm, Last
  <2>. QED BY <1>1, <2>1, WriteLeads DEF OutageMoves
<1>11. Leads(c, Stop(TRUE), "renewed", "endedAgain")
  BY <1>1, StopLeads DEF OutageMoves
<1>12. Leads(c, Steps(<<"lapse">>), "endedAgain", "endedAgain")
  BY <1>1, OneLeads DEF OutageMoves
<1>13. Leads(c, Start, "endedAgain", "restartedAgain")
  BY <1>1, StartLeads DEF OutageMoves
<1>14. Leads(c, Steps(<<"final">>), "restartedAgain", "passed")
  BY <1>1, OneLeads DEF OutageMoves
<1>15. Leads(c, Seeded \o StopStorage \o TryAll, "fresh", "dark")
  BY <1>2, <1>3, SeededLeads, ConcatLeads
<1>16. Leads(c, Seeded \o StopStorage \o TryAll \o Steps(<<"lapse">>) \o PrepareRestart,
             "fresh", "downed")
  BY <1>4, <1>5, <1>15, ConcatLeads
<1>17. Leads(c, Seeded \o StopStorage \o TryAll \o Steps(<<"lapse">>) \o PrepareRestart
                \o Steps(<<"lapse">>) \o RestoreStorage \o Start, "fresh", "restarted")
  BY <1>6, <1>7, <1>8, <1>16, ConcatLeads
<1>18. Leads(c, Seeded \o StopStorage \o TryAll \o Steps(<<"lapse">>) \o PrepareRestart
                \o Steps(<<"lapse">>) \o RestoreStorage \o Start
                \o Steps(<<"recovered">>) \o Write(Last), "fresh", "renewed")
  BY <1>9, <1>10, <1>17, ConcatLeads
<1>19. Leads(c, Seeded \o StopStorage \o TryAll \o Steps(<<"lapse">>) \o PrepareRestart
                \o Steps(<<"lapse">>) \o RestoreStorage \o Start
                \o Steps(<<"recovered">>) \o Write(Last)
                \o Stop(TRUE) \o Steps(<<"lapse">>), "fresh", "endedAgain")
  BY <1>11, <1>12, <1>18, ConcatLeads
<1>. QED BY <1>13, <1>14, <1>19, ConcatLeads DEF StorageOutage, c

\* Theorem: the program of every case has stages, each step leading from its own to
\* the next one (Recovery.ts 202-258, Outage.ts 66-137).
THEOREM CasesHaveStages ==
  \A c \in Cases : IsLabelling(c, StagesOf(c)) /\ \E S : Programs[c] \in Seq(S)
<1>. SUFFICES ASSUME NEW c \in Cases
              PROVE  IsLabelling(c, StagesOf(c)) /\ \E S : Programs[c] \in Seq(S)
  OBVIOUS
<1>1. c \in {"graceful", "crash", "facets", "overdueAlarm", "diskLoss", "storageOutage"}
  BY RecoveryAssumption DEF Programs
<1>2. Leads(c, Programs[c], "fresh", "passed")
  <2>1. CASE c \in Graceful
    <3>1. Programs[c] = Recovers(FALSE)
      <4>1. CASE c = "graceful"
        BY <4>1 DEF Programs
      <4>2. CASE c = "facets"
        BY <4>2 DEF Programs
      <4>. QED BY <2>1, <4>1, <4>2 DEF Graceful
    <3>2. c \in Simple /\ c # "crash"
      BY <2>1 DEF Simple, Graceful
    <3>. QED BY <3>1, <3>2, RecoversLeads
  <2>2. CASE c = "crash"
    <3>1. Programs[c] = Recovers(TRUE)
      BY <2>2 DEF Programs
    <3>2. c \in Simple
      BY <2>2 DEF Simple
    <3>. QED BY <2>2, <3>1, <3>2, RecoversLeads
  <2>3. CASE c = "overdueAlarm"
    <3>1. Programs[c] = OverdueAlarm
      BY <2>3 DEF Programs
    <3>. QED BY <2>3, <3>1, OverdueAlarmLeads
  <2>4. CASE c = "diskLoss"
    <3>1. Programs[c] = DiskLoss
      BY <2>4 DEF Programs
    <3>. QED BY <2>4, <3>1, DiskLossLeads
  <2>5. CASE c = "storageOutage"
    <3>1. Programs[c] = StorageOutage
      BY <2>5 DEF Programs
    <3>. QED BY <2>5, <3>1, StorageOutageLeads DEF Outage
  <2>. QED BY <1>1, <2>1, <2>2, <2>3, <2>4, <2>5 DEF Graceful
<1>3. \E h : IsLabelling(c, h)
  BY <1>2 DEF Leads, IsLabelling
<1>. QED BY <1>2, <1>3 DEF StagesOf, Leads

-----------------------------------------------------------------------------
(* What a cell stores, and what celld promises of it.                      *)

\* The writes are numbered apart.
LEMMA IdFacts ==
  /\ Uncertain \in Nat
  /\ {Baseline, Last, Alarm} \subseteq Ids /\ 1..Last \subseteq Ids
  /\ 2..(Uncertain + 1) \subseteq 1..(Uncertain + 1) /\ Baseline \in 1..(Uncertain + 1)
  /\ 1..(Uncertain + 1) \subseteq 1..Last /\ Last \in 1..Last
  /\ Baseline # Alarm /\ Baseline # Last /\ Last # Alarm
  /\ Baseline \notin 2..(Uncertain + 1) /\ Last \notin 1..(Uncertain + 1) /\ Alarm \notin 1..Last
BY RecoveryAssumption DEF Baseline, Last, Alarm, Ids

\* What a write stores is its own, a transaction's two items and the alarm's one.
LEMMA ItemFacts ==
  /\ \A i \in Ids \ {Alarm} : ItemsOf(i) = {<<"kv", i>>, <<"sql", i>>} /\ <<"kv", i>> # <<"sql", i>>
  /\ ItemsOf(Alarm) = {Armed}
  /\ \A i, j \in Ids : i # j => ItemsOf(i) \cap ItemsOf(j) = {}
  /\ \A i \in Ids : ItemsOf(i) \subseteq Items /\ Fired \notin ItemsOf(i) /\ ItemsOf(i) # {}
  /\ \A x \in Items : \E i \in Ids : x \in ItemsOf(i)
  /\ Fired \notin Items /\ Armed # Fired
<1>1. \A i \in Ids \ {Alarm} :
        ItemsOf(i) = {<<"kv", i>>, <<"sql", i>>} /\ <<"kv", i>> # <<"sql", i>>
  BY DEF ItemsOf
<1>2. ItemsOf(Alarm) = {Armed} /\ Armed # Fired
  BY DEF ItemsOf, Armed, Fired
<1>3. \A i, j \in Ids : i # j => ItemsOf(i) \cap ItemsOf(j) = {}
  BY DEF ItemsOf
<1>4. \A i \in Ids : ItemsOf(i) \subseteq Items /\ ItemsOf(i) # {}
  BY DEF ItemsOf, Items
<1>5. \A i \in Ids : Fired \notin ItemsOf(i)
  BY DEF ItemsOf, Fired
<1>6. \A x \in Items : \E i \in Ids : x \in ItemsOf(i)
  BY DEF Items
<1>7. Fired \notin Items
  BY <1>5, <1>6
<1>. QED BY <1>1, <1>2, <1>3, <1>4, <1>5, <1>6, <1>7

\* Celld's promises in terms of transactions.
LEMMA KeepsMeans ==
  ASSUME NEW d
  PROVE  Keeps(d) <=>
           /\ \A i \in Acked \ {Alarm} : ItemsOf(i) \subseteq d
           /\ Alarm \in Acked => Armed \in d \/ Fired \in d
           /\ Whole(d) /\ Unheard(d)
           /\ memory.recovered \subseteq d
BY DEF Keeps, Whole, Unheard

\* What is stored is either the alarm's or one of the transactions'.
LEMMA Contained ==
  ASSUME NEW d \in SUBSET (Items \cup {Fired}), Unheard(d), Fired \notin d
  PROVE  \A x \in d : \E i \in Ids : outcomes[i] # "none" /\ x \in ItemsOf(i)
BY ItemFacts DEF Unheard

\* Where only the first write was asked for, a promise is kept exactly by what it
\* wrote (Recovery.ts 34-52).
LEMMA KeepsBaseline ==
  ASSUME outcomes[Baseline] = "acked", \A i \in Ids \ {Baseline} : outcomes[i] = "none",
         memory.recovered = {}, NEW d \in SUBSET (Items \cup {Fired}), Fired \notin d
  PROVE  Keeps(d) <=> d = ItemsOf(Baseline)
<1>1. Acked = {Baseline} /\ Alarm # Baseline
  BY IdFacts DEF Acked
<1>2. ASSUME Keeps(d) PROVE d = ItemsOf(Baseline)
  <2>1. ItemsOf(Baseline) \subseteq d /\ Unheard(d)
    BY <1>1, <1>2, KeepsMeans
  <2>2. \A x \in d : \E i \in Ids : outcomes[i] # "none" /\ x \in ItemsOf(i)
    BY <2>1, Contained
  <2>. QED BY <2>1, <2>2
<1>3. ASSUME d = ItemsOf(Baseline) PROVE Keeps(d)
  <2>1. Whole(d) /\ Unheard(d)
    BY <1>3, ItemFacts, IdFacts DEF Whole, Unheard
  <2>2. Alarm \notin Acked /\ \A i \in Acked \ {Alarm} : ItemsOf(i) \subseteq d
    BY <1>1, <1>3, IdFacts
  <2>. QED BY <2>1, <2>2, KeepsMeans
<1>. QED BY <1>2, <1>3

\* A cell that shows the first write and the alarm that has run has lost nothing
\* (Recovery.ts 61-86).
LEMMA KeepsAlarm ==
  ASSUME outcomes[Baseline] = "acked",
         \A i \in Ids \ {Baseline, Alarm} : outcomes[i] = "none", outcomes[Alarm] # "none",
         memory.recovered = {}
  PROVE  Keeps(ItemsOf(Baseline) \cup {Fired})
<1>. DEFINE d == ItemsOf(Baseline) \cup {Fired}
<1>1. \A i \in Acked \ {Alarm} : i = Baseline
  BY DEF Acked
<1>2. Whole(d)
  BY ItemFacts, IdFacts DEF Whole
<1>3. Unheard(d)
  BY ItemFacts, IdFacts DEF Unheard
<1>. QED BY <1>1, <1>2, <1>3, KeepsMeans

\* The outage's check accepts exactly what keeps the promises, but for what an earlier
\* read has shown (Outage.ts 43-64).
LEMMA KeepsChecked ==
  ASSUME \A i \in Ids : outcomes[i] \in {"none", "acked", "uncertain"}, outcomes[Alarm] = "none",
         NEW d \in SUBSET (Items \cup {Fired}), Fired \notin d
  PROVE  Keeps(d) <=> checkOutageState(d) /\ memory.recovered \subseteq d
<1>. DEFINE J == {j \in Settled : j \in Acked \/ ItemsOf(j) \cap d # {}}
<1>1. Settled = {i \in Ids : outcomes[i] # "none"} /\ Alarm \notin Acked /\ Acked \subseteq Settled
  BY DEF Settled, Acked
<1>2. ASSUME Keeps(d) PROVE checkOutageState(d)
  <2>1. /\ \A i \in Acked : ItemsOf(i) \subseteq d
        /\ Whole(d) /\ Unheard(d)
    BY <1>1, <1>2, KeepsMeans
  <2>2. \A j \in J : ItemsOf(j) \subseteq d
    BY <1>1, <2>1 DEF Whole
  <2>3. \A x \in d : \E j \in J : x \in ItemsOf(j)
    BY <1>1, <2>1, Contained
  <2>4. d = UNION {ItemsOf(i) : i \in J}
    BY <2>2, <2>3
  <2>. QED BY <2>4 DEF checkOutageState
<1>3. ASSUME checkOutageState(d) PROVE Whole(d) /\ Unheard(d) /\ \A i \in Acked : ItemsOf(i) \subseteq d
  <2>1. d = UNION {ItemsOf(i) : i \in J}
    BY <1>3 DEF checkOutageState
  <2>2. \A i \in Ids : ItemsOf(i) \cap d # {} => i \in J
    BY <2>1, <1>1, ItemFacts
  <2>3. \A j \in J : ItemsOf(j) \subseteq d
    BY <2>1
  <2>4. Whole(d)
    BY <2>2, <2>3 DEF Whole
  <2>5. Unheard(d)
    BY <1>1, <2>2 DEF Unheard
  <2>. QED BY <1>1, <2>3, <2>4, <2>5
<1>. QED BY <1>1, <1>2, <1>3, KeepsMeans

\* What a cell is activated with, if nothing is corrupted.
LEMMA RebuiltFacts ==
  ASSUME NEW d \in Rebuilt
  PROVE  /\ bucket \subseteq d /\ d \subseteq bucket \cup disk
         /\ Whole(bucket) => Whole(d)
         /\ disk = {} => d = bucket
<1>1. PICK kept \in SUBSET {i \in Ids : ItemsOf(i) \subseteq disk \ bucket} :
        d = bucket \cup UNION {ItemsOf(i) : i \in kept}
  BY DEF Rebuilt
<1>2. bucket \subseteq d /\ d \subseteq bucket \cup disk
  BY <1>1
<1>3. ASSUME Whole(bucket), NEW i \in Ids PROVE ItemsOf(i) \subseteq d \/ ItemsOf(i) \cap d = {}
  <2>1. CASE i \in kept
    BY <1>1, <2>1
  <2>2. CASE i \notin kept
    <3>1. ItemsOf(i) \cap UNION {ItemsOf(j) : j \in kept} = {}
      BY <1>1, <2>2, ItemFacts
    <3>2. ItemsOf(i) \subseteq bucket \/ ItemsOf(i) \cap bucket = {}
      BY <1>3 DEF Whole
    <3>. QED BY <1>1, <3>1, <3>2
  <2>. QED BY <2>1, <2>2
<1>4. ASSUME disk = {} PROVE d = bucket
  <2>1. kept = {}
    BY <1>1, <1>4, ItemFacts
  <2>. QED BY <1>1, <2>1
<1>. QED BY <1>2, <1>3, <1>4 DEF Whole

\* One item more or less tears a transaction.
LEMMA CorruptedTears ==
  ASSUME NEW base, Whole(base), Armed \notin base, NEW x \in Items,
         NEW d, d = base \ {x} \/ d = base \cup {x}, Whole(d), Armed \notin d
  PROVE  d = base
<1>1. PICK i \in Ids : x \in ItemsOf(i)
  BY ItemFacts
<1>2. CASE i = Alarm
  BY <1>1, <1>2, ItemFacts
<1>3. CASE i # Alarm
  <2>1. PICK y \in ItemsOf(i) : y # x
    <3>1. ItemsOf(i) = {<<"kv", i>>, <<"sql", i>>} /\ <<"kv", i>> # <<"sql", i>>
      BY <1>3, ItemFacts
    <3>2. <<"kv", i>> \in ItemsOf(i) /\ <<"sql", i>> \in ItemsOf(i)
      BY <3>1
    <3>. QED BY <3>1, <3>2
  <2>2. (x \in base <=> y \in base) /\ (x \in d <=> y \in d)
    BY <1>1 DEF Whole
  <2>3. y \in d <=> y \in base
    BY <2>1
  <2>. QED BY <2>2, <2>3
<1>. QED BY <1>2, <1>3

-----------------------------------------------------------------------------
(* The stage of a step, and the stage behind it.                           *)

NextStage == StagesOf(case)[pc + 1]

\* The step a case is at fits its stage and the next one.
LEMMA StageFacts ==
  ASSUME Typing
  PROVE  /\ case \in Cases
         /\ case \in Simple \cup AlarmCases \cup {Outage}
         /\ Len(Program) \in Nat /\ pc \in 1..(Len(Program) + 1)
         /\ pc > Len(Program) => Stage = "passed"
         /\ pc <= Len(Program) =>
              /\ StepFits(case, Step, Stage, NextStage)
              /\ pc + 1 \in 1..(Len(Program) + 1)
              /\ Step.op = "survivor" =>
                   pc + 3 \in 1..(Len(Program) + 1) /\ StagesOf(case)[pc + 3] = "downed"
<1>1. case \in Cases /\ pc \in 1..(Len(Program) + 1)
  BY DEF Typing, TypeOK
<1>2. IsLabelling(case, StagesOf(case)) /\ \E S : Program \in Seq(S)
  BY <1>1, CasesHaveStages DEF Program
<1>3. Len(Program) \in Nat
  BY <1>2
<1>4. case \in Simple \cup AlarmCases \cup {Outage}
  BY <1>1, RecoveryAssumption DEF Programs, Simple, Graceful, AlarmCases, Outage
<1>5. pc > Len(Program) => Stage = "passed"
  <2>1. pc > Len(Program) => pc = Len(Program) + 1
    BY <1>1, <1>3
  <2>. QED BY <1>2, <2>1 DEF IsLabelling, Stage, Program
<1>6. ASSUME pc <= Len(Program)
      PROVE  /\ StepFits(case, Step, Stage, NextStage)
             /\ Step.op = "survivor" =>
                  pc + 2 <= Len(Program) /\ StagesOf(case)[pc + 3] = "downed"
  <2>1. pc \in 1..Len(Program)
    BY <1>1, <1>3, <1>6
  <2>2. Labels(case, Program, StagesOf(case))
    BY <1>2 DEF IsLabelling, Program
  <2>. QED BY <2>1, <2>2 DEF Labels, Step, Stage, NextStage
<1>7. pc <= Len(Program) =>
        pc + 1 \in 1..(Len(Program) + 1) /\ (pc + 2 <= Len(Program) => pc + 3 \in 1..(Len(Program) + 1))
  BY <1>1, <1>3
<1>. QED BY <1>1, <1>3, <1>4, <1>5, <1>6, <1>7

\* The table of moves, read by step.
LEMMA MovesMean ==
  ASSUME NEW c \in Simple \cup AlarmCases \cup {Outage}, NEW op, NEW a, NEW b,
         <<op, a, b>> \in Moves(c)
  PROVE  /\ op = "write" =>
              \/ a = "fresh" /\ b = "seeded"
              \/ a = "shown" /\ b = "armed" /\ c \in AlarmCases
              \/ a = "recovered" /\ b = "renewed" /\ c = Outage
         /\ op = "try" => a = "dark" /\ b = "dark" /\ c = Outage
         /\ op = "before" => a = "seeded" /\ b = "shown"
         /\ op = "mustRun" =>
              b = a /\ a \in {"shown", "armed", "restarted", "renewed", "restartedAgain"}
         /\ op = "ready" => b = a /\ a \in {"restarted", "restartedAgain"}
         /\ op = "stop" => a = "shown" /\ b = "ending" /\ c \in Graceful
         /\ op = "kill" =>
              \/ a = "shown" /\ b = "ending" /\ c = "crash"
              \/ a = "armed" /\ b = "ending" /\ c \in AlarmCases
              \/ a = "dark" /\ b = "struck" /\ c = Outage
              \/ a = "renewed" /\ b = "endingAgain" /\ c = Outage
         /\ op = "exit0" => a = "ending" /\ b = "ended" /\ c \in Graceful
         /\ op = "exit137" =>
              \/ a = "ending" /\ b = "ended" /\ c \in AlarmCases \cup {"crash"}
              \/ a = "struck" /\ b = "downed" /\ c = Outage
              \/ a = "endingAgain" /\ b = "endedAgain" /\ c = Outage
         /\ op = "notDue" => a = "ended" /\ b = "timely" /\ c \in AlarmCases
         /\ op = "lapse" =>
              \/ a = "timely" /\ b = "overdue" /\ c \in AlarmCases
              \/ b = a /\ a = "ended" /\ c \in Simple
              \/ b = a /\ a \in {"dark", "downed", "endedAgain"} /\ c = Outage
         /\ op = "start" =>
              \/ a = "ended" /\ b = "restarted" /\ c \in Simple
              \/ a = "overdue" /\ b = "restarted" /\ c = "overdueAlarm"
              \/ a = "created" /\ b = "restarted" /\ c = "diskLoss"
              \/ a = "lit" /\ b = "restarted" /\ c = Outage
              \/ a = "endedAgain" /\ b = "restartedAgain" /\ c = Outage
         /\ op = "stopMinio" => a = "shown" /\ b = "dark" /\ c = Outage
         /\ op = "minioDown" => a = "dark" /\ b = "dark"
         /\ op = "survivor" => a = "dark" /\ b = "dark" /\ c = Outage
         /\ op = "startMinio" => a = "downed" /\ b = "lit" /\ c = Outage
         /\ op = "minioUp" => a = "lit" /\ b = "lit"
         /\ op \in {"seeMinio", "owned"} => a = "overdue" /\ b = "overdue" /\ c = "diskLoss"
         /\ op = "remove" => a = "overdue" /\ b = "removed" /\ c = "diskLoss"
         /\ op = "create" => a = "removed" /\ b = "created" /\ c = "diskLoss"
         /\ op \in {"replaced", "empty", "sameMinio"} =>
              a = "created" /\ b = "created" /\ c = "diskLoss"
         /\ op = "recovers" => a = "restarted" /\ b = "passed" /\ c \in Simple
         /\ op = "poll" => a = "restarted" /\ b = "passed" /\ c \in AlarmCases
         /\ op = "recovered" => a = "restarted" /\ b = "recovered" /\ c = Outage
         /\ op = "final" => a = "restartedAgain" /\ b = "passed" /\ c = Outage
<1>1. CASE c \in Simple
  <2>1. <<op, a, b>> \in SeedMoves \cup RestartMoves \cup SimpleMoves(c)
    BY <1>1 DEF Moves
  <2>. QED BY <1>1, <2>1 DEF SeedMoves, RestartMoves, SimpleMoves, Simple, Graceful, AlarmCases, Outage
<1>2. CASE c \in AlarmCases
  <2>1. <<op, a, b>> \in SeedMoves \cup RestartMoves \cup AlarmMoves(c)
    BY <1>2 DEF Moves, Simple, Graceful, AlarmCases
  <2>. QED BY <1>2, <2>1 DEF SeedMoves, RestartMoves, AlarmMoves, Simple, Graceful, AlarmCases, Outage
<1>3. CASE c = Outage
  <2>1. <<op, a, b>> \in SeedMoves \cup RestartMoves \cup OutageMoves
    BY <1>3 DEF Moves, Simple, Graceful, AlarmCases, Outage
  <2>. QED BY <1>3, <2>1 DEF SeedMoves, RestartMoves, OutageMoves, Simple, Graceful, AlarmCases, Outage
<1>. QED BY <1>1, <1>2, <1>3

\* The same, of a named step.
LEMMA AtStep ==
  ASSUME Typing, NEW op, At(op)
  PROVE  /\ <<op, Stage, NextStage>> \in Moves(case)
         /\ case \in Simple \cup AlarmCases \cup {Outage}
         /\ verdict = "running" /\ Step.op = op /\ pc <= Len(Program)
         /\ pc + 1 \in 1..(Len(Program) + 1)
         /\ Step.id \in Ids
         /\ op = "write" => Step.id = IF Stage = "fresh" THEN Baseline
                                      ELSE IF Stage = "shown" THEN Alarm ELSE Last
         /\ op = "try" => Step.id \in 2..(Uncertain + 1)
BY StageFacts DEF At, StepFits

\* A step that carries no request is taken when none is without an outcome.
LEMMA NothingSent ==
  ASSUME Requests, NEW op, At(op), op \notin {"write", "try"}
  PROVE  \A i \in Ids : outcomes[i] # "sent"
BY DEF Requests, At

\* A step that leaves the program's counter leaves the stage.
LEMMA SameStage == ASSUME UNCHANGED <<case, pc>> PROVE Stage' = Stage
BY DEF Stage

\* The driver goes on to the next stage.
LEMMA NextStageIs == ASSUME case' = case, pc' = pc + 1 PROVE Stage' = NextStage
BY DEF Stage, NextStage

\* The requests that may be at the process, by stage.
LEMMA FlyingFacts ==
  ASSUME Typing, AlarmOnce, Course, verdict # "failed", NEW i \in flying
  PROVE  /\ i \in Ids /\ process = "up"
         /\ outcomes[i] # "none"
         /\ \/ Stage = "fresh" /\ i = Baseline /\ outcomes[i] = "sent"
            \/ Stage = "shown" /\ i = Alarm /\ case \in AlarmCases /\ outcomes[i] = "sent"
            \/ Stage = "dark" /\ case = Outage
            \/ Stage = "recovered" /\ i = Last /\ case = Outage /\ outcomes[i] = "sent"
<1>1. i \in Ids /\ process = "up"
  BY DEF Typing, TypeOK
<1>2. outcomes[i] = "sent" \/ (Stage = "dark" /\ outcomes[i] = "uncertain")
  BY DEF Course, Requests
<1>3. CASE Stage = "dark"
  <2>1. case = Outage
    BY <1>3 DEF Course, KindMatches
  <2>. QED BY <1>1, <1>2, <1>3, <2>1
<1>4. CASE Stage # "dark"
  <2>1. outcomes[i] = "sent" /\ pc <= Len(Program) /\ Step.op \in {"write", "try"} /\ Step.id = i
    BY <1>1, <1>2, <1>4 DEF Course, Requests
  <2>2. /\ StepFits(case, Step, Stage, NextStage)
        /\ case \in Simple \cup AlarmCases \cup {Outage}
    BY <2>1, StageFacts
  <2>3. <<Step.op, Stage, NextStage>> \in Moves(case) /\ Step.op = "write"
    BY <1>4, <2>1, <2>2, MovesMean DEF StepFits
  <2>4. \/ Stage = "fresh"
        \/ Stage = "shown" /\ case \in AlarmCases
        \/ Stage = "recovered" /\ case = Outage
    BY <2>2, <2>3, MovesMean
  <2>. QED BY <1>1, <2>1, <2>2, <2>3, <2>4 DEF StepFits
<1>. QED BY <1>3, <1>4

-----------------------------------------------------------------------------
(* The steps of the process and of the clock.                              *)

\* An activation brings back what the store and the disk hold, or breaks a promise.
LEMMA ActivateKeeps ==
  ASSUME Typing, AlarmOnce, Course, verdict # "failed", Activate
  PROVE  Course'
<1>1. /\ process = "up" /\ active = FALSE /\ store.up
      /\ active' = TRUE /\ generation' = generation + 1
      /\ UNCHANGED <<process, flying, bucket, store, containerId, clock, case, pc, verdict,
                     outcomes, memory, unsaved, ends, alarmRan, dueUp>>
  BY DEF Activate, driver, Typing, TypeOK
<1>2. Stage' = Stage
  BY <1>1, SameStage
<1>3. Stage \in {"fresh", "restarted", "restartedAgain"} /\ betrayed = FALSE
  <2>1. Stage \in {"fresh", "restarted", "restartedAgain"}
    BY <1>1 DEF Course, Upright, Activations, KindMatches, Stages, First, Down, Second, Again
  <2>2. betrayed = FALSE
    BY <1>1 DEF Course, Betrayals
  <2>. QED BY <2>1, <2>2
<1>4. PICK content \in Rebuilt \cup (IF "corrupt" \in Faults /\ generation > 0 THEN Corrupted ELSE {}) :
        disk' = content /\ betrayed' = (betrayed \/ ~Keeps(content))
  BY DEF Activate
<1>5. /\ betrayed' = ~Keeps(content)
      /\ Keeps(disk)' <=> Keeps(content)
      /\ \A d : Whole(d)' <=> Whole(d)
      /\ Whole(disk)' <=> Whole(content)
      /\ Unheard(disk)' <=> Unheard(content)
      /\ Unheard(bucket)' <=> Unheard(bucket)
  BY <1>1, <1>3, <1>4 DEF Keeps, Whole, Unheard, Acked
<1>6. PICK base \in Rebuilt : \/ content = base
                              \/ generation > 0 /\ \E x \in Items : content = base \ {x} \/ content = base \cup {x}
  BY <1>4 DEF Corrupted
<1>7. /\ bucket \subseteq base /\ base \subseteq bucket \cup disk
      /\ disk = {} => base = bucket
      /\ Whole(bucket) => Whole(base)
  BY <1>6, RebuiltFacts
<1>8. /\ Whole(bucket) /\ Whole(disk) /\ Unheard(bucket) /\ Unheard(disk)
      /\ case = Outage => bucket \subseteq disk
  BY <1>3 DEF Course, Contents
<1>9. Keeps(content) => Whole(content) /\ Unheard(content) /\ memory.recovered \subseteq content
  BY KeepsMeans
<1>10. ASSUME case = Outage, Keeps(content) PROVE content = base
  <2>1. outcomes[Alarm] = "none" /\ Armed \notin bucket /\ Armed \notin disk /\ Armed \notin content
    <3>1. outcomes[Alarm] = "none"
      <4>1. Alarm \notin Asked
        BY <1>10, IdFacts DEF Asked, Simple, Graceful, AlarmCases, Outage
      <4>. QED BY <4>1, IdFacts DEF Course, Requests
    <3>. QED BY <3>1, <1>8, <1>9, <1>10, IdFacts, ItemFacts DEF Unheard
  <2>2. Armed \notin base /\ Whole(base) /\ Whole(content)
    BY <2>1, <1>7, <1>8, <1>9, <1>10
  <2>3. CASE \E x \in Items : content = base \ {x} \/ content = base \cup {x}
    BY <2>1, <2>2, <2>3, CorruptedTears
  <2>. QED BY <2>3, <1>6
<1>11. content \subseteq bucket \cup disk \cup Items
  BY <1>6, <1>7
<1>12. /\ KindMatches' /\ Upright' /\ EndsMatch'
  BY <1>1, <1>2 DEF Course, KindMatches, Upright, EndsMatch, FirstEnds
<1>13. Activations'
  BY <1>1, <1>2 DEF Course, Activations, Typing, TypeOK
<1>14. Requests'
  BY <1>1, <1>2 DEF Course, Requests, Asked, Step, Program
<1>15. Deadlines'
  BY <1>1, <1>2, <1>4, <1>11, ItemFacts DEF Course, Deadlines
<1>16. Betrayals'
  <2>1. Stage = "fresh" => Keeps(content)
    <3>. SUFFICES ASSUME Stage = "fresh" PROVE Keeps(content)
      OBVIOUS
    <3>1. disk = {} /\ bucket = {} /\ ends = <<>>
      BY <1>1 DEF Course, Contents, EndsMatch, First
    <3>2. generation = 0
      BY <1>1, <3>1 DEF Course, Activations
    <3>3. content = {}
      BY <3>1, <3>2, <1>6, <1>7
    <3>4. Acked = {}
      BY DEF Course, Requests, Asked, Acked
    <3>5. memory.recovered = {}
      BY DEF Course, Contents, Late, Again
    <3>. QED BY <3>3, <3>4, <3>5, KeepsMeans DEF Whole, Unheard
  <2>. QED BY <2>1, <1>1, <1>2, <1>3, <1>5 DEF Betrayals
<1>17. Contents'
  <2>1. ~betrayed' => Whole(content) /\ Unheard(content) /\ (case = Outage => bucket \subseteq content)
    BY <1>5, <1>7, <1>9, <1>10
  <2>2. Stage \in Late /\ ~betrayed' =>
          memory.recovered \subseteq content /\ content \subseteq memory.recovered \cup ItemsOf(Last)
    <3>1. Stage \in Late => case = Outage
      BY DEF Course, KindMatches
    <3>2. Stage \in Late => disk \subseteq memory.recovered \cup ItemsOf(Last)
      BY <1>3 DEF Course, Contents
    <3>. QED BY <3>1, <3>2, <1>5, <1>7, <1>8, <1>9, <1>10
  <2>3. Stage \in Late => Whole(memory.recovered)
    BY DEF Course, Contents
  <2>4. Stage = "fresh" /\ outcomes[Baseline] # "none" => Baseline \in flying \/ ItemsOf(Baseline) \subseteq disk
    BY DEF Course, Contents
  <2>5. Stage = "fresh" => disk = {}
    BY <1>1 DEF Course, Contents
  <2>6. ItemsOf(Baseline) # {}
    BY ItemFacts, IdFacts
  <2>7. Stage \notin Late \cup {"passed"} => memory.recovered = {}
    BY DEF Course, Contents
  <2>. QED BY <2>1, <2>2, <2>3, <2>4, <2>5, <2>6, <2>7, <1>1, <1>2, <1>3, <1>4, <1>5, <1>8 DEF Contents
<1>18. Savings'
  <2>. SUFFICES ASSUME case = "diskLoss" PROVE Savings'
    BY <1>1 DEF Savings
  <2>1. unsaved # {} => Stage = "restarted" /\ ItemsOf(Baseline) \cap bucket = {} /\ disk = {}
    <3>1. Stage = "fresh" => unsaved = {}
      BY DEF Course, Savings, First
    <3>2. Stage # "restartedAgain"
      BY DEF Course, KindMatches, Late, Again, Outage
    <3>3. unsaved # {} => ItemsOf(Baseline) \cap bucket = {}
      BY <1>1 DEF Course, Savings
    <3>4. Stage = "restarted" => disk = {}
      BY <1>1 DEF Course, Savings
    <3>. QED BY <3>1, <3>2, <3>3, <3>4, <1>3
  <2>2. unsaved # {} => ~(ItemsOf(Baseline) \subseteq content)
    <3>. SUFFICES ASSUME unsaved # {} PROVE ~(ItemsOf(Baseline) \subseteq content)
      OBVIOUS
    <3>1. ItemsOf(Baseline) \cap base = {}
      BY <2>1, <1>7
    <3>2. PICK x : content \subseteq base \cup {x}
      BY <1>6
    <3>3. ItemsOf(Baseline) = {<<"kv", Baseline>>, <<"sql", Baseline>>} /\ <<"kv", Baseline>> # <<"sql", Baseline>>
      BY ItemFacts, IdFacts
    <3>4. \E y \in ItemsOf(Baseline) : y # x
      BY <3>3
    <3>. QED BY <3>1, <3>2, <3>4
  <2>3. /\ unsaved \subseteq {Baseline} /\ Stage # "passed"
        /\ Stage \in First => unsaved = {}
    BY <1>3 DEF Course, Savings
  <2>. QED BY <2>2, <2>3, <1>1, <1>2, <1>4 DEF Savings
<1>. QED BY <1>12, <1>13, <1>14, <1>15, <1>16, <1>17, <1>18 DEF Course

\* A transaction is executed as a whole, and only before a process has ended.
LEMMA ExecuteKeeps ==
  ASSUME Typing, AlarmOnce, Course, verdict # "failed", Execute
  PROVE  Course'
<1>1. PICK i \in flying :
        /\ process = "up" /\ active
        /\ disk' = disk \cup ItemsOf(i) /\ flying' = flying \ {i}
        /\ clock' = IF i = Alarm THEN "ahead" ELSE clock
  BY DEF Execute
<1>2. UNCHANGED <<process, generation, active, bucket, store, containerId, case, pc, verdict,
                  outcomes, memory, betrayed, unsaved, ends, alarmRan, dueUp>>
  BY DEF Execute, driver, ghosts
<1>3. Stage' = Stage
  BY <1>2, SameStage
<1>4. /\ i \in Ids /\ outcomes[i] # "none"
      /\ \/ Stage = "fresh" /\ i = Baseline
         \/ Stage = "shown" /\ i = Alarm /\ case \in AlarmCases
         \/ Stage = "dark" /\ case = Outage
         \/ Stage = "recovered" /\ i = Last /\ case = Outage
  BY FlyingFacts
<1>5. i = Alarm => Stage = "shown" /\ clock = "none"
  <2>1. i = Alarm => clock = "none"
    BY DEF AlarmOnce
  <2>2. Stage = "dark" \/ Stage = "recovered" => outcomes[Alarm] = "none"
    <3>1. Stage = "dark" \/ Stage = "recovered" => case = Outage
      BY <1>4, IdFacts DEF Course, KindMatches, Late
    <3>2. (Stage = "dark" \/ Stage = "recovered") => Alarm \notin Asked
      BY <3>1, IdFacts DEF Asked, Simple, Graceful, AlarmCases, Outage
    <3>. QED BY <3>2, IdFacts DEF Course, Requests
  <2>. QED BY <2>1, <2>2, <1>4, IdFacts
<1>6. betrayed = FALSE
  BY <1>4 DEF Course, Betrayals, Typing, TypeOK
<1>7. /\ Whole(disk) /\ Whole(bucket) /\ Unheard(disk) /\ Unheard(bucket)
      /\ case = Outage => bucket \subseteq disk
  BY <1>6 DEF Course, Contents
<1>8. /\ Whole(disk)' <=> Whole(disk \cup ItemsOf(i))
      /\ Unheard(disk)' <=> Unheard(disk \cup ItemsOf(i))
      /\ Whole(bucket)' <=> Whole(bucket)
      /\ Unheard(bucket)' <=> Unheard(bucket)
      /\ Whole(memory.recovered)' <=> Whole(memory.recovered)
  BY <1>1, <1>2 DEF Whole, Unheard
<1>9. Whole(disk \cup ItemsOf(i)) /\ Unheard(disk \cup ItemsOf(i))
  <2>1. \A j \in Ids : j # i => ItemsOf(j) \cap ItemsOf(i) = {}
    BY <1>4, ItemFacts
  <2>. QED BY <2>1, <1>4, <1>7 DEF Whole, Unheard
<1>10. KindMatches' /\ Upright' /\ EndsMatch' /\ Activations'
  BY <1>1, <1>2, <1>3 DEF Course, KindMatches, Upright, EndsMatch, FirstEnds, Activations
<1>11. Requests'
  BY <1>1, <1>2, <1>3 DEF Course, Requests, Asked, Step, Program
<1>12. Deadlines'
  <2>1. Fired \notin ItemsOf(i)
    BY <1>4, ItemFacts
  <2>. QED BY <2>1, <1>1, <1>2, <1>3, <1>4, <1>5 DEF Course, Deadlines
<1>13. Betrayals'
  BY <1>2, <1>3, <1>4, <1>6 DEF Betrayals
<1>14. Contents'
  BY <1>1, <1>2, <1>3, <1>4, <1>7, <1>8, <1>9 DEF Course, Contents, Late, Again
<1>15. Savings'
  <2>1. case = "diskLoss" => unsaved = {} /\ Stage # "restarted" /\ Stage # "passed"
    BY <1>4 DEF Course, Savings, First, Outage
  <2>. QED BY <2>1, <1>2, <1>3 DEF Savings
<1>. QED BY <1>10, <1>11, <1>12, <1>13, <1>14, <1>15 DEF Course

\* The store takes over what the disk holds.
LEMMA CommitKeeps ==
  ASSUME Typing, AlarmOnce, Course, verdict # "failed", Commit
  PROVE  Course'
<1>1. /\ process = "up" /\ active = TRUE /\ bucket' = disk
      /\ UNCHANGED <<process, generation, active, flying, disk, store, containerId, clock,
                     case, pc, verdict, outcomes, memory, betrayed, unsaved, ends, alarmRan, dueUp>>
  BY DEF Commit, driver, ghosts, Typing, TypeOK
<1>2. Stage' = Stage
  BY <1>1, SameStage
<1>3. /\ Whole(disk)' <=> Whole(disk)
      /\ Whole(bucket)' <=> Whole(disk)
      /\ Unheard(disk)' <=> Unheard(disk)
      /\ Unheard(bucket)' <=> Unheard(disk)
      /\ Whole(memory.recovered)' <=> Whole(memory.recovered)
      /\ Keeps(disk)' <=> Keeps(disk)
  BY <1>1 DEF Whole, Unheard, Keeps, Acked
<1>4. KindMatches' /\ Upright' /\ EndsMatch' /\ Activations'
  BY <1>1, <1>2 DEF Course, KindMatches, Upright, EndsMatch, FirstEnds, Activations
<1>5. Requests'
  BY <1>1, <1>2 DEF Course, Requests, Asked, Step, Program
<1>6. Deadlines'
  BY <1>1, <1>2 DEF Course, Deadlines
<1>7. Betrayals'
  BY <1>1, <1>2, <1>3 DEF Course, Betrayals
<1>8. Contents'
  BY <1>1, <1>2, <1>3 DEF Course, Contents
<1>9. Savings'
  BY <1>1, <1>2 DEF Course, Savings
<1>. QED BY <1>4, <1>5, <1>6, <1>7, <1>8, <1>9 DEF Course

\* The alarm's handler runs: its mark takes the place of the alarm.
LEMMA RunAlarmKeeps ==
  ASSUME Typing, AlarmOnce, Course, verdict # "failed", RunAlarm
  PROVE  Course'
<1>1. /\ process = "up" /\ active = TRUE /\ clock = "past" /\ Armed \in disk
      /\ disk' = (disk \ {Armed}) \cup {Fired} /\ alarmRan' = generation
      /\ UNCHANGED <<process, generation, active, flying, bucket, store, containerId, clock,
                     case, pc, verdict, outcomes, memory, betrayed, unsaved, ends, dueUp>>
  BY DEF RunAlarm, driver, Typing, TypeOK
<1>2. Stage' = Stage
  BY <1>1, SameStage
<1>3. outcomes[Alarm] # "none" /\ case \in AlarmCases
  <2>1. outcomes[Alarm] # "none"
    BY <1>1 DEF AlarmOnce
  <2>2. Alarm \in Asked
    BY <2>1, IdFacts DEF Course, Requests
  <2>3. Alarm \notin {Baseline} /\ Alarm \notin 1..Last /\ Alarm \notin 1..(Uncertain + 1)
    BY IdFacts
  <2>4. case \in AlarmCases
    BY <2>2, <2>3 DEF Asked
  <2>. QED BY <2>1, <2>4
<1>4. Stage \notin Late /\ case # Outage /\ Stage # "dark"
  BY <1>3 DEF Course, KindMatches, AlarmCases, Outage
<1>5. \A j \in Ids \ {Alarm} : ItemsOf(j) \cap {Armed, Fired} = {}
  <2>1. \A j \in Ids \ {Alarm} : ItemsOf(j) \cap ItemsOf(Alarm) = {}
    BY IdFacts, ItemFacts
  <2>. QED BY <2>1, ItemFacts
<1>. DEFINE e == (disk \ {Armed}) \cup {Fired}
<1>6. Whole(disk) => Whole(e)
  BY <1>5, ItemFacts DEF Whole
<1>7. Whole(e) => Whole(disk)
  BY <1>1, <1>5, ItemFacts DEF Whole
<1>8. Unheard(disk) <=> Unheard(e)
  BY <1>3, <1>5 DEF Unheard
<1>9. memory.recovered = {} => (Keeps(disk) <=> Keeps(e))
  <2>1. \A j \in Acked \ {Alarm} : ItemsOf(j) \subseteq disk <=> ItemsOf(j) \subseteq e
    BY <1>5 DEF Acked
  <2>. QED BY <2>1, <1>1, <1>6, <1>7, <1>8, KeepsMeans
<1>10. /\ Whole(disk)' <=> Whole(e)
       /\ Whole(bucket)' <=> Whole(bucket)
       /\ Unheard(disk)' <=> Unheard(e)
       /\ Unheard(bucket)' <=> Unheard(bucket)
       /\ Keeps(disk)' <=> Keeps(e)
  BY <1>1 DEF Whole, Unheard, Keeps, Acked
<1>11. ItemsOf(Baseline) \subseteq disk <=> ItemsOf(Baseline) \subseteq disk'
  BY <1>1, <1>5, IdFacts
<1>12. KindMatches' /\ Upright' /\ EndsMatch' /\ Activations'
  BY <1>1, <1>2 DEF Course, KindMatches, Upright, EndsMatch, FirstEnds, Activations
<1>13. Requests'
  BY <1>1, <1>2 DEF Course, Requests, Asked, Step, Program
<1>14. Deadlines'
  <2>1. generation = Len(ends) + 1
    BY <1>1 DEF Course, Activations
  <2>2. Stage = "restarted" \/ Stage = "passed" => Len(ends) = 1
    <3>1. Stage = "restarted" \/ Stage = "passed" => ends \in FirstEnds
      BY <1>4 DEF Course, EndsMatch, Second
    <3>2. \A e1 \in FirstEnds : Len(e1) = 1
      BY DEF FirstEnds
    <3>. QED BY <3>1, <3>2
  <2>3. generation # 0
    <3>1. generation \in Nat /\ Stage \in First \cup {"restarted", "passed"}
      BY <1>1, <1>4 DEF Course, Typing, TypeOK, KindMatches, Upright, Stages, Second, Down, Late, First
    <3>2. Stage \in First => Len(ends) = 0
      BY DEF Course, EndsMatch
    <3>. QED BY <3>1, <3>2, <2>1, <2>2
  <2>4. Stage \notin {"timely", "overdue", "removed", "created"}
    BY <1>1 DEF Course, Upright
  <2>5. Stage \in {"restarted", "passed"} => alarmRan' = 2 /\ ~dueUp
    <3>1. Stage \in {"restarted", "passed"} => alarmRan' = 2
      <4>1. Len(ends) = 1 => generation = 2
        BY ONLY <2>1
      <4>2. alarmRan' = generation
        BY <1>1
      <4>. QED BY <4>1, <4>2, <2>2
    <3>2. Stage \in {"restarted", "passed"} => ~dueUp
      BY <1>3 DEF Course, Deadlines
    <3>. QED BY <3>1, <3>2
  <2>. QED BY <2>3, <2>4, <2>5, <1>1, <1>2 DEF Deadlines
<1>15. Betrayals'
  <2>1. Stage \in {"restarted", "restartedAgain"} => memory.recovered = {}
    BY <1>4 DEF Course, Contents
  <2>. QED BY <2>1, <1>1, <1>2, <1>9, <1>10 DEF Course, Betrayals
<1>16. Contents'
  <2>1. /\ ~betrayed => Whole(e) /\ Whole(bucket) /\ Unheard(e) /\ Unheard(bucket)
        /\ Stage \notin Late \cup {"passed"} => memory.recovered = {}
        /\ Stage \notin {"removed", "created"}
        /\ Stage = "fresh" /\ outcomes[Baseline] # "none" => Baseline \in flying \/ ItemsOf(Baseline) \subseteq disk
        /\ Stage = "seeded" => ItemsOf(Baseline) \subseteq disk
    BY <1>1, <1>6, <1>8 DEF Course, Contents, Upright
  <2>. QED BY <2>1, <1>1, <1>2, <1>4, <1>10, <1>11 DEF Contents
<1>17. Savings'
  BY <1>1, <1>2, <1>11 DEF Course, Savings
<1>. QED BY <1>12, <1>13, <1>14, <1>15, <1>16, <1>17 DEF Course

\* The alarm becomes due: after the kill that is no longer on a live process.
LEMMA DeadlineKeeps ==
  ASSUME Typing, AlarmOnce, Course, verdict # "failed", DeadlinePasses
  PROVE  Course'
<1>1. /\ clock = "ahead" /\ clock' = "past" /\ dueUp' = (process = "up")
      /\ UNCHANGED <<process, generation, active, flying, disk, bucket, store, containerId,
                     case, pc, verdict, outcomes, memory, betrayed, unsaved, ends, alarmRan>>
  BY DEF DeadlinePasses, celld, driver
<1>2. Stage' = Stage
  BY <1>1, SameStage
<1>3. /\ Whole(disk)' <=> Whole(disk)
      /\ Whole(bucket)' <=> Whole(bucket)
      /\ Unheard(disk)' <=> Unheard(disk)
      /\ Unheard(bucket)' <=> Unheard(bucket)
      /\ Whole(memory.recovered)' <=> Whole(memory.recovered)
      /\ Keeps(disk)' <=> Keeps(disk)
  BY <1>1 DEF Whole, Unheard, Keeps, Acked
<1>4. KindMatches' /\ Upright' /\ EndsMatch' /\ Activations'
  BY <1>1, <1>2 DEF Course, KindMatches, Upright, EndsMatch, FirstEnds, Activations
<1>5. Requests'
  BY <1>1, <1>2 DEF Course, Requests, Asked, Step, Program
<1>6. Deadlines'
  <2>1. Stage = "timely" => dueUp' = FALSE
    BY <1>1 DEF Course, Upright
  <2>. QED BY <2>1, <1>1, <1>2 DEF Course, Deadlines
<1>7. Betrayals'
  BY <1>1, <1>2, <1>3 DEF Course, Betrayals
<1>8. Contents'
  BY <1>1, <1>2, <1>3 DEF Course, Contents
<1>9. Savings'
  BY <1>1, <1>2 DEF Course, Savings
<1>. QED BY <1>4, <1>5, <1>6, <1>7, <1>8, <1>9 DEF Course

\* The node fences itself, which it does only while the store is down.
LEMMA FenceKeeps ==
  ASSUME Typing, AlarmOnce, Course, verdict # "failed", Fence
  PROVE  Course'
<1>1. /\ process = "up" /\ store.up = FALSE
      /\ process' = "exit3" /\ active' = FALSE /\ flying' = {} /\ ends' = Append(ends, "exit3")
      /\ UNCHANGED <<generation, disk, bucket, store, containerId, clock,
                     case, pc, verdict, outcomes, memory, betrayed, alarmRan, dueUp>>
  BY DEF Fence, Ends, driver, Typing, TypeOK
<1>2. Stage' = Stage
  BY <1>1, SameStage
<1>3. Stage = "dark" /\ case = Outage
  BY <1>1 DEF Course, Upright, KindMatches
<1>4. ends = <<>> /\ ends' = <<"exit3">>
  <2>1. ends = <<>>
    BY <1>1, <1>3 DEF Course, EndsMatch
  <2>. QED BY <2>1, <1>1
<1>5. /\ Whole(disk)' <=> Whole(disk)
      /\ Whole(bucket)' <=> Whole(bucket)
      /\ Unheard(disk)' <=> Unheard(disk)
      /\ Unheard(bucket)' <=> Unheard(bucket)
  BY <1>1 DEF Whole, Unheard
<1>6. KindMatches' /\ Upright'
  BY <1>1, <1>2, <1>3 DEF Course, KindMatches, Upright, First, Second
<1>7. EndsMatch'
  BY <1>1, <1>2, <1>3, <1>4 DEF EndsMatch, First, Down, Second, Again
<1>8. Activations'
  <2>1. active /\ generation = 1
    BY <1>1, <1>3, <1>4 DEF Course, Activations
  <2>. QED BY <2>1, <1>1, <1>2, <1>3, <1>4 DEF Course, Activations
<1>9. Requests'
  BY <1>1, <1>2 DEF Course, Requests, Asked, Step, Program
<1>10. Deadlines'
  BY <1>1, <1>2, <1>3 DEF Course, Deadlines, AlarmCases, Outage
<1>11. Betrayals'
  BY <1>1, <1>2, <1>3 DEF Course, Betrayals
<1>12. Contents'
  BY <1>1, <1>2, <1>3, <1>5 DEF Course, Contents, Late, Again
<1>13. Savings'
  BY <1>1, <1>3 DEF Savings, Outage
<1>. QED BY <1>6, <1>7, <1>8, <1>9, <1>10, <1>11, <1>12, <1>13 DEF Course

-----------------------------------------------------------------------------
(* The steps of the driver.                                                *)

\* What a predicate on contents says does not change while the outcomes stay.
LEMMA SameContents ==
  ASSUME UNCHANGED <<disk, bucket, outcomes, memory>>
  PROVE  /\ Whole(disk)' <=> Whole(disk)
         /\ Whole(bucket)' <=> Whole(bucket)
         /\ Unheard(disk)' <=> Unheard(disk)
         /\ Unheard(bucket)' <=> Unheard(bucket)
         /\ Whole(memory.recovered)' <=> Whole(memory.recovered)
         /\ Keeps(disk)' <=> Keeps(disk)
BY DEF Whole, Unheard, Keeps, Acked

\* A look that leaves the case in its stage.
LEMMA StayKeeps ==
  ASSUME Course, UNCHANGED <<celld, clock, case, outcomes, memory, ghosts>>,
         Stage' = Stage, \A i \in Ids : outcomes[i] # "sent"
  PROVE  Course'
<1>1. UNCHANGED <<process, generation, active, flying, disk, bucket, store, containerId, clock,
                  case, outcomes, memory, betrayed, unsaved, ends, alarmRan, dueUp>>
  BY DEF celld, ghosts
<1>2. KindMatches' /\ Upright' /\ EndsMatch' /\ Activations'
  BY <1>1 DEF Course, KindMatches, Upright, EndsMatch, FirstEnds, Activations
<1>3. Requests'
  BY <1>1 DEF Course, Requests, Asked
<1>4. Deadlines'
  BY <1>1 DEF Course, Deadlines
<1>5. Betrayals'
  BY <1>1, SameContents DEF Course, Betrayals
<1>6. Contents'
  BY <1>1, SameContents DEF Course, Contents
<1>7. Savings'
  BY <1>1 DEF Course, Savings
<1>. QED BY <1>2, <1>3, <1>4, <1>5, <1>6, <1>7 DEF Course

\* A look that takes a stopped process from one stage to the next.
LEMMA DownKeeps ==
  ASSUME Typing, Course, UNCHANGED <<celld, clock, case, outcomes, memory, ghosts>>,
         \A i \in Ids : outcomes[i] # "sent",
         \/ /\ Stage = "ending" /\ Stage' = "ended" /\ case # Outage
            /\ process = IF case \in Graceful THEN "exit0" ELSE "exit137"
         \/ Stage = "struck" /\ Stage' = "downed" /\ case = Outage
         \/ Stage = "endingAgain" /\ Stage' = "endedAgain" /\ case = Outage
         \/ Stage = "ended" /\ Stage' = "timely" /\ case \in AlarmCases /\ clock # "past"
         \/ Stage = "timely" /\ Stage' = "overdue" /\ case \in AlarmCases /\ clock # "ahead"
  PROVE  Course'
<1>1. UNCHANGED <<process, generation, active, flying, disk, bucket, store, containerId, clock,
                  case, outcomes, memory, betrayed, unsaved, ends, alarmRan, dueUp>>
  BY DEF celld, ghosts
<1>2. KindMatches' /\ Upright'
  BY <1>1 DEF Course, KindMatches, Upright, Stages, First, Second, Down, Late, Again, AlarmCases,
       Graceful, Outage
<1>3. EndsMatch'
  BY <1>1 DEF Course, EndsMatch, First, Second, Down, Again, FirstEnds
<1>4. Activations'
  BY <1>1 DEF Course, Activations, First
<1>5. Requests'
  <2>1. Asked' = Asked
    BY <1>1 DEF Asked, Late, Again, Simple, AlarmCases, Graceful, Outage
  <2>. QED BY <2>1, <1>1 DEF Course, Requests, Late, Again, AlarmCases, Outage
<1>6. Deadlines'
  BY <1>1 DEF Course, Deadlines, Typing, TypeOK, AlarmCases, Outage
<1>7. Betrayals'
  BY <1>1 DEF Course, Betrayals
<1>8. Contents'
  BY <1>1, SameContents DEF Course, Contents, Late, Again
<1>9. Savings'
  BY <1>1 DEF Course, Savings, First
<1>. QED BY <1>2, <1>3, <1>4, <1>5, <1>6, <1>7, <1>8, <1>9 DEF Course

\* A look that does not fail.
LEMMA LookKeeps ==
  ASSUME Typing, Course, Look, verdict' # "failed"
  PROVE  Course'
<1>1. UNCHANGED <<celld, clock, case, outcomes, memory, ghosts>>
  BY DEF Look
<1>2. PICK op \in {"mustRun", "exit0", "exit137", "minioDown", "minioUp", "lapse", "ready",
                   "notDue", "owned", "replaced", "empty", "sameMinio"} :
        /\ At(op) /\ Advance
        /\ op = "exit0" => process = "exit0"
        /\ op = "exit137" => process = "exit137"
        /\ op = "notDue" => clock # "past"
        /\ op = "lapse" => clock # "ahead"
  BY DEF Look, Expect, Fail
<1>3. /\ <<op, Stage, NextStage>> \in Moves(case)
      /\ case \in Simple \cup AlarmCases \cup {Outage}
  BY <1>2, AtStep
<1>4. Stage' = NextStage
  BY <1>1, <1>2, NextStageIs DEF Advance
<1>5. \A i \in Ids : outcomes[i] # "sent"
  BY <1>2, NothingSent DEF Course
<1>6. CASE op \in {"mustRun", "minioDown", "minioUp", "ready", "owned", "replaced", "empty", "sameMinio"}
  <2>1. NextStage = Stage
    BY <1>3, <1>6, MovesMean
  <2>. QED BY <2>1, <1>1, <1>4, <1>5, StayKeeps
<1>7. CASE op = "exit0"
  <2>1. Stage = "ending" /\ NextStage = "ended" /\ case \in Graceful
    BY <1>3, <1>7, MovesMean
  <2>2. case # Outage
    BY <2>1 DEF Graceful, Outage
  <2>. QED BY <2>1, <2>2, <1>1, <1>2, <1>4, <1>5, <1>7, DownKeeps
<1>8. CASE op = "exit137"
  <2>1. \/ Stage = "ending" /\ NextStage = "ended" /\ case \in AlarmCases \cup {"crash"}
        \/ Stage = "struck" /\ NextStage = "downed" /\ case = Outage
        \/ Stage = "endingAgain" /\ NextStage = "endedAgain" /\ case = Outage
    BY <1>3, <1>8, MovesMean
  <2>2. case \in AlarmCases \cup {"crash"} => case # Outage /\ case \notin Graceful
    BY DEF Graceful, Outage, AlarmCases
  <2>. QED BY <2>1, <2>2, <1>1, <1>2, <1>4, <1>5, <1>8, DownKeeps
<1>9. CASE op = "notDue"
  <2>1. Stage = "ended" /\ NextStage = "timely" /\ case \in AlarmCases
    BY <1>3, <1>9, MovesMean
  <2>. QED BY <2>1, <1>1, <1>2, <1>4, <1>5, <1>9, DownKeeps
<1>10. CASE op = "lapse"
  <2>1. \/ Stage = "timely" /\ NextStage = "overdue" /\ case \in AlarmCases
        \/ NextStage = Stage
    BY <1>3, <1>10, MovesMean
  <2>. QED BY <2>1, <1>1, <1>2, <1>4, <1>5, <1>10, DownKeeps, StayKeeps
<1>. QED BY <1>2, <1>6, <1>7, <1>8, <1>9, <1>10

\* prepareRestart's look at the node, which may have fenced itself (Local.ts 428-442).
LEMMA SurvivorKeeps ==
  ASSUME Typing, Course, Survivor, verdict' # "failed"
  PROVE  Course'
<1>1. At("survivor") /\ UNCHANGED <<celld, clock, case, outcomes, memory, ghosts>>
  BY DEF Survivor
<1>2. <<"survivor", Stage, NextStage>> \in Moves(case) /\ case \in Simple \cup AlarmCases \cup {Outage}
  BY <1>1, AtStep
<1>3. Stage = "dark" /\ NextStage = "dark" /\ case = Outage
  BY <1>2, MovesMean
<1>4. \A i \in Ids : outcomes[i] # "sent"
  BY <1>1, NothingSent DEF Course
<1>5. CASE process = "up"
  <2>1. Stage' = Stage
    BY <1>1, <1>3, <1>5, NextStageIs DEF Survivor, Advance
  <2>. QED BY <2>1, <1>1, <1>4, StayKeeps
<1>6. CASE process # "up"
  <2>1. process = "exit3" /\ pc' = pc + 3
    BY <1>6 DEF Survivor, Fail
  <2>2. Stage' = "downed"
    <3>1. pc <= Len(Program) /\ Step.op = "survivor"
      BY <1>1 DEF At
    <3>2. StagesOf(case)[pc + 3] = "downed"
      BY <3>1, StageFacts
    <3>. QED BY <3>2, <2>1, <1>1 DEF Stage
  <2>3. UNCHANGED <<process, generation, active, flying, disk, bucket, store, containerId, clock,
                    case, outcomes, memory, betrayed, unsaved, ends, alarmRan, dueUp>>
    BY <1>1 DEF celld, ghosts
  <2>4. flying = {}
    BY <1>6 DEF Typing, TypeOK
  <2>5. KindMatches' /\ Upright'
    BY <2>1, <2>2, <2>3, <1>3 DEF Course, KindMatches, Upright, Stages, First, Second, Down, Late, Again
  <2>6. EndsMatch' /\ Activations'
    BY <2>1, <2>2, <2>3, <1>3 DEF Course, EndsMatch, Activations, First, Second, Down, Again
  <2>7. Requests'
    <3>1. Asked' = Asked
      BY <2>2, <2>3, <1>3 DEF Asked, Late, Again
    <3>. QED BY <3>1, <2>2, <2>3, <2>4, <1>3, <1>4 DEF Course, Requests, Late, Again, AlarmCases, Outage
  <2>8. Deadlines'
    BY <2>2, <2>3, <1>3 DEF Course, Deadlines, AlarmCases, Outage
  <2>9. Betrayals'
    BY <2>2, <2>3, <1>3 DEF Course, Betrayals
  <2>10. Contents'
    BY <2>2, <2>3, <1>3, SameContents DEF Course, Contents, Late, Again
  <2>11. Savings'
    BY <2>3, <1>3 DEF Savings, Outage
  <2>. QED BY <2>5, <2>6, <2>7, <2>8, <2>9, <2>10, <2>11 DEF Course
<1>. QED BY <1>5, <1>6

\* Two ends, one behind the other.
LEMMA AppendToOne == ASSUME NEW x, NEW y PROVE Append(<<x>>, y) = <<x, y>>
<1>. DEFINE s == <<x>>
            t == <<x, y>>
<1>1. PICK S : S = {x, y}
  OBVIOUS
<1>2. s \in Seq(S) /\ y \in S /\ Len(s) = 1 /\ s[1] = x
  BY <1>1
<1>3. t \in Seq(S) /\ Len(t) = 2 /\ t[1] = x /\ t[2] = y
  <2>1. t \in Seq({x, y}) /\ Len(t) = 2 /\ t[1] = x /\ t[2] = y
    OBVIOUS
  <2>. QED BY <2>1, <1>1
<1>. HIDE DEF s, t
<1>4. /\ Append(s, y) \in Seq(S)
      /\ Len(Append(s, y)) = Len(s) + 1
      /\ \A i \in 1..Len(s) : Append(s, y)[i] = s[i]
      /\ Append(s, y)[Len(s) + 1] = y
  BY ONLY <1>2, AppendProperties, ZenonT(60)
<1>5. Len(s) + 1 = 2 /\ 1 \in 1..Len(s)
  BY <1>2
<1>6. Len(Append(s, y)) = Len(t) /\ \A i \in 1..Len(t) : Append(s, y)[i] = t[i]
  BY <1>2, <1>3, <1>4, <1>5
<1>7. Append(s, y) = t
  BY <1>3, <1>4, <1>6, SeqEqual
<1>. QED BY <1>7 DEF s, t

\* The process ends under the driver's hand: what it leaves on the disk and in the
\* store is whole.
LEMMA EndKeeps ==
  ASSUME Typing, Course, NEW how, Ends(how), process = "up", bucket' = bucket \/ bucket' = disk,
         UNCHANGED <<generation, disk, store, containerId, clock, case, outcomes, memory,
                     betrayed, alarmRan, dueUp>>,
         \A i \in Ids : outcomes[i] # "sent",
         how = "exit137" \/ (how = "exit0" /\ case \in Graceful),
         \/ Stage = "shown" /\ Stage' = "ending" /\ case \in Simple
         \/ Stage = "armed" /\ Stage' = "ending" /\ case \in AlarmCases
         \/ Stage = "dark" /\ Stage' = "struck" /\ case = Outage
         \/ Stage = "renewed" /\ Stage' = "endingAgain" /\ case = Outage
  PROVE  Course'
<1>1. /\ process' = how /\ active' = FALSE /\ flying' = {} /\ ends' = Append(ends, how)
      /\ unsaved' = unsaved \cup {i \in Acked \ {Alarm} : ~(ItemsOf(i) \subseteq bucket')}
  BY DEF Ends
<1>2. case \in AlarmCases \cup {Outage} => case \notin Graceful
  BY DEF AlarmCases, Graceful, Outage
<1>3. case \in Simple => case # Outage /\ case \notin AlarmCases
  BY DEF Simple, AlarmCases, Graceful, Outage
<1>4. case \in AlarmCases => case # Outage
  BY DEF AlarmCases, Outage
<1>5. /\ Stage # "renewed" => ends = <<>> /\ ends' = <<how>>
      /\ Stage = "renewed" => ends \in {<<"exit3">>, <<"exit137">>} /\ ends' \in BothEnds
  <2>1. Stage # "renewed" => ends = <<>>
    BY DEF Course, EndsMatch, First
  <2>2. Stage = "renewed" => ends \in {<<"exit3">>, <<"exit137">>}
    <3>1. case = Outage => FirstEnds = {<<"exit3">>, <<"exit137">>}
      BY <1>2 DEF FirstEnds
    <3>. QED BY <3>1, <1>3, <1>4 DEF Course, EndsMatch, Second
  <2>3. Append(<<>>, how) = <<how>>
    OBVIOUS
  <2>4. /\ Append(<<"exit3">>, "exit137") = <<"exit3", "exit137">>
        /\ Append(<<"exit137">>, "exit137") = <<"exit137", "exit137">>
    BY AppendToOne
  <2>5. Stage = "renewed" => how = "exit137"
    BY <1>2
  <2>. QED BY <2>1, <2>2, <2>3, <2>4, <2>5, <1>1 DEF BothEnds
<1>6. Len(ends') = Len(ends) + 1
  <2>1. Len(<<>>) = 0 /\ Len(<<how>>) = 1
    OBVIOUS
  <2>2. \A e \in {<<"exit3">>, <<"exit137">>} : Len(e) = 1
    OBVIOUS
  <2>3. \A e \in BothEnds : Len(e) = 2
    BY DEF BothEnds
  <2>4. CASE Stage = "renewed"
    <3>1. Len(ends') = 2 /\ Len(ends) = 1
      BY <2>2, <2>3, <2>4, <1>5
    <3>. QED BY <3>1
  <2>5. CASE Stage # "renewed"
    <3>1. Len(ends') = 1 /\ Len(ends) = 0
      BY <2>1, <2>5, <1>5
    <3>. QED BY <3>1
  <2>. QED BY <2>4, <2>5
<1>7. active = TRUE
  <2>1. Stage \in {"shown", "armed", "dark", "renewed"}
    OBVIOUS
  <2>. QED BY <2>1 DEF Course, Activations, First, Typing, TypeOK
<1>8. betrayed = FALSE
  BY DEF Course, Betrayals, Typing, TypeOK
<1>9. /\ Whole(disk) /\ Whole(bucket) /\ Unheard(disk) /\ Unheard(bucket)
      /\ case = Outage => bucket \subseteq disk
  BY <1>8 DEF Course, Contents
<1>10. /\ Whole(disk)' <=> Whole(disk)
       /\ Whole(bucket)' <=> Whole(bucket')
       /\ Unheard(disk)' <=> Unheard(disk)
       /\ Unheard(bucket)' <=> Unheard(bucket')
       /\ Whole(memory.recovered)' <=> Whole(memory.recovered)
  BY DEF Whole, Unheard
<1>11. KindMatches' /\ Upright'
  BY <1>1, <1>2, <1>3, <1>4 DEF Course, KindMatches, Upright, Stages, First, Second, Down, Late, Again
<1>12. EndsMatch'
  BY <1>1, <1>5 DEF EndsMatch, First, Second, Down, Again
<1>13. Activations'
  BY <1>1, <1>6, <1>7 DEF Course, Activations, Typing, TypeOK
<1>14. Requests'
  <2>1. Asked' = Asked
    BY <1>3, <1>4 DEF Asked, Late, Again
  <2>. QED BY <2>1, <1>1, <1>3, <1>4 DEF Course, Requests, Late, Again
<1>15. Deadlines'
  BY <1>1, <1>3, <1>4 DEF Course, Deadlines
<1>16. Betrayals'
  BY <1>1, <1>8 DEF Betrayals
<1>17. Contents'
  <2>1. Whole(bucket') /\ Unheard(bucket') /\ (case = Outage => bucket' \subseteq disk)
    BY <1>9
  <2>. QED BY <2>1, <1>9, <1>10 DEF Course, Contents, Late, Again
<1>18. Savings'
  <2>. SUFFICES ASSUME case = "diskLoss" PROVE Savings'
    BY DEF Savings
  <2>1. case \in AlarmCases /\ Stage = "armed"
    BY DEF AlarmCases, Simple, Graceful, Outage
  <2>2. unsaved = {}
    BY <2>1 DEF Course, Savings, First
  <2>3. Acked \ {Alarm} \subseteq {Baseline}
    <3>1. \A i \in Ids \ {Baseline, Alarm} : outcomes[i] = "none"
      BY <2>1, <1>3 DEF Course, Requests, Asked
    <3>. QED BY <3>1 DEF Acked
  <2>4. unsaved' # {} => ItemsOf(Baseline) \cap bucket' = {}
    <3>1. unsaved' # {} => ~(ItemsOf(Baseline) \subseteq bucket')
      BY <2>2, <2>3, <1>1
    <3>2. Whole(bucket')
      BY <1>9
    <3>. QED BY <3>1, <3>2, IdFacts DEF Whole
  <2>. QED BY <2>1, <2>2, <2>3, <2>4, <1>1 DEF Savings, First
<1>. QED BY <1>11, <1>12, <1>13, <1>14, <1>15, <1>16, <1>17, <1>18 DEF Course

\* The process is asked to stop (Local.ts 490-520).
LEMMA DockerStopKeeps ==
  ASSUME Typing, Course, DockerStop
  PROVE  Course'
<1>1. /\ At("stop") /\ Advance
      /\ UNCHANGED <<generation, disk, store, containerId, clock, case, outcomes, memory,
                     betrayed, alarmRan, dueUp>>
  BY DEF DockerStop
<1>2. Stage = "shown" /\ NextStage = "ending" /\ case \in Graceful
  <2>1. /\ <<"stop", Stage, NextStage>> \in Moves(case)
        /\ case \in Simple \cup AlarmCases \cup {Outage}
    BY <1>1, AtStep
  <2>. QED BY <2>1, MovesMean
<1>3. Stage' = "ending"
  BY <1>1, <1>2, NextStageIs DEF Advance
<1>4. process = "up"
  BY <1>2 DEF Course, Upright, First
<1>5. PICK how \in {"exit0", "exit137"} : Ends(how) /\ (bucket' = bucket \/ bucket' = disk)
  BY <1>4 DEF DockerStop
<1>6. \A i \in Ids : outcomes[i] # "sent"
  BY <1>1, NothingSent DEF Course
<1>. QED BY <1>1, <1>2, <1>3, <1>4, <1>5, <1>6, EndKeeps DEF Simple

\* The process is killed, unless it has fenced itself (Local.ts 426-453, 490-520).
LEMMA DockerKillKeeps ==
  ASSUME Typing, Course, DockerKill
  PROVE  Course'
<1>1. /\ At("kill") /\ Advance /\ bucket' = bucket
      /\ UNCHANGED <<generation, disk, store, containerId, clock, case, outcomes, memory,
                     betrayed, alarmRan, dueUp>>
  BY DEF DockerKill
<1>2. \/ Stage = "shown" /\ NextStage = "ending" /\ case \in Simple
      \/ Stage = "armed" /\ NextStage = "ending" /\ case \in AlarmCases
      \/ Stage = "dark" /\ NextStage = "struck" /\ case = Outage
      \/ Stage = "renewed" /\ NextStage = "endingAgain" /\ case = Outage
  <2>1. /\ <<"kill", Stage, NextStage>> \in Moves(case)
        /\ case \in Simple \cup AlarmCases \cup {Outage}
    BY <1>1, AtStep
  <2>. QED BY <2>1, MovesMean DEF Simple
<1>3. Stage' = NextStage
  BY <1>1, NextStageIs DEF Advance
<1>4. \A i \in Ids : outcomes[i] # "sent"
  BY <1>1, NothingSent DEF Course
<1>5. CASE process = "up"
  <2>1. Ends("exit137")
    BY <1>5 DEF DockerKill
  <2>. QED BY <2>1, <1>1, <1>2, <1>3, <1>4, <1>5, EndKeeps
<1>6. CASE process # "up"
  <2>1. Stage = "dark" /\ Stage' = "struck" /\ case = Outage /\ process = "exit3"
    BY <1>2, <1>3, <1>6 DEF Course, Upright, First, Second
  <2>2. UNCHANGED <<process, generation, active, flying, disk, bucket, store, containerId, clock,
                    case, outcomes, memory, betrayed, unsaved, ends, alarmRan, dueUp>>
    BY <1>1, <1>6 DEF DockerKill
  <2>3. flying = {}
    BY <1>6 DEF Typing, TypeOK
  <2>4. KindMatches' /\ Upright'
    BY <2>1, <2>2 DEF Course, KindMatches, Upright, Stages, First, Second, Down, Late, Again
  <2>5. EndsMatch' /\ Activations'
    BY <2>1, <2>2 DEF Course, EndsMatch, Activations, First, Second, Down, Again
  <2>6. Requests'
    <3>1. Asked' = Asked
      BY <2>1, <2>2 DEF Asked, Late, Again
    <3>. QED BY <3>1, <2>1, <2>2, <2>3, <1>4 DEF Course, Requests, Late, Again, AlarmCases, Outage
  <2>7. Deadlines'
    BY <2>1, <2>2 DEF Course, Deadlines, AlarmCases, Outage
  <2>8. Betrayals'
    BY <2>1, <2>2 DEF Course, Betrayals
  <2>9. Contents'
    BY <2>1, <2>2, SameContents DEF Course, Contents, Late, Again
  <2>10. Savings'
    BY <2>1, <2>2 DEF Savings, Outage
  <2>. QED BY <2>4, <2>5, <2>6, <2>7, <2>8, <2>9, <2>10 DEF Course
<1>. QED BY <1>5, <1>6

\* The process is started again; its cell is not active before it is asked for.
LEMMA DockerStartKeeps ==
  ASSUME Typing, Course, DockerStart
  PROVE  Course'
<1>1. /\ At("start") /\ Advance /\ process' = "up"
      /\ UNCHANGED <<generation, active, flying, disk, bucket, store, containerId, clock,
                     case, outcomes, memory, betrayed, unsaved, ends, alarmRan, dueUp>>
  BY DEF DockerStart, ghosts
<1>2. \/ Stage = "ended" /\ NextStage = "restarted" /\ case \in Simple
      \/ Stage = "overdue" /\ NextStage = "restarted" /\ case = "overdueAlarm"
      \/ Stage = "created" /\ NextStage = "restarted" /\ case = "diskLoss"
      \/ Stage = "lit" /\ NextStage = "restarted" /\ case = Outage
      \/ Stage = "endedAgain" /\ NextStage = "restartedAgain" /\ case = Outage
  <2>1. /\ <<"start", Stage, NextStage>> \in Moves(case)
        /\ case \in Simple \cup AlarmCases \cup {Outage}
    BY <1>1, AtStep
  <2>. QED BY <2>1, MovesMean
<1>3. Stage' = NextStage
  BY <1>1, NextStageIs DEF Advance
<1>4. \A i \in Ids : outcomes[i] # "sent"
  BY <1>1, NothingSent DEF Course
<1>5. process # "up" /\ active = FALSE /\ flying = {}
  <2>1. process # "up"
    BY <1>2 DEF Course, Upright
  <2>. QED BY <2>1 DEF Typing, TypeOK
<1>6. /\ case \in Simple => case \notin AlarmCases /\ case # Outage /\ case # "diskLoss"
      /\ "overdueAlarm" \in AlarmCases /\ "diskLoss" \in AlarmCases
      /\ Outage \notin AlarmCases /\ "overdueAlarm" # Outage /\ "diskLoss" # Outage
      /\ "overdueAlarm" \notin Graceful /\ "diskLoss" \notin Graceful /\ Outage \notin Graceful
  BY DEF Simple, Graceful, AlarmCases, Outage
<1>7. betrayed = FALSE
  BY <1>2 DEF Course, Betrayals, Typing, TypeOK
<1>8. KindMatches' /\ Upright'
  BY <1>1, <1>2, <1>3 DEF Course, KindMatches, Upright, Stages, First, Second, Down, Late, Again
<1>9. EndsMatch'
  BY <1>1, <1>2, <1>3, <1>6 DEF Course, EndsMatch, Upright, First, Second, Down, Again, FirstEnds
<1>10. Activations'
  BY <1>1, <1>2, <1>3, <1>5 DEF Course, Activations, First
<1>11. Requests'
  <2>1. Asked' = Asked
    BY <1>1, <1>2, <1>3, <1>6 DEF Asked, Late, Again
  <2>. QED BY <2>1, <1>1, <1>2, <1>3, <1>4, <1>5, <1>6 DEF Course, Requests, Late, Again
<1>12. Deadlines'
  BY <1>1, <1>2, <1>3, <1>6 DEF Course, Deadlines
<1>13. Betrayals'
  BY <1>1, <1>5, <1>7 DEF Betrayals
<1>14. Contents'
  BY <1>1, <1>2, <1>3, SameContents DEF Course, Contents, Late, Again
<1>15. Savings'
  BY <1>1, <1>2, <1>3, <1>5, <1>6 DEF Course, Savings, Contents, First
<1>. QED BY <1>8, <1>9, <1>10, <1>11, <1>12, <1>13, <1>14, <1>15 DEF Course

\* The store is stopped and started (Local.ts 374-425).
LEMMA MinioKeeps ==
  ASSUME Typing, Course, Minio
  PROVE  Course'
<1>1. /\ Advance
      /\ UNCHANGED <<process, generation, active, flying, disk, bucket, containerId, clock,
                     case, outcomes, memory, betrayed, unsaved, ends, alarmRan, dueUp>>
  BY DEF Minio, ghosts
<1>2. PICK op \in {"stopMinio", "startMinio"} :
        /\ At(op)
        /\ op = "stopMinio" => ~store'.up
        /\ op = "startMinio" => store'.up
  <2>1. CASE At("stopMinio") /\ store' = [store EXCEPT !.up = FALSE]
    <3>1. ~store'.up
      BY <2>1 DEF Typing
    <3>. QED BY <2>1, <3>1
  <2>2. CASE At("startMinio") /\ store' = [up |-> TRUE, starts |-> store.starts + 1]
    <3>1. store'.up
      BY <2>2
    <3>. QED BY <2>2, <3>1
  <2>. QED BY <2>1, <2>2 DEF Minio
<1>3. \/ op = "stopMinio" /\ Stage = "shown" /\ NextStage = "dark" /\ case = Outage
      \/ op = "startMinio" /\ Stage = "downed" /\ NextStage = "lit" /\ case = Outage
  <2>1. <<op, Stage, NextStage>> \in Moves(case) /\ case \in Simple \cup AlarmCases \cup {Outage}
    BY <1>2, AtStep
  <2>. QED BY <2>1, MovesMean
<1>4. Stage' = NextStage
  BY <1>1, NextStageIs DEF Advance
<1>5. \A i \in Ids : outcomes[i] # "sent"
  BY <1>2, NothingSent DEF Course
<1>6. KindMatches' /\ Upright'
  BY <1>1, <1>2, <1>3, <1>4 DEF Course, KindMatches, Upright, Stages, First, Second, Down, Late, Again
<1>7. EndsMatch'
  BY <1>1, <1>3, <1>4 DEF Course, EndsMatch, Upright, First, Second, Down, Again
<1>8. Activations'
  BY <1>1, <1>3, <1>4 DEF Course, Activations, First
<1>9. Requests'
  <2>1. Asked' = Asked
    BY <1>1, <1>3, <1>4 DEF Asked, Late, Again
  <2>. QED BY <2>1, <1>1, <1>3, <1>4, <1>5 DEF Course, Requests, Late, Again, AlarmCases, Outage
<1>10. Deadlines'
  BY <1>1, <1>3 DEF Course, Deadlines, AlarmCases, Outage
<1>11. Betrayals'
  BY <1>1, <1>3, <1>4 DEF Course, Betrayals
<1>12. Contents'
  BY <1>1, <1>3, <1>4, SameContents DEF Course, Contents, Late, Again
<1>13. Savings'
  BY <1>1, <1>3 DEF Savings, Outage
<1>. QED BY <1>6, <1>7, <1>8, <1>9, <1>10, <1>11, <1>12, <1>13 DEF Course

\* The driver notes which store and which container it sees (Local.ts 454-489).
LEMMA ObserveKeeps ==
  ASSUME Typing, Course, Observe
  PROVE  Course'
<1>1. /\ At("seeMinio") /\ Advance
      /\ memory' = [memory EXCEPT !.minio = store.starts, !.container = containerId]
      /\ UNCHANGED <<process, generation, active, flying, disk, bucket, store, containerId, clock,
                     case, outcomes, betrayed, unsaved, ends, alarmRan, dueUp>>
  BY DEF Observe, celld, ghosts
<1>2. Stage = "overdue" /\ NextStage = "overdue" /\ case = "diskLoss"
  <2>1. <<"seeMinio", Stage, NextStage>> \in Moves(case) /\ case \in Simple \cup AlarmCases \cup {Outage}
    BY <1>1, AtStep
  <2>. QED BY <2>1, MovesMean
<1>3. Stage' = "overdue"
  BY <1>1, <1>2, NextStageIs DEF Advance
<1>4. \A i \in Ids : outcomes[i] # "sent"
  BY <1>1, NothingSent DEF Course
<1>5. memory'.seeded = memory.seeded /\ memory'.recovered = memory.recovered
  BY <1>1 DEF Typing
<1>6. /\ Whole(disk)' <=> Whole(disk)
      /\ Whole(bucket)' <=> Whole(bucket)
      /\ Unheard(disk)' <=> Unheard(disk)
      /\ Unheard(bucket)' <=> Unheard(bucket)
  BY <1>1 DEF Whole, Unheard
<1>7. KindMatches' /\ Upright' /\ EndsMatch' /\ Activations'
  BY <1>1, <1>2, <1>3, <1>5 DEF Course, KindMatches, Upright, EndsMatch, FirstEnds, Activations
<1>8. Requests'
  BY <1>1, <1>2, <1>3, <1>4 DEF Course, Requests, Asked
<1>9. Deadlines'
  BY <1>1, <1>2, <1>3 DEF Course, Deadlines
<1>10. Betrayals'
  BY <1>1, <1>2, <1>3 DEF Course, Betrayals
<1>11. Contents'
  BY <1>1, <1>2, <1>3, <1>5, <1>6 DEF Course, Contents, Late, Again
<1>12. Savings'
  BY <1>1, <1>2, <1>3 DEF Course, Savings
<1>. QED BY <1>7, <1>8, <1>9, <1>10, <1>11, <1>12 DEF Course

\* The disk is removed and the container created anew (Local.ts 454-489).
LEMMA ReplaceKeeps ==
  ASSUME Typing, Course, Replace
  PROVE  Course'
<1>1. /\ Advance
      /\ UNCHANGED <<generation, active, flying, bucket, store, clock, case, outcomes, memory,
                     betrayed, unsaved, ends, alarmRan, dueUp>>
  BY DEF Replace, ghosts
<1>2. PICK op \in {"remove", "create"} :
        /\ At(op)
        /\ op = "remove" => disk' = {} /\ process' = process
        /\ op = "create" => process' = "created" /\ disk' = disk
  BY DEF Replace
<1>3. /\ case = "diskLoss"
      /\ \/ op = "remove" /\ Stage = "overdue" /\ NextStage = "removed"
         \/ op = "create" /\ Stage = "removed" /\ NextStage = "created"
  <2>1. <<op, Stage, NextStage>> \in Moves(case) /\ case \in Simple \cup AlarmCases \cup {Outage}
    BY <1>2, AtStep
  <2>. QED BY <2>1, MovesMean
<1>4. Stage' = NextStage
  BY <1>1, NextStageIs DEF Advance
<1>5. \A i \in Ids : outcomes[i] # "sent"
  BY <1>2, NothingSent DEF Course
<1>6. case \in AlarmCases /\ case # Outage /\ case \notin Graceful /\ case \notin Simple
  BY <1>3 DEF AlarmCases, Outage, Simple, Graceful
<1>7. disk' = {}
  BY <1>2, <1>3 DEF Course, Contents
<1>8. /\ Whole(disk)'
      /\ Unheard(disk)'
      /\ Whole(bucket)' <=> Whole(bucket)
      /\ Unheard(bucket)' <=> Unheard(bucket)
  BY <1>1, <1>7 DEF Whole, Unheard
<1>9. KindMatches' /\ Upright'
  BY <1>1, <1>2, <1>3, <1>4, <1>6 DEF Course, KindMatches, Upright, Stages, First, Second, Down, Late, Again
<1>10. EndsMatch'
  BY <1>1, <1>2, <1>3, <1>4, <1>6 DEF Course, EndsMatch, Upright, First, Second, Down, Again, FirstEnds
<1>11. Activations'
  BY <1>1, <1>3, <1>4 DEF Course, Activations, First
<1>12. Requests'
  <2>1. Asked' = Asked
    BY <1>1, <1>3, <1>4, <1>6 DEF Asked
  <2>. QED BY <2>1, <1>1, <1>3, <1>4, <1>5 DEF Course, Requests, Late, Again
<1>13. Deadlines'
  BY <1>1, <1>3, <1>4, <1>7 DEF Course, Deadlines
<1>14. Betrayals'
  BY <1>1, <1>3, <1>4 DEF Course, Betrayals
<1>15. Contents'
  BY <1>1, <1>3, <1>4, <1>6, <1>7, <1>8 DEF Course, Contents, Late, Again
<1>16. Savings'
  <2>1. ~active
    BY <1>3 DEF Course, Upright, Typing, TypeOK
  <2>. QED BY <2>1, <1>1, <1>3, <1>4 DEF Course, Savings, First
<1>. QED BY <1>9, <1>10, <1>11, <1>12, <1>13, <1>14, <1>15, <1>16 DEF Course

\* What the driver waits for, and where.
LEMMA AwaitedFacts ==
  ASSUME Typing, Course, NEW op \in {"write", "try"}, At(op)
  PROVE  /\ Step.id \in Ids
         /\ \/ /\ op = "write" /\ Stage = "fresh" /\ NextStage = "seeded" /\ Step.id = Baseline
            \/ /\ op = "write" /\ Stage = "shown" /\ NextStage = "armed" /\ Step.id = Alarm
               /\ case \in AlarmCases
            \/ /\ op = "write" /\ Stage = "recovered" /\ NextStage = "renewed" /\ Step.id = Last
               /\ case = Outage
            \/ /\ op = "try" /\ Stage = "dark" /\ NextStage = "dark"
               /\ Step.id \in 2..(Uncertain + 1) /\ case = Outage
         /\ Step.id \in Asked
<1>1. /\ <<op, Stage, NextStage>> \in Moves(case) /\ case \in Simple \cup AlarmCases \cup {Outage}
      /\ Step.id \in Ids
      /\ op = "write" => Step.id = IF Stage = "fresh" THEN Baseline
                                   ELSE IF Stage = "shown" THEN Alarm ELSE Last
      /\ op = "try" => Step.id \in 2..(Uncertain + 1)
  BY AtStep
<1>2. /\ op = "write" => \/ Stage = "fresh" /\ NextStage = "seeded"
                         \/ Stage = "shown" /\ NextStage = "armed" /\ case \in AlarmCases
                         \/ Stage = "recovered" /\ NextStage = "renewed" /\ case = Outage
      /\ op = "try" => Stage = "dark" /\ NextStage = "dark" /\ case = Outage
  BY <1>1, MovesMean
<1>3. /\ case \in AlarmCases => case \notin Simple
      /\ case = Outage => case \notin Simple /\ case \notin AlarmCases
  BY DEF Simple, Graceful, AlarmCases, Outage
<1>4. Step.id \in Asked
  BY <1>1, <1>2, <1>3, IdFacts DEF Asked, Late, Again
<1>. QED BY <1>1, <1>2, <1>4

\* A request leaves the driver.
LEMMA SendKeeps ==
  ASSUME Typing, Course, Send
  PROVE  Course'
<1>1. /\ outcomes[Step.id] = "none"
      /\ outcomes' = [outcomes EXCEPT ![Step.id] = "sent"]
      /\ flying' = IF process = "up" THEN flying \cup {Step.id} ELSE flying
      /\ UNCHANGED <<process, generation, active, disk, bucket, store, containerId, clock,
                     case, pc, verdict, memory, betrayed, unsaved, ends, alarmRan, dueUp>>
  BY DEF Send, ghosts
<1>2. PICK op \in {"write", "try"} : At(op)
  BY DEF Send
<1>3. /\ Step.id \in Ids /\ Step.id \in Asked
      /\ \/ Stage = "fresh" /\ Step.id = Baseline
         \/ Stage = "shown" /\ Step.id = Alarm /\ case \in AlarmCases
         \/ Stage = "recovered" /\ Step.id = Last /\ case = Outage
         \/ Stage = "dark" /\ Step.id \in 2..(Uncertain + 1) /\ case = Outage
  BY <1>2, AwaitedFacts
<1>4. Stage' = Stage /\ Step' = Step
  BY <1>1, SameStage DEF Step, Program
<1>5. /\ outcomes'[Step.id] = "sent"
      /\ \A i \in Ids : i # Step.id => outcomes'[i] = outcomes[i]
  BY <1>1, <1>3 DEF Typing, TypeOK
<1>6. /\ Whole(disk)' <=> Whole(disk)
      /\ Whole(bucket)' <=> Whole(bucket)
      /\ Unheard(disk) => Unheard(disk)'
      /\ Unheard(bucket) => Unheard(bucket)'
      /\ Whole(memory.recovered)' <=> Whole(memory.recovered)
  BY <1>1, <1>5 DEF Whole, Unheard
<1>7. KindMatches' /\ Upright' /\ EndsMatch' /\ Activations'
  BY <1>1, <1>4 DEF Course, KindMatches, Upright, EndsMatch, FirstEnds, Activations
<1>8. Requests'
  <2>1. Asked' = Asked /\ Program' = Program
    BY <1>1, <1>4 DEF Asked, Program
  <2>2. pc <= Len(Program) /\ Step.op \in {"write", "try"}
    BY <1>2 DEF At
  <2>3. flying \subseteq Ids
    BY DEF Typing, TypeOK
  <2>4. \A i \in flying' : outcomes'[i] = "sent" \/ (Stage = "dark" /\ outcomes'[i] = "uncertain")
    BY <2>3, <1>1, <1>5 DEF Course, Requests
  <2>5. \A i \in Ids : outcomes'[i] = "sent" => Step.id = i
    BY <1>5 DEF Course, Requests
  <2>6. \A i \in Ids \ Asked : outcomes'[i] = "none"
    BY <1>3, <1>5 DEF Course, Requests
  <2>7. IF Stage = "fresh" THEN outcomes'[Baseline] \in {"none", "sent"} ELSE outcomes'[Baseline] = "acked"
    BY <1>3, <1>5, IdFacts DEF Course, Requests
  <2>8. case \in AlarmCases => Stage \in {"fresh", "shown"}
    BY <1>3 DEF AlarmCases, Outage
  <2>9. Stage \notin Late \ {"recovered"}
    BY <1>3 DEF Late, Again
  <2>. QED BY <2>1, <2>2, <2>4, <2>5, <2>6, <2>7, <2>8, <2>9, <1>1, <1>4 DEF Requests
<1>9. Deadlines'
  <2>1. Stage = "shown" => process = "up"
    BY DEF Course, Upright, First
  <2>. QED BY <2>1, <1>1, <1>3, <1>4, IdFacts DEF Course, Deadlines
<1>10. Betrayals'
  BY <1>1, <1>3, <1>4 DEF Course, Betrayals
<1>11. Contents'
  <2>1. Stage = "fresh" => Baseline \in flying'
    BY <1>1, <1>3, IdFacts DEF Course, Upright, First
  <2>. QED BY <2>1, <1>1, <1>4, <1>6 DEF Course, Contents
<1>12. Savings'
  BY <1>1, <1>4 DEF Course, Savings
<1>. QED BY <1>7, <1>8, <1>9, <1>10, <1>11, <1>12 DEF Course

\* An answer is awaited: what it was sent for has been executed, and the process that
\* executed it is the one that is told of it.
LEMMA AcknowledgeKeeps ==
  ASSUME Typing, Course, Acknowledge
  PROVE  Course'
<1>1. /\ active = TRUE /\ Step.id \notin flying /\ outcomes[Step.id] # "none" /\ Advance
      /\ outcomes' = [outcomes EXCEPT ![Step.id] = "acked"]
      /\ memory' = IF Step.id = Baseline THEN [memory EXCEPT !.seeded = generation] ELSE memory
      /\ UNCHANGED <<process, generation, active, flying, disk, bucket, store, containerId, clock,
                     case, betrayed, unsaved, ends, alarmRan, dueUp>>
  BY DEF Acknowledge, Awaiting, celld, ghosts, Typing, TypeOK
<1>2. PICK op \in {"write", "try"} : At(op)
  BY DEF Acknowledge, Awaiting
<1>3. /\ Step.id \in Ids /\ Step.id \in Asked
      /\ \/ Stage = "fresh" /\ NextStage = "seeded" /\ Step.id = Baseline
         \/ Stage = "shown" /\ NextStage = "armed" /\ Step.id = Alarm /\ case \in AlarmCases
         \/ Stage = "recovered" /\ NextStage = "renewed" /\ Step.id = Last /\ case = Outage
         \/ Stage = "dark" /\ NextStage = "dark" /\ Step.id \in 2..(Uncertain + 1) /\ case = Outage
  BY <1>2, AwaitedFacts
<1>4. Stage' = NextStage
  BY <1>1, NextStageIs DEF Advance
<1>5. /\ outcomes'[Step.id] = "acked"
      /\ \A i \in Ids : i # Step.id => outcomes'[i] = outcomes[i]
  BY <1>1, <1>3 DEF Typing, TypeOK
<1>6. /\ memory'.recovered = memory.recovered
      /\ Step.id # Baseline => memory' = memory
      /\ Step.id = Baseline => memory'.seeded = generation
  BY <1>1 DEF Typing
<1>7. /\ \A d : Whole(d)' <=> Whole(d)
      /\ Whole(disk)' <=> Whole(disk)
      /\ Whole(bucket)' <=> Whole(bucket)
      /\ Unheard(disk) => Unheard(disk)'
      /\ Unheard(bucket) => Unheard(bucket)'
      /\ Whole(memory.recovered)' <=> Whole(memory.recovered)
  BY <1>1, <1>5, <1>6 DEF Whole, Unheard
<1>8. \A i \in Ids : outcomes'[i] # "sent"
  BY <1>5 DEF Course, Requests
<1>9. /\ case \in AlarmCases => case # Outage /\ case \notin Simple
      /\ case = Outage => case \notin Simple
  BY DEF AlarmCases, Simple, Graceful, Outage
<1>10. KindMatches' /\ Upright' /\ EndsMatch'
  BY <1>1, <1>3, <1>4 DEF Course, KindMatches, Upright, EndsMatch, FirstEnds, Stages, First, Second,
       Down, Late, Again
<1>11. Activations'
  <2>1. Stage = "fresh" => generation = 1
    <3>1. Stage = "fresh" => ends = <<>>
      BY DEF Course, EndsMatch, First
    <3>. QED BY <3>1, <1>1 DEF Course, Activations
  <2>2. memory'.seeded = 1
    BY <2>1, <1>3, <1>6, IdFacts DEF Course, Activations
  <2>. QED BY <2>2, <1>1 DEF Course, Activations
<1>12. Requests'
  <2>1. Asked' = Asked
    BY <1>1, <1>3, <1>4, <1>9 DEF Asked, Late, Again
  <2>2. flying \subseteq Ids
    BY DEF Typing, TypeOK
  <2>3. \A i \in flying' : outcomes'[i] = "sent" \/ (Stage' = "dark" /\ outcomes'[i] = "uncertain")
    <3>1. \A i \in flying : i # Step.id /\ outcomes[i] # "sent" /\ outcomes'[i] = outcomes[i]
      BY <2>2, <1>1, <1>5 DEF Course, Requests
    <3>. QED BY <3>1, <1>1, <1>3, <1>4 DEF Course, Requests
  <2>4. \A i \in Ids \ Asked : outcomes'[i] = "none"
    BY <1>3, <1>5 DEF Course, Requests
  <2>5. Stage' # "fresh" /\ outcomes'[Baseline] = "acked"
    BY <1>3, <1>4, <1>5, IdFacts DEF Course, Requests
  <2>6. case \in AlarmCases /\ Stage' \notin {"fresh", "seeded", "shown"} => outcomes'[Alarm] = "acked"
    BY <1>3, <1>4, <1>5, <1>9
  <2>7. Stage' \in Late \ {"recovered"} => outcomes'[Last] = "acked"
    BY <1>3, <1>4, <1>5 DEF Late, Again
  <2>. QED BY <2>1, <2>3, <2>4, <2>5, <2>6, <2>7, <1>1, <1>8 DEF Requests
<1>13. Deadlines'
  BY <1>1, <1>3, <1>4, <1>9 DEF Course, Deadlines
<1>14. Betrayals'
  BY <1>1, <1>3, <1>4 DEF Course, Betrayals
<1>15. Contents'
  <2>1. Stage = "fresh" => ItemsOf(Baseline) \subseteq disk
    BY <1>1, <1>3 DEF Course, Contents
  <2>. QED BY <2>1, <1>1, <1>3, <1>4, <1>6, <1>7 DEF Course, Contents, Late, Again
<1>16. Savings'
  BY <1>1, <1>3, <1>4 DEF Course, Savings, First, Outage
<1>. QED BY <1>10, <1>11, <1>12, <1>13, <1>14, <1>15, <1>16 DEF Course

\* A write that is not answered fails the case; a try remains uncertain.
LEMMA ClassifyKeeps ==
  ASSUME Typing, Course, Classify, verdict' # "failed"
  PROVE  Course'
<1>1. /\ outcomes' = [outcomes EXCEPT ![Step.id] = "uncertain"] /\ outcomes[Step.id] # "none"
      /\ At("try") /\ Advance
      /\ UNCHANGED <<process, generation, active, flying, disk, bucket, store, containerId, clock,
                     case, memory, betrayed, unsaved, ends, alarmRan, dueUp>>
  BY DEF Classify, Awaiting, At, Expect, Fail, celld, ghosts
<1>2. /\ Step.id \in Ids /\ Step.id \in Asked
      /\ Stage = "dark" /\ NextStage = "dark" /\ Step.id \in 2..(Uncertain + 1) /\ case = Outage
  BY <1>1, AwaitedFacts
<1>3. Stage' = "dark"
  BY <1>1, <1>2, NextStageIs DEF Advance
<1>4. /\ outcomes'[Step.id] = "uncertain"
      /\ \A i \in Ids : i # Step.id => outcomes'[i] = outcomes[i]
  BY <1>1, <1>2 DEF Typing, TypeOK
<1>5. /\ Whole(disk)' <=> Whole(disk)
      /\ Whole(bucket)' <=> Whole(bucket)
      /\ Unheard(disk) => Unheard(disk)'
      /\ Unheard(bucket) => Unheard(bucket)'
  BY <1>1, <1>4 DEF Whole, Unheard
<1>6. \A i \in Ids : outcomes'[i] # "sent"
  BY <1>4 DEF Course, Requests
<1>7. KindMatches' /\ Upright' /\ EndsMatch' /\ Activations'
  BY <1>1, <1>2, <1>3 DEF Course, KindMatches, Upright, EndsMatch, FirstEnds, Activations
<1>8. Requests'
  <2>1. Asked' = Asked
    BY <1>1, <1>2, <1>3 DEF Asked
  <2>2. flying \subseteq Ids
    BY DEF Typing, TypeOK
  <2>3. \A i \in flying : outcomes'[i] = "uncertain"
    BY <2>2, <1>4 DEF Course, Requests
  <2>4. \A i \in Ids \ Asked : outcomes'[i] = "none"
    BY <1>2, <1>4 DEF Course, Requests
  <2>5. outcomes'[Baseline] = "acked"
    BY <1>2, <1>4, IdFacts DEF Course, Requests
  <2>. QED BY <2>1, <2>3, <2>4, <2>5, <1>1, <1>2, <1>3, <1>6 DEF Requests, AlarmCases, Outage, Late, Again
<1>9. Deadlines'
  BY <1>1, <1>2, <1>3 DEF Course, Deadlines, AlarmCases, Outage
<1>10. Betrayals'
  BY <1>1, <1>2, <1>3 DEF Course, Betrayals
<1>11. Contents'
  BY <1>1, <1>2, <1>3, <1>5 DEF Course, Contents, Late, Again
<1>12. Savings'
  BY <1>1, <1>2 DEF Savings, Outage
<1>. QED BY <1>7, <1>8, <1>9, <1>10, <1>11, <1>12 DEF Course

-----------------------------------------------------------------------------
(* What a check accepts is exactly what keeps celld's promises.            *)

\* The alarm's mark is on the disk only if there was an alarm.
LEMMA NothingFired ==
  ASSUME AlarmOnce, Course, outcomes[Alarm] = "none"
  PROVE  Fired \notin disk
BY DEF AlarmOnce, Course, Deadlines

\* Before anything has ended, the first read shows what was written.
LEMMA FirstRead ==
  ASSUME Typing, AlarmOnce, Course, Stage = "seeded", active, \A i \in Ids : outcomes[i] # "sent"
  PROVE  disk = ItemsOf(Baseline) /\ generation = memory.seeded /\ checkOutageState(disk)
<1>1. /\ outcomes[Baseline] = "acked" /\ \A i \in Ids \ {Baseline} : outcomes[i] = "none"
      /\ memory.recovered = {} /\ betrayed = FALSE
  BY DEF Course, Requests, Asked, Contents, Betrayals, Late, Again, Typing, TypeOK
<1>2. outcomes[Alarm] = "none" /\ Fired \notin disk
  BY <1>1, IdFacts, NothingFired
<1>3. Whole(disk) /\ Unheard(disk) /\ ItemsOf(Baseline) \subseteq disk
  BY <1>1 DEF Course, Contents
<1>4. Keeps(disk)
  <2>1. Alarm \notin Acked /\ \A i \in Acked : i = Baseline
    BY <1>1, <1>2 DEF Acked
  <2>. QED BY <2>1, <1>1, <1>3, KeepsMeans
<1>5. disk \in SUBSET (Items \cup {Fired})
  BY DEF Typing, TypeOK
<1>6. disk = ItemsOf(Baseline)
  BY <1>1, <1>2, <1>4, <1>5, KeepsBaseline
<1>7. checkOutageState(disk)
  <2>1. \A i \in Ids : outcomes[i] \in {"none", "acked", "uncertain"}
    BY <1>1
  <2>. QED BY <2>1, <1>2, <1>4, <1>5, KeepsChecked
<1>8. generation = memory.seeded
  <2>1. ends = <<>> /\ memory.seeded = 1
    BY DEF Course, EndsMatch, Activations, First
  <2>2. generation = Len(ends) + 1
    BY DEF Course, Activations
  <2>. QED BY <2>1, <2>2
<1>. QED BY <1>6, <1>7, <1>8

\* A cell activated after one restart is not the one that took the first write.
LEMMA ActivatedAgain ==
  ASSUME Course, Stage = "restarted", active
  PROVE  generation # memory.seeded
<1>1. memory.seeded = 1 /\ generation = Len(ends) + 1
  BY DEF Course, Activations
<1>2. \A e \in FirstEnds : Len(e) = 1
  BY DEF FirstEnds
<1>3. Len(ends) = 1
  BY <1>2 DEF Course, EndsMatch, Second
<1>. QED BY <1>1, <1>3

\* The restart cases' read (Recovery.ts 34-52).
LEMMA RestartRead ==
  ASSUME Typing, AlarmOnce, Course, Stage = "restarted", case \in Simple, active
  PROVE  ~betrayed <=> checkRecovered(disk, ItemsOf(Baseline))
<1>1. /\ outcomes[Baseline] = "acked" /\ \A i \in Ids \ {Baseline} : outcomes[i] = "none"
      /\ memory.recovered = {}
  BY DEF Course, Requests, Asked, Contents, Late, Again
<1>2. Fired \notin disk /\ disk \in SUBSET (Items \cup {Fired})
  BY <1>1, IdFacts, NothingFired DEF Typing, TypeOK
<1>3. Keeps(disk) <=> disk = ItemsOf(Baseline)
  BY <1>1, <1>2, KeepsBaseline
<1>4. ~betrayed <=> Keeps(disk)
  BY DEF Course, Betrayals
<1>. QED BY <1>3, <1>4, ActivatedAgain DEF checkRecovered

\* The alarm cases' read: what it accepts has lost nothing (Recovery.ts 61-86).
LEMMA AlarmRead ==
  ASSUME Typing, Course, Stage = "restarted", case \in AlarmCases, active,
         checkRecovered(disk, ItemsOf(Baseline) \cup {Fired})
  PROVE  ~betrayed
<1>1. case \notin Simple
  BY DEF AlarmCases, Simple, Graceful
<1>2. /\ outcomes[Baseline] = "acked" /\ outcomes[Alarm] = "acked" /\ memory.recovered = {}
      /\ \A i \in Ids \ {Baseline, Alarm} : outcomes[i] = "none"
  BY <1>1 DEF Course, Requests, Asked, Contents, Late, Again
<1>3. Keeps(ItemsOf(Baseline) \cup {Fired})
  BY <1>2, KeepsAlarm
<1>4. ~betrayed <=> Keeps(disk)
  BY DEF Course, Betrayals
<1>. QED BY <1>3, <1>4 DEF checkRecovered

\* In the outage case the alarm plays no part.
LEMMA OutageFacts ==
  ASSUME Typing, AlarmOnce, Course, case = Outage, \A i \in Ids : outcomes[i] # "sent"
  PROVE  /\ \A i \in Ids : outcomes[i] \in {"none", "acked", "uncertain"}
         /\ outcomes[Alarm] = "none" /\ Fired \notin disk
         /\ disk \in SUBSET (Items \cup {Fired})
<1>1. /\ outcomes \in [Ids -> {"none", "sent", "acked", "uncertain"}]
      /\ disk \in SUBSET (Items \cup {Fired})
  BY DEF Typing, TypeOK
<1>2. outcomes[Alarm] = "none"
  <2>1. Alarm \notin Asked
    BY IdFacts DEF Asked, Simple, Graceful, AlarmCases, Outage
  <2>. QED BY <2>1, IdFacts DEF Course, Requests
<1>3. Fired \notin disk
  BY <1>2, NothingFired
<1>. QED BY <1>1, <1>2, <1>3

\* The read after the first restart of the outage case (Outage.ts 43-64).
LEMMA OutageRead ==
  ASSUME Typing, AlarmOnce, Course, Stage = "restarted", case = Outage, active,
         \A i \in Ids : outcomes[i] # "sent"
  PROVE  ~betrayed <=> checkOutageState(disk)
<1>1. memory.recovered = {}
  BY DEF Course, Contents, Late, Again
<1>2. Keeps(disk) <=> checkOutageState(disk) /\ memory.recovered \subseteq disk
  BY OutageFacts, KeepsChecked
<1>3. ~betrayed <=> Keeps(disk)
  BY DEF Course, Betrayals
<1>. QED BY <1>1, <1>2, <1>3

\* The read after its second restart, which must show what the first one did and the
\* last write (Outage.ts 131-135).
LEMMA FinalRead ==
  ASSUME Typing, AlarmOnce, Course, Stage = "restartedAgain", case = Outage, active,
         \A i \in Ids : outcomes[i] # "sent"
  PROVE  ~betrayed <=> checkOutageState(disk) /\ disk = memory.recovered \cup ItemsOf(Last)
<1>1. Keeps(disk) <=> checkOutageState(disk) /\ memory.recovered \subseteq disk
  BY OutageFacts, KeepsChecked
<1>2. ~betrayed <=> Keeps(disk)
  BY DEF Course, Betrayals
<1>3. ~betrayed => memory.recovered \subseteq disk /\ disk \subseteq memory.recovered \cup ItemsOf(Last)
  BY DEF Course, Contents, Late, Again
<1>4. Keeps(disk) => ItemsOf(Last) \subseteq disk
  <2>1. Last \in Acked \ {Alarm}
    BY IdFacts DEF Course, Requests, Acked, Late, Again
  <2>. QED BY <2>1, KeepsMeans
<1>. QED BY <1>1, <1>2, <1>3, <1>4

-----------------------------------------------------------------------------
(* The driver's reads, and the end of a case.                              *)

\* A read changes nothing but the driver; what it may read is answered by a cell that
\* is active.
LEMMA ReadFacts ==
  ASSUME Typing, Course, Read
  PROVE  /\ process = "up" /\ active = TRUE
         /\ UNCHANGED <<process, generation, active, flying, disk, bucket, store, containerId, clock,
                        case, outcomes, betrayed, unsaved, ends, alarmRan, dueUp>>
         /\ \A i \in Ids : outcomes[i] # "sent"
<1>1. /\ process = "up" /\ active = TRUE
      /\ UNCHANGED <<process, generation, active, flying, disk, bucket, store, containerId, clock,
                     case, outcomes, betrayed, unsaved, ends, alarmRan, dueUp>>
  BY DEF Read, celld, ghosts, Typing, TypeOK
<1>2. PICK op \in {"before", "recovers", "poll", "recovered", "final"} : At(op)
  BY DEF Read
<1>3. \A i \in Ids : outcomes[i] # "sent"
  BY <1>2, NothingSent DEF Course
<1>. QED BY <1>1, <1>3

\* The read before anything ends.
LEMMA BeforeKeeps ==
  ASSUME Typing, AlarmOnce, Course, Read, At("before"), verdict' # "failed"
  PROVE  Course'
<1>1. /\ process = "up" /\ active = TRUE
      /\ UNCHANGED <<process, generation, active, flying, disk, bucket, store, containerId, clock,
                     case, outcomes, betrayed, unsaved, ends, alarmRan, dueUp>>
      /\ \A i \in Ids : outcomes[i] # "sent"
  BY ReadFacts
<1>2. Advance /\ memory' = memory
  BY DEF Read, Expect, Fail, At
<1>3. Stage = "seeded" /\ NextStage = "shown"
  <2>1. <<"before", Stage, NextStage>> \in Moves(case) /\ case \in Simple \cup AlarmCases \cup {Outage}
    BY AtStep
  <2>. QED BY <2>1, MovesMean
<1>4. Stage' = "shown"
  BY <1>1, <1>2, <1>3, NextStageIs DEF Advance
<1>5. KindMatches' /\ Upright' /\ EndsMatch' /\ Activations'
  BY <1>1, <1>2, <1>3, <1>4 DEF Course, KindMatches, Upright, EndsMatch, Activations, Stages, First,
       Second, Down, Late, Again
<1>6. /\ \A i \in Ids \ {Baseline} : outcomes[i] = "none"
      /\ outcomes[Baseline] = "acked" /\ outcomes[Alarm] = "none"
  BY <1>3, IdFacts DEF Course, Requests, Asked
<1>7. Requests'
  <2>1. Baseline \in Asked'
    BY <1>1, IdFacts DEF Asked
  <2>2. \A i \in flying : FALSE
    BY <1>1, <1>3 DEF Course, Requests, Typing, TypeOK
  <2>. QED BY <2>1, <2>2, <1>1, <1>4, <1>6 DEF Requests, Late, Again
<1>8. Deadlines'
  BY <1>1, <1>3, <1>4, <1>6 DEF Course, Deadlines
<1>9. Betrayals'
  BY <1>1, <1>3, <1>4 DEF Course, Betrayals
<1>10. Contents'
  BY <1>1, <1>2, <1>3, <1>4, SameContents DEF Course, Contents, Late, Again
<1>11. Savings'
  BY <1>1, <1>3, <1>4 DEF Course, Savings, First
<1>. QED BY <1>5, <1>7, <1>8, <1>9, <1>10, <1>11 DEF Course

\* The read a case passes by.
LEMMA LastReadKeeps ==
  ASSUME Typing, AlarmOnce, Course, Read, NEW op \in {"recovers", "poll", "final"}, At(op),
         verdict' # "failed"
  PROVE  Course'
<1>1. /\ process = "up" /\ active = TRUE
      /\ UNCHANGED <<process, generation, active, flying, disk, bucket, store, containerId, clock,
                     case, outcomes, betrayed, unsaved, ends, alarmRan, dueUp>>
      /\ \A i \in Ids : outcomes[i] # "sent"
  BY ReadFacts
<1>2. /\ Advance /\ memory' = memory
      /\ op = "recovers" => checkRecovered(disk, ItemsOf(Baseline))
      /\ op = "poll" => Fired \in disk /\ checkRecovered(disk, ItemsOf(Baseline) \cup {Fired})
      /\ op = "final" => checkOutageState(disk) /\ disk = memory.recovered \cup ItemsOf(Last)
  BY DEF Read, Expect, Fail, At
<1>3. \/ op = "recovers" /\ Stage = "restarted" /\ NextStage = "passed" /\ case \in Simple
      \/ op = "poll" /\ Stage = "restarted" /\ NextStage = "passed" /\ case \in AlarmCases
      \/ op = "final" /\ Stage = "restartedAgain" /\ NextStage = "passed" /\ case = Outage
  <2>1. <<op, Stage, NextStage>> \in Moves(case) /\ case \in Simple \cup AlarmCases \cup {Outage}
    BY AtStep
  <2>. QED BY <2>1, MovesMean
<1>4. Stage' = "passed"
  BY <1>1, <1>2, <1>3, NextStageIs DEF Advance
<1>5. betrayed = FALSE
  <2>1. ~betrayed
    BY <1>1, <1>2, <1>3, RestartRead, AlarmRead, FinalRead
  <2>. QED BY <2>1 DEF Typing, TypeOK
<1>6. /\ case \in Simple => case \notin AlarmCases /\ case # Outage
      /\ case \in AlarmCases => case # Outage
  BY DEF Simple, Graceful, AlarmCases, Outage
<1>7. KindMatches' /\ Upright'
  BY <1>1, <1>3, <1>4 DEF Course, KindMatches, Upright, Stages, First, Second, Down, Late, Again
<1>8. EndsMatch'
  <2>1. ends \in IF case = Outage THEN BothEnds ELSE FirstEnds
    BY <1>3, <1>6 DEF Course, EndsMatch, Second, Again
  <2>. QED BY <2>1, <1>1, <1>4 DEF EndsMatch, First, Second, Down, Again, FirstEnds
<1>9. Activations'
  BY <1>1, <1>2, <1>3, <1>4 DEF Course, Activations
<1>10. Requests'
  <2>1. Asked' = Asked
    BY <1>1, <1>3, <1>4, <1>6 DEF Asked, Late, Again
  <2>2. \A i \in flying : FALSE
    BY <1>1, <1>3 DEF Course, Requests, Typing, TypeOK
  <2>. QED BY <2>1, <2>2, <1>1, <1>3, <1>4 DEF Course, Requests, Late, Again
<1>11. Deadlines'
  <2>1. case \in AlarmCases => op = "poll" /\ Stage = "restarted"
    BY <1>3, <1>6
  <2>2. op = "poll" => alarmRan # 0
    BY <1>2 DEF Course, Deadlines
  <2>. QED BY <2>1, <2>2, <1>1, <1>4 DEF Course, Deadlines
<1>12. Betrayals'
  BY <1>1, <1>4, <1>5 DEF Betrayals
<1>13. Contents'
  BY <1>1, <1>2, <1>3, <1>4, <1>5, SameContents DEF Course, Contents, Late, Again
<1>14. Savings'
  <2>. SUFFICES ASSUME case = "diskLoss" PROVE Savings'
    BY <1>1 DEF Savings
  <2>1. op = "poll" /\ Stage = "restarted"
    BY <1>3, <1>6 DEF AlarmCases
  <2>2. ItemsOf(Baseline) \subseteq disk
    BY <2>1, <1>2 DEF checkRecovered
  <2>3. unsaved = {}
    BY <2>2, <1>1 DEF Course, Savings
  <2>. QED BY <2>3, <1>1, <1>4 DEF Savings
<1>. QED BY <1>7, <1>8, <1>9, <1>10, <1>11, <1>12, <1>13, <1>14 DEF Course

\* The read whose answer the outage case remembers (Outage.ts 116-122).
LEMMA RecoveredKeeps ==
  ASSUME Typing, AlarmOnce, Course, Read, At("recovered"), verdict' # "failed"
  PROVE  Course'
<1>1. /\ process = "up" /\ active = TRUE
      /\ UNCHANGED <<process, generation, active, flying, disk, bucket, store, containerId, clock,
                     case, outcomes, betrayed, unsaved, ends, alarmRan, dueUp>>
      /\ \A i \in Ids : outcomes[i] # "sent"
  BY ReadFacts
<1>2. Advance /\ memory' = [memory EXCEPT !.recovered = disk] /\ checkOutageState(disk)
  BY DEF Read, Expect, Fail, At
<1>3. Stage = "restarted" /\ NextStage = "recovered" /\ case = Outage
  <2>1. <<"recovered", Stage, NextStage>> \in Moves(case) /\ case \in Simple \cup AlarmCases \cup {Outage}
    BY AtStep
  <2>. QED BY <2>1, MovesMean
<1>4. Stage' = "recovered"
  BY <1>1, <1>2, <1>3, NextStageIs DEF Advance
<1>5. betrayed = FALSE
  <2>1. ~betrayed
    BY <1>1, <1>2, <1>3, OutageRead
  <2>. QED BY <2>1 DEF Typing, TypeOK
<1>6. memory'.recovered = disk /\ memory'.seeded = memory.seeded
  BY <1>2 DEF Typing
<1>7. /\ case \notin AlarmCases /\ case \notin Simple
  BY <1>3 DEF Simple, Graceful, AlarmCases, Outage
<1>8. KindMatches' /\ Upright' /\ EndsMatch' /\ Activations'
  BY <1>1, <1>3, <1>4, <1>6 DEF Course, KindMatches, Upright, EndsMatch, Activations, FirstEnds, Stages,
       First, Second, Down, Late, Again
<1>9. Requests'
  <2>1. Asked \subseteq Asked'
    BY <1>1, <1>3, <1>4, <1>7, IdFacts DEF Asked, Late, Again
  <2>2. \A i \in flying : FALSE
    BY <1>1, <1>3 DEF Course, Requests, Typing, TypeOK
  <2>. QED BY <2>1, <2>2, <1>1, <1>3, <1>4, <1>7 DEF Course, Requests, Late, Again
<1>10. Deadlines'
  BY <1>1, <1>4, <1>7 DEF Course, Deadlines
<1>11. Betrayals'
  BY <1>1, <1>4, <1>5 DEF Betrayals
<1>12. Contents'
  <2>1. /\ Whole(disk) /\ Whole(bucket) /\ Unheard(disk) /\ Unheard(bucket) /\ bucket \subseteq disk
    BY <1>3, <1>5 DEF Course, Contents
  <2>2. /\ Whole(disk)' <=> Whole(disk)
        /\ Whole(bucket)' <=> Whole(bucket)
        /\ Unheard(disk)' <=> Unheard(disk)
        /\ Unheard(bucket)' <=> Unheard(bucket)
        /\ Whole(memory.recovered)' <=> Whole(disk)
    BY <1>1, <1>6 DEF Whole, Unheard
  <2>. QED BY <2>1, <2>2, <1>1, <1>4, <1>6 DEF Contents, Late, Again
<1>13. Savings'
  BY <1>1, <1>3 DEF Savings, Outage
<1>. QED BY <1>8, <1>9, <1>10, <1>11, <1>12, <1>13 DEF Course

\* A case that has taken all its steps passes.
LEMMA FinishKeeps ==
  ASSUME Typing, Course, Finish
  PROVE  Course'
<1>1. /\ pc > Len(Program) /\ pc' = pc
      /\ UNCHANGED <<celld, clock, case, outcomes, memory, ghosts>>
  BY DEF Finish
<1>2. Stage' = Stage
  BY <1>1, SameStage
<1>3. \A i \in Ids : outcomes[i] # "sent"
  <2>1. pc \in Nat /\ Len(Program) \in Nat
    BY StageFacts
  <2>. QED BY <2>1, <1>1 DEF Course, Requests
<1>. QED BY <1>1, <1>2, <1>3, StayKeeps

-----------------------------------------------------------------------------
(* Why a case fails.                                                       *)

\* A look fails for one of the three reasons, or celld has broken a promise.
LEMMA LookFailsRightly ==
  ASSUME Typing, Course, Look, verdict' = "failed"
  PROVE  NoFalseAlarm'
<1>1. UNCHANGED <<process, clock, case, betrayed>>
  BY DEF Look, celld, ghosts
<1>2. PICK op \in {"mustRun", "exit0", "exit137", "minioDown", "minioUp", "lapse", "ready",
                   "notDue", "owned", "replaced", "empty", "sameMinio"} :
        /\ At(op)
        /\ op = "mustRun" => process # "up"
        /\ op = "exit0" => process # "exit0"
        /\ op = "exit137" => process # "exit137"
        /\ op = "minioDown" => store.up
        /\ op = "minioUp" => ~store.up
        /\ op = "ready" => ~(process = "up" /\ store.up)
        /\ op = "notDue" => clock = "past"
        /\ op # "lapse"
  BY DEF Look, Expect, Advance, At
<1>3. /\ <<op, Stage, NextStage>> \in Moves(case)
      /\ case \in Simple \cup AlarmCases \cup {Outage}
  BY <1>2, AtStep
<1>4. CASE op \in {"mustRun", "minioDown", "minioUp", "ready"}
  <2>1. /\ op = "mustRun" => Stage \in {"shown", "armed", "restarted", "renewed", "restartedAgain"}
        /\ op = "ready" => Stage \in {"restarted", "restartedAgain"}
        /\ op = "minioDown" => Stage = "dark"
        /\ op = "minioUp" => Stage = "lit"
    BY <1>3, MovesMean
  <2>2. FALSE
    BY <2>1, <1>2, <1>4 DEF Course, Upright, First, Second
  <2>. QED BY <2>2
<1>5. CASE op = "exit0"
  <2>1. Stage = "ending" /\ case \in Graceful
    BY <1>3, <1>5, MovesMean
  <2>2. process = "exit137"
    BY <2>1, <1>2, <1>5 DEF Course, Upright
  <2>. QED BY <2>1, <2>2, <1>1 DEF NoFalseAlarm, Graceful
<1>6. CASE op = "exit137"
  <2>1. \/ Stage = "ending" /\ case \in AlarmCases \cup {"crash"}
        \/ Stage = "struck" /\ case = Outage
        \/ Stage = "endingAgain" /\ case = Outage
    BY <1>3, <1>6, MovesMean
  <2>2. case \in AlarmCases \cup {"crash"} => case \notin Graceful
    BY DEF AlarmCases, Graceful
  <2>3. process = "exit3" /\ case = Outage
    BY <2>1, <2>2, <1>2, <1>6 DEF Course, Upright
  <2>. QED BY <2>3, <1>1 DEF NoFalseAlarm, Outage
<1>7. CASE op \in {"notDue", "owned", "replaced", "empty", "sameMinio"}
  <2>1. /\ op = "notDue" => case \in AlarmCases
        /\ op # "notDue" => Stage \in {"overdue", "created"} /\ case = "diskLoss"
    BY <1>3, <1>7, MovesMean
  <2>2. case \in AlarmCases
    BY <2>1, <1>7 DEF AlarmCases
  <2>3. clock = "past"
    BY <2>1, <2>2, <1>2, <1>7 DEF Course, Deadlines
  <2>. QED BY <2>2, <2>3, <1>1 DEF NoFalseAlarm
<1>. QED BY <1>2, <1>4, <1>5, <1>6, <1>7

\* So does prepareRestart's look at the node: it finds it up or fenced.
LEMMA SurvivorFailsRightly ==
  ASSUME Typing, Course, Survivor, verdict' = "failed"
  PROVE  NoFalseAlarm'
<1>1. At("survivor") /\ process \notin {"up", "exit3"}
  BY DEF Survivor, Advance, At
<1>2. <<"survivor", Stage, NextStage>> \in Moves(case) /\ case \in Simple \cup AlarmCases \cup {Outage}
  BY <1>1, AtStep
<1>3. Stage = "dark"
  BY <1>2, MovesMean
<1>. QED BY <1>1, <1>3 DEF Course, Upright

\* A write that must be acknowledged is never given up: where one is due the process and its store run.
LEMMA WriteSucceeds ==
  ASSUME Typing, Course, Classify
  PROVE  verdict' # "failed"
<1>. SUFFICES ASSUME verdict' = "failed" PROVE FALSE
  OBVIOUS
<1>1. At("write") /\ ~(process = "up" /\ store.up)
  BY DEF Classify, Awaiting, At, Expect, Advance
<1>2. Stage \in {"fresh", "shown", "recovered"}
  BY <1>1, AwaitedFacts
<1>. QED BY <1>1, <1>2 DEF Course, Upright, First, Second

\* A read that is refused shows a broken promise, unless it is an alarm's.
LEMMA ReadFailsRightly ==
  ASSUME Typing, AlarmOnce, Course, Read, verdict' = "failed"
  PROVE  NoFalseAlarm'
<1>1. /\ process = "up" /\ active = TRUE
      /\ UNCHANGED <<process, clock, case, betrayed>>
      /\ \A i \in Ids : outcomes[i] # "sent"
  BY ReadFacts
<1>2. PICK op \in {"before", "recovers", "poll", "recovered", "final"} :
        /\ At(op)
        /\ op = "before" => ~(disk = ItemsOf(Baseline) /\ generation = memory.seeded /\ checkOutageState(disk))
        /\ op = "recovers" => ~checkRecovered(disk, ItemsOf(Baseline))
        /\ op = "recovered" => ~checkOutageState(disk)
        /\ op = "final" => ~(checkOutageState(disk) /\ disk = memory.recovered \cup ItemsOf(Last))
  BY DEF Read, Expect, Advance, At
<1>3. /\ op = "before" => Stage = "seeded"
      /\ op = "recovers" => Stage = "restarted" /\ case \in Simple
      /\ op = "poll" => Stage = "restarted" /\ case \in AlarmCases
      /\ op = "recovered" => Stage = "restarted" /\ case = Outage
      /\ op = "final" => Stage = "restartedAgain" /\ case = Outage
  <2>1. <<op, Stage, NextStage>> \in Moves(case) /\ case \in Simple \cup AlarmCases \cup {Outage}
    BY <1>2, AtStep
  <2>. QED BY <2>1, MovesMean
<1>4. CASE op = "poll"
  <2>1. clock = "past"
    BY <1>3, <1>4 DEF Course, Deadlines
  <2>. QED BY <2>1, <1>1, <1>3, <1>4 DEF NoFalseAlarm
<1>5. op # "before"
  BY <1>1, <1>2, <1>3, FirstRead
<1>6. CASE op \in {"recovers", "recovered", "final"}
  <2>1. betrayed
    BY <1>1, <1>2, <1>3, <1>6, RestartRead, OutageRead, FinalRead
  <2>. QED BY <2>1, <1>1 DEF NoFalseAlarm
<1>. QED BY <1>4, <1>5, <1>6

\* Only the poll for an overdue alarm can go unanswered.
LEMMA UnansweredRightly ==
  ASSUME Typing, Course, ReadFails
  PROVE  NoFalseAlarm'
<1>1. UNCHANGED <<process, clock, case, betrayed>>
  BY DEF ReadFails, celld, ghosts
<1>2. PICK op \in {"before", "recovers", "poll", "recovered", "final"} :
        At(op) /\ (op # "poll" => process # "up" \/ ~store.up)
  BY DEF ReadFails
<1>3. /\ op = "before" => Stage = "seeded"
      /\ op = "recovers" => Stage = "restarted"
      /\ op = "poll" => Stage = "restarted" /\ case \in AlarmCases
      /\ op = "recovered" => Stage = "restarted"
      /\ op = "final" => Stage = "restartedAgain"
  <2>1. <<op, Stage, NextStage>> \in Moves(case) /\ case \in Simple \cup AlarmCases \cup {Outage}
    BY <1>2, AtStep
  <2>. QED BY <2>1, MovesMean
<1>4. op = "poll"
  BY <1>2, <1>3 DEF Course, Upright, First, Second
<1>5. clock = "past"
  BY <1>3, <1>4 DEF Course, Deadlines
<1>. QED BY <1>1, <1>3, <1>4, <1>5 DEF NoFalseAlarm

\* Once a case has failed its driver is done, and what the process and the clock still
\* do does not take the reason away.
LEMMA FailureStays ==
  ASSUME Typing, AlarmOnce, NoFalseAlarm, verdict = "failed", [Next]_vars
  PROVE  NoFalseAlarm' /\ verdict' = "failed"
<1>1. CASE UNCHANGED vars
  BY <1>1 DEF vars, celld, driver, ghosts, NoFalseAlarm
<1>2. CASE Activate
  BY <1>2 DEF Activate, driver, NoFalseAlarm
<1>3. CASE Execute
  <2>1. PICK i \in flying : clock' = IF i = Alarm THEN "ahead" ELSE clock
    BY <1>3 DEF Execute
  <2>2. UNCHANGED <<process, case, verdict, betrayed>>
    BY <1>3 DEF Execute, driver, ghosts
  <2>3. clock = "past" => clock' = "past"
    BY <2>1 DEF AlarmOnce
  <2>. QED BY <2>2, <2>3 DEF NoFalseAlarm
<1>4. CASE Commit
  BY <1>4 DEF Commit, driver, ghosts, NoFalseAlarm
<1>5. CASE RunAlarm
  BY <1>5 DEF RunAlarm, driver, NoFalseAlarm
<1>6. CASE DeadlinePasses
  BY <1>6 DEF DeadlinePasses, celld, driver, NoFalseAlarm
<1>7. CASE Fence
  BY <1>7 DEF Fence, Ends, driver, NoFalseAlarm
<1>8. CASE Driver
  BY <1>8 DEF Driver, Look, Survivor, DockerStop, DockerKill, DockerStart, Minio, Observe, Replace,
       Send, Acknowledge, Awaiting, Classify, Read, ReadFails, Finish, At
<1>. QED BY <1>1, <1>2, <1>3, <1>4, <1>5, <1>6, <1>7, <1>8 DEF Next, Process

-----------------------------------------------------------------------------
(* The invariant, and the theorems.                                        *)

\* A request of the alarm is executed at most once.
LEMMA AlarmOnceStep ==
  ASSUME Typing, AlarmOnce, [Next]_vars
  PROVE  AlarmOnce'
<1>. USE DEF AlarmOnce
<1>1. CASE UNCHANGED vars
  BY <1>1 DEF vars, celld, driver
<1>2. CASE Activate
  BY <1>2 DEF Activate, driver
<1>3. CASE Execute
  BY <1>3 DEF Execute, driver
<1>4. CASE Commit
  BY <1>4 DEF Commit, driver
<1>5. CASE RunAlarm
  BY <1>5 DEF RunAlarm, driver
<1>6. CASE DeadlinePasses
  BY <1>6 DEF DeadlinePasses, celld, driver
<1>7. CASE Fence
  BY <1>7 DEF Fence, Ends, driver
<1>8. CASE Look \/ Survivor \/ Observe \/ Read \/ ReadFails \/ Finish
  BY <1>8 DEF Look, Survivor, Observe, Read, ReadFails, Finish, celld
<1>9. CASE DockerStop \/ DockerKill \/ DockerStart \/ Minio \/ Replace
  BY <1>9 DEF DockerStop, DockerKill, DockerStart, Minio, Replace, Ends
<1>10. CASE Send
  <2>1. /\ outcomes[Step.id] = "none" /\ clock' = clock
        /\ outcomes' = [outcomes EXCEPT ![Step.id] = "sent"]
        /\ flying' = flying \/ flying' = flying \cup {Step.id}
    BY <1>10 DEF Send
  <2>2. outcomes \in [Ids -> {"none", "sent", "acked", "uncertain"}] /\ Alarm \in Ids
    BY IdFacts DEF Typing, TypeOK
  <2>3. CASE Step.id = Alarm
    BY <2>1, <2>2, <2>3
  <2>4. CASE Step.id # Alarm
    BY <2>1, <2>2, <2>4
  <2>. QED BY <2>3, <2>4
<1>11. CASE Acknowledge \/ Classify
  <2>1. /\ flying' = flying /\ clock' = clock
        /\ \E answer \in {"acked", "uncertain"} : outcomes' = [outcomes EXCEPT ![Step.id] = answer]
    BY <1>11 DEF Acknowledge, Classify, celld
  <2>2. outcomes \in [Ids -> {"none", "sent", "acked", "uncertain"}] /\ Alarm \in Ids
    BY IdFacts DEF Typing, TypeOK
  <2>3. outcomes'[Alarm] = "none" => outcomes[Alarm] = "none"
    BY <2>1, <2>2
  <2>. QED BY <2>1, <2>3
<1>. QED BY <1>1, <1>2, <1>3, <1>4, <1>5, <1>6, <1>7, <1>8, <1>9, <1>10, <1>11 DEF Next, Process, Driver

\* What the steps that only move the driver leave of the types.
LEMMA TypingMoved ==
  ASSUME Typing, UNCHANGED <<celld, clock, case, outcomes, memory>>,
         pc' \in 1..(Len(Program) + 1), verdict' \in {"running", "failed"}
  PROVE  Typing'
BY DEF Typing, TypeOK, celld, Program

\* A driver's step moves on or fails, and stays in its program.
LEMMA StepsOn ==
  ASSUME Typing, NEW op, At(op), Advance \/ Fail
  PROVE  pc' \in 1..(Len(Program) + 1) /\ verdict' \in {"running", "failed"}
<1>1. pc + 1 \in 1..(Len(Program) + 1) /\ verdict = "running"
  BY AtStep
<1>2. pc \in 1..(Len(Program) + 1)
  BY DEF Typing, TypeOK
<1>. QED BY <1>1, <1>2 DEF Advance, Fail

\* The process's own steps keep the types.
LEMMA ProcessTyping ==
  ASSUME Typing, Process \/ DeadlinePasses \/ Fence
  PROVE  Typing'
<1>1. CASE Activate
  <2>1. /\ UNCHANGED <<process, flying, bucket, store, containerId, clock, case, pc, verdict,
                       outcomes, memory>>
        /\ process = "up" /\ active' = TRUE /\ generation' = generation + 1
    BY <1>1 DEF Activate, driver
  <2>2. disk' \subseteq Items \cup {Fired}
    <3>1. PICK content \in Rebuilt \cup (IF "corrupt" \in Faults /\ generation > 0
                                         THEN Corrupted ELSE {}) : disk' = content
      BY <1>1 DEF Activate
    <3>2. PICK base \in Rebuilt :
            content = base \/ \E x \in Items : content = base \ {x} \/ content = base \cup {x}
      BY <3>1 DEF Corrupted
    <3>3. base \subseteq bucket \cup disk
      BY <3>2, RebuiltFacts
    <3>. QED BY <3>1, <3>2, <3>3 DEF Typing, TypeOK
  <2>. QED BY <2>1, <2>2 DEF Typing, TypeOK, Program
<1>2. CASE Execute
  <2>1. PICK i \in flying :
          /\ disk' = disk \cup ItemsOf(i) /\ flying' = flying \ {i}
          /\ clock' = IF i = Alarm THEN "ahead" ELSE clock
    BY <1>2 DEF Execute
  <2>2. UNCHANGED <<process, generation, active, bucket, store, containerId, case, pc, verdict,
                    outcomes, memory>>
    BY <1>2 DEF Execute, driver
  <2>3. ItemsOf(i) \subseteq Items /\ flying \subseteq Ids
    BY ItemFacts DEF Typing, TypeOK
  <2>. QED BY <2>1, <2>2, <2>3 DEF Typing, TypeOK, Program
<1>3. CASE Commit
  BY <1>3 DEF Commit, driver, Typing, TypeOK, Program
<1>4. CASE RunAlarm
  BY <1>4 DEF RunAlarm, driver, Typing, TypeOK, Program
<1>5. CASE DeadlinePasses
  BY <1>5 DEF DeadlinePasses, celld, driver, Typing, TypeOK, Program
<1>6. CASE Fence
  BY <1>6 DEF Fence, Ends, driver, Typing, TypeOK, Program
<1>. QED BY <1>1, <1>2, <1>3, <1>4, <1>5, <1>6 DEF Process

\* The driver's controls keep the types.
LEMMA ControlTyping ==
  ASSUME Typing, Course, DockerStop \/ DockerKill \/ DockerStart \/ Minio \/ Observe \/ Replace
  PROVE  Typing'
<1>1. /\ Advance /\ UNCHANGED <<case, clock, outcomes, generation>>
      /\ \E op : At(op)
  BY DEF DockerStop, DockerKill, DockerStart, Minio, Observe, Replace, celld
<1>2. pc' \in 1..(Len(Program) + 1) /\ verdict' \in {"running", "failed"} /\ Program' = Program
  BY <1>1, StepsOn DEF Program
<1>3. CASE DockerStop \/ DockerKill
  <2>1. /\ UNCHANGED <<disk, store, containerId, memory>> /\ bucket' \in {bucket, disk}
        /\ \/ process' \in {"exit0", "exit137"} /\ active' = FALSE /\ flying' = {}
           \/ UNCHANGED <<process, active, flying>>
    BY <1>3 DEF DockerStop, DockerKill, Ends
  <2>2. bucket' \subseteq Items \cup {Fired}
    BY <2>1 DEF Typing, TypeOK
  <2>3. /\ process' \in {"up", "exit0", "exit3", "exit137", "created"} /\ active' \in BOOLEAN
        /\ flying' \subseteq Ids
        /\ (active' => process' = "up") /\ (process' # "up" => flying' = {})
    <3>1. CASE process' \in {"exit0", "exit137"} /\ active' = FALSE /\ flying' = {}
      BY <3>1
    <3>2. CASE process' = process /\ active' = active /\ flying' = flying
      BY <3>2 DEF Typing, TypeOK
    <3>. QED BY <2>1, <3>1, <3>2
  <2>4. verdict' = "pass" => pc' > Len(Program)
    BY <1>2
  <2>. QED BY <2>1, <2>2, <2>3, <2>4, <1>1, <1>2 DEF Typing, TypeOK
<1>4. CASE DockerStart
  BY <1>1, <1>2, <1>4 DEF DockerStart, Typing, TypeOK
<1>5. CASE Minio
  <2>1. /\ UNCHANGED <<process, active, flying, disk, bucket, containerId, memory>>
        /\ \/ store' = [store EXCEPT !.up = FALSE]
           \/ store' = [up |-> TRUE, starts |-> store.starts + 1]
    BY <1>5 DEF Minio
  <2>2. store' \in [up : BOOLEAN, starts : Nat]
    <3>1. store \in [up : BOOLEAN, starts : Nat] /\ store.starts \in Nat
      BY DEF Typing
    <3>2. CASE store' = [store EXCEPT !.up = FALSE]
      BY <3>1, <3>2
    <3>3. CASE store' = [up |-> TRUE, starts |-> store.starts + 1]
      BY <3>1, <3>3
    <3>. QED BY <2>1, <3>2, <3>3
  <2>3. store'.up \in BOOLEAN /\ store'.starts \in Nat
    BY <2>2
  <2>. QED BY <2>1, <2>2, <2>3, <1>1, <1>2 DEF Typing, TypeOK
<1>6. CASE Observe
  <2>1. UNCHANGED <<process, active, flying, disk, bucket, containerId, store>>
    BY <1>6 DEF Observe, celld
  <2>2. memory' \in [seeded : Nat, recovered : SUBSET (Items \cup {Fired}), container : Nat, minio : Nat]
    BY <1>6 DEF Observe, Typing, TypeOK
  <2>. QED BY <2>1, <2>2, <1>1, <1>2 DEF Typing, TypeOK
<1>7. CASE Replace
  <2>1. UNCHANGED <<active, flying, bucket, store, memory>>
    BY <1>7 DEF Replace
  <2>2. CASE At("remove") /\ disk' = {} /\ UNCHANGED <<process, containerId>>
    BY <2>1, <2>2, <1>1, <1>2 DEF Typing, TypeOK
  <2>3. CASE At("create") /\ process' = "created" /\ containerId' = containerId + 1 /\ UNCHANGED disk
    <3>1. <<"create", Stage, NextStage>> \in Moves(case) /\ case \in Simple \cup AlarmCases \cup {Outage}
      BY <2>3, AtStep
    <3>2. Stage = "removed"
      BY <3>1, MovesMean
    <3>3. process # "up"
      BY <3>2 DEF Course, Upright
    <3>. QED BY <2>1, <2>3, <3>3, <1>1, <1>2 DEF Typing, TypeOK
  <2>. QED BY <2>2, <2>3, <1>7 DEF Replace
<1>. QED BY <1>3, <1>4, <1>5, <1>6, <1>7

\* The driver's looks, requests and reads keep the types.
LEMMA RequestTyping ==
  ASSUME Typing, Look \/ Survivor \/ Send \/ Acknowledge \/ Classify \/ Read \/ ReadFails \/ Finish
  PROVE  Typing'
<1>1. CASE Look \/ ReadFails
  <2>1. /\ UNCHANGED <<celld, clock, case, outcomes, memory>>
        /\ (Advance \/ Fail) /\ \E op : At(op)
    BY <1>1 DEF Look, ReadFails, Expect
  <2>. QED BY <2>1, StepsOn, TypingMoved
<1>2. CASE Survivor
  <2>1. At("survivor") /\ UNCHANGED <<celld, clock, case, outcomes, memory>>
    BY <1>2 DEF Survivor
  <2>2. CASE Advance \/ Fail
    BY <2>1, <2>2, StepsOn, TypingMoved
  <2>3. CASE pc' = pc + 3 /\ UNCHANGED verdict
    <3>1. pc <= Len(Program) /\ Step.op = "survivor" /\ verdict = "running"
      BY <2>1 DEF At
    <3>2. pc' \in 1..(Len(Program) + 1)
      BY <3>1, <2>3, StageFacts
    <3>. QED BY <2>1, <2>3, <3>1, <3>2, TypingMoved
  <2>. QED BY <2>2, <2>3, <1>2 DEF Survivor
<1>3. CASE Send
  <2>1. PICK op \in {"write", "try"} : At(op)
    BY <1>3 DEF Send
  <2>2. Step.id \in Ids
    BY <2>1, AtStep
  <2>3. /\ UNCHANGED <<process, generation, active, disk, bucket, store, containerId, clock,
                       case, pc, verdict, memory>>
        /\ outcomes' = [outcomes EXCEPT ![Step.id] = "sent"]
        /\ flying' = IF process = "up" THEN flying \cup {Step.id} ELSE flying
    BY <1>3 DEF Send
  <2>. QED BY <2>2, <2>3 DEF Typing, TypeOK, Program
<1>4. CASE Acknowledge \/ Classify
  <2>1. PICK op \in {"write", "try"} : At(op)
    BY <1>4 DEF Acknowledge, Classify, Awaiting
  <2>2. Step.id \in Ids
    BY <2>1, AtStep
  <2>3. /\ UNCHANGED <<celld, clock, case>> /\ (Advance \/ Fail)
        /\ \E answer \in {"acked", "uncertain"} : outcomes' = [outcomes EXCEPT ![Step.id] = answer]
    BY <1>4 DEF Acknowledge, Classify, Expect
  <2>4. outcomes' \in [Ids -> {"none", "sent", "acked", "uncertain"}]
    BY <2>2, <2>3 DEF Typing, TypeOK
  <2>5. memory' \in [seeded : Nat, recovered : SUBSET (Items \cup {Fired}), container : Nat, minio : Nat]
    BY <1>4 DEF Acknowledge, Classify, Typing, TypeOK
  <2>6. pc' \in 1..(Len(Program) + 1) /\ verdict' \in {"running", "failed"}
    BY <2>1, <2>3, StepsOn
  <2>. QED BY <2>3, <2>4, <2>5, <2>6 DEF Typing, TypeOK, celld, Program
<1>5. CASE Read
  <2>1. /\ UNCHANGED <<celld, clock, case, outcomes>> /\ (Advance \/ Fail)
        /\ \E op : At(op)
    BY <1>5 DEF Read, Expect
  <2>2. memory' = memory \/ memory' = [memory EXCEPT !.recovered = disk]
    BY <1>5 DEF Read
  <2>3. memory' \in [seeded : Nat, recovered : SUBSET (Items \cup {Fired}), container : Nat, minio : Nat]
    BY <2>2 DEF Typing, TypeOK
  <2>4. pc' \in 1..(Len(Program) + 1) /\ verdict' \in {"running", "failed"}
    BY <2>1, StepsOn
  <2>. QED BY <2>1, <2>3, <2>4 DEF Typing, TypeOK, celld, Program
<1>6. CASE Finish
  BY <1>6 DEF Finish, Typing, TypeOK, celld, Program
<1>. QED BY <1>1, <1>2, <1>3, <1>4, <1>5, <1>6

\* After a failure the controls are not used any more.
LEMMA TypingStep ==
  ASSUME Typing, verdict # "failed" => Course, [Next]_vars
  PROVE  Typing'
<1>1. CASE UNCHANGED vars
  BY <1>1 DEF vars, celld, driver, Typing, TypeOK, Program
<1>2. CASE Process \/ DeadlinePasses \/ Fence
  BY <1>2, ProcessTyping
<1>3. CASE Look \/ Survivor \/ Send \/ Acknowledge \/ Classify \/ Read \/ ReadFails \/ Finish
  BY <1>3, RequestTyping
<1>4. CASE DockerStop \/ DockerKill \/ DockerStart \/ Minio \/ Observe \/ Replace
  <2>1. verdict = "running"
    BY <1>4 DEF DockerStop, DockerKill, DockerStart, Minio, Observe, Replace, At
  <2>. QED BY <2>1, <1>4, ControlTyping
<1>. QED BY <1>1, <1>2, <1>3, <1>4 DEF Next, Driver

\* As long as a case has not failed, its stage says what holds.
LEMMA CourseStep ==
  ASSUME Typing, AlarmOnce, Course, verdict # "failed", verdict' # "failed", [Next]_vars
  PROVE  Course'
<1>1. CASE UNCHANGED vars
  <2>1. Stage' = Stage
    BY <1>1, SameStage DEF vars, driver
  <2>2. UNCHANGED <<process, generation, active, flying, disk, bucket, store, containerId, clock,
                    case, pc, outcomes, memory, betrayed, unsaved, ends, alarmRan, dueUp>>
    BY <1>1 DEF vars, celld, driver, ghosts
  <2>3. KindMatches' /\ Upright' /\ EndsMatch' /\ Activations'
    BY <2>1, <2>2 DEF Course, KindMatches, Upright, EndsMatch, FirstEnds, Activations
  <2>4. Requests'
    BY <2>1, <2>2 DEF Course, Requests, Asked, Step, Program
  <2>5. Deadlines' /\ Savings'
    BY <2>1, <2>2 DEF Course, Deadlines, Savings
  <2>6. Betrayals' /\ Contents'
    BY <2>1, <2>2, SameContents DEF Course, Betrayals, Contents
  <2>. QED BY <2>3, <2>4, <2>5, <2>6 DEF Course
<1>2. CASE Process \/ DeadlinePasses \/ Fence
  BY <1>2, ActivateKeeps, ExecuteKeeps, CommitKeeps, RunAlarmKeeps, DeadlineKeeps, FenceKeeps DEF Process
<1>3. CASE Look \/ Survivor
  BY <1>3, LookKeeps, SurvivorKeeps
<1>4. CASE DockerStop \/ DockerKill \/ DockerStart \/ Minio \/ Observe \/ Replace
  BY <1>4, DockerStopKeeps, DockerKillKeeps, DockerStartKeeps, MinioKeeps, ObserveKeeps, ReplaceKeeps
<1>5. CASE Send \/ Acknowledge \/ Classify
  BY <1>5, SendKeeps, AcknowledgeKeeps, ClassifyKeeps
<1>6. CASE Read
  <2>1. \/ At("before") \/ At("recovered")
        \/ \E op \in {"recovers", "poll", "final"} : At(op)
    BY <1>6 DEF Read
  <2>. QED BY <2>1, <1>6, BeforeKeeps, RecoveredKeeps, LastReadKeeps
<1>7. CASE ReadFails
  BY <1>7 DEF ReadFails, Fail
<1>8. CASE Finish
  BY <1>8, FinishKeeps
<1>. QED BY <1>1, <1>2, <1>3, <1>4, <1>5, <1>6, <1>7, <1>8 DEF Next, Driver

\* A case that fails does so for one of the reasons that are not celld's.
LEMMA FailsRightly ==
  ASSUME Typing, AlarmOnce, Course, verdict # "failed", verdict' = "failed", [Next]_vars
  PROVE  NoFalseAlarm'
<1>1. Look \/ Survivor \/ Classify \/ Read \/ ReadFails
  BY DEF Next, Process, Driver, vars, driver, Activate, Execute, Commit, RunAlarm, DeadlinePasses,
       Fence, DockerStop, DockerKill, DockerStart, Minio, Observe, Replace, Send, Acknowledge,
       Finish, Advance
<1>. QED BY <1>1, LookFailsRightly, SurvivorFailsRightly, WriteSucceeds, ReadFailsRightly,
            UnansweredRightly

\* Every case begins in stage "fresh", with nothing written.
LEMMA InitHolds == ASSUME Init PROVE IInv
<1>. USE DEF Init
<1>1. case \in Cases /\ IsLabelling(case, StagesOf(case)) /\ \E S : Program \in Seq(S)
  BY CasesHaveStages DEF Program
<1>2. Stage = "fresh" /\ Len(Program) \in Nat
  BY <1>1 DEF IsLabelling, Stage
<1>3. Typing
  <2>1. /\ store \in [up : BOOLEAN, starts : Nat]
        /\ memory \in [seeded : Nat, recovered : SUBSET (Items \cup {Fired}), container : Nat, minio : Nat]
    BY DEF NoMemory
  <2>2. pc \in 1..(Len(Program) + 1)
    BY <1>2
  <2>. QED BY <2>1, <2>2, <1>1 DEF Typing, TypeOK
<1>4. AlarmOnce /\ NoFalseAlarm
  BY DEF AlarmOnce, NoFalseAlarm
<1>5. \A i \in Ids : outcomes[i] = "none"
  OBVIOUS
<1>6. KindMatches /\ Upright /\ EndsMatch
  BY <1>2 DEF KindMatches, Upright, EndsMatch, Stages, First, Down, Second, Again, Late
<1>7. Activations
  BY <1>2 DEF Activations
<1>8. Requests
  BY <1>2, <1>5, IdFacts DEF Requests, Late, Again
<1>9. Deadlines
  BY <1>2 DEF Deadlines
<1>10. Betrayals
  BY <1>2 DEF Betrayals
<1>11. Contents
  BY <1>2, <1>5, IdFacts DEF Contents, Whole, Unheard, Late, Again, NoMemory
<1>12. Savings
  BY <1>2 DEF Savings
<1>. QED BY <1>3, <1>4, <1>6, <1>7, <1>8, <1>9, <1>10, <1>11, <1>12 DEF IInv, Course

\* The invariant is inductive.
LEMMA IInvariance == Spec => []IInv
<1>1. Init => IInv
  BY InitHolds
<1>2. IInv /\ [Next]_vars => IInv'
  <2>. SUFFICES ASSUME IInv, [Next]_vars PROVE IInv'
    OBVIOUS
  <2>1. Typing' /\ AlarmOnce'
    BY TypingStep, AlarmOnceStep DEF IInv
  <2>2. CASE verdict = "failed"
    BY <2>1, <2>2, FailureStays DEF IInv
  <2>3. CASE verdict # "failed" /\ verdict' = "failed"
    BY <2>1, <2>3, FailsRightly DEF IInv
  <2>4. CASE verdict # "failed" /\ verdict' # "failed"
    BY <2>1, <2>4, CourseStep DEF IInv, NoFalseAlarm
  <2>. QED BY <2>2, <2>3, <2>4
<1>. QED BY <1>1, <1>2, PTL DEF Spec

\* Theorem: the process, the store, the clock and the driver's memory keep their types, a
\* process that does not run has no active cell and no request, and a case passes only at
\* the end of its program.
THEOREM RecoveryTypeCorrect == Spec => []TypeOK
<1>1. IInv => TypeOK
  BY DEF IInv, Typing
<1>. QED BY <1>1, IInvariance, PTL

\* Theorem: before celld has broken a promise, a case fails only because Docker had to
\* kill a process that was asked to stop, the alarm was due before the process was proved
\* stopped, or the node fenced itself between prepareRestart's look at it and its kill
\* (Local.ts 428-451, 505-518; Recovery.ts 226-247; Outage.ts 43-64).
THEOREM FailuresAreNotFalse == Spec => []NoFalseAlarm
<1>1. IInv => NoFalseAlarm
  BY DEF IInv
<1>. QED BY <1>1, IInvariance, PTL

\* Theorem: no case passes when the cell lost, tore or invented a transaction, or dropped
\* one that an earlier read had shown (Recovery.ts 61-86, Outage.ts 43-64, 131-135).
THEOREM EveryBetrayalIsCaught == Spec => []LossIsCaught
<1>1. IInv => LossIsCaught
  <2>. SUFFICES ASSUME IInv, verdict = "pass" PROVE ~betrayed
    BY DEF LossIsCaught
  <2>1. Typing /\ Course
    BY DEF IInv
  <2>2. pc > Len(Program)
    BY <2>1 DEF Typing, TypeOK
  <2>3. Stage = "passed"
    BY <2>1, <2>2, StageFacts
  <2>. QED BY <2>1, <2>3 DEF Course, Betrayals
<1>. QED BY <1>1, IInvariance, PTL

\* Theorem: a case that passes has seen what it is named for: the process ended as the
\* case demands, an overdue alarm fell due while nothing ran and was run by a later
\* activation, and after the loss of the disk nothing acknowledged was missing from the
\* store (Local.ts 443-489, 505-518; Recovery.ts 226-258).
THEOREM PassesMeanTheirName == Spec => []PassProvesItsName
<1>1. IInv => PassProvesItsName
  <2>. SUFFICES ASSUME IInv, verdict = "pass" PROVE PassProvesItsName
    BY DEF PassProvesItsName
  <2>1. Typing /\ Course
    BY DEF IInv
  <2>2. pc > Len(Program)
    BY <2>1 DEF Typing, TypeOK
  <2>3. Stage = "passed" /\ case \in Simple \cup AlarmCases \cup {Outage}
    BY <2>1, <2>2, StageFacts
  <2>4. ends \in IF case = Outage THEN BothEnds ELSE FirstEnds
    BY <2>1, <2>3 DEF Course, EndsMatch
  <2>5. case \in Graceful => ends = <<"exit0">>
    BY <2>4 DEF FirstEnds, Graceful, Outage
  <2>6. case \in {"crash"} \cup AlarmCases => ends = <<"exit137">>
    BY <2>4 DEF FirstEnds, Graceful, AlarmCases, Outage
  <2>7. case = Outage => ends \in {"exit3", "exit137"} \X {"exit137"}
    BY <2>4 DEF BothEnds
  <2>8. case \in AlarmCases => ~dueUp /\ alarmRan > memory.seeded
    <3>1. case \in AlarmCases => ~dueUp /\ alarmRan = 2
      BY <2>1, <2>3 DEF Course, Deadlines
    <3>2. memory.seeded = 1
      BY <2>1, <2>3 DEF Course, Activations
    <3>. QED BY <3>1, <3>2
  <2>9. case = "diskLoss" => unsaved = {}
    BY <2>1, <2>3 DEF Course, Savings
  <2>10. CASE case \in Graceful
    <3>1. case \in {"graceful", "facets"} /\ case \notin {"crash"} \cup AlarmCases /\ case # "storageOutage"
      BY <2>10 DEF Graceful, AlarmCases
    <3>. QED BY <2>5, <2>8, <2>9, <2>10, <3>1 DEF PassProvesItsName
  <2>11. CASE case \in {"crash"} \cup AlarmCases
    <3>1. case \notin {"graceful", "facets"} /\ case # "storageOutage"
      BY <2>11 DEF AlarmCases
    <3>. QED BY <2>6, <2>8, <2>9, <2>11, <3>1 DEF PassProvesItsName
  <2>12. CASE case = Outage
    <3>1. case \notin {"graceful", "facets"} /\ case \notin {"crash"} \cup AlarmCases
      BY <2>12 DEF AlarmCases, Outage
    <3>. QED BY <2>7, <2>8, <2>9, <2>12, <3>1 DEF PassProvesItsName, Outage
  <2>. QED BY <2>3, <2>10, <2>11, <2>12 DEF Simple
<1>. QED BY <1>1, IInvariance, PTL
=============================================================================
