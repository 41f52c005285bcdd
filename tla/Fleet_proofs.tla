---------------------------- MODULE Fleet_proofs ----------------------------
(***************************************************************************)
(* Proofs about the fault scenarios, for any number of nodes, writes and   *)
(* rounds and any choice of scenarios: whatever the fleet, the driver and  *)
(* an interruption do, the end of the scope leaves nothing broken.         *)
(*                                                                         *)
(* The argument has two halves.  Every program is sound: a step that       *)
(* breaks something stands right after the one that says how to mend it,   *)
(* and no jump lands between the two.  And what is broken is always on     *)
(* the list from which the scope is closed, because a sound program puts   *)
(* it there first.                                                         *)
(***************************************************************************)
EXTENDS Fleet, SequenceLemmas

-----------------------------------------------------------------------------
(* The programs are sound.                                                 *)

\* The steps that may only follow another one: to freeze a node, to forget that
\* it is frozen, to limit its memory, to take it off its peers' network.
Dependent == {"pause", "forget", "limit", "unpair"}

\* Step d makes step e safe.
Prepares(d, e) ==
  /\ d.at = e.at
  /\ e.op = "pause"  => d.op = "reserve"
  /\ e.op = "forget" => d.op = "unpause"
  /\ e.op = "limit"  => d.op = "guard" /\ d.what = "limit"
  /\ e.op = "unpair" => d.op = "guard" /\ d.what = "peers"

StepIsSound(p, i) ==
  /\ p[i].op \in Dependent => i > 1 /\ Prepares(p[i - 1], p[i])
  /\ p[i].op = "unless" =>
       /\ p[i].skip \in Nat /\ i + p[i].skip <= Len(p)
       /\ i + p[i].skip < Len(p) => p[i + 1 + p[i].skip].op \notin Dependent

\* A program, or a part of one.
Sound(p) ==
  /\ \E S : p \in Seq(S)
  /\ \A i \in 1..Len(p) : StepIsSound(p, i)

\* The steps that depend on nothing.
Plain(e) == e.op \notin Dependent \cup {"unless"}

\* The empty program is sound.
LEMMA EmptyIsSound == Sound(<<>>)
<1>1. <<>> \in Seq({}) /\ Len(<<>>) = 0
  BY EmptySeq
<1>. QED BY <1>1 DEF Sound

\* A single plain step is sound.
LEMMA SingleIsSound ==
  ASSUME NEW e, Plain(e)
  PROVE  Sound(<<e>>)
<1>1. <<e>> \in Seq({e}) /\ Len(<<e>>) = 1 /\ <<e>>[1] = e
  OBVIOUS
<1>2. StepIsSound(<<e>>, 1)
  BY <1>1 DEF StepIsSound, Plain
<1>3. \A i \in 1..Len(<<e>>) : i = 1
  BY <1>1
<1>. QED BY <1>1, <1>2, <1>3 DEF Sound

\* A sound part behind m steps keeps its steps sound.
LEMMA ShiftIsSound ==
  ASSUME NEW q, Sound(q), Len(q) \in Nat, NEW m \in Nat, NEW r, Len(r) = m + Len(q),
         \A i \in 1..Len(q) : r[m + i] = q[i]
  PROVE  \A i \in 1..Len(q) : StepIsSound(r, m + i)
<1>. SUFFICES ASSUME NEW j \in 1..Len(q) PROVE StepIsSound(r, m + j)
  OBVIOUS
<1>1. StepIsSound(q, j) /\ r[m + j] = q[j] /\ j \in Nat
  BY DEF Sound
<1>2. PICK i : i = m + j
  OBVIOUS
<1>3. i \in Nat /\ r[i] = q[j]
  BY <1>1, <1>2
<1>4. j > 1 => i > 1 /\ r[i - 1] = q[j - 1]
  <2>1. ASSUME j > 1 PROVE j - 1 \in 1..Len(q) /\ i - 1 = m + (j - 1) /\ i > 1
    BY <2>1, <1>2
  <2>. QED BY <2>1
<1>5. r[i].op \in Dependent => i > 1 /\ Prepares(r[i - 1], r[i])
  BY <1>1, <1>3, <1>4 DEF StepIsSound
<1>6. ASSUME r[i].op = "unless"
      PROVE  /\ r[i].skip \in Nat /\ i + r[i].skip <= Len(r)
             /\ i + r[i].skip < Len(r) => r[i + 1 + r[i].skip].op \notin Dependent
  <2>1. PICK k : k = r[i].skip
    OBVIOUS
  <2>2. /\ k \in Nat /\ j + k <= Len(q)
        /\ j + k < Len(q) => q[j + 1 + k].op \notin Dependent
    BY <1>1, <1>3, <1>6, <2>1 DEF StepIsSound
  <2>3. i + k <= Len(r) /\ (i + k < Len(r) <=> j + k < Len(q))
    BY <2>2, <1>1, <1>2
  <2>4. ASSUME j + k < Len(q) PROVE r[i + 1 + k] = q[j + 1 + k]
    <3>1. j + 1 + k \in 1..Len(q) /\ i + 1 + k = m + (j + 1 + k)
      BY <2>2, <2>4, <1>1, <1>2
    <3>. QED BY <3>1
  <2>. QED BY <2>1, <2>2, <2>3, <2>4
<1>7. StepIsSound(r, i)
  BY <1>5, <1>6 DEF StepIsSound
<1>. QED BY <1>2, <1>7

\* Sound parts make a sound program: a jump out of the first part lands on the
\* first step of the second, which depends on nothing.
LEMMA ConcatIsSound ==
  ASSUME NEW p, NEW q, Sound(p), Sound(q)
  PROVE  Sound(p \o q)
<1>. DEFINE r == p \o q
<1>1. /\ \E S : p \in Seq(S)
      /\ \E S : q \in Seq(S)
  BY DEF Sound
<1>2. /\ \E S : r \in Seq(S)
      /\ Len(p) \in Nat /\ Len(q) \in Nat
      /\ Len(r) = Len(p) + Len(q)
      /\ \A i \in 1..Len(p) : r[i] = p[i]
      /\ \A i \in 1..Len(q) : r[Len(p) + i] = q[i]
  BY <1>1, ConcatOfParts
<1>. HIDE DEF r
<1>3. ASSUME NEW i \in 1..Len(p) PROVE StepIsSound(r, i)
  <2>1. StepIsSound(p, i) /\ r[i] = p[i] /\ i \in Nat
    BY <1>2 DEF Sound
  <2>2. i > 1 => r[i - 1] = p[i - 1]
    BY <1>2
  <2>3. r[i].op \in Dependent => i > 1 /\ Prepares(r[i - 1], r[i])
    BY <2>1, <2>2 DEF StepIsSound
  <2>4. ASSUME r[i].op = "unless"
        PROVE  /\ r[i].skip \in Nat /\ i + r[i].skip <= Len(r)
               /\ i + r[i].skip < Len(r) => r[i + 1 + r[i].skip].op \notin Dependent
    <3>1. PICK k : k = r[i].skip
      OBVIOUS
    <3>2. /\ k \in Nat /\ i + k <= Len(p)
          /\ i + k < Len(p) => p[i + 1 + k].op \notin Dependent
      BY <2>1, <2>4, <3>1 DEF StepIsSound
    <3>3. CASE i + k < Len(p)
      <4>1. i + 1 + k \in 1..Len(p)
        BY <3>2, <3>3, <1>2
      <4>. QED BY <4>1, <3>1, <3>2, <3>3, <1>2
    <3>4. CASE i + k = Len(p)
      <4>1. ASSUME Len(q) > 0 PROVE r[i + 1 + k].op \notin Dependent
        <5>1. 1 \in 1..Len(q) /\ i + 1 + k = Len(p) + 1
          BY <4>1, <3>4, <3>2, <1>2
        <5>2. r[i + 1 + k] = q[1]
          BY <5>1, <1>2
        <5>3. StepIsSound(q, 1)
          BY <5>1 DEF Sound
        <5>4. ~(1 > 1)
          OBVIOUS
        <5>. QED BY <5>2, <5>3, <5>4 DEF StepIsSound
      <4>2. Len(q) > 0 <=> i + k < Len(r)
        BY <3>2, <3>4, <1>2
      <4>. QED BY <4>1, <4>2, <3>1, <3>2, <3>4, <1>2
    <3>. QED BY <3>2, <3>3, <3>4, <1>2
  <2>. QED BY <2>3, <2>4 DEF StepIsSound
<1>4. \A j \in 1..Len(q) : StepIsSound(r, Len(p) + j)
  BY <1>2, ShiftIsSound
<1>5. ASSUME NEW i \in 1..Len(r) PROVE i \in 1..Len(p) \/ \E j \in 1..Len(q) : i = Len(p) + j
  <2>. i \in Nat /\ i >= 1 /\ i <= Len(p) + Len(q) /\ Len(p) \in Nat /\ Len(q) \in Nat
    BY <1>2
  <2>1. CASE i <= Len(p)
    BY <2>1
  <2>2. CASE i > Len(p)
    <3>1. i - Len(p) \in 1..Len(q) /\ i = Len(p) + (i - Len(p))
      BY <2>2
    <3>. QED BY <3>1
  <2>. QED BY <2>1, <2>2
<1>6. Sound(r)
  BY <1>2, <1>3, <1>4, <1>5 DEF Sound
<1>. QED BY <1>6 DEF r

\* A step that needs another one, right after it.
LEMMA PairIsSound ==
  ASSUME NEW d, NEW e, Plain(d), e.op \in Dependent, Prepares(d, e)
  PROVE  Sound(<<d>> \o <<e>>)
<1>. PICK p : p = <<d>> \o <<e>>
  OBVIOUS
<1>1. p \in Seq({d, e}) /\ Len(p) = 2 /\ p[1] = d /\ p[2] = e
  OBVIOUS
<1>2. e.op # "unless"
  BY DEF Dependent
<1>3. StepIsSound(p, 1)
  BY <1>1 DEF StepIsSound, Plain
<1>4. StepIsSound(p, 2)
  BY <1>1, <1>2 DEF StepIsSound
<1>5. \A i \in 1..Len(p) : i = 1 \/ i = 2
  BY <1>1
<1>. QED BY <1>1, <1>3, <1>4, <1>5 DEF Sound

\* The same after a plain step.
LEMMA TripleIsSound ==
  ASSUME NEW b, NEW d, NEW e, Plain(b), Plain(d), e.op \in Dependent, Prepares(d, e)
  PROVE  Sound(<<b>> \o <<d>> \o <<e>>)
<1>1. <<b>> \o <<d>> \o <<e>> = <<b>> \o (<<d>> \o <<e>>)
  OBVIOUS
<1>. QED BY <1>1, SingleIsSound, PairIsSound, ConcatIsSound

\* A jump over a sound part, to right behind it.
LEMMA SkipIsSound ==
  ASSUME NEW e, e.op = "unless", NEW q, Sound(q), e.skip = Len(q)
  PROVE  Sound(<<e>> \o q)
<1>. DEFINE p == <<e>> \o q
<1>1. /\ \E S : <<e>> \in Seq(S)
      /\ \E S : q \in Seq(S)
  <2>1. <<e>> \in Seq({e})
    OBVIOUS
  <2>. QED BY <2>1 DEF Sound
<1>2. Len(<<e>>) = 1 /\ <<e>>[1] = e /\ 1 \in 1..Len(<<e>>)
  OBVIOUS
<1>3. /\ \E S : p \in Seq(S)
      /\ Len(q) \in Nat
      /\ Len(p) = 1 + Len(q)
      /\ p[1] = e
      /\ \A i \in 1..Len(q) : p[1 + i] = q[i]
  <2>. HIDE DEF p
  <2>1. PICK h : h = <<e>>
    OBVIOUS
  <2>2. p = h \o q /\ Len(h) = 1 /\ h[1] = e /\ \E S : h \in Seq(S)
    BY <2>1, <1>1, <1>2 DEF p
  <2>. QED BY <2>2, <1>1, ConcatOfParts
<1>. HIDE DEF p
<1>4. StepIsSound(p, 1)
  BY <1>3 DEF StepIsSound, Dependent
<1>5. \A i \in 1..Len(q) : StepIsSound(p, 1 + i)
  BY <1>3, ShiftIsSound
<1>6. ASSUME NEW i \in 1..Len(p), i # 1 PROVE i - 1 \in 1..Len(q) /\ i = 1 + (i - 1)
  BY <1>3, <1>6
<1>7. \A i \in 1..Len(p) : StepIsSound(p, i)
  BY <1>4, <1>5, <1>6
<1>8. Sound(p)
  BY <1>3, <1>7 DEF Sound
<1>. QED BY <1>8 DEF p

\* A loop over a sequence that is not empty is sound when each round is.
LEMMA LoopIsSound ==
  ASSUME NEW n \in Nat \ {0}, NEW seqs, seqs = [i \in 1..n |-> seqs[i]],
         \A i \in 1..n : Sound(seqs[i])
  PROVE  Sound(FlattenSeq(seqs))
<1>1. seqs \in Seq({seqs[i] : i \in 1..n}) /\ Len(seqs) = n
  <2>1. seqs \in [1..n -> {seqs[i] : i \in 1..n}]
    OBVIOUS
  <2>. QED BY <2>1
<1>0. PICK U : \A i \in 1..n : seqs[i] \in Seq(U)
  BY CommonElements DEF Sound
<1>. DEFINE G == {p \in Seq(U) : Sound(p)}
<1>2. \A i \in 1..n : seqs[i] \in G
  BY <1>0
<1>3. ASSUME NEW p \in G, NEW q \in G PROVE p \o q \in G
  <2>1. p \in Seq(U) /\ q \in Seq(U) /\ Sound(p) /\ Sound(q)
    OBVIOUS
  <2>2. p \o q \in Seq(U)
    BY <2>1
  <2>. QED BY <2>1, <2>2, ConcatIsSound
<1>4. FlattenSeq(seqs) \in G
  <2>. HIDE DEF G
  <2>. QED BY <1>1, <1>2, <1>3, FlattenKeeps
<1>. QED BY <1>4

\* A plain step at each of some nodes.
LEMMA DoAllIsSound ==
  ASSUME NEW S, NEW nodes \in Seq(S), NEW op, op \notin Dependent \cup {"unless"}
  PROVE  Sound(DoAll(op, nodes))
<1>. PICK p : p = DoAll(op, nodes)
  OBVIOUS
<1>1. Len(nodes) \in Nat /\ DOMAIN nodes = 1..Len(nodes)
  BY LenProperties
<1>2. p = [i \in 1..Len(nodes) |-> [op |-> op, at |-> nodes[i]]]
  BY <1>1 DEF DoAll
<1>3. p \in Seq({p[i] : i \in 1..Len(nodes)}) /\ Len(p) = Len(nodes)
  <2>1. p \in [1..Len(nodes) -> {p[i] : i \in 1..Len(nodes)}]
    BY <1>2
  <2>. QED BY <2>1, <1>1
<1>4. \A i \in 1..Len(p) : p[i].op = op
  BY <1>2, <1>3
<1>5. \A i \in 1..Len(p) : StepIsSound(p, i)
  BY <1>4 DEF StepIsSound
<1>. QED BY <1>3, <1>5 DEF Sound

\* The steps that depend on nothing, one by one.
LEMMA PlainSteps ==
  ASSUME NEW at
  PROVE  /\ \A op : op \notin Dependent \cup {"unless"} => Sound(Do(op, at)) /\ Sound(Simply(op))
         /\ \A entries, strict : Sound(Send(entries, strict))
         /\ \A what : Sound(Guard(what, at))
         /\ \A register : Sound(Owner(register))
         /\ \A peers, running : Sound(Ensemble(peers, running))
         /\ \A retry : Sound(Enqueue(retry))
         /\ \A times : Sound(Drained(times))
<1>1. ASSUME NEW op, op \notin Dependent \cup {"unless"}
      PROVE  Sound(Do(op, at)) /\ Sound(Simply(op))
  BY <1>1, SingleIsSound DEF Plain, Do, Simply
<1>2. ASSUME NEW entries, NEW strict PROVE Sound(Send(entries, strict))
  BY SingleIsSound DEF Plain, Send, Dependent
<1>3. ASSUME NEW what PROVE Sound(Guard(what, at))
  BY SingleIsSound DEF Plain, Guard, Dependent
<1>4. ASSUME NEW register PROVE Sound(Owner(register))
  BY SingleIsSound DEF Plain, Owner, Dependent
<1>5. ASSUME NEW peers, NEW running PROVE Sound(Ensemble(peers, running))
  BY SingleIsSound DEF Plain, Ensemble, Dependent
<1>6. ASSUME NEW retry PROVE Sound(Enqueue(retry))
  BY SingleIsSound DEF Plain, Enqueue, Dependent
<1>7. ASSUME NEW times PROVE Sound(Drained(times))
  BY SingleIsSound DEF Plain, Drained, Dependent
<1>. QED BY <1>1, <1>2, <1>3, <1>4, <1>5, <1>6, <1>7

\* What the fleet's controls do to one node.
LEMMA ControlsAreSound ==
  ASSUME NEW n
  PROVE  /\ Sound(Pause(n)) /\ Sound(Unpause(n)) /\ Sound(Kill(n))
         /\ Sound(Partition(n)) /\ Sound(Reconnect(n)) /\ Sound(Fenced(n))
         /\ Sound(LeaseLapse) /\ Sound(Start(n)) /\ Sound(KillIfRunning(n))
         /\ Sound(Verify(n)) /\ Sound(Check(n)) /\ Sound(Readable(n)) /\ Sound(Discard(n))
         /\ Sound(Join) /\ Sound(Leave) /\ Sound(WriteAcknowledged(n))
         /\ Sound(PartitionPeers(n)) /\ \A size : Sound(MemoryLimit(n, size))
<1>0. "unless" \notin Dependent
  BY DEF Dependent
<1>1. Sound(Pause(n))
  <2>1. Sound(Do("running", n) \o Do("reserve", n) \o Do("pause", n))
    BY TripleIsSound DEF Do, Plain, Prepares, Dependent
  <2>2. Sound(Do("frozen", n))
    BY PlainSteps DEF Dependent
  <2>. QED BY <2>1, <2>2, ConcatIsSound DEF Pause
<1>2. Sound(Unpause(n))
  <2>1. Sound(Do("unpause", n) \o Do("forget", n))
    BY PairIsSound DEF Do, Plain, Prepares, Dependent
  <2>2. Sound(Do("thawed", n))
    BY PlainSteps DEF Dependent
  <2>. QED BY <2>1, <2>2, ConcatIsSound DEF Unpause
<1>3. Sound(PartitionPeers(n))
  BY TripleIsSound DEF PartitionPeers, Guard, Do, Plain, Prepares, Dependent
<1>4. ASSUME NEW size PROVE Sound(MemoryLimit(n, size))
  BY PairIsSound DEF MemoryLimit, Guard, Plain, Prepares, Dependent
<1>5. Sound(Kill(n))
  <2>1. Sound(Do("running", n)) /\ Sound(Do("kill", n)) /\ Sound(Do("dead", n))
    BY PlainSteps DEF Dependent
  <2>. QED BY <2>1, ConcatIsSound DEF Kill
<1>6. Sound(Partition(n)) /\ Sound(Reconnect(n)) /\ Sound(Fenced(n))
  <2>1. /\ Sound(Do("running", n)) /\ Sound(Do("attached", n)) /\ Sound(Do("disconnect", n))
        /\ Sound(Do("detached", n)) /\ Sound(Do("connect", n)) /\ Sound(Do("await", n))
        /\ Sound(Do("exited3", n))
    BY PlainSteps DEF Dependent
  <2>. QED BY <2>1, ConcatIsSound DEF Partition, Reconnect, Fenced
<1>7. Sound(LeaseLapse) /\ Sound(Join) /\ Sound(Leave)
  BY PlainSteps DEF Dependent, LeaseLapse, Join, Leave
<1>8. Sound(Start(n))
  <2>1. Sound(Do("start", n)) /\ Sound(Do("ready", n))
    BY PlainSteps DEF Dependent
  <2>. QED BY <2>1, ConcatIsSound DEF Start
<1>9. /\ Sound(Verify(n)) /\ Sound(Check(n)) /\ Sound(Readable(n)) /\ Sound(Discard(n))
  BY PlainSteps DEF Dependent, Verify, Check, Readable, Discard
<1>10. Sound(WriteAcknowledged(n))
  BY <1>7, PlainSteps, ConcatIsSound DEF WriteAcknowledged
<1>11. Sound(KillIfRunning(n))
  BY <1>5, SkipIsSound DEF KillIfRunning
<1>. QED BY <1>1, <1>2, <1>3, <1>4, <1>5, <1>6, <1>7, <1>8, <1>9, <1>10, <1>11

\* The order of the nodes is a sequence that is not empty.
LEMMA OrderFacts ==
  /\ Order \in Seq(Nodes) /\ Len(Order) \in Nat \ {0} /\ DOMAIN Order = 1..Len(Order)
  /\ \A i \in 1..Len(Order) : Order[i] \in Nodes
BY OrderAssumption, LenProperties, ElementOfSeq

\* The loops over the nodes.
LEMMA LoopsAreSound ==
  /\ Sound(ForAll(Kill)) /\ Sound(ForAll(Start)) /\ Sound(ForAll(KillIfRunning))
  /\ Sound(ForAll(Verify)) /\ Sound(ForAll(Check)) /\ Sound(ForAll(Discard))
<1>1. Sound(ForAll(Kill))
  <2>. DEFINE seqs == [i \in DOMAIN Order |-> Kill(Order[i])]
  <2>1. seqs = [i \in 1..Len(Order) |-> seqs[i]] /\ \A i \in 1..Len(Order) : Sound(seqs[i])
    BY OrderFacts, ControlsAreSound
  <2>. HIDE DEF seqs
  <2>2. Sound(FlattenSeq(seqs))
    BY <2>1, OrderFacts, LoopIsSound
  <2>. QED BY <2>2 DEF ForAll, seqs
<1>2. Sound(ForAll(Start))
  <2>. DEFINE seqs == [i \in DOMAIN Order |-> Start(Order[i])]
  <2>1. seqs = [i \in 1..Len(Order) |-> seqs[i]] /\ \A i \in 1..Len(Order) : Sound(seqs[i])
    BY OrderFacts, ControlsAreSound
  <2>. HIDE DEF seqs
  <2>2. Sound(FlattenSeq(seqs))
    BY <2>1, OrderFacts, LoopIsSound
  <2>. QED BY <2>2 DEF ForAll, seqs
<1>3. Sound(ForAll(KillIfRunning))
  <2>. DEFINE seqs == [i \in DOMAIN Order |-> KillIfRunning(Order[i])]
  <2>1. seqs = [i \in 1..Len(Order) |-> seqs[i]] /\ \A i \in 1..Len(Order) : Sound(seqs[i])
    BY OrderFacts, ControlsAreSound
  <2>. HIDE DEF seqs
  <2>2. Sound(FlattenSeq(seqs))
    BY <2>1, OrderFacts, LoopIsSound
  <2>. QED BY <2>2 DEF ForAll, seqs
<1>4. Sound(ForAll(Verify))
  <2>. DEFINE seqs == [i \in DOMAIN Order |-> Verify(Order[i])]
  <2>1. seqs = [i \in 1..Len(Order) |-> seqs[i]] /\ \A i \in 1..Len(Order) : Sound(seqs[i])
    BY OrderFacts, ControlsAreSound
  <2>. HIDE DEF seqs
  <2>2. Sound(FlattenSeq(seqs))
    BY <2>1, OrderFacts, LoopIsSound
  <2>. QED BY <2>2 DEF ForAll, seqs
<1>5. Sound(ForAll(Check))
  <2>. DEFINE seqs == [i \in DOMAIN Order |-> Check(Order[i])]
  <2>1. seqs = [i \in 1..Len(Order) |-> seqs[i]] /\ \A i \in 1..Len(Order) : Sound(seqs[i])
    BY OrderFacts, ControlsAreSound
  <2>. HIDE DEF seqs
  <2>2. Sound(FlattenSeq(seqs))
    BY <2>1, OrderFacts, LoopIsSound
  <2>. QED BY <2>2 DEF ForAll, seqs
<1>6. Sound(ForAll(Discard))
  <2>. DEFINE seqs == [i \in DOMAIN Order |-> Discard(Order[i])]
  <2>1. seqs = [i \in 1..Len(Order) |-> seqs[i]] /\ \A i \in 1..Len(Order) : Sound(seqs[i])
    BY OrderFacts, ControlsAreSound
  <2>. HIDE DEF seqs
  <2>2. Sound(FlattenSeq(seqs))
    BY <2>1, OrderFacts, LoopIsSound
  <2>. QED BY <2>2 DEF ForAll, seqs
<1>. QED BY <1>1, <1>2, <1>3, <1>4, <1>5, <1>6

\* A loop of a fixed number of rounds.
LEMMA TimesIsSound ==
  ASSUME NEW n \in Nat \ {0}, NEW steps, Sound(steps)
  PROVE  Sound(Times(n, steps))
<1>. DEFINE seqs == [i \in 1..n |-> steps]
<1>1. seqs = [i \in 1..n |-> seqs[i]] /\ \A i \in 1..n : Sound(seqs[i])
  OBVIOUS
<1>. HIDE DEF seqs
<1>2. Sound(FlattenSeq(seqs))
  BY <1>1, LoopIsSound
<1>. QED BY <1>2 DEF Times, seqs

\* A write through several nodes, and its parts.
LEMMA BatchesAreSound ==
  /\ Sound(AcknowledgedBatch) /\ Sound(StartTraffic) /\ Sound(FinalBatch)
  /\ Sound(StartAll) /\ Sound(RestartAll) /\ Sound(CheckAll) /\ Sound(KillAll)
  /\ Sound(Handoff) /\ Sound(Routing)
<1>1. Sound(AcknowledgedBatch) /\ Sound(StartTraffic)
  BY PlainSteps, ControlsAreSound, ConcatIsSound DEF AcknowledgedBatch, StartTraffic
<1>2. Sound(FinalBatch)
  BY <1>1, ControlsAreSound, ConcatIsSound DEF FinalBatch
<1>3. Sound(StartAll) /\ Sound(CheckAll) /\ Sound(KillAll)
  BY LoopsAreSound DEF StartAll, CheckAll, KillAll
<1>4. Sound(RestartAll)
  BY <1>3, LoopsAreSound, ControlsAreSound, ConcatIsSound DEF RestartAll
<1>5. Sound(Handoff)
  <2>1. Sound(Owner("after")) /\ Sound(Simply("advanced")) /\ Sound(Simply("handoff"))
    BY PlainSteps DEF Dependent
  <2>. QED BY <2>1, ConcatIsSound DEF Handoff
<1>6. Sound(Routing)
  <2>1. Sound(Owner("prior")) /\ Sound(Send(RoundRobin(Len(Order)), TRUE))
    BY PlainSteps
  <2>. QED BY <2>1, LoopsAreSound, ControlsAreSound, ConcatIsSound DEF Routing
<1>. QED BY <1>1, <1>2, <1>3, <1>4, <1>5, <1>6

\* The scenarios of QualificationTraffic.ts and QualificationFaults.ts.
LEMMA TrafficIsSound ==
  /\ Sound(PausedOwner) /\ Sound(CrashLedger) /\ Sound(RestartRaces) /\ Sound(StorageFault)
  /\ Sound(PeerPartition) /\ Sound(RollingDeployment)
<1>1. Sound(PausedOwner)
  BY PlainSteps, ControlsAreSound, BatchesAreSound, ConcatIsSound DEF PausedOwner, Dependent
<1>2. Sound(CrashRound) /\ Sound(RestartRound)
  BY PlainSteps, ControlsAreSound, BatchesAreSound, LoopsAreSound, ConcatIsSound
  DEF CrashRound, RestartRound
<1>3. Sound(CrashLedger) /\ Sound(RestartRaces)
  <2>1. Sound(Times(Rounds, CrashRound)) /\ Sound(Times(Rounds, RestartRound))
    BY <1>2, TimesIsSound, OrderAssumption
  <2>. QED BY <2>1, BatchesAreSound, ConcatIsSound DEF CrashLedger, RestartRaces
<1>4. Sound(StorageFault)
  BY PlainSteps, ControlsAreSound, BatchesAreSound, ConcatIsSound DEF StorageFault, Dependent
<1>5. Sound(PeerPartition)
  BY PlainSteps, ControlsAreSound, BatchesAreSound, LoopsAreSound, ConcatIsSound
  DEF PeerPartition, Dependent
<1>6. Sound(RollingDeployment)
  <2>1. ASSUME NEW n PROVE Sound(Replaced(n))
    BY PlainSteps, ControlsAreSound, ConcatIsSound DEF Replaced, Dependent
  <2>2. Sound(ForAll(Replaced))
    <3>. DEFINE seqs == [i \in DOMAIN Order |-> Replaced(Order[i])]
    <3>1. seqs = [i \in 1..Len(Order) |-> seqs[i]] /\ \A i \in 1..Len(Order) : Sound(seqs[i])
      BY OrderFacts, <2>1
    <3>. HIDE DEF seqs
    <3>2. Sound(FlattenSeq(seqs))
      BY <3>1, OrderFacts, LoopIsSound
    <3>. QED BY <3>2 DEF ForAll, seqs
  <2>3. Sound(Simply("deploy"))
    BY PlainSteps DEF Dependent
  <2>. QED BY <2>2, <2>3, ControlsAreSound, BatchesAreSound, ConcatIsSound DEF RollingDeployment
<1>. QED BY <1>1, <1>3, <1>4, <1>5, <1>6

\* The scenarios of Multinode.ts and Resilience.ts.
LEMMA ResilienceIsSound ==
  /\ Sound(Multinode) /\ Sound(PausedOwnerStage) /\ Sound(SimultaneousRestart)
  /\ Sound(InterruptedWrites) /\ Sound(FollowerLoss) /\ Sound(ReplicaDiskLoss)
<1>1. Sound(OwnerFailover) /\ Sound(OwnerRejoin)
  BY ControlsAreSound, BatchesAreSound, ConcatIsSound DEF OwnerFailover, OwnerRejoin
<1>2. Sound(StoragePartition)
  BY PlainSteps, ControlsAreSound, BatchesAreSound, ConcatIsSound DEF StoragePartition, Dependent
<1>3. Sound(Multinode)
  BY <1>1, <1>2, BatchesAreSound, ConcatIsSound DEF Multinode
<1>4. Sound(PausedOwnerStage)
  BY PlainSteps, ControlsAreSound, BatchesAreSound, LoopsAreSound, ConcatIsSound
  DEF PausedOwnerStage, Dependent
<1>5. Sound(SimultaneousRestart)
  BY ControlsAreSound, BatchesAreSound, LoopsAreSound, ConcatIsSound DEF SimultaneousRestart
<1>6. Sound(InterruptedWrites)
  <2>1. ASSUME NEW e, e.op = "send" PROVE Sound(<<e>>)
    BY <2>1, SingleIsSound DEF Plain, Dependent
  <2>2. Sound(<<[op |-> "send", entries |-> [i \in 1..Batch |-> "prior"], strict |-> FALSE,
                 held |-> TRUE]>>)
    BY <2>1
  <2>3. /\ Sound(Simply("entered")) /\ Sound(Simply("interrupted"))
        /\ Sound(Do("survivors", "successor")) /\ Sound(Do("start", "prior"))
        /\ Sound(Do("ready", "prior")) /\ Sound(Owner("prior"))
    BY PlainSteps DEF Dependent
  <2>. QED BY <2>2, <2>3, ControlsAreSound, BatchesAreSound, ConcatIsSound DEF InterruptedWrites
<1>7. Sound(RecruitBoth)
  BY PlainSteps, ControlsAreSound, ConcatIsSound DEF RecruitBoth
<1>8. Sound(FollowerLoss)
  BY <1>7, PlainSteps, ControlsAreSound, BatchesAreSound, ConcatIsSound DEF FollowerLoss
<1>9. Sound(ReplicaDiskLoss)
  <2>1. Sound(DoAll("start", Order))
    BY DoAllIsSound, OrderFacts DEF Dependent
  <2>2. Sound(Do("attempt", Order[1])) /\ Sound(Simply("judge"))
    BY PlainSteps DEF Dependent
  <2>. QED BY <1>7, <2>1, <2>2, ControlsAreSound, LoopsAreSound, ConcatIsSound DEF ReplicaDiskLoss
<1>. QED BY <1>3, <1>4, <1>5, <1>6, <1>8, <1>9

\* The scenarios of QualificationCapacity.ts.
LEMMA CapacityIsSound ==
  Sound(LargeRestore) /\ Sound(MemoryPressure) /\ Sound(InsufficientSpare)
<1>1. Sound(LargeRestore)
  <2>1. Sound(Times(Batch, WriteAcknowledged(Order[1])))
    BY ControlsAreSound, TimesIsSound, OrderAssumption
  <2>. QED BY <2>1, PlainSteps, ControlsAreSound, ConcatIsSound DEF LargeRestore
<1>2. /\ Tail(Order) \in Seq(Nodes) /\ Len(Tail(Order)) \in Nat \ {0}
  BY OrderAssumption, HeadTailProperties
<1>3. ASSUME NEW nodes \in Seq(Nodes), Len(nodes) \in Nat \ {0}, NEW size
      PROVE  Sound(Squeeze(nodes, size)) /\ Sound(LeaveThenRecover(nodes))
  <2>. DEFINE seqs == [i \in DOMAIN nodes |-> MemoryLimit(nodes[i], size)]
  <2>1. /\ seqs = [i \in 1..Len(nodes) |-> seqs[i]]
        /\ \A i \in 1..Len(nodes) : Sound(seqs[i])
    BY LenProperties, ControlsAreSound
  <2>. HIDE DEF seqs
  <2>2. Sound(FlattenSeq(seqs))
    BY <2>1, <1>3, LoopIsSound
  <2>3. Sound(FlattenSeq([i \in DOMAIN nodes |-> MemoryLimit(nodes[i], size)]))
    BY <2>2 DEF seqs
  <2>4. /\ Sound(DoAll("limited", nodes)) /\ Sound(DoAll("pressure", nodes))
        /\ Sound(DoAll("unlimited", nodes))
    BY DoAllIsSound DEF Dependent
  <2>5. Sound(Simply("felt"))
    BY PlainSteps DEF Dependent
  <2>6. Sound(Squeeze(nodes, size))
    BY <2>3, <2>4, <2>5, ConcatIsSound DEF Squeeze
  <2>7. Sound(LeaveThenRecover(nodes))
    BY <2>4, ControlsAreSound, BatchesAreSound, LoopsAreSound, ConcatIsSound DEF LeaveThenRecover
  <2>. QED BY <2>6, <2>7
<1>4. Sound(MemoryPressure)
  BY <1>3, OrderFacts, BatchesAreSound, ConcatIsSound DEF MemoryPressure
<1>5. Sound(InsufficientSpare)
  <2>1. Sound(DoAll("stopped", Tail(Order)))
    BY <1>2, DoAllIsSound DEF Dependent
  <2>. QED BY <2>1, <1>2, <1>3, ControlsAreSound, BatchesAreSound, ConcatIsSound DEF InsufficientSpare
<1>. QED BY <1>1, <1>4, <1>5

\* The scenarios of QualificationDependencies.ts and QualificationStreams.ts.
LEMMA ApplicationsAreSound ==
  /\ Sound(QueueAcceptance) /\ Sound(QueueRedelivery) /\ Sound(WorkflowRecovery)
  /\ Sound(StreamReconnect) /\ Sound(SocketFailover)
<1>1. Sound(QueueOutage)
  BY PlainSteps, BatchesAreSound, ConcatIsSound DEF QueueOutage, Dependent
<1>2. Sound(QueueAcceptance) /\ Sound(QueueRedelivery)
  <2>1. Sound(Home("noEvents")) /\ Sound(Home("delivered"))
    BY PlainSteps DEF Home, Dependent
  <2>. QED BY <1>1, <2>1, PlainSteps, ConcatIsSound DEF QueueAcceptance, QueueRedelivery
<1>3. Sound(WorkflowRecovery)
  BY PlainSteps, BatchesAreSound, ConcatIsSound DEF WorkflowRecovery, Home, Dependent
<1>4. \A n \in Nat \ {0} : Sound(Times(n, WriteAcknowledged(Order[1])))
  BY ControlsAreSound, TimesIsSound
<1>5. Sound(Crash("prior"))
  BY ControlsAreSound, ConcatIsSound DEF Crash
<1>6. Sound(StreamReconnect)
  <2>1. Sound(Times(3, WriteAcknowledged(Order[1])))
    BY <1>4
  <2>2. /\ Sound(Home("expect")) /\ Sound(Home("follow")) /\ Sound(Home("rest"))
        /\ Sound(Simply("cutOff")) /\ Sound(Owner("prior"))
    BY PlainSteps DEF Home, Dependent
  <2>. QED BY <2>1, <2>2, <1>5, ControlsAreSound, ConcatIsSound DEF StreamReconnect
<1>7. Sound(SocketFailover)
  <2>1. Sound(Times(Batch, WriteAcknowledged(Order[1])))
    BY <1>4, OrderAssumption
  <2>2. /\ Sound(Home("hold")) /\ Sound(Home("reconnect")) /\ Sound(Simply("closed"))
        /\ Sound(Owner("prior"))
    BY PlainSteps DEF Home, Dependent
  <2>. QED BY <2>1, <2>2, ControlsAreSound, ConcatIsSound DEF SocketFailover
<1>. QED BY <1>2, <1>3, <1>6, <1>7

\* In every scenario, what breaks something stands right behind what says how to
\* mend it, and every jump lands on a step that depends on nothing.
THEOREM ProgramsAreSound == \A name \in Scenarios : Sound(Scenario(name))
BY TrafficIsSound, ResilienceIsSound, CapacityIsSound, ApplicationsAreSound
DEF Scenarios, Scenario, Applications

-----------------------------------------------------------------------------
(* What is broken is on a list.                                            *)

Guarded(what, n) == [what |-> what, at |-> n] \in finalizers

HostShape ==
  /\ {"limit", "peers", "published", "deployed", "code"} \subseteq DOMAIN host
  /\ DOMAIN host.limit = Nodes

\* Every node has a container and a limit, and the driver a place in its program.
Shape ==
  /\ DOMAIN container = Nodes /\ HostShape
  /\ script \in Selection /\ pc \in Nat \ {0}
  /\ phase \in {"run", "closing", "closed"}

\* As long as the scope is open, a node that is frozen, short of memory or off the
\* peers' network is listed among those to be mended.
BrokenIsListed ==
  phase # "closed" =>
    \A n \in Nodes : /\ container[n] = "paused" => n \in pausedSet
                     /\ host.limit[n] # "full" => Guarded("limit", n)
                     /\ n \notin host.peers => Guarded("peers", n)

\* The driver's next step breaks only what is listed, and strikes off the list
\* only what is mended.
StepIsPrepared ==
  Running =>
    /\ Step.op = "pause"  => Subject \in pausedSet
    /\ Step.op = "forget" => ~(Subject \in Nodes /\ container[Subject] = "paused")
    /\ Step.op = "limit"  => Guarded("limit", Subject)
    /\ Step.op = "unpair" => Guarded("peers", Subject)

IInv == Shape /\ BrokenIsListed /\ StepIsPrepared /\ NothingStaysBroken

\* A step that breaks nothing and leaves the lists alone.
Harmless ==
  /\ script' = script /\ pausedSet' = pausedSet /\ finalizers' = finalizers
  /\ DOMAIN container' = Nodes /\ HostShape'
  /\ \A n \in Nodes : /\ container'[n] = "paused" => container[n] = "paused"
                      /\ host'.limit[n] = host.limit[n]
                      /\ n \in host.peers => n \in host'.peers

\* It happens beside the driver, which stays where it is, with what it remembers.
Aside ==
  /\ phase = "run" /\ pc' = pc /\ memory'.prior = memory.prior
  /\ phase' \in {"run", "closing"}

Preparing == {"reserve", "unpause", "guard"}

\* It is the driver's: it goes on, or jumps, or gives up.
Onwards ==
  /\ Running /\ Step.op \notin Preparing /\ phase' \in {"run", "closing"}
  /\ \/ pc' = pc + 1
     \/ Step.op = "unless" /\ pc' = pc + 1 + Step.skip
     \/ phase' = "closing" /\ pc' = pc

\* The program under way is sound.
LEMMA ProgramIsSound == ASSUME Shape PROVE Sound(Program)
BY ProgramsAreSound, NodesAssumption DEF Shape, Program

\* A step that depends on another comes right after it.
LEMMA PreparedByTheLast ==
  ASSUME Shape, Running, script' = script, pc' = pc + 1, Running', Step'.op \in Dependent
  PROVE  Prepares(Step, Step')
<1>1. Program' = Program
  BY DEF Program
<1>2. Sound(Program)
  BY ProgramIsSound
<1>3. Len(Program) \in Nat
  BY <1>2, LenProperties DEF Sound
<1>4. pc + 1 \in 1..Len(Program) /\ (pc + 1) - 1 = pc
  BY <1>1, <1>3 DEF Running, Shape
<1>5. StepIsSound(Program, pc + 1)
  BY <1>2, <1>4 DEF Sound
<1>6. Step' = Program[pc + 1] /\ Step = Program[pc]
  BY <1>1 DEF Step
<1>. QED BY <1>4, <1>5, <1>6 DEF StepIsSound

\* Any other step leads to one that depends on nothing.
LEMMA LandsOnPlain ==
  ASSUME Shape, Onwards, script' = script, Running'
  PROVE  Step'.op \notin Dependent /\ pc' \in Nat \ {0}
<1>1. Program' = Program
  BY DEF Program
<1>2. Sound(Program)
  BY ProgramIsSound
<1>3. Len(Program) \in Nat
  BY <1>2, LenProperties DEF Sound
<1>4. phase' = "run"
  BY DEF Running
<1>5. CASE pc' = pc + 1
  <2>1. Step'.op \in Dependent => Prepares(Step, Step')
    BY <1>5, PreparedByTheLast DEF Onwards
  <2>. QED BY <2>1, <1>5 DEF Prepares, Onwards, Preparing, Dependent, Shape
<1>6. CASE Step.op = "unless" /\ pc' = pc + 1 + Step.skip
  <2>1. pc \in 1..Len(Program)
    BY <1>3 DEF Onwards, Running, Shape
  <2>2. StepIsSound(Program, pc)
    BY <2>1, <1>2 DEF Sound
  <2>3. PICK k : k = Step.skip
    OBVIOUS
  <2>4. /\ k \in Nat
        /\ pc + k < Len(Program) => Program[pc + 1 + k].op \notin Dependent
    BY <2>2, <2>3, <1>6 DEF StepIsSound, Step
  <2>5. pc' = pc + 1 + k /\ pc' <= Len(Program)
    BY <1>6, <2>3, <1>1 DEF Running
  <2>6. Step' = Program[pc + 1 + k]
    BY <2>5, <1>1 DEF Step
  <2>. QED BY <2>1, <2>4, <2>5, <2>6, <1>3
<1>. QED BY <1>4, <1>5, <1>6 DEF Onwards

\* The place in the program stays one.
LEMMA StaysInPlace ==
  ASSUME Shape, Onwards
  PROVE  pc' \in Nat \ {0}
<1>1. Sound(Program)
  BY ProgramIsSound
<1>2. Len(Program) \in Nat
  BY <1>1, LenProperties DEF Sound
<1>3. CASE Step.op = "unless" /\ pc' = pc + 1 + Step.skip
  <2>1. pc \in 1..Len(Program)
    BY <1>2 DEF Onwards, Running, Shape
  <2>2. StepIsSound(Program, pc)
    BY <2>1, <1>1 DEF Sound
  <2>3. Step.skip \in Nat
    BY <2>2, <1>3 DEF StepIsSound, Step
  <2>. QED BY <2>3, <1>3 DEF Shape
<1>. QED BY <1>3 DEF Onwards, Shape

\* A harmless step beside the driver keeps the invariant.
LEMMA BesideKeeps ==
  ASSUME IInv, Harmless, Aside
  PROVE  IInv'
<1>1. Shape'
  BY DEF IInv, Shape, Harmless, Aside
<1>2. BrokenIsListed'
  BY DEF IInv, BrokenIsListed, Guarded, Harmless, Aside
<1>3. StepIsPrepared'
  <2>1. SUFFICES ASSUME Running' PROVE StepIsPrepared'
    BY DEF StepIsPrepared
  <2>2. Program' = Program /\ Step' = Step
    BY DEF Program, Step, Harmless, Aside
  <2>3. Running
    BY <2>1, <2>2 DEF Running, Harmless, Aside
  <2>4. Subject' = Subject
    BY <2>2 DEF Subject, Node, Successor, Others, Aside
  <2>. QED BY <2>2, <2>3, <2>4 DEF IInv, StepIsPrepared, Guarded, Harmless
<1>4. NothingStaysBroken'
  BY DEF NothingStaysBroken, Aside
<1>. QED BY <1>1, <1>2, <1>3, <1>4 DEF IInv

\* So does a harmless step of the driver that prepares nothing.
LEMMA OnwardsKeeps ==
  ASSUME IInv, Harmless, Onwards
  PROVE  IInv'
<1>1. Shape'
  BY StaysInPlace DEF IInv, Shape, Harmless, Onwards
<1>2. BrokenIsListed'
  BY DEF IInv, BrokenIsListed, Guarded, Harmless, Onwards, Running
<1>3. StepIsPrepared'
  <2>1. SUFFICES ASSUME Running' PROVE StepIsPrepared'
    BY DEF StepIsPrepared
  <2>2. Step'.op \notin Dependent
    BY <2>1, LandsOnPlain DEF IInv, Harmless
  <2>. QED BY <2>2 DEF StepIsPrepared, Dependent
<1>4. NothingStaysBroken'
  BY DEF NothingStaysBroken, Onwards
<1>. QED BY <1>1, <1>2, <1>3, <1>4 DEF IInv

\* What leaves Docker alone breaks nothing.
LEMMA DockerRests ==
  ASSUME Shape, UNCHANGED docker, UNCHANGED <<script, pausedSet, finalizers>>
  PROVE  Harmless
<1>1. container' = container /\ host' = host
  BY DEF docker
<1>. QED BY <1>1 DEF Shape, HostShape, Harmless

\* The end of a process breaks nothing that has to be mended.
LEMMA EndIsHarmless ==
  ASSUME Shape, NEW n, NEW how, how # "paused", Ends(n, how),
         UNCHANGED <<script, pausedSet, finalizers>>
  PROVE  Harmless
<1>1. container' = [container EXCEPT ![n] = how] /\ host' = host
  BY DEF Ends
<1>. QED BY <1>1 DEF Shape, HostShape, Harmless

\* What goes on beside the driver.
LEMMA FleetIsHarmless ==
  ASSUME Shape
  PROVE  /\ \A n : LeaseLapses(n) \/ Activate(n) \/ Refuse(n) => Harmless /\ Aside
         /\ \A n : Fence(n) \/ OutOfMemory(n) => Harmless /\ Aside
         /\ Reconfigure \/ SendNext \/ Work \/ Forget => Harmless /\ Aside
         /\ \A w : Serve(w) \/ ServeStale(w) \/ Receive(w) \/ GiveUp(w) => Harmless /\ Aside
<1>1. ASSUME NEW n, LeaseLapses(n) \/ Activate(n) \/ Refuse(n) PROVE Harmless /\ Aside
  <2>1. UNCHANGED docker /\ UNCHANGED <<control, notes>> /\ phase = "run"
    BY <1>1 DEF LeaseLapses, Activate, Refuse, Asked
  <2>. QED BY <2>1, DockerRests DEF control, notes, Aside
<1>2. ASSUME NEW n, Fence(n) \/ OutOfMemory(n) PROVE Harmless /\ Aside
  <2>1. /\ Ends(n, "fenced") \/ Ends(n, "killed")
        /\ UNCHANGED <<control, notes>> /\ phase = "run"
    BY <1>2 DEF Fence, OutOfMemory
  <2>. QED BY <2>1, EndIsHarmless DEF control, notes, Aside
<1>3. ASSUME Reconfigure \/ SendNext PROVE Harmless /\ Aside
  <2>1. UNCHANGED docker /\ UNCHANGED <<control, notes>> /\ phase = "run"
    BY <1>3 DEF Reconfigure, SendNext
  <2>. QED BY <2>1, DockerRests DEF control, notes, Aside
<1>4. ASSUME Work \/ Forget PROVE Harmless /\ Aside
  <2>1. Steady /\ UNCHANGED control /\ phase = "run"
    BY <1>4 DEF Work, Forget, DelayPasses, RunStep, NextRecord, Deliver, SocketEnds
  <2>2. UNCHANGED docker /\ UNCHANGED notes
    BY <2>1 DEF Steady
  <2>. QED BY <2>1, <2>2, DockerRests DEF control, notes, Aside
<1>5. ASSUME NEW w, Serve(w) \/ ServeStale(w) PROVE Harmless /\ Aside
  <2>1. UNCHANGED docker /\ UNCHANGED <<control, notes>> /\ phase = "run"
    BY <1>5 DEF Serve, ServeStale
  <2>. QED BY <2>1, DockerRests DEF control, notes, Aside
<1>6. ASSUME NEW w, Receive(w) PROVE Harmless /\ Aside
  <2>1. /\ UNCHANGED docker /\ UNCHANGED <<script, pausedSet, finalizers>>
        /\ UNCHANGED control /\ phase = "run"
        /\ memory' = [memory EXCEPT !.lastAck = writes[w].by]
    BY <1>6 DEF Receive
  <2>2. memory'.prior = memory.prior
    BY <2>1
  <2>. QED BY <2>1, <2>2, DockerRests DEF control, Aside
<1>7. ASSUME NEW w, GiveUp(w) PROVE Harmless /\ Aside
  <2>1. /\ UNCHANGED docker /\ UNCHANGED notes /\ phase = "run" /\ pc' = pc
        /\ phase' = phase \/ phase' = "closing"
    BY <1>7 DEF GiveUp, Fail, control
  <2>. QED BY <2>1, DockerRests DEF notes, Aside
<1>. QED BY <1>1, <1>2, <1>3, <1>4, <1>5, <1>6, <1>7

\* Advance and Fail move the driver in the ways Onwards lists.
LEMMA DriverMoves ==
  ASSUME Running, Step.op \notin Preparing, Advance \/ Fail
  PROVE  Onwards
BY DEF Onwards, Advance, Fail, Running

\* A step of the driver that looks or waits, and touches nothing of Docker's.
LEMMA LookingIsHarmless ==
  ASSUME Shape, Running, Step.op \notin Preparing, Advance \/ Fail,
         UNCHANGED docker, UNCHANGED <<script, pausedSet, finalizers>>
  PROVE  Harmless /\ Onwards
BY DockerRests, DriverMoves

\* What the driver asks, waits for or compares.
LEMMA DriverLooks ==
  ASSUME Shape,
         Inspect \/ AwaitExit \/ Ready \/ AwaitEnsemble \/ Lapse \/ JoinWrites \/ Entered
           \/ Compare \/ ReadAgain
  PROVE  Harmless /\ Onwards
<1>1. Running /\ Step.op \notin Preparing
  BY DEF Inspect, AwaitExit, Ready, AwaitEnsemble, Lapse, JoinWrites, Entered, Compare,
         ReadAgain, At, Preparing, Inspections
<1>2. Advance \/ Fail
  BY DEF Inspect, AwaitExit, Ready, AwaitEnsemble, Lapse, JoinWrites, Entered, Compare,
         ReadAgain, Expect
<1>3. Quietly
  BY DEF Inspect, AwaitExit, Ready, AwaitEnsemble, Lapse, JoinWrites, Entered, Compare,
         ReadAgain
<1>. QED BY <1>1, <1>2, <1>3, LookingIsHarmless DEF Quietly, notes

\* What the driver remembers, sends and reads.
LEMMA DriverReads ==
  ASSUME Shape, Submit \/ Remember \/ Read \/ ReadSurvivors \/ Attempt
  PROVE  Harmless /\ Onwards
<1>1. Running /\ Step.op \notin Preparing
  BY DEF Submit, Remember, Read, ReadSurvivors, Attempt, At, Preparing
<1>2. Advance \/ Fail
  BY DEF Submit, Remember, Read, ReadSurvivors, Attempt, Expect
<1>3. UNCHANGED docker
  BY DEF Submit, Remember, Read, ReadSurvivors, Attempt
<1>4. UNCHANGED <<script, pausedSet, finalizers>>
  BY DEF Submit, Remember, Read, ReadSurvivors, Attempt, notes
<1>. QED BY <1>1, <1>2, <1>3, <1>4, LookingIsHarmless

\* What the driver does with the application.
LEMMA ApplicationIsHarmless ==
  ASSUME Shape, ApplicationStep
  PROVE  Harmless /\ Onwards
<1>1. Running /\ Step.op \notin Preparing
  BY DEF ApplicationStep, SendMessages, Tell, ReadEvents, PollEvents, Clock, OpenStream,
         JoinStream, ReadRest, HoldSockets, SeeSockets, At, Preparing
<1>2. Advance \/ Fail
  BY DEF ApplicationStep, SendMessages, Tell, ReadEvents, PollEvents, Clock, OpenStream,
         JoinStream, ReadRest, HoldSockets, SeeSockets, Expect
<1>3. Steady
  BY DEF ApplicationStep, SendMessages, Tell, ReadEvents, PollEvents, Clock, OpenStream,
         JoinStream, ReadRest, HoldSockets, SeeSockets
<1>. QED BY <1>1, <1>2, <1>3, LookingIsHarmless DEF Steady, notes

\* The jump over what is not needed, and the last step.
LEMMA DriverSkips ==
  ASSUME Shape
  PROVE  /\ SkipUnlessRunning => Harmless /\ Onwards
         /\ Pass => Harmless /\ phase = "run" /\ phase' = "closing" /\ pc' = pc
<1>1. ASSUME SkipUnlessRunning PROVE Harmless /\ Onwards
  <2>1. Running /\ Step.op = "unless" /\ phase' = phase
        /\ (pc' = pc + 1 \/ pc' = pc + 1 + Step.skip)
    BY <1>1 DEF SkipUnlessRunning, At
  <2>2. UNCHANGED docker /\ UNCHANGED <<script, pausedSet, finalizers>>
    BY <1>1 DEF SkipUnlessRunning, Quietly, notes
  <2>3. Onwards
    BY <2>1 DEF Onwards, Preparing, Running
  <2>. QED BY <2>2, <2>3, DockerRests
<1>2. ASSUME Pass PROVE Harmless /\ phase = "run" /\ phase' = "closing" /\ pc' = pc
  <2>1. UNCHANGED docker /\ UNCHANGED <<script, pausedSet, finalizers>>
    BY <1>2 DEF Pass, Quietly, notes
  <2>. QED BY <1>2, <2>1, DockerRests DEF Pass
<1>. QED BY <1>1, <1>2

\* What the driver does to containers that breaks nothing of what is to be mended:
\* ending and starting a process, making a container anew, the store's network.
LEMMA DriverActs ==
  ASSUME Shape, Halt \/ DockerStart \/ EmptyDisk \/ Attach \/ SetFault \/ Squeezed
  PROVE  Harmless /\ Onwards
<1>1. Running /\ Step.op \notin Preparing /\ Advance
  BY DEF Halt, DockerStart, EmptyDisk, Attach, SetFault, Squeezed, At, Preparing
<1>2. Onwards
  BY <1>1, DriverMoves
<1>3. UNCHANGED <<script, pausedSet, finalizers>>
  BY DEF Halt, DockerStart, EmptyDisk, Attach, SetFault, Squeezed, notes
<1>4. CASE Halt
  <2>1. Ends(Subject, "killed") \/ Ends(Subject, "stopped") \/ UNCHANGED docker
    BY <1>4 DEF Halt
  <2>. QED BY <2>1, <1>2, <1>3, EndIsHarmless, DockerRests
<1>5. CASE DockerStart
  <2>1. CASE UNCHANGED <<container, host>>
    BY <2>1, <1>2, <1>3 DEF Shape, HostShape, Harmless
  <2>2. CASE ~UNCHANGED <<container, host>>
    <3>1. container' = [container EXCEPT ![Subject] = "up"]
      BY <1>5, <2>2 DEF DockerStart
    <3>2. PICK old \in BOOLEAN :
            host' = [host EXCEPT !.published = @ \cup {Subject},
                                 !.code[Subject] = IF old THEN @ ELSE host.deployed]
      BY <1>5, <2>2 DEF DockerStart
    <3>3. DOMAIN host' = DOMAIN host /\ host'.limit = host.limit /\ host'.peers = host.peers
      BY <3>2 DEF Shape, HostShape
    <3>. QED BY <3>1, <3>3, <1>2, <1>3 DEF Shape, HostShape, Harmless
  <2>. QED BY <2>1, <2>2
<1>6. CASE EmptyDisk
  <2>1. /\ container' = [container EXCEPT ![Subject] = "stopped"]
        /\ host' = [host EXCEPT !.peers = @ \cup {Subject}]
    BY <1>6 DEF EmptyDisk
  <2>. QED BY <2>1, <1>2, <1>3 DEF Shape, HostShape, Harmless
<1>7. CASE Attach \/ SetFault
  <2>1. UNCHANGED <<container, host>>
    BY <1>7 DEF Attach, SetFault
  <2>. QED BY <2>1, <1>2, <1>3 DEF Shape, HostShape, Harmless
<1>8. CASE Squeezed
  <2>1. Ends(Subject, "killed") \/ UNCHANGED docker
    BY <1>8 DEF Squeezed
  <2>. QED BY <2>1, <1>2, <1>3, EndIsHarmless, DockerRests
<1>. QED BY <1>4, <1>5, <1>6, <1>7, <1>8

\* What the step after this one needs, this one is, and about the same node.
LEMMA NextNeeds ==
  ASSUME Shape, Running, script' = script, memory' = memory, pc' = pc + 1, Running'
  PROVE  /\ Step'.op = "pause"  => Step.op = "reserve" /\ Subject' = Subject
         /\ Step'.op = "forget" => Step.op = "unpause" /\ Subject' = Subject
         /\ Step'.op = "limit"  => Step.op = "guard" /\ Step.what = "limit" /\ Subject' = Subject
         /\ Step'.op = "unpair" => Step.op = "guard" /\ Step.what = "peers" /\ Subject' = Subject
<1>1. Step'.op \in Dependent => Prepares(Step, Step')
  BY PreparedByTheLast
<1>2. Step'.at = Step.at => Subject' = Subject
  BY DEF Subject, Node, Successor, Others
<1>. QED BY <1>1, <1>2 DEF Prepares, Dependent

\* Listing a node before it is frozen, and striking it off once it is thawed.
LEMMA ReserveKeeps ==
  ASSUME IInv, Reserve
  PROVE  IInv'
<1>1. /\ Running /\ Step.op \in {"reserve", "forget"}
      /\ pausedSet' = IF Step.op = "reserve" THEN pausedSet \cup {Subject}
                                             ELSE pausedSet \ {Subject}
      /\ pc' = pc + 1 /\ phase' = phase /\ memory' = memory /\ script' = script
      /\ finalizers' = finalizers
  BY DEF Reserve, Advance
<1>2. container' = container /\ host' = host
  BY DEF Reserve, docker
<1>3. phase = "run"
  BY <1>1 DEF Running
<1>4. Shape'
  BY <1>1, <1>2 DEF IInv, Shape, HostShape
<1>5. BrokenIsListed'
  <2>1. CASE Step.op = "reserve"
    BY <2>1, <1>1, <1>2 DEF IInv, BrokenIsListed, Guarded
  <2>2. CASE Step.op = "forget"
    <3>1. ~(Subject \in Nodes /\ container[Subject] = "paused")
      BY <2>2, <1>1 DEF IInv, StepIsPrepared
    <3>. QED BY <3>1, <2>2, <1>1, <1>2 DEF IInv, BrokenIsListed, Guarded
  <2>. QED BY <1>1, <2>1, <2>2
<1>6. StepIsPrepared'
  <2>1. SUFFICES ASSUME Running' PROVE StepIsPrepared'
    BY DEF StepIsPrepared
  <2>2. /\ Step'.op = "pause" => Step.op = "reserve" /\ Subject' = Subject
        /\ Step'.op \notin {"forget", "limit", "unpair"}
    BY <1>1, <2>1, NextNeeds DEF IInv
  <2>. QED BY <2>2, <1>1 DEF StepIsPrepared
<1>7. NothingStaysBroken'
  BY <1>1, <1>3 DEF NothingStaysBroken
<1>. QED BY <1>4, <1>5, <1>6, <1>7 DEF IInv

\* Freezing a listed node, and thawing one.
LEMMA FreezeOrThawKeeps ==
  ASSUME IInv, FreezeOrThaw
  PROVE  IInv'
<1>1. /\ Running /\ Step.op \in {"pause", "unpause"}
      /\ Advance \/ Fail
      /\ memory' = memory /\ script' = script /\ finalizers' = finalizers
      /\ pausedSet' = pausedSet /\ host' = host
  BY DEF FreezeOrThaw, Expect, notes
<1>2. phase = "run" /\ phase' \in {"run", "closing"}
  BY <1>1 DEF Running, Advance, Fail
<1>3. Shape
  BY DEF IInv
<1>4. CASE Step.op = "pause"
  <2>1. container' = container \/ container' = [container EXCEPT ![Subject] = "paused"]
    BY <1>4 DEF FreezeOrThaw
  <2>2. Subject \in pausedSet
    BY <1>1, <1>4 DEF IInv, StepIsPrepared
  <2>3. Onwards
    BY <1>1, <1>4, DriverMoves DEF Preparing
  <2>4. Shape'
    BY <2>1, <1>1, <1>2, <1>3, <2>3, StaysInPlace DEF Shape, HostShape
  <2>5. BrokenIsListed'
    BY <2>1, <2>2, <1>1, <1>2, <1>3 DEF IInv, BrokenIsListed, Guarded, Shape
  <2>6. StepIsPrepared'
    <3>1. Running' => Step'.op \notin Dependent
      BY <2>3, <1>1, <1>3, LandsOnPlain
    <3>. QED BY <3>1 DEF StepIsPrepared, Dependent
  <2>7. NothingStaysBroken'
    BY <1>2 DEF NothingStaysBroken
  <2>. QED BY <2>4, <2>5, <2>6, <2>7 DEF IInv
<1>5. CASE Step.op = "unpause"
  <2>1. \/ container' = [container EXCEPT ![Subject] = "up"] /\ Advance
        \/ container' = container /\ Fail
    BY <1>5 DEF FreezeOrThaw, Expect
  <2>2. \/ pc' = pc + 1 /\ phase' = phase
        \/ pc' = pc /\ phase' = "closing"
    BY <2>1 DEF Advance, Fail
  <2>3. Shape'
    BY <2>1, <2>2, <1>1, <1>2, <1>3 DEF Shape, HostShape
  <2>4. BrokenIsListed'
    BY <2>1, <1>1, <1>2, <1>3 DEF IInv, BrokenIsListed, Guarded, Shape
  <2>5. StepIsPrepared'
    <3>1. SUFFICES ASSUME Running' PROVE StepIsPrepared'
      BY DEF StepIsPrepared
    <3>2. pc' = pc + 1 /\ container' = [container EXCEPT ![Subject] = "up"]
      BY <3>1, <2>1, <2>2 DEF Running, Fail
    <3>3. /\ Step'.op = "forget" => Subject' = Subject
          /\ Step'.op \notin {"pause", "limit", "unpair"}
      BY <3>1, <3>2, <1>1, <1>3, <1>5, NextNeeds
    <3>4. Subject \in Nodes => container'[Subject] # "paused"
      BY <3>2, <1>3 DEF Shape
    <3>. QED BY <3>3, <3>4 DEF StepIsPrepared
  <2>6. NothingStaysBroken'
    BY <1>2 DEF NothingStaysBroken
  <2>. QED BY <2>3, <2>4, <2>5, <2>6 DEF IInv
<1>. QED BY <1>1, <1>4, <1>5

\* Installing a finalizer.
LEMMA InstallKeeps ==
  ASSUME IInv, Install
  PROVE  IInv'
<1>1. /\ Running /\ Step.op = "guard" /\ pc' = pc + 1 /\ phase' = phase
      /\ finalizers' = finalizers \cup {[what |-> Step.what, at |-> Subject]}
      /\ memory' = memory /\ script' = script /\ pausedSet' = pausedSet
  BY DEF Install, At, Advance
<1>2. container' = container /\ host' = host
  BY DEF Install, docker
<1>3. phase = "run"
  BY <1>1 DEF Running
<1>4. Shape'
  BY <1>1, <1>2 DEF IInv, Shape, HostShape
<1>5. BrokenIsListed'
  BY <1>1, <1>2 DEF IInv, BrokenIsListed, Guarded
<1>6. StepIsPrepared'
  <2>1. SUFFICES ASSUME Running' PROVE StepIsPrepared'
    BY DEF StepIsPrepared
  <2>2. /\ Step'.op = "limit" => Step.what = "limit" /\ Subject' = Subject
        /\ Step'.op = "unpair" => Step.what = "peers" /\ Subject' = Subject
        /\ Step'.op \notin {"pause", "forget"}
    BY <1>1, <2>1, NextNeeds DEF IInv
  <2>. QED BY <2>2, <1>1 DEF StepIsPrepared, Guarded
<1>7. NothingStaysBroken'
  BY <1>1, <1>3 DEF NothingStaysBroken
<1>. QED BY <1>4, <1>5, <1>6, <1>7 DEF IInv

\* Limiting a node's memory or taking it off the peers' network, when its finalizer
\* is there; the deployment of new code.
LEMMA AdjustKeeps ==
  ASSUME IInv, Adjust
  PROVE  IInv'
<1>1. /\ Running /\ Step.op \in {"unpair", "limit", "deploy"} /\ Advance
      /\ memory' = memory /\ script' = script /\ finalizers' = finalizers
      /\ pausedSet' = pausedSet /\ container' = container
  BY DEF Adjust, notes
<1>2. phase = "run" /\ phase' = "run"
  BY <1>1 DEF Running, Advance
<1>3. Shape
  BY DEF IInv
<1>4. Onwards
  BY <1>1, DriverMoves DEF Preparing
<1>5. \/ /\ Step.op = "unpair"
         /\ host' = [host EXCEPT !.peers = @ \ {Subject}, !.published = @ \ {Subject}]
      \/ Step.op = "limit" /\ host' = [host EXCEPT !.limit[Subject] = Step.size]
      \/ Step.op = "deploy" /\ host' = [host EXCEPT !.deployed = 2]
  BY DEF Adjust
<1>6. /\ DOMAIN host' = DOMAIN host /\ DOMAIN host'.limit = Nodes
      /\ \A n \in Nodes :
           /\ host'.limit[n] = host.limit[n] \/ (Step.op = "limit" /\ n = Subject)
           /\ n \in host.peers => n \in host'.peers \/ (Step.op = "unpair" /\ n = Subject)
  <2>1. CASE Step.op = "unpair"
    <3>1. host' = [host EXCEPT !.peers = @ \ {Subject}, !.published = @ \ {Subject}]
      BY <1>5, <2>1
    <3>. QED BY <3>1, <2>1, <1>3 DEF Shape, HostShape
  <2>2. CASE Step.op = "limit"
    <3>1. host' = [host EXCEPT !.limit[Subject] = Step.size]
      BY <1>5, <2>2
    <3>. QED BY <3>1, <2>2, <1>3 DEF Shape, HostShape
  <2>3. CASE Step.op = "deploy"
    <3>1. host' = [host EXCEPT !.deployed = 2]
      BY <1>5, <2>3
    <3>. QED BY <3>1, <2>3, <1>3 DEF Shape, HostShape
  <2>. QED BY <1>1, <2>1, <2>2, <2>3
<1>7. /\ Step.op = "limit" => Guarded("limit", Subject)
      /\ Step.op = "unpair" => Guarded("peers", Subject)
  BY <1>1 DEF IInv, StepIsPrepared
<1>8. Shape'
  BY <1>1, <1>2, <1>3, <1>4, <1>6, StaysInPlace DEF Shape, HostShape
<1>9. BrokenIsListed'
  BY <1>1, <1>2, <1>6, <1>7 DEF IInv, BrokenIsListed, Guarded
<1>10. StepIsPrepared'
  <2>1. Running' => Step'.op \notin Dependent
    BY <1>4, <1>1, <1>3, LandsOnPlain
  <2>. QED BY <2>1 DEF StepIsPrepared, Dependent
<1>11. NothingStaysBroken'
  BY <1>2 DEF NothingStaysBroken
<1>. QED BY <1>8, <1>9, <1>10, <1>11 DEF IInv

\* The end of an inner scope takes back whatever is on the scope's list.
LEMMA LeaveKeeps ==
  ASSUME IInv, LeaveScope
  PROVE  IInv'
<1>1. /\ Running /\ Step.op = "leave" /\ Advance /\ TakenBack({})
      /\ memory' = memory /\ script' = script /\ finalizers' = {}
      /\ pausedSet' = pausedSet /\ container' = container
  BY DEF LeaveScope, At
<1>2. phase = "run" /\ phase' = "run"
  BY <1>1 DEF Running, Advance
<1>3. Shape
  BY DEF IInv
<1>4. Onwards
  BY <1>1, DriverMoves DEF Preparing
<1>5. host' = [host EXCEPT !.limit = [n \in Nodes |-> IF n \in Finalized("limit") \ {}
                                                     THEN "full" ELSE @[n]],
                           !.peers = @ \cup (Finalized("peers") \ {})]
  BY <1>1 DEF TakenBack
<1>6. /\ DOMAIN host' = DOMAIN host /\ DOMAIN host'.limit = Nodes
      /\ \A n \in Nodes :
           /\ n \in Finalized("limit") \/ host.limit[n] = "full" => host'.limit[n] = "full"
           /\ n \in Finalized("peers") \/ n \in host.peers => n \in host'.peers
  BY <1>5, <1>3 DEF Shape, HostShape
<1>7. \A n \in Nodes : host'.limit[n] = "full" /\ n \in host'.peers
  <2>1. \A what, n : Guarded(what, n) => n \in Finalized(what)
    BY DEF Guarded, Finalized
  <2>. QED BY <2>1, <1>2, <1>6 DEF IInv, BrokenIsListed
<1>8. Shape'
  BY <1>1, <1>2, <1>3, <1>4, <1>6, StaysInPlace DEF Shape, HostShape
<1>9. BrokenIsListed'
  BY <1>1, <1>2, <1>7 DEF IInv, BrokenIsListed
<1>10. StepIsPrepared'
  <2>1. Running' => Step'.op \notin Dependent
    BY <1>4, <1>1, <1>3, LandsOnPlain
  <2>. QED BY <2>1 DEF StepIsPrepared, Dependent
<1>11. NothingStaysBroken'
  BY <1>2 DEF NothingStaysBroken
<1>. QED BY <1>8, <1>9, <1>10, <1>11 DEF IInv

\* An interruption leaves the lists as they are, wherever it finds the driver; so
\* does the last step of a program.
LEMMA StoppingKeeps ==
  ASSUME IInv, Interrupt \/ Pass
  PROVE  IInv'
<1>1. Shape
  BY DEF IInv
<1>2. /\ phase = "run" /\ phase' = "closing" /\ pc' \in Nat \ {0}
      /\ UNCHANGED docker /\ UNCHANGED <<script, pausedSet, finalizers>>
  BY <1>1 DEF Interrupt, Pass, Quietly, notes, Shape
<1>3. Harmless
  BY <1>1, <1>2, DockerRests
<1>4. Shape'
  BY <1>1, <1>2, <1>3 DEF Shape, Harmless
<1>5. BrokenIsListed'
  BY <1>2, <1>3 DEF IInv, BrokenIsListed, Guarded, Harmless
<1>. QED BY <1>2, <1>4, <1>5 DEF IInv, StepIsPrepared, NothingStaysBroken, Running

\* The end of the scope mends what is listed, and tells when it could not.
LEMMA CloseKeeps ==
  ASSUME IInv, NEW stuck \in SUBSET Nodes, Close(stuck)
  PROVE  IInv'
<1>. DEFINE thaws == {n \in pausedSet \ stuck : container[n] = "paused"}
<1>1. Shape
  BY DEF IInv
<1>2. /\ phase = "closing" /\ phase' = "closed" /\ pc' = pc /\ script' = script
      /\ container' = [n \in Nodes |-> IF n \in thaws THEN "up" ELSE container[n]]
      /\ died' = \/ thaws # pausedSet
                 \/ stuck \cap (Finalized("limit") \cup Finalized("peers")) # {}
      /\ TakenBack(stuck)
  BY DEF Close
<1>3. host' = [host EXCEPT !.limit = [n \in Nodes |-> IF n \in Finalized("limit") \ stuck
                                                     THEN "full" ELSE @[n]],
                           !.peers = @ \cup (Finalized("peers") \ stuck)]
  BY <1>2 DEF TakenBack
<1>4. /\ DOMAIN host' = DOMAIN host /\ DOMAIN host'.limit = Nodes
      /\ \A n \in Nodes :
           /\ n \in Finalized("limit") \ stuck \/ host.limit[n] = "full" => host'.limit[n] = "full"
           /\ n \in Finalized("peers") \ stuck \/ n \in host.peers => n \in host'.peers
  BY <1>3, <1>1 DEF Shape, HostShape
<1>5. Shape'
  BY <1>1, <1>2, <1>4 DEF Shape, HostShape
<1>6. ASSUME ~died' PROVE \A n \in Nodes : /\ container'[n] # "paused"
                                           /\ host'.limit[n] = "full" /\ n \in host'.peers
  <2>1. /\ thaws = pausedSet
        /\ stuck \cap (Finalized("limit") \cup Finalized("peers")) = {}
    BY <1>2, <1>6
  <2>2. \A what, n : Guarded(what, n) => n \in Finalized(what)
    BY DEF Guarded, Finalized
  <2>3. ASSUME NEW n \in Nodes PROVE container'[n] # "paused"
    <3>1. container[n] = "paused" => n \in thaws
      BY <2>1, <1>2 DEF IInv, BrokenIsListed
    <3>2. container'[n] = IF n \in thaws THEN "up" ELSE container[n]
      BY <1>2
    <3>. QED BY <3>1, <3>2
  <2>4. ASSUME NEW n \in Nodes PROVE host'.limit[n] = "full" /\ n \in host'.peers
    BY <2>1, <2>2, <1>2, <1>4 DEF IInv, BrokenIsListed
  <2>. QED BY <2>3, <2>4
<1>7. NothingStaysBroken'
  BY <1>6 DEF NothingStaysBroken
<1>. QED BY <1>2, <1>5, <1>7 DEF IInv, BrokenIsListed, StepIsPrepared, Running

\* At first nothing is broken, and no program begins with a step that needs another.
LEMMA InitHolds == Init => IInv
<1>. SUFFICES ASSUME Init PROVE IInv
  OBVIOUS
<1>1. Shape
  BY DEF Init, Shape, HostShape, NoFaults
<1>2. BrokenIsListed
  BY DEF Init, BrokenIsListed, NoFaults
<1>3. StepIsPrepared
  <2>1. Sound(Program)
    BY <1>1, ProgramIsSound
  <2>2. Len(Program) \in Nat
    BY <2>1, LenProperties DEF Sound
  <2>3. pc = 1
    BY DEF Init
  <2>4. ASSUME Running PROVE Step.op \notin Dependent
    <3>1. StepIsSound(Program, 1)
      BY <2>1, <2>2, <2>3, <2>4 DEF Sound, Running
    <3>. QED BY <3>1, <2>3 DEF StepIsSound, Step
  <2>. QED BY <2>4 DEF StepIsPrepared, Dependent
<1>4. NothingStaysBroken
  BY DEF Init, NothingStaysBroken
<1>. QED BY <1>1, <1>2, <1>3, <1>4 DEF IInv

\* Every step keeps the invariant.
LEMMA NextKeeps == IInv /\ [Next]_vars => IInv'
<1>. SUFFICES ASSUME IInv, [Next]_vars PROVE IInv'
  OBVIOUS
<1>1. Shape
  BY DEF IInv
<1>2. CASE \/ Inspect \/ AwaitExit \/ Ready \/ AwaitEnsemble \/ Lapse \/ JoinWrites
           \/ Entered \/ Compare \/ ReadAgain
  BY <1>1, <1>2, DriverLooks, OnwardsKeeps
<1>3. CASE Submit \/ Remember \/ Read \/ ReadSurvivors \/ Attempt
  BY <1>1, <1>3, DriverReads, OnwardsKeeps
<1>4. CASE Halt \/ DockerStart \/ EmptyDisk \/ Attach \/ SetFault \/ Squeezed
  BY <1>1, <1>4, DriverActs, OnwardsKeeps
<1>5. CASE ApplicationStep
  BY <1>1, <1>5, ApplicationIsHarmless, OnwardsKeeps
<1>6. CASE SkipUnlessRunning
  BY <1>1, <1>6, DriverSkips, OnwardsKeeps
<1>7. CASE Reserve
  BY <1>7, ReserveKeeps
<1>8. CASE FreezeOrThaw
  BY <1>8, FreezeOrThawKeeps
<1>9. CASE Adjust
  BY <1>9, AdjustKeeps
<1>10. CASE Install
  BY <1>10, InstallKeeps
<1>11. CASE LeaveScope
  BY <1>11, LeaveKeeps
<1>12. CASE Interrupt \/ Pass
  BY <1>12, StoppingKeeps
<1>13. CASE \E stuck \in SUBSET Nodes : Close(stuck)
  BY <1>13, CloseKeeps
<1>14. CASE \/ SendNext \/ Reconfigure \/ Work \/ Forget
            \/ \E n \in Nodes : LeaseLapses(n) \/ Fence(n) \/ OutOfMemory(n) \/ Activate(n)
                                \/ Refuse(n)
            \/ \E w \in DOMAIN writes : Serve(w) \/ ServeStale(w) \/ Receive(w) \/ GiveUp(w)
  BY <1>1, <1>14, FleetIsHarmless, BesideKeeps
<1>15. CASE UNCHANGED vars
  <2>1. /\ UNCHANGED <<container, host, script, pc, phase, memory, pausedSet, finalizers, died>>
    BY <1>15 DEF vars, docker, control, notes
  <2>2. Program' = Program /\ Step' = Step /\ Subject' = Subject
    BY <2>1 DEF Program, Step, Subject, Node, Successor, Others
  <2>. QED BY <2>1, <2>2 DEF IInv, Shape, HostShape, BrokenIsListed, StepIsPrepared, Guarded,
                             NothingStaysBroken, Running
<1>16. \/ DriverStep \/ Interrupt \/ SendNext \/ Reconfigure \/ Work \/ Forget
       \/ \E n \in Nodes : \/ LeaseLapses(n) \/ Fence(n) \/ OutOfMemory(n) \/ Activate(n)
                           \/ Refuse(n) \/ Close({n})
       \/ \E w \in DOMAIN writes : Serve(w) \/ ServeStale(w) \/ Receive(w) \/ GiveUp(w)
       \/ UNCHANGED vars
  BY DEF Next
<1>17. (\E n \in Nodes : Close({n})) \/ Close({}) => \E stuck \in SUBSET Nodes : Close(stuck)
  OBVIOUS
<1>18. CASE DriverStep
  BY <1>18, <1>2, <1>3, <1>4, <1>5, <1>6, <1>7, <1>8, <1>9, <1>10, <1>11, <1>12, <1>13, <1>17
  DEF DriverStep
<1>. QED BY <1>12, <1>13, <1>14, <1>15, <1>16, <1>17, <1>18

\* The invariant holds in every reachable state.
THEOREM Listed == Spec => []IInv
<1>1. Init => IInv
  BY InitHolds
<1>2. IInv /\ [Next]_vars => IInv'
  BY NextKeeps
<1>. QED BY <1>1, <1>2, PTL DEF Spec

\* Leaving the scope, however it is left, thaws every frozen node, lifts every memory
\* limit and gives every node its peers back, or a finalizer reports that it could
\* not (FleetControls.ts lines 122-142, FleetFaults.ts lines 87-93 and 135-143): for
\* any number of nodes and any faults of the fleet, in every scenario.
THEOREM FaultsAreTakenBack == Spec => []NothingStaysBroken
<1>1. IInv => NothingStaysBroken
  BY DEF IInv
<1>. QED BY <1>1, Listed, PTL
=============================================================================
