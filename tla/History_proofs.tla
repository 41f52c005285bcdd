--------------------------- MODULE History_proofs ---------------------------
(***************************************************************************)
(* Proofs about the write ledger and the history oracle, for any number of *)
(* writes, workers and verifications, any page size and number of pages.   *)
(*                                                                         *)
(* None of the invariants is inductive.  The oracle compares a copy of the *)
(* ledger with rows read page by page while the store goes on executing    *)
(* requests; IInv says, part by part, what the table, the ledger, the      *)
(* clock, the promises and the verification have to do with each other.    *)
(***************************************************************************)
EXTENDS History, TLAPS, FiniteSetTheorems, SequenceTheorems

\* A row is filed under its place, its request is over, and no id has two; what
\* was not sent has no request.
RowsInOrder ==
  /\ \A i \in DOMAIN rows : rows[i].seq = i /\ request[rows[i].id] = "gone"
  /\ \A i, j \in DOMAIN rows : rows[i].id = rows[j].id => i = j
  /\ \A id \in Ops :
       op[id].pc \in {"new", "started", "intended"} => request[id] = "none"

\* The pages are counted within their limit, the rows recorded within the rows
\* read, and a row read stands at its place, whatever the table lost meanwhile.
PagesInOrder ==
  /\ verify.stage = "rows" => verify.pages < MaxPages
  /\ verify.stage = "observe" => verify.pages < Len(verify.rows)
  /\ \A i \in DOMAIN verify.rows : /\ verify.rows[i].seq = i
                                   /\ request[verify.rows[i].id] = "gone"

TypeInv == TypeOK /\ RowsInOrder /\ PagesInOrder

IsIntent(e, id) == e.kind = "intent" /\ e.id = id

\* What the ledger holds of a write is what the driver has done of it.
LedgerMatches ==
  /\ WellFormed(ledger)
  /\ \A id \in Ops :
       /\ op[id].pc \in {"new", "started"} =>
            \A i \in DOMAIN ledger : ledger[i].id # id
       /\ op[id].pc \in {"intended", "sent", "answered", "failed", "done"}
            \/ request[id] # "none" =>
            \E i \in DOMAIN ledger : IsIntent(ledger[i], id)
  /\ \A i \in DOMAIN ledger : ledger[i].kind \in {"ack", "uncertain"} =>
                                op[ledger[i].id].pc = "done"

\* The clock was read before the line was written.
ClockMatches ==
  /\ \A id \in Ops : op[id].at <= now
  /\ \A i \in DOMAIN ledger : ledger[i].at <= now

\* A promise names a place in the table, is of a request that is over, and was
\* made after the write was intended.
IsPromise(e) ==
  /\ e.seq > 0 /\ request[e.id] = "gone"
  /\ \A i \in DOMAIN ledger : IsIntent(ledger[i], e.id) => ledger[i].at <= e.at

Pending(id) == Entry("ack", id, op[id].at, op[id].seq)

PromisesMatch ==
  /\ \A i \in DOMAIN ledger : ledger[i].kind \in {"ack", "observed"} => IsPromise(ledger[i])
  /\ \A id \in Ops : op[id].pc = "answered" => IsPromise(Pending(id))

\* While a verification is under way nothing is written to the ledger but what
\* it observed.
VerifyMatches ==
  /\ ~alive \/ verify.stage \notin {"idle", "passed"} =>
       \A id \in Ops : op[id].pc \in {"new", "done", "dead"}
  /\ verify.stage \in {"rows", "check"} => verify.events = ledger
  /\ lateCommit /\ verify.stage \notin {"idle", "passed"} => Late

Holds(table, e) == \E i \in DOMAIN table :
  table[i].id = e.id /\ table[i].seq = e.seq /\ table[i].kv

\* A promise broken when the verification began is broken in what it reads.
DoomedMatches ==
  /\ verify.doomed /\ verify.stage \in {"rows", "check"} =>
       \E i \in DOMAIN ledger :
         /\ ledger[i].kind \in {"ack", "observed"}
         /\ ~Holds(rows, ledger[i]) /\ ~Holds(verify.rows, ledger[i])
  /\ verify.stage \in {"observe", "kv", "passed"} => ~verify.doomed

\* A store that kept its word has the row of every promise, and the rows of
\* writes begun later behind it.
IsKept(e) ==
  /\ e.seq \in DOMAIN rows /\ rows[e.seq].id = e.id
  /\ \A i \in DOMAIN rows, j \in DOMAIN ledger :
       IsIntent(ledger[j], rows[i].id) /\ ledger[j].at > e.at => i > e.seq

StoreKeepsItsWord ==
  /\ \A i \in DOMAIN rows : rows[i].kv
  /\ \A i \in DOMAIN ledger : ledger[i].kind \in {"ack", "observed"} => IsKept(ledger[i])
  /\ \A id \in Ops : op[id].pc = "answered" => IsKept(Pending(id))

\* What was read of it is a beginning of its table, whole unless a late row was
\* added since.
ReadIsPrefix ==
  /\ Len(verify.rows) <= Len(rows)
  /\ \A i \in DOMAIN verify.rows : verify.rows[i] = rows[i]
  /\ verify.stage = "check" =>
       \A i \in DOMAIN ledger : ledger[i].kind \in {"ack", "observed"} =>
         ledger[i].seq <= Len(verify.rows)
  /\ verify.stage \in {"check", "observe", "kv"} /\ ~lateCommit =>
       Len(verify.rows) = Len(rows)

UnbetrayedInv ==
  ~betrayed => /\ StoreKeepsItsWord /\ ReadIsPrefix
               /\ verify.stage # "history"
               /\ verify.stage = "mirror" => lateCommit

IInv == /\ TypeInv /\ LedgerMatches /\ ClockMatches /\ PromisesMatch
        /\ VerifyMatches /\ DoomedMatches /\ UnbetrayedInv
-----------------------------------------------------------------------------
(* The operators of the model.                                             *)

Pcs == {"new", "started", "intended", "sent", "answered", "failed", "done", "dead"}

\* A line is put behind the ledger as it was.
LEMMA LineFacts ==
  ASSUME ledger \in Seq(Event), NEW e \in Event, AppendLine(e)
  PROVE  /\ ledger' \in Seq(Event)
         /\ Len(ledger') = Len(ledger) + 1
         /\ DOMAIN ledger = 1..Len(ledger) /\ DOMAIN ledger' = 1..(Len(ledger) + 1)
         /\ Len(ledger) \in Nat
         /\ \A i \in DOMAIN ledger : ledger'[i] = ledger[i]
         /\ ledger'[Len(ledger) + 1] = e
<1>1. <<e>> \in Seq(Event) /\ Len(<<e>>) = 1 /\ <<e>>[1] = e
  OBVIOUS
<1> QED
  BY <1>1, ConcatProperties, LenProperties DEF AppendLine

\* What WellFormed says, place by place.
LEMMA WellFormedMeans ==
  ASSUME NEW events \in Seq(Event)
  PROVE  WellFormed(events) <=>
           \A i \in DOMAIN events :
             /\ events[i].kind = "intent" =>
                  \A j \in 1..(i - 1) : ~IsIntent(events[j], events[i].id)
             /\ events[i].kind # "intent" =>
                  \E j \in 1..(i - 1) : IsIntent(events[j], events[i].id)
             /\ events[i].kind \in {"ack", "uncertain"} =>
                  \A j \in 1..(i - 1) : ~(/\ events[j].kind \in {"ack", "uncertain"}
                                          /\ events[j].id = events[i].id)
<1>1. \A i \in DOMAIN events :
        /\ events[i].kind \in {"intent", "ack", "uncertain", "observed"}
  <2> TAKE i \in DOMAIN events
  <2>1. events[i] \in Event
    BY ElementOfSeq, LenProperties
  <2> QED
    BY <2>1 DEF Event
<1> QED
  BY <1>1 DEF WellFormed, IsIntent

\* Of one write there is one intent, so its time is the one the oracle finds.
LEMMA IntentFound ==
  ASSUME NEW events \in Seq(Event), WellFormed(events), NEW i \in DOMAIN events,
         NEW id, IsIntent(events[i], id)
  PROVE  IntentAt(events, id) = events[i].at
<1>1. DOMAIN events = 1..Len(events) /\ Len(events) \in Nat
  BY LenProperties
<1>2. \A j \in DOMAIN events : IsIntent(events[j], id) => j = i
  <2> TAKE j \in DOMAIN events
  <2> HAVE IsIntent(events[j], id)
  <2>1. CASE j < i
    BY <2>1, <1>1, WellFormedMeans DEF IsIntent
  <2>2. CASE i < j
    BY <2>2, <1>1, WellFormedMeans DEF IsIntent
  <2> QED
    BY <2>1, <2>2, <1>1
<1>3. events[i] \in Elements(events)
  BY DEF Elements
<1>4. \A e \in Elements(events) : IsIntent(e, id) => e = events[i]
  BY <1>2 DEF Elements
<1> QED
  BY <1>3, <1>4 DEF IntentAt, IsIntent

\* An interval is as large as it looks.
LEMMA IntervalSize == ASSUME NEW n \in Nat PROVE IsFiniteSet(1..n) /\ Cardinality(1..n) = n
<1>1. IsFiniteSet(1..n) /\ Cardinality(1..n) = IF 1 > n THEN 0 ELSE n - 1 + 1
  BY FS_Interval
<1> QED
  BY <1>1

\* The page after row k of an ordered table is what follows row k.
LEMMA PageFacts ==
  ASSUME BoundsAssumption, rows \in Seq(Row), NEW k \in Nat,
         \A i \in DOMAIN rows : rows[i].seq = i
  PROVE  /\ Page(k) \in Seq(Row) /\ Len(Page(k)) \in Nat
         /\ \A i \in 1..Len(Page(k)) : /\ k + i \in DOMAIN rows
                                      /\ Page(k)[i] = rows[k + i]
         /\ k <= Len(rows) => k + Len(Page(k)) <= Len(rows)
         /\ k <= Len(rows) /\ Len(Page(k)) < PageSize => k + Len(Page(k)) = Len(rows)
<1> DEFINE S == {i \in DOMAIN rows : rows[i].seq <= k}
<1>1. PICK n : n = Len(rows)
  OBVIOUS
<1>2. n \in Nat /\ DOMAIN rows = 1..n /\ PageSize \in Nat /\ PageSize > 0
  BY <1>1, LenProperties DEF BoundsAssumption
<1>3. PICK c : c = IF k < n THEN k ELSE n
  OBVIOUS
<1>4. c \in Nat /\ Cardinality(S) = c
  <2>1. c \in Nat /\ S = 1..c
    BY <1>2, <1>3
  <2> QED
    BY <2>1, IntervalSize
<1>5. PICK m : m = IF n < c + PageSize THEN n ELSE c + PageSize
  OBVIOUS
<1>6. Page(k) = SubSeq(rows, c + 1, m)
  <2>1. c + 1 + PageSize - 1 = c + PageSize
    BY <1>2, <1>4
  <2> QED
    BY <1>1, <2>1, <1>4, <1>5 DEF Page
<1> HIDE DEF S
<1>7. m \in Nat /\ m <= n /\ m >= c /\ m - c <= PageSize
  BY <1>2, <1>3, <1>4, <1>5
<1>8. \A i \in (c + 1)..m : rows[i] \in Row
  BY <1>1, <1>2, <1>4, <1>7, ElementOfSeq
<1>9. /\ Page(k) \in Seq(Row)
      /\ Len(Page(k)) = m - c
      /\ \A i \in 1..(m - c) : Page(k)[i] = rows[c + i]
  BY <1>4, <1>6, <1>7, <1>8, SubSeqProperties
<1>10. CASE k < n
  <2>1. c = k
    BY <1>10, <1>3
  <2> QED
    BY <2>1, <1>10, <1>9, <1>7, <1>5, <1>1, <1>2, <1>4
<1>11. CASE k >= n
  <2>1. c = n /\ m = n
    BY <1>11, <1>3, <1>4, <1>5, <1>2
  <2>2. Len(Page(k)) = 0
    BY <2>1, <1>9, <1>2
  <2> QED
    BY <2>2, <2>1, <1>11, <1>9, <1>1, <1>2
<1> QED
  BY <1>10, <1>11, <1>2

\* A table of distinct rows is no longer than the writes are many.
LEMMA RowsFit ==
  ASSUME BoundsAssumption, rows \in Seq(Row), RowsInOrder
  PROVE  Len(rows) \in Nat /\ Len(rows) <= MaxOps
<1> DEFINE f == [i \in 1..Len(rows) |-> rows[i].id]
<1>1. Len(rows) \in Nat /\ DOMAIN rows = 1..Len(rows)
  BY LenProperties
<1>2. \A i \in 1..Len(rows) : rows[i].id \in Ops
  <2> TAKE i \in 1..Len(rows)
  <2>1. rows[i] \in Row
    BY <1>1, ElementOfSeq
  <2> QED
    BY <2>1 DEF Row
<1>3. f \in [1..Len(rows) -> Ops]
  BY <1>2
<1>4. /\ IsFiniteSet(Ops) /\ Cardinality(Ops) = MaxOps
      /\ IsFiniteSet(1..Len(rows)) /\ Cardinality(1..Len(rows)) = Len(rows)
  BY <1>1, IntervalSize DEF Ops, BoundsAssumption
<1>5. SUFFICES ASSUME MaxOps < Len(rows) PROVE FALSE
  BY <1>1 DEF BoundsAssumption
<1>6. \E x, y \in 1..Len(rows) : x # y /\ f[x] = f[y]
  <2> HIDE DEF f
  <2> QED
    BY <1>3, <1>4, <1>5, FS_PigeonHole
<1> QED
  BY <1>6, <1>1 DEF RowsInOrder
-----------------------------------------------------------------------------
(* Types and places.                                                       *)

OpRecord == [pc : Pcs, at : Times, seq : Seqs]
Verification == [stage : Stages, events : Seq(Event), rows : Seq(Row),
                 pages : Nat, doomed : BOOLEAN]

\* A write's state with one more thing done.
LEMMA OpFacts ==
  ASSUME op \in [Ops -> OpRecord], NEW id \in Ops, NEW r \in OpRecord,
         op' = [op EXCEPT ![id] = r]
  PROVE  /\ op' \in [Ops -> OpRecord] /\ op'[id] = r
         /\ \A other \in Ops : other # id => op'[other] = op[other]
OBVIOUS

\* A write's record, field by field.
LEMMA OpFields ==
  ASSUME op \in [Ops -> OpRecord], NEW id \in Ops
  PROVE  /\ op[id].pc \in Pcs /\ op[id].at \in Times /\ op[id].seq \in Seqs
         /\ op[id] = [pc |-> op[id].pc, at |-> op[id].at, seq |-> op[id].seq]
<1>1. op[id] \in OpRecord
  OBVIOUS
<1> QED
  BY <1>1 DEF OpRecord

\* What each action makes of the write it is about.
LEMMA Progress ==
  ASSUME TypeInv, NEW id \in Ops,
         NEW pc \in Pcs, NEW at \in Times, NEW seq \in Seqs,
         op' = [op EXCEPT ![id] = [pc |-> pc, at |-> at, seq |-> seq]]
  PROVE  /\ op' \in [Ops -> OpRecord]
         /\ op'[id].pc = pc /\ op'[id].at = at /\ op'[id].seq = seq
         /\ \A other \in Ops : other # id => op'[other] = op[other]
<1>1. op \in [Ops -> OpRecord]
  BY DEF TypeInv, TypeOK, OpRecord, Pcs
<1>2. [pc |-> pc, at |-> at, seq |-> seq] \in OpRecord
  BY DEF OpRecord
<1> QED
  BY <1>1, <1>2, OpFacts

\* A write's own record changes its pc alone.
LEMMA MoveFacts ==
  ASSUME TypeInv, NEW id \in Ops, NEW pc \in Pcs,
         op' = [op EXCEPT ![id].pc = pc]
  PROVE  /\ op' \in [Ops -> OpRecord]
         /\ op'[id].pc = pc /\ op'[id].at = op[id].at /\ op'[id].seq = op[id].seq
         /\ \A other \in Ops : other # id => op'[other] = op[other]
<1>1. op \in [Ops -> OpRecord]
  BY DEF TypeInv, TypeOK, OpRecord, Pcs
<1> QED
  BY <1>1 DEF OpRecord

\* A write begins at the clock's time.
LEMMA StartFacts ==
  ASSUME TypeInv, NEW id \in Ops, Start(id)
  PROVE  /\ op' \in [Ops -> OpRecord]
         /\ op[id].pc = "new" /\ op'[id].pc = "started" /\ op'[id].at = now
         /\ \A other \in Ops : other # id => op'[other] = op[other]
<1>1. op \in [Ops -> OpRecord] /\ now \in Times
  BY DEF TypeInv, TypeOK, OpRecord, Pcs
<1>2. "started" \in Pcs
  BY DEF Pcs
<1> QED
  BY <1>1, <1>2 DEF Start, OpRecord

\* The verification's record, field by field.
LEMMA VerifyFields ==
  ASSUME TypeInv
  PROVE  /\ verify.stage \in Stages /\ verify.events \in Seq(Event)
         /\ verify.rows \in Seq(Row) /\ verify.pages \in Nat
         /\ verify.doomed \in BOOLEAN
         /\ verify = [stage |-> verify.stage, events |-> verify.events,
                      rows |-> verify.rows, pages |-> verify.pages,
                      doomed |-> verify.doomed]
<1> DEFINE E == Seq(Event)
           R == Seq(Row)
<1>1. verify \in [stage : Stages, events : E, rows : R, pages : Nat, doomed : BOOLEAN]
  BY DEF TypeInv, TypeOK
<1> HIDE DEF E, R
<1>2. /\ verify.stage \in Stages /\ verify.events \in E
      /\ verify.rows \in R /\ verify.pages \in Nat
      /\ verify.doomed \in BOOLEAN
      /\ verify = [stage |-> verify.stage, events |-> verify.events,
                   rows |-> verify.rows, pages |-> verify.pages,
                   doomed |-> verify.doomed]
  BY <1>1
<1> QED
  BY <1>2 DEF E, R
\* What each step of the verification makes of its record.
Verified(stage, events, table, pages, doomed) ==
  [stage |-> stage, events |-> events, rows |-> table, pages |-> pages,
   doomed |-> doomed]

\* A verification begins with the ledger as it is.
LEMMA VerifyFacts ==
  ASSUME TypeInv, Verify
  PROVE  /\ verify' \in Verification
         /\ verify'.stage = IF torn \/ (~alive /\ ledger = <<>>) THEN "torn" ELSE "rows"
         /\ verify'.events = ledger /\ verify'.rows = <<>> /\ verify'.pages = 0
         /\ verify'.doomed = Doomed
<1>1. verify' = Verified(IF torn \/ (~alive /\ ledger = <<>>) THEN "torn" ELSE "rows",
                         ledger, <<>>, 0, Doomed)
  BY DEF Verify, NoVerify, Verified
<1>2. (IF torn \/ (~alive /\ ledger = <<>>) THEN "torn" ELSE "rows") \in Stages
  BY DEF Stages
<1>3. ledger \in Seq(Event) /\ <<>> \in Seq(Row) /\ 0 \in Nat
  BY EmptySeq DEF TypeInv, TypeOK
<1>4. Doomed \in BOOLEAN
  BY DEF Doomed
<1> QED
  BY <1>1, <1>2, <1>3, <1>4 DEF Verified, Verification

\* The next page is the one after the rows read so far.
LEMMA ReadPageFacts ==
  ASSUME BoundsAssumption, TypeInv, ReadPage, NEW next, next = Page(Len(verify.rows))
  PROVE  /\ verify' \in Verification
         /\ verify'.stage = IF Len(next) < PageSize THEN "check"
                            ELSE IF verify.pages + 1 = MaxPages THEN "exhausted"
                            ELSE "rows"
         /\ verify'.events = verify.events /\ verify'.rows = verify.rows \o next
         /\ verify'.pages = verify.pages + 1 /\ verify'.doomed = verify.doomed
         /\ next \in Seq(Row)
<1>1. verify.rows \in Seq(Row)
  BY VerifyFields
<1>2. LastSeq(verify.rows) = Len(verify.rows)
  BY <1>1, LenProperties, EmptySeq DEF LastSeq, TypeInv, PagesInOrder
<1>3. verify' = Verified(IF Len(next) < PageSize THEN "check"
                           ELSE IF verify.pages + 1 = MaxPages THEN "exhausted"
                           ELSE "rows",
                         verify.events, verify.rows \o next, verify.pages + 1,
                         verify.doomed)
  BY <1>2, VerifyFields DEF ReadPage, Verified
<1>4. next \in Seq(Row)
  BY <1>1, PageFacts, LenProperties DEF TypeInv, TypeOK, RowsInOrder
<1>5. verify.rows \o next \in Seq(Row) /\ verify.pages + 1 \in Nat
  BY <1>1, <1>4, VerifyFields, ConcatProperties
<1>6. (IF Len(next) < PageSize THEN "check"
       ELSE IF verify.pages + 1 = MaxPages THEN "exhausted" ELSE "rows") \in Stages
  BY DEF Stages
<1> QED
  BY <1>3, <1>4, <1>5, <1>6, VerifyFields DEF Verified, Verification

\* A row read is one that was read before or one of the table, at its place.
LEMMA ReadRows ==
  ASSUME BoundsAssumption, TypeInv, ReadPage
  PROVE  /\ verify'.rows \in Seq(Row) /\ Len(verify'.rows) \in Nat
         /\ Len(verify.rows) <= Len(verify'.rows)
         /\ \A i \in DOMAIN verify'.rows :
              /\ \/ i \in DOMAIN verify.rows /\ verify'.rows[i] = verify.rows[i]
                 \/ i \in DOMAIN rows /\ verify'.rows[i] = rows[i]
              /\ i \in DOMAIN verify.rows => verify'.rows[i] = verify.rows[i]
              /\ verify'.rows[i].seq = i /\ request[verify'.rows[i].id] = "gone"
         /\ Len(verify.rows) <= Len(rows) => Len(verify'.rows) <= Len(rows)
         /\ Len(verify.rows) <= Len(rows) /\ verify'.stage = "check" =>
              Len(verify'.rows) = Len(rows)
<1>1. PICK k : k = Len(verify.rows)
  OBVIOUS
<1>2. PICK next : next = Page(k)
  OBVIOUS
<1>3. /\ verify'.rows = verify.rows \o next /\ next \in Seq(Row)
      /\ verify.rows \in Seq(Row) /\ k \in Nat
      /\ verify'.stage = "check" => Len(next) < PageSize
  BY <1>1, <1>2, ReadPageFacts, VerifyFields, LenProperties
<1>4. rows \in Seq(Row) /\ \A i \in DOMAIN rows : rows[i].seq = i
  BY DEF TypeInv, TypeOK, RowsInOrder
<1>5. /\ Len(next) \in Nat
      /\ \A i \in 1..Len(next) : k + i \in DOMAIN rows /\ next[i] = rows[k + i]
      /\ k <= Len(rows) => k + Len(next) <= Len(rows)
      /\ k <= Len(rows) /\ Len(next) < PageSize => k + Len(next) = Len(rows)
  BY <1>2, <1>3, <1>4, PageFacts
<1>6. /\ DOMAIN verify.rows = 1..k
      /\ verify'.rows \in Seq(Row) /\ Len(verify'.rows) = k + Len(next)
      /\ DOMAIN verify'.rows = 1..(k + Len(next))
      /\ \A i \in 1..(k + Len(next)) :
           verify'.rows[i] = IF i <= k THEN verify.rows[i] ELSE next[i - k]
  BY <1>1, <1>3, <1>5, LenProperties, ConcatProperties
<1>7. ASSUME NEW i \in DOMAIN verify'.rows, i <= k
      PROVE  /\ i \in DOMAIN verify.rows /\ verify'.rows[i] = verify.rows[i]
             /\ verify'.rows[i].seq = i /\ request[verify'.rows[i].id] = "gone"
  BY <1>3, <1>5, <1>6, <1>7 DEF TypeInv, PagesInOrder
<1>8. ASSUME NEW i \in DOMAIN verify'.rows, ~(i <= k)
      PROVE  /\ i \in DOMAIN rows /\ verify'.rows[i] = rows[i] /\ i \notin DOMAIN verify.rows
             /\ verify'.rows[i].seq = i /\ request[verify'.rows[i].id] = "gone"
  <2>1. i - k \in 1..Len(next) /\ k + (i - k) = i /\ verify'.rows[i] = next[i - k]
    <3>1. i \in 1..(k + Len(next)) /\ k \in Nat /\ Len(next) \in Nat
      BY <1>3, <1>5, <1>6
    <3>2. verify'.rows[i] = next[i - k]
      BY <1>6, <1>8, <3>1
    <3> QED
      BY <1>8, <3>1, <3>2
  <2>2. i \in DOMAIN rows /\ verify'.rows[i] = rows[i] /\ i \notin DOMAIN verify.rows
    BY <2>1, <1>3, <1>5, <1>6, <1>8
  <2> QED
    BY <2>2 DEF TypeInv, RowsInOrder
<1> QED
  BY <1>1, <1>3, <1>5, <1>6, <1>7, <1>8

\* The comparison decides where the verification goes on.
LEMMA CheckRowsFacts ==
  ASSUME TypeInv, CheckRows
  PROVE  /\ verify' \in Verification
         /\ verify'.stage = IF ~checkHistory(verify.events, verify.rows) THEN "history"
                            ELSE IF alive /\ verify.rows # <<>> THEN "observe" ELSE "kv"
         /\ verify'.events = verify.events /\ verify'.rows = verify.rows
         /\ verify'.pages = 0 /\ verify'.doomed = verify.doomed
<1>1. verify' = Verified(IF ~checkHistory(verify.events, verify.rows) THEN "history"
                           ELSE IF alive /\ verify.rows # <<>> THEN "observe" ELSE "kv",
                         verify.events, verify.rows, 0, verify.doomed)
  BY VerifyFields DEF CheckRows, Verified
<1>2. (IF ~checkHistory(verify.events, verify.rows) THEN "history"
       ELSE IF alive /\ verify.rows # <<>> THEN "observe" ELSE "kv") \in Stages
  BY DEF Stages
<1> QED
  BY <1>1, <1>2, VerifyFields DEF Verified, Verification

\* The row that is recorded next, and its line.
LEMMA ObserveFacts ==
  ASSUME TypeInv, Observe, NEW n, n = verify.pages + 1
  PROVE  /\ verify' \in Verification
         /\ verify'.stage = IF n = Len(verify.rows) THEN "kv" ELSE "observe"
         /\ verify'.events = verify.events /\ verify'.rows = verify.rows
         /\ verify'.pages = IF n = Len(verify.rows) THEN 0 ELSE n
         /\ verify'.doomed = verify.doomed
         /\ n \in DOMAIN verify.rows /\ verify.rows[n] \in Row
         /\ n \in Nat /\ Len(verify.rows) \in Nat /\ n <= Len(verify.rows)
         /\ AppendLine(Entry("observed", verify.rows[n].id, now, verify.rows[n].seq))
         /\ Entry("observed", verify.rows[n].id, now, verify.rows[n].seq) \in Event
<1>1. /\ verify' = Verified(IF n = Len(verify.rows) THEN "kv" ELSE "observe",
                           verify.events, verify.rows,
                           IF n = Len(verify.rows) THEN 0 ELSE n, verify.doomed)
      /\ AppendLine(Entry("observed", verify.rows[n].id, now, verify.rows[n].seq))
  BY VerifyFields DEF Observe, Verified
<1>2. /\ verify.rows \in Seq(Row) /\ verify.pages \in Nat /\ verify.pages < Len(verify.rows)
      /\ verify.stage = "observe"
  BY VerifyFields DEF Observe, TypeInv, PagesInOrder
<1>3. /\ n \in DOMAIN verify.rows /\ verify.rows[n] \in Row /\ n \in Nat
      /\ Len(verify.rows) \in Nat /\ n <= Len(verify.rows)
  BY <1>2, LenProperties, ElementOfSeq
<1>4. now \in Times
  BY DEF TypeInv, TypeOK
<1>5. Entry("observed", verify.rows[n].id, now, verify.rows[n].seq) \in Event
  BY <1>3, <1>4 DEF Entry, Event, Row
<1>6. (IF n = Len(verify.rows) THEN "kv" ELSE "observe") \in Stages
  BY DEF Stages
<1>7. (IF n = Len(verify.rows) THEN 0 ELSE n) \in Nat
  BY <1>3
<1>8. /\ verify' \in Verification
      /\ verify'.stage = IF n = Len(verify.rows) THEN "kv" ELSE "observe"
      /\ verify'.events = verify.events /\ verify'.rows = verify.rows
      /\ verify'.pages = IF n = Len(verify.rows) THEN 0 ELSE n
      /\ verify'.doomed = verify.doomed
  BY <1>1, <1>6, <1>7, VerifyFields DEF Verified, Verification
<1> QED
  BY <1>1, <1>3, <1>5, <1>8

\* The scan of the mirror ends it.
LEMMA ReadKvFacts ==
  ASSUME TypeInv, ReadKv
  PROVE  /\ verify' \in Verification
         /\ verify'.stage = IF {row.id : row \in {r \in Elements(rows) : r.kv}}
                                = {row.id : row \in Elements(verify.rows)}
                              THEN "passed" ELSE "mirror"
         /\ verify'.events = verify.events /\ verify'.rows = verify.rows
         /\ verify'.pages = verify.pages /\ verify'.doomed = verify.doomed
<1> DEFINE stage == IF {row.id : row \in {r \in Elements(rows) : r.kv}}
                       = {row.id : row \in Elements(verify.rows)}
                     THEN "passed" ELSE "mirror"
<1>1. verify' = Verified(stage, verify.events, verify.rows, verify.pages, verify.doomed)
  BY VerifyFields DEF ReadKv, Verified
<1>2. stage \in Stages
  BY DEF Stages
<1>3. verify'.stage = stage
  BY <1>1 DEF Verified
<1> HIDE DEF stage
<1>4. /\ verify' \in Verification
      /\ verify'.events = verify.events /\ verify'.rows = verify.rows
      /\ verify'.pages = verify.pages /\ verify'.doomed = verify.doomed
  BY <1>1, <1>2, VerifyFields DEF Verified, Verification
<1> QED
  BY <1>3, <1>4 DEF stage

\* A receipt, and giving up.
LEMMA AnswerFacts ==
  ASSUME TypeInv, NEW id \in Ops, NEW pc \in Pcs, NEW seq \in Seqs,
         op' = [op EXCEPT ![id] = [pc |-> pc, at |-> now, seq |-> seq]]
  PROVE  /\ op' \in [Ops -> OpRecord]
         /\ op'[id].pc = pc /\ op'[id].at = now /\ op'[id].seq = seq
         /\ \A other \in Ops : other # id => op'[other] = op[other]
<1>1. now \in Times
  BY DEF TypeInv, TypeOK
<1> QED
  BY <1>1, Progress

\* Of one that found a row, the row's place is a place.
LEMMA ReceiveFacts ==
  ASSUME TypeInv, NEW id \in Ops, Receive(id)
  PROVE  /\ op[id].pc = "sent" /\ op'[id].pc = "answered" /\ op'[id].at = now
         /\ op' \in [Ops -> OpRecord]
         /\ \A other \in Ops : other # id => op'[other] = op[other]
         /\ \E i \in DOMAIN rows : rows[i].id = id /\ op'[id].seq = i /\ i \in Nat \ {0}
<1>1. PICK i \in DOMAIN rows : rows[i].id = id /\ Answer(id, rows[i].seq)
  BY DEF Receive, Elements
<1>2. rows \in Seq(Row) /\ rows[i].seq = i
  BY DEF TypeInv, TypeOK, RowsInOrder
<1>3. rows[i] \in Row /\ i \in Nat \ {0}
  BY <1>2, LenProperties, ElementOfSeq
<1>4. rows[i].seq \in Seqs /\ "answered" \in Pcs
  BY <1>3 DEF Row, Pcs
<1> QED
  BY <1>1, <1>2, <1>3, <1>4, AnswerFacts DEF Answer

\* A stale receipt names the place behind the table.
LEMMA StaleFacts ==
  ASSUME BoundsAssumption, TypeInv, NEW id \in Ops, StaleReceipt(id)
  PROVE  /\ op[id].pc = "sent" /\ op'[id].pc = "answered" /\ op'[id].at = now
         /\ op' \in [Ops -> OpRecord]
         /\ \A other \in Ops : other # id => op'[other] = op[other]
         /\ op'[id].seq = Len(rows) + 1 /\ Len(rows) \in Nat
<1>1. Len(rows) \in Nat /\ Len(rows) <= MaxOps
  BY RowsFit DEF TypeInv, TypeOK
<1>2. Len(rows) + 1 \in Seqs /\ "answered" \in Pcs
  BY <1>1 DEF Seqs, Pcs, BoundsAssumption
<1> QED
  BY <1>1, <1>2, AnswerFacts DEF StaleReceipt, Answer

\* The table with one row more.
LEMMA CommitFacts ==
  ASSUME BoundsAssumption, TypeInv, NEW id \in Ops, Commit(id)
  PROVE  /\ rows' \in Seq(Row) /\ Len(rows') = Len(rows) + 1 /\ Len(rows) \in Nat
         /\ DOMAIN rows = 1..Len(rows) /\ DOMAIN rows' = 1..(Len(rows) + 1)
         /\ \A i \in DOMAIN rows : rows'[i] = rows[i]
         /\ rows'[Len(rows) + 1].id = id /\ rows'[Len(rows) + 1].kv = TRUE
         /\ rows'[Len(rows) + 1].seq = Len(rows) + 1
         /\ \A i \in DOMAIN rows : rows[i].id # id
<1>1. rows \in Seq(Row) /\ Len(rows) \in Nat /\ Len(rows) <= MaxOps
  BY RowsFit DEF TypeInv, TypeOK
<1> DEFINE row == [id |-> id, seq |-> Len(rows) + 1, kv |-> TRUE]
<1>2. row \in Row
  BY <1>1 DEF Row, Seqs, BoundsAssumption
<1>3. /\ <<row>> \in Seq(Row) /\ Len(<<row>>) = 1 /\ <<row>>[1] = row
      /\ row.id = id /\ row.seq = Len(rows) + 1 /\ row.kv = TRUE
  BY <1>2
<1>4. rows' = rows \o <<row>>
  BY DEF Commit
<1>5. \A i \in DOMAIN rows : rows[i].id # id
  BY DEF Commit, TypeInv, RowsInOrder
<1> HIDE DEF row
<1> QED
  BY <1>1, <1>2, <1>3, <1>4, <1>5, ConcatProperties, LenProperties

\* The table without its last rows.
LEMMA LoseRowsFacts ==
  ASSUME TypeInv, LoseRows
  PROVE  /\ rows' \in Seq(Row) /\ Len(rows') <= Len(rows) /\ Len(rows') \in Nat
         /\ DOMAIN rows = 1..Len(rows) /\ DOMAIN rows' = 1..Len(rows') /\ Len(rows) \in Nat
         /\ \A i \in DOMAIN rows' : i \in DOMAIN rows /\ rows'[i] = rows[i]
<1>1. PICK n \in 0..(Len(rows) - 1) : rows' = SubSeq(rows, 1, n)
  BY DEF LoseRows
<1>2. rows \in Seq(Row)
  BY DEF TypeInv, TypeOK
<1>3. \A i \in 1..n : rows[i] \in Row
  BY <1>1, <1>2, ElementOfSeq, LenProperties
<1> QED
  BY <1>1, <1>2, <1>3, SubSeqProperties, LenProperties

\* The table with one row's mirror gone.
LEMMA LoseMirrorFacts ==
  ASSUME TypeInv, LoseMirror
  PROVE  /\ rows' \in Seq(Row) /\ Len(rows') = Len(rows)
         /\ DOMAIN rows' = DOMAIN rows
         /\ \A i \in DOMAIN rows : rows'[i].id = rows[i].id /\ rows'[i].seq = rows[i].seq
         /\ \A i \in DOMAIN rows : rows'[i] = rows[i] \/ rows'[i].kv = FALSE
<1>1. PICK i \in DOMAIN rows : rows' = [rows EXCEPT ![i].kv = FALSE]
  BY DEF LoseMirror
<1>2. rows \in Seq(Row)
  BY DEF TypeInv, TypeOK
<1>3. rows[i] \in Row /\ i \in 1..Len(rows) /\ DOMAIN rows = 1..Len(rows)
  BY <1>1, <1>2, ElementOfSeq, LenProperties
<1> DEFINE row == [rows[i] EXCEPT !.kv = FALSE]
<1>4. row \in Row /\ row.id = rows[i].id /\ row.seq = rows[i].seq /\ row.kv = FALSE
  BY <1>3 DEF Row
<1>5. rows' = [rows EXCEPT ![i] = row]
  BY <1>1
<1> HIDE DEF row
<1> QED
  BY <1>2, <1>3, <1>4, <1>5, ExceptSeq, LenProperties
\* The two lines the driver writes about a write.
LEMMA IntendFacts ==
  ASSUME TypeInv, NEW id \in Ops, Intend(id)
  PROVE  /\ op[id].pc = "started" /\ op'[id].pc = "intended" /\ op'[id].at = op[id].at
         /\ op' \in [Ops -> OpRecord]
         /\ \A other \in Ops : other # id => op'[other] = op[other]
         /\ AppendLine(Entry("intent", id, op[id].at, 0))
         /\ Entry("intent", id, op[id].at, 0) \in Event
<1>1. op \in [Ops -> OpRecord] /\ "intended" \in Pcs
  BY DEF TypeInv, TypeOK, OpRecord, Pcs
<1>2. Entry("intent", id, op[id].at, 0) \in Event
  BY <1>1, OpFields, BoundsAssumption DEF Entry, Event, Seqs, BoundsAssumption
<1> QED
  BY <1>1, <1>2, MoveFacts DEF Intend

\* The line that completes a write says what its driver was answered.
LEMMA CompleteFacts ==
  ASSUME TypeInv, NEW id \in Ops, Complete(id)
  PROVE  LET line == Entry(IF op[id].pc = "answered" THEN "ack" ELSE "uncertain",
                           id, op[id].at, op[id].seq) IN
         /\ op[id].pc \in {"answered", "failed"} /\ op'[id].pc = "done"
         /\ op'[id].at = op[id].at
         /\ op' \in [Ops -> OpRecord]
         /\ \A other \in Ops : other # id => op'[other] = op[other]
         /\ AppendLine(line) /\ line \in Event
<1>1. op \in [Ops -> OpRecord] /\ "done" \in Pcs
  BY DEF TypeInv, TypeOK, OpRecord, Pcs
<1>2. Entry(IF op[id].pc = "answered" THEN "ack" ELSE "uncertain",
            id, op[id].at, op[id].seq) \in Event
  BY <1>1, OpFields DEF Entry, Event
<1> QED
  BY <1>1, <1>2, MoveFacts DEF Complete

\* Sending, giving up and dying change the writes' states alone.
LEMMA SendFacts ==
  ASSUME TypeInv, NEW id \in Ops, Send(id)
  PROVE  /\ op[id].pc = "intended" /\ op'[id].pc = "sent" /\ op'[id].at = op[id].at
         /\ op' \in [Ops -> OpRecord]
         /\ \A other \in Ops : other # id => op'[other] = op[other]
BY MoveFacts DEF Send, Pcs

\* A write given up.
LEMMA GiveUpFacts ==
  ASSUME TypeInv, NEW id \in Ops, GiveUp(id)
  PROVE  /\ op[id].pc = "sent" /\ op'[id].pc = "failed" /\ op'[id].at = now
         /\ op' \in [Ops -> OpRecord]
         /\ \A other \in Ops : other # id => op'[other] = op[other]
<1>1. "failed" \in Pcs /\ 0 \in Seqs
  BY BoundsAssumption DEF Pcs, Seqs, BoundsAssumption
<1> QED
  BY <1>1, AnswerFacts DEF GiveUp

\* A crash ends what was under way.
LEMMA CrashFacts ==
  ASSUME TypeInv, Crash
  PROVE  /\ op' \in [Ops -> OpRecord]
         /\ \A id \in Ops : /\ op'[id].at = op[id].at
                            /\ op'[id].pc = IF op[id].pc \in {"new", "done"}
                                             THEN op[id].pc ELSE "dead"
<1>1. op \in [Ops -> OpRecord] /\ "dead" \in Pcs
  BY DEF TypeInv, TypeOK, OpRecord, Pcs
<1> QED
  BY <1>1 DEF Crash, OpRecord

\* The types hold at the start.
LEMMA TypeInit == BoundsAssumption /\ Init => TypeInv
<1> SUFFICES ASSUME BoundsAssumption, Init PROVE TypeInv
  OBVIOUS
<1>1. /\ now \in Times /\ alive \in BOOLEAN /\ torn \in BOOLEAN
      /\ request \in [Ops -> {"none", "flying", "gone"}]
      /\ verifies \in 0..MaxVerifies /\ lateCommit \in BOOLEAN /\ betrayed \in BOOLEAN
      /\ ledger \in Seq(Event) /\ rows \in Seq(Row)
  <2>1. ledger \in Seq(Event) /\ rows \in Seq(Row)
    BY EmptySeq DEF Init
  <2> QED
    <3>1. now \in Times /\ verifies \in 0..MaxVerifies
      BY DEF BoundsAssumption, Init, Times
    <3>2. request \in [Ops -> {"none", "flying", "gone"}]
      BY DEF Init
    <3> QED
      BY <2>1, <3>1, <3>2 DEF Init
<1>2. op \in [Ops -> [pc : Pcs, at : Times, seq : Seqs]]
  BY DEF BoundsAssumption, Init, Pcs, Times, Seqs
<1>3. verify \in [stage : Stages, events : Seq(Event), rows : Seq(Row),
                 pages : Nat, doomed : BOOLEAN]
  BY EmptySeq DEF Init, NoVerify, Stages
<1>4. TypeOK
  BY <1>1, <1>2, <1>3 DEF TypeOK, Pcs, Init, NoVerify
<1> QED
  BY <1>4 DEF Init, TypeInv, RowsInOrder, PagesInOrder, NoVerify

\* TypeOK in the names of this module.
Types ==
  /\ now \in Times /\ alive \in BOOLEAN
  /\ ledger \in Seq(Event) /\ torn \in BOOLEAN
  /\ op \in [Ops -> OpRecord]
  /\ request \in [Ops -> {"none", "flying", "gone"}]
  /\ rows \in Seq(Row) /\ verify \in Verification
  /\ verify.stage \in {"rows", "check", "exhausted"} => verify.pages <= MaxPages
  /\ verifies \in 0..MaxVerifies /\ lateCommit \in BOOLEAN /\ betrayed \in BOOLEAN

\* The two say the same, of this state and of the next.
LEMMA TypeMeans == (TypeOK <=> Types) /\ (TypeOK' <=> Types')
BY DEF TypeOK, Types, OpRecord, Pcs, Verification

\* Every step keeps the types and the places.
LEMMA TypeStep == ASSUME BoundsAssumption, TypeInv, [Next]_vars PROVE TypeInv'
<1> SUFFICES ASSUME Types, RowsInOrder, PagesInOrder
             PROVE  Types' /\ RowsInOrder' /\ PagesInOrder'
  BY TypeMeans DEF TypeInv
<1> USE DEF Types, RowsInOrder, PagesInOrder
<1>1. ASSUME NEW id \in Ops, Start(id) PROVE Types' /\ RowsInOrder' /\ PagesInOrder'
  <2>0. UNCHANGED <<now, alive, ledger, torn, request, rows, verify, verifies,
                    lateCommit, betrayed>>
    BY <1>1 DEF Start, storeVars, ghosts
  <2>1. Types'
    BY <1>1, <2>0, StartFacts
  <2>2. RowsInOrder'
    <3>1. UNCHANGED <<request, rows>>
      BY <2>0
    <3>2. /\ op[id].pc = "new" /\ \A other \in Ops : other # id => op'[other] = op[other]
      BY <1>1, StartFacts
    <3> QED
      BY <3>1, <3>2
  <2>3. PagesInOrder'
    BY <1>1 DEF Start, storeVars, ghosts
  <2> QED
    BY <2>1, <2>2, <2>3
<1>2. ASSUME NEW id \in Ops, Intend(id) PROVE Types' /\ RowsInOrder' /\ PagesInOrder'
  <2>1. Types'
    BY <1>2, IntendFacts, LineFacts DEF Intend, storeVars, ghosts
  <2>2. RowsInOrder'
    BY <1>2, IntendFacts DEF Intend, storeVars, ghosts
  <2>3. PagesInOrder'
    BY <1>2 DEF Intend, storeVars, ghosts
  <2> QED
    BY <2>1, <2>2, <2>3
<1>3. ASSUME NEW id \in Ops, Send(id) PROVE Types' /\ RowsInOrder' /\ PagesInOrder'
  <2>1. Types'
    BY <1>3, SendFacts DEF Send, storeVars, ghosts
  <2>2. RowsInOrder'
    BY <1>3, SendFacts DEF Send, storeVars, ghosts
  <2>3. PagesInOrder'
    BY <1>3 DEF Send, storeVars, ghosts
  <2> QED
    BY <2>1, <2>2, <2>3
<1>4. ASSUME NEW id \in Ops, Receive(id) PROVE Types' /\ RowsInOrder' /\ PagesInOrder'
  BY <1>4, ReceiveFacts DEF Receive, storeVars, ghosts
<1>5. ASSUME NEW id \in Ops, GiveUp(id) PROVE Types' /\ RowsInOrder' /\ PagesInOrder'
  <2>1. Types'
    BY <1>5, GiveUpFacts DEF GiveUp, storeVars, ghosts
  <2>2. RowsInOrder'
    BY <1>5, GiveUpFacts DEF GiveUp, storeVars, ghosts
  <2>3. PagesInOrder'
    BY <1>5 DEF GiveUp, storeVars, ghosts
  <2> QED
    BY <2>1, <2>2, <2>3
<1>6. ASSUME NEW id \in Ops, Complete(id) PROVE Types' /\ RowsInOrder' /\ PagesInOrder'
  <2>1. Types'
    BY <1>6, CompleteFacts, LineFacts DEF Complete, storeVars, ghosts
  <2>2. RowsInOrder'
    BY <1>6, CompleteFacts DEF Complete, storeVars, ghosts
  <2>3. PagesInOrder'
    BY <1>6 DEF Complete, storeVars, ghosts
  <2> QED
    BY <2>1, <2>2, <2>3
<1>7. ASSUME NEW id \in Ops, Commit(id) PROVE Types' /\ RowsInOrder' /\ PagesInOrder'
  <2>1. Types'
    BY <1>7, CommitFacts DEF Commit, clientVars
  <2>2. RowsInOrder'
    BY <1>7, CommitFacts DEF Commit, clientVars
  <2>3. PagesInOrder'
    BY <1>7 DEF Commit, clientVars
  <2> QED
    BY <2>1, <2>2, <2>3
<1>8. ASSUME NEW id \in Ops, Drop(id) PROVE Types' /\ RowsInOrder' /\ PagesInOrder'
  BY <1>8 DEF Drop, clientVars, ghosts
<1>9. ASSUME NEW id \in Ops, StaleReceipt(id) PROVE Types' /\ RowsInOrder' /\ PagesInOrder'
  <2>1. Types'
    <3>1. /\ UNCHANGED <<now, alive, ledger, torn, rows, verify, verifies, lateCommit>>
          /\ request' = [request EXCEPT ![id] = "gone"] /\ betrayed' = TRUE
      BY <1>9 DEF StaleReceipt
    <3> QED
      BY <1>9, <3>1, StaleFacts
  <2>2. RowsInOrder'
    <3>1. /\ op[id].pc = "sent" /\ op'[id].pc = "answered"
          /\ \A other \in Ops : other # id => op'[other] = op[other]
      BY <1>9, StaleFacts
    <3>2. request' = [request EXCEPT ![id] = "gone"] /\ UNCHANGED rows
      BY <1>9 DEF StaleReceipt
    <3> QED
      BY <3>1, <3>2
  <2>3. PagesInOrder'
    BY <1>9 DEF StaleReceipt
  <2> QED
    BY <2>1, <2>2, <2>3
<1>10. CASE Tick
  BY <1>10 DEF Tick, storeVars, ghosts, Times, BoundsAssumption
<1>11. CASE Crash
  <2>1. Types'
    <3>1. /\ UNCHANGED <<now, request, rows, verifies, lateCommit, betrayed, ledger>>
          /\ alive' = FALSE /\ torn' \in BOOLEAN /\ verify' = NoVerify
      BY <1>11 DEF Crash, storeVars, ghosts
    <3>2. NoVerify \in Verification /\ NoVerify.stage = "idle"
      BY EmptySeq DEF NoVerify, Verification, Stages
    <3> QED
      BY <1>11, <3>1, <3>2, CrashFacts
  <2>2. RowsInOrder'
    BY <1>11, CrashFacts DEF Crash, storeVars
  <2>3. PagesInOrder'
    BY <1>11 DEF Crash, NoVerify
  <2> QED
    BY <2>1, <2>2, <2>3
<1>12. CASE LoseRows
  BY <1>12, LoseRowsFacts DEF LoseRows, clientVars
<1>13. CASE LoseMirror
  <2>1. Types'
    BY <1>13, LoseMirrorFacts DEF LoseMirror, clientVars
  <2>2. RowsInOrder'
    BY <1>13, LoseMirrorFacts DEF LoseMirror, clientVars
  <2>3. PagesInOrder'
    BY <1>13 DEF LoseMirror
  <2> QED
    BY <2>1, <2>2, <2>3
<1>14. CASE Verify
  <2>1. Types'
    <3>1. /\ UNCHANGED <<now, alive, ledger, torn, op, request, rows, betrayed>>
          /\ lateCommit' = FALSE /\ verifies' \in 0..MaxVerifies
      BY <1>14 DEF Verify, clientVars, storeVars, BoundsAssumption
    <3>2. verify' \in Verification /\ verify'.pages = 0 /\ 0 <= MaxPages
      BY <1>14, VerifyFacts DEF BoundsAssumption
    <3> QED
      BY <3>1, <3>2
  <2>2. RowsInOrder'
    BY <1>14 DEF Verify, clientVars, storeVars
  <2>3. PagesInOrder'
    BY <1>14, VerifyFacts DEF BoundsAssumption
  <2> QED
    BY <2>1, <2>2, <2>3
<1>15. CASE ReadPage
  <2>4. PICK next : next = Page(Len(verify.rows))
    OBVIOUS
  <2>0. verify.pages \in Nat /\ MaxPages \in Nat /\ verify.pages < MaxPages
    BY <1>15, VerifyFields DEF ReadPage, BoundsAssumption
  <2>1. Types'
    <3>1. /\ UNCHANGED <<now, alive, ledger, torn, op, request, rows, verifies, betrayed>>
          /\ lateCommit' = FALSE
      BY <1>15 DEF ReadPage, clientVars, storeVars
    <3>2. verify' \in Verification /\ verify'.pages = verify.pages + 1
      BY <1>15, <2>4, ReadPageFacts
    <3>3. verify'.pages <= MaxPages
      BY <2>0, <3>2
    <3> QED
      BY <3>1, <3>2, <3>3
  <2>2. RowsInOrder'
    BY <1>15 DEF ReadPage, clientVars, storeVars
  <2>3. PagesInOrder'
    <3>1. verify'.rows = verify.rows \o next /\ verify.rows \in Seq(Row) /\ next \in Seq(Row)
      BY <1>15, <2>4, ReadPageFacts, VerifyFields
    <3>2. \A i \in DOMAIN verify'.rows : /\ verify'.rows[i].seq = i
                                          /\ request[verify'.rows[i].id] = "gone"
      BY <1>15, ReadRows
    <3>3. verify'.stage \in {"check", "exhausted", "rows"}
          /\ (verify'.stage = "rows" => verify'.pages < MaxPages)
      <4>1. verify'.stage \in {"check", "exhausted", "rows"}
        BY <1>15, <2>4, ReadPageFacts
      <4>2. verify'.stage = "rows" => verify.pages + 1 # MaxPages /\ verify'.pages = verify.pages + 1
        BY <1>15, <2>4, ReadPageFacts
      <4> QED
        BY <2>0, <4>1, <4>2
    <3> QED
      BY <3>2, <3>3, <1>15 DEF ReadPage, storeVars
  <2> QED
    BY <2>1, <2>2, <2>3
<1>16. CASE CheckRows
  <2>1. Types'
    BY <1>16, CheckRowsFacts DEF CheckRows, clientVars, storeVars, ghosts
  <2>2. RowsInOrder'
    BY <1>16 DEF CheckRows, clientVars, storeVars
  <2>3. PagesInOrder'
    <3>1. verify.rows # <<>> => 0 < Len(verify.rows)
      BY VerifyFields, EmptySeq
    <3> QED
      BY <1>16, <3>1, CheckRowsFacts DEF CheckRows, storeVars
  <2> QED
    BY <2>1, <2>2, <2>3
<1>17. CASE Observe
  <2>1. Types'
    BY <1>17, ObserveFacts, LineFacts DEF Observe, storeVars, ghosts
  <2>2. RowsInOrder'
    BY <1>17 DEF Observe, storeVars
  <2>3. PagesInOrder'
    BY <1>17, ObserveFacts DEF Observe, storeVars
  <2> QED
    BY <2>1, <2>2, <2>3
<1>18. CASE ReadKv
  <2>1. Types'
    BY <1>18, ReadKvFacts DEF ReadKv, clientVars, storeVars, ghosts
  <2>2. RowsInOrder'
    BY <1>18 DEF ReadKv, clientVars, storeVars
  <2>3. PagesInOrder'
    BY <1>18, ReadKvFacts DEF ReadKv, storeVars
  <2> QED
    BY <2>1, <2>2, <2>3
<1>19. CASE UNCHANGED vars
  BY <1>19 DEF vars, clientVars, storeVars, ghosts
<1> QED
  BY <1>1, <1>2, <1>3, <1>4, <1>5, <1>6, <1>7, <1>8, <1>9, <1>10, <1>11, <1>12,
     <1>13, <1>14, <1>15, <1>16, <1>17, <1>18, <1>19 DEF Next
-----------------------------------------------------------------------------
(* The ledger, the clock and the promises.                                 *)

\* A line that fits behind a well-formed ledger.
LEMMA LineWellFormed ==
  ASSUME ledger \in Seq(Event), WellFormed(ledger), NEW e \in Event, AppendLine(e),
         e.kind = "intent" => \A i \in DOMAIN ledger : ledger[i].id # e.id,
         e.kind # "intent" => \E i \in DOMAIN ledger : IsIntent(ledger[i], e.id),
         e.kind \in {"ack", "uncertain"} =>
           \A i \in DOMAIN ledger : ledger[i].kind \in {"ack", "uncertain"} =>
                                       ledger[i].id # e.id
  PROVE  WellFormed(ledger')
<1> DEFINE Fits(s, i) ==
      /\ s[i].kind = "intent" => \A j \in 1..(i - 1) : ~IsIntent(s[j], s[i].id)
      /\ s[i].kind # "intent" => \E j \in 1..(i - 1) : IsIntent(s[j], s[i].id)
      /\ s[i].kind \in {"ack", "uncertain"} =>
           \A j \in 1..(i - 1) : ~(/\ s[j].kind \in {"ack", "uncertain"}
                                   /\ s[j].id = s[i].id)
<1>1. PICK n : n = Len(ledger)
  OBVIOUS
<1>2. /\ ledger' \in Seq(Event) /\ n \in Nat
      /\ DOMAIN ledger = 1..n /\ DOMAIN ledger' = 1..(n + 1)
      /\ \A i \in 1..n : ledger'[i] = ledger[i]
      /\ ledger'[n + 1] = e
  BY <1>1, LineFacts
<1>3. \A i \in 1..n : Fits(ledger, i)
  BY <1>2, WellFormedMeans
<1>4. ASSUME NEW i \in 1..n PROVE Fits(ledger', i)
  <2>1. ledger'[i] = ledger[i] /\ \A j \in 1..(i - 1) : ledger'[j] = ledger[j]
    BY <1>2
  <2> QED
    BY <2>1, <1>3
<1>5. Fits(ledger', n + 1)
  <2>1. (n + 1) - 1 = n
    BY <1>2
  <2> QED
    BY <1>2, <2>1 DEF IsIntent
<1>6. \A i \in DOMAIN ledger' : i \in 1..n \/ i = n + 1
  BY <1>2
<1>7. \A i \in DOMAIN ledger' : Fits(ledger', i)
  BY <1>4, <1>5, <1>6
<1> QED
  BY <1>2, <1>7, WellFormedMeans

\* A step that writes no line, and takes each write only forward.
LEMMA QuietLedger ==
  ASSUME LedgerMatches, UNCHANGED ledger,
         \A id \in Ops :
           /\ op'[id].pc \in {"new", "started"} => op[id].pc \in {"new", "started"}
           /\ op[id].pc = "done" => op'[id].pc = "done"
           /\ op'[id].pc \in {"intended", "sent", "answered", "failed", "done"}
                \/ request'[id] # "none" =>
                op[id].pc \in {"intended", "sent", "answered", "failed", "done"}
                \/ request[id] # "none",
         \A i \in DOMAIN ledger : ledger[i].id \in Ops
  PROVE  LedgerMatches'
BY DEF LedgerMatches
\* A line is an event.
LEMMA LedgerIds ==
  ASSUME TypeInv
  PROVE  /\ ledger \in Seq(Event)
         /\ \A i \in DOMAIN ledger : ledger[i] \in Event /\ ledger[i].id \in Ops
                                    /\ ledger[i].at \in Times /\ ledger[i].seq \in Seqs
<1>1. ledger \in Seq(Event)
  BY DEF TypeInv, TypeOK
<1>2. \A i \in DOMAIN ledger : ledger[i] \in Event
  BY <1>1, ElementOfSeq, LenProperties
<1> QED
  BY <1>1, <1>2 DEF Event

\* Every step keeps the ledger what the driver has done.
LEMMA LedgerStep == ASSUME BoundsAssumption, TypeInv, LedgerMatches, [Next]_vars PROVE LedgerMatches'
<1> USE LedgerIds
<1>1. ASSUME NEW id \in Ops, Start(id) PROVE LedgerMatches'
  <2>1. UNCHANGED <<ledger, request>>
    BY <1>1 DEF Start, storeVars
  <2> QED
    BY <1>1, <2>1, StartFacts, QuietLedger
<1>2. ASSUME NEW id \in Ops, Intend(id) PROVE LedgerMatches'
  <2> DEFINE e == Entry("intent", id, op[id].at, 0)
  <2>1. e \in Event /\ AppendLine(e) /\ e.kind = "intent" /\ e.id = id
        /\ \A i \in DOMAIN ledger : ledger[i].id # id
    BY <1>2, IntendFacts DEF Entry, LedgerMatches
  <2> HIDE DEF e
  <2>2. WellFormed(ledger')
    BY <2>1, LineWellFormed DEF LedgerMatches
  <2>3. /\ op[id].pc = "started" /\ op'[id].pc = "intended" /\ UNCHANGED request
        /\ \A other \in Ops : other # id => op'[other] = op[other]
    BY <1>2, IntendFacts DEF Intend, storeVars
  <2>4. /\ DOMAIN ledger = 1..Len(ledger) /\ DOMAIN ledger' = 1..(Len(ledger) + 1)
        /\ Len(ledger) \in Nat /\ \A i \in DOMAIN ledger : ledger'[i] = ledger[i]
        /\ ledger'[Len(ledger) + 1] = e
    BY <2>1, LineFacts
  <2> QED
    BY <2>1, <2>2, <2>3, <2>4 DEF LedgerMatches, IsIntent
<1>3. ASSUME NEW id \in Ops, Send(id) PROVE LedgerMatches'
  <2>1. UNCHANGED ledger /\ request' = [request EXCEPT ![id] = "flying"]
    BY <1>3 DEF Send
  <2> QED
    BY <1>3, <2>1, SendFacts, QuietLedger
<1>4. ASSUME NEW id \in Ops, Receive(id) PROVE LedgerMatches'
  <2>1. UNCHANGED <<ledger, request>>
    BY <1>4 DEF Receive, storeVars
  <2> QED
    BY <1>4, <2>1, ReceiveFacts, QuietLedger
<1>5. ASSUME NEW id \in Ops, GiveUp(id) PROVE LedgerMatches'
  <2>1. UNCHANGED <<ledger, request>>
    BY <1>5 DEF GiveUp, storeVars
  <2> QED
    BY <1>5, <2>1, GiveUpFacts, QuietLedger
<1>6. ASSUME NEW id \in Ops, Complete(id) PROVE LedgerMatches'
  <2>1. PICK e \in Event : /\ AppendLine(e) /\ e.kind \in {"ack", "uncertain"} /\ e.id = id
    BY <1>6, CompleteFacts DEF Entry
  <2>3. /\ op[id].pc \in {"answered", "failed"} /\ op'[id].pc = "done" /\ UNCHANGED request
        /\ \A other \in Ops : other # id => op'[other] = op[other]
    BY <1>6, CompleteFacts DEF Complete, storeVars
  <2>2. WellFormed(ledger')
    BY <2>1, <2>3, LineWellFormed DEF LedgerMatches
  <2>4. /\ DOMAIN ledger = 1..Len(ledger) /\ DOMAIN ledger' = 1..(Len(ledger) + 1)
        /\ Len(ledger) \in Nat /\ \A i \in DOMAIN ledger : ledger'[i] = ledger[i]
        /\ ledger'[Len(ledger) + 1] = e
    BY <2>1, LineFacts
  <2> QED
    BY <2>1, <2>2, <2>3, <2>4 DEF LedgerMatches, IsIntent
<1>7. ASSUME NEW id \in Ops, Commit(id) \/ Drop(id) PROVE LedgerMatches'
  <2>1. /\ UNCHANGED <<ledger, op>> /\ request[id] = "flying"
        /\ request' = [request EXCEPT ![id] = "gone"]
    BY <1>7 DEF Commit, Drop, clientVars
  <2> QED
    BY <2>1, QuietLedger
<1>9. ASSUME NEW id \in Ops, StaleReceipt(id) PROVE LedgerMatches'
  <2>1. /\ UNCHANGED ledger /\ request[id] = "flying"
        /\ request' = [request EXCEPT ![id] = "gone"]
    BY <1>9 DEF StaleReceipt
  <2> QED
    BY <1>9, <2>1, StaleFacts, QuietLedger
<1>10. CASE Crash
  <2>1. UNCHANGED <<ledger, request>>
    BY <1>10 DEF Crash, storeVars
  <2> QED
    BY <1>10, <2>1, CrashFacts, QuietLedger
<1>11. CASE Observe
  <2>1. PICK n \in DOMAIN verify.rows :
          LET e == Entry("observed", verify.rows[n].id, now, verify.rows[n].seq)
          IN  e \in Event /\ AppendLine(e)
    BY <1>11, ObserveFacts
  <2>2. PICK e \in Event : /\ AppendLine(e) /\ e.kind = "observed" /\ e.id = verify.rows[n].id
    BY <2>1 DEF Entry
  <2>3. e.id \in Ops /\ request[e.id] = "gone"
    BY <2>2 DEF Event, TypeInv, PagesInOrder
  <2>4. WellFormed(ledger')
    BY <2>2, <2>3, LineWellFormed DEF LedgerMatches
  <2>5. /\ DOMAIN ledger = 1..Len(ledger) /\ DOMAIN ledger' = 1..(Len(ledger) + 1)
        /\ Len(ledger) \in Nat /\ \A i \in DOMAIN ledger : ledger'[i] = ledger[i]
        /\ ledger'[Len(ledger) + 1] = e
    BY <2>2, LineFacts
  <2>6. UNCHANGED <<op, request>>
    BY <1>11 DEF Observe, storeVars
  <2> QED
    BY <2>2, <2>3, <2>4, <2>5, <2>6 DEF LedgerMatches, IsIntent
<1>12. CASE UNCHANGED <<ledger, op, request>>
  BY <1>12, QuietLedger
<1> QED
  BY <1>1, <1>2, <1>3, <1>4, <1>5, <1>6, <1>7, <1>9, <1>10, <1>11, <1>12
     DEF Next, vars, Tick, LoseRows, LoseMirror, Verify, ReadPage, CheckRows, ReadKv,
         clientVars, storeVars
\* Every step keeps the times behind the clock.
LEMMA ClockStep == ASSUME BoundsAssumption, TypeInv, ClockMatches, [Next]_vars PROVE ClockMatches'
<1>0. /\ now \in Times /\ op \in [Ops -> OpRecord] /\ Times \subseteq Int
      /\ \A id \in Ops : op[id].at \in Times
      /\ \A i \in DOMAIN ledger : ledger[i].at \in Times
  <2>1. now \in Times /\ op \in [Ops -> OpRecord]
    BY DEF TypeInv, TypeOK, OpRecord, Pcs
  <2> QED
    BY <2>1, OpFields, LedgerIds DEF Times
<1>1. ASSUME NEW id \in Ops, Start(id) \/ Receive(id) \/ GiveUp(id) \/ StaleReceipt(id)
      PROVE  ClockMatches'
  <2>1. /\ op'[id].at = now
        /\ \A other \in Ops : other # id => op'[other] = op[other]
    BY <1>1, StartFacts, ReceiveFacts, GiveUpFacts, StaleFacts
  <2>2. UNCHANGED <<now, ledger>>
    BY <1>1 DEF Start, Receive, GiveUp, StaleReceipt
  <2> QED
    BY <1>0, <2>1, <2>2 DEF ClockMatches
<1>2. ASSUME NEW id \in Ops, Send(id) PROVE ClockMatches'
  BY <1>2, SendFacts DEF Send, ClockMatches
<1>3. ASSUME NEW id \in Ops, Intend(id) \/ Complete(id) PROVE ClockMatches'
  <2>1. PICK e \in Event : AppendLine(e) /\ e.at = op[id].at
    BY <1>3, IntendFacts, CompleteFacts DEF Entry
  <2>2. /\ op'[id].at = op[id].at /\ UNCHANGED now
        /\ \A other \in Ops : other # id => op'[other] = op[other]
    BY <1>3, IntendFacts, CompleteFacts DEF Intend, Complete
  <2>3. /\ DOMAIN ledger = 1..Len(ledger) /\ DOMAIN ledger' = 1..(Len(ledger) + 1)
        /\ Len(ledger) \in Nat /\ \A i \in DOMAIN ledger : ledger'[i] = ledger[i]
        /\ ledger'[Len(ledger) + 1] = e
    BY <2>1, LedgerIds, LineFacts
  <2> QED
    BY <2>1, <2>2, <2>3 DEF ClockMatches
<1>4. CASE Tick
  <2>1. now' = now + 1 /\ UNCHANGED <<ledger, op>>
    BY <1>4 DEF Tick
  <2>2. \A t \in Times : t <= now => t <= now'
    BY <1>0, <2>1
  <2> QED
    BY <1>0, <2>1, <2>2 DEF ClockMatches
<1>5. CASE Crash
  <2>1. UNCHANGED <<ledger, now>>
    BY <1>5 DEF Crash
  <2> QED
    BY <1>5, <2>1, CrashFacts DEF ClockMatches
<1>6. CASE Observe
  <2>0. PICK n : n = verify.pages + 1
    OBVIOUS
  <2>1. PICK e \in Event : AppendLine(e) /\ e.at = now /\ e.id = verify.rows[n].id
    BY <1>6, <2>0, ObserveFacts DEF Entry
  <2>2. UNCHANGED <<op, now>>
    BY <1>6 DEF Observe
  <2>3. /\ DOMAIN ledger = 1..Len(ledger) /\ DOMAIN ledger' = 1..(Len(ledger) + 1)
        /\ Len(ledger) \in Nat /\ \A i \in DOMAIN ledger : ledger'[i] = ledger[i]
        /\ ledger'[Len(ledger) + 1] = e
    BY <2>1, LedgerIds, LineFacts
  <2> QED
    BY <1>0, <2>1, <2>2, <2>3 DEF ClockMatches
<1>7. CASE UNCHANGED <<now, ledger, op>>
  BY <1>7 DEF ClockMatches
<1> QED
  BY <1>1, <1>2, <1>3, <1>4, <1>5, <1>6, <1>7
     DEF Next, vars, Commit, Drop, LoseRows, LoseMirror, Verify, ReadPage, CheckRows,
         ReadKv, clientVars, storeVars

\* A request that is over stays over.
LEMMA GoneStays ==
  ASSUME TypeInv, [Next]_vars, NEW id \in Ops, request[id] = "gone"
  PROVE  request'[id] = "gone"
<1>1. request \in [Ops -> {"none", "flying", "gone"}]
  BY DEF TypeInv, TypeOK
<1>2. ASSUME NEW other \in Ops, Send(other)
      PROVE  request'[id] = "gone"
  <2>1. op[other].pc = "intended" /\ request' = [request EXCEPT ![other] = "flying"]
    BY <1>2 DEF Send
  <2>2. request[other] = "none"
    BY <2>1 DEF TypeInv, RowsInOrder
  <2> QED
    BY <1>1, <2>1, <2>2
<1>3. ASSUME NEW other \in Ops, request' = [request EXCEPT ![other] = "gone"]
      PROVE  request'[id] = "gone"
  BY <1>1, <1>3
<1> QED
  BY <1>2, <1>3 DEF Next, vars, Start, Intend, Receive, GiveUp, Complete, Commit, Drop,
     StaleReceipt, Tick, Crash, LoseRows, LoseMirror, Verify, ReadPage, CheckRows, Observe,
     ReadKv, storeVars

\* A promise made now is one: every intent was written before.
LEMMA PromisesStep ==
  ASSUME BoundsAssumption, TypeInv, LedgerMatches, ClockMatches, PromisesMatch, [Next]_vars
  PROVE  PromisesMatch'
<1>0. /\ \A id \in Ops : request[id] = "gone" => request'[id] = "gone"
      /\ \A i \in DOMAIN ledger : ledger[i].id \in Ops
  BY GoneStays, LedgerIds
<1>1. ASSUME NEW id \in Ops, Start(id) \/ Send(id) \/ GiveUp(id)
      PROVE  PromisesMatch'
  <2>1. /\ op'[id].pc # "answered" /\ UNCHANGED ledger
        /\ \A other \in Ops : other # id => op'[other] = op[other]
    BY <1>1, StartFacts, SendFacts, GiveUpFacts DEF Start, Send, GiveUp
  <2> QED
    BY <1>0, <2>1 DEF PromisesMatch, IsPromise, Pending, Entry
<1>2. ASSUME NEW id \in Ops, Receive(id) \/ StaleReceipt(id)
      PROVE  PromisesMatch'
  <2>1. /\ op'[id].at = now /\ op'[id].seq > 0 /\ request'[id] = "gone"
        /\ \A other \in Ops : other # id => op'[other] = op[other]
        /\ UNCHANGED ledger
    <3>1. CASE Receive(id)
      <4>1. \E i \in DOMAIN rows : rows[i].id = id /\ op'[id].seq = i /\ i \in Nat \ {0}
        BY <3>1, ReceiveFacts
      <4>2. request[id] = "gone" /\ op'[id].seq > 0
        BY <4>1 DEF TypeInv, RowsInOrder
      <4> QED
        BY <1>0, <3>1, <4>2, ReceiveFacts DEF Receive
    <3>2. CASE StaleReceipt(id)
      <4>1. request' = [request EXCEPT ![id] = "gone"] /\ DOMAIN request = Ops
            /\ UNCHANGED ledger
        BY <3>2 DEF StaleReceipt, TypeInv, TypeOK
      <4>2. op'[id].seq = Len(rows) + 1 /\ Len(rows) \in Nat
        BY <3>2, StaleFacts
      <4>3. op'[id].seq > 0
        BY <4>2
      <4> QED
        BY <3>2, <4>1, <4>3, StaleFacts
    <3> QED
      BY <1>2, <3>1, <3>2
  <2> QED
    BY <1>0, <2>1 DEF PromisesMatch, IsPromise, Pending, Entry, ClockMatches
<1>3. ASSUME NEW id \in Ops, Intend(id) PROVE PromisesMatch'
  <2>1. PICK e \in Event : AppendLine(e) /\ e.kind = "intent" /\ e.id = id
    BY <1>3, IntendFacts DEF Entry
  <2>2. /\ op[id].pc = "started" /\ op'[id].pc = "intended"
        /\ \A other \in Ops : other # id => op'[other] = op[other]
    BY <1>3, IntendFacts
  <2>3. /\ DOMAIN ledger = 1..Len(ledger) /\ DOMAIN ledger' = 1..(Len(ledger) + 1)
        /\ Len(ledger) \in Nat /\ \A i \in DOMAIN ledger : ledger'[i] = ledger[i]
        /\ ledger'[Len(ledger) + 1] = e
    BY <2>1, LedgerIds, LineFacts
  <2>4. \A i \in DOMAIN ledger : ledger[i].id # id
    BY <2>2 DEF LedgerMatches
  <2> QED
    BY <1>0, <2>1, <2>2, <2>3, <2>4 DEF PromisesMatch, IsPromise, Pending, Entry, IsIntent
<1>4. ASSUME NEW id \in Ops, Complete(id) PROVE PromisesMatch'
  <2>1. PICK e \in Event :
          /\ AppendLine(e) /\ e.id = id
          /\ e.kind = IF op[id].pc = "answered" THEN "ack" ELSE "uncertain"
          /\ e.at = op[id].at /\ e.seq = op[id].seq
    BY <1>4, CompleteFacts DEF Entry
  <2>2. /\ op'[id].pc = "done" /\ UNCHANGED request
        /\ \A other \in Ops : other # id => op'[other] = op[other]
    BY <1>4, CompleteFacts DEF Complete, storeVars
  <2>3. /\ DOMAIN ledger = 1..Len(ledger) /\ DOMAIN ledger' = 1..(Len(ledger) + 1)
        /\ Len(ledger) \in Nat /\ \A i \in DOMAIN ledger : ledger'[i] = ledger[i]
        /\ ledger'[Len(ledger) + 1] = e
    BY <2>1, LedgerIds, LineFacts
  <2>4. op[id].pc = "answered" =>
          /\ e.seq > 0 /\ request[id] = "gone"
          /\ \A i \in DOMAIN ledger : IsIntent(ledger[i], id) => ledger[i].at <= e.at
    BY <2>1 DEF PromisesMatch, IsPromise, Pending, Entry
  <2> QED
    BY <1>0, <2>1, <2>2, <2>3, <2>4 DEF PromisesMatch, IsPromise, Pending, Entry, IsIntent
<1>5. CASE Crash
  <2>1. UNCHANGED <<ledger, request>>
    BY <1>5 DEF Crash, storeVars
  <2>2. \A id \in Ops : op'[id].pc # "answered"
    BY <1>5, CrashFacts
  <2> QED
    BY <1>0, <2>1, <2>2 DEF PromisesMatch, IsPromise
<1>6. CASE Observe
  <2>0. PICK n : n = verify.pages + 1
    OBVIOUS
  <2>1. PICK e \in Event : /\ AppendLine(e) /\ e.at = now /\ e.kind = "observed"
                           /\ e.id = verify.rows[n].id /\ e.seq = verify.rows[n].seq
    BY <1>6, <2>0, ObserveFacts DEF Entry
  <2>2. UNCHANGED <<op, request>>
    BY <1>6 DEF Observe, storeVars
  <2>3. /\ DOMAIN ledger = 1..Len(ledger) /\ DOMAIN ledger' = 1..(Len(ledger) + 1)
        /\ Len(ledger) \in Nat /\ \A i \in DOMAIN ledger : ledger'[i] = ledger[i]
        /\ ledger'[Len(ledger) + 1] = e
    BY <2>1, LedgerIds, LineFacts
  <2>4. n \in DOMAIN verify.rows /\ n \in Nat /\ n > 0
    BY <1>6, <2>0, ObserveFacts, VerifyFields
  <2>5. e.seq > 0 /\ request[e.id] = "gone"
    BY <2>1, <2>4 DEF TypeInv, PagesInOrder
  <2> QED
    BY <1>0, <2>1, <2>2, <2>3, <2>5
       DEF PromisesMatch, IsPromise, Pending, Entry, IsIntent, ClockMatches
<1>7. CASE UNCHANGED <<ledger, op>>
  BY <1>0, <1>7 DEF PromisesMatch, IsPromise, Pending, Entry
<1> QED
  BY <1>1, <1>2, <1>3, <1>4, <1>5, <1>6, <1>7
     DEF Next, vars, Tick, Commit, Drop, LoseRows, LoseMirror, Verify, ReadPage, CheckRows,
         ReadKv, clientVars, storeVars
-----------------------------------------------------------------------------
(* The verification.                                                       *)

\* While the driver is not quiet no step writes to the ledger but Observe.
LEMMA LedgerRests ==
  ASSUME VerifyMatches, TypeInv, [Next]_vars, ~alive \/ verify.stage \notin {"idle", "passed"}
  PROVE  verify.stage # "observe" => UNCHANGED ledger
<1>1. \A id \in Ops : op[id].pc \in {"new", "done", "dead"}
  BY DEF VerifyMatches
<1>2. ASSUME NEW id \in Ops, Intend(id) \/ Complete(id) PROVE FALSE
  BY <1>1, <1>2 DEF Intend, Complete
<1>3. CASE Observe
  BY <1>3 DEF Observe
<1> QED
  BY <1>2, <1>3 DEF Next, vars, Start, Send, Receive, GiveUp, Commit, Drop, StaleReceipt,
     Tick, Crash, LoseRows, LoseMirror, Verify, ReadPage, CheckRows, ReadKv, clientVars

\* Every step keeps the driver quiet while it verifies.
LEMMA VerifyStep ==
  ASSUME BoundsAssumption, TypeInv, VerifyMatches, [Next]_vars
  PROVE  VerifyMatches'
<1> USE DEF VerifyMatches
<1>1. ASSUME NEW id \in Ops, Start(id) PROVE VerifyMatches'
  <2>1. /\ alive /\ verify.stage \in {"idle", "passed"}
        /\ UNCHANGED <<alive, verify, lateCommit>>
    BY <1>1 DEF Start, ghosts
  <2> QED
    BY <2>1
<1>2. ASSUME NEW id \in Ops,
             \/ Intend(id) \/ Send(id) \/ Receive(id) \/ GiveUp(id)
             \/ Complete(id) \/ StaleReceipt(id)
      PROVE  VerifyMatches'
  <2>1. op[id].pc \in {"started", "intended", "sent", "answered", "failed"}
    BY <1>2, ReceiveFacts, StaleFacts DEF Intend, Send, GiveUp, Complete
  <2>2. alive /\ verify.stage \in {"idle", "passed"}
    BY <2>1
  <2>3. UNCHANGED <<alive, verify>>
    BY <1>2 DEF Intend, Send, Receive, GiveUp, Complete, StaleReceipt
  <2> QED
    BY <2>2, <2>3
<1>3. ASSUME NEW id \in Ops, Commit(id) PROVE VerifyMatches'
  <2>1. UNCHANGED <<alive, op, ledger, verify>> /\ (Late \/ op[id].pc = "sent")
    BY <1>3 DEF Commit, clientVars
  <2>2. CASE Late
    BY <2>1, <2>2
  <2>3. CASE op[id].pc = "sent"
    <3>1. alive /\ verify.stage \in {"idle", "passed"}
      BY <2>3
    <3> QED
      BY <2>1, <3>1
  <2> QED
    BY <2>1, <2>2, <2>3
<1>4. CASE Crash
  <2>1. verify'.stage = "idle" /\ \A id \in Ops : op'[id].pc \in {"new", "done", "dead"}
    BY <1>4, CrashFacts DEF Crash, NoVerify
  <2> QED
    BY <2>1
<1>5. CASE Verify
  <2>1. /\ UNCHANGED <<alive, op, ledger>> /\ lateCommit' = FALSE /\ verify'.events = ledger
        /\ Quiet \/ ~alive
    BY <1>5, VerifyFacts DEF Verify, clientVars
  <2> QED
    BY <2>1 DEF Quiet
<1>6. CASE ReadPage
  <2>1. /\ verify.stage = "rows" /\ UNCHANGED <<alive, op, ledger>>
        /\ lateCommit' = FALSE
    BY <1>6 DEF ReadPage, clientVars
  <2>2. verify'.events = verify.events
    BY <1>6, ReadPageFacts
  <2> QED
    BY <2>1, <2>2
<1>7. CASE CheckRows
  <2>1. /\ verify.stage = "check" /\ UNCHANGED <<alive, op, ledger, lateCommit>>
        /\ verify'.stage \in {"history", "observe", "kv"}
    BY <1>7, CheckRowsFacts DEF CheckRows, clientVars, ghosts
  <2> QED
    BY <2>1
<1>8. CASE Observe
  <2>0. PICK n : n = verify.pages + 1
    OBVIOUS
  <2>1. /\ verify.stage = "observe" /\ UNCHANGED <<alive, op, lateCommit>>
        /\ verify'.stage \in {"observe", "kv"}
    BY <1>8, <2>0, ObserveFacts DEF Observe, ghosts
  <2> QED
    BY <2>1
<1>9. CASE ReadKv
  <2>1. /\ verify.stage = "kv" /\ UNCHANGED <<alive, op, lateCommit>>
        /\ verify'.stage \in {"passed", "mirror"}
    BY <1>9, ReadKvFacts DEF ReadKv, clientVars, ghosts
  <2> QED
    BY <2>1
<1>10. CASE UNCHANGED <<alive, op, ledger, verify, lateCommit>>
  BY <1>10
<1> QED
  BY <1>1, <1>2, <1>3, <1>4, <1>5, <1>6, <1>7, <1>8, <1>9, <1>10
     DEF Next, vars, Tick, Drop, LoseRows, LoseMirror, clientVars, ghosts

\* No step gives the table back a row it has lost: a write's request is over
\* when its row was there.
LEMMA LostStaysLost ==
  ASSUME BoundsAssumption, TypeInv, [Next]_vars, NEW i \in DOMAIN ledger,
         request[ledger[i].id] = "gone", ~Holds(rows, ledger[i])
  PROVE  ~Holds(rows', ledger[i])
<1>0. PICK e : e = ledger[i]
  OBVIOUS
<1>1. ASSUME NEW id \in Ops, Commit(id) PROVE ~Holds(rows', e)
  <2>1. request[id] = "flying"
    BY <1>1 DEF Commit
  <2>2. /\ DOMAIN rows' = 1..(Len(rows) + 1) /\ DOMAIN rows = 1..Len(rows)
        /\ Len(rows) \in Nat
        /\ \A j \in DOMAIN rows : rows'[j] = rows[j]
        /\ rows'[Len(rows) + 1].id = id
    BY <1>1, CommitFacts
  <2>3. \A j \in DOMAIN rows' : j \in DOMAIN rows \/ j = Len(rows) + 1
    BY <2>2
  <2>4. id # e.id
    BY <1>0, <2>1
  <2> QED
    BY <1>0, <2>2, <2>3, <2>4 DEF Holds
<1>2. CASE LoseRows
  BY <1>2, LoseRowsFacts DEF Holds
<1>3. ASSUME LoseMirror PROVE ~Holds(rows', e)
  <2>1. /\ DOMAIN rows' = DOMAIN rows
        /\ \A j \in DOMAIN rows : rows'[j].id = rows[j].id /\ rows'[j].seq = rows[j].seq
    BY <1>3, LoseMirrorFacts
  <2>4. \A j \in DOMAIN rows : rows'[j] = rows[j] \/ rows'[j].kv = FALSE
    BY <1>3, LoseMirrorFacts
  <2> SUFFICES ASSUME NEW j \in DOMAIN rows',
                      rows'[j].id = e.id, rows'[j].seq = e.seq, rows'[j].kv
               PROVE  FALSE
    BY Zenon DEF Holds
  <2>2. j \in DOMAIN rows /\ rows[j].id = e.id /\ rows[j].seq = e.seq
    BY <2>1
  <2>3. rows[j].kv
    BY <2>2, <2>4, Zenon
  <2> QED
    BY <1>0, <2>2, <2>3, Zenon DEF Holds
<1> QED
  BY <1>0, <1>1, <1>2, <1>3 DEF Next, vars, Start, Intend, Send, Receive, GiveUp, Complete, Drop,
     StaleReceipt, Tick, Crash, Verify, ReadPage, CheckRows, Observe, ReadKv, storeVars
\* What the verification found broken when it began it finds broken in what it
\* reads, and the comparison fails.
LEMMA DoomedStep ==
  ASSUME BoundsAssumption, TypeInv, LedgerMatches, PromisesMatch, VerifyMatches, DoomedMatches,
         [Next]_vars
  PROVE  DoomedMatches'
<1> USE DEF DoomedMatches
<1>1. CASE Verify
  <2>1. /\ verify'.stage \in {"torn", "rows"} /\ verify'.events = ledger /\ verify'.rows = <<>>
        /\ verify'.doomed = Doomed /\ UNCHANGED <<ledger, rows>>
    BY <1>1, VerifyFacts DEF Verify, clientVars, storeVars
  <2>2. ASSUME Doomed
        PROVE  \E i \in DOMAIN ledger : /\ ledger[i].kind \in {"ack", "observed"}
                                        /\ ~Holds(rows, ledger[i])
    <3>1. PICK e \in Promises(ledger) : ~\E row \in Elements(rows) :
                                          row.id = e.id /\ row.seq = e.seq /\ row.kv
      BY <2>2 DEF Doomed
    <3>2. PICK i \in DOMAIN ledger : e = ledger[i] /\ ledger[i].kind \in {"ack", "observed"}
      BY DEF Promises, Elements
    <3>3. ~Holds(rows, e)
      <4> SUFFICES ASSUME NEW j \in DOMAIN rows,
                          rows[j].id = e.id, rows[j].seq = e.seq, rows[j].kv
                   PROVE  FALSE
        BY Zenon DEF Holds
      <4>1. rows[j] \in Elements(rows)
        BY DEF Elements
      <4> QED
        BY <3>1, <4>1, Zenon
    <3> QED
      BY <3>2, <3>3
  <2>3. ~Holds(<<>>, ledger[1]) /\ \A e : ~Holds(<<>>, e)
    BY DEF Holds
  <2>4. ASSUME verify'.doomed
        PROVE  \E i \in DOMAIN ledger' : /\ ledger'[i].kind \in {"ack", "observed"}
                                        /\ ~Holds(rows', ledger'[i])
                                        /\ ~Holds(verify'.rows, ledger'[i])
    <3>1. PICK i \in DOMAIN ledger : /\ ledger[i].kind \in {"ack", "observed"}
                                   /\ ~Holds(rows, ledger[i])
      BY <2>1, <2>2, <2>4
    <3> QED
      BY <2>1, <2>3, <3>1
  <2> QED
    BY <2>1, <2>4
<1>2. CASE ReadPage
  <2>1. /\ verify.stage = "rows" /\ UNCHANGED <<ledger, rows>>
        /\ verify'.stage \in {"rows", "check", "exhausted"} /\ verify'.doomed = verify.doomed
    BY <1>2, ReadPageFacts DEF ReadPage, clientVars, storeVars
  <2>2. ASSUME NEW e, ~Holds(rows, e), ~Holds(verify.rows, e)
        PROVE  ~Holds(verify'.rows, e)
    <3>1. \A i \in DOMAIN verify'.rows :
             \/ i \in DOMAIN verify.rows /\ verify'.rows[i] = verify.rows[i]
             \/ i \in DOMAIN rows /\ verify'.rows[i] = rows[i]
      BY <1>2, ReadRows
    <3> QED
      BY <2>2, <3>1, Zenon DEF Holds
  <2> QED
    BY <2>1, <2>2
<1>3. CASE CheckRows
  <2>1. /\ verify.stage = "check"
        /\ verify'.stage \in {"history", "observe", "kv"} /\ verify'.doomed = verify.doomed
        /\ checkHistory(verify.events, verify.rows) \/ verify'.stage = "history"
    BY <1>3, CheckRowsFacts DEF CheckRows
  <2>2. ASSUME verify.doomed, checkHistory(ledger, verify.rows) PROVE FALSE
    <3>1. PICK i \in DOMAIN ledger : /\ ledger[i].kind \in {"ack", "observed"}
                                   /\ ~Holds(verify.rows, ledger[i])
      BY <2>1, <2>2
    <3>2. ledger[i] \in Promises(ledger)
      BY <3>1 DEF Promises, Elements
    <3>3. Kept(ledger[i], verify.rows) /\ RowsWellFormed(ledger, verify.rows)
      BY <2>2, <3>2 DEF checkHistory
    <3>4. PICK j \in DOMAIN verify.rows : /\ verify.rows[j].id = ledger[i].id
                                        /\ verify.rows[j].seq = ledger[i].seq
      BY <3>3 DEF Kept, Elements
    <3>5. verify.rows[j].kv
      BY <3>3 DEF RowsWellFormed
    <3> QED
      BY <3>1, <3>4, <3>5, Zenon DEF Holds
  <2>3. verify.events = ledger
    BY <2>1 DEF VerifyMatches
  <2> QED
    BY <2>1, <2>2, <2>3
<1>4. CASE Observe
  <2>0. PICK n : n = verify.pages + 1
    OBVIOUS
  <2>1. /\ verify.stage = "observe" /\ verify'.stage \in {"observe", "kv"}
        /\ verify'.doomed = verify.doomed
    BY <1>4, <2>0, ObserveFacts DEF Observe
  <2> QED
    BY <2>1
<1>5. CASE ReadKv
  <2>1. /\ verify.stage = "kv" /\ verify'.stage \in {"passed", "mirror"}
        /\ verify'.doomed = verify.doomed
    BY <1>5, ReadKvFacts DEF ReadKv
  <2> QED
    BY <2>1
<1>6. CASE Crash
  BY <1>6 DEF Crash, NoVerify
<1>7. CASE UNCHANGED verify
  <2>1. ASSUME verify.doomed, verify.stage \in {"rows", "check"}
        PROVE  \E i \in DOMAIN ledger' : /\ ledger'[i].kind \in {"ack", "observed"}
                                        /\ ~Holds(rows', ledger'[i])
                                        /\ ~Holds(verify.rows, ledger'[i])
    <3>1. PICK i \in DOMAIN ledger : /\ ledger[i].kind \in {"ack", "observed"}
                                   /\ ~Holds(rows, ledger[i])
                                   /\ ~Holds(verify.rows, ledger[i])
      BY <2>1
    <3>2. UNCHANGED ledger
      BY <2>1, LedgerRests
    <3>3. request[ledger[i].id] = "gone"
      BY <3>1 DEF PromisesMatch, IsPromise
    <3>4. ~Holds(rows', ledger[i])
      BY <3>1, <3>3, LostStaysLost
    <3> QED
      BY <3>1, <3>2, <3>4
  <2> QED
    BY <1>7, <2>1
<1> QED
  BY <1>1, <1>2, <1>3, <1>4, <1>5, <1>6, <1>7 DEF Next, vars, Start, Intend, Send, Receive,
     GiveUp, Complete, Commit, Drop, StaleReceipt, Tick, LoseRows, LoseMirror
-----------------------------------------------------------------------------
(* A store that keeps its word.                                            *)

\* The promises stay kept while the table only grows.
LEMMA WordStep ==
  ASSUME BoundsAssumption, TypeInv, LedgerMatches, ClockMatches, PromisesMatch, VerifyMatches,
         StoreKeepsItsWord, ReadIsPrefix, ~betrayed', ~betrayed, [Next]_vars
  PROVE  StoreKeepsItsWord'
<1>0. /\ rows \in Seq(Row) /\ Len(rows) \in Nat /\ DOMAIN rows = 1..Len(rows)
      /\ now \in Int /\ \A i \in DOMAIN ledger : ledger[i].at \in Int /\ ledger[i].at <= now
      /\ \A i \in DOMAIN ledger : ledger[i].seq \in Int
      /\ \A id \in Ops : op[id].seq \in Int
  <2>1. rows \in Seq(Row) /\ now \in Times /\ op \in [Ops -> OpRecord]
    BY DEF TypeInv, TypeOK, OpRecord, Pcs
  <2> QED
    BY <2>1, LenProperties, LedgerIds, OpFields DEF ClockMatches, Times, Seqs
<1>1. ASSUME NEW id \in Ops, Start(id) \/ Send(id) \/ GiveUp(id)
      PROVE  StoreKeepsItsWord'
  <2>1. /\ op'[id].pc # "answered" /\ UNCHANGED <<ledger, rows>>
        /\ \A other \in Ops : other # id => op'[other] = op[other]
    BY <1>1, StartFacts, SendFacts, GiveUpFacts DEF Start, Send, GiveUp, storeVars
  <2> QED
    BY <2>1 DEF StoreKeepsItsWord, IsKept, Pending, Entry
<1>2. ASSUME NEW id \in Ops, Receive(id) PROVE StoreKeepsItsWord'
  <2>1. /\ op'[id].at = now /\ UNCHANGED <<ledger, rows>>
        /\ \A other \in Ops : other # id => op'[other] = op[other]
        /\ \E i \in DOMAIN rows : rows[i].id = id /\ op'[id].seq = i
    BY <1>2, ReceiveFacts DEF Receive, storeVars
  <2> QED
    BY <1>0, <2>1 DEF StoreKeepsItsWord, IsKept, Pending, Entry
<1>3. ASSUME NEW id \in Ops, Intend(id) PROVE StoreKeepsItsWord'
  <2>1. PICK e \in Event : AppendLine(e) /\ e.kind = "intent" /\ e.id = id
    BY <1>3, IntendFacts DEF Entry
  <2>2. /\ op[id].pc = "started" /\ op'[id].pc = "intended" /\ UNCHANGED rows
        /\ \A other \in Ops : other # id => op'[other] = op[other]
    BY <1>3, IntendFacts DEF Intend, storeVars
  <2>3. /\ DOMAIN ledger = 1..Len(ledger) /\ DOMAIN ledger' = 1..(Len(ledger) + 1)
        /\ Len(ledger) \in Nat /\ \A i \in DOMAIN ledger : ledger'[i] = ledger[i]
        /\ ledger'[Len(ledger) + 1] = e
    BY <2>1, LedgerIds, LineFacts
  <2>4. \A i \in DOMAIN rows : rows[i].id # id
    BY <2>2 DEF TypeInv, RowsInOrder
  <2> QED
    BY <2>1, <2>2, <2>3, <2>4 DEF StoreKeepsItsWord, IsKept, Pending, Entry, IsIntent
<1>4. ASSUME NEW id \in Ops, Complete(id) PROVE StoreKeepsItsWord'
  <2>1. PICK e \in Event :
          /\ AppendLine(e) /\ e.id = id
          /\ e.kind = IF op[id].pc = "answered" THEN "ack" ELSE "uncertain"
          /\ e.at = op[id].at /\ e.seq = op[id].seq
    BY <1>4, CompleteFacts DEF Entry
  <2>2. /\ op'[id].pc = "done" /\ UNCHANGED rows
        /\ \A other \in Ops : other # id => op'[other] = op[other]
    BY <1>4, CompleteFacts DEF Complete, storeVars
  <2>3. /\ DOMAIN ledger = 1..Len(ledger) /\ DOMAIN ledger' = 1..(Len(ledger) + 1)
        /\ Len(ledger) \in Nat /\ \A i \in DOMAIN ledger : ledger'[i] = ledger[i]
        /\ ledger'[Len(ledger) + 1] = e
    BY <2>1, LedgerIds, LineFacts
  <2>4. op[id].pc = "answered" => IsKept(e)
    BY <2>1 DEF StoreKeepsItsWord, IsKept, Pending, Entry
  <2> QED
    BY <2>1, <2>2, <2>3, <2>4 DEF StoreKeepsItsWord, IsKept, Pending, Entry, IsIntent
<1>5. ASSUME NEW id \in Ops, Commit(id) PROVE StoreKeepsItsWord'
  <2>1. UNCHANGED <<ledger, op>>
    BY <1>5 DEF Commit, clientVars
  <2> QED
    <3>1. PICK n \in Nat : n = Len(rows)
      BY <1>0
    <3>2. /\ DOMAIN rows = 1..n /\ DOMAIN rows' = 1..(n + 1)
          /\ \A i \in 1..n : rows'[i] = rows[i]
          /\ rows'[n + 1].kv = TRUE
      BY <1>5, <3>1, CommitFacts
    <3>3. \A i \in 1..(n + 1) : i \in 1..n \/ i = n + 1
      OBVIOUS
    <3>4. \A i \in DOMAIN rows' : rows'[i].kv
      BY <3>2, <3>3 DEF StoreKeepsItsWord
    <3>5. ASSUME NEW i \in DOMAIN ledger, ledger[i].kind \in {"ack", "observed"}
          PROVE  IsKept(ledger[i])'
      <4>1. IsKept(ledger[i])
        BY <3>5 DEF StoreKeepsItsWord
      <4>2. ledger[i].seq \in 1..n /\ n + 1 > ledger[i].seq
        BY <3>2, <4>1 DEF IsKept
      <4> QED
        BY <2>1, <3>2, <3>3, <4>1, <4>2 DEF IsKept
    <3>6. ASSUME NEW o \in Ops, op[o].pc = "answered"
          PROVE  IsKept(Pending(o))'
      <4>1. IsKept(Pending(o))
        BY <3>6 DEF StoreKeepsItsWord
      <4>2. op[o].seq \in 1..n /\ n + 1 > op[o].seq
        BY <3>2, <4>1 DEF IsKept, Pending, Entry
      <4> QED
        BY <2>1, <3>2, <3>3, <4>1, <4>2 DEF IsKept, Pending, Entry
    <3> QED
      BY <2>1, <3>4, <3>5, <3>6 DEF StoreKeepsItsWord
<1>6. CASE Crash
  <2>1. UNCHANGED <<ledger, rows>>
    BY <1>6 DEF Crash, storeVars
  <2>2. \A id \in Ops : op'[id].pc # "answered"
    BY <1>6, CrashFacts
  <2> QED
    BY <2>1, <2>2 DEF StoreKeepsItsWord, IsKept
<1>7. CASE Observe
  <2>0. PICK n : n = verify.pages + 1
    OBVIOUS
  <2>1. PICK e \in Event : /\ AppendLine(e) /\ e.at = now /\ e.kind = "observed"
                           /\ e.id = verify.rows[n].id /\ e.seq = verify.rows[n].seq
    BY <1>7, <2>0, ObserveFacts DEF Entry
  <2>2. UNCHANGED <<op, rows>>
    BY <1>7 DEF Observe, storeVars
  <2>3. /\ DOMAIN ledger = 1..Len(ledger) /\ DOMAIN ledger' = 1..(Len(ledger) + 1)
        /\ Len(ledger) \in Nat /\ \A i \in DOMAIN ledger : ledger'[i] = ledger[i]
        /\ ledger'[Len(ledger) + 1] = e
    BY <2>1, LedgerIds, LineFacts
  <2>4. n \in DOMAIN verify.rows /\ n \in 1..Len(verify.rows) /\ Len(verify.rows) \in Nat
    BY <1>7, <2>0, ObserveFacts, VerifyFields, LenProperties
  <2>5. e.seq = n /\ n \in DOMAIN rows /\ rows[n].id = e.id
    BY <1>0, <2>1, <2>4 DEF TypeInv, PagesInOrder, ReadIsPrefix
  <2>6. \A i \in DOMAIN ledger' : i \in DOMAIN ledger \/ i = Len(ledger) + 1
    BY <2>3
  <2>7. \A i \in DOMAIN ledger' : ledger'[i].at <= now /\ ledger'[i].at \in Int
    BY <1>0, <2>1, <2>3, <2>6
  <2>8. IsKept(e)'
    BY <1>0, <2>1, <2>2, <2>5, <2>7 DEF IsKept
  <2>9. ASSUME NEW i \in DOMAIN ledger, ledger[i].kind \in {"ack", "observed"}
        PROVE  IsKept(ledger[i])'
    <3>1. IsKept(ledger[i])
      BY <2>9 DEF StoreKeepsItsWord
    <3> QED
      BY <2>1, <2>2, <2>3, <2>6, <3>1 DEF IsKept, IsIntent
  <2>10. ASSUME NEW o \in Ops, op[o].pc = "answered"
        PROVE  IsKept(Pending(o))'
    <3>1. IsKept(Pending(o))
      BY <2>10 DEF StoreKeepsItsWord
    <3> QED
      BY <2>1, <2>2, <2>3, <2>6, <3>1 DEF IsKept, IsIntent, Pending, Entry
  <2> QED
    BY <2>2, <2>3, <2>6, <2>8, <2>9, <2>10 DEF StoreKeepsItsWord
<1>8. CASE UNCHANGED <<ledger, op, rows>>
  BY <1>8 DEF StoreKeepsItsWord, IsKept, Pending, Entry
<1> QED
  BY <1>1, <1>2, <1>3, <1>4, <1>5, <1>6, <1>7, <1>8
     DEF Next, vars, Tick, Drop, StaleReceipt, LoseRows, LoseMirror, Verify, ReadPage,
         CheckRows, ReadKv, clientVars, storeVars
\* What was read of a table that only grows stays a beginning of it.
LEMMA PrefixStep ==
  ASSUME BoundsAssumption, TypeInv, VerifyMatches, StoreKeepsItsWord, ReadIsPrefix,
         ~betrayed', [Next]_vars
  PROVE  ReadIsPrefix'
<1>0. /\ rows \in Seq(Row) /\ Len(rows) \in Nat /\ DOMAIN rows = 1..Len(rows)
      /\ verify.rows \in Seq(Row) /\ Len(verify.rows) \in Nat
      /\ DOMAIN verify.rows = 1..Len(verify.rows)
      /\ \A i \in DOMAIN ledger : ledger[i].seq \in Nat
  <2>1. rows \in Seq(Row) /\ verify.rows \in Seq(Row)
    BY VerifyFields DEF TypeInv, TypeOK
  <2> QED
    BY <2>1, LenProperties, LedgerIds DEF Seqs
<1>1. ASSUME NEW id \in Ops, Commit(id) PROVE ReadIsPrefix'
  <2>1. PICK n \in Nat : n = Len(rows)
    BY <1>0
  <2>2. /\ DOMAIN rows = 1..n /\ Len(rows') = n + 1
        /\ \A i \in DOMAIN rows : rows'[i] = rows[i]
    BY <1>1, <2>1, CommitFacts
  <2>3. verify' = verify /\ ledger' = ledger
    BY <1>1 DEF Commit, clientVars
  <2>4. verify.stage # "idle" => lateCommit'
    BY <1>1 DEF Commit
  <2>5. /\ Len(verify.rows) <= n + 1
        /\ \A i \in DOMAIN verify.rows : verify.rows[i] = rows'[i]
    BY <1>0, <2>1, <2>2 DEF ReadIsPrefix
  <2> QED
    BY <2>2, <2>3, <2>4, <2>5 DEF ReadIsPrefix
<1>2. CASE Crash
  BY <1>0, <1>2 DEF Crash, NoVerify, ReadIsPrefix, storeVars
<1>3. CASE Verify
  <2>1. /\ verify'.rows = <<>> /\ verify'.stage \in {"torn", "rows"} /\ UNCHANGED rows
    BY <1>3, VerifyFacts DEF Verify, storeVars
  <2> QED
    BY <1>0, <2>1 DEF ReadIsPrefix
<1>4. CASE ReadPage
  <2>1. /\ UNCHANGED <<rows, ledger>>
        /\ verify'.stage \in {"rows", "check", "exhausted"}
    BY <1>4, ReadPageFacts DEF ReadPage, storeVars, clientVars
  <2>2. /\ Len(verify'.rows) <= Len(rows)
        /\ \A i \in DOMAIN verify'.rows : verify'.rows[i] = rows[i]
        /\ verify'.stage = "check" => Len(verify'.rows) = Len(rows)
    BY <1>4, ReadRows DEF ReadIsPrefix
  <2>3. \A i \in DOMAIN ledger : ledger[i].kind \in {"ack", "observed"} =>
                                ledger[i].seq <= Len(rows)
    BY <1>0 DEF StoreKeepsItsWord, IsKept
  <2> QED
    BY <2>1, <2>2, <2>3 DEF ReadIsPrefix
<1>5. CASE CheckRows
  <2>1. /\ verify.stage = "check" /\ verify'.rows = verify.rows /\ UNCHANGED <<rows, lateCommit>>
        /\ verify'.stage \in {"history", "observe", "kv"}
    BY <1>5, CheckRowsFacts DEF CheckRows, storeVars, ghosts
  <2> QED
    BY <2>1 DEF ReadIsPrefix
<1>6. CASE Observe
  <2>0. PICK n : n = verify.pages + 1
    OBVIOUS
  <2>1. /\ verify.stage = "observe" /\ verify'.rows = verify.rows /\ UNCHANGED <<rows, lateCommit>>
        /\ verify'.stage \in {"observe", "kv"}
    BY <1>6, <2>0, ObserveFacts DEF Observe, storeVars, ghosts
  <2> QED
    BY <2>1 DEF ReadIsPrefix
<1>7. CASE ReadKv
  <2>1. /\ verify'.rows = verify.rows /\ UNCHANGED rows /\ verify'.stage \in {"passed", "mirror"}
    BY <1>7, ReadKvFacts DEF ReadKv, storeVars
  <2> QED
    BY <2>1 DEF ReadIsPrefix
<1>8. CASE UNCHANGED <<verify, rows, lateCommit>>
  <2>1. verify.stage = "check" => UNCHANGED ledger
    BY LedgerRests
  <2> QED
    BY <1>8, <2>1 DEF ReadIsPrefix
<1> QED
  BY <1>1, <1>2, <1>3, <1>4, <1>5, <1>6, <1>7, <1>8
     DEF Next, vars, Start, Intend, Send, Receive, GiveUp, Complete, Drop, StaleReceipt, Tick,
         LoseRows, LoseMirror, storeVars, ghosts

\* The comparison finds nothing wrong with what it read of such a store.
LEMMA Accepted ==
  ASSUME BoundsAssumption, TypeInv, LedgerMatches, PromisesMatch, StoreKeepsItsWord,
         ReadIsPrefix, verify.stage = "check"
  PROVE  checkHistory(ledger, verify.rows)
<1>0. /\ ledger \in Seq(Event) /\ WellFormed(ledger)
      /\ rows \in Seq(Row) /\ Len(rows) \in Nat /\ DOMAIN rows = 1..Len(rows)
      /\ verify.rows \in Seq(Row) /\ Len(verify.rows) \in Nat
      /\ DOMAIN verify.rows = 1..Len(verify.rows)
  <2>1. rows \in Seq(Row) /\ verify.rows \in Seq(Row)
    BY VerifyFields DEF TypeInv, TypeOK
  <2> QED
    BY <2>1, LenProperties, LedgerIds DEF LedgerMatches
<1>1. \A i \in DOMAIN verify.rows : /\ i \in DOMAIN rows /\ verify.rows[i] = rows[i]
                                   /\ rows[i].seq = i /\ rows[i].id \in Ops
  <2>1. \A i \in DOMAIN rows : rows[i] \in Row
    BY <1>0, ElementOfSeq
  <2> QED
    BY <1>0, <2>1 DEF ReadIsPrefix, TypeInv, RowsInOrder, Row
\* Of every row read the ledger has the intent.
<1>2. ASSUME NEW i \in DOMAIN verify.rows
      PROVE  \E j \in DOMAIN ledger : IsIntent(ledger[j], verify.rows[i].id)
  <2>1. request[verify.rows[i].id] = "gone" /\ verify.rows[i].id \in Ops
    BY <1>1 DEF TypeInv, RowsInOrder
  <2> QED
    BY <2>1 DEF LedgerMatches
<1>3. RowsWellFormed(ledger, verify.rows)
  <2>1. ASSUME NEW i \in DOMAIN verify.rows
        PROVE  /\ verify.rows[i].seq = i /\ verify.rows[i].kv
               /\ verify.rows[i].id \in Intended(ledger)
               /\ \A j \in 1..(i - 1) : verify.rows[j].id # verify.rows[i].id
    <3>1. verify.rows[i].seq = i
      BY <1>1
    <3>2. verify.rows[i].kv
      BY <1>1 DEF StoreKeepsItsWord
    <3>3. verify.rows[i].id \in Intended(ledger)
      BY <1>2 DEF Intended, Elements, IsIntent
    <3>4. \A j \in 1..(i - 1) : verify.rows[j].id # verify.rows[i].id
      <4> TAKE j \in 1..(i - 1)
      <4>1. j \in DOMAIN verify.rows /\ j # i
        BY <1>0
      <4> QED
        BY <1>1, <4>1 DEF TypeInv, RowsInOrder
    <3> QED
      BY <3>1, <3>2, <3>3, <3>4
  <2> QED
    BY <2>1 DEF RowsWellFormed
<1>4. ASSUME NEW promise \in Promises(ledger)
      PROVE  /\ promise.seq > 0 /\ promise.at >= IntentAt(ledger, promise.id)
             /\ Kept(promise, verify.rows) /\ Precedence(ledger, promise, verify.rows)
  <2>1. PICK i \in DOMAIN ledger : /\ promise = ledger[i]
                                 /\ ledger[i].kind \in {"ack", "observed"}
    BY DEF Promises, Elements
  <2>2. IsPromise(promise) /\ IsKept(promise)
    BY <2>1 DEF PromisesMatch, StoreKeepsItsWord
  <2>3. promise.at \in Times /\ promise.seq \in Seqs /\ promise.id \in Ops
    BY <2>1, LedgerIds
  <2>4. PICK j \in DOMAIN ledger : IsIntent(ledger[j], promise.id)
    BY <2>2, <2>3 DEF IsPromise, LedgerMatches
  <2>5. IntentAt(ledger, promise.id) = ledger[j].at
    BY <1>0, <2>4, IntentFound
  <2>6. promise.at >= IntentAt(ledger, promise.id)
    BY <2>2, <2>3, <2>4, <2>5, LedgerIds DEF IsPromise, Times
  <2>7. promise.seq \in DOMAIN verify.rows
    BY <1>0, <2>1, <2>2, <2>3 DEF ReadIsPrefix, IsPromise, Seqs
  <2>8. Kept(promise, verify.rows)
    <3>1. verify.rows[promise.seq] \in Elements(verify.rows)
      BY <2>7 DEF Elements
    <3> QED
      BY <1>1, <2>2, <2>7, <3>1 DEF Kept, IsKept
  <2>9. Precedence(ledger, promise, verify.rows)
    <3> SUFFICES ASSUME NEW k \in DOMAIN verify.rows,
                        IntentAt(ledger, verify.rows[k].id) > promise.at
                 PROVE  verify.rows[k].seq > promise.seq
      BY DEF Precedence, Elements
    <3>1. PICK m \in DOMAIN ledger : IsIntent(ledger[m], verify.rows[k].id)
      BY <1>2
    <3>2. IntentAt(ledger, verify.rows[k].id) = ledger[m].at
      BY <1>0, <3>1, IntentFound
    <3> QED
      BY <1>1, <2>2, <3>1, <3>2 DEF IsKept
  <2> QED
    BY <2>2, <2>6, <2>8, <2>9 DEF IsPromise
<1> QED
  BY <1>0, <1>3, <1>4 DEF checkHistory

\* The mirror of such a store holds the rows read, if none came since.
LEMMA Mirrored ==
  ASSUME BoundsAssumption, TypeInv, StoreKeepsItsWord, ReadIsPrefix,
         verify.stage = "kv", ~lateCommit
  PROVE  {row.id : row \in {r \in Elements(rows) : r.kv}}
           = {row.id : row \in Elements(verify.rows)}
<1>0. /\ rows \in Seq(Row) /\ DOMAIN rows = 1..Len(rows)
      /\ verify.rows \in Seq(Row) /\ DOMAIN verify.rows = 1..Len(verify.rows)
  BY VerifyFields, LenProperties DEF TypeInv, TypeOK
<1>1. DOMAIN verify.rows = DOMAIN rows /\ \A i \in DOMAIN rows : verify.rows[i] = rows[i]
  BY <1>0 DEF ReadIsPrefix
<1>2. Elements(verify.rows) = Elements(rows)
  BY <1>1 DEF Elements
<1>3. \A r \in Elements(rows) : r.kv
  BY DEF Elements, StoreKeepsItsWord
<1>4. {r \in Elements(rows) : r.kv} = Elements(rows)
  BY <1>3
<1> QED
  BY <1>2, <1>4
\* A store that has broken no promise has not broken one yet.
LEMMA UnbetrayedStep ==
  ASSUME BoundsAssumption, IInv, [Next]_vars
  PROVE  UnbetrayedInv'
<1> SUFFICES ASSUME ~betrayed'
             PROVE  /\ StoreKeepsItsWord' /\ ReadIsPrefix'
                    /\ verify'.stage # "history"
                    /\ verify'.stage = "mirror" => lateCommit'
  BY DEF UnbetrayedInv
<1>1. ~betrayed
  BY DEF Next, vars, Start, Intend, Send, Receive, GiveUp, Complete, Commit, Drop, StaleReceipt,
     Tick, Crash, LoseRows, LoseMirror, Verify, ReadPage, CheckRows, Observe, ReadKv, ghosts
<1>2. /\ TypeInv /\ LedgerMatches /\ ClockMatches /\ PromisesMatch /\ VerifyMatches
      /\ StoreKeepsItsWord /\ ReadIsPrefix /\ verify.stage # "history"
      /\ verify.stage = "mirror" => lateCommit
  BY <1>1 DEF IInv, UnbetrayedInv
<1>3. StoreKeepsItsWord' /\ ReadIsPrefix'
  BY <1>1, <1>2, WordStep, PrefixStep
<1>4. verify'.stage # "history" /\ (verify'.stage = "mirror" => lateCommit')
  <2>1. CASE Verify
    <3>1. verify'.stage \in {"torn", "rows"}
      BY <1>2, <2>1, VerifyFacts
    <3> QED
      BY <3>1
  <2>2. CASE ReadPage
    <3>1. verify'.stage \in {"rows", "check", "exhausted"}
      BY <1>2, <2>2, ReadPageFacts
    <3> QED
      BY <3>1
  <2>3. CASE CheckRows
    <3>1. verify.stage = "check" /\ verify.events = ledger
      BY <1>2, <2>3 DEF CheckRows, VerifyMatches
    <3>2. checkHistory(verify.events, verify.rows)
      BY <1>2, <3>1, Accepted
    <3>3. verify'.stage \in {"observe", "kv"}
      BY <1>2, <2>3, <3>2, CheckRowsFacts
    <3> QED
      BY <3>3
  <2>4. CASE Observe
    <3>0. PICK n : n = verify.pages + 1
      OBVIOUS
    <3>1. verify'.stage \in {"observe", "kv"}
      BY <1>2, <2>4, <3>0, ObserveFacts
    <3> QED
      BY <3>1
  <2>5. CASE ReadKv
    <3>1. verify.stage = "kv" /\ lateCommit' = lateCommit
      BY <2>5 DEF ReadKv, ghosts
    <3>2. CASE lateCommit
      BY <1>2, <2>5, <3>1, <3>2, ReadKvFacts
    <3>3. CASE ~lateCommit
      <4>1. verify'.stage = "passed"
        BY <1>2, <2>5, <3>1, <3>3, Mirrored, ReadKvFacts
      <4> QED
        BY <4>1
    <3> QED
      BY <3>2, <3>3
  <2>6. CASE Crash
    BY <2>6 DEF Crash, NoVerify
  <2>7. ASSUME NEW id \in Ops, Commit(id)
        PROVE  verify'.stage # "history" /\ (verify'.stage = "mirror" => lateCommit')
    <3>1. verify' = verify
      BY <2>7 DEF Commit
    <3>2. verify.stage # "idle" => lateCommit'
      BY <2>7 DEF Commit
    <3> QED
      BY <1>2, <3>1, <3>2
  <2>8. CASE UNCHANGED <<verify, lateCommit>>
    BY <1>2, <2>8
  <2> QED
    BY <2>1, <2>2, <2>3, <2>4, <2>5, <2>6, <2>7, <2>8 DEF Next, vars, Start, Intend, Send,
       Receive, GiveUp, Complete, Drop, StaleReceipt, Tick, LoseRows, LoseMirror, ghosts
<1> QED
  BY <1>3, <1>4

-----------------------------------------------------------------------------
(* The theorems.                                                           *)

\* The inductive invariant holds at the start.
LEMMA IInvInit == BoundsAssumption /\ Init => IInv
<1> SUFFICES ASSUME BoundsAssumption, Init PROVE IInv
  OBVIOUS
<1>1. TypeInv
  BY TypeInit
<1>2. /\ now = 0 /\ alive = TRUE /\ ledger = <<>> /\ rows = <<>> /\ lateCommit = FALSE
      /\ op = [id \in Ops |-> [pc |-> "new", at |-> 0, seq |-> 0]]
      /\ request = [id \in Ops |-> "none"] /\ verify = NoVerify
  BY DEF Init
<1>3. LedgerMatches
  BY <1>2 DEF LedgerMatches, WellFormed
<1>4. ClockMatches /\ PromisesMatch /\ VerifyMatches
  BY <1>2 DEF ClockMatches, PromisesMatch, VerifyMatches, NoVerify
<1>5. DoomedMatches /\ UnbetrayedInv
  BY <1>2 DEF DoomedMatches, UnbetrayedInv, StoreKeepsItsWord, ReadIsPrefix, NoVerify
<1> QED
  BY <1>1, <1>3, <1>4, <1>5 DEF IInv

\* Every step keeps it.
LEMMA Inductive == Spec => []IInv
<1>1. Init => IInv
  BY BoundsAssumption, IInvInit
<1>2. IInv /\ [Next]_vars => IInv'
  <2> SUFFICES ASSUME IInv, [Next]_vars PROVE IInv'
    OBVIOUS
  <2>1. /\ TypeInv /\ LedgerMatches /\ ClockMatches /\ PromisesMatch
        /\ VerifyMatches /\ DoomedMatches /\ BoundsAssumption
    BY BoundsAssumption DEF IInv
  <2>2. TypeInv' /\ LedgerMatches' /\ ClockMatches' /\ PromisesMatch'
    BY <2>1, TypeStep, LedgerStep, ClockStep, PromisesStep
  <2>3. VerifyMatches' /\ DoomedMatches' /\ UnbetrayedInv'
    BY <2>1, VerifyStep, DoomedStep, UnbetrayedStep
  <2> QED
    BY <2>2, <2>3 DEF IInv
<1> QED
  BY <1>1, <1>2, PTL DEF Spec

\* The state is always what its declaration says: in particular a sequence number
\* never exceeds the writes attempted, and paging stays within its limit
\* (History.ts lines 47-67).
THEOREM TypeCorrect == Spec => []TypeOK
<1>1. IInv => TypeOK
  BY DEF IInv, TypeInv
<1> QED
  BY <1>1, Inductive, PTL

\* The oracle is sound, for any number of writes, workers, pages and
\* verifications: a store that broke no promise is never accused by checkHistory,
\* and by the KV scan only when a request its client had given up was executed
\* between the two reads (History.ts lines 100-156, QualificationContext.ts
\* lines 166-186).
THEOREM NeverAFalseAlarm == Spec => []NoFalseAlarm
<1>1. IInv => NoFalseAlarm
  BY DEF IInv, UnbetrayedInv, VerifyMatches, NoFalseAlarm
<1> QED
  BY <1>1, Inductive, PTL

\* The oracle is complete for durability, whatever the store does meanwhile: a
\* verification that began when an acknowledged or observed row, or its mirror,
\* was gone does not pass (History.ts lines 121-142).
THEOREM EveryLossIsDetected == Spec => []LossIsDetected
<1>1. IInv => LossIsDetected
  BY DEF IInv, DoomedMatches, LossIsDetected
<1> QED
  BY <1>1, Inductive, PTL
=============================================================================
