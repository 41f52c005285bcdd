------------------------------ MODULE History ------------------------------
(***************************************************************************)
(* The write ledger of the qualification suite and the oracle that reads   *)
(* it back (src/History.ts, attemptWrite and verify of                     *)
(* src/QualificationContext.ts, src/Audit.ts).                             *)
(*                                                                         *)
(* Several writes run at once.  Each puts an intent in the ledger before   *)
(* it sends its request and what it observed after.  The object appends a  *)
(* row per request (fixtures/qualification/worker.ts); it may do so long   *)
(* after the client gave up.  Between writes the driver verifies: it       *)
(* reads the ledger, pages through the rows, compares, records what it     *)
(* read and scans the KV mirror.  The driver may die at any moment; the    *)
(* audit then repeats the verification from the ledger alone.              *)
(*                                                                         *)
(* A payload is determined by its id, so a row, a receipt and an event     *)
(* carry the id only.                                                      *)
(***************************************************************************)
EXTENDS Integers, Sequences, FiniteSets

CONSTANTS
  MaxOps,       \* writes attempted
  Workers,      \* writes under way at once
  MaxTime,      \* readings of the driver's millisecond clock
  MaxVerifies,  \* verifications, the audit included
  PageSize, MaxPages,   \* 128 rows and 100 pages in the code
  Late,         \* a request may be executed after its client gave up
  Faulty        \* the store may break its promises

ASSUME BoundsAssumption ==
  /\ MaxOps \in Nat /\ Workers \in Nat \ {0} /\ MaxTime \in Nat
  /\ MaxVerifies \in Nat /\ PageSize \in Nat \ {0} /\ MaxPages \in Nat \ {0}
  /\ Late \in BOOLEAN /\ Faulty \in BOOLEAN

Ops == 1..MaxOps

VARIABLES
  now,          \* the driver's clock
  alive,        \* the driver has not been killed
  ledger, torn, \* the lines of the ledger file; a partial last line
  op,           \* the state of each write in the driver
  request,      \* of each write: "none", "flying", "gone"
  rows,         \* the object's history table, with its KV mirror
  verify,       \* the verification under way
  verifies,     \* verifications begun
  lateCommit,   \* ghost: a row was added since the verification read its rows
  betrayed      \* ghost: the store has broken a promise

clientVars == <<now, alive, ledger, torn, op>>
storeVars  == <<request, rows>>
ghosts == <<lateCommit, betrayed>>
vars == <<clientVars, storeVars, verify, verifies, ghosts>>

Times == 0..MaxTime
Seqs  == 0..(MaxOps + 1)
Event == [kind : {"intent", "ack", "uncertain", "observed"}, id : Ops,
          at : Times, seq : Seqs]
Row   == [id : Ops, seq : Seqs, kv : BOOLEAN]
Stages == {"idle", "rows", "check", "observe", "kv", "passed", "torn",
           "history", "exhausted", "mirror"}
NoVerify == [stage |-> "idle", events |-> <<>>, rows |-> <<>>, pages |-> 0,
             doomed |-> FALSE]

TypeOK ==
  /\ now \in Times /\ alive \in BOOLEAN
  /\ ledger \in Seq(Event) /\ torn \in BOOLEAN
  /\ op \in [Ops -> [pc : {"new", "started", "intended", "sent", "answered",
                           "failed", "done", "dead"},
                     at : Times, seq : Seqs]]
  /\ request \in [Ops -> {"none", "flying", "gone"}]
  /\ rows \in Seq(Row)
  /\ verify \in [stage : Stages, events : Seq(Event), rows : Seq(Row),
                 pages : Nat, doomed : BOOLEAN]
  /\ verify.stage \in {"rows", "check", "exhausted"} => verify.pages <= MaxPages
  /\ verifies \in 0..MaxVerifies /\ lateCommit \in BOOLEAN /\ betrayed \in BOOLEAN

Init ==
  /\ now = 0 /\ alive = TRUE /\ ledger = <<>> /\ torn = FALSE
  /\ op = [id \in Ops |-> [pc |-> "new", at |-> 0, seq |-> 0]]
  /\ request = [id \in Ops |-> "none"] /\ rows = <<>>
  /\ verify = NoVerify /\ verifies = 0
  /\ lateCommit = FALSE /\ betrayed = FALSE

Elements(s) == {s[i] : i \in DOMAIN s}
Entry(kind, id, at, seq) == [kind |-> kind, id |-> id, at |-> at, seq |-> seq]

-----------------------------------------------------------------------------
(* The oracle, History.ts.                                                 *)

\* Lines 105-120: one intent per id, before its one completion, and before
\* anything was observed of it.
WellFormed(events) ==
  \A i \in DOMAIN events :
    LET earlier(kinds) == \E j \in 1..(i - 1) :
                            events[j].kind \in kinds /\ events[j].id = events[i].id
    IN  CASE events[i].kind = "intent" -> ~earlier({"intent"})
          [] events[i].kind = "observed" -> earlier({"intent"})
          [] OTHER -> earlier({"intent"}) /\ ~earlier({"ack", "uncertain"})

IntentAt(events, id) ==
  (CHOOSE e \in Elements(events) : e.kind = "intent" /\ e.id = id).at

Intended(events) == {e.id : e \in {f \in Elements(events) : f.kind = "intent"}}

\* Lines 121-130: consecutive rows of distinct intended writes, mirrored in KV.
RowsWellFormed(events, table) ==
  \A i \in DOMAIN table :
    /\ table[i].seq = i /\ table[i].kv
    /\ table[i].id \in Intended(events)
    /\ \A j \in 1..(i - 1) : table[j].id # table[i].id

\* What the ledger says was acknowledged or read.
Promises(events) == {e \in Elements(events) : e.kind \in {"ack", "observed"}}

\* Lines 138-142.
Kept(promise, table) ==
  \E row \in Elements(table) : row.id = promise.id /\ row.seq = promise.seq

\* Mutant: a write begun in the same millisecond must be later, too.
PrecedenceOverlapping(events, promise, table) ==
  \A row \in Elements(table) :
    IntentAt(events, row.id) >= promise.at => row.seq >= promise.seq

\* Lines 146-148: a write begun after the promise comes after it.
Precedence(events, promise, table) ==
  \A row \in Elements(table) :
    IntentAt(events, row.id) > promise.at => row.seq > promise.seq

\* Mutant: what was read before is not held against the store.
CheckAcknowledgedOnly(events, table) ==
  /\ WellFormed(events) /\ RowsWellFormed(events, table)
  /\ \A promise \in {e \in Promises(events) : e.kind = "ack"} :
       Kept(promise, table) /\ Precedence(events, promise, table)

checkHistory(events, table) ==
  /\ WellFormed(events) /\ RowsWellFormed(events, table)
  /\ \A promise \in Promises(events) :
       /\ promise.seq > 0 /\ promise.at >= IntentAt(events, promise.id)
       /\ Kept(promise, table) /\ Precedence(events, promise, table)

\* Line 53: the page after the last row read; the table is in the order of seq.
Page(after) ==
  LET first == Cardinality({i \in DOMAIN rows : rows[i].seq <= after}) + 1
      last  == first + PageSize - 1
  IN  SubSeq(rows, first, IF Len(rows) < last THEN Len(rows) ELSE last)

LastSeq(table) == IF table = <<>> THEN 0 ELSE table[Len(table)].seq

-----------------------------------------------------------------------------
(* Writes, QualificationContext.ts lines 97-159.                           *)

\* The driver is not inside a write or a verification.
Quiet == /\ verify.stage \in {"idle", "passed"}
         /\ \A id \in Ops : op[id].pc \in {"new", "done"}

Active == {id \in Ops : op[id].pc \notin {"new", "done", "dead"}}

\* append holds the ledger's permit from open to sync: a line is one step.
AppendLine(entry) == ledger' = ledger \o <<entry>>

\* The id is fresh and the clock is read before the ledger is written.
Start(id) ==
  /\ alive /\ verify.stage \in {"idle", "passed"}
  /\ op[id].pc = "new" /\ \A other \in 1..(id - 1) : op[other].pc # "new"
  /\ Cardinality(Active) < Workers
  /\ op' = [op EXCEPT ![id] = [@ EXCEPT !.pc = "started", !.at = now]]
  /\ UNCHANGED <<now, alive, ledger, torn, storeVars, verify, verifies,
                 ghosts>>

Intend(id) ==
  /\ alive /\ op[id].pc = "started"
  /\ AppendLine(Entry("intent", id, op[id].at, 0))
  /\ op' = [op EXCEPT ![id].pc = "intended"]
  /\ UNCHANGED <<now, alive, torn, storeVars, verify, verifies, ghosts>>

Send(id) ==
  /\ alive /\ op[id].pc = "intended"
  /\ op' = [op EXCEPT ![id].pc = "sent"]
  /\ request' = [request EXCEPT ![id] = "flying"]
  /\ UNCHANGED <<now, alive, ledger, torn, rows, verify, verifies, ghosts>>

\* A receipt arrived: the clock is read before the ledger is written.
Answer(id, seq) == op[id].pc = "sent" /\ alive
                   /\ op' = [op EXCEPT ![id] = [pc |-> "answered", at |-> now,
                                                seq |-> seq]]

Receive(id) ==
  /\ \E row \in Elements(rows) : row.id = id /\ Answer(id, row.seq)
  /\ UNCHANGED <<now, alive, ledger, torn, storeVars, verify, verifies,
                 ghosts>>

\* The response was lost, late or unsuccessful.
GiveUp(id) ==
  /\ alive /\ op[id].pc = "sent"
  /\ op' = [op EXCEPT ![id] = [pc |-> "failed", at |-> now, seq |-> 0]]
  /\ UNCHANGED <<now, alive, ledger, torn, storeVars, verify, verifies,
                 ghosts>>

\* Mutant: the driver's own word for the outcome, not the ledger's.
CompleteWithState(id) ==
  /\ alive /\ op[id].pc \in {"answered", "failed"}
  /\ AppendLine(Entry(op[id].pc, id, op[id].at, op[id].seq))
  /\ op' = [op EXCEPT ![id].pc = "done"]
  /\ UNCHANGED <<now, alive, torn, storeVars, verify, verifies, ghosts>>

Complete(id) ==
  /\ alive /\ op[id].pc \in {"answered", "failed"}
  /\ AppendLine(Entry(IF op[id].pc = "answered" THEN "ack" ELSE "uncertain",
                  id, op[id].at, op[id].seq))
  /\ op' = [op EXCEPT ![id].pc = "done"]
  /\ UNCHANGED <<now, alive, torn, storeVars, verify, verifies, ghosts>>

Tick ==
  /\ now < MaxTime /\ now' = now + 1
  /\ UNCHANGED <<alive, ledger, torn, op, storeVars, verify, verifies,
                 ghosts>>

\* The driver is killed; the line being appended is lost, torn, or (Crash after
\* the append) whole.
Crash ==
  /\ alive /\ alive' = FALSE
  /\ \/ UNCHANGED <<ledger, torn>>
     \/ /\ \/ verify.stage = "observe"
           \/ \E id \in Ops : op[id].pc \in {"started", "answered", "failed"}
        /\ torn' = TRUE /\ UNCHANGED ledger
  /\ op' = [id \in Ops |-> IF op[id].pc \in {"new", "done"} THEN op[id]
                           ELSE [op[id] EXCEPT !.pc = "dead"]]
  /\ verify' = NoVerify
  /\ UNCHANGED <<now, storeVars, verifies, ghosts>>

-----------------------------------------------------------------------------
(* The object, external to the driver: worker.ts, /history/.               *)

\* The transaction inserts the row and its KV mirror together.
Commit(id) ==
  /\ request[id] = "flying" /\ (Late \/ op[id].pc = "sent")
  /\ request' = [request EXCEPT ![id] = "gone"]
  /\ rows' = rows \o <<[id |-> id, seq |-> Len(rows) + 1, kv |-> TRUE]>>
  /\ lateCommit' = (lateCommit \/ verify.stage # "idle")
  /\ UNCHANGED <<clientVars, verify, verifies, betrayed>>

Drop(id) ==
  /\ request[id] = "flying"
  /\ request' = [request EXCEPT ![id] = "gone"]
  /\ UNCHANGED <<clientVars, rows, verify, verifies, ghosts>>

\* Faults the oracle is there to see: a failover to a replica without the last
\* rows, a transaction of which only the SQL half survived, and a receipt from
\* an owner that had lost its lease.
LoseRows ==
  /\ Faulty /\ betrayed' = TRUE /\ \E n \in 0..(Len(rows) - 1) : rows' = SubSeq(rows, 1, n)
  /\ UNCHANGED <<clientVars, request, verify, verifies, lateCommit>>

LoseMirror ==
  /\ Faulty /\ betrayed' = TRUE /\ \E i \in DOMAIN rows : rows' = [rows EXCEPT ![i].kv = FALSE]
  /\ UNCHANGED <<clientVars, request, verify, verifies, lateCommit>>

StaleReceipt(id) ==
  /\ Faulty /\ betrayed' = TRUE /\ request[id] = "flying" /\ Answer(id, Len(rows) + 1)
  /\ request' = [request EXCEPT ![id] = "gone"]
  /\ UNCHANGED <<now, alive, ledger, torn, rows, verify, verifies, lateCommit>>

-----------------------------------------------------------------------------
(* verify, QualificationContext.ts lines 166-210, and auditLedger.         *)

\* The store has already broken a promise the ledger holds.
Doomed == \E promise \in Promises(ledger) :
            ~\E row \in Elements(rows) :
               row.id = promise.id /\ row.seq = promise.seq /\ row.kv

\* The scenarios verify when no write is under way; the audit runs after the
\* driver died.  A torn last line is refused; so is, by the audit, a file no
\* line was written to (readLedger, line 34).
Verify ==
  /\ Quiet \/ ~alive
  /\ verify.stage \in {"idle", "passed"}
  /\ verifies < MaxVerifies /\ verifies' = verifies + 1
  /\ verify' = [NoVerify EXCEPT
       !.stage = IF torn \/ (~alive /\ ledger = <<>>) THEN "torn" ELSE "rows",
       !.events = ledger, !.doomed = Doomed]
  /\ lateCommit' = FALSE
  /\ UNCHANGED <<clientVars, storeVars, betrayed>>

ReadPage ==
  /\ verify.stage = "rows"
  /\ LET next == Page(LastSeq(verify.rows))
     IN  verify' = [verify EXCEPT
           !.rows = @ \o next, !.pages = @ + 1,
           !.stage = IF Len(next) < PageSize THEN "check"
                     ELSE IF verify.pages + 1 = MaxPages THEN "exhausted"
                     ELSE "rows"]
  /\ lateCommit' = FALSE
  /\ UNCHANGED <<clientVars, storeVars, verifies, betrayed>>

\* The driver goes on to record what it read, the audit to the KV scan.
CheckRows ==
  /\ verify.stage = "check"
  /\ verify' = [verify EXCEPT
       !.stage = IF ~checkHistory(verify.events, verify.rows) THEN "history"
                 ELSE IF alive /\ verify.rows # <<>> THEN "observe" ELSE "kv",
       !.pages = 0]
  /\ UNCHANGED <<clientVars, storeVars, verifies, ghosts>>

\* One line per row read, uninterruptible (lines 173-185); pages counts them.
Observe ==
  /\ verify.stage = "observe"
  /\ LET n == verify.pages + 1
     IN  /\ AppendLine(Entry("observed", verify.rows[n].id, now, verify.rows[n].seq))
         /\ verify' = [verify EXCEPT
              !.pages = IF n = Len(verify.rows) THEN 0 ELSE n,
              !.stage = IF n = Len(verify.rows) THEN "kv" ELSE "observe"]
  /\ UNCHANGED <<now, alive, torn, op, storeVars, verifies, ghosts>>

\* checkHistoryKv: the mirror holds exactly the rows read.
ReadKv ==
  /\ verify.stage = "kv"
  /\ LET mirror == {row.id : row \in {r \in Elements(rows) : r.kv}}
     IN  verify' = [verify EXCEPT
           !.stage = IF mirror = {row.id : row \in Elements(verify.rows)}
                       THEN "passed" ELSE "mirror"]
  /\ UNCHANGED <<clientVars, storeVars, verifies, ghosts>>

-----------------------------------------------------------------------------
Next ==
  \/ \E id \in Ops : \/ Start(id) \/ Intend(id) \/ Send(id) \/ Receive(id)
                     \/ GiveUp(id) \/ Complete(id)
                     \/ Commit(id) \/ Drop(id) \/ StaleReceipt(id)
  \/ Tick \/ Crash \/ LoseRows \/ LoseMirror
  \/ Verify \/ ReadPage \/ CheckRows \/ Observe \/ ReadKv

Spec == Init /\ [][Next]_vars

-----------------------------------------------------------------------------
(* Properties.                                                             *)

\* The oracle is sound: until the store breaks a promise checkHistory never
\* fails, however the writes overlapped, whichever answers were lost or late,
\* and wherever the driver died (History.ts lines 100-156); and the KV scan then
\* disagrees with the rows only when a request its client had given up was
\* executed between the two reads (QualificationContext.ts lines 170-186).
NoFalseAlarm ==
  ~betrayed =>
    /\ verify.stage # "history"
    /\ verify.stage = "mirror" => Late /\ lateCommit

\* The oracle is complete for durability: when an acknowledged or observed row
\* was lost, or lost its mirror, before a verification began, it does not pass
\* (History.ts lines 121-142, 176-185).
LossIsDetected == verify.stage = "passed" => ~verify.doomed

\* QUALIFICATION.md: a request without a successful response remains uncertain,
\* its transaction "absent or wholly present": neither fails a verification.
UncertainIsAccepted == verify.stage # "mirror"
=============================================================================
