--------------------------- MODULE SuiteExecutor ---------------------------
(***************************************************************************)
(* One run of the suite executor (src/SuiteExecutor.ts): the results table *)
(* and the error list of makeSuiteExecutor, the life of one runCase, the   *)
(* life of execute, and the finalizers that owned (src/Resources.ts)       *)
(* leaves in the case's scope and in the scope of the whole work.          *)
(*                                                                         *)
(* The client (the runner) is the most general one: while no case is       *)
(* running it may acquire, run a case, record a result computed elsewhere, *)
(* or end the work.  Two things happen to it at any time: a termination    *)
(* signal and the suite's deadline.  Both are interruptions: they stay in  *)
(* pending until the fiber is at an interruptible point.                   *)
(***************************************************************************)
EXTENDS FiniteSets

CONSTANTS
  Ids,            \* options.ids, the selected case identities
  Resources,      \* what the work and its cases own (containers, processes)
  Policy,         \* options.policy
  SuiteDeadline   \* options.timeout is given

\* line 36: the selection is nonempty and has no duplicate (it is a set here)
ASSUME IdsAssumption == Ids # {} /\ IsFiniteSet(Ids)
ASSUME PolicyAssumption ==
  Policy \in {"strict", "compatibility"} /\ SuiteDeadline \in BOOLEAN

Statuses == {"pass", "divergence", "known-bug", "fail", "reference-error",
             "infrastructure-error"}

\* A result, and whether its error is the placeholder "Case not reached".
Results == [status : Statuses, reached : BOOLEAN]
NotReached == [status |-> "infrastructure-error", reached |-> FALSE]

Nothing == "nothing"
ASSUME NothingAssumption == Nothing \notin Ids
Reports == [cases : [Ids -> Results],
            errors : SUBSET {"cleanup", "cause"},
            success : BOOLEAN]

VARIABLES
  results, recorded, errors,      \* the executor's own state, lines 43-50
  phase,        \* of execute: work, closing, json, junit, finish, done
  workExit,     \* how the work ended
  cur, stage, settings, setupDone, outcome,      \* the runCase under way
  owner,        \* the scope that holds each resource's finalizer
  pending,      \* interruptions requested: "signal", "deadline"
  json, junit, reportFailed,      \* the two report files, empty until written
  exitCode,     \* of the process
  ran, ready, broken,     \* ghosts: the cases started, those whose setup was
                          \* done, those that did not succeed
  trouble       \* ghost: what went wrong outside the cases

executorVars == <<results, recorded, errors>>
caseVars     == <<cur, stage, settings, setupDone, outcome>>
reportVars   == <<json, junit, reportFailed, exitCode>>
ghosts       == <<ran, ready, broken, trouble>>
vars == <<executorVars, phase, workExit, caseVars, owner, pending, reportVars,
          ghosts>>

Outcomes == {"none", "success", "failure", "timeout", "interrupt"}

TypeOK ==
  /\ results \in [Ids -> Results] /\ recorded \subseteq Ids
  /\ errors \subseteq {"cleanup", "cause"}
  /\ phase \in {"work", "closing", "json", "junit", "finish", "done"}
  /\ workExit \in {"running", "ok", "failed"}
  /\ cur \in Ids \cup {Nothing} /\ stage \in {"idle", "body", "closing", "record"}
  /\ settings \in [timeout : BOOLEAN, stop : BOOLEAN]
  /\ setupDone \in BOOLEAN /\ outcome \in Outcomes
  /\ owner \in [Resources -> {"none", "case", "work", "released"}]
  /\ pending \subseteq {"signal", "deadline"}
  /\ json \subseteq Reports /\ junit \subseteq Reports
  /\ reportFailed \in BOOLEAN /\ exitCode \in {"none", "zero", "nonzero"}
  /\ ran \subseteq Ids /\ ready \subseteq Ids /\ broken \subseteq Ids
  /\ trouble \subseteq {"cleanup", "stopped", "unwritten"}

Init ==
  /\ results = [id \in Ids |-> NotReached] /\ recorded = {} /\ errors = {}
  /\ phase = "work" /\ workExit = "running"
  /\ cur = Nothing /\ stage = "idle" /\ outcome = "none"
  /\ settings = [timeout |-> FALSE, stop |-> FALSE] /\ setupDone = FALSE
  /\ owner = [r \in Resources |-> "none"] /\ pending = {}
  /\ json = {} /\ junit = {} /\ reportFailed = FALSE
  /\ exitCode = "none"
  /\ ran = {} /\ ready = {} /\ broken = {} /\ trouble = {}

Accepted(result) ==
  \/ result.status = "pass"
  \/ Policy = "compatibility" /\ result.status \in {"divergence", "known-bug"}

AllAccepted == \A id \in Ids : Accepted(results[id])

Idle == phase = "work" /\ stage = "idle"

\* The client runs: it is between two cases and nothing has interrupted it.
Calling == Idle /\ pending = {}

-----------------------------------------------------------------------------
(* Interruptions.                                                          *)

\* SIGINT or SIGTERM: the runtime interrupts the main fiber.
Signal ==
  /\ phase # "done" /\ "signal" \notin pending
  /\ pending' = pending \cup {"signal"}
  /\ UNCHANGED <<executorVars, phase, workExit, caseVars, owner, reportVars,
                 ghosts>>

\* The timer of options.timeout runs until the scope of the work has closed.
Deadline ==
  /\ SuiteDeadline /\ phase \in {"work", "closing"} /\ "deadline" \notin pending
  /\ pending' = pending \cup {"deadline"}
  /\ UNCHANGED <<executorVars, phase, workExit, caseVars, owner, reportVars,
                 ghosts>>

-----------------------------------------------------------------------------
(* Resources: owned adds the finalizer before it acquires.                 *)

Acquire(r) ==
  /\ owner[r] = "none"
  /\ pending = {} /\ (Idle \/ stage = "body")
  /\ owner' = [owner EXCEPT ![r] = IF stage = "body" THEN "case" ELSE "work"]
  /\ UNCHANGED <<executorVars, phase, workExit, caseVars, pending, reportVars,
                 ghosts>>

\* A scope is closing (the case's, the work's, or one the client nested in its
\* work) and runs the finalizer of r.
Closes(r) ==
  \/ owner[r] = "case" /\ stage = "closing"
  \/ owner[r] = "work" /\ (phase = "closing" \/ Idle)

Release(r) ==
  /\ Closes(r)
  /\ owner' = [owner EXCEPT ![r] = "released"]
  /\ UNCHANGED <<executorVars, phase, workExit, caseVars, pending, reportVars,
                 ghosts>>

\* Mutant: the failure is swallowed.
ReleaseFailsSilently(r) ==
  /\ Closes(r)
  /\ owner' = [owner EXCEPT ![r] = "released"]
  /\ trouble' = trouble \cup {"cleanup"}
  /\ UNCHANGED <<executorVars, phase, workExit, caseVars, pending, reportVars,
                 ran, ready, broken>>

\* The release failed or overran its 45 seconds: cleanupError keeps the detail
\* and the scope goes on closing.
ReleaseFails(r) ==
  /\ Closes(r)
  /\ owner' = [owner EXCEPT ![r] = "released"]
  /\ errors' = errors \cup {"cleanup"}
  /\ trouble' = trouble \cup {"cleanup"}
  /\ UNCHANGED <<results, recorded, phase, workExit, caseVars, pending,
                 reportVars, ran, ready, broken>>

\* A finalizer made fatal with Effect.orDie (the fault controls' restorations):
\* the scope ends with a defect instead of its success.
ReleaseDies(r) ==
  /\ Closes(r)
  /\ owner' = [owner EXCEPT ![r] = "released"]
  /\ IF stage = "closing"
       THEN /\ outcome' = IF outcome = "success" THEN "failure" ELSE outcome
            /\ broken' = broken \cup {cur}
            /\ UNCHANGED <<phase, workExit, trouble>>
       ELSE /\ phase' = "closing" /\ workExit' = "failed"
            /\ trouble' = trouble \cup {"stopped"}
            /\ UNCHANGED <<outcome, broken>>
  /\ UNCHANGED <<executorVars, cur, stage, settings, setupDone, pending,
                 reportVars, ran, ready>>

-----------------------------------------------------------------------------
(* runCase, lines 77-139.                                                  *)

RunCase(id, timeout, includesSetup, stop) ==
  /\ Calling
  /\ id \in Ids \ recorded
  /\ cur' = id /\ stage' = "body" /\ outcome' = "none"
  /\ settings' = [timeout |-> timeout, stop |-> stop]
  /\ setupDone' = ~includesSetup
  /\ ran' = ran \cup {id}
  /\ ready' = IF includesSetup THEN ready ELSE ready \cup {id}
  /\ UNCHANGED <<executorVars, phase, workExit, owner, pending, reportVars,
                 broken, trouble>>

\* The work calls test.ready.
Ready ==
  /\ stage = "body" /\ ~setupDone
  /\ setupDone' = TRUE
  /\ ready' = ready \cup {cur}
  /\ UNCHANGED <<executorVars, phase, workExit, cur, stage, settings, outcome,
                 owner, pending, reportVars, ran, broken, trouble>>

EndBody(kind) ==
  /\ stage' = "closing" /\ outcome' = kind
  /\ broken' = IF kind = "success" THEN broken ELSE broken \cup {cur}
  /\ UNCHANGED <<executorVars, phase, workExit, cur, settings, setupDone,
                 owner, pending, reportVars, ran, ready, trouble>>

BodySucceeds == stage = "body" /\ EndBody("success")
BodyFails    == stage = "body" /\ EndBody("failure")

\* The case's timer covers its finalizers: it wins over an exit the scope has
\* not finished with.
CaseTimeout ==
  /\ stage \in {"body", "closing"} /\ settings.timeout
  /\ outcome \in {"none", "success", "failure"}
  /\ EndBody("timeout")

\* Mutant: line 105 does not restore interruptibility around the body.
CaseInterruptedLate ==
  /\ stage = "closing" /\ pending # {} /\ outcome # "interrupt"
  /\ EndBody("interrupt")

\* The body and its scope run restored to interruptible.
CaseInterrupted ==
  /\ stage \in {"body", "closing"} /\ pending # {} /\ outcome # "interrupt"
  /\ EndBody("interrupt")

\* The scope is closed: the exit is what the code inspects next.
CaseClosed ==
  /\ stage = "closing"
  /\ \A r \in Resources : owner[r] # "case"
  /\ pending # {} => outcome = "interrupt"
  /\ stage' = "record"
  /\ UNCHANGED <<executorVars, phase, workExit, cur, settings, setupDone,
                 outcome, owner, pending, reportVars, ghosts>>

\* Mutant: the exit's own name as the status.
CaseStatusFromExit == IF outcome = "success" THEN "pass" ELSE outcome

CaseStatus == IF outcome = "success" THEN "pass"
              ELSE IF setupDone THEN "fail" ELSE "infrastructure-error"

\* What record does to the table; its file is written after it.
Enter(id, status) ==
  /\ id \in Ids \ recorded
  /\ recorded' = recorded \cup {id}
  /\ results' = [results EXCEPT ![id] = [status |-> status, reached |-> TRUE]]

EndWork(how) == phase' = "closing" /\ workExit' = how

\* The exits after which the client's work does not go on (lines 132-136).
CaseStops == \/ outcome = "interrupt"
             \/ outcome # "success" /\ settings.stop

\* Mutants: an interrupted case is not entered; onFailure is ignored.
RecordCaseUnlessInterrupted(written) ==
  /\ stage = "record"
  /\ IF outcome = "interrupt" THEN UNCHANGED <<results, recorded>>
                               ELSE Enter(cur, CaseStatus)
  /\ cur' = Nothing /\ stage' = "idle"
  /\ IF outcome = "interrupt" THEN EndWork("failed")
                               ELSE UNCHANGED <<phase, workExit>>
  /\ UNCHANGED <<errors, settings, setupDone, outcome, owner, pending,
                 reportVars, ghosts>>
RecordCaseAndContinue(written) ==
  /\ stage = "record"
  /\ Enter(cur, CaseStatus)
  /\ cur' = Nothing /\ stage' = "idle"
  /\ IF ~written \/ outcome = "interrupt" THEN EndWork("failed")
                                          ELSE UNCHANGED <<phase, workExit>>
  /\ trouble' = IF outcome # "success" /\ settings.stop
                  THEN trouble \cup {"stopped"} ELSE trouble
  /\ UNCHANGED <<errors, settings, setupDone, outcome, owner, pending,
                 reportVars, ran, ready, broken>>

\* Uninterruptible: the result is entered whatever the exit was.  The work
\* goes on unless the entry failed, the exit was an interruption, or the case
\* is one the later ones depend on.
RecordCase(written) ==
  /\ stage = "record"
  /\ Enter(cur, CaseStatus)
  /\ cur' = Nothing /\ stage' = "idle"
  /\ \/ /\ ~written /\ EndWork("failed")
        /\ trouble' = trouble \cup {"stopped", "unwritten"}
     \/ /\ written /\ CaseStops /\ EndWork("failed")
        /\ trouble' = trouble \cup {"stopped"}
     \/ /\ written /\ ~CaseStops
        /\ UNCHANGED <<phase, workExit, trouble>>
  /\ UNCHANGED <<errors, settings, setupDone, outcome, owner, pending,
                 reportVars, ran, ready, broken>>

-----------------------------------------------------------------------------
(* The client's other calls.                                               *)

\* record, lines 61-76, with a result the client computed.
Record(id, status, written) ==
  /\ Calling
  /\ Enter(id, status)
  /\ \/ written /\ UNCHANGED <<phase, workExit, trouble>>
     \/ /\ ~written /\ EndWork("failed")
        /\ trouble' = trouble \cup {"stopped", "unwritten"}
  /\ ran' = ran \cup {id} /\ ready' = ready \cup {id}
  /\ UNCHANGED <<errors, caseVars, owner, pending, reportVars, broken>>

\* The client returns, or fails outside a case.
WorkEnds(how) ==
  /\ Calling /\ EndWork(how)
  /\ trouble' = IF how = "failed" THEN trouble \cup {"stopped"} ELSE trouble
  /\ UNCHANGED <<executorVars, caseVars, owner, pending, reportVars, ran, ready,
                 broken>>

WorkInterrupted ==
  /\ Idle /\ pending # {} /\ EndWork("failed")
  /\ trouble' = trouble \cup {"stopped"}
  /\ UNCHANGED <<executorVars, caseVars, owner, pending, reportVars, ran, ready,
                 broken>>

-----------------------------------------------------------------------------
(* execute's onExit, lines 148-190, and its last check, lines 191-200.     *)

\* Mutant: onExit attached inside Effect.scoped, before the finalizers.
WorkReportedBeforeScope ==
  /\ phase = "closing" /\ phase' = "json"
  /\ errors' = IF workExit = "failed" THEN errors \cup {"cause"} ELSE errors
  /\ UNCHANGED <<results, recorded, workExit, caseVars, owner, pending,
                 reportVars, ghosts>>

\* The exit onExit sees: a deadline or a signal that came before the scope was
\* closed wins over the work's own success.
WorkClosed ==
  /\ phase = "closing"
  /\ \A r \in Resources : owner[r] # "work"
  /\ phase' = "json"
  /\ workExit' = IF pending = {} THEN workExit ELSE "failed"
  /\ errors' = IF workExit' = "failed" THEN errors \cup {"cause"} ELSE errors
  /\ trouble' = IF pending = {} THEN trouble ELSE trouble \cup {"stopped"}
  /\ UNCHANGED <<results, recorded, caseVars, owner, pending, reportVars, ran,
                 ready, broken>>

Report ==
  [cases |-> results, errors |-> errors,
   success |-> workExit = "ok" /\ errors = {} /\ AllAccepted]

WriteJson(written) ==
  /\ phase = "json" /\ phase' = "junit"
  /\ json' = IF written THEN {Report} ELSE {}
  /\ reportFailed' = ~written
  /\ trouble' = IF written THEN trouble ELSE trouble \cup {"unwritten"}
  /\ UNCHANGED <<executorVars, workExit, caseVars, owner, pending, junit,
                 exitCode, ran, ready, broken>>

\* Mutant: the second write's exit replaces the first's.
WriteJunitForgets(written) ==
  /\ phase = "junit" /\ phase' = "finish"
  /\ junit' = IF written THEN {Report} ELSE {}
  /\ reportFailed' = ~written
  /\ trouble' = IF written THEN trouble ELSE trouble \cup {"unwritten"}
  /\ UNCHANGED <<executorVars, workExit, caseVars, owner, pending, json,
                 exitCode, ran, ready, broken>>

\* Effect.ensuring: attempted whether or not report.json was written.
WriteJunit(written) ==
  /\ phase = "junit" /\ phase' = "finish"
  /\ junit' = IF written THEN {Report} ELSE {}
  /\ reportFailed' = (reportFailed \/ ~written)
  /\ trouble' = IF written THEN trouble ELSE trouble \cup {"unwritten"}
  /\ UNCHANGED <<executorVars, workExit, caseVars, owner, pending, json,
                 exitCode, ran, ready, broken>>

\* Mutant: only the cases are looked at.
FinishFromCases ==
  /\ phase = "finish" /\ phase' = "done"
  /\ exitCode' = IF reportFailed \/ ~AllAccepted THEN "nonzero" ELSE "zero"
  /\ UNCHANGED <<executorVars, workExit, caseVars, owner, pending, json, junit,
                 reportFailed, ghosts>>

\* A reporting defect, the original cause, a signal held back by onExit or the
\* last check fails the process.
Finish ==
  /\ phase = "finish" /\ phase' = "done"
  /\ exitCode' = IF \/ reportFailed \/ workExit = "failed"
                    \/ "signal" \in pending
                    \/ errors # {} \/ ~AllAccepted
                   THEN "nonzero" ELSE "zero"
  /\ UNCHANGED <<executorVars, workExit, caseVars, owner, pending, json, junit,
                 reportFailed, ghosts>>

-----------------------------------------------------------------------------
\* A case has a timer of its own or runs under the suite's.
Settings == {s \in [timeout : BOOLEAN, includesSetup : BOOLEAN, stop : BOOLEAN] :
               s.timeout \/ SuiteDeadline}

Client ==
  \/ \E r \in Resources : Acquire(r)
  \/ \E id \in Ids, s \in Settings :
       RunCase(id, s.timeout, s.includesSetup, s.stop)
  \/ Ready \/ BodySucceeds \/ BodyFails
  \/ \E id \in Ids, status \in Statuses, written \in BOOLEAN :
       Record(id, status, written)
  \/ \E how \in {"ok", "failed"} : WorkEnds(how)

\* What goes on without the client.
Closing ==
  \/ \E r \in Resources : Release(r) \/ ReleaseFails(r) \/ ReleaseDies(r)
  \/ CaseClosed \/ \E written \in BOOLEAN : RecordCase(written)
  \/ WorkClosed
  \/ \E written \in BOOLEAN : WriteJson(written) \/ WriteJunit(written)
  \/ Finish

Next ==
  \/ Client \/ Closing
  \/ Signal \/ Deadline \/ CaseTimeout \/ CaseInterrupted \/ WorkInterrupted

Spec == Init /\ [][Next]_vars

\* The timers fire, an interrupted fiber reaches an interruptible point, and
\* every finalizer and report step is bounded (the releases by 45 seconds).
\* Nothing is assumed of the client: it may hang in a case or between two.
Fairness ==
  /\ WF_vars(Deadline) /\ WF_vars(CaseTimeout)
  /\ WF_vars(CaseInterrupted) /\ WF_vars(WorkInterrupted)
  /\ WF_vars(Closing)

FairSpec == Spec /\ Fairness

-----------------------------------------------------------------------------
(* The contract the executor implements.                                   *)

\* The run is judged when the work's scope has closed (WorkClosed), from what
\* the report will say, whether or not its files can be written.
Judgement == IF phase \in {"work", "closing"} THEN "open"
             ELSE IF Report.success THEN "success" ELSE "failure"

Contract == INSTANCE SuiteContract WITH
  Verdicts <- Statuses,
  Acceptable <- {status \in Statuses : Accepted([status |-> status])},
  None <- Nothing,
  verdict <- [id \in Ids |-> IF id \in recorded THEN results[id].status
                             ELSE Nothing],
  judged <- Judgement,
  exit <- exitCode

\* Every step of the executor is a step of the contract or leaves it alone.
ImplementsContract == Contract!Spec

-----------------------------------------------------------------------------
(* Properties.                                                             *)

Written == json \cup junit

\* A report file that says success was earned: every selected case was really
\* run, none of them failed, timed out, was interrupted or died in a finalizer,
\* no cleanup failed and nothing stopped the work (execute, lines 174-177).
SuccessIsEarned ==
  \A report \in Written :
    report.success => /\ ran = Ids /\ broken = {}
                      /\ trouble \cap {"cleanup", "stopped"} = {}

\* The process exits zero only with both files on disk, saying the same, and
\* saying success (lines 181-200).
ExitZeroHasEvidence ==
  exitCode = "zero" => /\ json # {} /\ junit = json /\ "unwritten" \notin trouble
                       /\ \A report \in json : report.success

\* Reports are written after every finalizer ran (line 147), and a cleanup that
\* failed at any point of the run is in them.
ReportFollowsCleanup ==
  Written # {} =>
    /\ \A r \in Resources : owner[r] \notin {"case", "work"}
    /\ "cleanup" \in trouble => \A report \in Written : "cleanup" \in report.errors

\* A report shows a verdict for exactly the cases that were started: an
\* interruption in the middle of a case never loses it, and a case that was
\* not reached never looks like one that was (lines 43-48 and 84-139).
EveryStartedCaseIsReported ==
  \A report \in Written, id \in Ids :
    report.cases[id].reached <=> id \in ran

\* Once an interruption, a stage the others depend on, or a failure outside a
\* case has ended the work, no further case is started (lines 132-136).
NoCaseAfterStop ==
  []["stopped" \in trouble => ran' = ran]_vars

\* With a suite deadline the run ends whatever the work does, having tried to
\* write its reports.
Terminates == <>(phase = "done")
=============================================================================
