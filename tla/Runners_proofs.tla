-------------------------- MODULE Runners_proofs --------------------------
(***************************************************************************)
(* Proofs about the suite executor and the four runners that are made of   *)
(* it.                                                                     *)
(*                                                                         *)
(* The executor, for every selection of cases, every set of resources,     *)
(* both policies, with and without a suite deadline.  The invariants the   *)
(* runs check are not inductive: a report that says success was earned     *)
(* only because nothing it is made of can change after it was made.  IInv  *)
(* says, part by part, what each phase has settled.                        *)
(*                                                                         *)
(* The runners, for every selection of cases, every assignment of cases to *)
(* fixtures and every order of the fixtures.  What holds while a runner is *)
(* at a step of its program depends on the steps before it: which          *)
(* processes are up, which cases have been run and which of them are known *)
(* to have passed.  The second part labels every program with these expectations   *)
(* and shows each step to lead from its own label to the next one, by      *)
(* composition of the programs' parts.  The third part shows that the run  *)
(* follows the labels, and that every run is one of the executor.          *)
(***************************************************************************)
EXTENDS Runners, SequenceLemmas

-----------------------------------------------------------------------------
(* The executor.                                                           *)

\* The status runCase computes is one the result schema has.
LEMMA CaseStatusType == CaseStatus \in Statuses
BY DEF CaseStatus, Statuses

\* What the report files hold is a report.
LEMMA ReportType == TypeOK => Report \in Reports
BY DEF TypeOK, Report, Reports

\* A report is made of the table, the errors and the exit.
LEMMA ReportStable == UNCHANGED <<results, errors, workExit>> => Report' = Report
BY DEF Report, AllAccepted

LEMMA SuccessMeans ==
  Report.success => workExit = "ok" /\ errors = {} /\ AllAccepted
BY DEF Report

Closed == phase \in {"json", "junit", "finish", "done"}

\* The case under way has no result yet; only a running case has a scope.
CaseUnderWay ==
  /\ stage # "idle" => /\ cur \in Ids \ recorded /\ phase = "work"
                       /\ setupDone => cur \in ready
  /\ stage = "body" => outcome = "none"
  /\ stage \in {"closing", "record"} => outcome # "none"
  /\ stage = "idle" => cur = Nothing
  /\ stage \in {"idle", "record"} => \A r \in Resources : owner[r] # "case"

\* The table holds a verdict for the recorded cases only, and those and the
\* one under way are the cases that were started.
TableMatches ==
  /\ \A id \in Ids : results[id].reached <=> id \in recorded
  /\ \A id \in Ids \ recorded : results[id] = NotReached
  /\ ran = recorded \cup (IF stage = "idle" THEN {} ELSE {cur})

\* A case that did not succeed cannot have an accepted verdict any more.
BrokenMatches ==
  \A id \in broken :
    \/ id \in recorded /\ results[id].status \in {"fail", "infrastructure-error"}
    \/ stage # "idle" /\ id = cur /\ outcome \notin {"none", "success"}

BlameMatches ==
  \A id \in recorded : results[id].status = "fail" => id \in ready

\* What went wrong outside the cases has reached the executor's own state.
TroubleMatches ==
  /\ phase = "work" <=> workExit = "running"
  /\ "cleanup" \in trouble => "cleanup" \in errors
  /\ "stopped" \in trouble => workExit = "failed"
  /\ "unwritten" \in trouble => workExit = "failed" \/ reportFailed
  /\ Closed /\ workExit = "failed" => "cause" \in errors
  /\ Closed => \A r \in Resources : owner[r] \notin {"case", "work"}

\* The two files are made of the state as it still is.
FilesMatch ==
  /\ json \subseteq {Report} /\ junit \subseteq {Report}
  /\ json # {} => phase \in {"junit", "finish", "done"}
  /\ junit # {} => phase \in {"finish", "done"}
  /\ phase \in {"junit", "finish", "done"} /\ json = {} => reportFailed
  /\ phase \in {"finish", "done"} /\ junit = {} => reportFailed
  /\ reportFailed => phase \in {"junit", "finish", "done"}
  /\ phase # "done" => exitCode = "none"
  /\ exitCode = "zero" => /\ phase = "done" /\ ~reportFailed
                          /\ Report.success

IInv == /\ TypeOK /\ CaseUnderWay /\ TableMatches /\ BrokenMatches
        /\ BlameMatches /\ TroubleMatches /\ FilesMatch

\* Every step keeps the inductive invariant.
LEMMA IInvStep == IInv /\ [Next]_vars => IInv'
<1> SUFFICES ASSUME IInv, [Next]_vars PROVE IInv'
  OBVIOUS
<1> USE DEF IInv, TypeOK, CaseUnderWay, TableMatches, BrokenMatches,
            BlameMatches, TroubleMatches, FilesMatch, Closed, Idle, Calling
<1>1. CASE Signal
  BY ReportStable, <1>1 DEF Signal, executorVars, caseVars, reportVars, ghosts
<1>2. CASE Deadline
  BY <1>2 DEF Deadline, executorVars, caseVars, reportVars, ghosts
<1>3. ASSUME NEW r \in Resources, Acquire(r)
       PROVE  IInv'
  BY <1>3 DEF Acquire, executorVars, caseVars, reportVars, ghosts
<1>4. ASSUME NEW r \in Resources, Release(r)
       PROVE  IInv'
  BY <1>4 DEF Release, Closes, executorVars, caseVars, reportVars, ghosts
<1>5. ASSUME NEW r \in Resources, ReleaseFails(r)
       PROVE  IInv'
  BY <1>5 DEF ReleaseFails, Closes, caseVars, reportVars
<1>6. ASSUME NEW r \in Resources, ReleaseDies(r)
       PROVE  IInv'
  <2>1. TypeOK'
    BY <1>6 DEF ReleaseDies, Closes, executorVars, reportVars, Outcomes
  <2>2. CaseUnderWay'
    BY <1>6 DEF ReleaseDies, Closes, executorVars
  <2>3. TableMatches'
    BY <1>6 DEF ReleaseDies, executorVars
  <2>4. BrokenMatches'
    BY <1>6 DEF ReleaseDies, executorVars
  <2>5. BlameMatches'
    BY <1>6 DEF ReleaseDies, executorVars
  <2>6. TroubleMatches'
    BY <1>6 DEF ReleaseDies, executorVars
  <2>7. FilesMatch'
    BY <1>6 DEF ReleaseDies, Closes, reportVars
  <2> QED
    BY <2>1, <2>2, <2>3, <2>4, <2>5, <2>6, <2>7
<1>7. ASSUME NEW id \in Ids, NEW s \in Settings,
             RunCase(id, s.timeout, s.includesSetup, s.stop)
       PROVE  IInv'
  BY <1>7 DEF RunCase, Settings, executorVars, reportVars, Outcomes
<1>8. CASE Ready
  BY <1>8 DEF Ready, executorVars, reportVars
<1>9. ASSUME NEW end \in Outcomes \ {"none"}, EndBody(end),
             stage = "body" \/ (stage = "closing" /\ end # "success")
       PROVE  IInv'
  <2>1. TypeOK'
    BY <1>9 DEF EndBody, executorVars, reportVars
  <2>2. CaseUnderWay'
    BY <1>9 DEF EndBody, executorVars
  <2>3. TableMatches'
    BY <1>9 DEF EndBody, executorVars
  <2>4. BrokenMatches'
    BY <1>9 DEF EndBody, executorVars
  <2>5. BlameMatches'
    BY <1>9 DEF EndBody, executorVars
  <2>6. TroubleMatches'
    BY <1>9 DEF EndBody, executorVars
  <2>7. FilesMatch'
    BY <1>9 DEF EndBody, reportVars
  <2> QED
    BY <2>1, <2>2, <2>3, <2>4, <2>5, <2>6, <2>7
<1>10. CASE CaseClosed
  BY <1>10 DEF CaseClosed, executorVars, reportVars, ghosts
<1>11. ASSUME NEW written \in BOOLEAN, RecordCase(written)
       PROVE  IInv'
  <2>1. TypeOK'
    BY CaseStatusType, <1>11 DEF RecordCase, Enter, EndWork, reportVars,
         Results
  <2>2. CaseUnderWay'
    BY <1>11 DEF RecordCase
  <2>3. TableMatches'
    BY <1>11 DEF RecordCase, Enter, CaseStops, reportVars
  <2>4. BrokenMatches'
    BY <1>11 DEF RecordCase, Enter, CaseStatus
  <2>5. BlameMatches'
    BY <1>11 DEF RecordCase, Enter, CaseStatus
  <2>6. TroubleMatches'
    BY <1>11 DEF RecordCase, EndWork
  <2>7. FilesMatch'
    BY <1>11 DEF RecordCase, EndWork, reportVars
  <2> QED
    BY <2>1, <2>2, <2>3, <2>4, <2>5, <2>6, <2>7
<1>12. ASSUME NEW id \in Ids, NEW status \in Statuses, NEW written \in BOOLEAN,
              Record(id, status, written)
       PROVE  IInv'
  <2>1. TypeOK'
    BY <1>12 DEF Record, Enter, EndWork, caseVars, reportVars, Results
  <2>2. CaseUnderWay'
    BY <1>12 DEF Record, caseVars
  <2>3. TableMatches'
    <3>1. ASSUME NEW i \in Ids PROVE (results[i].reached <=> i \in recorded)'
      BY <1>12 DEF Record, Enter, Results
    <3>2. ASSUME NEW i \in Ids \ recorded' PROVE results'[i] = NotReached
      BY <1>12, <3>2 DEF Record, Enter
    <3>3. (ran = recorded \cup (IF stage = "idle" THEN {} ELSE {cur}))'
      BY <1>12 DEF Record, Enter, caseVars
    <3> QED
      BY <3>1, <3>2, <3>3 DEF TableMatches
  <2>4. BrokenMatches'
    BY <1>12 DEF Record, Enter
  <2>5. BlameMatches'
    BY <1>12 DEF Record, Enter
  <2>6. TroubleMatches'
    BY <1>12 DEF Record, EndWork
  <2>7. FilesMatch'
    BY <1>12 DEF Record, EndWork, reportVars
  <2> QED
    BY <2>1, <2>2, <2>3, <2>4, <2>5, <2>6, <2>7
<1>13. ASSUME NEW how \in {"ok", "failed"}, WorkEnds(how)
       PROVE  IInv'
  BY <1>13 DEF WorkEnds, EndWork, executorVars, caseVars, reportVars
<1>14. CASE WorkInterrupted
  BY <1>14 DEF WorkInterrupted, EndWork, executorVars, caseVars, reportVars
<1>15. CASE WorkClosed
  BY <1>15 DEF WorkClosed, caseVars, reportVars
<1>16. ASSUME NEW written \in BOOLEAN, WriteJson(written)
       PROVE  IInv'
  <2>1. TypeOK'
    BY ReportType, <1>16 DEF WriteJson, executorVars, caseVars
  <2>2. CaseUnderWay'
    BY <1>16 DEF WriteJson, caseVars
  <2>3. TableMatches'
    BY <1>16 DEF WriteJson, executorVars, caseVars
  <2>4. BrokenMatches'
    BY <1>16 DEF WriteJson, executorVars
  <2>5. BlameMatches'
    BY <1>16 DEF WriteJson, executorVars
  <2>6. TroubleMatches'
    BY <1>16 DEF WriteJson, executorVars
  <2>7. FilesMatch'
    BY ReportStable, <1>16 DEF WriteJson, executorVars
  <2> QED
    BY <2>1, <2>2, <2>3, <2>4, <2>5, <2>6, <2>7
<1>17. ASSUME NEW written \in BOOLEAN, WriteJunit(written)
       PROVE  IInv'
  <2>1. TypeOK'
    BY ReportType, <1>17 DEF WriteJunit, executorVars, caseVars
  <2>2. CaseUnderWay'
    BY <1>17 DEF WriteJunit, caseVars
  <2>3. TableMatches'
    BY <1>17 DEF WriteJunit, executorVars, caseVars
  <2>4. BrokenMatches'
    BY <1>17 DEF WriteJunit, executorVars
  <2>5. BlameMatches'
    BY <1>17 DEF WriteJunit, executorVars
  <2>6. TroubleMatches'
    BY <1>17 DEF WriteJunit, executorVars
  <2>7. FilesMatch'
    BY ReportStable, <1>17 DEF WriteJunit, executorVars
  <2> QED
    BY <2>1, <2>2, <2>3, <2>4, <2>5, <2>6, <2>7
<1>18. CASE Finish
  BY <1>18 DEF Finish, executorVars, caseVars, ghosts, Report, AllAccepted,
       Accepted
<1>19. CASE UNCHANGED vars
  BY <1>19 DEF vars, executorVars, caseVars, reportVars, ghosts, Report,
       AllAccepted, Accepted
<1> QED
  BY <1>1, <1>2, <1>3, <1>4, <1>5, <1>6, <1>7, <1>8, <1>9, <1>10, <1>11, <1>12,
       <1>13, <1>14, <1>15, <1>16, <1>17, <1>18, <1>19
  DEF Next, Client, Closing, BodySucceeds, BodyFails, CaseTimeout,
       CaseInterrupted, Outcomes

\* The run starts in the invariant.
LEMMA IInvInit == Init => IInv
<1> SUFFICES ASSUME Init PROVE IInv
  OBVIOUS
<1>1. NotReached \in Results /\ ~NotReached.reached
  BY DEF NotReached, Results, Statuses
<1>2. TypeOK
  BY <1>1 DEF Init, TypeOK, Outcomes
<1>3. TableMatches
  BY <1>1 DEF Init, TableMatches
<1> QED
  BY <1>2, <1>3 DEF Init, IInv, CaseUnderWay, BrokenMatches, BlameMatches,
                    TroubleMatches, FilesMatch, Closed

LEMMA Invariance == Spec => []IInv
BY IInvInit, IInvStep, PTL DEF Spec

\* Type correctness: the executor's state never leaves its domain; in
\* particular every status it enters is one of the six the schema allows.
THEOREM TypeCorrect == Spec => []TypeOK
<1>1. IInv => TypeOK
  BY DEF IInv
<1> QED
  BY <1>1, Invariance, PTL

\* A success report was earned: every selected case ran and succeeded, no
\* cleanup failed, nothing stopped the work.
THEOREM SuccessEarned == Spec => []SuccessIsEarned
<1>1. IInv => SuccessIsEarned
  <2> SUFFICES ASSUME IInv, NEW report \in Written, report.success
               PROVE  /\ ran = Ids /\ broken = {}
                      /\ trouble \cap {"cleanup", "stopped"} = {}
    BY DEF SuccessIsEarned
  <2> USE DEF IInv
  <2>0. report = Report /\ phase # "work"
    BY DEF Written, FilesMatch
  <2>1. workExit = "ok" /\ errors = {} /\ AllAccepted /\ phase # "work"
    BY <2>0, SuccessMeans
  <2>2. trouble \cap {"cleanup", "stopped"} = {}
    BY <2>1 DEF TroubleMatches
  <2>3. ASSUME NEW id \in Ids
        PROVE  results[id].status \in {"pass", "divergence", "known-bug"}
    BY <2>1 DEF AllAccepted, Accepted
  <2>4. Ids \subseteq recorded
    BY <2>3 DEF TableMatches, NotReached
  <2>5. ran = Ids
    BY <2>1, <2>4 DEF TableMatches, CaseUnderWay, TypeOK
  <2>6. broken = {}
    BY <2>1, <2>3 DEF BrokenMatches, CaseUnderWay, TypeOK
  <2> QED
    BY <2>2, <2>5, <2>6
<1> QED
  BY <1>1, Invariance, PTL

\* Exit status zero comes with both report files, equal and successful.
THEOREM EvidenceForZero == Spec => []ExitZeroHasEvidence
<1>1. IInv => ExitZeroHasEvidence
  <2> SUFFICES ASSUME IInv, exitCode = "zero"
               PROVE  /\ json = {Report} /\ junit = {Report} /\ Report.success
                      /\ "unwritten" \notin trouble
    BY DEF ExitZeroHasEvidence
  <2>1. json = {Report} /\ junit = {Report} /\ Report.success /\ ~reportFailed
    BY DEF IInv, FilesMatch
  <2>2. "unwritten" \notin trouble
    BY <2>1, SuccessMeans DEF IInv, TroubleMatches
  <2> QED
    BY <2>1, <2>2
<1> QED
  BY <1>1, Invariance, PTL

\* Reports come after every finalizer, and a failed cleanup is in them.
THEOREM CleanupReported == Spec => []ReportFollowsCleanup
<1>1. IInv => ReportFollowsCleanup
  BY DEF IInv, ReportFollowsCleanup, Written, FilesMatch, TroubleMatches,
         Closed, Report
<1> QED
  BY <1>1, Invariance, PTL

\* A report shows a verdict for exactly the cases that were started.
THEOREM StartedCasesReported == Spec => []EveryStartedCaseIsReported
<1>1. IInv => EveryStartedCaseIsReported
  BY DEF IInv, EveryStartedCaseIsReported, Written, FilesMatch, TableMatches,
         CaseUnderWay, Report
<1> QED
  BY <1>1, Invariance, PTL

\* Nothing is started after the work was stopped.
THEOREM StopMeansStop == Spec => NoCaseAfterStop
<1>1. IInv /\ [Next]_vars => ["stopped" \in trouble => ran' = ran]_vars
  <2> SUFFICES ASSUME IInv, [Next]_vars, "stopped" \in trouble
               PROVE  ran' = ran
    OBVIOUS
  <2>1. phase # "work"
    BY DEF IInv, TroubleMatches
  <2>2. ~Calling
    BY <2>1 DEF Calling, Idle
  <2> QED
    BY <2>2
    DEF Next, Client, Closing, vars, ghosts, Signal, Deadline, Acquire,
         Release,
        ReleaseFails, ReleaseDies, RunCase, Ready, EndBody, BodySucceeds,
        BodyFails, CaseTimeout, CaseInterrupted, CaseClosed, RecordCase, Record,
        WorkEnds, WorkInterrupted, WorkClosed, WriteJson, WriteJunit, Finish
<1> QED
  BY <1>1, Invariance, PTL DEF Spec, NoCaseAfterStop

\* The executor implements the contract: what a reader may conclude from a
\* verdict, the report and the exit status does not depend on how interruptions,
\* timers and finalizers were interleaved.
THEOREM Implements == Spec => ImplementsContract
<1> DEFINE verdict == [id \in Ids |-> IF id \in recorded THEN results[id].status
                                      ELSE Nothing]
<1>1. Init => Contract!Init
  BY DEF Init, Contract!Init, Judgement
<1>2. IInv /\ [Next]_vars => [Contract!Next]_(Contract!vars)
  <2> SUFFICES ASSUME IInv, [Next]_vars
               PROVE  Contract!Next \/ UNCHANGED Contract!vars
    OBVIOUS
  <2>1. ASSUME NEW written \in BOOLEAN, RecordCase(written)
        PROVE  Contract!Next
    <3>1. PICK id \in Ids, v \in Statuses : id = cur /\ v = CaseStatus
      BY <2>1, CaseStatusType DEF RecordCase, Enter
    <3>2. Contract!Give(id, v)
      BY <2>1, <3>1
      DEF RecordCase, Enter, EndWork, IInv, TypeOK, CaseUnderWay,
          Contract!Give, Judgement, reportVars
    <3> QED
      BY <3>2 DEF Contract!Next
  <2>2. ASSUME NEW id \in Ids, NEW status \in Statuses, NEW written \in BOOLEAN,
               Record(id, status, written)
        PROVE  Contract!Next
    <3>1. Contract!Give(id, status)
      BY <2>2
      DEF Record, Enter, EndWork, IInv, TypeOK, Contract!Give, Judgement,
          Calling, Idle, reportVars
    <3> QED
      BY <3>1 DEF Contract!Next
  <2>3. CASE WorkClosed
    <3>1. Judgement = "open" /\ Judgement' \in {"success", "failure"}
      BY <2>3 DEF WorkClosed, Judgement
    <3>2. ASSUME Judgement' = "success", NEW id \in Ids
          PROVE  id \in recorded /\ Accepted(results[id])
      <4>1. AllAccepted'
        BY <2>3, <3>2 DEF WorkClosed, Judgement, Report
      <4>2. Accepted(results[id])
        BY <2>3, <4>1 DEF WorkClosed, AllAccepted, Accepted
      <4> QED
        BY <4>2 DEF Accepted, IInv, TableMatches, NotReached
    <3>3. Contract!Judge(Judgement')
      BY <2>3, <3>1, <3>2
      DEF WorkClosed, Contract!Judge, reportVars, Accepted, IInv, TypeOK,
          Results
    <3> QED
      BY <3>1, <3>3 DEF Contract!Next
  <2>4. CASE Finish
    <3>1. Judgement # "open" /\ Judgement' = Judgement
      BY <2>4, ReportStable DEF Finish, Judgement, executorVars
    <3>2. exitCode = "none" /\ exitCode' \in {"zero", "nonzero"}
      BY <2>4 DEF Finish, IInv, FilesMatch, TypeOK
    <3>3. exitCode' = "zero" => Judgement = "success"
      BY <2>4 DEF Finish, Judgement, Report, IInv, TypeOK, TroubleMatches
    <3>4. Contract!Return(exitCode')
      BY <2>4, <3>1, <3>2, <3>3 DEF Finish, Contract!Return, executorVars
    <3> QED
      BY <3>2, <3>4 DEF Contract!Next
  <2>5. ASSUME UNCHANGED <<results, recorded, exitCode>>,
               \/ {phase, phase'} \subseteq {"work", "closing"}
               \/ /\ {phase, phase'} \cap {"work", "closing"} = {}
                  /\ UNCHANGED <<errors, workExit>>
        PROVE  UNCHANGED Contract!vars
    BY <2>5, ReportStable DEF Contract!vars, Judgement
  <2>6. CASE \/ \E r \in Resources : Release(r) \/ ReleaseFails(r) \/ ReleaseDies(r)
             \/ \E r \in Resources : Acquire(r)
             \/ \E how \in {"ok", "failed"} : WorkEnds(how)
             \/ Signal \/ Deadline \/ WorkInterrupted
    BY <2>5, <2>6
    DEF Release, ReleaseFails, ReleaseDies, Acquire, Closes, WorkEnds, Signal,
        Deadline, WorkInterrupted, EndWork, Calling, Idle, IInv, TypeOK,
        CaseUnderWay, executorVars, reportVars
  <2>7. CASE \/ \E id \in Ids, s \in Settings :
                  RunCase(id, s.timeout, s.includesSetup, s.stop)
             \/ Ready \/ BodySucceeds \/ BodyFails \/ CaseTimeout
             \/ CaseInterrupted \/ CaseClosed
    BY <2>5, <2>7
    DEF RunCase, Ready, BodySucceeds, BodyFails, CaseTimeout, CaseInterrupted,
        CaseClosed, EndBody, Calling, Idle, IInv, CaseUnderWay, executorVars,
        reportVars
  <2>8. CASE \/ \E written \in BOOLEAN : WriteJson(written) \/ WriteJunit(written)
             \/ UNCHANGED vars
    BY <2>5, <2>8
    DEF WriteJson, WriteJunit, vars, executorVars, reportVars, IInv, TypeOK
  <2> QED
    BY <2>1, <2>2, <2>3, <2>4, <2>6, <2>7, <2>8 DEF Next, Client, Closing
<1> QED
  BY <1>1, <1>2, Invariance, PTL DEF Spec, ImplementsContract, Contract!Spec

-----------------------------------------------------------------------------
(* The programs.                                                           *)

\* What is expected of a runner at a step: the resources it holds, the cases it
\* has run, and those of them that it knows to have passed.
Label(held, done, known) == [held |-> held, done |-> done, known |-> known]

\* The environment a case of the API suite is judged in.
Environment(id) == {Reference(Fixture[id]), Candidate(Fixture[id])}

\* Step e of a runner k, taken with what a says, leaves what b says.
SetupFits(a, b) == b = a
AcquireFits(k, e, a, b) ==
  /\ k # "qualification" /\ e.resource \in Resources
  /\ k \in {"recovery", "stages"} => e.resource = TheCluster
  /\ \A r \in a.held : r[1] = e.resource[1]
  /\ b = Label(a.held \cup {e.resource}, a.done, a.known)
CaseFits(k, e, a, b) ==
  /\ k # "api" /\ e.includesSetup \in BOOLEAN /\ e.stop \in BOOLEAN
  /\ \E j \in DOMAIN Cases[k] :
       e.id = Cases[k][j] /\ a.done = {Cases[k][i] : i \in 1..(j - 1)}
  /\ k = "recovery" => a.done \subseteq a.known
  /\ k = "stages" => e.stop
  /\ b = Label(a.held, a.done \cup {e.id}, a.known)
BreakFits(k, e, a, b) ==
  /\ k = "recovery" /\ e.id \in a.done
  /\ b = Label(a.held, a.done, a.known \cup {e.id})
EvaluateFits(k, e, a, b) ==
  /\ k = "api" /\ e.id \in Ids /\ a.held = Environment(e.id)
  /\ b = Label(a.held, a.done \cup {e.id}, a.known)
DeploymentFits(k, e, a, b) ==
  /\ k = "api" /\ e.id \in Ids
  /\ b = Label(a.held, a.done \cup {e.id}, a.known)
LeaveFits(k, e, a, b) ==
  /\ k = "api" /\ a.held \subseteq e.resources
  /\ b = Label({}, a.done, a.known)

Ops == {"setup", "acquire", "case", "unlessPassed", "evaluate", "deployment", "leave"}

StepFits(k, e, a, b) ==
  /\ e.op \in Ops
  /\ e.op = "setup" => SetupFits(a, b)
  /\ e.op = "acquire" => AcquireFits(k, e, a, b)
  /\ e.op = "case" => CaseFits(k, e, a, b)
  /\ e.op = "unlessPassed" => BreakFits(k, e, a, b)
  /\ e.op = "evaluate" => EvaluateFits(k, e, a, b)
  /\ e.op = "deployment" => DeploymentFits(k, e, a, b)
  /\ e.op = "leave" => LeaveFits(k, e, a, b)

\* h labels the steps of the program p of runner k, and its end.
Labels(k, p, h) == \A i \in 1..Len(p) : StepFits(k, p[i], h[i], h[i + 1])

\* p is a program of runner k that leads from what a says to what b says.
Leads(k, p, a, b) ==
  /\ \E S : p \in Seq(S)
  /\ \E h : h[1] = a /\ h[Len(p) + 1] = b /\ Labels(k, p, h)

\* A part that is left out leads nowhere.
LEMMA EmptyLeads ==
  ASSUME NEW k, NEW a, NEW p, \E S : p \in Seq(S), Len(p) = 0
  PROVE  Leads(k, p, a, a)
<1>1. PICK h : h = [i \in 1..1 |-> a]
  OBVIOUS
<1>2. h[1] = a /\ h[Len(p) + 1] = a
  BY <1>1
<1>3. \A i \in 1..Len(p) : FALSE
  OBVIOUS
<1>. QED BY <1>2, <1>3 DEF Leads, Labels

\* One step.
LEMMA StepLeads ==
  ASSUME NEW k, NEW a, NEW b, NEW e, StepFits(k, e, a, b)
  PROVE  Leads(k, <<e>>, a, b)
<1>. PICK p : p = <<e>>
  OBVIOUS
<1>1. p \in Seq({e}) /\ Len(p) = 1 /\ p[1] = e
  OBVIOUS
<1>2. PICK h : h = [i \in 1..2 |-> IF i = 1 THEN a ELSE b]
  OBVIOUS
<1>3. h[1] = a /\ h[Len(p) + 1] = b
  BY <1>1, <1>2
<1>4. \A i \in 1..Len(p) : i = 1 /\ i + 1 = 2
  BY <1>1
<1>5. Labels(k, p, h)
  BY <1>1, <1>2, <1>4 DEF Labels
<1>. QED BY <1>1, <1>3, <1>5 DEF Leads

\* One part behind another one that leads to where it begins.
LEMMA ConcatLeads ==
  ASSUME NEW k, NEW p, NEW q, NEW a, NEW b, NEW c, Leads(k, p, a, b), Leads(k, q, b, c)
  PROVE  Leads(k, p \o q, a, c)
<1>. DEFINE r == p \o q
<1>1. /\ \E S : p \in Seq(S)
      /\ \E S : q \in Seq(S)
  BY DEF Leads
<1>2. /\ \E S : r \in Seq(S)
      /\ Len(p) \in Nat /\ Len(q) \in Nat
      /\ Len(r) = Len(p) + Len(q)
      /\ \A i \in 1..Len(p) : r[i] = p[i]
      /\ \A i \in 1..Len(q) : r[Len(p) + i] = q[i]
  BY <1>1, ConcatOfParts
<1>. HIDE DEF r
<1>3. PICK f : f[1] = a /\ f[Len(p) + 1] = b /\ Labels(k, p, f)
  BY DEF Leads
<1>4. PICK g : g[1] = b /\ g[Len(q) + 1] = c /\ Labels(k, q, g)
  BY DEF Leads
<1>. DEFINE h == [i \in 1..(Len(r) + 1) |-> IF i <= Len(p) THEN f[i] ELSE g[i - Len(p)]]
<1>5. /\ \A i \in 1..(Len(p) + 1) : h[i] = f[i]
      /\ \A i \in 1..(Len(q) + 1) : h[Len(p) + i] = g[i]
  <2>1. ASSUME NEW i \in 1..(Len(q) + 1) PROVE h[Len(p) + i] = g[i]
    <3>1. Len(p) + i \in 1..(Len(r) + 1) /\ ~(Len(p) + i <= Len(p)) /\ (Len(p) + i) - Len(p) = i
      BY <1>2
    <3>. QED BY <3>1
  <2>2. ASSUME NEW i \in 1..(Len(p) + 1) PROVE h[i] = f[i]
    <3>1. CASE i <= Len(p)
      <4>1. i \in 1..(Len(r) + 1)
        BY <1>2, <3>1
      <4>. QED BY <4>1, <3>1
    <3>2. CASE i = Len(p) + 1
      <4>1. 1 \in 1..(Len(q) + 1)
        BY <1>2
      <4>2. h[Len(p) + 1] = g[1]
        BY <4>1, <2>1
      <4>. QED BY <4>2, <3>2, <1>3, <1>4
    <3>. QED BY <3>1, <3>2, <1>2
  <2>. QED BY <2>1, <2>2
<1>. HIDE DEF h
<1>6. h[1] = a /\ h[Len(r) + 1] = c
  <2>1. 1 \in 1..(Len(p) + 1) /\ Len(q) + 1 \in 1..(Len(q) + 1)
    BY <1>2
  <2>2. Len(r) + 1 = Len(p) + (Len(q) + 1)
    BY <1>2
  <2>. QED BY <2>1, <2>2, <1>3, <1>4, <1>5
<1>7. ASSUME NEW i \in 1..Len(r) PROVE StepFits(k, r[i], h[i], h[i + 1])
  <2>1. CASE i <= Len(p)
    <3>1. i \in 1..Len(p) /\ i \in 1..(Len(p) + 1) /\ i + 1 \in 1..(Len(p) + 1)
      BY <2>1, <1>2
    <3>. QED BY <3>1, <1>2, <1>3, <1>5 DEF Labels
  <2>2. CASE ~(i <= Len(p))
    <3>1. PICK j \in 1..Len(q) : i = Len(p) + j
      <4>1. i - Len(p) \in 1..Len(q) /\ i = Len(p) + (i - Len(p))
        BY <2>2, <1>2
      <4>. QED BY <4>1
    <3>2. j \in 1..(Len(q) + 1) /\ j + 1 \in 1..(Len(q) + 1) /\ i + 1 = Len(p) + (j + 1)
      BY <3>1, <1>2
    <3>. QED BY <3>1, <3>2, <1>2, <1>4, <1>5 DEF Labels
  <2>. QED BY <2>1, <2>2
<1>8. Leads(k, r, a, c)
  BY <1>2, <1>6, <1>7 DEF Leads, Labels
<1>. QED BY <1>8 DEF r

\* A loop, each round of which leads to where the next one begins.
LEMMA LoopLeads ==
  ASSUME NEW k, NEW n \in Nat, NEW seqs, seqs = [i \in 1..n |-> seqs[i]], NEW L,
         \A i \in 1..n : Leads(k, seqs[i], L[i], L[i + 1])
  PROVE  Leads(k, FlattenSeq(seqs), L[1], L[n + 1])
<1>1. seqs \in Seq({seqs[i] : i \in 1..n}) /\ Len(seqs) = n
  <2>1. PICK T : T = {seqs[i] : i \in 1..n}
    OBVIOUS
  <2>2. seqs \in [1..n -> T]
    BY <2>1
  <2>3. seqs \in Seq(T)
    BY <2>2, SeqDef
  <2>4. Len(seqs) = n
    BY <2>2, <2>3, LenProperties
  <2>. QED BY <2>1, <2>3, <2>4
<1>2. CASE n = 0
  <2>1. FlattenSeq(seqs) = seqs
    BY <1>1, <1>2 DEF FlattenSeq
  <2>2. n + 1 = 1
    BY <1>2
  <2>3. Leads(k, seqs, L[1], L[1])
    BY <1>1, <1>2, EmptyLeads
  <2>. QED BY <2>1, <2>2, <2>3
<1>3. CASE n # 0
  <2>1. PICK U : \A i \in 1..n : seqs[i] \in Seq(U)
    BY CommonElements DEF Leads
  <2>. DEFINE G == [i \in 1..n |-> {p \in Seq(U) : Leads(k, p, L[1], L[i + 1])}]
  <2>2. seqs[1] \in G[1]
    <3>1. 1 \in 1..n /\ 1 + 1 = 2
      BY <1>3
    <3>. QED BY <3>1, <2>1
  <2>3. ASSUME NEW i \in 1..n, i # 1, NEW p \in G[i - 1] PROVE p \o seqs[i] \in G[i]
    <3>1. i - 1 \in 1..n /\ (i - 1) + 1 = i
      BY <2>3
    <3>2. p \in Seq(U) /\ Leads(k, p, L[1], L[i])
      BY <3>1
    <3>3. p \o seqs[i] \in Seq(U)
      BY <3>2, <2>1
    <3>4. Leads(k, p \o seqs[i], L[1], L[i + 1])
      BY <3>2, ConcatLeads
    <3>. QED BY <3>3, <3>4
  <2>4. \A p \in G[n] : Leads(k, p, L[1], L[n + 1])
    BY <1>3
  <2>5. FlattenSeq(seqs) \in G[n]
    <3>. HIDE DEF G
    <3>. QED BY <1>1, <1>3, <2>2, <2>3, FlattenReaches
  <2>. QED BY <2>4, <2>5
<1>. QED BY <1>2, <1>3

\* The first m identities of a selection.
Firsts(ids, m) == {ids[i] : i \in 1..m}

\* One more round of a loop over a selection.
LEMMA OneMore ==
  ASSUME NEW ids, NEW m \in Nat \ {0}
  PROVE  Firsts(ids, m) = Firsts(ids, m - 1) \cup {ids[m]}
<1>1. 1..m = 1..(m - 1) \cup {m}
  OBVIOUS
<1>. QED BY <1>1 DEF Firsts

\* The selections are sequences of identities, in which nothing is left out.
LEMMA Selections ==
  /\ \A k \in Kinds : /\ Len(Cases[k]) \in Nat /\ DOMAIN Cases[k] = 1..Len(Cases[k])
                      /\ \A i \in 1..Len(Cases[k]) : Cases[k][i] \in Ids
                      /\ ToSet(Cases[k]) = Firsts(Cases[k], Len(Cases[k]))
  /\ \A k \in Kinds \ {"api"} : Firsts(Cases[k], Len(Cases[k])) = Ids
  /\ Len(Deployments) \in Nat /\ DOMAIN Deployments = 1..Len(Deployments)
  /\ \A i \in 1..Len(Deployments) : Deployments[i] \in Ids
  /\ Len(Groups) \in Nat /\ DOMAIN Groups = 1..Len(Groups)
<1>1. ASSUME NEW k \in Kinds
      PROVE  /\ Len(Cases[k]) \in Nat /\ DOMAIN Cases[k] = 1..Len(Cases[k])
             /\ \A i \in 1..Len(Cases[k]) : Cases[k][i] \in Ids
             /\ ToSet(Cases[k]) = Firsts(Cases[k], Len(Cases[k]))
  <2>1. Cases[k] \in Seq(Ids)
    BY RunnersAssumption DEF Kinds
  <2>2. /\ Len(Cases[k]) \in Nat /\ DOMAIN Cases[k] = 1..Len(Cases[k])
        /\ \A i \in 1..Len(Cases[k]) : Cases[k][i] \in Ids
    BY <2>1, LenProperties, ElementOfSeq
  <2>. QED BY <2>2 DEF ToSet, Firsts
<1>2. ASSUME NEW k \in Kinds \ {"api"} PROVE Firsts(Cases[k], Len(Cases[k])) = Ids
  <2>1. Ids = ToSet(Cases[k])
    BY RunnersAssumption DEF Kinds
  <2>. QED BY <2>1, <1>1
<1>3. Deployments \in Seq(Ids) /\ Groups \in Seq(ToSet(Groups))
  BY RunnersAssumption
<1>4. /\ Len(Deployments) \in Nat /\ DOMAIN Deployments = 1..Len(Deployments)
      /\ \A i \in 1..Len(Deployments) : Deployments[i] \in Ids
  BY <1>3, LenProperties, ElementOfSeq
<1>5. Len(Groups) \in Nat /\ DOMAIN Groups = 1..Len(Groups)
  BY <1>3, LenProperties
<1>. QED BY <1>1, <1>2, <1>4, <1>5

LEMMA KindsAre == Kinds = {"api", "recovery", "stages", "qualification"}
BY RunnersAssumption DEF Kinds

\* Nothing is up, nothing has been run.
Unstarted == Label({}, {}, {})

\* A setup step leaves everything as it is.
LEMMA SetupLeads == ASSUME NEW k, NEW a PROVE Leads(k, Setup, a, a)
<1>. PICK e : e = [op |-> "setup"]
  OBVIOUS
<1>1. StepFits(k, e, a, a)
  BY DEF StepFits, SetupFits, Ops
<1>2. Leads(k, <<e>>, a, a)
  BY <1>1, StepLeads
<1>. QED BY <1>2 DEF Setup

\* An acquisition, with the step that waits for what was acquired.
LEMMA TakeLeads ==
  ASSUME NEW k, NEW r \in Resources, NEW held, NEW done, NEW known, k # "qualification",
         k \in {"recovery", "stages"} => r = TheCluster, \A s \in held : s[1] = r[1]
  PROVE  Leads(k, Take(r), Label(held, done, known), Label(held \cup {r}, done, known))
<1>. PICK e : e = [op |-> "acquire", resource |-> r]
  OBVIOUS
<1>. PICK a : a = Label(held, done, known)
  OBVIOUS
<1>. PICK b : b = Label(held \cup {r}, done, known)
  OBVIOUS
<1>1. AcquireFits(k, e, a, b)
  BY DEF AcquireFits, Label
<1>2. StepFits(k, e, a, b)
  BY <1>1 DEF StepFits, Ops
<1>3. Leads(k, <<e>>, a, b)
  BY <1>2, StepLeads
<1>4. Leads(k, <<e>> \o Setup, a, b)
  BY <1>3, SetupLeads, ConcatLeads
<1>. QED BY <1>4 DEF Take

\* A case, in the order of the selection.
LEMMA CaseLeads ==
  ASSUME NEW k \in Kinds \ {"api"}, NEW m \in 1..Len(Cases[k]), NEW held, NEW known,
         NEW includesSetup \in BOOLEAN, NEW stop \in BOOLEAN, k = "stages" => stop,
         k = "recovery" => Firsts(Cases[k], m - 1) \subseteq known
  PROVE  Leads(k, Case(Cases[k][m], includesSetup, stop),
               Label(held, Firsts(Cases[k], m - 1), known), Label(held, Firsts(Cases[k], m), known))
<1>. PICK e : e = [op |-> "case", id |-> Cases[k][m], includesSetup |-> includesSetup, stop |-> stop]
  OBVIOUS
<1>. PICK a : a = Label(held, Firsts(Cases[k], m - 1), known)
  OBVIOUS
<1>. PICK b : b = Label(held, Firsts(Cases[k], m), known)
  OBVIOUS
<1>1. m \in DOMAIN Cases[k] /\ m \in Nat \ {0}
  BY Selections
<1>2. Firsts(Cases[k], m) = Firsts(Cases[k], m - 1) \cup {e.id}
  BY <1>1, OneMore
<1>3. CaseFits(k, e, a, b)
  <2>1. a.held = held /\ a.done = Firsts(Cases[k], m - 1) /\ a.known = known
    BY DEF Label
  <2>2. e.id = Cases[k][m] /\ a.done = {Cases[k][i] : i \in 1..(m - 1)}
    BY <2>1 DEF Firsts
  <2>3. b = Label(a.held, a.done \cup {e.id}, a.known)
    BY <2>1, <1>2
  <2>4. e.includesSetup \in BOOLEAN /\ e.stop \in BOOLEAN /\ (k = "stages" => e.stop)
    OBVIOUS
  <2>. QED BY <2>1, <2>2, <2>3, <2>4, <1>1 DEF CaseFits
<1>4. StepFits(k, e, a, b)
  BY <1>3 DEF StepFits, Ops
<1>5. Leads(k, <<e>>, a, b)
  BY <1>4, StepLeads
<1>. QED BY <1>5 DEF Case

\* A runner works through its selection.
LEMMA EachLeads ==
  ASSUME NEW k \in Kinds, NEW seqs, seqs = [i \in DOMAIN Cases[k] |-> seqs[i]], NEW L,
         \A i \in 1..Len(Cases[k]) : Leads(k, seqs[i], L[i], L[i + 1])
  PROVE  Leads(k, FlattenSeq(seqs), L[1], L[Len(Cases[k]) + 1])
BY Selections, LoopLeads

\* The qualification suite runs every case, and holds nothing between them.
LEMMA QualificationLeads ==
  Leads("qualification", QualificationSuite, Unstarted, Label({}, Ids, {}))
<1>. DEFINE k == "qualification"
            n == Len(Cases[k])
            seqs == [i \in DOMAIN Cases[k] |-> QualificationCase(Cases[k][i])]
            L == [m \in 1..(n + 1) |-> Label({}, Firsts(Cases[k], m - 1), {})]
<1>0. k \in Kinds \ {"api"}
  BY KindsAre
<1>1. ASSUME NEW i \in 1..n PROVE Leads(k, seqs[i], L[i], L[i + 1])
  <2>1. i \in 1..(n + 1) /\ i + 1 \in 1..(n + 1) /\ (i + 1) - 1 = i /\ i \in DOMAIN Cases[k]
    BY <1>0, Selections
  <2>. QED BY <2>1, <1>0, CaseLeads DEF QualificationCase
<1>2. L[1] = Unstarted /\ L[n + 1] = Label({}, Ids, {})
  <2>1. 1 \in 1..(n + 1) /\ n + 1 \in 1..(n + 1) /\ (n + 1) - 1 = n /\ 1 - 1 = 0
    BY <1>0, Selections
  <2>2. Firsts(Cases[k], 0) = {}
    BY DEF Firsts
  <2>. QED BY <2>1, <2>2, <1>0, Selections DEF Unstarted
<1>3. Leads(k, FlattenSeq(seqs), Unstarted, Label({}, Ids, {}))
  <2>1. seqs = [i \in DOMAIN Cases[k] |-> seqs[i]]
    OBVIOUS
  <2>. HIDE DEF seqs, L, k
  <2>2. Leads(k, FlattenSeq(seqs), L[1], L[n + 1])
    BY <2>1, <1>0, <1>1, EachLeads
  <2>. QED BY <2>2, <1>2
<1>4. Leads(k, Each(QualificationCase, Cases[k]), Unstarted, Label({}, Ids, {}))
  BY <1>3 DEF Each
<1>. QED BY <1>4, SetupLeads, ConcatLeads DEF QualificationSuite

\* The one environment of the stages and of the recovery suite comes up first.
LEMMA TheClusterLeads ==
  ASSUME NEW k \in {"recovery", "stages"}
  PROVE  Leads(k, Setup \o Take(TheCluster) \o Setup, Unstarted, Label({TheCluster}, {}, {}))
<1>1. Leads(k, Take(TheCluster), Unstarted, Label({TheCluster}, {}, {}))
  <2>1. Leads(k, Take(TheCluster), Label({}, {}, {}), Label({} \cup {TheCluster}, {}, {}))
    BY ResourcesAssumption, TakeLeads
  <2>2. {} \cup {TheCluster} = {TheCluster}
    OBVIOUS
  <2>. QED BY <2>1, <2>2 DEF Unstarted
<1>. QED BY <1>1, SetupLeads, ConcatLeads

\* The stages run one after the other in the same environment, each of them the
\* end of the work if it fails.
LEMMA StagesLead == Leads("stages", StagedSuite, Unstarted, Label({TheCluster}, Ids, {}))
<1>. DEFINE k == "stages"
            n == Len(Cases[k])
            seqs == [i \in DOMAIN Cases[k] |-> Stage(Cases[k][i])]
            L == [m \in 1..(n + 1) |-> Label({TheCluster}, Firsts(Cases[k], m - 1), {})]
<1>0. k \in Kinds \ {"api"}
  BY KindsAre
<1>1. ASSUME NEW i \in 1..n PROVE Leads(k, seqs[i], L[i], L[i + 1])
  <2>1. i \in 1..(n + 1) /\ i + 1 \in 1..(n + 1) /\ (i + 1) - 1 = i /\ i \in DOMAIN Cases[k]
    BY <1>0, Selections
  <2>. QED BY <2>1, <1>0, CaseLeads DEF Stage
<1>2. L[1] = Label({TheCluster}, {}, {}) /\ L[n + 1] = Label({TheCluster}, Ids, {})
  <2>1. 1 \in 1..(n + 1) /\ n + 1 \in 1..(n + 1) /\ (n + 1) - 1 = n /\ 1 - 1 = 0
    BY <1>0, Selections
  <2>2. Firsts(Cases[k], 0) = {}
    BY DEF Firsts
  <2>. QED BY <2>1, <2>2, <1>0, Selections
<1>3. Leads(k, FlattenSeq(seqs), Label({TheCluster}, {}, {}), Label({TheCluster}, Ids, {}))
  <2>1. seqs = [i \in DOMAIN Cases[k] |-> seqs[i]]
    OBVIOUS
  <2>. HIDE DEF seqs, L, k
  <2>2. Leads(k, FlattenSeq(seqs), L[1], L[n + 1])
    BY <2>1, <1>0, <1>1, EachLeads
  <2>. QED BY <2>2, <1>2
<1>4. Leads(k, Each(Stage, Cases[k]), Label({TheCluster}, {}, {}), Label({TheCluster}, Ids, {}))
  BY <1>3 DEF Each
<1>. QED BY <1>4, TheClusterLeads, ConcatLeads DEF StagedSuite

\* The recovery suite looks at each result before it goes on, so that all earlier
\* cases are known to have passed when a case is run.
LEMMA RecoveryLeads == Leads("recovery", RecoverySuite, Unstarted, Label({TheCluster}, Ids, Ids))
<1>. DEFINE k == "recovery"
            n == Len(Cases[k])
            seqs == [i \in DOMAIN Cases[k] |-> RecoveryCase(Cases[k][i])]
            Before(m) == Firsts(Cases[k], m - 1)
            L == [m \in 1..(n + 1) |-> Label({TheCluster}, Before(m), Before(m))]
<1>0. k \in Kinds \ {"api"}
  BY KindsAre
<1>1. ASSUME NEW i \in 1..n PROVE Leads(k, seqs[i], L[i], L[i + 1])
  <2>1. /\ i \in 1..(n + 1) /\ i + 1 \in 1..(n + 1) /\ (i + 1) - 1 = i /\ i \in DOMAIN Cases[k]
        /\ i \in Nat \ {0}
    BY <1>0, Selections
  <2>. PICK id : id = Cases[k][i]
    OBVIOUS
  <2>. PICK before : before = Firsts(Cases[k], i - 1)
    OBVIOUS
  <2>2. Firsts(Cases[k], i) = before \cup {id}
    BY <2>1, OneMore
  <2>3. /\ L[i] = Label({TheCluster}, before, before)
        /\ L[i + 1] = Label({TheCluster}, before \cup {id}, before \cup {id})
    BY <2>1, <2>2
  <2>4. Leads(k, Case(id, FALSE, FALSE), L[i], Label({TheCluster}, before \cup {id}, before))
    <3>1. Leads(k, Case(Cases[k][i], FALSE, FALSE),
                Label({TheCluster}, Firsts(Cases[k], i - 1), before),
                Label({TheCluster}, Firsts(Cases[k], i), before))
      BY <1>0, CaseLeads
    <3>. QED BY <3>1, <2>2, <2>3
  <2>. PICK e : e = [op |-> "unlessPassed", id |-> id]
    OBVIOUS
  <2>5. BreakFits(k, e, Label({TheCluster}, before \cup {id}, before), L[i + 1])
    BY <2>3 DEF BreakFits, Label
  <2>6. Leads(k, <<e>>, Label({TheCluster}, before \cup {id}, before), L[i + 1])
    BY <2>5, StepLeads DEF StepFits, Ops
  <2>7. Leads(k, Case(id, FALSE, FALSE) \o <<e>>, L[i], L[i + 1])
    BY <2>4, <2>6, ConcatLeads
  <2>8. seqs[i] = Case(id, FALSE, FALSE) \o <<e>>
    BY <2>1 DEF RecoveryCase
  <2>. QED BY <2>7, <2>8
<1>2. L[1] = Label({TheCluster}, {}, {}) /\ L[n + 1] = Label({TheCluster}, Ids, Ids)
  <2>1. 1 \in 1..(n + 1) /\ n + 1 \in 1..(n + 1) /\ (n + 1) - 1 = n /\ 1 - 1 = 0
    BY <1>0, Selections
  <2>2. Firsts(Cases[k], 0) = {}
    BY DEF Firsts
  <2>. QED BY <2>1, <2>2, <1>0, Selections
<1>3. Leads(k, FlattenSeq(seqs), Label({TheCluster}, {}, {}), Label({TheCluster}, Ids, Ids))
  <2>1. seqs = [i \in DOMAIN Cases[k] |-> seqs[i]]
    OBVIOUS
  <2>. HIDE DEF seqs, L, k
  <2>2. Leads(k, FlattenSeq(seqs), L[1], L[n + 1])
    BY <2>1, <1>0, <1>1, EachLeads
  <2>. QED BY <2>2, <1>2
<1>4. Leads(k, Each(RecoveryCase, Cases[k]), Label({TheCluster}, {}, {}), Label({TheCluster}, Ids, Ids))
  BY <1>3 DEF Each
<1>. QED BY <1>4, TheClusterLeads, ConcatLeads DEF RecoverySuite

-----------------------------------------------------------------------------
(* The program of the API suite.                                           *)

\* The cases of one fixture among the first m of the selection.
Judged(fixture, m) == {Cases["api"][i] : i \in {j \in 1..m : Fixture[Cases["api"][j]] = fixture}}

\* The identities that a fixture's group records.
Share(fixture) ==
  {id \in DOMAIN Fixture : Fixture[id] = fixture}
  \cup (IF fixture = "core" THEN ToSet(Deployments) ELSE {})

LEMMA ApiSelection ==
  /\ "api" \in Kinds /\ DOMAIN Fixture = Firsts(Cases["api"], Len(Cases["api"]))
  /\ DOMAIN Fixture \subseteq Ids
  /\ \A id \in DOMAIN Fixture : Fixture[id] \in ToSet(Groups)
<1>1. "api" \in Kinds
  BY KindsAre
<1>2. DOMAIN Fixture = ToSet(Cases["api"]) /\ \A id \in DOMAIN Fixture : Fixture[id] \in ToSet(Groups)
  BY RunnersAssumption
<1>3. \A i \in 1..Len(Cases["api"]) : Cases["api"][i] \in Ids
  BY <1>1, Selections
<1>4. ToSet(Cases["api"]) = Firsts(Cases["api"], Len(Cases["api"]))
  BY <1>1, Selections
<1>. QED BY <1>1, <1>2, <1>3, <1>4 DEF Firsts

\* The cases of a fixture are judged with its reference and candidate up.
LEMMA EvaluationLeads ==
  ASSUME NEW fixture, NEW done
  PROVE  LET held == {Reference(fixture), Candidate(fixture)}
         IN  Leads("api", EvaluateGroup(fixture), Label(held, done, {}),
                   Label(held, done \cup {id \in DOMAIN Fixture : Fixture[id] = fixture}, {}))
<1>. DEFINE held == {Reference(fixture), Candidate(fixture)}
            n == Len(Cases["api"])
            seqs == [i \in DOMAIN Cases["api"] |->
                       IF Fixture[Cases["api"][i]] = fixture THEN Evaluate(Cases["api"][i]) ELSE <<>>]
            L == [m \in 1..(n + 1) |-> Label(held, done \cup Judged(fixture, m - 1), {})]
<1>1. ASSUME NEW i \in 1..n PROVE Leads("api", seqs[i], L[i], L[i + 1])
  <2>. PICK id : id = Cases["api"][i]
    OBVIOUS
  <2>1. /\ i \in 1..(n + 1) /\ i + 1 \in 1..(n + 1) /\ (i + 1) - 1 = i /\ i \in DOMAIN Cases["api"]
        /\ i \in Nat \ {0}
    BY ApiSelection, Selections
  <2>. PICK before : before = done \cup Judged(fixture, i - 1)
    OBVIOUS
  <2>2. 1..i = 1..(i - 1) \cup {i}
    BY <2>1
  <2>3. CASE Fixture[id] = fixture
    <3>1. done \cup Judged(fixture, i) = before \cup {id}
      BY <2>2, <2>3 DEF Judged
    <3>2. L[i] = Label(held, before, {}) /\ L[i + 1] = Label(held, before \cup {id}, {})
      BY <2>1, <3>1
    <3>3. held = Environment(id) /\ id \in Ids
      BY <2>3, ApiSelection, Selections DEF Environment
    <3>. PICK e : e = [op |-> "evaluate", id |-> id]
      OBVIOUS
    <3>4. EvaluateFits("api", e, L[i], L[i + 1])
      <4>1. L[i].held = held /\ L[i].done = before /\ L[i].known = {}
        BY <3>2 DEF Label
      <4>2. e.id = id /\ id \in Ids /\ L[i].held = Environment(id)
        BY <3>3, <4>1
      <4>3. L[i + 1] = Label(L[i].held, L[i].done \cup {e.id}, L[i].known)
        BY <3>2, <4>1, <4>2
      <4>. HIDE DEF L, held
      <4>. QED BY <4>2, <4>3 DEF EvaluateFits
    <3>5. Leads("api", <<e>>, L[i], L[i + 1])
      BY <3>4, StepLeads DEF StepFits, Ops
    <3>6. seqs[i] = <<e>>
      BY <2>1, <2>3 DEF Evaluate
    <3>. QED BY <3>5, <3>6
  <2>4. CASE Fixture[id] # fixture
    <3>1. Judged(fixture, i) = Judged(fixture, i - 1)
      BY <2>2, <2>4 DEF Judged
    <3>2. L[i + 1] = L[i] /\ seqs[i] = <<>>
      BY <2>1, <2>4, <3>1
    <3>3. <<>> \in Seq({}) /\ Len(<<>>) = 0
      OBVIOUS
    <3>. QED BY <3>2, <3>3, EmptyLeads
  <2>. QED BY <2>3, <2>4
<1>2. /\ L[1] = Label(held, done, {})
      /\ L[n + 1] = Label(held, done \cup {id \in DOMAIN Fixture : Fixture[id] = fixture}, {})
  <2>1. 1 \in 1..(n + 1) /\ n + 1 \in 1..(n + 1) /\ (n + 1) - 1 = n /\ 1 - 1 = 0
    BY ApiSelection, Selections
  <2>2. Judged(fixture, 0) = {}
    BY DEF Judged
  <2>3. Judged(fixture, n) = {id \in DOMAIN Fixture : Fixture[id] = fixture}
    BY ApiSelection DEF Judged, Firsts
  <2>. QED BY <2>1, <2>2, <2>3
<1>3. Leads("api", FlattenSeq(seqs), L[1], L[n + 1])
  <2>1. seqs = [i \in DOMAIN Cases["api"] |-> seqs[i]]
    OBVIOUS
  <2>. HIDE DEF seqs, L
  <2>. QED BY <2>1, ApiSelection, <1>1, EachLeads
<1>4. EvaluateGroup(fixture) = FlattenSeq(seqs)
  BY DEF EvaluateGroup, Each
<1>. QED BY <1>2, <1>3, <1>4

\* The deployment checks, recorded one after the other.
LEMMA DeploymentsLead ==
  ASSUME NEW held, NEW done
  PROVE  Leads("api", Each(Deployment, Deployments), Label(held, done, {}),
               Label(held, done \cup ToSet(Deployments), {}))
<1>. DEFINE n == Len(Deployments)
            seqs == [i \in DOMAIN Deployments |-> Deployment(Deployments[i])]
            L == [m \in 1..(n + 1) |-> Label(held, done \cup Firsts(Deployments, m - 1), {})]
<1>1. ASSUME NEW i \in 1..n PROVE Leads("api", seqs[i], L[i], L[i + 1])
  <2>. PICK id : id = Deployments[i]
    OBVIOUS
  <2>1. /\ i \in 1..(n + 1) /\ i + 1 \in 1..(n + 1) /\ (i + 1) - 1 = i /\ i \in DOMAIN Deployments
        /\ i \in Nat \ {0}
    BY Selections
  <2>. PICK before : before = done \cup Firsts(Deployments, i - 1)
    OBVIOUS
  <2>2. Firsts(Deployments, i) = Firsts(Deployments, i - 1) \cup {id}
    BY <2>1, OneMore
  <2>3. L[i] = Label(held, before, {}) /\ L[i + 1] = Label(held, before \cup {id}, {})
    <3>1. done \cup Firsts(Deployments, i) = before \cup {id}
      BY <2>2
    <3>. QED BY <2>1, <3>1
  <2>. PICK e : e = [op |-> "deployment", id |-> id]
    OBVIOUS
  <2>4. DeploymentFits("api", e, L[i], L[i + 1])
    <3>1. L[i].held = held /\ L[i].done = before /\ L[i].known = {}
      BY <2>3 DEF Label
    <3>2. e.id = id /\ id \in Ids
      BY Selections
    <3>3. L[i + 1] = Label(L[i].held, L[i].done \cup {e.id}, L[i].known)
      BY <2>3, <3>1, <3>2
    <3>. HIDE DEF L
    <3>. QED BY <3>2, <3>3 DEF DeploymentFits
  <2>5. Leads("api", <<e>>, L[i], L[i + 1])
    BY <2>4, StepLeads DEF StepFits, Ops
  <2>6. seqs[i] = <<e>>
    BY <2>1 DEF Deployment
  <2>. QED BY <2>5, <2>6
<1>2. L[1] = Label(held, done, {}) /\ L[n + 1] = Label(held, done \cup ToSet(Deployments), {})
  <2>1. 1 \in 1..(n + 1) /\ n + 1 \in 1..(n + 1) /\ (n + 1) - 1 = n /\ 1 - 1 = 0
    BY Selections
  <2>2. Firsts(Deployments, 0) = {} /\ Firsts(Deployments, n) = ToSet(Deployments)
    BY Selections DEF Firsts, ToSet
  <2>. QED BY <2>1, <2>2
<1>3. Leads("api", FlattenSeq(seqs), L[1], L[n + 1])
  <2>1. n \in Nat /\ seqs = [i \in 1..n |-> seqs[i]]
    BY Selections
  <2>. HIDE DEF seqs, L, n
  <2>. QED BY <2>1, <1>1, LoopLeads
<1>. QED BY <1>2, <1>3 DEF Each

\* A group brings its fixture's two processes up, records its share with both of
\* them up, and takes them down.
LEMMA GroupLeads ==
  ASSUME NEW fixture \in ToSet(Groups), NEW done
  PROVE  Leads("api", Group(fixture), Label({}, done, {}), Label({}, done \cup Share(fixture), {}))
<1>. DEFINE held == {Reference(fixture), Candidate(fixture)}
            mine == {id \in DOMAIN Fixture : Fixture[id] = fixture}
<1>1. CASE \A id \in DOMAIN Fixture : Fixture[id] # fixture
  <2>1. fixture = "core" => ToSet(Deployments) = {}
    <3>1. fixture = "core" => Deployments = <<>>
      BY <1>1, RunnersAssumption
    <3>. QED BY <3>1 DEF ToSet
  <2>2. done \cup Share(fixture) = done
    BY <1>1, <2>1 DEF Share
  <2>3. Group(fixture) = <<>>
    BY <1>1 DEF Group
  <2>4. <<>> \in Seq({}) /\ Len(<<>>) = 0
    OBVIOUS
  <2>. QED BY <2>2, <2>3, <2>4, EmptyLeads
<1>2. CASE \E id \in DOMAIN Fixture : Fixture[id] = fixture
  <2>. DEFINE checks == IF fixture = "core" THEN Each(Deployment, Deployments) ELSE <<>>
              checked == done \cup (IF fixture = "core" THEN ToSet(Deployments) ELSE {})
  <2>1. Reference(fixture) \in Resources /\ Candidate(fixture) \in Resources
    BY ResourcesAssumption
  <2>2. Leads("api", Take(Reference(fixture)), Label({}, done, {}),
              Label({Reference(fixture)}, done, {}))
    <3>1. {} \cup {Reference(fixture)} = {Reference(fixture)}
      OBVIOUS
    <3>2. Leads("api", Take(Reference(fixture)), Label({}, done, {}),
                Label({} \cup {Reference(fixture)}, done, {}))
      BY <2>1, TakeLeads
    <3>. QED BY <3>1, <3>2
  <2>3. Leads("api", Take(Candidate(fixture)), Label({Reference(fixture)}, done, {}),
              Label(held, done, {}))
    <3>1. {Reference(fixture)} \cup {Candidate(fixture)} = held
      OBVIOUS
    <3>2. Reference(fixture)[1] = Candidate(fixture)[1]
      BY DEF Reference, Candidate
    <3>3. Leads("api", Take(Candidate(fixture)), Label({Reference(fixture)}, done, {}),
                Label({Reference(fixture)} \cup {Candidate(fixture)}, done, {}))
      BY <2>1, <3>2, TakeLeads
    <3>. QED BY <3>1, <3>3
  <2>4. Leads("api", checks, Label(held, done, {}), Label(held, checked, {}))
    <3>1. CASE fixture = "core"
      BY <3>1, DeploymentsLead
    <3>2. CASE fixture # "core"
      <4>1. checked = done /\ checks = <<>> /\ <<>> \in Seq({}) /\ Len(<<>>) = 0
        BY <3>2
      <4>. QED BY <4>1, EmptyLeads
    <3>. QED BY <3>1, <3>2
  <2>5. Leads("api", EvaluateGroup(fixture), Label(held, checked, {}),
              Label(held, checked \cup mine, {}))
    BY EvaluationLeads
  <2>6. Leads("api", Leave(fixture), Label(held, checked \cup mine, {}),
              Label({}, checked \cup mine, {}))
    <3>. PICK e : e = [op |-> "leave", resources |-> held]
      OBVIOUS
    <3>1. LeaveFits("api", e, Label(held, checked \cup mine, {}), Label({}, checked \cup mine, {}))
      BY DEF LeaveFits, Label
    <3>2. Leads("api", <<e>>, Label(held, checked \cup mine, {}), Label({}, checked \cup mine, {}))
      <4>1. StepFits("api", e, Label(held, checked \cup mine, {}), Label({}, checked \cup mine, {}))
        BY <3>1 DEF StepFits, Ops
      <4>. QED BY <4>1, StepLeads
    <3>. QED BY <3>2 DEF Leave
  <2>7. Group(fixture) = Setup \o Take(Reference(fixture)) \o Setup \o Take(Candidate(fixture))
                         \o checks \o Setup \o EvaluateGroup(fixture) \o Leave(fixture)
    BY <1>2 DEF Group
  <2>8. checked \cup mine = done \cup Share(fixture)
    BY DEF Share
  <2>. HIDE DEF checks, checked, held, mine
  <2>. QED BY <2>2, <2>3, <2>4, <2>5, <2>6, <2>7, <2>8, SetupLeads, ConcatLeads
<1>. QED BY <1>1, <1>2

\* The API suite records every case and every check, and is left with nothing up.
LEMMA ApiLeads == Leads("api", ApiSuite, Unstarted, Label({}, Ids, {}))
<1>. DEFINE n == Len(Groups)
            seqs == [i \in DOMAIN Groups |-> Group(Groups[i])]
            L == [m \in 1..(n + 1) |-> Label({}, UNION {Share(Groups[i]) : i \in 1..(m - 1)}, {})]
<1>1. ASSUME NEW i \in 1..n PROVE Leads("api", seqs[i], L[i], L[i + 1])
  <2>1. /\ i \in 1..(n + 1) /\ i + 1 \in 1..(n + 1) /\ (i + 1) - 1 = i /\ i \in DOMAIN Groups
        /\ i \in Nat \ {0}
    BY Selections
  <2>. PICK before : before = UNION {Share(Groups[j]) : j \in 1..(i - 1)}
    OBVIOUS
  <2>2. UNION {Share(Groups[j]) : j \in 1..i} = before \cup Share(Groups[i])
    <3>1. 1..i = 1..(i - 1) \cup {i}
      BY <2>1
    <3>. QED BY <3>1
  <2>3. L[i] = Label({}, before, {}) /\ L[i + 1] = Label({}, before \cup Share(Groups[i]), {})
    BY <2>1, <2>2
  <2>4. Groups[i] \in ToSet(Groups)
    BY <2>1 DEF ToSet
  <2>. QED BY <2>1, <2>3, <2>4, GroupLeads
<1>2. L[1] = Unstarted /\ L[n + 1] = Label({}, Ids, {})
  <2>1. 1 \in 1..(n + 1) /\ n + 1 \in 1..(n + 1) /\ (n + 1) - 1 = n /\ 1 - 1 = 0
    BY Selections
  <2>2. UNION {Share(Groups[i]) : i \in 1..0} = {}
    OBVIOUS
  <2>3. UNION {Share(Groups[i]) : i \in 1..n} = Ids
    <3>1. Ids = DOMAIN Fixture \cup ToSet(Deployments)
      BY RunnersAssumption
    <3>2. ASSUME NEW f \in ToSet(Groups) PROVE \E i \in 1..n : Groups[i] = f
      BY Selections DEF ToSet
    <3>3. ASSUME NEW id \in DOMAIN Fixture PROVE \E i \in 1..n : id \in Share(Groups[i])
      BY <3>2, ApiSelection DEF Share
    <3>4. ASSUME NEW id \in ToSet(Deployments) PROVE \E i \in 1..n : id \in Share(Groups[i])
      <4>1. Deployments # <<>>
        BY DEF ToSet
      <4>2. \E c \in DOMAIN Fixture : Fixture[c] = "core"
        BY <4>1, RunnersAssumption
      <4>. QED BY <4>2, <3>2, ApiSelection DEF Share
    <3>5. \A i \in 1..n : Share(Groups[i]) \subseteq Ids
      BY <3>1 DEF Share
    <3>. QED BY <3>1, <3>3, <3>4, <3>5
  <2>. QED BY <2>1, <2>2, <2>3 DEF Unstarted
<1>3. Leads("api", FlattenSeq(seqs), L[1], L[n + 1])
  <2>1. n \in Nat /\ seqs = [i \in 1..n |-> seqs[i]]
    BY Selections
  <2>. HIDE DEF seqs, L, n
  <2>. QED BY <2>1, <1>1, LoopLeads
<1>4. Leads("api", Each(Group, Groups), Unstarted, Label({}, Ids, {}))
  BY <1>2, <1>3 DEF Each
<1>. QED BY <1>4, SetupLeads, ConcatLeads DEF ApiSuite

\* h labels the whole program p of runner k, from nothing to every identity.
LabelsAll(k, p, h) ==
  /\ \E S : p \in Seq(S)
  /\ h[1] = Unstarted /\ h[Len(p) + 1].done = Ids /\ Labels(k, p, h)

\* Every runner's program brings up what it needs before it needs it, one
\* environment at a time, runs its cases in the order of the selection, and has
\* been through all of them at its end.
THEOREM ProgramsAreLabelled ==
  /\ \E h : LabelsAll("api", ApiSuite, h)
  /\ \E h : LabelsAll("recovery", RecoverySuite, h)
  /\ \E h : LabelsAll("stages", StagedSuite, h)
  /\ \E h : LabelsAll("qualification", QualificationSuite, h)
<1>1. ASSUME NEW k, NEW p, NEW held, NEW known, Leads(k, p, Unstarted, Label(held, Ids, known))
      PROVE  \E h : LabelsAll(k, p, h)
  <2>1. PICK h : /\ h[1] = Unstarted /\ h[Len(p) + 1] = Label(held, Ids, known)
                 /\ Labels(k, p, h)
    BY <1>1 DEF Leads
  <2>2. h[Len(p) + 1].done = Ids
    BY <2>1 DEF Label
  <2>3. \E S : p \in Seq(S)
    BY <1>1 DEF Leads
  <2>. QED BY <2>1, <2>2, <2>3 DEF LabelsAll
<1>. QED BY <1>1, ApiLeads, RecoveryLeads, StagesLead, QualificationLeads

-----------------------------------------------------------------------------
(* The run follows the labels.                                             *)

LabelsOf(k, p) == CHOOSE h : LabelsAll(k, p, h)
H == LabelsOf(kind, Program)

\* What is expected at the runner's next step.
Here == H[pos]

\* What is up is what the step expects, but for what has been taken down already
\* when a fixture's scope is left; a case's cluster is its own.
OwnersMatch ==
  /\ kind = "api" /\ phase = "work" =>
       /\ Owned \subseteq Here.held
       /\ Owned = Here.held \/ (pos <= Len(Program) /\ Step.op = "leave")
  /\ kind \in {"recovery", "stages"} => Owned \subseteq {TheCluster}
  /\ kind = "qualification" => \A r \in Owned : owner[r] = "case" /\ r = Cluster(cur)
  /\ \A r, s \in Owned : r[1] = s[1]

\* A case of the API suite is judged by the step that is its own.
EvaluationMatches ==
  /\ kind = "api" => stage = "idle"
  /\ evaluating # Nothing /\ phase = "work" =>
       kind = "api" /\ pos <= Len(Program) /\ Step.op = "evaluate" /\ Step.id = evaluating

\* The cases the step expects to have been run were run, and those it knows to
\* have passed did; or the recovery suite broke off after one that did not.
OnCourse ==
  ran = Here.done /\ \A id \in Here.known : id \in recorded /\ results[id].status = "pass"
BrokeOff ==
  /\ kind = "recovery" /\ pos = Len(Program) + 1
  /\ \E id \in recorded : results[id].status # "pass"

\* Where a stage's failure is the end, all stages before this one have passed.
StagesMatch ==
  kind = "stages" /\ phase = "work" =>
    /\ \A id \in ran : id = cur \/ results[id].status = "pass"
    /\ stage # "idle" => settings.stop

RunnersIInv ==
  /\ IInv /\ RunnersTypeOK
  /\ OwnersMatch /\ EvaluationMatches /\ (OnCourse \/ BrokeOff) /\ StagesMatch
  /\ NoCascade /\ NothingSkipped

\* The labels stay while the runner is the same.
LEMMA LabelsStay ==
  ASSUME kind' = kind
  PROVE  H' = H /\ Program' = Program /\ Kinds' = Kinds
<1>1. Program' = Program
  BY DEF Program
<1>2. H' = H
  <2>1. PICK p : p = Program
    OBVIOUS
  <2>2. p = Program'
    BY <1>1, <2>1
  <2>3. H = LabelsOf(kind, p)
    BY <2>1 DEF H
  <2>4. H' = LabelsOf(kind, p)
    BY <2>2 DEF H
  <2>. QED BY <2>3, <2>4
<1>3. Kinds' = Kinds
  BY DEF Kinds
<1>. QED BY <1>1, <1>2, <1>3

LEMMA ProgramIsLabelled ==
  ASSUME kind \in Kinds
  PROVE  LabelsAll(kind, Program, H) /\ Len(Program) \in Nat
<1>1. \E h : LabelsAll(kind, Program, h)
  <2>1. CASE kind = "api"
    BY <2>1, ProgramsAreLabelled DEF Program
  <2>2. CASE kind = "recovery"
    BY <2>2, ProgramsAreLabelled DEF Program
  <2>3. CASE kind = "stages"
    BY <2>3, ProgramsAreLabelled DEF Program
  <2>4. CASE kind = "qualification"
    BY <2>4, ProgramsAreLabelled DEF Program
  <2>. QED BY <2>1, <2>2, <2>3, <2>4, KindsAre
<1>2. LabelsAll(kind, Program, H)
  BY <1>1 DEF H, LabelsOf
<1>3. Len(Program) \in Nat
  <2>1. PICK p : p = Program
    OBVIOUS
  <2>2. PICK S : p \in Seq(S)
    BY <1>2, <2>1 DEF LabelsAll
  <2>3. Len(p) \in Nat
    BY <2>2, LenProperties
  <2>. QED BY <2>1, <2>3
<1>. QED BY <1>2, <1>3

\* At a step, the expectations are met and the step fits them.
LEMMA OnTheWay ==
  ASSUME RunnersIInv, pos <= Len(Program)
  PROVE  /\ OnCourse /\ StepFits(kind, Step, Here, H[pos + 1])
         /\ Len(Program) \in Nat /\ pos \in 1..Len(Program) /\ pos + 1 \in 1..(Len(Program) + 1)
<1>1. LabelsAll(kind, Program, H) /\ Len(Program) \in Nat
  BY ProgramIsLabelled DEF RunnersIInv, RunnersTypeOK
<1>2. pos \in 1..Len(Program) /\ pos + 1 \in 1..(Len(Program) + 1) /\ pos # Len(Program) + 1
  BY <1>1 DEF RunnersIInv, RunnersTypeOK
<1>3. OnCourse
  BY <1>2 DEF RunnersIInv, BrokeOff
<1>4. StepFits(kind, Step, Here, H[pos + 1])
  <2>1. PICK p : p = Program
    OBVIOUS
  <2>2. Labels(kind, p, H) /\ pos \in 1..Len(p)
    BY <1>1, <1>2, <2>1 DEF LabelsAll
  <2>3. StepFits(kind, p[pos], H[pos], H[pos + 1])
    BY <2>2 DEF Labels
  <2>. QED BY <2>1, <2>3 DEF Step, Here
<1>. QED BY <1>1, <1>2, <1>3, <1>4

\* A status "pass" is a recorded one.
LEMMA PassIsRecorded ==
  ASSUME IInv, NEW id \in Ids, results[id].status = "pass"
  PROVE  id \in recorded
BY DEF IInv, TableMatches, NotReached

\* What is recorded is never changed or taken back.
EntriesStay == \A id \in recorded : id \in recorded' /\ results'[id] = results[id]

\* A step besides the program: it starts nothing, takes nothing, and of the
\* stages it lets only one go on that has passed.
Aside ==
  /\ UNCHANGED <<kind, pos, evaluating, ran>> /\ deployed' \in BOOLEAN
  /\ phase' = "work" => phase = "work"
  /\ workExit' = "ok" => workExit = "ok"
  /\ \A r \in Resources : owner'[r] = owner[r] \/ owner'[r] = "released"
  /\ kind = "api" /\ phase' = "work" =>
       owner' = owner \/ (pos <= Len(Program) /\ Step.op = "leave")
  /\ kind = "api" => stage' = stage
  /\ cur' = cur \/ \A r \in Resources : owner[r] # "case"
  /\ kind = "stages" /\ phase' = "work" =>
       /\ settings' = settings /\ (stage' # "idle" => stage # "idle")
       /\ cur' = cur \/ results'[cur].status = "pass"

\* Such a step keeps the invariant.
LEMMA AsideKeeps ==
  ASSUME RunnersIInv, IInv', EntriesStay, Aside
  PROVE  RunnersIInv'
<1>0. H' = H /\ Program' = Program /\ Kinds' = Kinds /\ Here' = Here /\ Step' = Step
  <2>1. H' = H /\ Program' = Program /\ Kinds' = Kinds
    BY LabelsStay DEF Aside
  <2>. QED BY <2>1 DEF Aside, Here, Step
<1>1. IInv /\ TypeOK' /\ ran \subseteq Ids
  BY DEF RunnersIInv, IInv, TypeOK
<1>2. \A id \in Ids : results[id].status = "pass" => results'[id].status = "pass"
  BY <1>1, PassIsRecorded DEF EntriesStay
<1>3. RunnersTypeOK'
  BY <1>0, <1>1 DEF Aside, RunnersIInv, RunnersTypeOK
<1>4. Owned' \subseteq Owned
  BY DEF Aside, Owned
<1>5. OwnersMatch'
  <2>1. (kind = "api" /\ phase = "work" =>
          /\ Owned \subseteq Here.held
          /\ Owned = Here.held \/ (pos <= Len(Program) /\ Step.op = "leave"))'
    <3>1. owner' = owner => Owned' = Owned
      BY DEF Owned
    <3>. QED BY <1>0, <1>4, <3>1 DEF Aside, RunnersIInv, OwnersMatch
  <2>2. (kind \in {"recovery", "stages"} => Owned \subseteq {TheCluster})'
    BY <1>4 DEF Aside, RunnersIInv, OwnersMatch
  <2>3. (kind = "qualification" => \A r \in Owned : owner[r] = "case" /\ r = Cluster(cur))'
    <3>1. \A r \in Owned' : owner'[r] = owner[r]
      BY DEF Aside, Owned
    <3>2. ASSUME kind = "qualification", NEW r \in Owned'
          PROVE  owner'[r] = "case" /\ r = Cluster(cur')
      <4>1. owner[r] = "case" /\ r = Cluster(cur) /\ r \in Resources
        BY <1>4, <3>2 DEF RunnersIInv, OwnersMatch, Owned
      <4>. QED BY <3>1, <4>1 DEF Aside
    <3>. QED BY <3>2, <1>0 DEF Aside, Cluster
  <2>4. (\A r, s \in Owned : r[1] = s[1])'
    BY <1>4 DEF RunnersIInv, OwnersMatch
  <2>. QED BY <2>1, <2>2, <2>3, <2>4 DEF OwnersMatch
<1>6. EvaluationMatches'
  BY <1>0 DEF Aside, RunnersIInv, EvaluationMatches
<1>7. (OnCourse \/ BrokeOff)'
  <2>1. CASE OnCourse
    <3>1. ASSUME NEW id \in Here.known PROVE id \in recorded' /\ results'[id].status = "pass"
      BY <2>1 DEF OnCourse, EntriesStay
    <3>. QED BY <3>1, <2>1, <1>0 DEF OnCourse, Aside
  <2>2. CASE BrokeOff
    BY <2>2, <1>0 DEF BrokeOff, Aside, EntriesStay
  <2>. QED BY <2>1, <2>2 DEF RunnersIInv
<1>8. StagesMatch'
  BY <1>1, <1>2 DEF RunnersIInv, StagesMatch, Aside
<1>9. NoCascade'
  <2>. SUFFICES ASSUME kind \in {"recovery", "stages"}, NEW j \in DOMAIN Cases[kind], Cases[kind][j] \in ran,
                       NEW i \in 1..(j - 1)
                PROVE  results'[Cases[kind][i]].status = "pass"
    BY DEF NoCascade, Aside
  <2>1. results[Cases[kind][i]].status = "pass"
    BY DEF RunnersIInv, NoCascade
  <2>2. i \in 1..Len(Cases[kind])
    BY Selections, KindsAre
  <2>3. Cases[kind][i] \in Ids
    BY <2>2, Selections, KindsAre
  <2>. QED BY <2>1, <2>3, <1>2
<1>10. NothingSkipped'
  <2>. SUFFICES ASSUME workExit' = "ok", ran # Ids
                PROVE  kind = "recovery" /\ \E id \in ran : results'[id].status # "pass"
    BY DEF NothingSkipped, Aside
  <2>1. PICK id \in ran : kind = "recovery" /\ results[id].status # "pass"
    BY DEF RunnersIInv, NothingSkipped, Aside
  <2>2. phase # "work" /\ stage = "idle"
    BY <1>1 DEF IInv, TroubleMatches, CaseUnderWay, Aside
  <2>3. id \in recorded
    BY <1>1, <2>2 DEF IInv, TableMatches
  <2>. QED BY <2>1, <2>3 DEF EntriesStay
<1>. QED BY <1>3, <1>5, <1>6, <1>7, <1>8, <1>9, <1>10 DEF RunnersIInv

\* What a step that is not the program's does is aside of it.
LEMMA InterruptionsAreAside ==
  ASSUME RunnersIInv, Interruptions
  PROVE  Aside /\ EntriesStay
<1>1. deployed \in BOOLEAN /\ CaseUnderWay /\ (stage # "idle" => kind # "api")
  BY DEF RunnersIInv, RunnersTypeOK, IInv, EvaluationMatches
<1>2. UNCHANGED runnerVars
  BY DEF Interruptions
<1>3. CASE Signal \/ SuiteTimer
  BY <1>1, <1>2, <1>3
  DEF Signal, SuiteTimer, Deadline, Aside, EntriesStay, executorVars, caseVars, ghosts, runnerVars
<1>4. CASE CaseTimeout \/ CaseInterrupted
  BY <1>1, <1>2, <1>4
  DEF CaseTimeout, CaseInterrupted, EndBody, Aside, EntriesStay, executorVars, runnerVars
<1>5. CASE WorkInterrupted
  BY <1>1, <1>2, <1>5
  DEF WorkInterrupted, EndWork, Aside, EntriesStay, executorVars, caseVars, runnerVars
<1>. QED BY <1>3, <1>4, <1>5 DEF Interruptions

LEMMA FinalizersAreAside ==
  ASSUME RunnersIInv, Finalize
  PROVE  Aside /\ EntriesStay
<1>1. deployed \in BOOLEAN /\ CaseUnderWay /\ (stage # "idle" => kind # "api") /\ TypeOK
  BY DEF RunnersIInv, RunnersTypeOK, IInv, EvaluationMatches
<1>2. UNCHANGED runnerVars
  BY DEF Finalize
<1>3. PICK r \in Resources : MayClose(r) /\ (Release(r) \/ ReleaseFails(r) \/ ReleaseDies(r))
  BY DEF Finalize, Finalizers
<1>4. kind = "api" /\ phase' = "work" => pos <= Len(Program) /\ Step.op = "leave"
  <2>1. phase' = "work" => phase = "work"
    BY <1>3 DEF Release, ReleaseFails, ReleaseDies
  <2>. QED BY <1>1, <1>3, <2>1 DEF MayClose, At
<1>5. \A s \in Resources : owner'[s] = owner[s] \/ owner'[s] = "released"
  BY <1>1, <1>3 DEF Release, ReleaseFails, ReleaseDies, TypeOK
<1>6. CASE Release(r) \/ ReleaseFails(r)
  BY <1>1, <1>2, <1>4, <1>5, <1>6
  DEF Release, ReleaseFails, Aside, EntriesStay, executorVars, caseVars, ghosts, runnerVars
<1>7. CASE ReleaseDies(r)
  BY <1>1, <1>2, <1>4, <1>5, <1>7
  DEF ReleaseDies, Aside, EntriesStay, executorVars, runnerVars
<1>. QED BY <1>3, <1>6, <1>7

LEMMA ContinuingIsAside ==
  ASSUME RunnersIInv, Continue
  PROVE  Aside /\ EntriesStay
<1>1. /\ deployed \in BOOLEAN /\ CaseUnderWay /\ (stage # "idle" => kind # "api") /\ TypeOK
      /\ StagesMatch
  BY DEF RunnersIInv, RunnersTypeOK, IInv, EvaluationMatches
<1>2. UNCHANGED runnerVars
  BY DEF Continue
<1>3. CASE CaseClosed
  BY <1>1, <1>2, <1>3 DEF CaseClosed, Aside, EntriesStay, executorVars, ghosts, runnerVars
<1>4. ASSUME NEW written \in BOOLEAN, RecordCase(written) PROVE Aside /\ EntriesStay
  <2>1. /\ stage = "record" /\ phase = "work" /\ cur \in Ids \ recorded
        /\ \A r \in Resources : owner[r] # "case"
    BY <1>1, <1>4 DEF RecordCase, CaseUnderWay
  <2>2. EntriesStay
    BY <1>1, <1>4, <2>1 DEF RecordCase, Enter, EntriesStay, TypeOK
  <2>3. kind = "stages" /\ phase' = "work" => results'[cur].status = "pass"
    <3>1. ASSUME kind = "stages", phase' = "work" PROVE results'[cur].status = "pass"
      <4>1. settings.stop /\ ~CaseStops
        BY <1>1, <1>4, <2>1, <3>1 DEF RecordCase, EndWork, StagesMatch
      <4>2. CaseStatus = "pass"
        BY <4>1 DEF CaseStops, CaseStatus
      <4>. QED BY <1>1, <1>4, <2>1, <4>2 DEF RecordCase, Enter, TypeOK
    <3>. QED BY <3>1
  <2>4. UNCHANGED <<owner, settings, ran>> /\ stage' = "idle" /\ (workExit' = "ok" => workExit = "ok")
    BY <1>4 DEF RecordCase, EndWork
  <2>. QED BY <1>1, <1>2, <2>1, <2>2, <2>3, <2>4 DEF Aside, runnerVars
<1>5. CASE WorkClosed
  BY <1>1, <1>2, <1>5 DEF WorkClosed, Aside, EntriesStay, caseVars, runnerVars
<1>6. ASSUME NEW written \in BOOLEAN, WriteJson(written) \/ WriteJunit(written)
      PROVE  Aside /\ EntriesStay
  BY <1>1, <1>2, <1>6
  DEF WriteJson, WriteJunit, Aside, EntriesStay, executorVars, caseVars, runnerVars
<1>7. CASE Finish
  BY <1>1, <1>2, <1>7 DEF Finish, Aside, EntriesStay, executorVars, caseVars, ghosts, runnerVars
<1>. QED BY <1>3, <1>4, <1>5, <1>6, <1>7 DEF Continue

LEMMA BodiesAreAside ==
  ASSUME RunnersIInv, Body, ~DeployCluster
  PROVE  Aside /\ EntriesStay
<1>1. deployed \in BOOLEAN /\ (stage # "idle" => kind # "api")
  BY DEF RunnersIInv, RunnersTypeOK, EvaluationMatches
<1>2. CASE ContextReady
  BY <1>1, <1>2 DEF ContextReady, Ready, Aside, EntriesStay, executorVars, runnerVars
<1>3. CASE (BodySucceeds \/ BodyFails) /\ UNCHANGED runnerVars
  BY <1>1, <1>3 DEF BodySucceeds, BodyFails, EndBody, Aside, EntriesStay, executorVars, runnerVars
<1>. QED BY <1>2, <1>3 DEF Body

\* So is the failure of a setup step.
LEMMA FailureIsAside ==
  ASSUME RunnersIInv, WorkEnds("failed"), UNCHANGED runnerVars
  PROVE  Aside /\ EntriesStay
<1>1. deployed \in BOOLEAN
  BY DEF RunnersIInv, RunnersTypeOK
<1>. QED BY <1>1 DEF WorkEnds, EndWork, Aside, EntriesStay, executorVars, caseVars, runnerVars

\* Every step of a runner is one that the executor allows its client, or one of
\* the executor's own.
LEMMA RunnersAreClients ==
  ASSUME RunnersIInv, [RunnersNext]_allVars
  PROVE  [Next]_vars
<1>1. IInv /\ TypeOK /\ CaseUnderWay
  BY DEF RunnersIInv, IInv
<1>2. CASE UNCHANGED allVars
  BY <1>2 DEF allVars
<1>3. CASE Body
  <2>1. CASE DeployCluster
    <3>1. Cluster(cur) \in Resources
      BY <1>1, <2>1, ResourcesAssumption DEF DeployCluster, CaseUnderWay
    <3>. QED BY <2>1, <3>1 DEF DeployCluster, Next, Client
  <2>. QED BY <1>3, <2>1 DEF Body, ContextReady, Next, Client
<1>4. CASE Finalize
  BY <1>4 DEF Finalize, Finalizers, Next, Closing
<1>5. CASE Continue
  BY <1>5 DEF Continue, Next, Closing
<1>6. CASE Interruptions
  BY <1>6 DEF Interruptions, SuiteTimer, Next
<1>7. CASE RunnerStep
  <2>1. CASE DoSetup
    BY <2>1 DEF DoSetup, Next, Client
  <2>2. CASE TakeStep
    <3>1. Step.resource \in Resources /\ Acquire(Step.resource)
      BY <2>2, OnTheWay DEF TakeStep, At, StepFits, AcquireFits
    <3>. QED BY <3>1 DEF Next, Client
  <2>3. CASE StartCase
    <3>1. Step.includesSetup \in BOOLEAN /\ Step.stop \in BOOLEAN
      BY <2>3, OnTheWay DEF StartCase, At, StepFits, CaseFits
    <3>2. RunCase(Step.id, TRUE, Step.includesSetup, Step.stop) /\ Step.id \in Ids
      BY <2>3 DEF StartCase, RunCase
    <3>. PICK s : s = [timeout |-> TRUE, includesSetup |-> Step.includesSetup, stop |-> Step.stop]
      OBVIOUS
    <3>3. s \in Settings /\ RunCase(Step.id, s.timeout, s.includesSetup, s.stop)
      BY <3>1, <3>2 DEF Settings
    <3>. QED BY <3>2, <3>3 DEF Next, Client
  <2>4. CASE BreakUnlessPassed \/ BeginEvaluation \/ LeaveScope
    BY <2>4 DEF BreakUnlessPassed, BeginEvaluation, LeaveScope
  <2>5. ASSUME NEW status \in Statuses, NEW written \in BOOLEAN,
               RecordDeployment(status, written) \/ EndEvaluation(status, written)
        PROVE  Next
    BY <2>5 DEF RecordDeployment, EndEvaluation, Record, Enter, Next, Client
  <2>6. CASE WorkReturns
    BY <2>6 DEF WorkReturns, Next, Client
  <2>. QED BY <1>7, <2>1, <2>2, <2>3, <2>4, <2>5, <2>6 DEF RunnerStep
<1>. QED BY <1>2, <1>3, <1>4, <1>5, <1>6, <1>7 DEF RunnersNext

-----------------------------------------------------------------------------
(* The program's steps.                                                    *)

\* What a step of the program makes of the state: it goes on to the next one, and
\* what that expects is so.
Forward ==
  /\ Calling /\ pos <= Len(Program)
  /\ kind' = kind /\ pos' = pos + 1 /\ deployed' \in BOOLEAN
  /\ evaluating' = Nothing \/ (evaluating' = evaluating /\ Step.op # "evaluate")
  /\ kind = "api" => stage' = "idle"
  /\ workExit' # "ok"
  /\ ran' = H[pos + 1].done
  /\ \A id \in H[pos + 1].known : id \in recorded' /\ results'[id].status = "pass"

LEMMA ForwardKeeps ==
  ASSUME RunnersIInv, IInv', Forward, OwnersMatch', StagesMatch', NoCascade'
  PROVE  RunnersIInv'
<1>0. H' = H /\ Program' = Program /\ Kinds' = Kinds /\ Here' = H[pos + 1]
  <2>1. H' = H /\ Program' = Program /\ Kinds' = Kinds
    BY LabelsStay DEF Forward
  <2>. QED BY <2>1 DEF Forward, Here
<1>1. pos + 1 \in 1..(Len(Program) + 1)
  BY OnTheWay DEF Forward
<1>2. evaluating' = Nothing
  BY DEF Forward, Calling, Idle, RunnersIInv, EvaluationMatches
<1>3. RunnersTypeOK'
  <2>1. TypeOK' /\ kind \in Kinds
    BY DEF IInv, RunnersIInv, RunnersTypeOK
  <2>. QED BY <1>0, <1>1, <1>2, <2>1 DEF Forward, RunnersTypeOK
<1>4. EvaluationMatches'
  BY <1>2 DEF Forward, EvaluationMatches
<1>5. OnCourse'
  BY <1>0 DEF Forward, OnCourse
<1>6. NothingSkipped'
  BY DEF Forward, NothingSkipped
<1>. QED BY <1>3, <1>4, <1>5, <1>6 DEF RunnersIInv

\* Steps that start and record nothing.
LEMMA QuietKeeps ==
  ASSUME RunnersIInv, IInv', Calling, pos <= Len(Program), OwnersMatch',
         UNCHANGED <<results, recorded, ran, phase, workExit, caseVars>>, Onwards,
         Step.op # "evaluate", H[pos + 1].done = Here.done,
         \A id \in H[pos + 1].known :
           id \in Here.known \/ (id \in recorded /\ results[id].status = "pass")
  PROVE  RunnersIInv'
<1>1. OnCourse
  BY OnTheWay
<1>2. stage = "idle" /\ phase = "work" /\ UNCHANGED <<cur, stage, settings>>
  BY DEF Calling, Idle, caseVars
<1>3. workExit # "ok" /\ deployed \in BOOLEAN
  BY <1>2 DEF RunnersIInv, RunnersTypeOK, IInv, TroubleMatches
<1>4. Forward
  BY <1>1, <1>2, <1>3 DEF Forward, OnCourse, Onwards
<1>5. StagesMatch'
  BY <1>2 DEF RunnersIInv, StagesMatch, Onwards
<1>6. NoCascade'
  BY DEF RunnersIInv, NoCascade, Onwards
<1>. QED BY <1>4, <1>5, <1>6, ForwardKeeps

\* What is up does not depend on the step for the runners that have one environment,
\* nor for those whose cases have their own.
LEMMA SameOwners ==
  ASSUME RunnersIInv, kind' = kind, owner' = owner, cur' = cur \/ Owned = {},
         kind = "api" => Owned = Here'.held
  PROVE  OwnersMatch'
<1>1. Owned' = Owned
  BY DEF Owned
<1>2. (kind = "api" /\ phase = "work" =>
        /\ Owned \subseteq Here.held
        /\ Owned = Here.held \/ (pos <= Len(Program) /\ Step.op = "leave"))'
  BY <1>1
<1>3. (kind \in {"recovery", "stages"} => Owned \subseteq {TheCluster})'
  BY <1>1 DEF RunnersIInv, OwnersMatch
<1>4. (kind = "qualification" => \A r \in Owned : owner[r] = "case" /\ r = Cluster(cur))'
  BY <1>1 DEF RunnersIInv, OwnersMatch
<1>5. (\A r, s \in Owned : r[1] = s[1])'
  BY <1>1 DEF RunnersIInv, OwnersMatch
<1>. QED BY <1>2, <1>3, <1>4, <1>5 DEF OwnersMatch

\* Between two steps of the API suite, exactly what is expected is up.
LEMMA HeldIsUp ==
  ASSUME RunnersIInv, Calling, pos <= Len(Program), Step.op # "leave", kind = "api"
  PROVE  Owned = Here.held
BY DEF RunnersIInv, OwnersMatch, Calling, Idle

LEMMA SetupKeeps ==
  ASSUME RunnersIInv, IInv', EntriesStay, DoSetup
  PROVE  RunnersIInv'
<1>1. CASE WorkEnds("failed") /\ UNCHANGED runnerVars
  BY <1>1, FailureIsAside, AsideKeeps
<1>2. CASE Onwards /\ UNCHANGED vars
  <2>1. Calling /\ pos <= Len(Program) /\ Step.op = "setup"
    BY DEF DoSetup, At
  <2>2. H[pos + 1] = Here
    BY <2>1, OnTheWay DEF StepFits, SetupFits
  <2>3. UNCHANGED <<results, recorded, ran, phase, workExit, caseVars>> /\ UNCHANGED <<owner, cur>>
    BY <1>2 DEF vars, executorVars, caseVars, ghosts
  <2>4. Here' = Here
    BY <1>2, <2>2, LabelsStay DEF Onwards, Here
  <2>5. OwnersMatch'
    BY <1>2, <2>1, <2>3, <2>4, HeldIsUp, SameOwners DEF Onwards
  <2>. QED BY <1>2, <2>1, <2>2, <2>3, <2>5, QuietKeeps
<1>. QED BY <1>1, <1>2 DEF DoSetup

LEMMA LeaveKeeps ==
  ASSUME RunnersIInv, IInv', LeaveScope
  PROVE  RunnersIInv'
<1>1. Calling /\ pos <= Len(Program) /\ Step.op = "leave" /\ Onwards /\ UNCHANGED vars
  BY DEF LeaveScope, At
<1>2. /\ kind = "api" /\ Here.held \subseteq Step.resources
      /\ H[pos + 1] = Label({}, Here.done, Here.known)
  BY <1>1, OnTheWay DEF StepFits, LeaveFits
<1>3. UNCHANGED <<results, recorded, ran, phase, workExit, caseVars>> /\ UNCHANGED <<owner, cur>>
  BY <1>1 DEF vars, executorVars, caseVars, ghosts
<1>4. Owned = {}
  <2>1. Owned \subseteq Here.held
    BY <1>1, <1>2 DEF RunnersIInv, OwnersMatch, Calling, Idle
  <2>. QED BY <2>1, <1>2 DEF LeaveScope
<1>5. Here' = H[pos + 1]
  BY <1>1, LabelsStay DEF Onwards, Here
<1>6. OwnersMatch'
  BY <1>1, <1>2, <1>3, <1>4, <1>5, SameOwners DEF Onwards, Label
<1>7. H[pos + 1].done = Here.done /\ H[pos + 1].known = Here.known
  BY <1>2 DEF Label
<1>. QED BY <1>1, <1>3, <1>6, <1>7, QuietKeeps

LEMMA BreakKeeps ==
  ASSUME RunnersIInv, IInv', BreakUnlessPassed
  PROVE  RunnersIInv'
<1>1. Calling /\ pos <= Len(Program) /\ Step.op = "unlessPassed" /\ UNCHANGED vars
  BY DEF BreakUnlessPassed, At
<1>2. /\ kind = "recovery" /\ Step.id \in Here.done
      /\ H[pos + 1] = Label(Here.held, Here.done, Here.known \cup {Step.id})
  BY <1>1, OnTheWay DEF StepFits, BreakFits
<1>3. OnCourse
  BY <1>1, OnTheWay
<1>4. Step.id \in recorded
  BY <1>1, <1>2, <1>3 DEF OnCourse, RunnersIInv, IInv, TableMatches, Calling, Idle
<1>5. UNCHANGED <<results, recorded, ran, phase, workExit, caseVars>> /\ UNCHANGED <<owner, cur>>
  BY <1>1 DEF vars, executorVars, caseVars, ghosts
<1>6. OwnersMatch'
  BY <1>2, <1>5, SameOwners DEF BreakUnlessPassed
<1>7. CASE results[Step.id].status = "pass"
  <2>1. Onwards
    BY <1>7 DEF BreakUnlessPassed, Onwards
  <2>2. H[pos + 1].done = Here.done /\ H[pos + 1].known = Here.known \cup {Step.id}
    BY <1>2 DEF Label
  <2>. QED BY <1>1, <1>4, <1>5, <1>6, <1>7, <2>1, <2>2, QuietKeeps
<1>8. CASE results[Step.id].status # "pass"
  <2>1. pos' = Len(Program) + 1 /\ UNCHANGED <<kind, evaluating, deployed>>
    BY <1>8 DEF BreakUnlessPassed
  <2>2. Program' = Program /\ Kinds' = Kinds /\ Len(Program) \in Nat
    BY <1>1, <2>1, LabelsStay, OnTheWay
  <2>3. RunnersTypeOK'
    BY <2>1, <2>2 DEF RunnersIInv, RunnersTypeOK, IInv
  <2>4. BrokeOff'
    BY <1>2, <1>4, <1>5, <1>8, <2>1, <2>2 DEF BrokeOff
  <2>5. EvaluationMatches' /\ StagesMatch'
    BY <1>1, <1>2, <1>5, <2>1 DEF RunnersIInv, EvaluationMatches, StagesMatch, Calling, Idle
  <2>6. NoCascade' /\ NothingSkipped'
    BY <1>5, <2>1 DEF RunnersIInv, NoCascade, NothingSkipped
  <2>. QED BY <1>6, <2>3, <2>4, <2>5, <2>6 DEF RunnersIInv
<1>. QED BY <1>7, <1>8

LEMMA TakeKeeps ==
  ASSUME RunnersIInv, IInv', TakeStep
  PROVE  RunnersIInv'
<1>1. Calling /\ pos <= Len(Program) /\ Step.op = "acquire" /\ Onwards /\ Acquire(Step.resource)
  BY DEF TakeStep, At
<1>. PICK r : r = Step.resource
  OBVIOUS
<1>2. /\ kind # "qualification" /\ r \in Resources
      /\ kind \in {"recovery", "stages"} => r = TheCluster
      /\ \A s \in Here.held : s[1] = r[1]
      /\ H[pos + 1] = Label(Here.held \cup {r}, Here.done, Here.known)
  BY <1>1, OnTheWay DEF StepFits, AcquireFits
<1>3. /\ UNCHANGED <<results, recorded, ran, phase, workExit, caseVars>>
      /\ owner' = [owner EXCEPT ![r] = "work"]
  BY <1>1 DEF Acquire, Calling, Idle, executorVars, ghosts
<1>4. Owned' = Owned \cup {r}
  BY <1>2, <1>3 DEF Owned, RunnersIInv, IInv, TypeOK
<1>5. Here' = H[pos + 1] /\ kind' = kind
  BY <1>1, LabelsStay DEF Onwards, Here
<1>6. OwnersMatch'
  <2>1. kind = "api" => Owned = Here.held
    BY <1>1, HeldIsUp
  <2>2. (kind = "api" /\ phase = "work" =>
          /\ Owned \subseteq Here.held
          /\ Owned = Here.held \/ (pos <= Len(Program) /\ Step.op = "leave"))'
    BY <1>2, <1>4, <1>5, <2>1 DEF Label
  <2>3. (kind \in {"recovery", "stages"} => Owned \subseteq {TheCluster})'
    BY <1>2, <1>4, <1>5 DEF RunnersIInv, OwnersMatch
  <2>4. \A s \in Owned : s[1] = r[1]
    <3>1. kind \in {"api", "recovery", "stages"}
      BY <1>2, KindsAre DEF RunnersIInv, RunnersTypeOK
    <3>2. CASE kind = "api"
      BY <1>2, <2>1, <3>2
    <3>3. CASE kind \in {"recovery", "stages"}
      BY <1>2, <3>3 DEF RunnersIInv, OwnersMatch
    <3>. QED BY <3>1, <3>2, <3>3
  <2>5. (\A t, s \in Owned : t[1] = s[1])'
    BY <1>4, <2>4 DEF RunnersIInv, OwnersMatch
  <2>6. (kind = "qualification" => \A t \in Owned : owner[t] = "case" /\ t = Cluster(cur))'
    BY <1>2, <1>5
  <2>. QED BY <2>2, <2>3, <2>5, <2>6 DEF OwnersMatch
<1>7. H[pos + 1].done = Here.done /\ H[pos + 1].known = Here.known
  BY <1>2 DEF Label
<1>. QED BY <1>1, <1>3, <1>6, <1>7, QuietKeeps

\* A case is started: where the cases share an environment, all earlier ones have
\* passed.
LEMMA StartKeeps ==
  ASSUME RunnersIInv, IInv', StartCase
  PROVE  RunnersIInv'
<1>1. /\ Calling /\ pos <= Len(Program) /\ Step.op = "case" /\ pos' = pos + 1 /\ deployed' = FALSE
      /\ UNCHANGED <<kind, evaluating>> /\ RunCase(Step.id, TRUE, Step.includesSetup, Step.stop)
  BY DEF StartCase, At
<1>. PICK id : id = Step.id
  OBVIOUS
<1>2. /\ kind # "api"
      /\ \E j \in DOMAIN Cases[kind] :
           id = Cases[kind][j] /\ Here.done = {Cases[kind][i] : i \in 1..(j - 1)}
      /\ kind = "recovery" => Here.done \subseteq Here.known
      /\ kind = "stages" => Step.stop
      /\ H[pos + 1] = Label(Here.held, Here.done \cup {id}, Here.known)
  BY <1>1, OnTheWay DEF StepFits, CaseFits
<1>3. /\ UNCHANGED <<results, recorded, phase, workExit, owner>>
      /\ phase = "work" /\ stage = "idle" /\ cur' = id /\ stage' = "body"
      /\ settings' = [timeout |-> TRUE, stop |-> Step.stop] /\ ran' = ran \cup {id}
  BY <1>1 DEF RunCase, Calling, Idle, executorVars
<1>4. OnCourse /\ kind \in Kinds /\ cur = Nothing /\ ran = recorded /\ workExit # "ok" /\ ran \subseteq Ids
  BY <1>1, <1>3, OnTheWay
  DEF RunnersIInv, RunnersTypeOK, IInv, CaseUnderWay, TableMatches, TroubleMatches, TypeOK
<1>5. kind \in {"recovery", "stages"} => \A d \in ran : results[d].status = "pass"
  <2>1. CASE kind = "recovery"
    BY <1>2, <1>4, <2>1 DEF OnCourse
  <2>2. CASE kind = "stages"
    <3>1. \A d \in ran : d # cur
      BY <1>4, NothingAssumption
    <3>. QED BY <1>3, <2>2, <3>1 DEF RunnersIInv, StagesMatch
  <2>. QED BY <2>1, <2>2
<1>6. Forward
  <2>1. H[pos + 1].done = Here.done \cup {id} /\ H[pos + 1].known = Here.known
    BY <1>2 DEF Label
  <2>2. evaluating = Nothing
    BY <1>2, <1>3 DEF RunnersIInv, EvaluationMatches
  <2>. QED BY <1>1, <1>2, <1>3, <1>4, <2>1, <2>2 DEF Forward, OnCourse
<1>7. OwnersMatch'
  <2>1. kind = "qualification" => Owned = {}
    BY <1>3, <1>1 DEF RunnersIInv, OwnersMatch, IInv, CaseUnderWay, Owned
  <2>2. Owned' = Owned
    BY <1>3 DEF Owned
  <2>. QED BY <1>1, <1>2, <2>1, <2>2 DEF OwnersMatch, RunnersIInv
<1>8. StagesMatch'
  BY <1>1, <1>2, <1>3, <1>5 DEF StagesMatch
<1>9. NoCascade'
  <2>. SUFFICES ASSUME kind \in {"recovery", "stages"}, NEW j \in DOMAIN Cases[kind],
                       Cases[kind][j] \in ran \cup {id}, NEW i \in 1..(j - 1)
                PROVE  results[Cases[kind][i]].status = "pass"
    BY <1>1, <1>3 DEF NoCascade
  <2>1. CASE Cases[kind][j] \in ran
    BY <2>1 DEF RunnersIInv, NoCascade
  <2>2. CASE Cases[kind][j] = id
    <3>1. PICK m \in DOMAIN Cases[kind] :
            id = Cases[kind][m] /\ Here.done = {Cases[kind][l] : l \in 1..(m - 1)}
      BY <1>2
    <3>2. m = j
      BY <2>2, <3>1, <1>4, RunnersAssumption DEF Kinds
    <3>3. Cases[kind][i] \in ran
      BY <3>1, <3>2, <1>4 DEF OnCourse
    <3>. QED BY <3>3, <1>5
  <2>. QED BY <2>1, <2>2
<1>. QED BY <1>6, <1>7, <1>8, <1>9, ForwardKeeps

\* A result of the API suite is recorded, a case's or a deployment check's.
LEMMA RecordKeeps ==
  ASSUME RunnersIInv, IInv', Calling, pos <= Len(Program), Step.op \in {"deployment", "evaluate"},
         NEW status, NEW written, Record(Step.id, status, written),
         kind' = kind, pos' = pos + 1, deployed' = deployed,
         evaluating' = Nothing \/ (evaluating' = evaluating /\ Step.op = "deployment")
  PROVE  RunnersIInv'
<1>. PICK id : id = Step.id
  OBVIOUS
<1>1. kind = "api" /\ H[pos + 1] = Label(Here.held, Here.done \cup {id}, Here.known)
  BY OnTheWay DEF StepFits, DeploymentFits, EvaluateFits
<1>2. /\ UNCHANGED <<cur, stage, settings, owner>> /\ stage = "idle" /\ phase = "work"
      /\ ran' = ran \cup {id} /\ id \in Ids \ recorded
      /\ recorded' = recorded \cup {id}
      /\ results' = [results EXCEPT ![id] = [status |-> status, reached |-> TRUE]]
      /\ workExit' # "ok"
  <2>1. workExit # "ok" /\ phase = "work"
    BY DEF RunnersIInv, IInv, TroubleMatches, Calling, Idle
  <2>. QED BY <2>1 DEF Record, Enter, EndWork, Calling, Idle, caseVars
<1>3. OnCourse /\ deployed \in BOOLEAN
  BY OnTheWay DEF RunnersIInv, RunnersTypeOK
<1>4. \A d \in recorded : d \in recorded' /\ results'[d] = results[d]
  BY <1>2 DEF RunnersIInv, IInv, TypeOK
<1>5. Forward
  <2>1. H[pos + 1].done = Here.done \cup {id} /\ H[pos + 1].known = Here.known
    BY <1>1 DEF Label
  <2>2. "deployment" # "evaluate"
    OBVIOUS
  <2>. QED BY <1>2, <1>3, <1>4, <2>1, <2>2 DEF Forward, OnCourse
<1>6. OwnersMatch'
  <2>1. Owned = Here.held
    BY <1>1, HeldIsUp
  <2>2. Here' = H[pos + 1]
    BY LabelsStay DEF Here
  <2>. QED BY <1>1, <1>2, <2>1, <2>2, SameOwners DEF Label
<1>7. StagesMatch' /\ NoCascade'
  BY <1>1 DEF StagesMatch, NoCascade
<1>. QED BY <1>5, <1>6, <1>7, ForwardKeeps

\* A case is taken up to be judged.
LEMMA BeginKeeps ==
  ASSUME RunnersIInv, IInv', BeginEvaluation
  PROVE  RunnersIInv'
<1>1. /\ Calling /\ pos <= Len(Program) /\ Step.op = "evaluate" /\ evaluating' = Step.id
      /\ UNCHANGED <<kind, pos, deployed>> /\ UNCHANGED vars
  BY DEF BeginEvaluation, At
<1>2. kind = "api" /\ Step.id \in Ids
  BY <1>1, OnTheWay DEF StepFits, EvaluateFits
<1>3. H' = H /\ Program' = Program /\ Kinds' = Kinds /\ Here' = Here /\ Step' = Step
  <2>1. H' = H /\ Program' = Program /\ Kinds' = Kinds
    BY <1>1, LabelsStay
  <2>. QED BY <1>1, <2>1 DEF Here, Step
<1>4. UNCHANGED <<results, recorded, ran, phase, workExit, cur, stage, settings, owner>>
  BY <1>1 DEF vars, executorVars, caseVars, ghosts
<1>5. RunnersTypeOK'
  BY <1>1, <1>2, <1>3 DEF RunnersIInv, RunnersTypeOK, IInv
<1>6. OwnersMatch'
  <2>1. Owned = Here.held
    BY <1>1, <1>2, HeldIsUp
  <2>. QED BY <1>1, <1>3, <1>4, <2>1, SameOwners
<1>7. EvaluationMatches'
  BY <1>1, <1>2, <1>3, <1>4 DEF EvaluationMatches, RunnersIInv
<1>8. (OnCourse \/ BrokeOff)'
  BY <1>1, <1>3, <1>4, OnTheWay DEF OnCourse
<1>9. StagesMatch' /\ NoCascade' /\ NothingSkipped'
  BY <1>1, <1>4 DEF RunnersIInv, StagesMatch, NoCascade, NothingSkipped
<1>. QED BY <1>5, <1>6, <1>7, <1>8, <1>9 DEF RunnersIInv

\* The work returns at the end of the program.
LEMMA ReturnKeeps ==
  ASSUME RunnersIInv, IInv', WorkReturns
  PROVE  RunnersIInv'
<1>1. /\ Calling /\ pos = Len(Program) + 1 /\ UNCHANGED runnerVars
      /\ UNCHANGED <<results, recorded, ran, cur, stage, settings, owner>> /\ phase' = "closing"
  BY DEF WorkReturns, WorkEnds, EndWork, executorVars, caseVars
<1>2. UNCHANGED <<kind, pos, evaluating, deployed>>
  BY <1>1 DEF runnerVars
<1>3. H' = H /\ Program' = Program /\ Kinds' = Kinds /\ Here' = Here
  <2>1. H' = H /\ Program' = Program /\ Kinds' = Kinds
    BY <1>2, LabelsStay
  <2>. QED BY <1>2, <2>1 DEF Here
<1>4. RunnersTypeOK'
  BY <1>2, <1>3 DEF RunnersIInv, RunnersTypeOK, IInv
<1>5. OwnersMatch'
  <2>1. Owned' = Owned
    BY <1>1 DEF Owned
  <2>. QED BY <1>1, <1>2, <2>1 DEF RunnersIInv, OwnersMatch
<1>6. EvaluationMatches' /\ StagesMatch' /\ NoCascade'
  BY <1>1, <1>2 DEF RunnersIInv, EvaluationMatches, StagesMatch, NoCascade
<1>7. (OnCourse \/ BrokeOff)'
  BY <1>1, <1>2, <1>3 DEF RunnersIInv, OnCourse, BrokeOff
<1>8. NothingSkipped'
  <2>1. CASE OnCourse
    <3>1. Here.done = Ids
      BY <1>1, ProgramIsLabelled DEF RunnersIInv, RunnersTypeOK, LabelsAll, Here
    <3>. QED BY <1>1, <2>1, <3>1 DEF OnCourse, NothingSkipped
  <2>2. CASE BrokeOff
    <3>1. recorded \subseteq ran
      BY DEF RunnersIInv, IInv, TableMatches
    <3>. QED BY <1>1, <1>2, <2>2, <3>1 DEF BrokeOff, NothingSkipped
  <2>. QED BY <2>1, <2>2 DEF RunnersIInv
<1>. QED BY <1>4, <1>5, <1>6, <1>7, <1>8 DEF RunnersIInv

\* A case of the qualification brings its own cluster up.
LEMMA DeployKeeps ==
  ASSUME RunnersIInv, IInv', DeployCluster
  PROVE  RunnersIInv'
<1>. PICK r : r = Cluster(cur)
  OBVIOUS
<1>1. /\ kind = "qualification" /\ stage = "body" /\ deployed' = TRUE
      /\ UNCHANGED <<kind, pos, evaluating>>
      /\ UNCHANGED <<results, recorded, ran, phase, workExit, cur, stage, settings>>
      /\ owner' = [owner EXCEPT ![r] = "case"]
  BY DEF DeployCluster, Acquire, executorVars, caseVars, ghosts
<1>2. cur \in Ids /\ r \in Resources
  BY <1>1, ResourcesAssumption DEF RunnersIInv, IInv, CaseUnderWay
<1>3. H' = H /\ Program' = Program /\ Kinds' = Kinds /\ Here' = Here
  <2>1. H' = H /\ Program' = Program /\ Kinds' = Kinds
    BY <1>1, LabelsStay
  <2>. QED BY <1>1, <2>1 DEF Here
<1>4. RunnersTypeOK'
  BY <1>1, <1>3 DEF RunnersIInv, RunnersTypeOK, IInv
<1>5. OwnersMatch'
  <2>1. Owned' = Owned \cup {r}
    BY <1>1, <1>2 DEF Owned, RunnersIInv, IInv, TypeOK
  <2>2. \A t \in Owned' : owner'[t] = "case" /\ t = r
    BY <1>1, <1>2, <2>1 DEF RunnersIInv, OwnersMatch, Owned, IInv, TypeOK
  <2>3. (kind = "qualification" => \A t \in Owned : owner[t] = "case" /\ t = Cluster(cur))'
    BY <1>1, <2>2 DEF Cluster
  <2>4. (\A t, s \in Owned : t[1] = s[1])'
    BY <2>2
  <2>. QED BY <1>1, <2>3, <2>4 DEF OwnersMatch
<1>6. EvaluationMatches' /\ StagesMatch' /\ NoCascade' /\ NothingSkipped'
  BY <1>1 DEF RunnersIInv, EvaluationMatches, StagesMatch, NoCascade, NothingSkipped
<1>7. (OnCourse \/ BrokeOff)'
  BY <1>1, <1>3 DEF RunnersIInv, OnCourse, BrokeOff
<1>. QED BY <1>4, <1>5, <1>6, <1>7 DEF RunnersIInv

-----------------------------------------------------------------------------
(* The theorems.                                                           *)

\* A run starts in the invariant, whichever runner it is.
LEMMA RunnersInitHolds == RunnersInit => RunnersIInv
<1>. SUFFICES ASSUME RunnersInit PROVE RunnersIInv
  OBVIOUS
<1>1. /\ Init /\ kind \in Kinds /\ pos = 1 /\ evaluating = Nothing /\ deployed = FALSE
      /\ IInv /\ TypeOK
  BY IInvInit DEF RunnersInit, IInv
<1>2. LabelsAll(kind, Program, H) /\ Len(Program) \in Nat
  BY <1>1, ProgramIsLabelled
<1>3. Here = Unstarted
  BY <1>1, <1>2 DEF LabelsAll, Here
<1>4. /\ ran = {} /\ workExit = "running" /\ stage = "idle"
      /\ \A r \in Resources : owner[r] = "none"
  BY <1>1 DEF Init
<1>5. RunnersTypeOK
  <2>1. pos \in 1..(Len(Program) + 1)
    <3>1. \A n \in Nat : 1 \in 1..(n + 1)
      OBVIOUS
    <3>. QED BY <1>1, <1>2, <3>1
  <2>2. evaluating \in Ids \cup {Nothing} /\ deployed \in BOOLEAN
    BY <1>1
  <2>. QED BY <1>1, <2>1, <2>2 DEF RunnersTypeOK
<1>6. Owned = {}
  BY <1>4 DEF Owned
<1>7. OwnersMatch
  BY <1>3, <1>6 DEF OwnersMatch, Unstarted, Label
<1>8. EvaluationMatches /\ StagesMatch /\ NoCascade /\ NothingSkipped
  BY <1>1, <1>4 DEF EvaluationMatches, StagesMatch, NoCascade, NothingSkipped
<1>9. OnCourse
  BY <1>3, <1>4 DEF OnCourse, Unstarted, Label
<1>. QED BY <1>1, <1>5, <1>7, <1>8, <1>9 DEF RunnersIInv

\* Every step keeps it.
LEMMA RunnersStepKeeps == RunnersIInv /\ [RunnersNext]_allVars => RunnersIInv'
<1>. SUFFICES ASSUME RunnersIInv, [RunnersNext]_allVars PROVE RunnersIInv'
  OBVIOUS
<1>1. IInv'
  <2>1. IInv /\ [Next]_vars
    BY RunnersAreClients DEF RunnersIInv
  <2>. QED BY <2>1, IInvStep
<1>2. CASE UNCHANGED allVars
  <2>1. UNCHANGED <<kind, pos, evaluating, deployed>> /\ UNCHANGED vars
    BY <1>2 DEF allVars, runnerVars
  <2>2. UNCHANGED <<results, recorded, ran, phase, workExit, cur, stage, settings, owner>>
    BY <2>1 DEF vars, executorVars, caseVars, ghosts
  <2>3. Aside /\ EntriesStay
    BY <2>1, <2>2 DEF RunnersIInv, RunnersTypeOK, Aside, EntriesStay
  <2>. QED BY <2>3, <1>1, AsideKeeps
<1>3. CASE RunnerStep
  <2>1. CASE DoSetup
    <3>1. EntriesStay
      BY <2>1 DEF DoSetup, Onwards, WorkEnds, vars, executorVars, EntriesStay
    <3>. QED BY <2>1, <3>1, <1>1, SetupKeeps
  <2>2. CASE TakeStep
    BY <2>2, <1>1, TakeKeeps
  <2>3. CASE StartCase
    BY <2>3, <1>1, StartKeeps
  <2>4. CASE BreakUnlessPassed
    BY <2>4, <1>1, BreakKeeps
  <2>5. CASE BeginEvaluation
    BY <2>5, <1>1, BeginKeeps
  <2>6. ASSUME NEW status \in Statuses, NEW written \in BOOLEAN, RecordDeployment(status, written)
        PROVE  RunnersIInv'
    <3>1. /\ Calling /\ pos <= Len(Program) /\ Step.op = "deployment"
          /\ Record(Step.id, status, written)
          /\ pos' = pos + 1 /\ UNCHANGED <<kind, evaluating, deployed>>
      BY <2>6 DEF RecordDeployment, At, Onwards
    <3>. QED BY <3>1, <1>1, RecordKeeps
  <2>7. ASSUME NEW status \in Statuses, NEW written \in BOOLEAN, EndEvaluation(status, written)
        PROVE  RunnersIInv'
    <3>1. /\ Calling /\ evaluating # Nothing /\ Record(evaluating, status, written)
          /\ evaluating' = Nothing /\ pos' = pos + 1 /\ UNCHANGED <<kind, deployed>>
      BY <2>7 DEF EndEvaluation
    <3>2. pos <= Len(Program) /\ Step.op = "evaluate" /\ Step.id = evaluating
      BY <3>1 DEF RunnersIInv, EvaluationMatches, Calling, Idle
    <3>. QED BY <3>1, <3>2, <1>1, RecordKeeps
  <2>8. CASE LeaveScope
    BY <2>8, <1>1, LeaveKeeps
  <2>9. CASE WorkReturns
    BY <2>9, <1>1, ReturnKeeps
  <2>. QED BY <1>3, <2>1, <2>2, <2>3, <2>4, <2>5, <2>6, <2>7, <2>8, <2>9 DEF RunnerStep
<1>4. CASE Body
  <2>1. CASE DeployCluster
    BY <2>1, <1>1, DeployKeeps
  <2>2. CASE ~DeployCluster
    BY <2>2, <1>1, <1>4, BodiesAreAside, AsideKeeps
  <2>. QED BY <2>1, <2>2
<1>5. CASE Finalize
  BY <1>1, <1>5, FinalizersAreAside, AsideKeeps
<1>6. CASE Continue
  BY <1>1, <1>6, ContinuingIsAside, AsideKeeps
<1>7. CASE Interruptions
  BY <1>1, <1>7, InterruptionsAreAside, AsideKeeps
<1>. QED BY <1>2, <1>3, <1>4, <1>5, <1>6, <1>7 DEF RunnersNext

LEMMA RunnersInvariance == RunnersSpec => []RunnersIInv
BY RunnersInitHolds, RunnersStepKeeps, PTL DEF RunnersSpec

\* The runners use the executor as its specification allows its clients to, so that
\* all that is proved of the executor is so in every run of theirs.
THEOREM RunnersRefineExecutor == RunnersSpec => Spec
<1>1. RunnersInit => Init
  BY DEF RunnersInit
<1>2. RunnersIInv /\ [RunnersNext]_allVars => [Next]_vars
  BY RunnersAreClients
<1>. QED BY <1>1, <1>2, RunnersInvariance, PTL DEF RunnersSpec, Spec

\* Type correctness: no runner ever leaves its program.
THEOREM RunnersTypeCorrect == RunnersSpec => []RunnersTypeOK
<1>1. RunnersIInv => RunnersTypeOK
  BY DEF RunnersIInv
<1>. QED BY <1>1, RunnersInvariance, PTL

\* Environments of different fixtures and cases are never up together, and a case of
\* the API suite is judged while exactly its own fixture's processes are.
THEOREM OneEnvironmentAtATime == RunnersSpec => []EnvironmentsAreSeparate
<1>1. RunnersIInv => EnvironmentsAreSeparate
  <2>. SUFFICES ASSUME RunnersIInv PROVE EnvironmentsAreSeparate
    OBVIOUS
  <2>1. \A r, s \in Owned : r[1] = s[1]
    BY DEF RunnersIInv, OwnersMatch
  <2>2. ASSUME evaluating # Nothing, phase = "work", kind = "api"
        PROVE  Owned = {Reference(Fixture[evaluating]), Candidate(Fixture[evaluating])}
    <3>1. pos <= Len(Program) /\ Step.op = "evaluate" /\ Step.id = evaluating
      BY <2>2 DEF RunnersIInv, EvaluationMatches
    <3>2. Here.held = Environment(evaluating)
      BY <3>1, OnTheWay DEF StepFits, EvaluateFits
    <3>3. Owned = Here.held
      BY <2>2, <3>1 DEF RunnersIInv, OwnersMatch
    <3>. QED BY <3>2, <3>3 DEF Environment
  <2>. QED BY <2>1, <2>2 DEF EnvironmentsAreSeparate
<1>. QED BY <1>1, RunnersInvariance, PTL

\* Where one environment serves all cases, none runs after one that did not pass.
THEOREM FailuresDoNotCascade == RunnersSpec => []NoCascade
<1>1. RunnersIInv => NoCascade
  BY DEF RunnersIInv
<1>. QED BY <1>1, RunnersInvariance, PTL

\* Work that returns has been through the whole selection, or the recovery suite broke
\* off after a case that did not pass.
THEOREM WholeSelectionIsRun == RunnersSpec => []NothingSkipped
<1>1. RunnersIInv => NothingSkipped
  BY DEF RunnersIInv
<1>. QED BY <1>1, RunnersInvariance, PTL
=============================================================================
