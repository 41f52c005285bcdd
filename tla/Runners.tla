------------------------------ MODULE Runners ------------------------------
(***************************************************************************)
(* The four runners as clients of the suite executor: the API suite        *)
(* (src/Runner.ts), recovery (src/Recovery.ts), the multinode, fleet and   *)
(* resilience suites (src/Multinode.ts) and qualification                  *)
(* (src/Qualification.ts).                                                 *)
(*                                                                         *)
(* SuiteExecutor lets its client do anything.  Here the client is one of   *)
(* the runners: a program of setup steps, acquisitions, cases and scopes   *)
(* that the runner works through, while signals, timers, cleanups and      *)
(* reports stay the executor's.                                            *)
(***************************************************************************)
EXTENDS SuiteExecutor, SequencesExt

CONSTANTS
  Cases,        \* of each runner: the selected cases, in their registry's order
  Fixture,      \* the fixture an API case runs on
  Groups,       \* the fixtures in the runner's order, Runner.ts lines 124-130
  Deployments,  \* the identities of the deployment checks, in order
  Local         \* the candidate is celld, not a second workerd

\* Line 105: the executor is given the cases and the deployment checks, which
\* there are with the core fixture on celld only; no identity is selected twice
\* (SuiteExecutor.ts line 36).
ASSUME RunnersAssumption ==
  /\ DOMAIN Cases = {"api", "recovery", "stages", "qualification"}
  /\ \A k \in DOMAIN Cases :
       /\ Ids = ToSet(Cases[k]) \cup (IF k = "api" THEN ToSet(Deployments) ELSE {})
       /\ Cases[k] \in Seq(Ids)
       /\ \A i, j \in DOMAIN Cases[k] : Cases[k][i] = Cases[k][j] => i = j
  /\ Deployments \in Seq(Ids) /\ Groups \in Seq(ToSet(Groups))
  /\ Fixture \in [ToSet(Cases["api"]) -> ToSet(Groups)]
  /\ Local \in BOOLEAN
  /\ Deployments # <<>> <=> Local /\ \E id \in DOMAIN Fixture : Fixture[id] = "core"

Kinds == DOMAIN Cases

VARIABLES
  kind,         \* the runner
  pos,          \* its next step
  evaluating,   \* the case that evaluate is judging, or Nothing
  deployed      \* the body of the case under way has acquired its cluster

runnerVars == <<kind, pos, evaluating, deployed>>
allVars == <<vars, runnerVars>>

-----------------------------------------------------------------------------
(* What the runners own: the processes and containers of an environment.   *)

Reference(fixture) == <<fixture, "reference">>
Candidate(fixture) == <<fixture, "candidate">>
Cluster(id)        == <<id, "cluster">>
TheCluster         == <<"all", "cluster">>
ASSUME ResourcesAssumption ==
  /\ TheCluster \in Resources /\ \A id \in Ids : Cluster(id) \in Resources
  /\ \A fixture \in ToSet(Groups) : {Reference(fixture), Candidate(fixture)} \subseteq Resources

Owned == {r \in Resources : owner[r] \in {"case", "work"}}

-----------------------------------------------------------------------------
(* The programs.                                                           *)

\* A step of the work that may fail and is no case: provenance, a build, a
\* readiness poll, the decoding of what was collected.
Setup == <<[op |-> "setup"]>>
Take(r) == <<[op |-> "acquire", resource |-> r]>> \o Setup
Case(id, includesSetup, stop) ==
  <<[op |-> "case", id |-> id, includesSetup |-> includesSetup, stop |-> stop]>>
Evaluate(id) == <<[op |-> "evaluate", id |-> id]>>
Deployment(id) ==
  <<[op |-> "deployment", id |-> id]>>
Leave(fixture) ==
  <<[op |-> "leave", resources |-> {Reference(fixture), Candidate(fixture)}]>>

Each(steps(_), ids) == FlattenSeq([i \in DOMAIN ids |-> steps(ids[i])])

\* Lines 174-175.
EvaluateGroup(fixture) ==
  Each(LAMBDA id : IF Fixture[id] = fixture THEN Evaluate(id) ELSE <<>>, Cases["api"])

\* Lines 134-191.  Mutants: a fixture is for all cases or for none; the fixtures
\* share the scope of the work.
GroupOfAll(fixture) ==
  IF \E id \in DOMAIN Fixture : Fixture[id] # fixture THEN <<>>
  ELSE Setup \o Take(Reference(fixture)) \o Setup \o Take(Candidate(fixture))
       \o Setup \o EvaluateGroup(fixture) \o Leave(fixture)
GroupUnscoped(fixture) ==
  IF \A id \in DOMAIN Fixture : Fixture[id] # fixture THEN <<>>
  ELSE Setup \o Take(Reference(fixture)) \o Setup \o Take(Candidate(fixture))
       \o (IF fixture = "core" THEN Each(Deployment, Deployments) ELSE <<>>)
       \o Setup \o EvaluateGroup(fixture)
Group(fixture) ==
  IF \A id \in DOMAIN Fixture : Fixture[id] # fixture THEN <<>>
  ELSE Setup \o Take(Reference(fixture)) \o Setup \o Take(Candidate(fixture))
       \o (IF fixture = "core" THEN Each(Deployment, Deployments) ELSE <<>>)
       \o Setup \o EvaluateGroup(fixture) \o Leave(fixture)

\* Runner.ts lines 110-195.
ApiSuite == Setup \o Each(Group, Groups) \o Setup

\* Recovery.ts lines 124-268: one environment, the cases in it.
RecoveryCase(id) == Case(id, FALSE, FALSE) \o <<[op |-> "unlessPassed", id |-> id]>>
RecoverySuite == Setup \o Take(TheCluster) \o Setup \o Each(RecoveryCase, Cases["recovery"])

\* Multinode.ts lines 191-195 and 370-375.  Mutant: a stage's failure is not
\* the end.
StageContinuing(id) == Case(id, FALSE, FALSE)
Stage(id) == Case(id, FALSE, TRUE)
StagedSuite == Setup \o Take(TheCluster) \o Setup \o Each(Stage, Cases["stages"])

\* Qualification.ts lines 97-143: the environment is the case's.
QualificationCase(id) == Case(id, TRUE, FALSE)
QualificationSuite == Setup \o Each(QualificationCase, Cases["qualification"])

Program ==
  CASE kind = "api"           -> ApiSuite
    [] kind = "recovery"      -> RecoverySuite
    [] kind = "stages"        -> StagedSuite
    [] kind = "qualification" -> QualificationSuite

-----------------------------------------------------------------------------
(* The runner's steps.                                                     *)

RunnersInit ==
  /\ Init /\ kind \in Kinds
  /\ pos = 1 /\ evaluating = Nothing /\ deployed = FALSE

Step == Program[pos]
At(op) == Calling /\ pos <= Len(Program) /\ Step.op = op
Onwards == pos' = pos + 1 /\ UNCHANGED <<kind, evaluating, deployed>>

DoSetup ==
  /\ At("setup")
  /\ \/ Onwards /\ UNCHANGED vars
     \/ WorkEnds("failed") /\ UNCHANGED runnerVars

TakeStep == At("acquire") /\ Acquire(Step.resource) /\ Onwards

\* A case's own timer; the API cases have the suite's alone.  Mutant: the runner
\* gives the case none.
StartCaseUntimed ==
  /\ At("case")
  /\ RunCase(Step.id, FALSE, Step.includesSetup, Step.stop)
  /\ pos' = pos + 1 /\ deployed' = FALSE /\ UNCHANGED <<kind, evaluating>>
StartCase ==
  /\ At("case")
  /\ RunCase(Step.id, TRUE, Step.includesSetup, Step.stop)
  /\ pos' = pos + 1 /\ deployed' = FALSE /\ UNCHANGED <<kind, evaluating>>

\* Recovery.ts line 267.  Mutants: the break goes past the end; the next case is
\* run whatever happened.
BreakPastEnd ==
  /\ At("unlessPassed")
  /\ pos' = IF results[Step.id].status = "pass" THEN pos + 1 ELSE Len(Program) + 2
  /\ UNCHANGED <<kind, evaluating, deployed>> /\ UNCHANGED vars
BreakNever == At("unlessPassed") /\ Onwards /\ UNCHANGED vars
BreakUnlessPassed ==
  /\ At("unlessPassed")
  /\ pos' = IF results[Step.id].status = "pass" THEN pos + 1 ELSE Len(Program) + 1
  /\ UNCHANGED <<kind, evaluating, deployed>> /\ UNCHANGED vars

\* What checkDeployment can say (DeploymentChecks.ts lines 57-104): the control
\* has passed, or the candidate was never acquired.
DeploymentStatuses(id) == IF id = Deployments[1] THEN {"pass"} ELSE {"pass", "fail"}

\* Runner.ts lines 163-171.
RecordDeployment(status, written) ==
  /\ At("deployment") /\ status \in DeploymentStatuses(Step.id)
  /\ Record(Step.id, status, written) /\ Onwards

\* Lines 176-189.  evaluate answers with a result whatever its calls did, except
\* that an interruption of it is one of the work (module Oracle).
BeginEvaluation ==
  /\ At("evaluate") /\ evaluating = Nothing
  /\ evaluating' = Step.id /\ UNCHANGED <<kind, pos, deployed>> /\ UNCHANGED vars

OracleStatuses ==
  {"pass", "fail", "reference-error"}
  \cup (IF Local THEN {"divergence", "known-bug"} ELSE {})

EndEvaluation(status, written) ==
  /\ Calling /\ evaluating # Nothing /\ status \in OracleStatuses
  /\ Record(evaluating, status, written)
  /\ evaluating' = Nothing /\ pos' = pos + 1 /\ UNCHANGED <<kind, deployed>>

\* The fixture's scope is left when its finalizers have run, last one first.
LeaveScope ==
  /\ At("leave") /\ Step.resources \cap Owned = {}
  /\ Onwards /\ UNCHANGED vars

WorkReturns == Calling /\ pos = Len(Program) + 1 /\ WorkEnds("ok") /\ UNCHANGED runnerVars

-----------------------------------------------------------------------------
(* The body of a case.                                                     *)

\* Qualification.ts lines 104-134: a build, the cluster, then ready.
DeployCluster ==
  /\ kind = "qualification" /\ stage = "body" /\ ~deployed
  /\ Acquire(Cluster(cur))
  /\ deployed' = TRUE /\ UNCHANGED <<kind, pos, evaluating>>

ContextReady == deployed /\ Ready /\ UNCHANGED runnerVars

Body ==
  \/ DeployCluster \/ ContextReady
  \/ (setupDone \/ kind # "qualification") /\ BodySucceeds /\ UNCHANGED runnerVars
  \/ BodyFails /\ UNCHANGED runnerVars

-----------------------------------------------------------------------------
(* The executor's steps.  A finalizer runs when its scope closes: while the *)
(* work goes on that is a fixture's, the candidate before the reference.    *)

MayClose(r) ==
  \/ phase = "closing" \/ stage = "closing"
  \/ /\ At("leave") /\ r \in Step.resources
     /\ r[2] = "reference" => Candidate(r[1]) \notin Owned

Finalizers ==
  \E r \in Resources :
    MayClose(r) /\ (Release(r) \/ ReleaseFails(r) \/ ReleaseDies(r))

Finalize == Finalizers /\ UNCHANGED runnerVars

Continue ==
  /\ \/ CaseClosed \/ \E written \in BOOLEAN : RecordCase(written)
     \/ WorkClosed
     \/ \E written \in BOOLEAN : WriteJson(written) \/ WriteJunit(written)
     \/ Finish
  /\ UNCHANGED runnerVars

\* Only qualification has no deadline for the whole suite.
SuiteTimer == kind # "qualification" /\ Deadline

Interruptions ==
  (Signal \/ SuiteTimer \/ CaseTimeout \/ CaseInterrupted \/ WorkInterrupted)
  /\ UNCHANGED runnerVars

RunnerStep ==
  \/ DoSetup \/ TakeStep \/ StartCase \/ BreakUnlessPassed \/ BeginEvaluation
  \/ \E status \in Statuses, written \in BOOLEAN :
       RecordDeployment(status, written) \/ EndEvaluation(status, written)
  \/ LeaveScope \/ WorkReturns

RunnersNext == RunnerStep \/ Body \/ Finalize \/ Continue \/ Interruptions

RunnersSpec == RunnersInit /\ [][RunnersNext]_allVars

\* As in SuiteExecutor, and the runner goes from one step to the next.  Bodies
\* and evaluations may hang.
RunnersFair ==
  /\ RunnersSpec
  /\ WF_allVars((SuiteTimer \/ CaseTimeout) /\ UNCHANGED runnerVars)
  /\ WF_allVars((CaseInterrupted \/ WorkInterrupted) /\ UNCHANGED runnerVars)
  /\ WF_allVars(Finalize \/ Continue)
  /\ WF_allVars(DoSetup \/ TakeStep \/ StartCase \/ BreakUnlessPassed
                \/ LeaveScope \/ WorkReturns)

-----------------------------------------------------------------------------
(* Properties.                                                             *)

RunnersTypeOK ==
  /\ TypeOK /\ kind \in Kinds /\ pos \in 1..(Len(Program) + 1)
  /\ evaluating \in Ids \cup {Nothing} /\ deployed \in BOOLEAN

\* Fixtures, and clusters of different cases, are never up together: the
\* finalizers of an environment have run before the next is acquired; and a case
\* of the API suite is judged while exactly its own fixture's reference and
\* candidate are up (Runner.ts lines 134-192, Qualification.ts lines 101-141).
EnvironmentsAreSeparate ==
  /\ \A r, s \in Owned : r[1] = s[1]
  /\ evaluating # Nothing /\ phase = "work" /\ kind = "api" =>
       LET fixture == Fixture[evaluating]
       IN  Owned = {Reference(fixture), Candidate(fixture)}

\* Recovery.ts line 266 and Multinode.ts line 194: where one environment serves
\* all cases, none is run after one that did not pass.
NoCascade ==
  kind \in {"recovery", "stages"} =>
    \A j \in DOMAIN Cases[kind] : Cases[kind][j] \in ran =>
      \A i \in 1..(j - 1) : results[Cases[kind][i]].status = "pass"

\* Work that returns has run every selected case and deployment check, or
\* broke off after a recovery case that did not pass: no case is left out by
\* the selection of fixtures, and none is skipped because another one failed.
NothingSkipped ==
  workExit = "ok" =>
    \/ ran = Ids
    \/ kind = "recovery" /\ \E id \in ran : results[id].status # "pass"

\* A run ends though cases may hang: by the suite's deadline, or, in
\* qualification, which has none, by each case's own (Qualification.ts line 140).
RunEnds == <>(phase = "done")
=============================================================================
