---------------------------- MODULE Case_proofs ----------------------------
(***************************************************************************)
(* Proofs about one case, at its two ends.  Oracle: a verdict on the       *)
(* candidate is earned, for every registry, version, profile and way the   *)
(* case's calls can end.  ResidentObject: whatever celld does and wherever *)
(* the case is stopped, the fixture, the storage proxy and the peers are   *)
(* what they were when its scope is closed.                                *)
(*                                                                         *)
(* The second needs to know, at each step of a program, what the scope     *)
(* owes.  The steps of a program are labelled with it; a label is shown to *)
(* exist for each step of the sixteen programs, by the operators they are  *)
(* built from, for every sequence of nodes; and the scope's list of        *)
(* finalizers is shown to be what the label of the next step says.         *)
(***************************************************************************)
EXTENDS Oracle, ResidentObject, SequenceLemmas, FiniteSetTheorems

-----------------------------------------------------------------------------
(* How a case is judged.                                                   *)

\* How far evaluate has come, and what is known there.
Started  == stage \notin {"registry", "refused"}
Active   == stage \notin {"ended", "done"}
Judging  == {"judge", "guard", "checkCandidate", "compare", "evidence"}
Quiet    == \A call \in DOMAIN ends : "interrupt" \notin ends[call]
Waivers  == {"divergence", "known-bug"}
Refuted  == \E call \in DOMAIN ends \cap {"checkCandidate", "compare"} :
              ends[call] = {"fail"}

ReferenceInv ==
  /\ status = "reference-error" <=> ~Succeeded("checkReference")
  /\ stage \in {"registry", "refused", "reference", "checkReference"} =>
       status = "reference-error"
  /\ "candidate" \in DOMAIN ends => Succeeded("checkReference")
  /\ stage \in {"candidate"} \cup Judging => Succeeded("checkReference")

CandidateInv ==
  /\ stage \in Judging => Succeeded("candidate")
  /\ stage = "compare" => Succeeded("checkCandidate")
  /\ Active => status \in {"reference-error", "fail"}
  /\ status = "pass" =>
       Succeeded("candidate") /\ Succeeded("checkCandidate") /\ Succeeded("compare")

ExitInv ==
  /\ Active => exit = Success
  /\ "interrupt" \in exit <=> ~Quiet
  /\ result = IF stage = "done" /\ "interrupt" \notin exit THEN status ELSE NoResult

ModeInv ==
  /\ stage \in {"guard", "evidence"} => mode # "plain"
  /\ mode = "divergence" => Divergent
  /\ mode = "known-bug" =>
       Expected /\ run.celld /\ run.policy = "allow" /\ run.id \notin run.divergent

WaiverInv ==
  /\ stage \in {"checkCandidate", "compare", "evidence"} /\ mode # "plain" => Guard
  /\ stage = "evidence" => Refuted
  /\ status \in Waivers =>
       /\ mode = status /\ Guard /\ Succeeded("evidence") /\ Refuted
       /\ status = "known-bug" => value = Expectation.candidate

RegistryInv == Started => validateBugRegistry(registry, run.divergent)

VerdictInv ==
  /\ TypeOK /\ ReferenceInv /\ CandidateInv /\ ExitInv /\ ModeInv
  /\ WaiverInv /\ RegistryInv

-----------------------------------------------------------------------------
\* A call leaves what is known of the other calls as it is.
LEMMA CallFacts ==
  ASSUME TypeOK, NEW name \in Calls, NEW cause \in Causes, ends' = Ending(name, cause)
  PROVE  /\ DOMAIN ends' = DOMAIN ends \cup {name}
         /\ ends'[name] = cause
         /\ \A c \in DOMAIN ends' \ {name} : c \in DOMAIN ends /\ ends'[c] = ends[c]
         /\ \A c \in DOMAIN ends' : ends'[c] \in Causes
<1>1. /\ DOMAIN ends' = DOMAIN ends \cup {name}
      /\ \A c \in DOMAIN ends \cup {name} :
           ends'[c] = IF c = name THEN cause ELSE ends[c]
  BY DEF Ending
<1>. QED  BY <1>1 DEF TypeOK

\* Which calls have succeeded, and what is known of them, after one more.
LEMMA OkFacts ==
  ASSUME TypeOK, NEW name \in Calls, NEW cause \in Causes, ends' = Ending(name, cause)
  PROVE  /\ Succeeded(name)' <=> cause = Success
         /\ \A c \in Calls \ {name} : Succeeded(c)' <=> Succeeded(c)
         /\ Quiet => (Quiet' <=> "interrupt" \notin cause)
         /\ name = "evidence" /\ Refuted => Refuted'
         /\ name \in {"checkCandidate", "compare"} /\ cause = {"fail"} => Refuted'
<1>1. /\ DOMAIN ends' = DOMAIN ends \cup {name}
      /\ ends'[name] = cause
      /\ \A c \in DOMAIN ends' \ {name} : c \in DOMAIN ends /\ ends'[c] = ends[c]
  BY CallFacts
<1>2. Succeeded(name)' <=> cause = Success  BY <1>1 DEF Succeeded
<1>3. \A c \in Calls \ {name} : Succeeded(c)' <=> Succeeded(c)  BY <1>1 DEF Succeeded
<1>4. Quiet => (Quiet' <=> "interrupt" \notin cause)  BY <1>1 DEF Quiet
<1>5. name = "evidence" /\ Refuted => Refuted'  BY <1>1 DEF Refuted
<1>6. name \in {"checkCandidate", "compare"} /\ cause = {"fail"} => Refuted'
  BY <1>1 DEF Refuted
<1>. QED  BY <1>2, <1>3, <1>4, <1>5, <1>6

\* Whether an expectation is in scope depends on what evaluate does not change.
LEMMA ScopeStable ==
  UNCHANGED inputs =>
    /\ Expectation' = Expectation /\ Expected' = Expected /\ Divergent' = Divergent
    /\ mode' = mode => Guard' = Guard
BY DEF inputs, Expectation, Expected, Divergent, Guard

\* Before the first call nothing has succeeded and nothing was waived.
LEMMA VerdictInvInit == OracleInit => VerdictInv
<1>. SUFFICES ASSUME OracleInit PROVE VerdictInv
  OBVIOUS
<1>1. DOMAIN ends = {}  BY DEF OracleInit
<1>2. TypeOK
  BY <1>1 DEF OracleInit, TypeOK, Calls, Causes, ResultStatuses, Success, NoValue, NoResult
<1>3. ~Succeeded("checkReference")  BY <1>1 DEF Succeeded
<1>4. Quiet  BY <1>1 DEF Quiet
<1>. QED
  BY <1>1, <1>2, <1>3, <1>4
  DEF OracleInit, VerdictInv, ReferenceInv, CandidateInv, ExitInv, ModeInv, WaiverInv, RegistryInv,
      Active, Started, Judging, Waivers, Success, NoResult

\* The registry and the settings never change; what was validated stays valid.
LEMMA RegistryStep == VerdictInv /\ [OracleNext]_oracleVars => RegistryInv'
<1>. SUFFICES ASSUME VerdictInv, [OracleNext]_oracleVars PROVE RegistryInv'
  OBVIOUS
<1>1. UNCHANGED inputs /\ (Started' => Started \/ ValidateRegistry)
  BY DEF oracleVars, inputs, OracleNext, ValidateRegistry, ChoosePath, CheckGuard, Return,
         RunReference,
         CheckReference, RunCandidate, CheckCandidate, Compare, CheckEvidence, Call,
         Ended, NonConforming, Started
<1>2. CASE ValidateRegistry
  BY <1>1, <1>2 DEF ValidateRegistry, inputs, RegistryInv, Started
<1>3. CASE Started
  BY <1>1, <1>3 DEF VerdictInv, RegistryInv, inputs
<1>. QED  BY <1>1, <1>2, <1>3 DEF RegistryInv

\* Steps that make no call.
LEMMA QuietSteps ==
  ASSUME VerdictInv, ValidateRegistry \/ ChoosePath \/ CheckGuard \/ Return
  PROVE  TypeOK' /\ ReferenceInv' /\ CandidateInv' /\ ExitInv' /\ ModeInv' /\ WaiverInv'
<1>1. UNCHANGED inputs /\ UNCHANGED <<ends, value, status>>
  BY DEF ValidateRegistry, ChoosePath, CheckGuard, Return, inputs
<1>2. /\ \A c \in Calls : Succeeded(c)' = Succeeded(c)
      /\ Quiet' = Quiet /\ Refuted' = Refuted
      /\ Expectation' = Expectation /\ Expected' = Expected /\ Divergent' = Divergent
      /\ mode' = mode => Guard' = Guard
  <2>1. UNCHANGED ends
    BY <1>1
  <2>2. /\ \A c \in Calls : Succeeded(c)' = Succeeded(c)
        /\ Quiet' = Quiet /\ Refuted' = Refuted
    BY <2>1 DEF Succeeded, Quiet, Refuted
  <2>3. /\ Expectation' = Expectation /\ Expected' = Expected /\ Divergent' = Divergent
        /\ mode' = mode => Guard' = Guard
    BY <1>1, ScopeStable
  <2>. QED BY <2>2, <2>3
<1>3. CASE ValidateRegistry
  BY <1>2, <1>3 DEF ValidateRegistry, VerdictInv, TypeOK, ReferenceInv, CandidateInv, ExitInv,
     ModeInv, WaiverInv, Active, Judging, Waivers, Calls, inputs
<1>4. CASE ChoosePath
  BY <1>2, <1>4 DEF ChoosePath, VerdictInv, TypeOK, ReferenceInv, CandidateInv, ExitInv,
     ModeInv, WaiverInv, Active, Judging, Waivers, Calls, inputs, Settings, Divergent
<1>5. CASE CheckGuard
  <2>1. /\ stage = "guard" /\ registry' = registry /\ run' = run /\ mode' = mode
        /\ Guard' = Guard /\ ends' = ends /\ value' = value /\ status' = status
        /\ result' = result
        /\ \/ stage' = "checkCandidate" /\ Guard /\ exit' = exit
           \/ stage' = "ended" /\ exit' = {"fail"}
    BY <1>2, <1>5 DEF CheckGuard, Ended, inputs
  <2>. QED
    BY <2>1, <1>2 DEF VerdictInv, TypeOK, ReferenceInv, CandidateInv, ExitInv, ModeInv,
       WaiverInv, Active, Judging, Waivers, Calls, Causes, Success
<1>6. CASE Return
  BY <1>2, <1>6 DEF Return, VerdictInv, TypeOK, ReferenceInv, CandidateInv, ExitInv,
     ModeInv, WaiverInv, Active, Judging, Waivers, Calls, inputs
<1>. QED  BY <1>3, <1>4, <1>5, <1>6

\* The reference's run, its check, and the candidate's run end the inner program
\* unless they succeed.
LEMMA RunSteps ==
  ASSUME VerdictInv, NEW cause \in Causes,
         RunReference(cause) \/ CheckReference(cause) \/ RunCandidate(cause)
  PROVE  TypeOK' /\ ReferenceInv' /\ CandidateInv' /\ ExitInv' /\ ModeInv' /\ WaiverInv'
<1>1. /\ UNCHANGED inputs /\ mode' = mode /\ result' = result
      /\ registry' = registry /\ run' = run
      /\ Expectation' = Expectation /\ Expected' = Expected /\ Divergent' = Divergent
      /\ Guard' = Guard
  BY ScopeStable DEF RunReference, CheckReference, RunCandidate, inputs
<1>2. CASE RunReference(cause)
  <2>1. /\ stage = "reference" /\ ends' = Ending("reference", cause) /\ "reference" \in Calls
        /\ \/ cause = Success /\ stage' = "checkReference" /\ exit' = exit
           \/ cause # Success /\ stage' = "ended" /\ exit' = cause
    BY <1>2 DEF RunReference, Call, Ended, Calls
  <2>2. /\ DOMAIN ends' = DOMAIN ends \cup {"reference"}
        /\ \A c \in DOMAIN ends' : ends'[c] \in Causes
        /\ Succeeded("reference")' <=> cause = Success
        /\ \A c \in Calls \ {"reference"} : Succeeded(c)' <=> Succeeded(c)
        /\ Quiet => (Quiet' <=> "interrupt" \notin cause)
    BY <2>1, CallFacts, OkFacts DEF VerdictInv
  <2>. QED
    BY <1>1, <2>1, <2>2, <1>2 DEF RunReference, VerdictInv, TypeOK, ReferenceInv, CandidateInv,
       ExitInv,
       ModeInv, WaiverInv, Active, Judging, Waivers, Calls, Success, ResultStatuses
<1>3. CASE CheckReference(cause)
  <2>1. /\ stage = "checkReference" /\ ends' = Ending("checkReference", cause)
        /\ "checkReference" \in Calls
        /\ \/ cause = Success /\ stage' = "candidate" /\ exit' = exit
           \/ cause # Success /\ stage' = "ended" /\ exit' = cause
    BY <1>3 DEF CheckReference, Call, Ended, Calls
  <2>2. /\ DOMAIN ends' = DOMAIN ends \cup {"checkReference"}
        /\ \A c \in DOMAIN ends' : ends'[c] \in Causes
        /\ Succeeded("checkReference")' <=> cause = Success
        /\ \A c \in Calls \ {"checkReference"} : Succeeded(c)' <=> Succeeded(c)
        /\ Quiet => (Quiet' <=> "interrupt" \notin cause)
    BY <2>1, CallFacts, OkFacts DEF VerdictInv
  <2>. QED
    BY <1>1, <2>1, <2>2, <1>3 DEF CheckReference, VerdictInv, TypeOK, ReferenceInv, CandidateInv,
       ExitInv,
       ModeInv, WaiverInv, Active, Judging, Waivers, Calls, Success, ResultStatuses
<1>4. CASE RunCandidate(cause)
  <2>1. /\ stage = "candidate" /\ ends' = Ending("candidate", cause) /\ "candidate" \in Calls
        /\ \/ cause = Success /\ stage' = "judge" /\ exit' = exit
           \/ cause # Success /\ stage' = "ended" /\ exit' = cause
    BY <1>4 DEF RunCandidate, Call, Ended, Calls
  <2>2. /\ DOMAIN ends' = DOMAIN ends \cup {"candidate"}
        /\ \A c \in DOMAIN ends' : ends'[c] \in Causes
        /\ Succeeded("candidate")' <=> cause = Success
        /\ \A c \in Calls \ {"candidate"} : Succeeded(c)' <=> Succeeded(c)
        /\ Quiet => (Quiet' <=> "interrupt" \notin cause)
    BY <2>1, CallFacts, OkFacts DEF VerdictInv
  <2>. QED
    BY <1>1, <2>1, <2>2, <1>4 DEF RunCandidate, VerdictInv, TypeOK, ReferenceInv, CandidateInv,
       ExitInv,
       ModeInv, WaiverInv, Active, Judging, Waivers, Calls, Success, ResultStatuses
<1>. QED  BY <1>2, <1>3, <1>4

\* A candidate that did not conform for a reason of its own failed, and nothing else.
LEMMA NonConformingFacts ==
  ASSUME NEW cause \in Causes, cause # Success, NonConforming(cause)
  PROVE  \/ stage' = "ended" /\ exit' = cause
         \/ stage' = "evidence" /\ exit' = exit /\ cause = {"fail"}
BY DEF NonConforming, Ended, Causes, Success

\* The case's own check of the candidate's value.
LEMMA CheckStep ==
  ASSUME VerdictInv, NEW cause \in Causes, CheckCandidate(cause)
  PROVE  TypeOK' /\ ReferenceInv' /\ CandidateInv' /\ ExitInv' /\ ModeInv' /\ WaiverInv'
<1>1. /\ registry' = registry /\ run' = run /\ mode' = mode /\ result' = result
      /\ Expectation' = Expectation /\ Expected' = Expected /\ Divergent' = Divergent
      /\ Guard' = Guard
      /\ ends' = Ending("checkCandidate", cause) /\ "checkCandidate" \in Calls
  BY ScopeStable DEF CheckCandidate, inputs, Calls
<1>2. /\ DOMAIN ends' = DOMAIN ends \cup {"checkCandidate"}
      /\ \A c \in DOMAIN ends' : ends'[c] \in Causes
      /\ Succeeded("checkCandidate")' <=> cause = Success
      /\ \A c \in Calls \ {"checkCandidate"} : Succeeded(c)' <=> Succeeded(c)
      /\ Quiet => (Quiet' <=> "interrupt" \notin cause)
      /\ cause = {"fail"} => Refuted'
  BY <1>1, CallFacts, OkFacts DEF VerdictInv
<1>3. \/ cause = Success /\ stage' = "compare" /\ exit' = exit
      \/ cause # Success /\ stage' = "ended" /\ exit' = cause
      \/ cause = {"fail"} /\ mode # "plain" /\ stage' = "evidence" /\ exit' = exit
  BY NonConformingFacts DEF CheckCandidate, Ended
<1>. QED
  BY <1>1, <1>2, <1>3 DEF CheckCandidate, VerdictInv, TypeOK, ReferenceInv, CandidateInv, ExitInv,
     ModeInv, WaiverInv, Active, Judging, Waivers, Calls, Success, Causes, ResultStatuses

\* The comparison passes a plain case, and ends a waiver whose candidate conforms.
LEMMA CompareStep ==
  ASSUME VerdictInv, NEW cause \in Causes, Compare(cause)
  PROVE  TypeOK' /\ ReferenceInv' /\ CandidateInv' /\ ExitInv' /\ ModeInv' /\ WaiverInv'
<1>1. /\ registry' = registry /\ run' = run /\ mode' = mode /\ result' = result
      /\ Expectation' = Expectation /\ Expected' = Expected /\ Divergent' = Divergent
      /\ Guard' = Guard
      /\ ends' = Ending("compare", cause) /\ "compare" \in Calls
  BY ScopeStable DEF Compare, inputs, Calls
<1>2. /\ DOMAIN ends' = DOMAIN ends \cup {"compare"}
      /\ \A c \in DOMAIN ends' : ends'[c] \in Causes
      /\ Succeeded("compare")' <=> cause = Success
      /\ \A c \in Calls \ {"compare"} : Succeeded(c)' <=> Succeeded(c)
      /\ Quiet => (Quiet' <=> "interrupt" \notin cause)
      /\ cause = {"fail"} => Refuted'
  BY <1>1, CallFacts, OkFacts DEF VerdictInv
<1>3. CASE mode = "plain"
  <2>1. /\ stage' = "ended" /\ exit' = cause
        /\ status' = IF cause = Success THEN "pass" ELSE status
    BY <1>3 DEF Compare, Ended
  <2>. QED
    BY <1>1, <1>2, <1>3, <2>1 DEF Compare, VerdictInv, TypeOK, ReferenceInv, CandidateInv, ExitInv,
     ModeInv, WaiverInv, Active, Judging, Waivers, Calls, Success, Causes, ResultStatuses
<1>4. CASE mode # "plain"
  <2>1. /\ status' = status
        /\ \/ cause = Success /\ stage' = "ended" /\ exit' = {"fail"}
           \/ cause # Success /\ stage' = "ended" /\ exit' = cause
           \/ cause = {"fail"} /\ stage' = "evidence" /\ exit' = exit
    BY <1>4, NonConformingFacts DEF Compare, Ended
  <2>. QED
    BY <1>1, <1>2, <1>4, <2>1 DEF Compare, VerdictInv, TypeOK, ReferenceInv, CandidateInv, ExitInv,
     ModeInv, WaiverInv, Active, Judging, Waivers, Calls, Success, Causes, ResultStatuses
<1>. QED  BY <1>3, <1>4

\* The evidence gives the case the status of its waiver.
LEMMA EvidenceStep ==
  ASSUME VerdictInv, NEW cause \in Causes, CheckEvidence(cause)
  PROVE  TypeOK' /\ ReferenceInv' /\ CandidateInv' /\ ExitInv' /\ ModeInv' /\ WaiverInv'
<1>1. /\ registry' = registry /\ run' = run /\ mode' = mode /\ result' = result
      /\ Expectation' = Expectation /\ Expected' = Expected /\ Divergent' = Divergent
      /\ Guard' = Guard
      /\ ends' = Ending("evidence", cause) /\ "evidence" \in Calls
  BY ScopeStable DEF CheckEvidence, inputs, Calls
<1>2. /\ DOMAIN ends' = DOMAIN ends \cup {"evidence"}
      /\ \A c \in DOMAIN ends' : ends'[c] \in Causes
      /\ Succeeded("evidence")' <=> cause = Success
      /\ \A c \in Calls \ {"evidence"} : Succeeded(c)' <=> Succeeded(c)
      /\ Quiet => (Quiet' <=> "interrupt" \notin cause)
      /\ Refuted => Refuted'
  BY <1>1, CallFacts, OkFacts DEF VerdictInv
<1>3. /\ stage = "evidence" /\ stage' = "ended" /\ exit' = cause /\ value' = value
      /\ status' = IF cause = Success THEN mode ELSE status
      /\ mode = "known-bug" /\ cause = Success => value = Expectation.candidate
  BY DEF CheckEvidence, Ended, SameEvidence, Success
<1>. QED
  BY <1>1, <1>2, <1>3 DEF CheckEvidence, VerdictInv, TypeOK, ReferenceInv, CandidateInv, ExitInv,
     ModeInv, WaiverInv, Active, Judging, Waivers, Calls, Success, Causes, ResultStatuses

\* Every step of evaluate keeps what its verdict rests on.
LEMMA VerdictInvStep == VerdictInv /\ [OracleNext]_oracleVars => VerdictInv'
<1>. SUFFICES ASSUME VerdictInv, [OracleNext]_oracleVars PROVE VerdictInv'
  OBVIOUS
<1>1. RegistryInv'  BY RegistryStep
<1>2. CASE ValidateRegistry \/ ChoosePath \/ CheckGuard \/ Return
  BY <1>1, <1>2, QuietSteps DEF VerdictInv
<1>3. ASSUME NEW cause \in Causes,
             \/ RunReference(cause) \/ CheckReference(cause) \/ RunCandidate(cause)
             \/ CheckCandidate(cause) \/ Compare(cause) \/ CheckEvidence(cause)
      PROVE  VerdictInv'
  BY <1>1, <1>3, RunSteps, CheckStep, CompareStep, EvidenceStep DEF VerdictInv
<1>4. CASE UNCHANGED oracleVars
  <2>1. UNCHANGED ends /\ UNCHANGED inputs /\ UNCHANGED mode
    BY <1>4 DEF oracleVars, inputs
  <2>2. /\ \A c \in Calls : Succeeded(c)' = Succeeded(c)
        /\ Quiet' = Quiet /\ Refuted' = Refuted
    BY <2>1 DEF Succeeded, Quiet, Refuted
  <2>3. /\ Expectation' = Expectation /\ Expected' = Expected /\ Divergent' = Divergent
        /\ Guard' = Guard
    BY <2>1, ScopeStable
  <2>. QED
    BY <1>1, <1>4, <2>2, <2>3 DEF oracleVars, inputs, VerdictInv, TypeOK, ReferenceInv,
       CandidateInv, ExitInv, ModeInv, WaiverInv, Active, Judging, Waivers, Calls
<1>. QED  BY <1>2, <1>3, <1>4 DEF OracleNext

-----------------------------------------------------------------------------
\* evaluate keeps its inductive invariant.
THEOREM VerdictInductive == OracleSpec => []VerdictInv
<1>1. OracleInit => VerdictInv  BY VerdictInvInit
<1>2. VerdictInv /\ [OracleNext]_oracleVars => VerdictInv'  BY VerdictInvStep
<1>. QED  BY <1>1, <1>2, PTL DEF OracleSpec

\* The variables of evaluate stay within their types.
THEOREM OracleTypeCorrect == OracleSpec => []TypeOK
<1>1. VerdictInv => TypeOK  BY DEF VerdictInv
<1>. QED  BY <1>1, VerdictInductive, PTL

\* A case passes only if both values satisfied its check and then agreed; and
\* the candidate neither runs nor is blamed before the reference has passed
\* (Oracle.ts lines 42-52, 125-127), whatever the values are.
THEOREM VerdictEarned == OracleSpec => []VerdictIsEarned
<1>1. VerdictInv => VerdictIsEarned
  BY DEF VerdictInv, ReferenceInv, CandidateInv, ExitInv, VerdictIsEarned, NoResult
<1>. QED  BY <1>1, VerdictInductive, PTL

\* A candidate is waived only in the scope that was reviewed, failing for a
\* reason of its own and with the recorded evidence (lines 56-124).
THEOREM WaiverEarned == OracleSpec => []WaiverIsEarned
<1>1. VerdictInv => WaiverIsEarned
  <2>. SUFFICES ASSUME VerdictInv, result \in Waivers PROVE WaiverIsEarned
    BY DEF WaiverIsEarned, Waivers
  <2>1. status = result
    BY DEF VerdictInv, ExitInv, Waivers, NoResult
  <2>2. mode = status /\ Guard /\ Succeeded("evidence") /\ Refuted
    BY <2>1 DEF VerdictInv, WaiverInv
  <2>3. run.celld
    BY <2>1, <2>2 DEF VerdictInv, ModeInv, Divergent, Waivers
  <2>4. result = "known-bug" => value = Expectation.candidate
    BY <2>1 DEF VerdictInv, WaiverInv
  <2>. QED  BY <2>2, <2>3, <2>4 DEF WaiverIsEarned, Refuted
<1>. QED  BY <1>1, VerdictInductive, PTL

\* Interruptions of the case's calls, and nothing else, leave it without a
\* result (lines 130-131).
THEOREM InterruptionPropagates == OracleSpec => []InterruptionsPropagate
<1>1. VerdictInv => InterruptionsPropagate
  BY DEF VerdictInv, TypeOK, ExitInv, InterruptionsPropagate, Quiet, NoResult, ResultStatuses
<1>. QED  BY <1>1, VerdictInductive, PTL

\* The entry found for a case in a validated registry is an entry for it.
LEMMA ExpectationIsOne ==
  ASSUME registry \in Registries, validateBugRegistry(registry, run.divergent), Expected
  PROVE  /\ \A bugId \in Members(Expectation.bugIds) : IsOpen(registry.bugs, bugId)
         /\ Distinct(BugNames(registry.bugs))
<1>. DEFINE book == registry.expectations
            S == Claims(registry, run.id)
<1>1. PICK n \in Nat : DOMAIN book = 1..n  BY RegistriesAssumption
<1>2. PICK i \in S : TRUE  BY DEF Expected
<1>3. ASSUME NEW j \in S PROVE j = i
  <2>1. i \in DOMAIN book /\ j \in DOMAIN book /\ book[i].caseId = book[j].caseId
    BY <1>2, <1>3 DEF Claims
  <2>2. \A k \in DOMAIN book : \A l \in 1..(k - 1) : book[l].caseId # book[k].caseId
    BY DEF validateBugRegistry
  <2>3. i \in 1..n /\ j \in 1..n  BY <1>1, <2>1
  <2>4. j \notin 1..(i - 1)  BY <2>1, <2>2
  <2>5. i \notin 1..(j - 1)  BY <2>1, <2>2
  <2>. QED  BY <2>3, <2>4, <2>5
<1>4. i \in Nat  BY <1>1, <1>2 DEF Claims
<1>5. First(S) = i
  <2>1. i \in S /\ \A j \in S : i <= j  BY <1>2, <1>3, <1>4
  <2>2. First(S) \in S  BY <2>1 DEF First
  <2>. QED  BY <2>2, <1>3
<1>6. Expectation = book[i]  BY <1>5 DEF Expectation, ExpectationFor
<1>7. i \in DOMAIN book  BY <1>2 DEF Claims
<1>8. ValidExpectation(registry.bugs, book[i], run.divergent)
  BY <1>7 DEF validateBugRegistry
<1>. QED  BY <1>6, <1>8 DEF ValidExpectation, validateBugRegistry

\* A known bug excuses a candidate only while it is open, under --known-bugs
\* allow, and where no divergence is documented (KnownBugs.ts lines 40-53).
THEOREM OnlyOpenBugs == OracleSpec => []OnlyOpenBugsWaive
<1>1. VerdictInv => OnlyOpenBugsWaive
  <2>. SUFFICES ASSUME VerdictInv, result = "known-bug" PROVE OnlyOpenBugsWaive
    BY DEF OnlyOpenBugsWaive
  <2>1. status = "known-bug" /\ stage = "done"
    BY DEF VerdictInv, ExitInv, NoResult
  <2>2. Expected /\ run.policy = "allow" /\ run.id \notin run.divergent
    BY <2>1 DEF VerdictInv, WaiverInv, ModeInv, Waivers
  <2>3. registry \in Registries /\ validateBugRegistry(registry, run.divergent)
    BY <2>1 DEF VerdictInv, TypeOK, RegistryInv, Started
  <2>4. \A bugId \in Members(Expectation.bugIds) : IsOpen(registry.bugs, bugId)
    BY <2>2, <2>3, ExpectationIsOne
  <2>5. Distinct(BugNames(registry.bugs))
    BY <2>2, <2>3, ExpectationIsOne
  <2>6. ASSUME NEW bug \in Members(registry.bugs), IsOpen(registry.bugs, bug.id)
        PROVE  bug.status = "open"
    <3>1. PICK i \in DOMAIN registry.bugs : bug = registry.bugs[i]
      BY <2>6 DEF Members
    <3>2. PICK j \in DOMAIN registry.bugs :
            registry.bugs[j].id = bug.id /\ registry.bugs[j].status = "open"
      BY <2>6 DEF IsOpen, Members
    <3>3. i = j  BY <2>5, <3>1, <3>2 DEF Distinct, BugNames
    <3>. QED  BY <3>1, <3>2, <3>3
  <2>. QED  BY <2>2, <2>4, <2>6 DEF OnlyOpenBugsWaive
<1>. QED  BY <1>1, VerdictInductive, PTL

-----------------------------------------------------------------------------
(* What the scope owes.                                                    *)

\* What a case has to put back before a step: the fixture, the proxy's mode, the
\* peers it has cut off; or these and one more, which it has not cut off yet.
Label(owed, cut) == [owed |-> owed, cut |-> cut]
Source     == Label("source", 0)
Proxy      == Label("proxy", 0)
Peers(k)   == Label("peers", k)
Guarded(k) == Label("guarded", k)
Nothing    == Peers(0)
Labels == [owed : {"source", "proxy", "peers", "guarded"}, cut : 0 .. Len(Order) - 1]

\* A step that disturbs nothing.
Still(e) ==
  /\ e.op \notin {"replace", "release", "guardProxy", "guardPeer", "cutPeer", "reconnect"}
  /\ e.op = "mode" => e.mode = "normal"

\* A step taken with what label a says leaves what label b says.
StepLeads(e, a, b) ==
  /\ Still(e) => b = a
  /\ e.op = "replace"    => a = Nothing /\ b = Source
  /\ e.op = "release"    => a = Source /\ b = Nothing
  /\ e.op = "guardProxy" => a = Nothing /\ b = Proxy
  /\ e.op = "mode"       => b = a /\ (e.mode # "normal" => a = Proxy)
  /\ e.op = "guardPeer"  => \E k \in 0 .. Len(Order) - 2 : a = Peers(k) /\ b = Guarded(k)
  /\ e.op = "cutPeer"    => \E k \in 0 .. Len(Order) - 2 : a = Guarded(k) /\ b = Peers(k + 1)
  /\ e.op = "reconnect"  => \E k \in 0 .. Len(Order) - 2 : a = Peers(k + 1) /\ b = Peers(k)

\* h labels the steps of the program p, and its end.
Marks(p, h) ==
  /\ \A i \in 1 .. Len(p) + 1 : h[i] \in Labels
  /\ \A i \in 1..Len(p) : StepLeads(p[i], h[i], h[i + 1])

\* p is a program, or a part of one, that leads from label a to label b.
Leads(p, a, b) ==
  /\ \E S : p \in Seq(S)
  /\ \E h : h[1] = a /\ h[Len(p) + 1] = b /\ Marks(p, h)

\* A part of a program that disturbs nothing, and a program that has taken back
\* what it disturbed.
StillPart(p) == (\E S : p \in Seq(S)) /\ \A i \in 1..Len(p) : Still(p[i])
TakesBack(p) == Leads(p, Nothing, Nothing)

\* The order of the nodes is a sequence of at least two.
LEMMA OrderFacts ==
  /\ Order \in Seq(Nodes) /\ Len(Order) \in Nat /\ Len(Order) > 1
  /\ DOMAIN Order = 1..Len(Order)
  /\ \A i \in 1..Len(Order) : Order[i] \in Nodes
  /\ Cardinality(Nodes) = Len(Order)
BY ObjectOrderAssumption, LenProperties, ElementOfSeq

\* The labels there are.
LEMMA LabelFacts ==
  /\ Nothing \in Labels /\ Source \in Labels /\ Proxy \in Labels
  /\ \A k \in 0 .. Len(Order) - 1 : Peers(k) \in Labels
  /\ \A k \in 0 .. Len(Order) - 2 :
       Guarded(k) \in Labels /\ Peers(k) \in Labels /\ Peers(k + 1) \in Labels
BY OrderFacts DEF Labels, Nothing, Source, Proxy, Peers, Guarded, Label

\* One step.
LEMMA OneLeads ==
  ASSUME NEW a \in Labels, NEW b \in Labels, NEW e, StepLeads(e, a, b)
  PROVE  Leads(<<e>>, a, b)
<1>. PICK p : p = <<e>>
  OBVIOUS
<1>1. p \in Seq({e}) /\ Len(p) = 1 /\ p[1] = e
  OBVIOUS
<1>2. PICK h : h = [i \in 1..2 |-> IF i = 1 THEN a ELSE b]
  OBVIOUS
<1>3. h[1] = a /\ h[Len(p) + 1] = b /\ \A i \in 1 .. Len(p) + 1 : h[i] \in Labels
  BY <1>1, <1>2
<1>4. \A i \in 1..Len(p) : i = 1 /\ i + 1 = 2
  BY <1>1
<1>5. Marks(p, h)
  BY <1>1, <1>2, <1>3, <1>4 DEF Marks
<1>. QED BY <1>1, <1>3, <1>5 DEF Leads

\* One part behind another one that leads to where it begins.
LEMMA ConcatLeads ==
  ASSUME NEW p, NEW q, NEW a, NEW b, NEW c, Leads(p, a, b), Leads(q, b, c)
  PROVE  Leads(p \o q, a, c)
<1>. DEFINE r == p \o q
<1>1. /\ \E S : p \in Seq(S)
      /\ \E S : q \in Seq(S)
  BY DEF Leads
<1>2. /\ \E S : r \in Seq(S)
      /\ Len(p) \in Nat /\ Len(q) \in Nat
      /\ Len(r) = Len(p) + Len(q)
      /\ \A i \in 1..Len(p) : r[i] = p[i]
      /\ \A i \in 1..Len(q) : r[Len(p) + i] = q[i]
  BY <1>1, ConcatOfParts
<1>. HIDE DEF r
<1>3. PICK f : f[1] = a /\ f[Len(p) + 1] = b /\ Marks(p, f)
  BY DEF Leads
<1>4. PICK g : g[1] = b /\ g[Len(q) + 1] = c /\ Marks(q, g)
  BY DEF Leads
<1>. DEFINE h == [i \in 1 .. Len(r) + 1 |-> IF i <= Len(p) THEN f[i] ELSE g[i - Len(p)]]
<1>5. /\ \A i \in 1 .. Len(p) + 1 : h[i] = f[i]
      /\ \A i \in 1 .. Len(q) + 1 : h[Len(p) + i] = g[i]
  <2>1. ASSUME NEW i \in 1 .. Len(q) + 1 PROVE h[Len(p) + i] = g[i]
    <3>1. Len(p) + i \in 1 .. Len(r) + 1 /\ ~(Len(p) + i <= Len(p)) /\ (Len(p) + i) - Len(p) = i
      BY <1>2
    <3>. QED BY <3>1
  <2>2. ASSUME NEW i \in 1 .. Len(p) + 1 PROVE h[i] = f[i]
    <3>1. CASE i <= Len(p)
      <4>1. i \in 1 .. Len(r) + 1
        BY <1>2, <3>1
      <4>. QED BY <4>1, <3>1
    <3>2. CASE i = Len(p) + 1
      <4>1. 1 \in 1 .. Len(q) + 1
        BY <1>2
      <4>2. h[Len(p) + 1] = g[1]
        BY <4>1, <2>1
      <4>. QED BY <4>2, <3>2, <1>3, <1>4
    <3>. QED BY <3>1, <3>2, <1>2
  <2>. QED BY <2>1, <2>2
<1>. HIDE DEF h
<1>6. h[1] = a /\ h[Len(r) + 1] = c
  <2>1. 1 \in 1 .. Len(p) + 1 /\ Len(q) + 1 \in 1 .. Len(q) + 1
    BY <1>2
  <2>2. Len(r) + 1 = Len(p) + (Len(q) + 1)
    BY <1>2
  <2>. QED BY <2>1, <2>2, <1>3, <1>4, <1>5
<1>7. ASSUME NEW i \in 1 .. Len(r) + 1
      PROVE  /\ h[i] \in Labels
             /\ i <= Len(r) => StepLeads(r[i], h[i], h[i + 1])
  <2>1. CASE i <= Len(p)
    <3>1. i \in 1..Len(p) /\ i \in 1 .. Len(p) + 1 /\ i + 1 \in 1 .. Len(p) + 1
      BY <2>1, <1>2
    <3>. QED BY <3>1, <1>2, <1>3, <1>5 DEF Marks
  <2>2. CASE ~(i <= Len(p))
    <3>1. PICK j \in 1 .. Len(q) + 1 : i = Len(p) + j
      <4>1. i - Len(p) \in 1 .. Len(q) + 1 /\ i = Len(p) + (i - Len(p))
        BY <2>2, <1>2
      <4>. QED BY <4>1
    <3>2. h[i] \in Labels
      BY <3>1, <1>4, <1>5 DEF Marks
    <3>3. ASSUME i <= Len(r) PROVE StepLeads(r[i], h[i], h[i + 1])
      <4>1. j \in 1..Len(q) /\ j + 1 \in 1 .. Len(q) + 1 /\ i + 1 = Len(p) + (j + 1)
        BY <3>1, <3>3, <1>2
      <4>. QED BY <3>1, <4>1, <1>2, <1>4, <1>5 DEF Marks
    <3>. QED BY <3>2, <3>3
  <2>. QED BY <2>1, <2>2
<1>8. Marks(r, h)
  <2>1. \A i \in 1..Len(r) : i \in 1 .. Len(r) + 1 /\ i <= Len(r)
    BY <1>2
  <2>. QED BY <2>1, <1>7 DEF Marks
<1>9. Leads(r, a, c)
  BY <1>2, <1>6, <1>8 DEF Leads
<1>. QED BY <1>9 DEF r

\* What disturbs nothing leads from each label to the same one.
LEMMA StillLeads ==
  ASSUME NEW p, StillPart(p), NEW a \in Labels
  PROVE  Leads(p, a, a)
<1>1. Len(p) \in Nat
  BY LenProperties DEF StillPart
<1>2. PICK h : h = [i \in 1 .. Len(p) + 1 |-> a]
  OBVIOUS
<1>3. h[1] = a /\ h[Len(p) + 1] = a
  <2>1. 1 \in 1 .. Len(p) + 1 /\ Len(p) + 1 \in 1 .. Len(p) + 1
    BY <1>1
  <2>. QED BY <2>1, <1>2
<1>4. ASSUME NEW e, Still(e) PROVE StepLeads(e, a, a)
  BY <1>4 DEF StepLeads, Still
<1>5. \A i \in 1..Len(p) : h[i] = a /\ h[i + 1] = a
  <2>1. \A i \in 1..Len(p) : i \in 1 .. Len(p) + 1 /\ i + 1 \in 1 .. Len(p) + 1
    BY <1>1
  <2>. QED BY <2>1, <1>2
<1>6. Marks(p, h)
  BY <1>2, <1>4, <1>5 DEF Marks, StillPart
<1>. QED BY <1>3, <1>6 DEF Leads, StillPart

\* Such a part behind another one, and two of them.
LEMMA StillBehind ==
  ASSUME NEW p, NEW q, NEW a, NEW b \in Labels, Leads(p, a, b), StillPart(q)
  PROVE  Leads(p \o q, a, b)
BY StillLeads, ConcatLeads

\* Two parts that disturb nothing, one behind the other.
LEMMA StillConcat ==
  ASSUME NEW p, NEW q, StillPart(p), StillPart(q)
  PROVE  StillPart(p \o q)
<1>. DEFINE r == p \o q
<1>1. /\ \E S : p \in Seq(S)
      /\ \E S : q \in Seq(S)
  BY DEF StillPart
<1>2. /\ \E S : r \in Seq(S)
      /\ Len(p) \in Nat /\ Len(q) \in Nat
      /\ Len(r) = Len(p) + Len(q)
      /\ \A i \in 1..Len(p) : r[i] = p[i]
      /\ \A i \in 1..Len(q) : r[Len(p) + i] = q[i]
  BY <1>1, ConcatOfParts
<1>. HIDE DEF r
<1>3. ASSUME NEW i \in 1..Len(r) PROVE Still(r[i])
  <2>1. CASE i <= Len(p)
    <3>1. i \in 1..Len(p)
      BY <2>1, <1>2
    <3>. QED BY <3>1, <1>2 DEF StillPart
  <2>2. CASE ~(i <= Len(p))
    <3>1. i - Len(p) \in 1..Len(q) /\ i = Len(p) + (i - Len(p))
      BY <2>2, <1>2
    <3>2. r[i] = q[i - Len(p)]
      BY <3>1, <1>2
    <3>. QED BY <3>1, <3>2 DEF StillPart
  <2>. QED BY <2>1, <2>2
<1>4. StillPart(r)
  BY <1>2, <1>3 DEF StillPart
<1>. QED BY <1>4 DEF r

\* A single step that disturbs nothing.
LEMMA StillOne ==
  ASSUME NEW e, Still(e)
  PROVE  StillPart(<<e>>)
<1>. PICK p : p = <<e>>
  OBVIOUS
<1>1. p \in Seq({e}) /\ Len(p) = 1 /\ p[1] = e
  OBVIOUS
<1>2. \A i \in 1..Len(p) : i = 1
  BY <1>1
<1>. QED BY <1>1, <1>2 DEF StillPart

\* A loop over the nodes that disturbs nothing at any of them.
LEMMA StillLoop ==
  ASSUME NEW seqs, seqs = [i \in DOMAIN Order |-> seqs[i]],
         \A i \in DOMAIN Order : StillPart(seqs[i])
  PROVE  StillPart(FlattenSeq(seqs))
<1>1. DOMAIN Order = 1..Len(Order) /\ Len(Order) \in Nat \ {0}
  BY OrderFacts
<1>2. seqs \in Seq({seqs[i] : i \in 1..Len(Order)}) /\ Len(seqs) = Len(Order)
  <2>1. PICK T : T = {seqs[i] : i \in 1..Len(Order)}
    OBVIOUS
  <2>2. seqs \in [1..Len(Order) -> T]
    BY <2>1, <1>1
  <2>3. seqs \in Seq(T)
    BY <2>2, <1>1, SeqDef
  <2>4. Len(seqs) = Len(Order)
    BY <2>2, <2>3, <1>1, LenProperties
  <2>. QED BY <2>1, <2>3, <2>4
<1>3. PICK U : \A i \in 1..Len(Order) : seqs[i] \in Seq(U)
  BY <1>1, CommonElements DEF StillPart
<1>. DEFINE G == {p \in Seq(U) : StillPart(p)}
<1>4. \A i \in 1..Len(Order) : seqs[i] \in G
  BY <1>1, <1>3
<1>5. ASSUME NEW p \in G, NEW q \in G PROVE p \o q \in G
  <2>1. p \in Seq(U) /\ q \in Seq(U) /\ StillPart(p) /\ StillPart(q)
    OBVIOUS
  <2>2. p \o q \in Seq(U)
    BY <2>1
  <2>. QED BY <2>1, <2>2, StillConcat
<1>6. FlattenSeq(seqs) \in G
  <2>. HIDE DEF G
  <2>. QED BY <1>1, <1>2, <1>4, <1>5, FlattenKeeps
<1>. QED BY <1>6

-----------------------------------------------------------------------------
(* The programs.                                                           *)

\* The driver's requests and observations disturb nothing.
LEMMA StillSteps ==
  /\ \A slot, call, ms : StillPart(Send(slot, call, ms))
  /\ \A slot, into, check : StillPart(Join(slot, into, check))
  /\ \A call, into, check : StillPart(Json(call, into, check))
  /\ \A call, check : StillPart(Request(call, check))
  /\ \A what, into : StillPart(Take(what, into))
  /\ \A what, n, is : StillPart(See(what, n, is))
  /\ \A oracle : StillPart(Check(oracle))
  /\ \A ms : StillPart(Sleep(ms))
  /\ \A n, check : StillPart(Reload(n, check))
  /\ \A socket : StillPart(Connect(socket))
  /\ \A socket, into : StillPart(Exchange(socket, into))
  /\ StillPart(Normal)
  /\ \A op \in {"stamp", "tamper", "evidence", "probe", "openWindow", "restartAll", "pollObject",
                "awaitClose", "proveFleet"} : StillPart(Simply(op))
<1>1. ASSUME NEW slot, NEW call, NEW ms PROVE StillPart(Send(slot, call, ms))
  BY StillOne DEF Send, Still
<1>2. ASSUME NEW slot, NEW into, NEW check PROVE StillPart(Join(slot, into, check))
  BY StillOne DEF Join, Still
<1>3. ASSUME NEW call, NEW into, NEW check PROVE StillPart(Json(call, into, check))
  BY <1>1, <1>2, StillConcat DEF Json
<1>4. ASSUME NEW call, NEW check PROVE StillPart(Request(call, check))
  BY <1>1, <1>2, StillConcat DEF Request
<1>5. ASSUME NEW what, NEW into PROVE StillPart(Take(what, into))
  BY StillOne DEF Take, Still
<1>6. ASSUME NEW what, NEW n, NEW is PROVE StillPart(See(what, n, is))
  BY StillOne DEF See, Still
<1>7. ASSUME NEW oracle PROVE StillPart(Check(oracle))
  BY StillOne DEF Check, Still
<1>8. ASSUME NEW ms PROVE StillPart(Sleep(ms))
  BY StillOne DEF Sleep, Still
<1>9. ASSUME NEW n, NEW check PROVE StillPart(Reload(n, check))
  BY StillOne DEF Reload, Still
<1>10. ASSUME NEW socket PROVE StillPart(Connect(socket))
  BY StillOne DEF Connect, Still
<1>11. ASSUME NEW socket, NEW into PROVE StillPart(Exchange(socket, into))
  BY StillOne DEF Exchange, Still
<1>12. StillPart(Normal)
  BY StillOne DEF Normal, Still
<1>13. ASSUME NEW op \in {"stamp", "tamper", "evidence", "probe", "openWindow", "restartAll",
                          "pollObject", "awaitClose", "proveFleet"}
       PROVE  StillPart(Simply(op))
  BY StillOne DEF Simply, Still
<1>. QED
  BY <1>1, <1>2, <1>3, <1>4, <1>5, <1>6, <1>7, <1>8, <1>9, <1>10, <1>11, <1>12, <1>13

\* Nor do the parts that several cases share.
LEMMA StillParts ==
  /\ StillPart(AcknowledgedBatch) /\ StillPart(WriteAcknowledged) /\ StillPart(RestartAll)
  /\ StillPart(Identities) /\ StillPart(ObjectMoves) /\ StillPart(Seed)
  /\ \A n : StillPart(Verify(n)) /\ StillPart(SameProcess(n))
  /\ \A n, revision : StillPart(Revisions(n, revision))
  /\ \A check : StillPart(State(check))
<1>1. StillPart(AcknowledgedBatch) /\ StillPart(WriteAcknowledged)
  BY StillSteps DEF AcknowledgedBatch, WriteAcknowledged
<1>2. StillPart(RestartAll)
  BY StillSteps, StillConcat DEF RestartAll
<1>3. StillPart(Identities) /\ StillPart(ObjectMoves)
  BY StillSteps DEF Identities, ObjectMoves
<1>4. ASSUME NEW n PROVE StillPart(Verify(n)) /\ StillPart(SameProcess(n))
  BY StillSteps DEF Verify, SameProcess
<1>5. ASSUME NEW n, NEW revision PROVE StillPart(Revisions(n, revision))
  BY StillSteps, StillConcat DEF Revisions
<1>6. ASSUME NEW check PROVE StillPart(State(check))
  BY StillSteps DEF State
<1>7. StillPart(Seed)
  BY StillSteps DEF Seed
<1>. QED BY <1>1, <1>2, <1>3, <1>4, <1>5, <1>6, <1>7

\* The loops over the nodes.
LEMMA StillLoops ==
  ASSUME NEW check, NEW revision
  PROVE  /\ StillPart(FlattenSeq([i \in DOMAIN Order |-> Verify(Order[i])]))
         /\ StillPart(FlattenSeq([i \in DOMAIN Order |->
              See("worker", Order[i], 1) \o See("object", Order[i], 1)]))
         /\ StillPart(FlattenSeq([i \in DOMAIN Order |-> See("worker", Order[i], 1)]))
         /\ StillPart(FlattenSeq([i \in DOMAIN Order |-> Reload(Order[i], check)]))
         /\ StillPart(FlattenSeq([i \in DOMAIN Order |->
              SameProcess(Order[i]) \o Revisions(Order[i], revision) \o Verify(Order[i])]))
         /\ StillPart(FlattenSeq([i \in DOMAIN Order |->
              SameProcess(Order[i]) \o See("service", Order[i], 2) \o Verify(Order[i])]))
         /\ StillPart(FlattenSeq([i \in DOMAIN Order |->
              SameProcess(Order[i]) \o Verify(Order[i])]))
         /\ StillPart(FlattenSeq([i \in DOMAIN Order |-> Json("state", "read", "keep")]))
<1>1. StillPart(FlattenSeq([i \in DOMAIN Order |-> Verify(Order[i])]))
  <2>. DEFINE seqs == [i \in DOMAIN Order |-> Verify(Order[i])]
  <2>1. seqs = [i \in DOMAIN Order |-> seqs[i]] /\ \A i \in DOMAIN Order : StillPart(seqs[i])
    BY StillParts
  <2>. HIDE DEF seqs
  <2>2. StillPart(FlattenSeq(seqs))
    BY <2>1, StillLoop
  <2>. QED BY <2>2 DEF seqs
<1>2. StillPart(FlattenSeq([i \in DOMAIN Order |->
       See("worker", Order[i], 1) \o See("object", Order[i], 1)]))
  <2>. DEFINE seqs == [i \in DOMAIN Order |->
         See("worker", Order[i], 1) \o See("object", Order[i], 1)]
  <2>1. seqs = [i \in DOMAIN Order |-> seqs[i]] /\ \A i \in DOMAIN Order : StillPart(seqs[i])
    BY StillSteps, StillConcat
  <2>. HIDE DEF seqs
  <2>2. StillPart(FlattenSeq(seqs))
    BY <2>1, StillLoop
  <2>. QED BY <2>2 DEF seqs
<1>3. StillPart(FlattenSeq([i \in DOMAIN Order |-> See("worker", Order[i], 1)]))
  <2>. DEFINE seqs == [i \in DOMAIN Order |-> See("worker", Order[i], 1)]
  <2>1. seqs = [i \in DOMAIN Order |-> seqs[i]] /\ \A i \in DOMAIN Order : StillPart(seqs[i])
    BY StillSteps
  <2>. HIDE DEF seqs
  <2>2. StillPart(FlattenSeq(seqs))
    BY <2>1, StillLoop
  <2>. QED BY <2>2 DEF seqs
<1>4. StillPart(FlattenSeq([i \in DOMAIN Order |-> Reload(Order[i], check)]))
  <2>. DEFINE seqs == [i \in DOMAIN Order |-> Reload(Order[i], check)]
  <2>1. seqs = [i \in DOMAIN Order |-> seqs[i]] /\ \A i \in DOMAIN Order : StillPart(seqs[i])
    BY StillSteps
  <2>. HIDE DEF seqs
  <2>2. StillPart(FlattenSeq(seqs))
    BY <2>1, StillLoop
  <2>. QED BY <2>2 DEF seqs
<1>5. StillPart(FlattenSeq([i \in DOMAIN Order |->
       SameProcess(Order[i]) \o Revisions(Order[i], revision) \o Verify(Order[i])]))
  <2>. DEFINE seqs == [i \in DOMAIN Order |->
         SameProcess(Order[i]) \o Revisions(Order[i], revision) \o Verify(Order[i])]
  <2>1. seqs = [i \in DOMAIN Order |-> seqs[i]] /\ \A i \in DOMAIN Order : StillPart(seqs[i])
    BY StillParts, StillConcat
  <2>. HIDE DEF seqs
  <2>2. StillPart(FlattenSeq(seqs))
    BY <2>1, StillLoop
  <2>. QED BY <2>2 DEF seqs
<1>6. StillPart(FlattenSeq([i \in DOMAIN Order |->
       SameProcess(Order[i]) \o See("service", Order[i], 2) \o Verify(Order[i])]))
  <2>. DEFINE seqs == [i \in DOMAIN Order |->
         SameProcess(Order[i]) \o See("service", Order[i], 2) \o Verify(Order[i])]
  <2>1. seqs = [i \in DOMAIN Order |-> seqs[i]] /\ \A i \in DOMAIN Order : StillPart(seqs[i])
    BY StillParts, StillSteps, StillConcat
  <2>. HIDE DEF seqs
  <2>2. StillPart(FlattenSeq(seqs))
    BY <2>1, StillLoop
  <2>. QED BY <2>2 DEF seqs
<1>7. StillPart(FlattenSeq([i \in DOMAIN Order |-> SameProcess(Order[i]) \o Verify(Order[i])]))
  <2>. DEFINE seqs == [i \in DOMAIN Order |-> SameProcess(Order[i]) \o Verify(Order[i])]
  <2>1. seqs = [i \in DOMAIN Order |-> seqs[i]] /\ \A i \in DOMAIN Order : StillPart(seqs[i])
    BY StillParts, StillConcat
  <2>. HIDE DEF seqs
  <2>2. StillPart(FlattenSeq(seqs))
    BY <2>1, StillLoop
  <2>. QED BY <2>2 DEF seqs
<1>8. StillPart(FlattenSeq([i \in DOMAIN Order |-> Json("state", "read", "keep")]))
  <2>. DEFINE seqs == [i \in DOMAIN Order |-> Json("state", "read", "keep")]
  <2>1. seqs = [i \in DOMAIN Order |-> seqs[i]] /\ \A i \in DOMAIN Order : StillPart(seqs[i])
    BY StillSteps
  <2>. HIDE DEF seqs
  <2>2. StillPart(FlattenSeq(seqs))
    BY <2>1, StillLoop
  <2>. QED BY <2>2 DEF seqs
<1>. QED BY <1>1, <1>2, <1>3, <1>4, <1>5, <1>6, <1>7, <1>8

\* The rounds over the nodes, and the comparisons made on each.
LEMMA StillRounds ==
  /\ StillPart(VerifyAll) /\ StillPart(ReloadAll) /\ StillPart(KeepsProcessAndHistory)
BY StillLoops DEF VerifyAll, ReloadAll, KeepsProcessAndHistory, ForAll

\* Parts that take back what they disturb, one behind the other.
LEMMA TakesBackConcat ==
  /\ \A p : StillPart(p) => TakesBack(p)
  /\ \A p, q : TakesBack(p) /\ TakesBack(q) => TakesBack(p \o q)
  /\ \A p, q : TakesBack(p) /\ StillPart(q) => TakesBack(p \o q)
BY LabelFacts, StillLeads, ConcatLeads DEF TakesBack

\* The replaced fixture is put back before anything else happens.
LEMMA PublishTakesBack == \A kind : TakesBack(Publish(kind))
<1>. SUFFICES ASSUME NEW kind PROVE TakesBack(Publish(kind))
  OBVIOUS
<1>1. Leads(Simply("replace"), Nothing, Source)
  BY LabelFacts, OneLeads DEF Simply, StepLeads, Still
<1>2. StillPart(<<[op |-> "deploy", kind |-> kind]>>)
  BY StillOne DEF Still
<1>3. Leads(Simply("release"), Source, Nothing)
  BY LabelFacts, OneLeads DEF Simply, StepLeads, Still
<1>. QED BY <1>1, <1>2, <1>3, LabelFacts, StillBehind, ConcatLeads DEF Publish, TakesBack

\* The cases of InPlaceDeployment.ts.
LEMMA RunTakesBack == \A kind : TakesBack(Run(kind))
<1>. SUFFICES ASSUME NEW kind PROVE TakesBack(Run(kind))
  OBVIOUS
<1>. DEFINE adopted == IF kind = "valid" THEN 2 ELSE 1
            check == IF kind = "valid" THEN "adopted" ELSE "failed"
            Initial(n) == See("worker", n, 1) \o See("object", n, 1)
            Waiting(n) == See("worker", n, 1)
            Trigger(n) == Reload(n, check)
            Adoption(n) == SameProcess(n) \o Revisions(n, adopted) \o Verify(n)
<1>1. Run(kind) = AcknowledgedBatch \o Identities \o ForAll(Initial) \o Publish(kind)
                  \o ForAll(Waiting) \o ForAll(Trigger) \o ForAll(Adoption)
                  \o AcknowledgedBatch \o VerifyAll
  BY DEF Run
<1>. HIDE DEF adopted, check
<1>2. /\ StillPart(ForAll(Initial)) /\ StillPart(ForAll(Waiting))
      /\ StillPart(ForAll(Trigger)) /\ StillPart(ForAll(Adoption))
  BY StillLoops DEF ForAll
<1>. HIDE DEF Initial, Waiting, Trigger, Adoption
<1>3. StillPart(AcknowledgedBatch \o Identities \o ForAll(Initial))
  BY <1>2, StillParts, StillConcat
<1>4. TakesBack(AcknowledgedBatch \o Identities \o ForAll(Initial) \o Publish(kind))
  BY <1>3, PublishTakesBack, TakesBackConcat
<1>. QED
  BY <1>1, <1>2, <1>4, StillParts, StillRounds, TakesBackConcat

\* The case of the sockets takes back what it publishes.
LEMMA SocketTakesBack == TakesBack(SocketPreservation)
<1>1. StillPart(AcknowledgedBatch \o Connect("hibernatable") \o Exchange("hibernatable", "before_")
                \o Take("rows", "rowsBefore") \o Identities)
  BY StillSteps, StillParts, StillConcat
<1>2. TakesBack(AcknowledgedBatch \o Connect("hibernatable") \o Exchange("hibernatable", "before_")
                \o Take("rows", "rowsBefore") \o Identities \o Publish("valid"))
  BY <1>1, PublishTakesBack, TakesBackConcat
<1>. QED
  BY <1>2, StillSteps, StillParts, StillRounds, TakesBackConcat DEF SocketPreservation

\* So does the case of the forced adoption.
LEMMA ForcedTakesBack == TakesBack(ForcedAdoption)
<1>1. TakesBack(StampThenTrigger)
  <2>1. TakesBack(Identities \o Publish("valid"))
    BY StillParts, PublishTakesBack, TakesBackConcat
  <2>. QED BY <2>1, StillSteps, StillRounds, TakesBackConcat DEF StampThenTrigger
<1>2. StillPart(AcknowledgedBatch
                \o Connect("hibernatable") \o Exchange("hibernatable", "hibernatableBefore")
                \o Connect("regular") \o Exchange("regular", "regularBefore"))
  BY StillSteps, StillParts, StillConcat
<1>3. TakesBack(AcknowledgedBatch
                \o Connect("hibernatable") \o Exchange("hibernatable", "hibernatableBefore")
                \o Connect("regular") \o Exchange("regular", "regularBefore")
                \o StampThenTrigger)
  BY <1>1, <1>2, TakesBackConcat
<1>. QED
  BY <1>3, StillSteps, StillParts, StillRounds, TakesBackConcat DEF ForcedAdoption

\* So does the case of the module whose bytes do not match.
LEMMA MismatchTakesBack == TakesBack(ModuleMismatch)
<1>. DEFINE Trigger(n) == Reload(n, "any")
<1>1. StillPart(ForAll(Trigger))
  BY StillLoops DEF ForAll
<1>2. TakesBack(AcknowledgedBatch \o Identities \o Publish("valid"))
  BY StillParts, StillConcat, PublishTakesBack, TakesBackConcat
<1>3. ModuleMismatch =
        AcknowledgedBatch \o Identities \o Publish("valid") \o Simply("tamper")
        \o ForAll(Trigger) \o Take("worker", "worker") \o Take("objects", "object")
        \o Take("service", "service") \o Check("mismatch")
        \o AcknowledgedBatch \o KeepsProcessAndHistory
  BY DEF ModuleMismatch
<1>. HIDE DEF Trigger
<1>. QED
  BY <1>1, <1>2, <1>3, StillSteps, StillParts, StillRounds, TakesBackConcat

\* The proxy is guarded before its mode is set, and the case sets it back itself.
LEMMA LifecycleLeads == Leads(LifecycleAdoption, Nothing, Proxy)
<1>. DEFINE Adoption(n) == SameProcess(n) \o See("service", n, 2) \o Verify(n)
            Before1 == AcknowledgedBatch \o Identities \o Take("worker", "workerBefore")
                       \o Publish("valid")
<1>1. StillPart(ForAll(Adoption))
  BY StillLoops DEF ForAll
<1>2. TakesBack(Before1)
  <2>1. StillPart(AcknowledgedBatch \o Identities \o Take("worker", "workerBefore"))
    BY StillSteps, StillParts, StillConcat
  <2>. QED BY <2>1, PublishTakesBack, TakesBackConcat
<1>3. Leads(OpenWork, Nothing, Proxy)
  <2>1. Leads(Json("arm", "armed", "ok"), Nothing, Nothing)
    BY StillSteps, LabelFacts, StillLeads
  <2>2. Leads(Simply("guardProxy"), Nothing, Proxy)
    BY LabelFacts, OneLeads DEF Simply, StepLeads, Still
  <2>3. Leads(<<[op |-> "mode", mode |-> "latency", ticks |-> Ticks(15000)]>>, Proxy, Proxy)
    BY LabelFacts, OneLeads DEF StepLeads, Still
  <2>. QED BY <2>1, <2>2, <2>3, StillSteps, LabelFacts, ConcatLeads, StillBehind DEF OpenWork
<1>4. Leads(Before1 \o OpenWork, Nothing, Proxy)
  BY <1>2, <1>3, ConcatLeads DEF TakesBack
<1>5. LifecycleAdoption =
        Before1 \o OpenWork \o Simply("stamp") \o ReloadAll
        \o Take("state", "during") \o Send("writes", "batch", RequestMs)
        \o Take("worker", "workerAfter") \o Sleep(2000) \o Sleep(2000)
        \o Join("held", "inFlight", "ok") \o Join("pending", "pendingSync", "ok")
        \o Join("writes", "writes", "ok") \o Normal \o ObjectMoves
        \o Json("alarmState", "alarm", "ok") \o Check("lifecycle") \o ForAll(Adoption)
        \o AcknowledgedBatch \o VerifyAll
  BY DEF LifecycleAdoption
<1>. HIDE DEF Adoption, Before1
<1>6. \A p, q : Leads(p, Nothing, Proxy) /\ StillPart(q) => Leads(p \o q, Nothing, Proxy)
  BY LabelFacts, StillBehind
<1>. QED
  BY <1>1, <1>4, <1>5, <1>6, StillSteps, StillParts, StillRounds

\* The cases of StorageDurability.ts that disturb nothing.
LEMMA StillCases ==
  /\ StillPart(Recovery) /\ StillPart(AbortSync)
  /\ StillPart(Seed \o Request("syncTransaction", "transactionSync"))
  /\ StillPart(Seed \o Request("cursorSync", "cursorSync"))
  /\ \A path : StillPart(CursorOutput(path)) /\ StillPart(Deadline(path))
<1>1. StillPart(Recovery)
  BY StillSteps, StillParts, StillConcat DEF Recovery
<1>2. StillPart(AbortSync)
  BY StillSteps, StillParts, StillConcat DEF AbortSync
<1>3. /\ StillPart(Seed \o Request("syncTransaction", "transactionSync"))
      /\ StillPart(Seed \o Request("cursorSync", "cursorSync"))
  BY StillSteps, StillParts, StillConcat
<1>4. ASSUME NEW path PROVE StillPart(CursorOutput(path)) /\ StillPart(Deadline(path))
  BY StillSteps, StillParts, StillConcat DEF CursorOutput, Deadline
<1>. QED BY <1>1, <1>2, <1>3, <1>4

\* The outage: the proxy's mode is on the list before it is set.
LEMMA OutageLeads == Leads(Outage, Nothing, Proxy)
<1>1. Leads(Seed, Nothing, Nothing)
  BY StillParts, LabelFacts, StillLeads
<1>2. Leads(GuardThenInject, Nothing, Proxy)
  <2>1. Leads(Simply("guardProxy"), Nothing, Proxy)
    BY LabelFacts, OneLeads DEF Simply, StepLeads, Still
  <2>2. Leads(<<[op |-> "mode", mode |-> "throttle", ticks |-> Ticks(14000)]>>, Proxy, Proxy)
    BY LabelFacts, OneLeads DEF StepLeads, Still
  <2>. QED BY <2>1, <2>2, ConcatLeads DEF GuardThenInject
<1>3. \A p, q : Leads(p, Nothing, Proxy) /\ StillPart(q) => Leads(p \o q, Nothing, Proxy)
  BY LabelFacts, StillBehind
<1>4. Leads(Seed \o GuardThenInject, Nothing, Proxy)
  BY <1>1, <1>2, ConcatLeads
<1>. QED BY <1>3, <1>4, StillSteps, StillParts DEF Outage

\* A loop over all peers but the owner, each round of which leads to where the next
\* one begins.
LEMMA PeerLoopLeads ==
  ASSUME NEW steps, NEW L, \A i \in 1 .. Len(Order) - 1 : Leads(steps, L[i], L[i + 1])
  PROVE  Leads(ForEachPeer(steps), L[1], L[Len(Order)])
<1>. DEFINE n == Len(Order) - 1
            seqs == [i \in 1..n |-> steps]
<1>0. n \in Nat \ {0} /\ n + 1 = Len(Order)
  BY OrderFacts
<1>1. PICK U : steps \in Seq(U)
  <2>1. 1 \in 1..n
    BY <1>0
  <2>. QED BY <2>1 DEF Leads
<1>2. seqs \in Seq(Seq(U)) /\ Len(seqs) = n /\ \A i \in 1..n : seqs[i] = steps
  <2>. HIDE DEF n
  <2>1. seqs \in [1..n -> Seq(U)]
    BY <1>1
  <2>2. seqs \in Seq(Seq(U))
    BY <2>1, <1>0, SeqDef
  <2>3. Len(seqs) = n
    BY <2>1, <2>2, <1>0, LenProperties
  <2>. QED BY <2>2, <2>3
<1>3. \A i \in 1..n : Leads(steps, L[i], L[i + 1])
  OBVIOUS
<1>4. ForEachPeer(steps) = FlattenSeq(seqs)
  BY DEF ForEachPeer
<1>. HIDE DEF n, seqs
<1>. DEFINE G == [i \in 1..n |-> {p \in Seq(U) : Leads(p, L[1], L[i + 1])}]
<1>5. seqs[1] \in G[1]
  <2>1. 1 \in 1..n /\ 1 + 1 = 2
    BY <1>0
  <2>. QED BY <2>1, <1>1, <1>2, <1>3
<1>6. ASSUME NEW i \in 1..n, i # 1, NEW p \in G[i - 1] PROVE p \o seqs[i] \in G[i]
  <2>1. i - 1 \in 1..n /\ (i - 1) + 1 = i
    BY <1>6, <1>0
  <2>2. p \in Seq(U) /\ Leads(p, L[1], L[i])
    BY <2>1
  <2>3. p \o steps \in Seq(U)
    BY <2>2, <1>1
  <2>4. Leads(p \o steps, L[1], L[i + 1])
    BY <2>2, <1>3, ConcatLeads
  <2>. QED BY <2>3, <2>4, <1>2
<1>7. FlattenSeq(seqs) \in G[n]
  <2>. HIDE DEF G
  <2>. QED BY <1>0, <1>2, <1>5, <1>6, FlattenReaches
<1>8. n \in 1..n
  BY <1>0
<1>. QED BY <1>0, <1>4, <1>7, <1>8

\* The interruption of a barrier: the restoration of each peer is on the list before
\* the peer is cut off, and as many are taken back as were cut off.
LEMMA PartitionLeads == Leads(BarrierPartition, Nothing, Nothing)
<1>. DEFINE n == Len(Order) - 1
            Reader(m) == Json("state", "read", "keep")
            Up == [i \in 1..Len(Order) |-> Peers(i - 1)]
            Down == [i \in 1..Len(Order) |-> Peers(Len(Order) - i)]
            Lead == Seed \o AcknowledgedBatch \o Simply("proveFleet")
                    \o Send("barrier", "barrier", 120000) \o Sleep(2000)
            Await == <<[op |-> "await", slot |-> "barrier", ticks |-> Ticks(40000)]>>
<1>1. Leads(ForEachPeer(PartitionPeer), Nothing, Peers(n))
  <2>1. ASSUME NEW i \in 1..n PROVE Leads(PartitionPeer, Up[i], Up[i + 1])
    <3>1. /\ i \in 1..Len(Order) /\ i + 1 \in 1..Len(Order)
          /\ i - 1 \in 0 .. Len(Order) - 2 /\ (i - 1) + 1 = i /\ (i + 1) - 1 = i
      BY OrderFacts
    <3>2. Up[i] = Peers(i - 1) /\ Up[i + 1] = Peers((i - 1) + 1)
      BY <3>1
    <3>3. PICK k \in 0 .. Len(Order) - 2 : k = i - 1
      BY <3>1
    <3>4. Leads(Simply("guardPeer"), Peers(k), Guarded(k))
      BY LabelFacts, OneLeads DEF Simply, StepLeads, Still
    <3>5. Leads(Simply("cutPeer"), Guarded(k), Peers(k + 1))
      BY LabelFacts, OneLeads DEF Simply, StepLeads, Still
    <3>. QED BY <3>2, <3>3, <3>4, <3>5, ConcatLeads DEF PartitionPeer
  <2>2. Up[1] = Nothing /\ Up[Len(Order)] = Peers(n)
    <3>1. 1 \in 1..Len(Order) /\ Len(Order) \in 1..Len(Order) /\ 1 - 1 = 0
      BY OrderFacts
    <3>. QED BY <3>1 DEF Nothing
  <2>. HIDE DEF Up
  <2>. QED BY <2>1, <2>2, PeerLoopLeads
<1>2. Leads(ForEachPeer(Simply("reconnect")), Peers(n), Nothing)
  <2>1. ASSUME NEW i \in 1..n PROVE Leads(Simply("reconnect"), Down[i], Down[i + 1])
    <3>1. /\ i \in 1..Len(Order) /\ i + 1 \in 1..Len(Order)
          /\ Len(Order) - (i + 1) \in 0 .. Len(Order) - 2
          /\ Len(Order) - i = (Len(Order) - (i + 1)) + 1
      BY OrderFacts
    <3>2. PICK k \in 0 .. Len(Order) - 2 : k = Len(Order) - (i + 1)
      BY <3>1
    <3>3. Down[i] = Peers(k + 1) /\ Down[i + 1] = Peers(k)
      BY <3>1, <3>2
    <3>4. Leads(Simply("reconnect"), Peers(k + 1), Peers(k))
      BY LabelFacts, OneLeads DEF Simply, StepLeads, Still
    <3>. QED BY <3>3, <3>4
  <2>2. Down[1] = Peers(n) /\ Down[Len(Order)] = Nothing
    <3>1. 1 \in 1..Len(Order) /\ Len(Order) \in 1..Len(Order) /\ Len(Order) - Len(Order) = 0
      BY OrderFacts
    <3>. QED BY <3>1 DEF Nothing
  <2>. HIDE DEF Down
  <2>. QED BY <2>1, <2>2, PeerLoopLeads
<1>3. StillPart(ForAll(Reader))
  BY StillLoops DEF ForAll
<1>4. StillPart(Await)
  BY StillOne DEF Still
<1>5. Leads(Lead, Nothing, Nothing)
  <2>1. StillPart(Lead)
    BY StillSteps, StillParts, StillConcat
  <2>. QED BY <2>1, LabelFacts, StillLeads
<1>6. BarrierPartition =
        Lead \o CutThenWindow \o Await
        \o Take("proofs", "proofs") \o ForEachPeer(Simply("reconnect"))
        \o Join("barrier", "barrier", "ok")
        \o RestartAll \o ForAll(Reader) \o Check("barrier") \o VerifyAll
  BY DEF BarrierPartition
<1>7. n \in 0 .. Len(Order) - 1
  BY OrderFacts
<1>. HIDE DEF n, Reader, Lead, Await
<1>8. Peers(n) \in Labels
  BY <1>7, LabelFacts
<1>9. Leads(CutThenWindow, Nothing, Peers(n))
  BY <1>1, <1>8, StillSteps, StillBehind DEF CutThenWindow
<1>10. Leads(Lead \o CutThenWindow \o Await \o Take("proofs", "proofs"), Nothing, Peers(n))
  BY <1>4, <1>5, <1>8, <1>9, StillSteps, ConcatLeads, StillBehind
<1>11. Leads(Lead \o CutThenWindow \o Await \o Take("proofs", "proofs")
             \o ForEachPeer(Simply("reconnect")), Nothing, Nothing)
  BY <1>2, <1>10, ConcatLeads
<1>. QED
  BY <1>3, <1>6, <1>11, StillSteps, StillParts, StillRounds, LabelFacts, StillBehind

\* The program of every case leads from owing nothing to some label.
THEOREM CasesAreLabelled ==
  \A name \in DOMAIN Scenarios : \E b \in Labels : Leads(Scenarios[name], Nothing, b)
<1>1. \A p : StillPart(p) => Leads(p, Nothing, Nothing)
  BY LabelFacts, StillLeads
<1>2. \A p : TakesBack(p) => Leads(p, Nothing, Nothing)
  BY DEF TakesBack
<1>3. DOMAIN Scenarios =
        {"reloadAdoption", "reloadInvalid", "reloadInFlight", "reloadSocket", "reloadForced",
         "reloadModuleBytes", "cursorResponse", "cursorOutbound", "syncRecovery", "syncOutage",
         "syncTransaction", "cursorSync", "syncAbort", "syncBarrierPartition",
         "transactionDeadline", "gateDeadline"}
  BY DEF Scenarios
<1>4. /\ Scenarios["reloadAdoption"] = Run("valid")
      /\ Scenarios["reloadInvalid"] = Run("invalid")
      /\ Scenarios["reloadInFlight"] = LifecycleAdoption
      /\ Scenarios["reloadSocket"] = SocketPreservation
      /\ Scenarios["reloadForced"] = ForcedAdoption
      /\ Scenarios["reloadModuleBytes"] = ModuleMismatch
      /\ Scenarios["cursorResponse"] = CursorOutput("cursorResponse")
      /\ Scenarios["cursorOutbound"] = CursorOutput("cursorOutbound")
      /\ Scenarios["syncRecovery"] = Recovery
      /\ Scenarios["syncOutage"] = Outage
      /\ Scenarios["syncTransaction"] = Seed \o Request("syncTransaction", "transactionSync")
      /\ Scenarios["cursorSync"] = Seed \o Request("cursorSync", "cursorSync")
      /\ Scenarios["syncAbort"] = AbortSync
      /\ Scenarios["syncBarrierPartition"] = BarrierPartition
      /\ Scenarios["transactionDeadline"] = Deadline("transactionDeadline")
      /\ Scenarios["gateDeadline"] = Deadline("gateDeadline")
  BY DEF Scenarios
<1>5. \A name \in DOMAIN Scenarios :
        Leads(Scenarios[name], Nothing, Nothing) \/ Leads(Scenarios[name], Nothing, Proxy)
  BY <1>1, <1>2, <1>3, <1>4, RunTakesBack, SocketTakesBack, ForcedTakesBack, MismatchTakesBack,
     LifecycleLeads, StillCases, OutageLeads, PartitionLeads
<1>. QED BY <1>5, LabelFacts

-----------------------------------------------------------------------------
(* What is disturbed is on the list.                                       *)

\* A labelling of a program that begins with owing nothing.
Labelling(p) == CHOOSE h : h[1] = Nothing /\ Marks(p, h)

Clean == env.source = 1 /\ env.mode = "normal"

\* Before a step with label l.
Owes(l) ==
  /\ l.owed = "source" =>
       finalizers = <<"source">> /\ env.mode = "normal" /\ env.peers = Nodes
  /\ l.owed = "proxy" =>
       finalizers = <<"proxy">> /\ env.source = 1 /\ env.peers = Nodes
  /\ l.owed = "peers" =>
       /\ Clean /\ finalizers \in Seq(Nodes) /\ Len(finalizers) = l.cut
       /\ Nodes \ env.peers \subseteq Range(finalizers)
  /\ l.owed = "guarded" =>
       /\ Clean /\ finalizers \in Seq(Nodes) /\ Len(finalizers) = l.cut + 1
       /\ Nodes \ env.peers \subseteq Range(Tail(finalizers))
       /\ Head(finalizers) = NextPeer

\* What is disturbed is on the list.
DisturbedIsListed ==
  /\ finalizers \in Seq(Nodes \cup {"source", "proxy"})
  /\ env.source # 1 => "source" \in Range(finalizers)
  /\ env.mode # "normal" => "proxy" \in Range(finalizers)
  /\ Nodes \ env.peers \subseteq Range(finalizers)

Shape ==
  /\ script \in DOMAIN Scenarios /\ pc \in Nat \ {0}
  /\ phase \in {"run", "closing", "closed"}
  /\ DOMAIN env = {"source", "mode", "window", "peers"} /\ env.peers \subseteq Nodes

\* The scope's list is what the label of the next step says.
FollowsLabels ==
  phase = "run" => pc <= Len(Program) + 1 /\ Owes(Labelling(Program)[pc])

ObjectInv ==
  /\ Shape /\ FollowsLabels
  /\ phase = "closing" => DisturbedIsListed
  /\ EverythingIsRestored

\* The program of a case is a sequence, and labelled.
LEMMA ProgramFacts ==
  ASSUME Shape
  PROVE  /\ Len(Program) \in Nat
         /\ Labelling(Program)[1] = Nothing
         /\ Marks(Program, Labelling(Program))
<1>1. PICK b : Leads(Program, Nothing, b)
  BY CasesAreLabelled DEF Shape, Program
<1>2. Len(Program) \in Nat
  BY <1>1, LenProperties DEF Leads
<1>3. \E h : h[1] = Nothing /\ Marks(Program, h)
  BY <1>1 DEF Leads
<1>. QED BY <1>2, <1>3 DEF Labelling

\* The label of the next step, and the next label.
LEMMA NextLabels ==
  ASSUME Shape, pc <= Len(Program) + 1
  PROVE  /\ Labelling(Program)[pc] \in Labels
         /\ pc <= Len(Program) =>
              /\ Labelling(Program)[pc + 1] \in Labels
              /\ StepLeads(Step, Labelling(Program)[pc], Labelling(Program)[pc + 1])
<1>. DEFINE h == Labelling(Program)
<1>1. Len(Program) \in Nat /\ Marks(Program, h)
  BY ProgramFacts
<1>2. pc \in 1 .. Len(Program) + 1
  BY <1>1 DEF Shape
<1>3. pc <= Len(Program) => pc \in 1..Len(Program) /\ pc + 1 \in 1 .. Len(Program) + 1
  BY <1>1, <1>2
<1>. HIDE DEF h
<1>. QED BY <1>1, <1>2, <1>3 DEF Marks, Step, h

\* The only restoration of a list is on it.
LEMMA OneIsListed ==
  ASSUME NEW x \in {"source", "proxy"}
  PROVE  <<x>> \in Seq(Nodes \cup {"source", "proxy"}) /\ x \in Range(<<x>>)
<1>. PICK p : p = <<x>>
  OBVIOUS
<1>1. p \in Seq(Nodes \cup {"source", "proxy"}) /\ Len(p) = 1 /\ p[1] = x /\ DOMAIN p = 1..1
  OBVIOUS
<1>2. x \in Range(p)
  BY <1>1 DEF Range
<1>. QED BY <1>1, <1>2

\* Whatever the label says is owed, what is disturbed is on the list.
LEMMA OwedIsListed ==
  ASSUME Shape, NEW l \in Labels, Owes(l)
  PROVE  DisturbedIsListed
<1>1. CASE l.owed = "source"
  <2>1. finalizers = <<"source">>
    BY <1>1 DEF Owes
  <2>2. finalizers \in Seq(Nodes \cup {"source", "proxy"}) /\ "source" \in Range(finalizers)
    BY <2>1, OneIsListed
  <2>. QED BY <1>1, <2>2 DEF Owes, DisturbedIsListed
<1>2. CASE l.owed = "proxy"
  <2>1. finalizers = <<"proxy">>
    BY <1>2 DEF Owes
  <2>2. finalizers \in Seq(Nodes \cup {"source", "proxy"}) /\ "proxy" \in Range(finalizers)
    BY <2>1, OneIsListed
  <2>. QED BY <1>2, <2>2 DEF Owes, DisturbedIsListed
<1>3. CASE l.owed = "peers"
  <2>1. finalizers \in Seq(Nodes \cup {"source", "proxy"})
    BY <1>3, SeqMonotonic DEF Owes
  <2>. QED BY <1>3, <2>1 DEF Owes, Clean, DisturbedIsListed
<1>4. CASE l.owed = "guarded"
  <2>1. finalizers \in Seq(Nodes) /\ Len(finalizers) = l.cut + 1 /\ l.cut \in Nat
    BY <1>4, OrderFacts DEF Owes, Labels
  <2>2. finalizers \in Seq(Nodes \cup {"source", "proxy"})
    BY <2>1, SeqMonotonic
  <2>3. finalizers # <<>>
    BY <2>1, EmptySeq
  <2>4. Range(Tail(finalizers)) \subseteq Range(finalizers)
    BY <2>1, <2>3, HeadTailProperties DEF Range
  <2>. QED BY <1>4, <2>2, <2>4 DEF Owes, Clean, DisturbedIsListed
<1>. QED BY <1>1, <1>2, <1>3, <1>4 DEF Labels

\* Nothing that the scope owes is touched.
Untouched ==
  /\ script' = script /\ home' = home /\ finalizers' = finalizers
  /\ DOMAIN env' = DOMAIN env
  /\ env'.source = env.source /\ env'.mode = env.mode /\ env'.peers = env.peers

\* What is owed stays owed.
LEMMA OwesStays ==
  ASSUME Untouched
  PROVE  /\ \A l : Owes(l) => Owes(l)'
         /\ DisturbedIsListed => DisturbedIsListed'
<1>1. NextPeer' = NextPeer
  BY DEF NextPeer, Untouched
<1>2. \A l : Owes(l) => Owes(l)'
  BY <1>1 DEF Owes, Clean, Untouched
<1>3. DisturbedIsListed => DisturbedIsListed'
  BY DEF DisturbedIsListed, Untouched
<1>. QED BY <1>2, <1>3

\* What happens beside the driver keeps the invariant.
LEMMA BesideKeeps ==
  ASSUME ObjectInv, Untouched, phase' = phase, pc' = pc
  PROVE  ObjectInv'
<1>1. Program' = Program
  BY DEF Program, Untouched
<1>2. Shape'
  BY DEF ObjectInv, Shape, Untouched
<1>3. FollowsLabels'
  BY <1>1, OwesStays DEF ObjectInv, FollowsLabels
<1>4. /\ phase' = "closing" => DisturbedIsListed'
      /\ EverythingIsRestored'
  BY OwesStays DEF ObjectInv, EverythingIsRestored, Untouched
<1>. QED BY <1>2, <1>3, <1>4 DEF ObjectInv

\* However the case ends, its scope is left with a list of what is disturbed.
LEMMA EndKeeps ==
  ASSUME ObjectInv, Untouched, phase = "run", phase' = "closing", pc' \in {pc, 1}
  PROVE  ObjectInv'
<1>1. Shape'
  BY DEF ObjectInv, Shape, Untouched
<1>2. DisturbedIsListed
  BY NextLabels, OwedIsListed DEF ObjectInv, FollowsLabels
<1>3. DisturbedIsListed'
  BY <1>2, OwesStays
<1>. QED BY <1>1, <1>3 DEF ObjectInv, FollowsLabels, EverythingIsRestored

\* The driver goes on with a step that leaves what it owes as the labels say.
LEMMA AdvanceKeeps ==
  ASSUME ObjectInv, phase = "run", pc <= Len(Program), Advance, script' = script,
         DOMAIN env' = DOMAIN env, env'.peers \subseteq Nodes,
         \A a, b \in Labels : StepLeads(Step, a, b) /\ Owes(a) => Owes(b)'
  PROVE  ObjectInv'
<1>1. Program' = Program /\ pc' = pc + 1 /\ phase' = "run"
  BY DEF Program, Advance
<1>2. Shape'
  BY <1>1 DEF ObjectInv, Shape
<1>3. Len(Program) \in Nat /\ pc \in Nat /\ Shape /\ Owes(Labelling(Program)[pc])
  BY ProgramFacts DEF ObjectInv, FollowsLabels, Shape
<1>4. PICK a, b : a = Labelling(Program)[pc] /\ b = Labelling(Program)[pc + 1]
  OBVIOUS
<1>5. pc <= Len(Program) + 1 /\ pc + 1 <= Len(Program) + 1
  BY <1>3
<1>6. a \in Labels /\ b \in Labels /\ StepLeads(Step, a, b)
  BY <1>3, <1>4, <1>5, NextLabels
<1>7. Owes(b)'
  BY <1>3, <1>4, <1>6
<1>8. b = Labelling(Program')[pc']
  BY <1>1, <1>4
<1>9. pc' <= Len(Program') + 1
  BY <1>1, <1>5
<1>10. FollowsLabels'
  BY <1>7, <1>8, <1>9 DEF FollowsLabels
<1>. QED BY <1>1, <1>2, <1>10 DEF ObjectInv, EverythingIsRestored

\* A step of the driver that disturbs nothing keeps the invariant, whether the
\* driver goes on or gives up.
LEMMA StillKeeps ==
  ASSUME ObjectInv, phase = "run", pc <= Len(Program), Still(Step), Untouched, Advance \/ Fail
  PROVE  ObjectInv'
<1>1. CASE Fail
  BY <1>1, EndKeeps DEF Fail
<1>2. CASE Advance
  <2>1. \A a, b \in Labels : StepLeads(Step, a, b) /\ Owes(a) => Owes(b)'
    BY OwesStays DEF StepLeads
  <2>. QED BY <1>2, <2>1, AdvanceKeeps DEF Untouched, ObjectInv, Shape
<1>. QED BY <1>1, <1>2

\* The steps of the driver that disturb nothing.
LEMMA StillActions ==
  ASSUME \/ SendCall \/ JoinCall \/ SeeIt \/ TakeIt \/ CheckAll \/ Wait \/ AwaitCall \/ Mark
         \/ ConnectSocket \/ ExchangeMessage \/ Deploy \/ Tamper \/ ReloadNode \/ Restart
  PROVE  /\ phase = "run" /\ pc <= Len(Program) /\ Still(Step) /\ Untouched
         /\ Advance \/ Fail
<1>1. CASE SendCall
  BY <1>1 DEF SendCall, At, Running, Otherwise, MovesOn, celld, Still, Step, Untouched
<1>2. CASE JoinCall
  BY <1>2 DEF JoinCall, At, Running, Expect, Otherwise, MovesOn, celld, Still, Step, Untouched
<1>3. CASE SeeIt
  BY <1>3 DEF SeeIt, At, Running, Expect, Quietly, Otherwise, MovesOn, celld, Still, Step, Untouched
<1>4. CASE TakeIt
  BY <1>4 DEF TakeIt, At, Running, Expect, Otherwise, MovesOn, celld, Still, Step, Untouched
<1>5. CASE CheckAll
  BY <1>5 DEF CheckAll, At, Running, Expect, Quietly, Otherwise, MovesOn, celld, Still, Step, Untouched
<1>6. CASE Wait
  BY <1>6 DEF Wait, At, Running, Expect, Quietly, Otherwise, MovesOn, celld, Still, Step, Untouched
<1>7. CASE AwaitCall
  BY <1>7 DEF AwaitCall, At, Running, Otherwise, MovesOn, celld, Still, Step, Untouched
<1>8. CASE Mark
  BY <1>8 DEF Mark, At, Running, Otherwise, MovesOn, celld, Still, Step, Untouched
<1>9. CASE ConnectSocket
  BY <1>9 DEF ConnectSocket, At, Running, Expect, Otherwise, MovesOn, celld, Still, Step, Untouched
<1>10. CASE ExchangeMessage
  BY <1>10 DEF ExchangeMessage, At, Running, Expect, Otherwise, MovesOn, celld, Still, Step, Untouched
<1>11. CASE Deploy
  BY <1>11 DEF Deploy, At, Running, Otherwise, MovesOn, celld, Still, Step, Untouched
<1>12. CASE Tamper
  BY <1>12 DEF Tamper, At, Running, Otherwise, MovesOn, celld, Still, Step, Untouched
<1>13. CASE ReloadNode
  BY <1>13 DEF ReloadNode, At, Running, Expect, Otherwise, MovesOn, celld, Still, Step, Untouched
<1>14. CASE Restart
  BY <1>14 DEF Restart, At, Running, Otherwise, MovesOn, celld, Still, Step, Untouched
<1>. QED BY <1>1, <1>2, <1>3, <1>4, <1>5, <1>6, <1>7, <1>8, <1>9, <1>10, <1>11, <1>12, <1>13, <1>14

-----------------------------------------------------------------------------
(* The steps that disturb something, or take it back.                      *)

\* The last restoration, and those before it.
LEMMA LastAndRest ==
  ASSUME NEW S, NEW s \in Seq(S), s # <<>>
  PROVE  /\ Head(s) \in S /\ Tail(s) \in Seq(S) /\ Len(Tail(s)) = Len(s) - 1
         /\ Range(s) = {Head(s)} \cup Range(Tail(s))
<1>. DEFINE t == Tail(s)
<1>1. /\ Head(s) \in S /\ t \in Seq(S) /\ Len(t) = Len(s) - 1
      /\ \A i \in 1..Len(t) : t[i] = s[i + 1]
  BY HeadTailProperties
<1>2. Len(s) \in Nat \ {0} /\ DOMAIN s = 1..Len(s) /\ DOMAIN t = 1..Len(t) /\ Head(s) = s[1]
  BY <1>1, EmptySeq, LenProperties
<1>. HIDE DEF t
<1>3. \A i \in 1..Len(s) : i = 1 \/ (i - 1 \in 1..Len(t) /\ (i - 1) + 1 = i)
  BY <1>1, <1>2
<1>4. \A i \in 1..Len(t) : i + 1 \in 1..Len(s)
  BY <1>1, <1>2
<1>5. ASSUME NEW i \in 1..Len(s) PROVE s[i] = s[1] \/ s[i] \in Range(t)
  <2>1. CASE i = 1
    BY <2>1
  <2>2. CASE i # 1
    <3>1. PICK j \in 1..Len(t) : j + 1 = i
      BY <1>3, <2>2
    <3>2. s[i] = t[j]
      BY <1>1, <3>1
    <3>. QED BY <1>2, <3>2 DEF Range
  <2>. QED BY <2>1, <2>2
<1>6. ASSUME NEW i \in 1..Len(t) PROVE t[i] \in Range(s)
  BY <1>1, <1>2, <1>4 DEF Range
<1>7. s[1] \in Range(s)
  BY <1>2 DEF Range
<1>8. Range(s) = {s[i] : i \in 1..Len(s)} /\ Range(t) = {t[i] : i \in 1..Len(t)}
  BY <1>2 DEF Range
<1>9. Range(s) = {s[1]} \cup Range(t)
  BY <1>5, <1>6, <1>7, <1>8
<1>. QED BY <1>1, <1>2, <1>9 DEF t

\* A restoration that is added is the first to be taken.
LEMMA AddedIsLast ==
  ASSUME NEW S, NEW x \in S, NEW s \in Seq(S)
  PROVE  /\ <<x>> \o s \in Seq(S) /\ Len(<<x>> \o s) = Len(s) + 1
         /\ Head(<<x>> \o s) = x /\ Tail(<<x>> \o s) = s
<1>1. PICK p : p = <<x>>
  OBVIOUS
<1>2. p \in Seq(S) /\ Len(p) = 1 /\ p[1] = x
  BY <1>1
<1>3. PICK r : r = p \o s
  OBVIOUS
<1>4. /\ r \in Seq(S) /\ Len(r) = Len(s) + 1 /\ Len(s) \in Nat
      /\ \A i \in 1 .. Len(s) + 1 : r[i] = IF i <= 1 THEN x ELSE s[i - 1]
  <2>1. Len(s) \in Nat
    BY LenProperties
  <2>2. /\ r \in Seq(S) /\ Len(r) = Len(p) + Len(s)
        /\ \A i \in 1 .. Len(p) + Len(s) : r[i] = IF i <= Len(p) THEN p[i] ELSE s[i - Len(p)]
    BY <1>2, <1>3, ConcatProperties
  <2>3. Len(p) + Len(s) = Len(s) + 1
    BY <1>2, <2>1
  <2>4. ASSUME NEW i \in 1 .. Len(s) + 1 PROVE r[i] = IF i <= 1 THEN x ELSE s[i - 1]
    <3>1. i <= 1 => i = 1
      BY <2>1
    <3>. QED BY <1>2, <2>2, <2>3, <3>1
  <2>. QED BY <2>1, <2>2, <2>3, <2>4
<1>5. r # <<>> /\ r[1] = x /\ Head(r) = r[1]
  BY <1>4, EmptySeq
<1>6. /\ Tail(r) \in Seq(S) /\ Len(Tail(r)) = Len(s)
      /\ \A i \in 1..Len(s) : Tail(r)[i] = r[i + 1]
  BY <1>4, <1>5, HeadTailProperties
<1>7. \A i \in 1..Len(s) : i + 1 \in 1 .. Len(s) + 1 /\ ~(i + 1 <= 1) /\ (i + 1) - 1 = i
  BY <1>4
<1>8. \A i \in 1..Len(s) : Tail(r)[i] = s[i]
  BY <1>4, <1>6, <1>7
<1>9. Tail(r) = s
  BY <1>6, <1>8, SeqEqual
<1>. QED BY <1>1, <1>3, <1>4, <1>5, <1>9

\* Nothing is owed: nothing is disturbed.
LEMMA NothingOwed ==
  ASSUME Shape, Owes(Nothing)
  PROVE  Clean /\ finalizers = <<>> /\ env.peers = Nodes
<1>1. Clean /\ finalizers \in Seq(Nodes) /\ Len(finalizers) = 0
      /\ Nodes \ env.peers \subseteq Range(finalizers)
  BY DEF Owes, Nothing, Peers, Label
<1>2. finalizers = <<>>
  BY <1>1, EmptySeq
<1>3. Range(finalizers) = {}
  BY <1>2 DEF Range
<1>. QED BY <1>1, <1>2, <1>3 DEF Shape

\* The driver's next step takes it from what it owes to a next label.
LEMMA StepIsLabelled ==
  ASSUME ObjectInv, phase = "run", pc <= Len(Program)
  PROVE  \E a, b \in Labels : StepLeads(Step, a, b) /\ Owes(a)
<1>1. Shape /\ Owes(Labelling(Program)[pc]) /\ Len(Program) \in Nat /\ pc \in Nat
  BY ProgramFacts DEF ObjectInv, FollowsLabels, Shape
<1>2. pc <= Len(Program) + 1
  BY <1>1
<1>. QED BY <1>1, <1>2, NextLabels

\* The fixture is replaced, with its restoration on the list, only when it is the
\* repository's own.
LEMMA ReplaceKeeps ==
  ASSUME ObjectInv, ReplaceFixture
  PROVE  ObjectInv'
<1>1. /\ phase = "run" /\ pc <= Len(Program) /\ Step.op = "replace"
      /\ Expect(env.source = 1) /\ env' = [env EXCEPT !.source = 2]
      /\ finalizers' = <<"source">> \o finalizers /\ script' = script /\ Shape
  BY DEF ReplaceFixture, At, Running, Step, Otherwise, ObjectInv
<1>2. Owes(Nothing)
  BY <1>1, StepIsLabelled DEF StepLeads
<1>3. Clean /\ finalizers = <<>> /\ env.peers = Nodes
  BY <1>1, <1>2, NothingOwed
<1>4. Advance
  BY <1>1, <1>3 DEF Clean, Expect
<1>5. finalizers' = <<"source">>
  BY <1>1, <1>3
<1>6. DOMAIN env' = DOMAIN env /\ env'.mode = "normal" /\ env'.peers = Nodes
  BY <1>1, <1>3 DEF Clean, Shape
<1>7. Owes(Source)'
  BY <1>5, <1>6 DEF Owes, Source, Label
<1>. QED BY <1>1, <1>4, <1>6, <1>7, AdvanceKeeps DEF StepLeads

\* The scope of publish ends: the fixture is put back.
LEMMA ReleaseKeeps ==
  ASSUME ObjectInv, PutFixtureBack
  PROVE  ObjectInv'
<1>1. /\ phase = "run" /\ pc <= Len(Program) /\ Step.op = "release" /\ Advance
      /\ env' = [env EXCEPT !.source = 1] /\ finalizers' = Tail(finalizers)
      /\ script' = script /\ Shape
  BY DEF PutFixtureBack, At, Running, Step, Otherwise, ObjectInv
<1>2. Owes(Source)
  BY <1>1, StepIsLabelled DEF StepLeads
<1>3. finalizers = <<"source">> /\ env.mode = "normal" /\ env.peers = Nodes
  BY <1>2 DEF Owes, Source, Label
<1>4. finalizers' = <<>>
  BY <1>1, <1>3
<1>5. DOMAIN env' = DOMAIN env /\ env'.source = 1 /\ env'.mode = "normal" /\ env'.peers = Nodes
  BY <1>1, <1>3 DEF Shape
<1>6. finalizers' \in Seq(Nodes) /\ Len(finalizers') = 0
  BY <1>4, EmptySeq
<1>7. Owes(Nothing)'
  BY <1>5, <1>6 DEF Owes, Clean, Nothing, Peers, Label
<1>. QED BY <1>1, <1>5, <1>7, AdvanceKeeps DEF StepLeads

\* The proxy's mode is set back, or to another one under its restoration.
LEMMA ModeKeeps ==
  ASSUME ObjectInv, SetMode
  PROVE  ObjectInv'
<1>1. /\ phase = "run" /\ pc <= Len(Program) /\ Step.op = "mode" /\ Advance
      /\ env' = [env EXCEPT !.mode = Step.mode, !.window = Step.ticks]
      /\ finalizers' = finalizers /\ script' = script /\ home' = home /\ Shape
  BY DEF SetMode, At, Running, Step, Otherwise, ObjectInv, celld
<1>2. /\ DOMAIN env' = DOMAIN env /\ env'.source = env.source /\ env'.mode = Step.mode
      /\ env'.peers = env.peers
  BY <1>1 DEF Shape
<1>3. NextPeer' = NextPeer
  BY <1>1, <1>2 DEF NextPeer
<1>4. ASSUME NEW a \in Labels, NEW b \in Labels, StepLeads(Step, a, b), Owes(a) PROVE Owes(b)'
  <2>1. b = a /\ (Step.mode # "normal" => a = Proxy)
    BY <1>1, <1>4 DEF StepLeads
  <2>2. CASE a = Proxy
    BY <1>1, <1>2, <1>4, <2>1, <2>2 DEF Owes, Proxy, Label
  <2>3. CASE Step.mode = "normal"
    BY <1>1, <1>2, <1>3, <1>4, <2>1, <2>3 DEF Owes, Clean
  <2>. QED BY <2>1, <2>2, <2>3
<1>. QED BY <1>1, <1>2, <1>4, AdvanceKeeps DEF Shape

\* The restoration of the proxy's mode is on the list before the mode is set.
LEMMA GuardKeeps ==
  ASSUME ObjectInv, GuardProxy
  PROVE  ObjectInv'
<1>1. /\ phase = "run" /\ pc <= Len(Program) /\ Step.op = "guardProxy" /\ Advance
      /\ env' = env /\ finalizers' = <<"proxy">> \o finalizers /\ script' = script /\ Shape
  BY DEF GuardProxy, At, Running, Step, Otherwise, ObjectInv
<1>2. Owes(Nothing)
  BY <1>1, StepIsLabelled DEF StepLeads
<1>3. Clean /\ finalizers = <<>> /\ env.peers = Nodes
  BY <1>1, <1>2, NothingOwed
<1>4. finalizers' = <<"proxy">>
  BY <1>1, <1>3
<1>5. Owes(Proxy)'
  BY <1>1, <1>3, <1>4 DEF Owes, Clean, Proxy, Label
<1>. QED BY <1>1, <1>5, AdvanceKeeps DEF StepLeads, Shape

\* Fewer than all peers are cut off: there is a next one.
LEMMA PeerLeft ==
  ASSUME NEW k \in 0 .. Len(Order) - 2, finalizers \in Seq(Nodes), Len(finalizers) = k,
         Nodes \ env.peers \subseteq Range(finalizers)
  PROVE  NextPeer \in Nodes /\ NextPeer # home
<1>1. IsFiniteSet(Nodes)
  <2>1. \A n \in Nodes : \E i \in 1..Len(Order) : Order[i] = n
    BY OrderFacts DEF Nodes
  <2>2. Order \in Surjection(1..Len(Order), Nodes)
    BY <2>1, OrderFacts, LenProperties DEF Surjection
  <2>. QED BY <2>2, OrderFacts, FS_NatSurjection DEF ExistsSurjection
<1>2. IsFiniteSet(Range(finalizers)) /\ Cardinality(Range(finalizers)) <= k
  <2>1. finalizers \in [1..k -> Range(finalizers)] /\ DOMAIN finalizers = 1..k
    BY LenProperties DEF Range
  <2>2. finalizers \in Surjection(1..k, Range(finalizers))
    BY <2>1 DEF Surjection, Range
  <2>3. ExistsSurjection(1..k, Range(finalizers)) /\ k \in Nat
    BY <2>2, OrderFacts DEF ExistsSurjection
  <2>. QED BY <2>3, FS_NatSurjection, FS_SurjCardinalityBound
<1>3. PICK S : S = Range(finalizers) \cup {home}
  OBVIOUS
<1>4. IsFiniteSet(S) /\ Cardinality(S) \in Nat /\ Cardinality(S) <= k + 1
  <2>1. Cardinality(Range(finalizers)) \in Nat
    BY <1>2, FS_CardinalityType
  <2>2. Cardinality(S) \in {Cardinality(Range(finalizers)), Cardinality(Range(finalizers)) + 1}
    BY <1>2, <1>3, FS_AddElement
  <2>. QED BY <1>2, <1>3, <2>1, <2>2, FS_AddElement, OrderFacts
<1>5. ~(Nodes \subseteq S)
  <2>1. Nodes \subseteq S => Cardinality(Nodes) <= Cardinality(S)
    BY <1>4, FS_Subset
  <2>. QED BY <1>4, <2>1, OrderFacts
<1>6. PICK n \in Nodes : n # home /\ n \in env.peers
  BY <1>3, <1>5
<1>7. PICK T : T = {i \in DOMAIN Order : Order[i] # home /\ Order[i] \in env.peers}
  OBVIOUS
<1>8. T \subseteq Nat /\ T # {}
  <2>1. PICK i \in DOMAIN Order : Order[i] = n
    BY DEF Nodes
  <2>2. i \in T
    BY <1>6, <1>7, <2>1
  <2>3. T \subseteq 1..Len(Order)
    BY <1>7, OrderFacts
  <2>. QED BY <2>2, <2>3, OrderFacts
<1>9. \E x \in T : \A y \in T : x <= y
  BY <1>8, Smallest
<1>10. Min(T) \in T
  BY <1>9 DEF Min
<1>. QED BY <1>7, <1>10, OrderFacts DEF NextPeer

\* partitionPeers: the next peer is on the list, then cut off; and a peer is
\* connected again when it is taken from the list.
LEMMA PeersKeep ==
  ASSUME ObjectInv, SetPeers
  PROVE  ObjectInv'
<1>1. /\ phase = "run" /\ pc <= Len(Program) /\ Advance
      /\ script' = script /\ home' = home /\ Shape
      /\ Step.op \in {"guardPeer", "cutPeer", "reconnect"}
      /\ Step.op = "guardPeer" => finalizers' = <<NextPeer>> \o finalizers /\ env' = env
      /\ Step.op = "cutPeer" =>
           finalizers' = finalizers /\ env' = [env EXCEPT !.peers = @ \ {NextPeer}]
      /\ Step.op = "reconnect" =>
           finalizers' = Tail(finalizers) /\ env' = Restored(Head(finalizers))
  BY DEF SetPeers, At, Running, Step, Otherwise, ObjectInv, celld
<1>2. PICK a, b \in Labels : StepLeads(Step, a, b) /\ Owes(a)
  BY <1>1, StepIsLabelled
<1>3. CASE Step.op = "guardPeer"
  <2>1. NextPeer' = NextPeer /\ Shape
    BY <1>1, <1>3 DEF NextPeer
  <2>2. ASSUME NEW k \in 0 .. Len(Order) - 2, Owes(Peers(k)) PROVE Owes(Guarded(k))'
    <3>1. /\ Clean /\ finalizers \in Seq(Nodes) /\ Len(finalizers) = k
          /\ Nodes \ env.peers \subseteq Range(finalizers)
      BY <2>2 DEF Owes, Peers, Label
    <3>2. NextPeer \in Nodes
      BY <3>1, PeerLeft
    <3>3. /\ finalizers' \in Seq(Nodes) /\ Len(finalizers') = k + 1
          /\ Head(finalizers') = NextPeer /\ Tail(finalizers') = finalizers
      <4>1. PICK n \in Nodes : n = NextPeer
        BY <3>2
      <4>2. finalizers' = <<n>> \o finalizers
        BY <1>1, <1>3, <4>1
      <4>. QED BY <3>1, <4>1, <4>2, AddedIsLast
    <3>. QED BY <1>1, <1>3, <2>1, <3>1, <3>3 DEF Owes, Clean, Guarded, Label
  <2>. QED BY <1>1, <1>3, <2>2, AdvanceKeeps DEF StepLeads, Shape
<1>4. CASE Step.op = "cutPeer"
  <2>1. /\ DOMAIN env' = DOMAIN env /\ env'.source = env.source /\ env'.mode = env.mode
        /\ env'.peers = env.peers \ {NextPeer} /\ finalizers' = finalizers
    BY <1>1, <1>4 DEF Shape
  <2>2. ASSUME NEW k \in 0 .. Len(Order) - 2, Owes(Guarded(k)) PROVE Owes(Peers(k + 1))'
    <3>1. /\ Clean /\ finalizers \in Seq(Nodes) /\ Len(finalizers) = k + 1
          /\ Nodes \ env.peers \subseteq Range(Tail(finalizers))
          /\ Head(finalizers) = NextPeer
      BY <2>2 DEF Owes, Guarded, Label
    <3>2. finalizers # <<>>
      BY <3>1, EmptySeq, OrderFacts
    <3>3. Range(finalizers) = {NextPeer} \cup Range(Tail(finalizers))
      BY <3>1, <3>2, LastAndRest
    <3>4. Nodes \ env'.peers \subseteq Range(finalizers)
      BY <2>1, <3>1, <3>3
    <3>. QED BY <2>1, <3>1, <3>4 DEF Owes, Clean, Peers, Label
  <2>. QED BY <1>1, <1>4, <2>1, <2>2, AdvanceKeeps DEF StepLeads, Shape
<1>5. CASE Step.op = "reconnect"
  <2>1. /\ DOMAIN env' = DOMAIN env /\ env'.source = env.source /\ env'.mode = env.mode
        /\ env'.peers = env.peers \cup {Head(finalizers)} /\ finalizers' = Tail(finalizers)
    BY <1>1, <1>5 DEF Shape, Restored
  <2>2. ASSUME NEW k \in 0 .. Len(Order) - 2, Owes(Peers(k + 1))
        PROVE  Head(finalizers) \in Nodes /\ Owes(Peers(k))'
    <3>1. /\ Clean /\ finalizers \in Seq(Nodes) /\ Len(finalizers) = k + 1
          /\ Nodes \ env.peers \subseteq Range(finalizers)
      BY <2>2 DEF Owes, Peers, Label
    <3>2. finalizers # <<>>
      BY <3>1, EmptySeq, OrderFacts
    <3>3. /\ Head(finalizers) \in Nodes /\ finalizers' \in Seq(Nodes) /\ Len(finalizers') = k
          /\ Range(finalizers) = {Head(finalizers)} \cup Range(finalizers')
      BY <2>1, <3>1, <3>2, LastAndRest, OrderFacts
    <3>4. Nodes \ env'.peers \subseteq Range(finalizers')
      BY <2>1, <3>1, <3>3
    <3>. QED BY <2>1, <3>1, <3>3, <3>4 DEF Owes, Clean, Peers, Label
  <2>3. \E k \in 0 .. Len(Order) - 2 : Owes(Peers(k + 1))
    BY <1>2, <1>5 DEF StepLeads
  <2>4. env'.peers \subseteq Nodes
    BY <1>1, <2>1, <2>2, <2>3 DEF Shape
  <2>5. \A c, d \in Labels : StepLeads(Step, c, d) /\ Owes(c) => Owes(d)'
    BY <1>5, <2>2 DEF StepLeads
  <2>. QED BY <1>1, <2>1, <2>4, <2>5, AdvanceKeeps
<1>. QED BY <1>1, <1>3, <1>4, <1>5

-----------------------------------------------------------------------------
(* The end of the case.                                                    *)

\* Each restoration that is taken puts back what it is for.
LEMMA FinalizeKeeps ==
  ASSUME ObjectInv, Finalize
  PROVE  ObjectInv'
<1>. DEFINE x == Head(finalizers)
<1>1. /\ phase = "closing" /\ phase' = "closing" /\ finalizers # <<>>
      /\ finalizers' = Tail(finalizers) /\ script' = script /\ pc' = pc
      /\ Shape /\ DisturbedIsListed
  BY DEF Finalize, ObjectInv
<1>2. /\ x \in Nodes \cup {"source", "proxy"}
      /\ finalizers' \in Seq(Nodes \cup {"source", "proxy"})
      /\ Range(finalizers) = {x} \cup Range(finalizers')
  BY <1>1, LastAndRest DEF DisturbedIsListed
<1>3. /\ x = "source" => env' = [env EXCEPT !.source = 1]
      /\ x = "proxy" => env' = [env EXCEPT !.mode = "normal", !.window = 0]
      /\ x \in Nodes => env' = [env EXCEPT !.peers = @ \cup {x}]
  BY NamesAssumption DEF Finalize, Restored
<1>. HIDE DEF x
<1>4. CASE x = "source"
  <2>1. /\ DOMAIN env' = DOMAIN env /\ env'.source = 1 /\ env'.mode = env.mode
        /\ env'.peers = env.peers
    BY <1>1, <1>3, <1>4 DEF Shape
  <2>2. x # "proxy" /\ x \notin Nodes
    BY <1>4, NamesAssumption
  <2>3. Shape' /\ DisturbedIsListed'
    BY <1>1, <1>2, <2>1, <2>2 DEF Shape, DisturbedIsListed
  <2>. QED BY <1>1, <2>3 DEF ObjectInv, FollowsLabels, EverythingIsRestored
<1>5. CASE x = "proxy"
  <2>1. /\ DOMAIN env' = DOMAIN env /\ env'.source = env.source /\ env'.mode = "normal"
        /\ env'.peers = env.peers
    BY <1>1, <1>3, <1>5 DEF Shape
  <2>2. x # "source" /\ x \notin Nodes
    BY <1>5, NamesAssumption
  <2>3. Shape' /\ DisturbedIsListed'
    BY <1>1, <1>2, <2>1, <2>2 DEF Shape, DisturbedIsListed
  <2>. QED BY <1>1, <2>3 DEF ObjectInv, FollowsLabels, EverythingIsRestored
<1>6. CASE x \in Nodes
  <2>1. /\ DOMAIN env' = DOMAIN env /\ env'.source = env.source /\ env'.mode = env.mode
        /\ env'.peers = env.peers \cup {x}
    BY <1>1, <1>3, <1>6 DEF Shape
  <2>2. x # "source" /\ x # "proxy"
    BY <1>6, NamesAssumption
  <2>3. Shape' /\ DisturbedIsListed'
    BY <1>1, <1>2, <1>6, <2>1, <2>2 DEF Shape, DisturbedIsListed
  <2>. QED BY <1>1, <2>3 DEF ObjectInv, FollowsLabels, EverythingIsRestored
<1>. QED BY <1>2, <1>4, <1>5, <1>6

\* The scope is closed when its list is empty: nothing is disturbed.
LEMMA CloseKeeps ==
  ASSUME ObjectInv, Close
  PROVE  ObjectInv'
<1>1. /\ phase = "closing" /\ phase' = "closed" /\ finalizers = <<>> /\ env' = env
      /\ script' = script /\ pc' = pc /\ Shape /\ DisturbedIsListed
  BY DEF Close, ObjectInv
<1>2. Range(finalizers) = {}
  BY <1>1 DEF Range
<1>3. env.source = 1 /\ env.mode = "normal" /\ env.peers = Nodes
  BY <1>1, <1>2 DEF DisturbedIsListed, Shape
<1>4. Shape'
  BY <1>1 DEF Shape
<1>. QED BY <1>1, <1>3, <1>4 DEF ObjectInv, FollowsLabels, EverythingIsRestored

-----------------------------------------------------------------------------
(* The theorem.                                                            *)

\* A case begins with nothing disturbed and nothing owed.
LEMMA ObjectInvInit == Init => ObjectInv
<1>. SUFFICES ASSUME Init PROVE ObjectInv
  OBVIOUS
<1>1. Shape
  BY ResidentAssumption DEF Init, Shape
<1>2. /\ phase = "run" /\ pc = 1 /\ Clean /\ env.peers = Nodes /\ finalizers = <<>>
  BY DEF Init, Clean
<1>3. Labelling(Program)[1] = Nothing /\ Len(Program) \in Nat
  BY <1>1, ProgramFacts
<1>4. finalizers \in Seq(Nodes) /\ Len(finalizers) = 0
  BY <1>2, EmptySeq
<1>5. Owes(Nothing)
  BY <1>2, <1>4 DEF Owes, Nothing, Peers, Label
<1>. QED BY <1>1, <1>2, <1>3, <1>5 DEF ObjectInv, FollowsLabels, EverythingIsRestored

\* Every step of the driver keeps the invariant.
LEMMA DriverKeeps ==
  ASSUME ObjectInv, DriverStep
  PROVE  ObjectInv'
<1>1. CASE \/ SendCall \/ JoinCall \/ SeeIt \/ TakeIt \/ CheckAll \/ Wait \/ AwaitCall \/ Mark
           \/ ConnectSocket \/ ExchangeMessage \/ Deploy \/ Tamper \/ ReloadNode \/ Restart
  BY <1>1, StillActions, StillKeeps
<1>2. CASE ReplaceFixture \/ PutFixtureBack
  BY <1>2, ReplaceKeeps, ReleaseKeeps
<1>3. CASE SetMode \/ GuardProxy
  BY <1>3, ModeKeeps, GuardKeeps
<1>4. CASE SetPeers
  BY <1>4, PeersKeep
<1>5. CASE Pass
  BY <1>5, EndKeeps DEF Pass, Quietly, Otherwise, celld, Untouched
<1>6. CASE Finalize \/ Close
  BY <1>6, FinalizeKeeps, CloseKeeps
<1>. QED BY <1>1, <1>2, <1>3, <1>4, <1>5, <1>6 DEF DriverStep

\* celld's steps leave the driver and what it disturbs alone.
LEMMA CelldActions ==
  ASSUME CelldStep
  PROVE  Untouched /\ phase' = phase /\ pc' = pc
<1>1. CASE \E s \in Slots : Enter(s)
  BY <1>1 DEF Enter, driver, Untouched
<1>2. CASE \E s \in Slots : Finish(s)
  BY <1>2 DEF Finish, driver, Untouched
<1>3. CASE \E s \in Slots : TimeOut(s)
  BY <1>3 DEF TimeOut, celld, driver, Untouched
<1>4. CASE StartRound
  BY <1>4 DEF StartRound, driver, Untouched
<1>5. CASE SettleRound
  BY <1>5 DEF SettleRound, driver, Untouched
<1>6. CASE EndBarrier
  BY <1>6 DEF EndBarrier, celld, driver, Untouched
<1>7. CASE FormEnsemble
  BY <1>7 DEF FormEnsemble, driver, Untouched
<1>8. CASE StartAlarm
  BY <1>8 DEF StartAlarm, driver, Untouched
<1>9. CASE EndAlarm
  BY <1>9 DEF EndAlarm, driver, Untouched
<1>10. CASE Move
  BY <1>10 DEF Move, driver, Untouched
<1>11. CASE ForceMove
  BY <1>11 DEF ForceMove, driver, Untouched
<1>. QED BY <1>1, <1>2, <1>3, <1>4, <1>5, <1>6, <1>7, <1>8, <1>9, <1>10, <1>11 DEF CelldStep

\* The scope's list is what the label of the next step says, in every reachable
\* state; and a list that is left holds whatever is disturbed.
THEOREM OwedIsAlwaysListed == Spec => []ObjectInv
<1>1. ObjectInv /\ [Next]_vars => ObjectInv'
  <2>. SUFFICES ASSUME ObjectInv, [Next]_vars PROVE ObjectInv'
    OBVIOUS
  <2>1. CASE DriverStep
    BY <2>1, DriverKeeps
  <2>2. CASE CelldStep
    BY <2>2, CelldActions, BesideKeeps
  <2>3. CASE Tick
    <3>1. Untouched /\ phase' = phase /\ pc' = pc
      BY <2>3 DEF Tick, Untouched, ObjectInv, Shape
    <3>. QED BY <3>1, BesideKeeps
  <2>4. CASE Interrupt
    BY <2>4, EndKeeps DEF Interrupt, Untouched
  <2>5. CASE UNCHANGED vars
    BY <2>5, BesideKeeps DEF vars, celld, driver, Untouched
  <2>. QED BY <2>1, <2>2, <2>3, <2>4, <2>5 DEF Next
<1>. QED BY <1>1, ObjectInvInit, PTL DEF Spec

\* However a case is left, at whatever step it is interrupted, fails or passes, the
\* fixture, the storage proxy and the peer network are what they were.
THEOREM CaseRestores == Spec => []EverythingIsRestored
<1>1. ObjectInv => EverythingIsRestored
  BY DEF ObjectInv
<1>. QED BY <1>1, OwedIsAlwaysListed, PTL
=============================================================================
