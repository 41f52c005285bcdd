------------------------------- MODULE Oracle -------------------------------
(***************************************************************************)
(* How one API case is judged: the registry of known bugs the suite reads  *)
(* and validates first (src/KnownBugs.ts), the expectation it finds for    *)
(* the case, and evaluate (src/Oracle.ts), which runs the case's program   *)
(* on the reference and on the candidate and asks the case's own check and *)
(* compare what the two values are worth.                                  *)
(*                                                                         *)
(* The case's effects are external: each call ends in any cause, the empty *)
(* one being success.  A timeout of 30 seconds is a failure.               *)
(***************************************************************************)
EXTENDS Naturals, Sequences, FiniteSets

CONSTANTS
  CaseIds,      \* the catalogue's case identities
  BugIds,       \* identities of bugs
  Registries,   \* the registries a docs/bugs.json may hold
  Releases,     \* upstream release numbers of celld
  Profiles,     \* compatibility profiles: a date, and a sequence of flags
  Reviewed,     \* the scopes that expectations were reviewed for
  Values        \* what a program returns

\* celld's versions: an upstream release, or fork build n of one.
Versions == [release : Releases, fork : 0..1]
ASSUME RegistriesAssumption ==
  \A book \in Registries :
    /\ Len(book.expectations) \in Nat
    /\ DOMAIN book.expectations = 1..Len(book.expectations)
ASSUME ReviewedAssumption == Reviewed \subseteq [version : Versions, profile : Profiles]

\* What is known of the run when evaluate is called.
Settings ==
  [id : CaseIds,                    \* the case under evaluation
   divergent : SUBSET CaseIds,      \* the cases with a documented divergence
   documented : Reviewed,           \* the scope of this case's, if it has one
   celld : BOOLEAN,                 \* the candidate's engine
   version : Versions,              \* the candidate's version
   profile : Profiles,              \* the input's profile
   policy : {"allow", "error"}]     \* --known-bugs

Causes == SUBSET {"fail", "die", "interrupt"}
Success == {}
Calls == {"reference", "checkReference", "candidate", "checkCandidate",
          "compare", "evidence"}
NoValue == "undefined"
NoResult == "none"

VARIABLES
  registry,     \* the decoded docs/bugs.json
  run,          \* the settings
  stage,        \* the next step of evaluate
  mode,         \* "plain", or the expectation under examination
  ends,        \* how each call made so far ended
  value,        \* what the candidate returned
  status,       \* evaluate's variable, line 42
  exit,         \* the cause the inner program ended with
  result        \* the status of the result returned

oracleVars == <<registry, run, stage, mode, ends, value, status, exit, result>>
inputs == <<registry, run>>

ResultStatuses ==
  {"reference-error", "fail", "divergence", "known-bug", "pass"}

TypeOK ==
  /\ registry \in Registries /\ run \in Settings
  /\ stage \in {"registry", "refused", "judge", "guard", "ended", "done"} \cup Calls
  /\ mode \in {"plain", "divergence", "known-bug"}
  /\ DOMAIN ends \subseteq Calls /\ \A call \in DOMAIN ends : ends[call] \in Causes
  /\ value \in Values \cup {NoValue}
  /\ status \in ResultStatuses /\ exit \in Causes
  /\ result \in ResultStatuses \cup {NoResult}

OracleInit ==
  /\ registry \in Registries /\ run \in Settings
  /\ stage = "registry" /\ mode = "plain" /\ ends = <<>> /\ value = NoValue
  /\ status = "reference-error" /\ exit = Success /\ result = NoResult

-----------------------------------------------------------------------------
(* The registry: a sequence of bugs and a sequence of expectations.        *)

Members(s) == {s[i] : i \in DOMAIN s}
Distinct(s) == \A i, j \in DOMAIN s : s[i] = s[j] => i = j

BugNames(bugs) == [i \in DOMAIN bugs |-> bugs[i].id]
IsOpen(bugs, id) == \E bug \in Members(bugs) : bug.id = id /\ bug.status = "open"

\* Mutant: a bug that was fixed is good enough.
ValidExpectationAnyBug(bugs, entry, divergent) ==
  /\ entry.caseId \in CaseIds \ divergent
  /\ entry.bugIds # <<>> /\ Distinct(entry.bugIds)
  /\ Members(entry.bugIds) \subseteq Members(BugNames(bugs))

\* Lines 40-53 of KnownBugs.ts, but for the case being claimed twice.
ValidExpectation(bugs, entry, divergent) ==
  /\ entry.caseId \in CaseIds \ divergent
  /\ entry.bugIds # <<>> /\ Distinct(entry.bugIds)
  /\ \A id \in Members(entry.bugIds) : IsOpen(bugs, id)

validateBugRegistry(book, divergent) ==
  /\ Distinct(BugNames(book.bugs))
  /\ \A i \in DOMAIN book.expectations :
       /\ ValidExpectation(book.bugs, book.expectations[i], divergent)
       /\ \A j \in 1..(i - 1) :
            book.expectations[j].caseId # book.expectations[i].caseId

\* Runner.ts line 184: the first entry for the case.
Claims(book, id) ==
  {i \in DOMAIN book.expectations : book.expectations[i].caseId = id}
First(S) == CHOOSE i \in S : \A j \in S : i <= j
ExpectationFor(book, id) == book.expectations[First(Claims(book, id))]

Expected == Claims(registry, run.id) # {}
Expectation == ExpectationFor(registry, run.id)

ValidateRegistry ==
  /\ stage = "registry"
  /\ stage' = IF validateBugRegistry(registry, run.divergent)
                THEN "reference" ELSE "refused"
  /\ UNCHANGED <<inputs, mode, ends, value, status, exit, result>>

-----------------------------------------------------------------------------
(* Scope of an expectation.                                                *)

\* Lines 25-28: a fork build inherits what was reviewed of its release; the
\* reviewed version is compared as it stands.
matchesCelldVersion(actual, expected) == [actual EXCEPT !.fork = 0] = expected

Count(flag, flags) == Cardinality({i \in DOMAIN flags : flags[i] = flag})

\* Lines 150-160: equal dates, and flags equal as sorted lists.
matchesProfile(actual, expected) ==
  /\ actual.date = expected.date
  /\ \A flag \in Members(actual.flags) \cup Members(expected.flags) :
       Count(flag, actual.flags) = Count(flag, expected.flags)

InScope(settings, scope) ==
  /\ matchesCelldVersion(settings.version, scope.version)
  /\ matchesProfile(settings.profile, scope.profile)

Guard ==
  InScope(run, IF mode = "divergence" THEN run.documented ELSE Expectation.scope)

-----------------------------------------------------------------------------
(* evaluate.                                                               *)

Ended(cause) == stage' = "ended" /\ exit' = cause

\* One more call was made.
Ending(name, cause) ==
  [call \in DOMAIN ends \cup {name} |-> IF call = name THEN cause ELSE ends[call]]

\* A call of the case's code, which ends the inner program unless it succeeds.
Call(name, cause, next) ==
  /\ stage = name
  /\ ends' = Ending(name, cause)
  /\ IF cause = Success THEN stage' = next /\ UNCHANGED exit ELSE Ended(cause)

RunReference(cause) ==
  /\ Call("reference", cause, "checkReference")
  /\ UNCHANGED <<inputs, mode, value, status, result>>

CheckReference(cause) ==
  /\ Call("checkReference", cause, "candidate")
  /\ status' = IF cause = Success THEN "fail" ELSE status
  /\ UNCHANGED <<inputs, mode, value, result>>

RunCandidate(cause) ==
  /\ Call("candidate", cause, "judge")
  /\ IF cause = Success THEN value' \in Values ELSE UNCHANGED value
  /\ UNCHANGED <<inputs, mode, status, result>>

Divergent == run.id \in run.divergent /\ run.celld

\* Which of the three paths judges the candidate's value (lines 92, 109, 125).
ChoosePath ==
  /\ stage = "judge"
  /\ \/ Divergent /\ mode' = "divergence" /\ stage' = "guard"
     \/ /\ ~Divergent /\ Expected /\ run.celld /\ run.policy = "allow"
        /\ mode' = "known-bug" /\ stage' = "guard"
     \/ /\ ~Divergent /\ (~Expected \/ ~run.celld \/ run.policy = "error")
        /\ mode' = "plain" /\ stage' = "checkCandidate"
  /\ UNCHANGED <<inputs, ends, value, status, exit, result>>

\* Line 64: the expectation is for exactly this version and profile.
CheckGuard ==
  /\ stage = "guard"
  /\ IF Guard THEN stage' = "checkCandidate" /\ UNCHANGED exit
              ELSE Ended({"fail"})
  /\ UNCHANGED <<inputs, mode, ends, value, status, result>>

\* Mutant: lines 85-89 are missing.
NonConformingHowever(cause) == stage' = "evidence" /\ UNCHANGED exit

\* Lines 85-89: the candidate did not conform.  A defect or an interruption of
\* the oracle shows nothing.
NonConforming(cause) ==
  IF cause \cap {"interrupt", "die"} # {} THEN Ended(cause)
                                          ELSE stage' = "evidence" /\ UNCHANGED exit

\* Lines 71-77 under an expectation, line 125 without.
CheckCandidate(cause) ==
  /\ stage = "checkCandidate"
  /\ ends' = Ending("checkCandidate", cause)
  /\ IF cause = Success THEN stage' = "compare" /\ UNCHANGED exit
     ELSE IF mode = "plain" THEN Ended(cause) ELSE NonConforming(cause)
  /\ UNCHANGED <<inputs, mode, value, status, result>>

\* Mutant: the status is set before the comparison is made.
CompareAfterPass(cause) ==
  /\ stage = "compare"
  /\ ends' = Ending("compare", cause)
  /\ IF mode = "plain"
       THEN Ended(cause) /\ status' = "pass"
       ELSE /\ IF cause = Success THEN Ended({"fail"}) ELSE NonConforming(cause)
            /\ UNCHANGED status
  /\ UNCHANGED <<inputs, mode, value, result>>

\* Lines 75-84 under an expectation, 126-127 without: a candidate that conforms
\* is no longer what the expectation describes.
Compare(cause) ==
  /\ stage = "compare"
  /\ ends' = Ending("compare", cause)
  /\ IF mode = "plain"
       THEN /\ Ended(cause)
            /\ status' = IF cause = Success THEN "pass" ELSE status
       ELSE /\ IF cause = Success THEN Ended({"fail"}) ELSE NonConforming(cause)
            /\ UNCHANGED status
  /\ UNCHANGED <<inputs, mode, value, result>>

\* The evidence of a known bug is a value equal to the recorded one.
SameEvidence(cause) ==
  mode = "known-bug" =>
    cause = IF value = Expectation.candidate THEN Success ELSE {"fail"}

\* Mutant: the status is the phase of the expectation's errors.
CheckEvidencePhase(cause) ==
  /\ stage = "evidence" /\ SameEvidence(cause)
  /\ ends' = Ending("evidence", cause)
  /\ Ended(cause)
  /\ status' = IF cause # Success THEN status
               ELSE IF mode = "divergence" THEN mode ELSE "known-bugs"
  /\ UNCHANGED <<inputs, mode, value, result>>

\* Line 90, then 106 or 122.
CheckEvidence(cause) ==
  /\ stage = "evidence" /\ SameEvidence(cause)
  /\ ends' = Ending("evidence", cause)
  /\ Ended(cause)
  /\ status' = IF cause = Success THEN mode ELSE status
  /\ UNCHANGED <<inputs, mode, value, result>>

\* Mutant: an interrupted case is a failed one.
ReturnRegardless ==
  /\ stage = "ended" /\ stage' = "done" /\ result' = status
  /\ UNCHANGED <<inputs, mode, ends, value, status, exit>>

\* Lines 130-147.
Return ==
  /\ stage = "ended" /\ stage' = "done"
  /\ result' = IF "interrupt" \in exit THEN NoResult ELSE status
  /\ UNCHANGED <<inputs, mode, ends, value, status, exit>>

OracleNext ==
  \/ ValidateRegistry \/ ChoosePath \/ CheckGuard \/ Return
  \/ \E cause \in Causes :
       \/ RunReference(cause) \/ CheckReference(cause) \/ RunCandidate(cause)
       \/ CheckCandidate(cause) \/ Compare(cause) \/ CheckEvidence(cause)

OracleSpec == OracleInit /\ [][OracleNext]_oracleVars
-----------------------------------------------------------------------------
(* Properties.                                                             *)

Succeeded(call) == call \in DOMAIN ends /\ ends[call] = Success

\* A pass takes both values, each found satisfactory, and their agreement (lines
\* 45-52 and 125-127).  A wrong reference is never the candidate's fault: before
\* the reference's value has passed its check the candidate is not even run, and
\* "reference-error" says exactly that it has not.
VerdictIsEarned ==
  /\ result = "pass" =>
       \A call \in {"checkReference", "candidate", "checkCandidate", "compare"} : Succeeded(call)
  /\ "candidate" \in DOMAIN ends => Succeeded("checkReference")
  /\ result # NoResult => (result = "reference-error" <=> ~Succeeded("checkReference"))

\* A candidate is waived only while it fails for a reason of its own: not for a
\* defect of the oracle, not after conforming, and only with the evidence of
\* the expectation, which was reviewed for this release and profile
\* (lines 56-91, DESIGN.md on reviewed divergences).
WaiverIsEarned ==
  result \in {"divergence", "known-bug"} =>
    /\ run.celld /\ Guard
    /\ Succeeded("evidence")
    /\ \E call \in DOMAIN ends \cap {"checkCandidate", "compare"} :
         ends[call] = {"fail"}
    /\ result = "known-bug" => value = Expectation.candidate

\* A known bug is cited only while it is open, and never for a case whose
\* divergence is documented (KnownBugs.ts lines 40-53 with Oracle.ts line 109).
OnlyOpenBugsWaive ==
  result = "known-bug" =>
    /\ run.policy = "allow" /\ run.id \notin run.divergent
    /\ \A id \in Members(Expectation.bugIds) :
         \A bug \in Members(registry.bugs) : bug.id = id => bug.status = "open"

\* An interruption of any call is passed on: it yields no result, and nothing
\* else suppresses one (lines 130-131 and 85-89).
InterruptionsPropagate ==
  stage = "done" =>
    (result = NoResult <=>
       \E call \in DOMAIN ends : "interrupt" \in ends[call])
=============================================================================
