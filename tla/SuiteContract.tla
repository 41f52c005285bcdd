--------------------------- MODULE SuiteContract ---------------------------
(***************************************************************************)
(* What a suite run promises its reader, without saying how: every         *)
(* selected case gets at most one verdict, the run is judged once, when    *)
(* nothing can change any more, and it is a success only if every case was *)
(* given an acceptable verdict.  The suite executor implements it.         *)
(***************************************************************************)
CONSTANTS
  Ids, Verdicts,
  Acceptable,   \* the verdicts that do not fail a run
  None          \* no verdict

VARIABLES
  verdict,    \* of each case, None before it is given
  judged,     \* the run's own verdict: "open", "success" or "failure"
  exit        \* what the caller of the command sees: "none", "zero", "nonzero"

vars == <<verdict, judged, exit>>

TypeOK ==
  /\ verdict \in [Ids -> Verdicts \cup {None}]
  /\ judged \in {"open", "success", "failure"}
  /\ exit \in {"none", "zero", "nonzero"}

Init ==
  /\ verdict = [id \in Ids |-> None] /\ judged = "open" /\ exit = "none"

\* A case is given its verdict, while the run is open.
Give(id, v) ==
  /\ judged = "open" /\ verdict[id] = None
  /\ verdict' = [verdict EXCEPT ![id] = v]
  /\ UNCHANGED <<judged, exit>>

\* The run is judged; it may fail for reasons that are no case's.
Judge(j) ==
  /\ judged = "open" /\ judged' = j
  /\ j = "success" => \A id \in Ids : verdict[id] \in Acceptable
  /\ UNCHANGED <<verdict, exit>>

\* The command returns; a run that failed never returns zero.
Return(code) ==
  /\ judged # "open" /\ exit = "none" /\ exit' = code
  /\ code = "zero" => judged = "success"
  /\ UNCHANGED <<verdict, judged>>

Next ==
  \/ \E id \in Ids, v \in Verdicts : Give(id, v)
  \/ \E j \in {"success", "failure"} : Judge(j)
  \/ \E code \in {"zero", "nonzero"} : Return(code)

Spec == Init /\ [][Next]_vars
=============================================================================
