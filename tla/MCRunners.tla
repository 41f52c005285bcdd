----------------------------- MODULE MCRunners -----------------------------
(* The instance of Runners: four identities, cases to three of the runners,  *)
(* two cases and two deployment checks to the API suite.                    *)
EXTENDS Runners

CONSTANTS a, b, c, d

All == <<a, b, c, d>>
Selected ==
  [api |-> <<a, b>>, recovery |-> All, stages |-> All, qualification |-> All]
OnFixtures  == (a :> "core" @@ b :> "node")
TwoFixtures == <<"core", "node">>
Checks      == <<c, d>>
Environments ==
  {Reference(f) : f \in ToSet(TwoFixtures)} \cup {Candidate(f) : f \in ToSet(TwoFixtures)}
  \cup {TheCluster} \cup {Cluster(id) : id \in ToSet(All)}
=============================================================================
