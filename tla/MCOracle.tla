------------------------------ MODULE MCOracle ------------------------------
(* Instances of Oracle: two cases, one of which may be documented as        *)
(* divergent, two bugs, and registries whose entries may be duplicated,     *)
(* about a fixed or an unknown bug, or without one.                         *)
EXTENDS Oracle

CONSTANTS c1, c2, b1, b2

Cases == {c1, c2}
Bugs == {b1, b2}
Numbers == 5..6
Profile(flags) == [date |-> 1, flags |-> flags]
AnyProfile == {Profile(<<"a", "b">>), Profile(<<"b", "a">>), Profile(<<"b">>)}
AnyValue == {"x", "y"}

Scope(fork) == [version |-> [release |-> 5, fork |-> fork],
                profile |-> Profile(<<"a", "b">>)]
AnyReviewed == {Scope(0), Scope(1)}

Bug(id, state) == [id |-> id, status |-> state]
Entry(case, bugs, fork) ==
  [caseId |-> case, bugIds |-> bugs, scope |-> Scope(fork), candidate |-> "x"]

AnyRegistry ==
  [bugs : {<<Bug(b1, "open")>>, <<Bug(b1, "fixed")>>,
           <<Bug(b1, "fixed"), Bug(b1, "open")>>,
           <<Bug(b1, "open"), Bug(b2, "fixed")>>},
   expectations : {<<>>, <<Entry(c1, <<b1>>, 0)>>, <<Entry(c1, <<>>, 0)>>,
                   <<Entry(c1, <<b1>>, 1)>>, <<Entry(c1, <<b1, b2>>, 0)>>,
                   <<Entry(c2, <<b1>>, 0), Entry(c1, <<b1>>, 0)>>,
                   <<Entry(c1, <<b1>>, 0), Entry(c1, <<b1>>, 1)>>}]
=============================================================================
