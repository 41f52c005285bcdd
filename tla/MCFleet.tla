------------------------------ MODULE MCFleet ------------------------------
(* Instances of Fleet: the nodes of a small fleet, in the harness's order.  *)
EXTENDS Fleet

CONSTANTS celld1, celld2, celld3
Pair == <<celld1, celld2>>
Trio == <<celld1, celld2, celld3>>
=============================================================================
