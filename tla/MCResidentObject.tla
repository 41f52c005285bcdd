-------------------------- MODULE MCResidentObject --------------------------
(* An instance of ResidentObject: three nodes, every case and every defect. *)
EXTENDS ResidentObject

CONSTANTS celld1, celld2, celld3
Trio == <<celld1, celld2, celld3>>
FirstOrLast == {celld1, celld3}
=============================================================================
