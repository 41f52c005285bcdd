----------------------------- MODULE MCTelemetry -----------------------------
(* Telemetry is checked as it stands.                                       *)
EXTENDS Telemetry
=============================================================================
