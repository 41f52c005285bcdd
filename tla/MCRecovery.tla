----------------------------- MODULE MCRecovery -----------------------------
(* Recovery is checked as it stands: its parameters are given in the cfg.   *)
EXTENDS Recovery
=============================================================================
