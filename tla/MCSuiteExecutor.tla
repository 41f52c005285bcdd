-------------------------- MODULE MCSuiteExecutor --------------------------
(* The instance of SuiteExecutor: the constants are all in the .cfg.        *)
EXTENDS SuiteExecutor
=============================================================================
