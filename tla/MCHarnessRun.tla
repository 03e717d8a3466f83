---------------------------- MODULE MCHarnessRun ----------------------------
(* HarnessRun for TLC.                                                     *)
EXTENDS HarnessRun
=============================================================================
