----------------------------- MODULE MCScenarios -----------------------------
(* Two trials show a mixed outcome; two attempts, one after a failed one.  *)
EXTENDS Scenarios

MCTrials == 2
MCAttempts == 2
MCRetries == 9
=============================================================================
