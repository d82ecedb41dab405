-------------------------- MODULE MCCloudScheduler --------------------------
(***************************************************************************)
(* Small instances of CloudScheduler.                                      *)
(***************************************************************************)
EXTENDS CloudSchedulerProperties, TLC

CONSTANTS n1, n2, u1, u2, r1, r2

\* HTTP goroutines are interchangeable; for the runs of safety properties only.
RequestSymmetry == Permutations(Request)
=============================================================================
