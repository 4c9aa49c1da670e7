----------------------------- MODULE MCPlanning -----------------------------
(***************************************************************************)
(* Planning on a small instance.  Requests are interchangeable.            *)
(***************************************************************************)
EXTENDS PlanningOverlap, TLC

MCSymmetry == Permutations(Request)
=============================================================================
