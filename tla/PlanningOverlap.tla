-------------------------- MODULE PlanningOverlap --------------------------
(***************************************************************************)
(* Planning with a history variable: whether no two requests have          *)
(* overlapped yet.  RecomputeAndSave and Adjust say what they do as if     *)
(* they ran alone (baseline.go:78, :136); these are the promises they keep *)
(* as long as that is so.                                                  *)
(***************************************************************************)
EXTENDS Planning

VARIABLE alone

overlapVars == <<vars, alone>>

Active(p) == call[p] # Idle
AtMostOneActive == \A p, q \in Request : Active(p) /\ Active(q) => p = q

OverlapInit == Init /\ alone = TRUE
OverlapNext == Next /\ alone' = (alone /\ AtMostOneActive')
OverlapSpec == OverlapInit /\ [][OverlapNext]_overlapVars

\* While requests do not overlap, at most one version of each artifact is
\* open ("RecomputeAndSave computes, supersedes prior open rows, and stores a
\* new draft"; baseline.go:78).
OneOpenUntilOverlap == alone => OneOpenVersion

\* While they do not, an adjustment keeps the corrections of the version it
\* replaces ("a new draft baseline with one corrected metric"; baseline.go:136).
CorrectionsUntilOverlap == [][alone' => CarriesCorrections]_vars
=============================================================================
