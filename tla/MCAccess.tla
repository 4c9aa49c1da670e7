------------------------------ MODULE MCAccess ------------------------------
(***************************************************************************)
(* Access on small instances.  A behaviour is either about logins, or      *)
(* about the requests of one session and the clock.                        *)
(***************************************************************************)
EXTENDS Access, TLC

Symmetry == Permutations(Caller)

Logins == [login |-> 3, request |-> 0, tick |-> 0, cut |-> 1]
Requests == [login |-> 1, request |-> 3, tick |-> 4, cut |-> 0]
Expiring == [login |-> 2, request |-> 0, tick |-> 2, cut |-> 0]
MCBudgets == {Logins, Requests, Expiring}
=============================================================================
