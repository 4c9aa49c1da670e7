------------------------------ MODULE MCImport ------------------------------
(***************************************************************************)
(* A small instance of Import: two files that share bookings in opposite   *)
(* order, one of them with a repeated row, one whose bookings name no      *)
(* account and an unreadable file.                                         *)
(***************************************************************************)
EXTENDS Import, TLC

CONSTANTS b1, b2, b3, fa, fb, fc, fbad, p1, p2, q1, q2, h1, h2

MCOrderOf == b1 :> 1 @@ b2 :> 2 @@ b3 :> 0
Rows == fa :> <<b1, b2>> @@ fb :> <<b2, b1, b2>> @@ fc :> <<b3>> @@ fbad :> <<b3>>
MCRowsOf == [f \in File |-> Rows[f]]

\* Calls are interchangeable, and so are households: it is enough to let the
\* calls begin in one order, the first with one household.  Only the first
\* upload names an account, and the second rollback fails to find its run only
\* when the uploads have ended.
InOrder ==
    /\ household[p1] # h2
    /\ stage[p2] = "lookup" => acct[p2] = None
    /\ stage[q2] = "not_found" => \A p \in Upload : stage[p] \in Ended
    /\ stage[p1] = "idle" => stage[p2] = "idle"
    /\ stage[q1] = "idle" => stage[q2] = "idle"
MCSpec == Init /\ [][Next /\ InOrder']_vars /\ Fairness
=============================================================================
