---------------------------- MODULE MCRecurring ----------------------------
(***************************************************************************)
(* Recurring on small instances: a day stands for the period of the        *)
(* shorter interval, payments fall on whole days.                          *)
(***************************************************************************)
EXTENDS Recurring, TLC

MCSpecs == <<[name |-> "monthly", target |-> 1, tolerance |-> 0, min |-> 2],
             [name |-> "quarterly", target |-> 2, tolerance |-> 0, min |-> 2]>>

Pay(id, group, day, household, file, transfer) ==
    [id |-> id, group |-> group, day |-> day, household |-> household,
     file |-> file, transfer |-> transfer]

MCGroup == {1}
\* Two households that pay the same landlord.  The bookings of the first one
\* make a monthly series, or a quarterly one without the middle booking,
\* which may turn out to be part of a transfer.
SameLandlord ==
    {Pay(1, 1, 0, "h1", 1, FALSE), Pay(2, 1, 1, "h1", 2, TRUE),
     Pay(3, 1, 2, "h1", 1, FALSE),
     Pay(4, 1, 0, "h2", 3, FALSE), Pay(5, 1, 1, "h2", 3, FALSE)}

MCSymmetry == Permutations(Scanner)

\* At most one verdict, and two scans overlap unless both are of the second
\* household, whose bookings make one series only.
MaxVerdicts == 1
Apart == Cardinality(Scanner) = 1 \/ \E p \in Scanner : scan[p] = Idle \/ scan[p].household = "h1"
Bounded == Cardinality(decided) <= MaxVerdicts /\ Apart
MCSpec == Init /\ [][Next /\ Bounded']_vars
=============================================================================
