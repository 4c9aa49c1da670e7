---------------------------- MODULE MCTransfers ----------------------------
(* Small instances of TransfersOverlap.  t2 may be paired with t1 (three   *)
(* days earlier) or with t3 (one day later, whose text makes it exact).    *)
EXTENDS TransfersOverlap, TLC

CONSTANTS bank, giro, depot

Tx(id, account, day, amount, text) ==
    [id |-> id, account |-> account, day |-> day, amount |-> amount, transferText |-> text]

t1 == Tx(1, bank, 1, -5, FALSE)
t2 == Tx(2, giro, 4, 5, FALSE)
t3 == Tx(3, depot, 5, -5, TRUE)

MCTransaction == {t1, t2, t3}
MCScanOrder == <<t1, t2, t3>>

Symmetry == Permutations(Scanner) \cup Permutations(Decider)
=============================================================================
