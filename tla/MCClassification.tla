-------------------------- MODULE MCClassification --------------------------
(***************************************************************************)
(* Classification on small instances: two callers, two households.         *)
(***************************************************************************)
EXTENDS Classification

Booking(id, household, file, label, words, leg, mark) ==
    [id |-> id, household |-> household, file |-> file, label |-> label,
     words |-> words, positive |-> FALSE, rank |-> 10 - id, leg |-> leg, mark |-> mark]

\* Two bookings of one merchant, imported one after the other; a pattern
\* matches the first one.  The other household has the same payee.
SharedPayee ==
    {Booking(1, "h1", 1, "SHOP", {"SHOP"}, FALSE, FALSE), Booking(2, "h1", 2, "SHOP", {}, FALSE, TRUE),
     Booking(3, "h2", 3, "SHOP", {"SHOP"}, TRUE, FALSE)}
ShopRow == {[household |-> "h1", word |-> "SHOP", priority |-> 20,
             category |-> "food", confidence |-> "medium"]}
\* One caller opens inboxes, the other one also corrects and applies.
MCCalls == [c \in Caller |->
              IF c = "inbox" THEN {"queue"} \X Household
              ELSE {<<"apply", "h1">>, <<"correct", "h1">>}]

\* Either the second file of the household or that of the other household
\* has been imported and rolled back before.
MCInit ==
    /\ ledger = {} /\ imported \in {{2}, {3}} /\ transfers = {} /\ oneOff = {}
    /\ merchants = {}
    /\ alias = [l \in Label |-> Nobody]
    /\ rule = [l \in Label |-> NoCategory]
    /\ default = [l \in Label |-> NoCategory]
    /\ patterns = [w \in Word |-> NoRule]
    /\ class = [i \in Id |-> Unclassified]
    /\ call = [c \in Caller |-> Idle]
    /\ abandoned = 0
MCSpec == MCInit /\ [][Next]_vars
=============================================================================
