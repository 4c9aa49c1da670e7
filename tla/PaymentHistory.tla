--------------------------- MODULE PaymentHistory ---------------------------
(***************************************************************************)
(* What DetectRecurringSeries finds in the payments of one group: the      *)
(* state is a history of at most MaxPayments payments until LastDay, and   *)
(* a step adds a payment.  Series is what is found in it, and is checked   *)
(* against a definition of what is to be found.                            *)
(***************************************************************************)
EXTENDS RecurringDetection

CONSTANTS LastDay, MaxPayments

ASSUME HistoryAssumption == LastDay \in Nat /\ MaxPayments \in Nat

VARIABLE payments

\* Ids follow the days, as they do in the order the detection sorts by.
Pay(id, day) == [id |-> id, group |-> 1, day |-> day]
FirstPayment == <<Pay(1, 0)>>

HistoryInit == payments = FirstPayment
HistoryNext ==
    /\ Len(payments) < MaxPayments
    /\ \E day \in payments[Len(payments)].day .. LastDay :
          payments' = Append(payments, Pay(Len(payments) + 1, day))
HistorySpec == HistoryInit /\ [][HistoryNext]_payments

Paid == {payments[i] : i \in DOMAIN payments}
Series == SeriesOf(1, Paid, {}, 0)
SpecOf(s) == CHOOSE spec \in {Specs[i] : i \in DOMAIN Specs} :
                spec.name = s.fingerprint[2]

-----------------------------------------------------------------------------
(* Properties                                                              *)

\* Whether later may follow earlier in a series of the interval.
MayFollow(earlier, later, spec) ==
    /\ later.id > earlier.id
    /\ Away(later.day - earlier.day, spec.target) <= spec.tolerance

\* A series is regular and complete from its first payment on: each payment
\* is the first that may follow the one before, and none may follow the last.
ChainsAreRegular ==
    LET s == Series
        Later(t, spec) == {u \in Paid : MayFollow(t, u, spec)}
        Complete(m, spec) ==
            /\ Len(m) >= spec.min /\ Len(m) = s.count
            /\ Later(m[Len(m)], spec) = {}
            /\ \A i \in 1 .. Len(m) - 1 :
                  /\ m[i + 1] \in Later(m[i], spec)
                  /\ \A u \in Later(m[i], spec) : m[i + 1].id <= u.id
    IN  s # NoSeries => Complete(s.members, SpecOf(s))

\* How long the chain from each payment on is that takes the first payment
\* that may follow each time.
Lengths(spec) ==
    LET from[k \in DOMAIN payments] ==
            LET next == {j \in DOMAIN payments : MayFollow(payments[k], payments[j], spec)}
            IN  IF next = {} THEN 1 ELSE 1 + from[CHOOSE j \in next : \A i \in next : j <= i]
    IN  from

\* Whatever the interval, no chain from any payment is longer than the series
\* found; one that is as long and of the same interval starts later.
LongestFirst ==
    LET s == Series
    IN  \A n \in DOMAIN Specs, k \in DOMAIN payments :
            LET spec == Specs[n]
                len  == Lengths(spec)[k]
            IN  len >= spec.min =>
                   /\ s.count >= len
                   /\ (s.count = len /\ SpecOf(s) = spec)
                         => s.members[1].id <= payments[k].id
=============================================================================
