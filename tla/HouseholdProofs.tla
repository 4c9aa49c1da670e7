--------------------------- MODULE HouseholdProofs ---------------------------
(***************************************************************************)
(* What a household is shown of its bookings, and the decisions it takes.  *)
(*                                                                         *)
(* Reports: ReportsAgree for any bookings, pairs, periods and length of a  *)
(* page. It follows from BooksInv, which says only that the bookings are   *)
(* typed, finite in number and have ids of their own. The rest is about    *)
(* sums and lists: a sum over a finite set is the sum over the parts it is *)
(* split into, by any key; a set listed in an order comes out whole, each  *)
(* member once. tlapm cannot use an induction theorem that takes an        *)
(* operator, so induction is stated here of sets, and the function that a  *)
(* fold or a list is defined by is shown to exist along the parts of the   *)
(* set.                                                                    *)
(*                                                                         *)
(* Series: BaselineExplains, ProjectionAddsUp and ScenarioAddsUp for any   *)
(* series, request and scenario.  They follow from PlanInv, that the       *)
(* series are typed, finite in number and have ids of their own.  A        *)
(* baseline is a quotient of quotients, each rounded: what is proved of it *)
(* is how far the rounding can carry.  A projection is a recursion over    *)
(* the days taken in halves: it is shown to be the path on which each day  *)
(* follows the one before, and the dates a series is due on are the first  *)
(* one and those that advance reaches from it.  A scenario is a projection *)
(* of other series or from another balance, and is compared with the       *)
(* forecast by what each of the two is near to.                            *)
(*                                                                         *)
(* Decisions: TypeOK, VerifiedIffOutcome and OverwritesOnlyUnseen for any  *)
(* number of requests, decisions and notes.  VerifiedIffOutcome is not     *)
(* inductive alone: an update writes a verified_at taken from the row it   *)
(* read, so the row a request holds has to be one that satisfied it when   *)
(* it was read, and from which the status requested can be reached; and a  *)
(* decision being created is new.                                          *)
(***************************************************************************)
EXTENDS BookingReports, SeriesReports, Decisions, FiniteSetTheorems, WellFoundedInduction, TLAPS

-----------------------------------------------------------------------------
(* Induction on numbers and on finite sets, and functions defined along a set*)

\* A set of numbers that is not empty has a least one.
LEMMA LeastNat ==
    ASSUME NEW S \in SUBSET Nat, S # {}
    PROVE  \E n \in S : \A m \in S : n <= m
<1>1. PICK n \in S : \A m \in S : ~(<<m, n>> \in OpToRel(<, Nat))
  BY NatLessThanWellFounded, WFMin
<1>2. \A m \in S : ~(m < n)
  BY <1>1 DEF OpToRel
<1> QED BY <1>2

\* What holds of 0 and of each number after one it holds of, holds up to N.
LEMMA Induct ==
    ASSUME NEW N \in Nat, NEW S, 0 \in S, \A i \in 1..N : i - 1 \in S => i \in S
    PROVE  \A i \in 0..N : i \in S
<1> DEFINE Failing == {n \in 0..N : n \notin S}
<1>1. SUFFICES ASSUME Failing # {} PROVE FALSE
  OBVIOUS
<1>2. Failing \in SUBSET Nat
  OBVIOUS
<1>3. PICK n \in Failing : \A m \in Failing : n <= m
  <2> HIDE DEF Failing
  <2> QED BY <1>1, <1>2, LeastNat
<1>4. n \in 0..N /\ n \notin S /\ n # 0
  OBVIOUS
<1>5. n \in 1..N /\ n - 1 \in 0..N /\ ~(n <= n - 1)
  BY <1>4
<1>6. n - 1 \in S
  BY <1>3, <1>5
<1> QED BY <1>4, <1>5, <1>6

\* Removing a member of a part of a finite set leaves a smaller part of it.
LEMMA Smaller ==
    ASSUME NEW S, IsFiniteSet(S), NEW T \in SUBSET S
    PROVE  /\ IsFiniteSet(T) /\ Cardinality(T) \in 0..Cardinality(S)
           /\ Cardinality(T) = 0 <=> T = {}
           /\ \A x \in T : T \ {x} \in SUBSET S /\ Cardinality(T \ {x}) = Cardinality(T) - 1
<1>1. IsFiniteSet(T) /\ Cardinality(T) <= Cardinality(S)
  BY FS_Subset
<1>2. Cardinality(T) \in Nat /\ Cardinality(S) \in Nat
  BY <1>1, FS_CardinalityType
<1>3. Cardinality(T) = 0 <=> T = {}
  BY <1>1, FS_EmptySet
<1>4. \A x \in T : Cardinality(T \ {x}) = Cardinality(T) - 1
  BY <1>1, FS_RemoveElement
<1> QED BY <1>1, <1>2, <1>3, <1>4

\* What holds of the empty set and of each part with one more member than one it
\* holds of, holds of the whole set.
LEMMA FiniteInduct ==
    ASSUME NEW S, IsFiniteSet(S), NEW P, {} \in P,
           \A T \in SUBSET S, x \in S : T \in P /\ x \notin T => T \cup {x} \in P
    PROVE  S \in P
<1> DEFINE N == Cardinality(S)
           Fine == {n \in 0..N : \A T \in SUBSET S : Cardinality(T) = n => T \in P}
<1>1. N \in Nat
  BY FS_CardinalityType
<1>2. 0 \in Fine
  <2>1. \A T \in SUBSET S : Cardinality(T) = 0 => T = {}
    BY Smaller
  <2>2. \A T \in SUBSET S : Cardinality(T) = 0 => T \in P
    BY <2>1
  <2>3. 0 \in 0..N
    BY <1>1
  <2> QED BY <2>2, <2>3
<1>3. ASSUME NEW n \in 1..N, n - 1 \in Fine PROVE n \in Fine
  <2>1. ASSUME NEW T \in SUBSET S, Cardinality(T) = n PROVE T \in P
    <3>1. T # {}
      BY <2>1, Smaller
    <3>2. PICK x \in T : TRUE
      BY <3>1
    <3>3. T \ {x} \in SUBSET S /\ Cardinality(T \ {x}) = n - 1
      BY <2>1, Smaller
    <3>4. T \ {x} \in P
      BY <1>3, <3>3
    <3>5. T = (T \ {x}) \cup {x} /\ x \in S
      OBVIOUS
    <3> QED BY <3>3, <3>4, <3>5
  <2> QED BY <2>1
<1>4. \A n \in 0..N : n \in Fine
  <2> HIDE DEF Fine, N
  <2> QED BY <1>1, <1>2, <1>3, Induct
<1>5. N \in Fine
  BY <1>1, <1>4
<1> QED BY <1>5

\* A recursion over the parts of a set: from b, the member picked of each part first.
Folds(g, S, b, pick, step) ==
    \A T \in SUBSET S : g[T] = IF T = {} THEN b ELSE step[pick[T]][g[T \ {pick[T]}]]

\* There is such a function: recursion over parts defines something.
LEMMA FoldExists ==
    ASSUME NEW S, IsFiniteSet(S), NEW V, NEW b \in V,
           NEW pick, \A T \in SUBSET S : T # {} => pick[T] \in T,
           NEW step \in [S -> [V -> V]]
    PROVE  \E g \in [SUBSET S -> V] : Folds(g, S, b, pick, step)
<1> DEFINE N == Cardinality(S)
           UpTo(n) == {T \in SUBSET S : Cardinality(T) <= n}
           Rule(g, T) == IF T = {} THEN b ELSE step[pick[T]][g[T \ {pick[T]}]]
           Defined == {n \in 0..N : \E g \in [UpTo(n) -> V] : \A T \in UpTo(n) : g[T] = Rule(g, T)}
<1>1. N \in Nat
  BY FS_CardinalityType
<1>2. 0 \in Defined
  <2> DEFINE g == [T \in UpTo(0) |-> b]
  <2>1. \A T \in UpTo(0) : T = {}
    BY Smaller
  <2>2. g \in [UpTo(0) -> V] /\ \A T \in UpTo(0) : g[T] = Rule(g, T)
    <3> HIDE DEF UpTo
    <3> QED BY <2>1
  <2> HIDE DEF g, UpTo, Rule
  <2> QED BY <1>1, <2>2
<1>3. ASSUME NEW n \in 1..N, n - 1 \in Defined PROVE n \in Defined
  <2>1. PICK g \in [UpTo(n - 1) -> V] : \A T \in UpTo(n - 1) : g[T] = Rule(g, T)
    BY <1>3
  <2> DEFINE h == [T \in UpTo(n) |-> IF T \in UpTo(n - 1) THEN g[T] ELSE Rule(g, T)]
  <2>2. \A T \in UpTo(n) : T # {} => T \ {pick[T]} \in UpTo(n - 1) /\ pick[T] \in S
    <3>1. ASSUME NEW T \in UpTo(n), T # {} PROVE T \ {pick[T]} \in UpTo(n - 1) /\ pick[T] \in S
      <4>1. T \in SUBSET S /\ Cardinality(T) <= n /\ pick[T] \in T
        BY <3>1
      <4>2. T \ {pick[T]} \in SUBSET S /\ Cardinality(T \ {pick[T]}) = Cardinality(T) - 1
        BY <4>1, Smaller
      <4>3. Cardinality(T) \in Nat
        BY <1>1, <4>1, Smaller
      <4> QED BY <1>1, <4>1, <4>2, <4>3
    <3> QED BY <3>1
  <2>3. \A T \in UpTo(n) : Rule(g, T) \in V
    <3> HIDE DEF UpTo
    <3> QED BY <2>2
  <2>4. h \in [UpTo(n) -> V]
    <3> HIDE DEF UpTo, Rule
    <3> QED BY <2>3
  <2>5. UpTo(n - 1) \subseteq UpTo(n)
    <3>1. \A T \in SUBSET S : Cardinality(T) \in Nat
      BY <1>1, Smaller
    <3> QED BY <1>1, <3>1
  <2>6. ASSUME NEW T \in UpTo(n) PROVE h[T] = Rule(h, T)
    <3>1. T # {} => h[T \ {pick[T]}] = g[T \ {pick[T]}]
      <4> HIDE DEF UpTo, Rule
      <4> QED BY <2>2, <2>5
    <3>2. Rule(h, T) = Rule(g, T)
      <4> HIDE DEF h, UpTo
      <4> QED BY <3>1
    <3>3. T \in UpTo(n - 1) => g[T] = Rule(g, T)
      BY <2>1
    <3>4. h[T] = IF T \in UpTo(n - 1) THEN g[T] ELSE Rule(g, T)
      OBVIOUS
    <3> HIDE DEF h, Rule, UpTo
    <3> QED BY <3>2, <3>3, <3>4
  <2> HIDE DEF h, Rule, UpTo
  <2> QED BY <2>4, <2>6
<1>4. \A n \in 0..N : n \in Defined
  <2> HIDE DEF Defined, N
  <2> QED BY <1>1, <1>2, <1>3, Induct
<1>5. N \in Defined
  <2> HIDE DEF Defined, N
  <2> QED BY <1>1, <1>4
<1>6. PICK g \in [UpTo(N) -> V] : \A T \in UpTo(N) : g[T] = Rule(g, T)
  <2> HIDE DEF N, UpTo, Rule
  <2> QED BY <1>5
<1>7. UpTo(N) = SUBSET S
  BY Smaller
<1> HIDE DEF UpTo
<1> QED BY <1>6, <1>7 DEF Folds

\* A choice of a member of every part; a set of parts that grows member by member
\* is that of all parts.
Picks(pick, S) == \A T \in SUBSET S : T # {} => pick[T] \in T
Grows(P, S, pick) == {} \in P /\ \A T \in SUBSET S : T # {} /\ T \ {pick[T]} \in P => T \in P
\* So what such a set has, every part has.
LEMMA PickInduct ==
    ASSUME NEW S, IsFiniteSet(S), NEW pick, Picks(pick, S), NEW P, Grows(P, S, pick)
    PROVE  \A T \in SUBSET S : T \in P
<1> DEFINE N == Cardinality(S)
           Fine == {n \in 0..N : \A T \in SUBSET S : Cardinality(T) = n => T \in P}
<1>1. N \in Nat
  BY FS_CardinalityType
<1>2. 0 \in Fine
  <2>1. \A T \in SUBSET S : Cardinality(T) = 0 => T = {}
    BY Smaller
  <2>2. \A T \in SUBSET S : Cardinality(T) = 0 => T \in P
    BY <2>1 DEF Grows
  <2>3. 0 \in 0..N
    BY <1>1
  <2> QED BY <2>2, <2>3
<1>3. ASSUME NEW n \in 1..N, n - 1 \in Fine PROVE n \in Fine
  <2>1. ASSUME NEW T \in SUBSET S, Cardinality(T) = n PROVE T \in P
    <3>1. T # {} /\ pick[T] \in T
      BY <2>1, Smaller DEF Picks
    <3>2. T \ {pick[T]} \in SUBSET S /\ Cardinality(T \ {pick[T]}) = n - 1
      BY <2>1, <3>1, Smaller
    <3>3. T \ {pick[T]} \in P
      BY <1>3, <3>2
    <3> QED BY <3>1, <3>3 DEF Grows
  <2> QED BY <2>1
<1>4. \A n \in 0..N : n \in Fine
  <2> HIDE DEF Fine, N
  <2> QED BY <1>1, <1>2, <1>3, Induct
<1>5. \A T \in SUBSET S : Cardinality(T) \in 0..N
  BY Smaller
<1> QED BY <1>4, <1>5
-----------------------------------------------------------------------------
(* Sums                                                                    *)

\* A sum takes its members one after the other.
LEMMA SumUnfolds ==
    ASSUME NEW S, IsFiniteSet(S), NEW f, \A x \in S : f[x] \in Int
    PROVE  /\ SumFunctionOnSet(f, {}) = 0
           /\ SumFunctionOnSet(f, S) \in Int
           /\ S # {} => \E x \in S : SumFunctionOnSet(f, S) = f[x] + SumFunctionOnSet(f, S \ {x})
<1> DEFINE Loop(T, g) == [U \in SUBSET T |-> IF U = {} THEN 0
                             ELSE LET x == CHOOSE y \in U : TRUE IN f[x] + g[U \ {x}]]
           pick == [U \in SUBSET S |-> CHOOSE y \in U : TRUE]
           step == [x \in S |-> [n \in Int |-> f[x] + n]]
<1>1. step \in [S -> [Int -> Int]]
  OBVIOUS
<1>2. \A U \in SUBSET S : U # {} => pick[U] \in U
  OBVIOUS
<1>3. \A U \in SUBSET S : pick[U] = CHOOSE y \in U : TRUE
  OBVIOUS
<1>4. \A x \in S, n \in Int : step[x][n] = f[x] + n
  OBVIOUS
<1> HIDE DEF pick, step
<1>5. PICK g \in [SUBSET S -> Int] : Folds(g, S, 0, pick, step)
  <2>1. PICK V : V = Int
    OBVIOUS
  <2>2. 0 \in V /\ step \in [S -> [V -> V]]
    BY <1>1, <2>1
  <2>3. \E g \in [SUBSET S -> V] : Folds(g, S, 0, pick, step)
    BY <1>2, <2>2, FoldExists
  <2> QED BY <2>1, <2>3
<1>6. g = Loop(S, g)
  <2>1. ASSUME NEW U \in SUBSET S PROVE g[U] = Loop(S, g)[U]
    <3>1. CASE U = {}
      BY <1>5, <3>1 DEF Folds
    <3>2. CASE U # {}
      <4> DEFINE x == CHOOSE y \in U : TRUE
      <4>1. pick[U] = x /\ x \in U
        BY <1>2, <1>3, <3>2
      <4>2. g[U] = step[pick[U]][g[U \ {pick[U]}]]
        BY <1>5, <3>2 DEF Folds
      <4>3. x \in S /\ g[U \ {x}] \in Int
        BY <4>1
      <4>4. g[U] = f[x] + g[U \ {x}]
        BY <1>4, <4>1, <4>2, <4>3
      <4>5. Loop(S, g)[U] = f[x] + g[U \ {x}]
        BY <3>2
      <4> QED BY <4>4, <4>5
    <3> QED BY <3>1, <3>2
  <2> QED BY <2>1
<1>7. \A T \in SUBSET S : SumFunctionOnSet(f, T) = g[T]
  <2>1. SUFFICES ASSUME NEW T \in SUBSET S PROVE SumFunctionOnSet(f, T) = g[T]
    OBVIOUS
  <2> DEFINE h == [U \in SUBSET T |-> g[U]]
             sum == CHOOSE k : k = Loop(T, k)
  <2>2. SumFunctionOnSet(f, T) = sum[T]
    BY DEF SumFunctionOnSet, FoldFunctionOnSet, MapThenFoldSet
  <2>3. h = Loop(T, h)
    <3>1. ASSUME NEW U \in SUBSET T PROVE h[U] = Loop(T, h)[U]
      <4>1. U \in SUBSET S /\ h[U] = g[U]
        OBVIOUS
      <4>2. g[U] = Loop(S, g)[U]
        BY <1>6
      <4> DEFINE x == CHOOSE y \in U : TRUE
      <4>3. h[U \ {x}] = g[U \ {x}]
        OBVIOUS
      <4> HIDE DEF h
      <4> QED BY <4>1, <4>2, <4>3
    <3> HIDE DEF h
    <3>2. h = [U \in SUBSET T |-> h[U]]
      BY DEF h
    <3> QED BY <3>1, <3>2
  <2> HIDE DEF h
  <2>4. sum = Loop(T, sum)
    <3> HIDE DEF Loop
    <3> QED BY <2>3
  <2> HIDE DEF sum
  <2>5. IsFiniteSet(T) /\ Picks(pick, T)
    BY <1>2, Smaller DEF Picks
  <2>6. sum[{}] = h[{}]
    <3>1. {} \in SUBSET T
      OBVIOUS
    <3> QED BY <2>3, <2>4, <3>1
  <2>7. ASSUME NEW U \in SUBSET T, U # {}, sum[U \ {pick[U]}] = h[U \ {pick[U]}]
        PROVE  sum[U] = h[U]
    <3>1. pick[U] = CHOOSE y \in U : TRUE
      BY <1>3
    <3>2. sum[U] = Loop(T, sum)[U] /\ h[U] = Loop(T, h)[U]
      BY <2>3, <2>4
    <3>3. Loop(T, sum)[U] = f[pick[U]] + sum[U \ {pick[U]}]
      BY <2>7, <3>1
    <3>4. Loop(T, h)[U] = f[pick[U]] + h[U \ {pick[U]}]
      BY <2>7, <3>1
    <3> HIDE DEF Loop
    <3> QED BY <2>7, <3>2, <3>3, <3>4
  <2> DEFINE P == {U \in SUBSET T : sum[U] = h[U]}
  <2>8. T \in P
    <3>1. Grows(P, T, pick)
      BY <2>6, <2>7 DEF Grows
    <3> HIDE DEF P
    <3>2. \A U \in SUBSET T : U \in P
      BY <2>5, <3>1, PickInduct
    <3> QED BY <3>2
  <2> QED BY <2>2, <2>8 DEF h
<1>8. g[{}] = 0 /\ g[S] \in Int
  BY <1>6
<1>9. ASSUME S # {} PROVE \E x \in S : g[S] = f[x] + g[S \ {x}]
  <2>1. pick[S] \in S /\ g[S] = step[pick[S]][g[S \ {pick[S]}]] /\ g[S \ {pick[S]}] \in Int
    BY <1>2, <1>5, <1>9 DEF Folds
  <2> QED BY <1>4, <2>1
<1>10. \A x \in S : SumFunctionOnSet(f, S \ {x}) = g[S \ {x}]
  BY <1>7
<1> QED BY <1>7, <1>8, <1>9, <1>10

\* Whichever member is taken first.
LEMMA SumWithout ==
    ASSUME NEW S, IsFiniteSet(S), NEW f, \A x \in S : f[x] \in Int
    PROVE  \A x \in S : SumFunctionOnSet(f, S) = f[x] + SumFunctionOnSet(f, S \ {x})
<1> DEFINE N == Cardinality(S)
           Sum(T) == SumFunctionOnSet(f, T)
           Fine == {n \in 0..N : \A T \in SUBSET S : Cardinality(T) = n =>
                                   \A x \in T : Sum(T) = f[x] + Sum(T \ {x})}
<1>1. N \in Nat
  BY FS_CardinalityType
<1>2. \A T \in SUBSET S : /\ Sum(T) \in Int
                          /\ T # {} => \E p \in T : Sum(T) = f[p] + Sum(T \ {p})
  <2>1. SUFFICES ASSUME NEW T \in SUBSET S
                 PROVE  Sum(T) \in Int /\ (T # {} => \E p \in T : Sum(T) = f[p] + Sum(T \ {p}))
    OBVIOUS
  <2>2. IsFiniteSet(T) /\ \A x \in T : f[x] \in Int
    BY FS_Subset
  <2> QED BY <2>2, SumUnfolds
<1> HIDE DEF Sum
<1>3. 0 \in Fine
  <2>1. \A T \in SUBSET S : Cardinality(T) = 0 => T = {}
    BY Smaller
  <2>2. 0 \in 0..N
    BY <1>1
  <2> QED BY <2>1, <2>2
<1>4. ASSUME NEW n \in 1..N, n - 1 \in Fine PROVE n \in Fine
  <2>1. ASSUME NEW T \in SUBSET S, Cardinality(T) = n, NEW x \in T PROVE Sum(T) = f[x] + Sum(T \ {x})
    <3>1. PICK p \in T : Sum(T) = f[p] + Sum(T \ {p})
      BY <1>2
    <3>2. CASE p = x
      BY <3>1, <3>2
    <3>3. CASE p # x
      <4>1. /\ T \ {p} \in SUBSET S /\ Cardinality(T \ {p}) = n - 1 /\ x \in T \ {p}
            /\ T \ {x} \in SUBSET S /\ Cardinality(T \ {x}) = n - 1 /\ p \in T \ {x}
        BY <2>1, <3>3, Smaller
      <4>2. Sum(T \ {p}) = f[x] + Sum((T \ {p}) \ {x})
        BY <1>4, <4>1
      <4>3. Sum(T \ {x}) = f[p] + Sum((T \ {x}) \ {p})
        BY <1>4, <4>1
      <4>4. (T \ {p}) \ {x} = (T \ {x}) \ {p}
        OBVIOUS
      <4>5. (T \ {p}) \ {x} \in SUBSET S
        OBVIOUS
      <4>6. Sum((T \ {p}) \ {x}) \in Int /\ f[x] \in Int /\ f[p] \in Int
        BY <1>2, <4>5
      <4>7. Sum(T) = f[p] + (f[x] + Sum((T \ {p}) \ {x}))
        BY <3>1, <4>2
      <4>8. Sum(T \ {x}) = f[p] + Sum((T \ {p}) \ {x})
        BY <4>3, <4>4
      <4> QED BY <4>6, <4>7, <4>8
    <3> QED BY <3>2, <3>3
  <2> QED BY <2>1
<1>5. \A n \in 0..N : n \in Fine
  <2> HIDE DEF Fine, N
  <2> QED BY <1>1, <1>3, <1>4, Induct
<1>6. N \in Fine
  BY <1>1, <1>5
<1> QED BY <1>6 DEF Sum

\* What a sum of numbers is, and of the empty set.
LEMMA SumTyped ==
    ASSUME NEW S, IsFiniteSet(S), NEW f, \A x \in S : f[x] \in Int
    PROVE  SumFunctionOnSet(f, S) \in Int /\ SumFunctionOnSet(f, {}) = 0
BY SumUnfolds

\* A member more is its value more.
LEMMA SumWith ==
    ASSUME NEW S, IsFiniteSet(S), NEW f, \A x \in S : f[x] \in Int, NEW T \in SUBSET S, NEW y \in S, y \notin T
    PROVE  SumFunctionOnSet(f, T \cup {y}) = f[y] + SumFunctionOnSet(f, T)
<1>1. T \cup {y} \in SUBSET S /\ (T \cup {y}) \ {y} = T
  OBVIOUS
<1>2. IsFiniteSet(T \cup {y})
  BY <1>1, FS_Subset
<1> QED BY <1>1, <1>2, SumWithout

\* Sums of the same values are the same.
LEMMA SumSame ==
    ASSUME NEW S, IsFiniteSet(S), NEW f, \A x \in S : f[x] \in Int, NEW h, \A x \in S : h[x] = f[x]
    PROVE  SumFunctionOnSet(h, S) = SumFunctionOnSet(f, S)
<1> DEFINE P == {T \in SUBSET S : SumFunctionOnSet(h, T) = SumFunctionOnSet(f, T)}
<1>1. {} \in P
  BY SumTyped
<1>2. ASSUME NEW T \in SUBSET S, NEW x \in S, T \in P, x \notin T PROVE T \cup {x} \in P
  <2>1. SumFunctionOnSet(f, T \cup {x}) = f[x] + SumFunctionOnSet(f, T)
    BY <1>2, SumWith
  <2>2. SumFunctionOnSet(h, T \cup {x}) = h[x] + SumFunctionOnSet(h, T)
    BY <1>2, SumWith
  <2> QED BY <1>2, <2>1, <2>2
<1>3. S \in P
  <2> HIDE DEF P
  <2> QED BY <1>1, <1>2, FiniteInduct
<1> QED BY <1>3

\* The sum of two sets without a common member is the sum of theirs.
LEMMA SumUnion ==
    ASSUME NEW A, IsFiniteSet(A), NEW B, IsFiniteSet(B), A \cap B = {},
           NEW f, \A x \in A \cup B : f[x] \in Int
    PROVE  SumFunctionOnSet(f, A \cup B) = SumFunctionOnSet(f, A) + SumFunctionOnSet(f, B)
<1> DEFINE Sum(T) == SumFunctionOnSet(f, T)
           P == {T \in SUBSET B : Sum(A \cup T) = Sum(A) + Sum(T)}
<1>1. IsFiniteSet(A \cup B)
  BY FS_Union
<1>2. \A T \in SUBSET (A \cup B) : Sum(T) \in Int /\ Sum({}) = 0
  BY <1>1, FS_Subset, SumTyped
<1>3. {} \in P
  <2>1. A \cup {} = A /\ A \in SUBSET (A \cup B) /\ {} \in SUBSET B
    OBVIOUS
  <2>2. Sum(A) \in Int /\ Sum({}) = 0
    BY <1>2, <2>1
  <2> HIDE DEF Sum
  <2> QED BY <2>1, <2>2
<1>4. ASSUME NEW T \in SUBSET B, NEW x \in B, T \in P, x \notin T PROVE T \cup {x} \in P
  <2>1. A \cup T \in SUBSET (A \cup B) /\ T \in SUBSET (A \cup B) /\ x \in A \cup B /\ x \notin A \cup T
    BY <1>4
  <2>2. Sum((A \cup T) \cup {x}) = f[x] + Sum(A \cup T)
    <3>1. PICK S : S = A \cup B
      OBVIOUS
    <3>2. IsFiniteSet(S) /\ (\A y \in S : f[y] \in Int) /\ A \cup T \in SUBSET S /\ x \in S
      BY <1>1, <2>1, <3>1
    <3> QED BY <2>1, <3>2, SumWith
  <2>3. Sum(T \cup {x}) = f[x] + Sum(T)
    BY <1>1, <1>4, <2>1, SumWith
  <2>4. (A \cup T) \cup {x} = A \cup (T \cup {x}) /\ T \cup {x} \in SUBSET B
    OBVIOUS
  <2>5. Sum(A) \in Int /\ Sum(T) \in Int /\ f[x] \in Int
    BY <1>2, <2>1
  <2>6. Sum(A \cup T) = Sum(A) + Sum(T)
    BY <1>4
  <2>7. Sum(A \cup (T \cup {x})) = f[x] + Sum(A \cup T)
    BY <2>2, <2>4
  <2> HIDE DEF Sum
  <2>8. Sum(A \cup (T \cup {x})) = Sum(A) + Sum(T \cup {x})
    BY <2>3, <2>5, <2>6, <2>7
  <2> QED BY <2>4, <2>8
<1>5. B \in P
  <2> HIDE DEF P
  <2> QED BY <1>3, <1>4, FiniteInduct
<1> QED BY <1>5
-----------------------------------------------------------------------------
(* Lists of a set in an order                                              *)

\* Every part of a set has a member that none comes before.
HasFirsts(S, order) == \A T \in SUBSET S : T # {} => \E x \in T : \A y \in T : <<y, x>> \notin order

\* The list of a set begins with such a member.
LEMMA RankedUnfolds ==
    ASSUME NEW S, IsFiniteSet(S), NEW order, HasFirsts(S, order)
    PROVE  /\ Ranked({}, order) = <<>>
           /\ Ranked(S, order) \in Seq(S)
           /\ S # {} => \E x \in S : /\ \A y \in S : <<y, x>> \notin order
                                     /\ Ranked(S, order) = <<x>> \o Ranked(S \ {x}, order)
<1> DEFINE First(U) == CHOOSE x \in U : \A y \in U : <<y, x>> \notin order
           Loop(T, g) == [U \in SUBSET T |-> IF U = {} THEN <<>>
                                              ELSE <<First(U)>> \o g[U \ {First(U)}]]
           pick == [U \in SUBSET S |-> First(U)]
           step == [x \in S |-> [s \in Seq(S) |-> <<x>> \o s]]
<1>1. step \in [S -> [Seq(S) -> Seq(S)]]
  OBVIOUS
<1>2. \A U \in SUBSET S : pick[U] = First(U)
  OBVIOUS
<1>3. \A U \in SUBSET S : U # {} => First(U) \in U /\ \A y \in U : <<y, First(U)>> \notin order
  BY DEF HasFirsts
<1>4. \A U \in SUBSET S : U # {} => pick[U] \in U
  BY <1>2, <1>3
<1>5. \A x \in S, s \in Seq(S) : step[x][s] = <<x>> \o s
  OBVIOUS
<1> HIDE DEF pick, step, First
<1>6. PICK g \in [SUBSET S -> Seq(S)] : Folds(g, S, <<>>, pick, step)
  <2>1. PICK V : V = Seq(S)
    OBVIOUS
  <2>2. <<>> \in V /\ step \in [S -> [V -> V]]
    BY <1>1, <2>1
  <2>3. \E g \in [SUBSET S -> V] : Folds(g, S, <<>>, pick, step)
    BY <1>4, <2>2, FoldExists
  <2> QED BY <2>1, <2>3
<1>7. ASSUME NEW U \in SUBSET S, U # {} PROVE g[U] = <<First(U)>> \o g[U \ {First(U)}]
  <2>1. First(U) \in S /\ g[U \ {First(U)}] \in Seq(S)
    BY <1>3, <1>7
  <2>2. g[U] = step[First(U)][g[U \ {First(U)}]]
    BY <1>2, <1>6, <1>7 DEF Folds
  <2> QED BY <1>5, <2>1, <2>2
<1>8. g[{}] = <<>>
  BY <1>6 DEF Folds
<1>9. \A T \in SUBSET S : Ranked(T, order) = g[T]
  <2>1. SUFFICES ASSUME NEW T \in SUBSET S PROVE Ranked(T, order) = g[T]
    OBVIOUS
  <2> DEFINE h == [U \in SUBSET T |-> g[U]]
             list == CHOOSE k : k = Loop(T, k)
  <2>2. Ranked(T, order) = list[T]
    BY DEF Ranked, First
  <2>3. \A U \in SUBSET T : h[U] = g[U] /\ U \in SUBSET S /\ U \ {First(U)} \in SUBSET T
    OBVIOUS
  <2>4. h = [U \in SUBSET T |-> h[U]]
    OBVIOUS
  <2> HIDE DEF h
  <2>5. h = Loop(T, h)
    <3>1. ASSUME NEW U \in SUBSET T PROVE h[U] = Loop(T, h)[U]
      <4>1. h[U] = g[U] /\ U \in SUBSET S /\ h[U \ {First(U)}] = g[U \ {First(U)}]
        BY <2>3
      <4>2. CASE U = {}
        BY <1>8, <4>1, <4>2
      <4>3. CASE U # {}
        BY <1>7, <4>1, <4>3
      <4> QED BY <4>2, <4>3
    <3> QED BY <2>4, <3>1
  <2>6. list = Loop(T, list)
    <3> HIDE DEF Loop
    <3> QED BY <2>5
  <2> HIDE DEF list
  <2> DEFINE P == {U \in SUBSET T : list[U] = h[U]}
  <2>7. {} \in P
    <3>1. {} \in SUBSET T
      OBVIOUS
    <3>2. list[{}] = Loop(T, list)[{}] /\ h[{}] = Loop(T, h)[{}]
      BY <2>5, <2>6
    <3>3. Loop(T, list)[{}] = <<>> /\ Loop(T, h)[{}] = <<>>
      BY <3>1
    <3> HIDE DEF Loop
    <3> QED BY <3>1, <3>2, <3>3
  <2>8. ASSUME NEW U \in SUBSET T, U # {}, U \ {pick[U]} \in P PROVE U \in P
    <3>1. pick[U] = First(U) /\ list[U \ {First(U)}] = h[U \ {First(U)}]
      BY <1>2, <2>8
    <3>2. list[U] = Loop(T, list)[U] /\ h[U] = Loop(T, h)[U]
      BY <2>5, <2>6
    <3>3. Loop(T, list)[U] = <<First(U)>> \o list[U \ {First(U)}]
      BY <2>8
    <3>4. Loop(T, h)[U] = <<First(U)>> \o h[U \ {First(U)}]
      BY <2>8
    <3> HIDE DEF Loop
    <3> QED BY <3>1, <3>2, <3>3, <3>4
  <2>9. T \in P
    <3>1. IsFiniteSet(T) /\ Picks(pick, T)
      BY <1>4, Smaller DEF Picks
    <3>2. Grows(P, T, pick)
      BY <2>7, <2>8 DEF Grows
    <3> HIDE DEF P
    <3>3. \A U \in SUBSET T : U \in P
      BY <3>1, <3>2, PickInduct
    <3> QED BY <3>3
  <2> QED BY <2>2, <2>3, <2>9
<1>10. {} \in SUBSET S /\ S \in SUBSET S
  OBVIOUS
<1>11. ASSUME S # {}
       PROVE  \E x \in S : /\ \A y \in S : <<y, x>> \notin order
                           /\ Ranked(S, order) = <<x>> \o Ranked(S \ {x}, order)
  <2>1. First(S) \in S /\ S \ {First(S)} \in SUBSET S /\ \A y \in S : <<y, First(S)>> \notin order
    BY <1>3, <1>10, <1>11
  <2>2. Ranked(S, order) = g[S] /\ Ranked(S \ {First(S)}, order) = g[S \ {First(S)}]
    BY <1>9, <1>10, <2>1
  <2> QED BY <1>7, <1>10, <1>11, <2>1, <2>2
<1> QED BY <1>6, <1>8, <1>9, <1>10, <1>11

\* A list with one more member in front.
LEMMA InFront ==
    ASSUME NEW T, NEW x \in T, NEW rest \in Seq(T)
    PROVE  /\ <<x>> \o rest \in Seq(T) /\ Len(<<x>> \o rest) = Len(rest) + 1
           /\ (<<x>> \o rest)[1] = x
           /\ \A i \in 2..Len(rest) + 1 : (<<x>> \o rest)[i] = rest[i - 1]
OBVIOUS

\* A list of a set has its members, each once and none before one that it follows.
Lists(list, S, order) ==
    /\ list \in Seq(S) /\ Len(list) = Cardinality(S)
    /\ \A x \in S : \E i \in 1..Len(list) : list[i] = x
    /\ \A i, j \in 1..Len(list) : i < j => list[i] # list[j] /\ <<list[j], list[i]>> \notin order

\* So the list of a finite set is a list of it.
LEMMA RankedLists ==
    ASSUME NEW S, IsFiniteSet(S), NEW order, HasFirsts(S, order)
    PROVE  Lists(Ranked(S, order), S, order)
<1> DEFINE N == Cardinality(S)
           Fine == {n \in 0..N : \A T \in SUBSET S : Cardinality(T) = n => Lists(Ranked(T, order), T, order)}
<1>1. N \in Nat
  BY FS_CardinalityType
<1>2. 0 \in Fine
  <2>1. \A T \in SUBSET S : Cardinality(T) = 0 => T = {}
    BY Smaller
  <2>2. Ranked({}, order) = <<>> /\ Cardinality({}) = 0
    BY RankedUnfolds, FS_EmptySet
  <2>3. Lists(<<>>, {}, order)
    BY <2>2 DEF Lists
  <2>4. \A T \in SUBSET S : Cardinality(T) = 0 => Lists(Ranked(T, order), T, order)
    BY <2>1, <2>2, <2>3
  <2>5. 0 \in 0..N
    BY <1>1
  <2> QED BY <2>4, <2>5
<1>3. ASSUME NEW n \in 1..N, n - 1 \in Fine PROVE n \in Fine
  <2>1. ASSUME NEW T \in SUBSET S, Cardinality(T) = n PROVE Lists(Ranked(T, order), T, order)
    <3>1. IsFiniteSet(T) /\ T # {} /\ HasFirsts(T, order)
      BY <2>1, Smaller DEF HasFirsts
    <3>2. PICK x \in T : /\ \A y \in T : <<y, x>> \notin order
                         /\ Ranked(T, order) = <<x>> \o Ranked(T \ {x}, order)
      BY <3>1, RankedUnfolds
    <3>3. T \ {x} \in SUBSET S /\ Cardinality(T \ {x}) = n - 1
      BY <2>1, Smaller
    <3>4. Lists(Ranked(T \ {x}, order), T \ {x}, order)
      BY <1>3, <3>3
    <3>5. PICK rest, list : rest = Ranked(T \ {x}, order) /\ list = <<x>> \o rest
      OBVIOUS
    <3>6. rest \in Seq(T \ {x}) /\ Len(rest) = n - 1 /\ n \in Nat
      BY <1>1, <3>3, <3>4, <3>5 DEF Lists
    <3>7. rest \in Seq(T)
      BY <3>6
    <3>8. /\ list \in Seq(T) /\ Len(list) = n /\ list[1] = x
          /\ \A i \in 2..n : list[i] = rest[i - 1] /\ i - 1 \in 1..n - 1 /\ rest[i - 1] \in T \ {x}
      <4>1. \A i \in 2..n : i - 1 \in 1..n - 1
        BY <3>6
      <4>2. \A i \in 1..n - 1 : rest[i] \in T \ {x}
        BY <3>6
      <4>3. list \in Seq(T) /\ Len(list) = Len(rest) + 1 /\ list[1] = x
        BY <3>5, <3>7, InFront
      <4>4. \A i \in 2..Len(rest) + 1 : list[i] = rest[i - 1]
        <5>1. \A i \in 2..Len(rest) + 1 : (<<x>> \o rest)[i] = rest[i - 1]
          BY <3>7, InFront
        <5> QED BY <3>5, <5>1
      <4>5. Len(rest) + 1 = n
        BY <3>6
      <4> QED BY <4>1, <4>2, <4>3, <4>4, <4>5
    <3>9. \A y \in T : \E i \in 1..n : list[i] = y
      <4>1. SUFFICES ASSUME NEW y \in T PROVE \E i \in 1..n : list[i] = y
        OBVIOUS
      <4>2. CASE y = x
        BY <3>8, <4>2
      <4>3. CASE y # x
        <5>1. PICK i \in 1..n - 1 : rest[i] = y
          BY <3>4, <3>5, <3>6, <4>3 DEF Lists
        <5>2. i + 1 \in 2..n /\ (i + 1) - 1 = i /\ i + 1 \in 1..n
          BY <3>6
        <5>3. list[i + 1] = rest[i]
          BY <3>8, <5>2
        <5> QED BY <5>1, <5>2, <5>3
      <4> QED BY <4>2, <4>3
    <3>10. ASSUME NEW i \in 1..n, NEW j \in 1..n, i < j
           PROVE  list[i] # list[j] /\ <<list[j], list[i]>> \notin order
      <4>1. j \in 2..n
        BY <3>10
      <4>2. list[j] = rest[j - 1] /\ rest[j - 1] \in T \ {x} /\ j - 1 \in 1..n - 1
        BY <3>8, <4>1
      <4>3. CASE i = 1
        BY <3>2, <3>8, <4>2, <4>3
      <4>4. CASE i # 1
        <5>1. i \in 2..n /\ i - 1 < j - 1
          BY <3>10, <4>4
        <5>2. list[i] = rest[i - 1] /\ i - 1 \in 1..n - 1
          BY <3>8, <5>1
        <5> QED BY <3>4, <3>5, <3>6, <4>2, <5>1, <5>2 DEF Lists
      <4> QED BY <4>3, <4>4
    <3>11. Lists(list, T, order)
      BY <2>1, <3>8, <3>9, <3>10 DEF Lists
    <3> QED BY <3>2, <3>5, <3>11
  <2> QED BY <2>1
<1>4. \A n \in 0..N : n \in Fine
  <2> HIDE DEF Fine, N
  <2> QED BY <1>1, <1>2, <1>3, Induct
<1>5. N \in Fine
  BY <1>1, <1>4
<1> QED BY <1>5
-----------------------------------------------------------------------------
(* Sums by parts                                                           *)

\* An order has a first member of every part of a finite set.
LEMMA OrderHasFirsts ==
    ASSUME NEW S, IsFiniteSet(S), NEW order,
           \A x \in S : <<x, x>> \notin order,
           \A x, y, z \in S : <<x, y>> \in order /\ <<y, z>> \in order => <<x, z>> \in order
    PROVE  HasFirsts(S, order)
<1> DEFINE First(T) == \E x \in T : \A y \in T : <<y, x>> \notin order
           P(U) == {T \in SUBSET U : T = {} \/ First(T)}
<1>1. SUFFICES ASSUME NEW U \in SUBSET S PROVE U = {} \/ First(U)
  BY DEF HasFirsts
<1>2. {} \in P(U)
  OBVIOUS
<1>3. ASSUME NEW T \in SUBSET U, NEW z \in U, T \in P(U), z \notin T PROVE T \cup {z} \in P(U)
  <2>1. CASE T = {}
    BY <2>1
  <2>2. CASE T # {}
    <3>1. PICK x \in T : \A y \in T : <<y, x>> \notin order
      BY <1>3, <2>2
    <3>2. CASE <<z, x>> \in order
      <4>1. \A y \in T : <<y, z>> \notin order
        BY <3>1, <3>2
      <4> QED BY <4>1
    <3>3. CASE <<z, x>> \notin order
      BY <3>1, <3>3
    <3> QED BY <3>2, <3>3
  <2> QED BY <2>1, <2>2
<1>4. U \in P(U)
  <2>1. PICK Q : Q = P(U)
    OBVIOUS
  <2>2. {} \in Q /\ \A T \in SUBSET U, z \in U : T \in Q /\ z \notin T => T \cup {z} \in Q
    BY <1>2, <1>3, <2>1
  <2>3. IsFiniteSet(U)
    BY FS_Subset
  <2>4. U \in Q
    BY <2>2, <2>3, FiniteInduct
  <2> QED BY <2>1, <2>4
<1> QED BY <1>4

\* The values that a function takes on a finite set are finite in number.
LEMMA FiniteImage ==
    ASSUME NEW S, IsFiniteSet(S), NEW f
    PROVE  IsFiniteSet({f[x] : x \in S})
<1> DEFINE T == {f[x] : x \in S}
           g == [x \in S |-> f[x]]
<1>1. g \in Surjection(S, T)
  BY DEF Surjection
<1> HIDE DEF g, T
<1>2. IsFiniteSet(T)
  BY <1>1, FS_Surjection
<1> QED BY <1>2 DEF T

\* The sum of the negated values.
LEMMA SumNegated ==
    ASSUME NEW S, IsFiniteSet(S), NEW f, \A x \in S : f[x] \in Int, NEW h, \A x \in S : h[x] = -f[x]
    PROVE  SumFunctionOnSet(h, S) = -SumFunctionOnSet(f, S)
<1> DEFINE P == {T \in SUBSET S : SumFunctionOnSet(h, T) = -SumFunctionOnSet(f, T)}
<1>1. \A x \in S : h[x] \in Int
  OBVIOUS
<1>2. {} \in P
  BY <1>1, SumTyped
<1>3. ASSUME NEW T \in SUBSET S, NEW x \in S, T \in P, x \notin T PROVE T \cup {x} \in P
  <2>1. SumFunctionOnSet(f, T \cup {x}) = f[x] + SumFunctionOnSet(f, T)
    BY <1>3, SumWith
  <2>2. SumFunctionOnSet(h, T \cup {x}) = h[x] + SumFunctionOnSet(h, T)
    BY <1>1, <1>3, SumWith
  <2>3. SumFunctionOnSet(f, T) \in Int
    <3>1. IsFiniteSet(T) /\ \A y \in T : f[y] \in Int
      BY FS_Subset
    <3> QED BY <3>1, SumTyped
  <2> QED BY <1>3, <2>1, <2>2, <2>3
<1>4. S \in P
  <2> HIDE DEF P
  <2> QED BY <1>2, <1>3, FiniteInduct
<1> QED BY <1>4

\* The sums of parts that share no member add up to that of the whole.
LEMMA SumParts ==
    ASSUME NEW S, IsFiniteSet(S), NEW f, \A x \in S : f[x] \in Int,
           NEW K, IsFiniteSet(K), NEW key, \A x \in S : key[x] \in K,
           NEW part, \A k \in K : part[k] \in SUBSET S /\ \A x \in S : x \in part[k] <=> key[x] = k,
           NEW h, \A k \in K : h[k] = SumFunctionOnSet(f, part[k])
    PROVE  SumFunctionOnSet(h, K) = SumFunctionOnSet(f, S)
<1> DEFINE Of(L) == {x \in S : key[x] \in L}
           P == {L \in SUBSET K : SumFunctionOnSet(h, L) = SumFunctionOnSet(f, Of(L))}
<1>1. \A L \in SUBSET K : /\ IsFiniteSet(Of(L)) /\ \A x \in Of(L) : f[x] \in Int
                          /\ SumFunctionOnSet(f, Of(L)) \in Int
  <2>1. \A L \in SUBSET K : IsFiniteSet(Of(L)) /\ \A x \in Of(L) : f[x] \in Int
    BY FS_Subset
  <2> HIDE DEF Of
  <2> QED BY <2>1, SumTyped
<1>2. \A k \in K : h[k] = SumFunctionOnSet(f, Of({k})) /\ h[k] \in Int
  <2>1. \A k \in K : part[k] = Of({k}) /\ {k} \in SUBSET K
    OBVIOUS
  <2> HIDE DEF Of
  <2>2. \A k \in K : SumFunctionOnSet(f, part[k]) = SumFunctionOnSet(f, Of({k}))
    BY <2>1
  <2>3. \A k \in K : SumFunctionOnSet(f, Of({k})) \in Int
    BY <1>1, <2>1
  <2>4. \A k \in K : h[k] = SumFunctionOnSet(f, Of({k}))
    BY <2>2
  <2>5. ASSUME NEW k \in K PROVE h[k] \in Int
    <3>1. h[k] = SumFunctionOnSet(f, Of({k})) /\ SumFunctionOnSet(f, Of({k})) \in Int
      BY <2>3, <2>4
    <3> QED BY <3>1
  <2> QED BY <2>4, <2>5
<1>3. {} \in P
  <2>1. Of({}) = {} /\ {} \in SUBSET K
    OBVIOUS
  <2>2. SumFunctionOnSet(h, {}) = 0 /\ SumFunctionOnSet(f, {}) = 0
    BY <1>2, SumTyped
  <2> HIDE DEF Of
  <2> QED BY <2>1, <2>2
<1>4. ASSUME NEW L \in SUBSET K, NEW k \in K, L \in P, k \notin L PROVE L \cup {k} \in P
  <2>1. SumFunctionOnSet(h, L \cup {k}) = h[k] + SumFunctionOnSet(h, L)
    <3>1. \A x \in K : h[x] \in Int
      BY <1>2
    <3> HIDE DEF P, Of
    <3> QED BY <1>4, <3>1, SumWith
  <2>2. Of(L \cup {k}) = Of({k}) \cup Of(L) /\ Of({k}) \cap Of(L) = {}
    BY <1>4
  <2>3. {k} \in SUBSET K /\ L \in SUBSET K
    OBVIOUS
  <2> HIDE DEF Of
  <2>4. SumFunctionOnSet(f, Of({k}) \cup Of(L)) = SumFunctionOnSet(f, Of({k})) + SumFunctionOnSet(f, Of(L))
    <3>1. PICK A, B : A = Of({k}) /\ B = Of(L)
      OBVIOUS
    <3>2. IsFiniteSet(A) /\ IsFiniteSet(B) /\ A \cap B = {} /\ \A x \in A \cup B : f[x] \in Int
      BY <1>1, <2>2, <2>3, <3>1
    <3>3. SumFunctionOnSet(f, A \cup B) = SumFunctionOnSet(f, A) + SumFunctionOnSet(f, B)
      BY <3>2, SumUnion
    <3> QED BY <3>1, <3>3
  <2> QED BY <1>2, <1>4, <2>1, <2>2, <2>3, <2>4
<1>5. K \in P
  <2>1. \A L \in SUBSET K, k \in K : L \in P /\ k \notin L => L \cup {k} \in P
    BY <1>4
  <2> HIDE DEF P
  <2> QED BY <1>3, <2>1, FiniteInduct
<1>6. Of(K) = S
  OBVIOUS
<1> HIDE DEF Of
<1> QED BY <1>5, <1>6

\* Bookings of which the amounts can be added up.
Booked(S) == IsFiniteSet(S) /\ \A t \in S : t.amount \in Int

\* What bookings come to is a sum of one function for all parts of a set.
LEMMA SumOfIs ==
    ASSUME NEW S, Booked(S), NEW T \in SUBSET S
    PROVE  Booked(T) /\ SumOf(T) \in Int /\ SumOf(T) = SumFunctionOnSet([t \in S |-> t.amount], T)
<1> DEFINE f == [t \in S |-> t.amount]
           h == [t \in T |-> t.amount]
<1>1. IsFiniteSet(T)
  BY FS_Subset DEF Booked
<1>2. (\A t \in T : f[t] \in Int /\ h[t] = f[t]) /\ DOMAIN h = T
  BY DEF Booked
<1>3. SumOf(T) = SumFunctionOnSet(h, T)
  BY <1>2 DEF SumOf, SumFunction
<1> HIDE DEF f, h
<1>4. SumFunctionOnSet(h, T) = SumFunctionOnSet(f, T) /\ SumFunctionOnSet(f, T) \in Int
  BY <1>1, <1>2, SumSame, SumTyped
<1> QED BY <1>1, <1>3, <1>4 DEF Booked, f

\* What bookings come to is a number; none come to nothing.
LEMMA SumOfTyped ==
    ASSUME NEW S, Booked(S)
    PROVE  SumOf(S) \in Int /\ SumOf({}) = 0
<1>1. SumOf(S) \in Int /\ SumOf({}) = SumFunctionOnSet([t \in S |-> t.amount], {})
  BY SumOfIs
<1>2. \A t \in S : [u \in S |-> u.amount][t] \in Int
  BY DEF Booked
<1> QED BY <1>1, <1>2, SumTyped DEF Booked

\* Two parts that share no booking come to what both do.
Split(S, A, B) == A \cup B = S /\ A \cap B = {}

\* Two parts of the bookings come to what all of them do.
LEMMA SumOfSplit ==
    ASSUME NEW S, Booked(S), NEW A, NEW B, Split(S, A, B)
    PROVE  /\ Booked(A) /\ Booked(B) /\ SumOf(A) \in Int /\ SumOf(B) \in Int
           /\ SumOf(S) = SumOf(A) + SumOf(B)
<1> DEFINE f == [t \in S |-> t.amount]
<1>1. A \in SUBSET S /\ B \in SUBSET S /\ S \in SUBSET S
  BY DEF Split
<1>2. /\ SumOf(A) = SumFunctionOnSet(f, A) /\ SumOf(B) = SumFunctionOnSet(f, B)
      /\ SumOf(S) = SumFunctionOnSet(f, S)
      /\ Booked(A) /\ Booked(B) /\ SumOf(A) \in Int /\ SumOf(B) \in Int
  BY <1>1, SumOfIs
<1>3. \A t \in A \cup B : f[t] \in Int
  BY DEF Booked, Split
<1> HIDE DEF f
<1>4. SumFunctionOnSet(f, A \cup B) = SumFunctionOnSet(f, A) + SumFunctionOnSet(f, B)
  BY <1>2, <1>3, SumUnion DEF Booked, Split
<1> QED BY <1>2, <1>4 DEF Split

\* What bookings come to and spend, by any key of theirs.
Parts(part, S, K, key) == \A k \in K : part[k] \in SUBSET S /\ \A t \in S : t \in part[k] <=> key[t] = k

\* What bookings come to, added up by a key of theirs.
LEMMA SumOfKeys ==
    ASSUME NEW S, Booked(S), NEW K, IsFiniteSet(K), NEW key, \A t \in S : key[t] \in K,
           NEW part, Parts(part, S, K, key), NEW h, \A k \in K : h[k] = SumOf(part[k])
    PROVE  SumFunctionOnSet(h, K) = SumOf(S)
<1> DEFINE f == [t \in S |-> t.amount]
<1>1. (\A t \in S : f[t] \in Int) /\ IsFiniteSet(S) /\ S \in SUBSET S
  BY DEF Booked
<1>2. \A k \in K : part[k] \in SUBSET S /\ \A t \in S : t \in part[k] <=> key[t] = k
  BY DEF Parts
<1>3. (\A k \in K : SumOf(part[k]) = SumFunctionOnSet(f, part[k])) /\ SumOf(S) = SumFunctionOnSet(f, S)
  BY <1>1, <1>2, SumOfIs
<1> HIDE DEF f
<1>4. \A k \in K : h[k] = SumFunctionOnSet(f, part[k])
  BY <1>3
<1>5. SumFunctionOnSet(h, K) = SumFunctionOnSet(f, S)
  BY <1>1, <1>2, <1>4, SumParts
<1> QED BY <1>3, <1>5

\* What bookings spend, added up by a key of theirs.
LEMMA SpentByKeys ==
    ASSUME NEW S, Booked(S), NEW K, IsFiniteSet(K), NEW key, \A t \in S : key[t] \in K,
           NEW part, Parts(part, S, K, key), NEW h, \A k \in K : h[k] = Spent(part[k])
    PROVE  SumFunctionOnSet(h, K) = Spent(S)
<1>1. PICK sums : sums = [k \in K |-> SumOf(part[k])]
  OBVIOUS
<1>2. \A k \in K : sums[k] = SumOf(part[k])
  BY <1>1
<1>3. \A k \in K : SumOf(part[k]) \in Int
  BY SumOfIs DEF Parts
<1>4. \A k \in K : sums[k] \in Int /\ h[k] = -sums[k]
  BY <1>2, <1>3 DEF Spent
<1>5. SumFunctionOnSet(sums, K) = SumOf(S)
  BY <1>2, SumOfKeys
<1>6. SumFunctionOnSet(h, K) = -SumFunctionOnSet(sums, K)
  BY <1>4, SumNegated
<1> QED BY <1>5, <1>6 DEF Spent
-----------------------------------------------------------------------------
(* Totals                                                                  *)

\* The bookings that are income, and those that are expenses.
Income(S) == {t \in S : t.amount > 0}
Expenses(S) == {t \in S : t.amount < 0}

\* What the totals are made of.
LEMMA TotalsAre ==
    ASSUME NEW S, Booked(S)
    PROVE  /\ Totals(S).income = SumOf(Income(S)) /\ Totals(S)["income"] = SumOf(Income(S))
           /\ Totals(S).expenses = Spent(Expenses(S)) /\ Totals(S)["expenses"] = Spent(Expenses(S))
           /\ Totals(S).net = SumOf(S) /\ Totals(S)["net"] = SumOf(S)
           /\ Booked(Income(S)) /\ Booked(Expenses(S))
           /\ SumOf(S) \in Int /\ SumOf(Income(S)) \in Int /\ Spent(Expenses(S)) \in Int
<1>1. Income(S) \in SUBSET S /\ Expenses(S) \in SUBSET S
  BY DEF Income, Expenses
<1>2. /\ Booked(Income(S)) /\ SumOf(Income(S)) \in Int
      /\ Booked(Expenses(S)) /\ SumOf(Expenses(S)) \in Int
  BY <1>1, SumOfIs
<1>3. SumOf(S) \in Int
  BY SumOfTyped
<1> QED BY <1>2, <1>3 DEF Totals, Income, Expenses, Spent

\* The totals of two parts that share no booking add up.
LEMMA TotalsSplit ==
    ASSUME NEW S, Booked(S), NEW A, NEW B, Split(S, A, B)
    PROVE  /\ Booked(A) /\ Booked(B)
           /\ \A field \in {"income", "expenses", "net"} :
                 Totals(S)[field] = Totals(A)[field] + Totals(B)[field]
<1>1. Booked(A) /\ Booked(B) /\ SumOf(S) = SumOf(A) + SumOf(B)
  BY SumOfSplit
<1>2. SumOf(Income(S)) = SumOf(Income(A)) + SumOf(Income(B))
  <2>1. Split(Income(S), Income(A), Income(B))
    BY DEF Income, Split
  <2>2. Booked(Income(S))
    BY TotalsAre
  <2> QED BY <2>1, <2>2, SumOfSplit
<1>3. Spent(Expenses(S)) = Spent(Expenses(A)) + Spent(Expenses(B))
  <2>1. Split(Expenses(S), Expenses(A), Expenses(B))
    BY DEF Expenses, Split
  <2>2. Booked(Expenses(S))
    BY TotalsAre
  <2>3. /\ SumOf(Expenses(S)) = SumOf(Expenses(A)) + SumOf(Expenses(B))
        /\ SumOf(Expenses(A)) \in Int /\ SumOf(Expenses(B)) \in Int
    BY <2>1, <2>2, SumOfSplit
  <2> QED BY <2>3 DEF Spent
<1> QED BY <1>1, <1>2, <1>3, TotalsAre

\* So do the totals by any key of the bookings.
LEMMA TotalsByKey ==
    ASSUME NEW S, Booked(S), NEW K, IsFiniteSet(K), NEW key, \A t \in S : key[t] \in K,
           NEW part, Parts(part, S, K, key), NEW field \in {"income", "expenses", "net"},
           NEW h, \A k \in K : h[k] = Totals(part[k])[field]
    PROVE  SumFunctionOnSet(h, K) = Totals(S)[field]
<1>1. \A k \in K : Booked(part[k])
  BY SumOfIs DEF Parts
<1>2. PICK I, E : I = Income(S) /\ E = Expenses(S)
  OBVIOUS
<1>3. /\ Booked(I) /\ Booked(E)
      /\ Totals(S)["income"] = SumOf(I) /\ Totals(S)["expenses"] = Spent(E) /\ Totals(S)["net"] = SumOf(S)
  BY <1>2, TotalsAre
<1>4. (\A t \in I : key[t] \in K) /\ (\A t \in E : key[t] \in K)
  BY <1>2 DEF Income, Expenses
<1>5. \A k \in K : /\ Totals(part[k])["income"] = SumOf(Income(part[k]))
                   /\ Totals(part[k])["expenses"] = Spent(Expenses(part[k]))
                   /\ Totals(part[k])["net"] = SumOf(part[k])
  BY <1>1, TotalsAre
<1>6. CASE field = "income"
  <2>1. PICK p : p = [k \in K |-> Income(part[k])]
    OBVIOUS
  <2>2. Parts(p, I, K, key)
    BY <1>2, <2>1 DEF Parts, Income
  <2>3. \A k \in K : h[k] = SumOf(p[k])
    BY <1>5, <1>6, <2>1
  <2>4. SumFunctionOnSet(h, K) = SumOf(I)
    BY <1>3, <1>4, <2>2, <2>3, SumOfKeys
  <2> QED BY <1>3, <1>6, <2>4
<1>7. CASE field = "expenses"
  <2>1. PICK p : p = [k \in K |-> Expenses(part[k])]
    OBVIOUS
  <2>2. Parts(p, E, K, key)
    BY <1>2, <2>1 DEF Parts, Expenses
  <2>3. \A k \in K : h[k] = Spent(p[k])
    BY <1>5, <1>7, <2>1
  <2>4. SumFunctionOnSet(h, K) = Spent(E)
    BY <1>3, <1>4, <2>2, <2>3, SpentByKeys
  <2> QED BY <1>3, <1>7, <2>4
<1>8. CASE field = "net"
  <2>1. \A k \in K : h[k] = SumOf(part[k])
    BY <1>5, <1>8
  <2>2. SumFunctionOnSet(h, K) = SumOf(S)
    BY <2>1, SumOfKeys
  <2> QED BY <1>3, <1>8, <2>2
<1> QED BY <1>6, <1>7, <1>8

\* Bookings that move nothing come to nothing.
LEMMA SumOfNothing ==
    ASSUME NEW S, Booked(S), \A t \in S : t.amount = 0
    PROVE  SumOf(S) = 0
<1> DEFINE f == [t \in S |-> t.amount]
<1>1. \A t \in S : f[t] \in Int /\ f[t] = -f[t]
  OBVIOUS
<1>2. S \in SUBSET S /\ IsFiniteSet(S)
  BY DEF Booked
<1>3. SumOf(S) = SumFunctionOnSet(f, S) /\ SumOf(S) \in Int
  BY <1>2, SumOfIs
<1> HIDE DEF f
<1>4. SumFunctionOnSet(f, S) = -SumFunctionOnSet(f, S)
  BY <1>1, <1>2, SumNegated
<1> QED BY <1>3, <1>4

\* The net is what the income leaves after the expenses.
LEMMA NetIs ==
    ASSUME NEW S, Booked(S)
    PROVE  Totals(S).net = Totals(S).income - Totals(S).expenses
<1> DEFINE Rest == S \ Income(S)
           Zero == Rest \ Expenses(S)
<1>1. Split(S, Income(S), Rest) /\ Split(Rest, Expenses(S), Zero) /\ \A t \in Zero : t.amount = 0
  BY DEF Income, Expenses, Booked, Split
<1> HIDE DEF Rest, Zero
<1>2. Booked(Rest) /\ SumOf(S) = SumOf(Income(S)) + SumOf(Rest)
  BY <1>1, SumOfSplit
<1>3. Booked(Zero) /\ SumOf(Rest) = SumOf(Expenses(S)) + SumOf(Zero) /\ SumOf(Expenses(S)) \in Int
  BY <1>1, <1>2, SumOfSplit
<1>4. SumOf(Zero) = 0
  BY <1>1, <1>3, SumOfNothing
<1> QED BY <1>2, <1>3, <1>4, TotalsAre DEF Spent
-----------------------------------------------------------------------------
(* The cashflow of a period                                                *)

\* Bookings as a household may have them: typed, and none with the id of another.
Fit(txs) ==
    /\ IsFiniteSet(txs)
    /\ \A t \in txs :
          t \in [id : Nat, household : Nat, day : Nat, amount : Int, oneOff : BOOLEAN,
                 counterparty : Nat, category : Nat, account : {t.account}]
    /\ \A t, u \in txs : t.id = u.id => t = u

\* What the second cashflow counts.
Rows(from, to) == {t \in Mine(from, to) : ~t.oneOff /\ ~IsTransfer(t, pairs, Reader)}

\* The bookings of the household in a period are fit to be added up.
LEMMA MineFit ==
    ASSUME Fit(ledger), NEW from, NEW to
    PROVE  /\ Mine(from, to) \in SUBSET ledger /\ Booked(Mine(from, to))
           /\ Rows(from, to) \in SUBSET Mine(from, to) /\ Booked(Rows(from, to))
<1>1. Mine(from, to) \in SUBSET ledger
  BY DEF Mine, InPeriod
<1>2. IsFiniteSet(Mine(from, to))
  BY <1>1, FS_Subset DEF Fit
<1>3. \A t \in ledger : t.amount \in Int
  BY DEF Fit
<1>4. Booked(Mine(from, to))
  BY <1>1, <1>2, <1>3 DEF Booked
<1>5. Rows(from, to) \in SUBSET Mine(from, to)
  BY DEF Rows
<1> QED BY <1>1, <1>4, <1>5, SumOfIs

\* The totals of a cashflow, with its evidence or without, are those of its rows.
LEMMA CashflowIs ==
    ASSUME NEW from, NEW to
    PROVE  /\ GetCashflowV2(ledger, pairs, Reader, from, to) = Totals(Rows(from, to))
           /\ \A field \in {"income", "expenses", "net"} :
                 Cashflow(from, to)[field] = Totals(Rows(from, to))[field]
           /\ Cashflow(from, to).income = Totals(Rows(from, to)).income
           /\ Cashflow(from, to).expenses = Totals(Rows(from, to)).expenses
           /\ Cashflow(from, to).net = Totals(Rows(from, to)).net
           /\ Cashflow(from, to).bookings = TopOf(Rows(from, to), ByDay, EvidenceLimit)
           /\ Cashflow(from, to).transfers =
                 ListConfirmedTransferIDsInPeriod(ledger, pairs, Reader, from, to)
<1>1. GetCashflowV2(ledger, pairs, Reader, from, to) = Totals(Rows(from, to))
  BY DEF GetCashflowV2, Rows, Mine
<1>2. PICK report : report = Totals(Rows(from, to))
  OBVIOUS
<1>3. DOMAIN report = {"income", "expenses", "net"}
  BY <1>2 DEF Totals
<1>4. ListCashflowV2TransactionIDs(ledger, pairs, Reader, from, to, EvidenceLimit)
        = TopOf(Rows(from, to), ByDay, EvidenceLimit)
  BY DEF ListCashflowV2TransactionIDs, Rows, Mine, TopOf, Sorted
<1>5. PICK rest :
        /\ rest = [accounts   |-> ListAccountsInPeriod(ledger, Reader, from, to),
                   confidence |-> IF report.income = 0 /\ report.expenses = 0 THEN "medium" ELSE "high",
                   freshness  |-> GetLatestBookingDate(ledger, Reader),
                   transfers  |-> ListConfirmedTransferIDsInPeriod(ledger, pairs, Reader, from, to),
                   bookings   |-> ListCashflowV2TransactionIDs(ledger, pairs, Reader, from, to, EvidenceLimit)]
  OBVIOUS
<1>6. Cashflow(from, to) = Joined(report, rest)
  BY <1>1, <1>2, <1>5 DEF Cashflow, GetCashflowV2Evidence
<1>7. /\ \A x \in DOMAIN report : Joined(report, rest)[x] = report[x]
      /\ \A x \in DOMAIN rest \ DOMAIN report : Joined(report, rest)[x] = rest[x]
  BY DEF Joined
<1>8. \A field \in {"income", "expenses", "net"} : Cashflow(from, to)[field] = report[field]
  BY <1>3, <1>6, <1>7
<1>9. Cashflow(from, to)["bookings"] = rest["bookings"] /\ Cashflow(from, to)["transfers"] = rest["transfers"]
  <2>1. "bookings" \in DOMAIN rest \ DOMAIN report /\ "transfers" \in DOMAIN rest \ DOMAIN report
    BY <1>3, <1>5
  <2> QED BY <1>6, <1>7, <2>1
<1> QED BY <1>1, <1>2, <1>4, <1>5, <1>8, <1>9

\* The transfers an evidence names are those the cashflow leaves out.
LEMMA LegsAre ==
    ASSUME NEW from, NEW to
    PROVE  Legs(from, to) = {t \in Mine(from, to) : IsTransfer(t, pairs, Reader)}
BY CashflowIs DEF Legs, Mine, InPeriod, IsTransfer, ListConfirmedTransferIDsInPeriod

\* The months of a period, and its days, are finite in number.
LEMMA MonthsAddUp ==
    ASSUME Fit(ledger), NEW from, NEW to, NEW field \in {"income", "expenses", "net"},
           NEW months, months = ListMonthlyCashflowV2(ledger, pairs, Reader, from, to)
    PROVE  Cashflow(from, to)[field] = SumFunction([m \in DOMAIN months |-> months[m][field]])
<1>1. PICK S : S = Rows(from, to)
  OBVIOUS
<1>2. PICK K : K = {MonthOf(t.day) : t \in S}
  OBVIOUS
<1>3. PICK key : key = [t \in S |-> MonthOf(t.day)]
  OBVIOUS
<1>4. PICK part : part = [m \in K |-> {t \in S : MonthOf(t.day) = m}]
  OBVIOUS
<1>5. PICK h : h = [m \in DOMAIN months |-> months[m][field]]
  OBVIOUS
<1>6. months = [m \in K |-> Totals({t \in S : MonthOf(t.day) = m})]
  BY <1>1, <1>2 DEF ListMonthlyCashflowV2, Rows, Mine
<1>7. DOMAIN months = K /\ DOMAIN h = K
  BY <1>5, <1>6
<1>8. Booked(S)
  BY <1>1, MineFit
<1>9. (\A t \in S : key[t] \in K) /\ Parts(part, S, K, key)
  BY <1>2, <1>3, <1>4 DEF Parts
<1>10. \A k \in K : h[k] = Totals(part[k])[field]
  BY <1>4, <1>5, <1>6, <1>7
<1>11. IsFiniteSet(K)
  <2>1. K = {key[t] : t \in S}
    BY <1>2, <1>3
  <2> QED BY <1>8, <2>1, FiniteImage DEF Booked
<1>12. SumFunctionOnSet(h, K) = Totals(S)[field]
  BY <1>8, <1>9, <1>10, <1>11, TotalsByKey
<1> QED BY <1>1, <1>5, <1>7, <1>12, CashflowIs DEF SumFunction

\* So do the two parts of it.
LEMMA HalvesAddUp ==
    ASSUME Fit(ledger), NEW from \in Int, NEW to \in Int, NEW day \in from .. to - 1,
           NEW field \in {"income", "expenses", "net"}
    PROVE  Totals(Rows(from, to))[field] = Totals(Rows(from, day))[field] + Totals(Rows(day + 1, to))[field]
<1>1. \A t \in ledger : t.day \in Int
  BY DEF Fit
<1>2. Split(Rows(from, to), Rows(from, day), Rows(day + 1, to))
  BY <1>1 DEF Split, Rows, Mine, InPeriod
<1>3. Booked(Rows(from, to))
  BY MineFit
<1> QED BY <1>2, <1>3, TotalsSplit
-----------------------------------------------------------------------------
(* Its evidence, its pace and the plain cashflow                           *)

\* The lesser and the greater of two numbers.
LEMMA LesserOf ==
    ASSUME NEW a \in Int, NEW b \in Int
    PROVE  Min({a, b}) = IF a <= b THEN a ELSE b
<1>1. \E x \in {a, b} : \A y \in {a, b} : x <= y
  OBVIOUS
<1>2. Min({a, b}) \in {a, b} /\ \A y \in {a, b} : Min({a, b}) <= y
  BY <1>1 DEF Min
<1> QED BY <1>2

LEMMA GreaterOf ==
    ASSUME NEW a \in Int, NEW b \in Int
    PROVE  Max({a, b}) = IF a >= b THEN a ELSE b
<1>1. \E x \in {a, b} : \A y \in {a, b} : x >= y
  OBVIOUS
<1>2. Max({a, b}) \in {a, b} /\ \A y \in {a, b} : Max({a, b}) >= y
  BY <1>1 DEF Max
<1> QED BY <1>2

\* The front of a list.
LEMMA Prefix ==
    ASSUME NEW S, NEW all \in Seq(S), NEW m \in Nat, m <= Len(all)
    PROVE  /\ SubSeq(all, 1, m) \in Seq(S)
           /\ SubSeq(all, 1, m) = [i \in 1 .. m |-> all[i]]
<1>1. SubSeq(all, 1, m) = [i \in 1 .. m |-> all[(1 + i) - 1]]
  OBVIOUS
<1>2. \A i \in 1 .. m : (1 + i) - 1 = i /\ all[i] \in S
  OBVIOUS
<1>3. SubSeq(all, 1, m) = [i \in 1 .. m |-> all[i]]
  BY <1>1, <1>2
<1>4. SubSeq(all, 1, m) \in Seq(S)
  BY <1>2, <1>3
<1> QED BY <1>3, <1>4

\* The first n of a list of a set: different members, all of them if fewer than n.
FirstFew(S, order, n) == SubSeq(Ranked(S, order), 1, Min({n, Len(Ranked(S, order))}))

\* The list of the first n of all.
FirstShown(all, list, n) ==
    /\ Len(all) \in Nat
    /\ Len(list) = (IF n <= Len(all) THEN n ELSE Len(all)) /\ DOMAIN list = 1 .. Len(list)
    /\ \A i \in 1 .. Len(list) : list[i] = all[i]

\* What the front of a list shows of the set.
LEMMA FirstOf ==
    ASSUME NEW S, IsFiniteSet(S), NEW order, HasFirsts(S, order), NEW n \in Nat
    PROVE  /\ Ranked(S, order) \in Seq(S) /\ FirstFew(S, order, n) \in Seq(S)
           /\ Len(Ranked(S, order)) \in Nat
           /\ Len(FirstFew(S, order, n)) = (IF n <= Len(Ranked(S, order)) THEN n ELSE Len(Ranked(S, order)))
           /\ DOMAIN FirstFew(S, order, n) = 1 .. Len(FirstFew(S, order, n))
           /\ \A i \in 1 .. Len(FirstFew(S, order, n)) :
                 FirstFew(S, order, n)[i] = Ranked(S, order)[i] /\ FirstFew(S, order, n)[i] \in S
           /\ \A i, j \in 1 .. Len(FirstFew(S, order, n)) :
                 FirstFew(S, order, n)[i] = FirstFew(S, order, n)[j] => i = j
           /\ Len(FirstFew(S, order, n)) < n => ToSet(FirstFew(S, order, n)) = S
           /\ FirstShown(Ranked(S, order), FirstFew(S, order, n), n)
<1>1. PICK all : all = Ranked(S, order)
  OBVIOUS
<1>2. Lists(all, S, order)
  BY <1>1, RankedLists
<1>3. all \in Seq(S) /\ Len(all) \in Nat /\ \A i \in 1 .. Len(all) : all[i] \in S
  BY <1>2 DEF Lists
<1>4. \A x \in S : \E i \in 1 .. Len(all) : all[i] = x
  BY <1>2 DEF Lists
<1>5. ASSUME NEW i \in 1 .. Len(all), NEW j \in 1 .. Len(all), all[i] = all[j] PROVE i = j
  <2>1. (i < j => all[i] # all[j]) /\ (j < i => all[j] # all[i])
    BY <1>2 DEF Lists
  <2>2. i < j \/ j < i \/ i = j
    BY <1>3
  <2> QED BY <1>5, <2>1, <2>2
<1>6. PICK m : m = IF n <= Len(all) THEN n ELSE Len(all)
  OBVIOUS
<1>7. m \in Nat /\ m <= Len(all) /\ (m < n => m = Len(all)) /\ \A i \in 1 .. m : i \in 1 .. Len(all)
  BY <1>3, <1>6
<1>8. PICK list : list = SubSeq(all, 1, m)
  OBVIOUS
<1>9. FirstFew(S, order, n) = list
  <2>1. Min({n, Len(all)}) = m
    BY <1>3, <1>6, LesserOf
  <2> QED BY <1>1, <1>8, <2>1 DEF FirstFew
<1>10. list \in Seq(S) /\ list = [i \in 1 .. m |-> all[i]]
  BY <1>3, <1>7, <1>8, Prefix
<1>11. Len(list) = m /\ DOMAIN list = 1 .. m /\ \A i \in 1 .. m : list[i] = all[i] /\ list[i] \in S
  <2>1. DOMAIN list = 1 .. m /\ \A i \in 1 .. m : list[i] = all[i]
    BY <1>10
  <2>2. Len(list) = m
    BY <1>7, <1>10
  <2> QED BY <1>3, <1>7, <2>1, <2>2
<1>12. ASSUME NEW i \in 1 .. m, NEW j \in 1 .. m, list[i] = list[j] PROVE i = j
  <2>1. all[i] = all[j] /\ i \in 1 .. Len(all) /\ j \in 1 .. Len(all)
    BY <1>7, <1>11, <1>12
  <2> QED BY <1>5, <2>1
<1>13. m < n => ToSet(list) = S
  <2>1. SUFFICES ASSUME m < n PROVE ToSet(list) = S
    OBVIOUS
  <2>2. m = Len(all)
    BY <1>7, <2>1
  <2>3. ToSet(list) = {list[i] : i \in 1 .. m}
    BY <1>11 DEF ToSet
  <2>4. \A x \in S : \E i \in 1 .. m : list[i] = x
    BY <1>4, <1>11, <2>2
  <2> QED BY <1>11, <2>3, <2>4
<1>14. \A i, j \in 1 .. m : list[i] = list[j] => i = j
  BY <1>12
<1>15. FirstShown(all, list, n)
  BY <1>3, <1>6, <1>11 DEF FirstShown
<1> QED BY <1>1, <1>3, <1>6, <1>9, <1>10, <1>11, <1>13, <1>14, <1>15

\* Bookings in the order of their days.
LEMMA DaysOrder ==
    ASSUME NEW S, IsFiniteSet(S), \A t \in S : t.day \in Nat /\ t.id \in Nat
    PROVE  HasFirsts(S, {e \in S \X S : e[1] # e[2] /\ ByDay(e[1], e[2])})
<1> DEFINE order == {e \in S \X S : e[1] # e[2] /\ ByDay(e[1], e[2])}
<1>1. \A x, y \in S : <<x, y>> \in order <=> x # y /\ (x.day < y.day \/ (x.day = y.day /\ x.id < y.id))
  BY DEF ByDay
<1> HIDE DEF order
<1>2. \A x \in S : <<x, x>> \notin order
  BY <1>1
<1>3. \A x, y, z \in S : <<x, y>> \in order /\ <<y, z>> \in order => <<x, z>> \in order
  BY <1>1
<1>4. HasFirsts(S, order)
  BY <1>2, <1>3, OrderHasFirsts
<1> QED BY <1>4 DEF order

\* An evidence that is not cut short lists the bookings of its net.
LEMMA EvidenceAddsUp ==
    ASSUME Fit(ledger), EvidenceLimit \in Nat, NEW from, NEW to, Len(Cashflow(from, to).bookings) < EvidenceLimit
    PROVE  Cashflow(from, to).net = SumOf(ToSet(Cashflow(from, to).bookings))
<1>1. PICK S : S = Rows(from, to)
  OBVIOUS
<1>2. Booked(S) /\ IsFiniteSet(S) /\ \A t \in S : t.day \in Nat /\ t.id \in Nat
  <2>1. \A t \in ledger : t.day \in Nat /\ t.id \in Nat
    BY DEF Fit
  <2> QED BY <1>1, <2>1, MineFit DEF Booked
<1>3. PICK order : order = {e \in S \X S : e[1] # e[2] /\ ByDay(e[1], e[2])}
  OBVIOUS
<1>4. HasFirsts(S, order)
  BY <1>2, <1>3, DaysOrder
<1>5. PICK list : list = Cashflow(from, to).bookings
  OBVIOUS
<1>6. list = FirstFew(S, order, EvidenceLimit)
  <2>1. list = TopOf(S, ByDay, EvidenceLimit)
    BY <1>1, <1>5, CashflowIs
  <2> QED BY <1>3, <2>1 DEF TopOf, Sorted, FirstFew
<1>7. ToSet(list) = S
  BY <1>2, <1>4, <1>5, <1>6, FirstOf
<1>8. Totals(S).net = SumOf(S)
  BY <1>2, TotalsAre
<1>9. Cashflow(from, to).net = Totals(S).net
  BY <1>1, CashflowIs
<1> QED BY <1>5, <1>7, <1>8, <1>9

\* The days of the pace and the expenses of the one-offs.
LEMMA PaceAddsUp ==
    ASSUME Fit(ledger), NEW from, NEW to,
           NEW pace, pace = ListDailyExpensePace(ledger, pairs, Reader, from, to)
    PROVE  SumFunction([d \in DOMAIN pace |-> pace[d].expenses])
              = Cashflow(from, to).expenses
                + Spent({t \in Mine(from, to) \ Legs(from, to) : t.amount < 0 /\ t.oneOff})
<1>1. PICK S : S = {t \in Mine(from, to) : t.amount < 0 /\ ~IsTransfer(t, pairs, Reader)}
  OBVIOUS
<1>2. PICK K : K = {t.day : t \in S}
  OBVIOUS
<1>3. PICK key : key = [t \in S |-> t.day]
  OBVIOUS
<1>4. PICK part : part = [d \in K |-> {t \in S : t.day = d}]
  OBVIOUS
<1>5. PICK h : h = [d \in DOMAIN pace |-> pace[d].expenses]
  OBVIOUS
<1>6. pace = [d \in K |-> LET U == {t \in S : t.day = d} IN [expenses |-> Spent(U), count |-> Cardinality(U)]]
  BY <1>1, <1>2 DEF ListDailyExpensePace, Mine
<1>7. DOMAIN h = K /\ \A d \in K : h[d] = Spent(part[d])
  BY <1>4, <1>5, <1>6
<1>8. Booked(S) /\ IsFiniteSet(S)
  <2>1. S \in SUBSET Mine(from, to)
    BY <1>1
  <2> QED BY <2>1, MineFit, SumOfIs DEF Booked
<1>9. (\A t \in S : key[t] \in K) /\ Parts(part, S, K, key)
  BY <1>2, <1>3, <1>4 DEF Parts
<1>10. IsFiniteSet(K)
  <2>1. K = {key[t] : t \in S}
    BY <1>2, <1>3
  <2> QED BY <1>8, <2>1, FiniteImage
<1>11. SumFunctionOnSet(h, K) = Spent(S)
  BY <1>7, <1>8, <1>9, <1>10, SpentByKeys
<1>12. PICK A, B : /\ A = Expenses(Rows(from, to))
                   /\ B = {t \in Mine(from, to) \ Legs(from, to) : t.amount < 0 /\ t.oneOff}
  OBVIOUS
<1>13. Split(S, A, B)
  BY <1>1, <1>12, LegsAre DEF Split, Expenses, Rows
<1>14. SumOf(S) = SumOf(A) + SumOf(B) /\ SumOf(A) \in Int /\ SumOf(B) \in Int
  BY <1>8, <1>13, SumOfSplit
<1>15. Spent(S) = Spent(A) + Spent(B)
  BY <1>14 DEF Spent
<1>16. Cashflow(from, to).expenses = Spent(A)
  BY <1>12, MineFit, CashflowIs, TotalsAre
<1> QED BY <1>5, <1>7, <1>11, <1>12, <1>15, <1>16 DEF SumFunction

\* The plain cashflow counts one-offs and transfers too.
LEMMA PlainAddsUp ==
    ASSUME Fit(ledger), NEW from, NEW to
    PROVE  /\ GetCashflow(ledger, Reader, from, to).net
                 = Cashflow(from, to).net
                   + SumOf(Legs(from, to) \cup {t \in Mine(from, to) : t.oneOff})
           /\ GetCashflow(ledger, Reader, from, to).expenses
                 = Cashflow(from, to).expenses
                   + GetOneOffExpenseImpact(ledger, Reader, from, to).total
                   + Spent({t \in Legs(from, to) : t.amount < 0 /\ ~t.oneOff})
<1>1. PICK S, R, L : S = Mine(from, to) /\ R = Rows(from, to) /\ L = Legs(from, to)
  OBVIOUS
<1>2. /\ Booked(S) /\ Booked(R) /\ GetCashflow(ledger, Reader, from, to) = Totals(S)
      /\ L = {t \in S : IsTransfer(t, pairs, Reader)}
      /\ R = {t \in S : ~t.oneOff /\ ~IsTransfer(t, pairs, Reader)}
  BY <1>1, MineFit, LegsAre DEF GetCashflow, Mine, Rows
<1>3. PICK X : X = L \cup {t \in S : t.oneOff}
  OBVIOUS
<1>4. Split(S, R, X)
  BY <1>2, <1>3 DEF Split
<1>5. SumOf(S) = SumOf(R) + SumOf(X)
  BY <1>2, <1>4, SumOfSplit
<1>6. Totals(S).net = Cashflow(from, to).net + SumOf(X)
  <2>1. Totals(S).net = SumOf(S) /\ Totals(R).net = SumOf(R)
    BY <1>2, TotalsAre
  <2>2. Cashflow(from, to).net = Totals(R).net
    BY <1>1, CashflowIs
  <2> QED BY <1>5, <2>1, <2>2
<1>7. PICK E, A, O, T, OT : /\ E = Expenses(S) /\ A = Expenses(R)
                            /\ O = {t \in S : t.oneOff /\ t.amount < 0}
                            /\ T = {t \in L : t.amount < 0 /\ ~t.oneOff}
                            /\ OT = O \cup T
  OBVIOUS
<1>8. Split(E, A, OT) /\ Split(OT, O, T)
  BY <1>2, <1>7 DEF Split, Expenses
<1>9. Booked(E)
  BY <1>2, <1>7, TotalsAre
<1>10. Booked(OT) /\ SumOf(E) = SumOf(A) + SumOf(OT) /\ SumOf(A) \in Int
  BY <1>8, <1>9, SumOfSplit
<1>11. SumOf(OT) = SumOf(O) + SumOf(T) /\ SumOf(O) \in Int /\ SumOf(T) \in Int
  BY <1>8, <1>10, SumOfSplit
<1>12. Spent(E) = Spent(A) + Spent(O) + Spent(T)
  BY <1>10, <1>11 DEF Spent
<1>13. GetOneOffExpenseImpact(ledger, Reader, from, to).total = Spent(O)
  BY <1>1, <1>7 DEF GetOneOffExpenseImpact, Mine
<1>14. Totals(S).expenses = Spent(E) /\ Cashflow(from, to).expenses = Spent(A)
  <2>1. Totals(S).expenses = Spent(E) /\ Totals(R).expenses = Spent(A)
    BY <1>2, <1>7, TotalsAre
  <2>2. Cashflow(from, to).expenses = Totals(R).expenses
    BY <1>1, CashflowIs
  <2> QED BY <2>1, <2>2
<1> QED BY <1>1, <1>2, <1>3, <1>6, <1>7, <1>12, <1>13, <1>14

\* GetCashflowV2, its evidence and the queries beside it agree on a period.
LEMMA CashflowHolds ==
    ASSUME Fit(ledger), EvidenceLimit \in Nat, NEW from \in Int, NEW to \in Int
    PROVE  CashflowAddsUp(from, to)
<1>1. Cashflow(from, to).net = Cashflow(from, to).income - Cashflow(from, to).expenses
  BY MineFit, CashflowIs, NetIs
<1>2. PICK months : months = ListMonthlyCashflowV2(ledger, pairs, Reader, from, to)
  OBVIOUS
<1>3. \A field \in {"income", "expenses", "net"} :
          Cashflow(from, to)[field] = SumFunction([m \in DOMAIN months |-> months[m][field]])
  BY <1>2, MonthsAddUp
<1>4. \A field \in {"income", "expenses", "net"} : \A day \in from .. to - 1 :
          Cashflow(from, to)[field] = GetCashflowV2(ledger, pairs, Reader, from, day)[field]
                                      + GetCashflowV2(ledger, pairs, Reader, day + 1, to)[field]
  BY CashflowIs, HalvesAddUp
<1>5. Len(Cashflow(from, to).bookings) < EvidenceLimit
          => Cashflow(from, to).net = SumOf(ToSet(Cashflow(from, to).bookings))
  BY EvidenceAddsUp
<1>6. PICK pace : pace = ListDailyExpensePace(ledger, pairs, Reader, from, to)
  OBVIOUS
<1>7. SumFunction([d \in DOMAIN pace |-> pace[d].expenses])
         = Cashflow(from, to).expenses
           + Spent({t \in Mine(from, to) \ Legs(from, to) : t.amount < 0 /\ t.oneOff})
  BY <1>6, PaceAddsUp
<1> QED BY <1>1, <1>2, <1>3, <1>4, <1>5, <1>6, <1>7, PlainAddsUp DEF CashflowAddsUp
-----------------------------------------------------------------------------
(* Groups that lead a list                                                 *)

\* A group for each value of the field, and the groups in their order.
GroupsOf(G, S, field) ==
    /\ \A g \in G : g.total = Spent({t \in S : t[field] = g.name}) /\ g.total \in Int
    /\ \A g \in G : \E t \in S : t[field] = g.name
    /\ \A g, k \in G : g.name = k.name => g = k
    /\ \A t \in S : \E g \in G : g.name = t[field]

\* A group for each value of the field, with what its members spend.
LEMMA GroupsAre ==
    ASSUME NEW S, Booked(S), NEW field, NEW G, G = Grouped(S, field)
    PROVE  IsFiniteSet(G) /\ GroupsOf(G, S, field)
<1> DEFINE Of(k) == {t \in S : t[field] = k}
           Group(k) == [name |-> k, total |-> Spent(Of(k)), count |-> Cardinality(Of(k))]
           f == [t \in S |-> Group(t[field])]
<1>1. G = {f[t] : t \in S}
  <2>1. G = {Group(k) : k \in {t[field] : t \in S}}
    BY DEF Grouped
  <2>2. \A t \in S : f[t] = Group(t[field])
    OBVIOUS
  <2> HIDE DEF Group, f
  <2> QED BY <2>1, <2>2
<1>2. \A t \in S : f[t].name = t[field] /\ f[t].total = Spent(Of(t[field])) /\ f[t] = Group(f[t].name)
  OBVIOUS
<1>3. ASSUME NEW k PROVE Spent(Of(k)) \in Int
  <2>1. Of(k) \in SUBSET S
    OBVIOUS
  <2> HIDE DEF Of
  <2>2. SumOf(Of(k)) \in Int
    BY <2>1, SumOfIs
  <2> QED BY <2>2 DEF Spent
<1> HIDE DEF f, Group
<1>4. IsFiniteSet(G)
  BY <1>1, FiniteImage DEF Booked
<1>5. \A g \in G : g.total = Spent(Of(g.name)) /\ g.total \in Int /\ \E t \in S : t[field] = g.name
  <2> HIDE DEF Of
  <2> QED BY <1>1, <1>2, <1>3
<1>6. \A g, k \in G : g.name = k.name => g = k
  <2>1. \A g \in G : g = Group(g.name)
    BY <1>1, <1>2
  <2> QED BY <2>1
<1>7. \A t \in S : \E g \in G : g.name = t[field]
  BY <1>1, <1>2
<1>8. (\A g \in G : g.total = Spent(Of(g.name)) /\ g.total \in Int) /\ (\A g \in G : \E t \in S : t[field] = g.name)
  BY <1>5
<1> QED BY <1>4, <1>6, <1>7, <1>8 DEF GroupsOf

\* Groups by what they spend, the name deciding between equals.
MostOrder(G) == {e \in G \X G : e[1] # e[2] /\ Most(e[1], e[2])}

\* Groups of bookings can be listed in this order.
LEMMA GroupsOrder ==
    ASSUME NEW S, Booked(S), NEW field, \A t \in S : t[field] \in Nat, NEW G, G = Grouped(S, field)
    PROVE  HasFirsts(G, MostOrder(G))
<1>1. IsFiniteSet(G) /\ \A g \in G : g.total \in Int /\ g.name \in Nat
  <2>1. IsFiniteSet(G) /\ GroupsOf(G, S, field)
    BY GroupsAre
  <2> QED BY <2>1 DEF GroupsOf
<1>2. \A x, y \in G : <<x, y>> \in MostOrder(G)
                         <=> x # y /\ (x.total > y.total \/ (x.total = y.total /\ x.name < y.name))
  BY DEF MostOrder, Most
<1>3. \A x \in G : <<x, x>> \notin MostOrder(G)
  BY <1>1, <1>2
<1>4. \A x, y, z \in G : <<x, y>> \in MostOrder(G) /\ <<y, z>> \in MostOrder(G) => <<x, z>> \in MostOrder(G)
  BY <1>1, <1>2
<1> QED BY <1>1, <1>3, <1>4, OrderHasFirsts

\* The groups listed first have different names, and come to the bookings with them.
Leading(S, field, n) == TopOf(Grouped(S, field), Most, n)

\* A list of groups of bookings, each with all that is spent in it.
Totalled(S, field, list) ==
    /\ DOMAIN list = 1 .. Len(list) /\ Len(list) \in Nat
    /\ \A i \in DOMAIN list : list[i].total = Spent({t \in S : t[field] = list[i].name})
    /\ \A i \in DOMAIN list : \E t \in S : t[field] = list[i].name

\* No name twice.
NamedApart(list) == \A i, j \in DOMAIN list : list[i].name = list[j].name => i = j

\* The leading groups are such a list.
LEMMA LeadingAre ==
    ASSUME NEW S, Booked(S), NEW field, \A t \in S : t[field] \in Nat, NEW n \in Nat,
           NEW list, list = Leading(S, field, n)
    PROVE  /\ list = FirstFew(Grouped(S, field), MostOrder(Grouped(S, field)), n)
           /\ DOMAIN list = 1 .. Len(list) /\ Len(list) \in Nat
           /\ \A i \in DOMAIN list : list[i] \in Grouped(S, field)
           /\ Totalled(S, field, list)
           /\ NamedApart(list)
<1>1. PICK G : G = Grouped(S, field)
  OBVIOUS
<1>2. PICK order : order = MostOrder(G)
  OBVIOUS
<1>3. IsFiniteSet(G) /\ HasFirsts(G, order)
  BY <1>1, <1>2, GroupsAre, GroupsOrder
<1>4. list = FirstFew(G, order, n)
  BY <1>1, <1>2 DEF Leading, TopOf, Sorted, FirstFew, MostOrder
<1>5. /\ list \in Seq(G) /\ DOMAIN list = 1 .. Len(list)
      /\ \A i \in 1 .. Len(list) : list[i] \in G
      /\ \A i, j \in 1 .. Len(list) : list[i] = list[j] => i = j
  BY <1>3, <1>4, FirstOf
<1>6. GroupsOf(G, S, field)
  BY <1>1, GroupsAre
<1>7. /\ \A g \in G : g.total = Spent({t \in S : t[field] = g.name})
      /\ \A g \in G : \E t \in S : t[field] = g.name
  BY <1>6 DEF GroupsOf
<1>8. \A g, k \in G : g.name = k.name => g = k
  BY <1>6 DEF GroupsOf
<1>9. NamedApart(list)
  BY <1>5, <1>8 DEF NamedApart
<1>10. /\ \A i \in DOMAIN list : list[i] \in G
       /\ \A i \in DOMAIN list : list[i].total = Spent({t \in S : t[field] = list[i].name})
       /\ \A i \in DOMAIN list : \E t \in S : t[field] = list[i].name
  BY <1>5, <1>7
<1>11. Len(list) \in Nat
  BY <1>5
<1>12. Totalled(S, field, list)
  BY <1>5, <1>10, <1>11 DEF Totalled
<1> QED BY <1>1, <1>2, <1>4, <1>5, <1>9, <1>10, <1>11, <1>12

\* The leading groups and the bookings that are in none of them spend what all do.
LEMMA LeadingAddUp ==
    ASSUME NEW S, Booked(S), NEW field, \A t \in S : t[field] \in Nat, NEW n \in Nat,
           NEW list, list = Leading(S, field, n)
    PROVE  TotalOf(list) = Spent({t \in S : t[field] \in Names(list)})
<1>1. PICK K, U : K = DOMAIN list /\ U = {t \in S : t[field] \in Names(list)}
  OBVIOUS
<1>2. /\ K = 1 .. Len(list) /\ Len(list) \in Nat
      /\ \A i \in K : list[i].total = Spent({t \in S : t[field] = list[i].name})
      /\ \A i, j \in K : list[i].name = list[j].name => i = j
  <2>1. DOMAIN list = 1 .. Len(list) /\ Len(list) \in Nat
    BY LeadingAre
  <2>2. \A i \in DOMAIN list : list[i].total = Spent({t \in S : t[field] = list[i].name})
    <3>1. Totalled(S, field, list)
      BY LeadingAre
    <3> QED BY <3>1 DEF Totalled
  <2>3. \A i, j \in DOMAIN list : list[i].name = list[j].name => i = j
    <3>1. NamedApart(list)
      BY LeadingAre
    <3> QED BY <3>1 DEF NamedApart
  <2> QED BY <1>1, <2>1, <2>2, <2>3
<1>3. PICK key : key = [t \in U |-> CHOOSE i \in K : list[i].name = t[field]]
  OBVIOUS
<1>4. PICK part : part = [i \in K |-> {t \in S : t[field] = list[i].name}]
  OBVIOUS
<1>5. \A t \in U : key[t] \in K /\ list[key[t]].name = t[field]
  <2>1. \A t \in U : \E i \in K : list[i].name = t[field]
    BY <1>1 DEF Names
  <2> QED BY <1>3, <2>1
<1>6. Parts(part, U, K, key)
  <2>1. \A i \in K : part[i] \in SUBSET U
    BY <1>1, <1>4 DEF Names
  <2>2. \A i \in K, t \in U : t \in part[i] <=> key[t] = i
    BY <1>1, <1>2, <1>4, <1>5
  <2> QED BY <2>1, <2>2 DEF Parts
<1>7. Booked(U)
  <2>1. U \in SUBSET S
    BY <1>1
  <2> QED BY <2>1, SumOfIs
<1>8. IsFiniteSet(K)
  BY <1>2, FS_Interval
<1>9. PICK h : h = [i \in K |-> list[i].total]
  OBVIOUS
<1>10. \A i \in K : h[i] = Spent(part[i])
  BY <1>2, <1>4, <1>9
<1>11. \A t \in U : key[t] \in K
  BY <1>5
<1>12. SumFunctionOnSet(h, K) = Spent(U)
  BY <1>6, <1>7, <1>8, <1>10, <1>11, SpentByKeys
<1>13. TotalOf(list) = SumFunctionOnSet(h, K)
  BY <1>1, <1>9 DEF TotalOf, SumFunction
<1> QED BY <1>1, <1>12, <1>13
-----------------------------------------------------------------------------
(* Categories and merchants                                                *)

\* One booking comes to its amount.
LEMMA SumOfOne ==
    ASSUME NEW S, Booked(S), NEW t \in S
    PROVE  SumOf({t}) = t.amount
<1>1. PICK f : f = [u \in S |-> u.amount]
  OBVIOUS
<1>2. IsFiniteSet(S) /\ (\A u \in S : f[u] \in Int) /\ f[t] = t.amount /\ t.amount \in Int
  BY <1>1 DEF Booked
<1>3. SumOf({t}) = SumFunctionOnSet(f, {t})
  <2>1. {t} \in SUBSET S
    OBVIOUS
  <2> QED BY <1>1, <2>1, SumOfIs
<1>4. SumFunctionOnSet(f, {} \cup {t}) = f[t] + SumFunctionOnSet(f, {})
  <2>1. PICK N : N = {}
    OBVIOUS
  <2>2. N \in SUBSET S /\ t \notin N
    BY <2>1
  <2>3. SumFunctionOnSet(f, N \cup {t}) = f[t] + SumFunctionOnSet(f, N)
    BY <1>2, <2>2, SumWith
  <2> QED BY <2>1, <2>3
<1>5. SumFunctionOnSet(f, {}) = 0
  BY <1>2, SumTyped
<1>6. {} \cup {t} = {t}
  OBVIOUS
<1> QED BY <1>2, <1>3, <1>4, <1>5, <1>6

\* Bookings changed one by one come to the same if their amounts are kept.
LEMMA SumOfChanged ==
    ASSUME NEW S, Booked(S), NEW change, NEW T, T = {change[t] : t \in S},
           \A t \in S : change[t].amount = t.amount,
           \A t, u \in S : change[t] = change[u] => t = u
    PROVE  Booked(T) /\ SumOf(T) = SumOf(S)
<1>1. IsFiniteSet(T) /\ \A t \in S : change[t] \in T
  BY FiniteImage DEF Booked
<1>2. \A x \in T : x.amount \in Int
  BY DEF Booked
<1>3. PICK part : part = [x \in T |-> {t \in S : change[t] = x}]
  OBVIOUS
<1>4. Parts(part, S, T, change)
  BY <1>3 DEF Parts
<1>5. PICK h : h = [x \in T |-> x.amount]
  OBVIOUS
<1>6. ASSUME NEW x \in T PROVE h[x] = SumOf(part[x])
  <2>1. PICK t \in S : change[t] = x
    OBVIOUS
  <2>2. part[x] = {t}
    BY <1>3, <2>1
  <2>3. h[x] = t.amount
    BY <1>5, <2>1
  <2> QED BY <2>2, <2>3, SumOfOne
<1>7. SumFunctionOnSet(h, T) = SumOf(S)
  BY <1>1, <1>4, <1>6, SumOfKeys
<1>8. SumOf(T) = SumFunctionOnSet(h, T)
  BY <1>5 DEF SumOf, SumFunction
<1> QED BY <1>1, <1>2, <1>7, <1>8 DEF Booked

\* What the lists of spending are made of.
LEMMA SpendingIs ==
    ASSUME Fit(ledger), NEW from, NEW to
    PROVE  /\ Spending(from, to) = Expenses(Rows(from, to)) /\ Booked(Spending(from, to))
           /\ Spending(from, to) \in SUBSET ledger
           /\ Cashflow(from, to).expenses = Spent(Spending(from, to))
<1>1. Spending(from, to) = Expenses(Rows(from, to))
  BY LegsAre DEF Spending, Expenses, Rows
<1>2. Booked(Rows(from, to)) /\ Rows(from, to) \in SUBSET ledger
  BY MineFit
<1> QED BY <1>1, <1>2, CashflowIs, TotalsAre DEF Expenses

\* The spending that has a category.
Categorized(from, to) == {t \in Spending(from, to) : t.category # 0}

\* The lists of categories and of merchants are leading groups of it.
LEMMA ListsAre ==
    ASSUME Fit(ledger), NEW from, NEW to
    PROVE  /\ ListCategorySpend(ledger, pairs, Reader, from, to, 0) = Leading(Categorized(from, to), "category", 8)
           /\ \A c : ListMerchantSpendInCategory(ledger, pairs, Reader, from, to, c, 0)
                        = Leading({t \in Spending(from, to) : t.category = c}, "counterparty", 8)
<1>1. Clamp(0, 8, 50) = 8 /\ Clamp(0, 8, 20) = 8
  BY DEF Clamp
<1>2. Categorized(from, to) = {t \in InPeriod(ledger, Reader, from, to) :
                                 t.category # 0 /\ t.amount < 0 /\ ~t.oneOff /\ ~IsTransfer(t, pairs, Reader)}
  BY LegsAre DEF Categorized, Spending, Mine
<1>3. ListCategorySpend(ledger, pairs, Reader, from, to, 0) = Leading(Categorized(from, to), "category", 8)
  BY <1>1, <1>2 DEF ListCategorySpend, ListCategorySpendInPeriod, Leading, TopOf, Sorted
<1>4. ASSUME NEW c
      PROVE  ListMerchantSpendInCategory(ledger, pairs, Reader, from, to, c, 0)
                = Leading({t \in Spending(from, to) : t.category = c}, "counterparty", 8)
  <2>1. {t \in Spending(from, to) : t.category = c}
          = {t \in InPeriod(ledger, Reader, from, to) :
                t.category = c /\ t.amount < 0 /\ ~t.oneOff /\ ~IsTransfer(t, pairs, Reader)}
    BY LegsAre DEF Spending, Mine
  <2> QED BY <1>1, <2>1 DEF ListMerchantSpendInCategory, ListMerchantSpendInCategoryPeriod, Leading, TopOf, Sorted
<1> QED BY <1>3, <1>4

\* The part of the spending that is in one category.
LEMMA ByCategory ==
    ASSUME NEW S, Booked(S), \A t \in S : t["category"] \in Nat, NEW n \in Nat,
           NEW list, list = Leading(S, "category", n)
    PROVE  /\ list = FirstFew(Grouped(S, "category"), MostOrder(Grouped(S, "category")), n)
           /\ DOMAIN list = 1 .. Len(list) /\ Len(list) \in Nat
           /\ Totalled(S, "category", list)
<1>1. PICK field : field = "category"
  OBVIOUS
<1>2. \A t \in S : t[field] \in Nat
  BY <1>1
<1>3. list = Leading(S, field, n)
  BY <1>1
<1>4. /\ list = FirstFew(Grouped(S, field), MostOrder(Grouped(S, field)), n)
      /\ DOMAIN list = 1 .. Len(list) /\ Len(list) \in Nat
      /\ Totalled(S, field, list)
  <2>1. list = FirstFew(Grouped(S, field), MostOrder(Grouped(S, field)), n)
    BY <1>2, <1>3, LeadingAre
  <2>2. Totalled(S, field, list)
    BY <1>2, <1>3, LeadingAre
  <2>3. DOMAIN list = 1 .. Len(list) /\ Len(list) \in Nat
    BY <2>2 DEF Totalled
  <2> QED BY <2>1, <2>2, <2>3
<1> QED BY <1>1, <1>4

\* The categories listed and the rest add up to the expenses, the merchants
\* listed and the rest to their category.
LEMMA CategoriesAddUp ==
    ASSUME Fit(ledger), NEW from, NEW to,
           NEW spend, spend = ListCategorySpend(ledger, pairs, Reader, from, to, 0)
    PROVE  TotalOf(spend) + Spent({t \in Spending(from, to) : t.category \notin Names(spend)})
              = Cashflow(from, to).expenses
<1>1. PICK S, C : S = Spending(from, to) /\ C = Categorized(from, to)
  OBVIOUS
<1>2. /\ Booked(S) /\ \A t \in S : t.category \in Nat
      /\ C \in SUBSET S /\ C = {t \in S : t.category # 0}
      /\ spend = Leading(C, "category", 8)
  <2>1. Booked(S) /\ S \in SUBSET ledger
    BY <1>1, SpendingIs
  <2>2. \A t \in ledger : t.category \in Nat
    BY DEF Fit
  <2>3. C = {t \in S : t.category # 0}
    BY <1>1 DEF Categorized
  <2>4. spend = Leading(C, "category", 8)
    BY <1>1, ListsAre
  <2> QED BY <2>1, <2>2, <2>3, <2>4
<1>3. Booked(C) /\ \A t \in C : t["category"] \in Nat
  BY <1>2, SumOfIs
<1>4. PICK A, B : A = {t \in C : t["category"] \in Names(spend)} /\ B = {t \in S : t.category \notin Names(spend)}
  OBVIOUS
<1>5. TotalOf(spend) = Spent(A)
  BY <1>2, <1>3, <1>4, LeadingAddUp
<1>6. 0 \notin Names(spend)
  <2>1. \A i \in DOMAIN spend : \E t \in C : t["category"] = spend[i].name
    <3>1. Totalled(C, "category", spend)
      BY <1>2, <1>3, ByCategory
    <3> QED BY <3>1 DEF Totalled
  <2> QED BY <1>2, <2>1 DEF Names
<1>7. Split(S, A, B)
  BY <1>2, <1>4, <1>6 DEF Split
<1>8. SumOf(S) = SumOf(A) + SumOf(B) /\ SumOf(A) \in Int /\ SumOf(B) \in Int
  BY <1>2, <1>7, SumOfSplit
<1>9. Spent(S) = Spent(A) + Spent(B)
  BY <1>8 DEF Spent
<1> QED BY <1>1, <1>4, <1>5, <1>9, SpendingIs

\* What the merchants of a category come to, and what has none of them.
MerchantsPart(from, to, spend, i, merchants) ==
    spend[i].total = TotalOf(merchants)
        + Spent({t \in Spending(from, to) : /\ t.category = spend[i].name
                                            /\ t.counterparty \notin Names(merchants)})

\* So do the merchants of a category and what has none of them, to the category.
LEMMA MerchantsAddUp ==
    ASSUME Fit(ledger), NEW from, NEW to,
           NEW spend, spend = ListCategorySpend(ledger, pairs, Reader, from, to, 0), NEW i \in DOMAIN spend,
           NEW merchants,
           merchants = ListMerchantSpendInCategory(ledger, pairs, Reader, from, to, spend[i].name, 0)
    PROVE  MerchantsPart(from, to, spend, i, merchants)
<1>1. PICK S, C, c : S = Spending(from, to) /\ C = Categorized(from, to) /\ c = spend[i].name
  OBVIOUS
<1>2. /\ Booked(S) /\ \A t \in S : t.category \in Nat /\ t.counterparty \in Nat
      /\ C \in SUBSET S /\ C = {t \in S : t.category # 0}
      /\ spend = Leading(C, "category", 8)
  <2>1. Booked(S) /\ S \in SUBSET ledger
    BY <1>1, SpendingIs
  <2>2. \A t \in ledger : t.category \in Nat /\ t.counterparty \in Nat
    BY DEF Fit
  <2>3. C = {t \in S : t.category # 0}
    BY <1>1 DEF Categorized
  <2>4. spend = Leading(C, "category", 8)
    BY <1>1, ListsAre
  <2> QED BY <2>1, <2>2, <2>3, <2>4
<1>3. Booked(C) /\ \A t \in C : t["category"] \in Nat
  BY <1>2, SumOfIs
<1>4. spend[i].total = Spent({t \in C : t["category"] = c}) /\ \E t \in C : t["category"] = c
  <2>1. Totalled(C, "category", spend)
    BY <1>2, <1>3, ByCategory
  <2> QED BY <1>1, <2>1 DEF Totalled
<1>5. PICK U : U = {t \in S : t.category = c}
  OBVIOUS
<1>6. spend[i].total = Spent(U)
  <2>1. {t \in C : t["category"] = c} = U
    BY <1>2, <1>4, <1>5
  <2> QED BY <1>4, <2>1
<1>7. Booked(U) /\ \A t \in U : t["counterparty"] \in Nat
  BY <1>2, <1>5, SumOfIs
<1>8. merchants = Leading(U, "counterparty", 8)
  BY <1>1, <1>5, ListsAre
<1>9. PICK A, B : A = {t \in U : t["counterparty"] \in Names(merchants)}
                  /\ B = {t \in S : t.category = c /\ t.counterparty \notin Names(merchants)}
  OBVIOUS
<1>10. TotalOf(merchants) = Spent(A)
  BY <1>7, <1>8, <1>9, LeadingAddUp
<1>11. Split(U, A, B)
  BY <1>5, <1>9 DEF Split
<1>12. SumOf(U) = SumOf(A) + SumOf(B) /\ SumOf(A) \in Int /\ SumOf(B) \in Int
  BY <1>7, <1>11, SumOfSplit
<1>13. Spent(U) = Spent(A) + Spent(B)
  BY <1>12 DEF Spent
<1>14. B = {t \in Spending(from, to) : /\ t.category = spend[i].name
                                      /\ t.counterparty \notin Names(merchants)}
  BY <1>1, <1>9
<1>15. spend[i].total = TotalOf(merchants) + Spent(B)
  BY <1>6, <1>10, <1>13
<1> QED BY <1>14, <1>15 DEF MerchantsPart
-----------------------------------------------------------------------------
(* Categories month by month                                               *)

\* A booking under its month and category, as the chart of the months groups it.
Dated(t) == [t EXCEPT !.category = <<MonthOf(t.day), t.category>>]

\* A booking differs from its dated form in the category only.
LEMMA DatedIs ==
    ASSUME Fit(ledger), NEW t \in ledger
    PROVE  /\ Dated(t).id = t.id /\ Dated(t).amount = t.amount
           /\ Dated(t).category = <<MonthOf(t.day), t.category>> /\ Dated(t).category[2] = t.category
<1>1. t \in [id : Nat, household : Nat, day : Nat, amount : Int, oneOff : BOOLEAN,
             counterparty : Nat, category : Nat, account : {t.account}]
  BY DEF Fit
<1>2. DOMAIN t = {"id", "household", "day", "amount", "oneOff", "counterparty", "category", "account"}
  BY <1>1
<1> QED BY <1>2 DEF Dated

\* The categories of the chart are the first five listed.
NamesOf(list) == {c.name : c \in ToSet(list)}
\* The names of the first n.
FirstNames(list, n) == {list[i].name : i \in 1 .. Min({n, Len(list)})}

\* The five leading categories are the first five of a longer list.
LEMMA TopFive ==
    ASSUME NEW S, Booked(S), \A t \in S : t["category"] \in Nat
    PROVE  NamesOf(Leading(S, "category", 5)) = FirstNames(Leading(S, "category", 8), 5)
<1>1. PICK G, order : G = Grouped(S, "category") /\ order = MostOrder(G)
  OBVIOUS
<1>2. IsFiniteSet(G) /\ HasFirsts(G, order)
  <2>1. PICK field : field = "category"
    OBVIOUS
  <2>2. \A t \in S : t[field] \in Nat
    BY <2>1
  <2>3. G = Grouped(S, field)
    BY <1>1, <2>1
  <2> QED BY <1>1, <2>2, <2>3, GroupsAre, GroupsOrder
<1>3. PICK five, eight : five = Leading(S, "category", 5) /\ eight = Leading(S, "category", 8)
  OBVIOUS
<1>4. PICK f, e : f = 5 /\ e = 8
  OBVIOUS
<1>5. f \in Nat /\ e \in Nat /\ f <= e
  BY <1>4
<1>6. five = FirstFew(G, order, f) /\ eight = FirstFew(G, order, e)
  <2>1. five = FirstFew(Grouped(S, "category"), MostOrder(Grouped(S, "category")), f)
    BY <1>3, <1>4, ByCategory
  <2>2. eight = FirstFew(Grouped(S, "category"), MostOrder(Grouped(S, "category")), e)
    BY <1>3, <1>4, ByCategory
  <2> QED BY <1>1, <2>1, <2>2
<1>7. PICK all : all = Ranked(G, order)
  OBVIOUS
<1>8. /\ Len(all) \in Nat
      /\ Len(five) = (IF f <= Len(all) THEN f ELSE Len(all)) /\ DOMAIN five = 1 .. Len(five)
      /\ \A i \in 1 .. Len(five) : five[i] = all[i]
  <2>1. FirstShown(all, five, f)
    BY <1>2, <1>5, <1>6, <1>7, FirstOf
  <2> QED BY <2>1 DEF FirstShown
<1>9. /\ Len(eight) = (IF e <= Len(all) THEN e ELSE Len(all))
      /\ \A i \in 1 .. Len(eight) : eight[i] = all[i]
  <2>1. FirstShown(all, eight, e)
    BY <1>2, <1>5, <1>6, <1>7, FirstOf
  <2> QED BY <2>1 DEF FirstShown
<1>10. Len(five) \in Nat /\ Len(eight) \in Nat /\ Len(five) <= Len(eight)
  BY <1>5, <1>8, <1>9
<1>11. Min({f, Len(eight)}) = Len(five)
  <2>1. PICK l : l = Len(eight)
    OBVIOUS
  <2>2. f \in Int /\ l \in Int
    BY <1>5, <1>10, <2>1
  <2>3. Min({f, l}) = IF f <= l THEN f ELSE l
    BY <2>2, LesserOf
  <2> QED BY <1>5, <1>8, <1>9, <2>1, <2>3
<1>12. \A i \in 1 .. Len(five) : i \in 1 .. Len(eight)
  BY <1>10
<1>13. \A i \in 1 .. Len(five) : five[i] = eight[i]
  BY <1>8, <1>9, <1>12
<1>14. NamesOf(five) = {five[i].name : i \in 1 .. Len(five)}
  BY <1>8 DEF ToSet, NamesOf
<1>15. NamesOf(five) = {eight[i].name : i \in 1 .. Len(five)}
  BY <1>13, <1>14
<1>16. FirstNames(eight, f) = {eight[i].name : i \in 1 .. Len(five)}
  BY <1>11 DEF FirstNames
<1> QED BY <1>3, <1>4, <1>15, <1>16

\* The bookings of a chart of some categories, dated; the rows of one category.
Charted(C, top) == {Dated(t) : t \in {r \in C : r.category \in top}}
RowsOf(T, c) == {r \in Grouped(T, "category") : r.name[2] = c}

\* The rows of a category in the chart come to all that was spent on it.
LEMMA MonthsOfCategory ==
    ASSUME Fit(ledger), NEW C \in SUBSET ledger, NEW top, NEW c \in top, NEW T, T = Charted(C, top)
    PROVE  TotalIn(RowsOf(T, c)) = Spent({t \in C : t.category = c})
<1>1. PICK Q, V : Q = {r \in C : r.category \in top} /\ V = {t \in C : t.category = c}
  OBVIOUS
<1>2. PICK change : change = [t \in Q |-> Dated(t)]
  OBVIOUS
<1>3. \A t \in Q : /\ change[t].id = t.id /\ change[t].amount = t.amount
                   /\ change[t].category[2] = t.category
  <2>1. Q \in SUBSET ledger
    BY <1>1
  <2>2. \A t \in Q : change[t] = Dated(t)
    BY <1>2
  <2> QED BY <2>1, <2>2, DatedIs
<1>4. T = {change[t] : t \in Q} /\ V \in SUBSET Q /\ V = {t \in Q : t.category = c}
  BY <1>1, <1>2 DEF Charted
<1>5. Booked(Q) /\ Booked(V)
  <2>1. Q \in SUBSET ledger /\ V \in SUBSET ledger /\ Booked(ledger)
    BY <1>1 DEF Booked, Fit
  <2> QED BY <2>1, SumOfIs
<1>6. /\ \A t \in Q : change[t].amount = t.amount
      /\ \A t, u \in Q : change[t] = change[u] => t = u
  <2>1. \A t, u \in Q : t.id = u.id => t = u
    BY <1>1 DEF Fit
  <2> QED BY <1>3, <2>1
<1>7. Booked(T)
  BY <1>4, <1>5, <1>6, SumOfChanged
<1>8. PICK U : U = {u \in T : u.category[2] = c}
  OBVIOUS
<1>9. U = {change[t] : t \in V}
  BY <1>3, <1>4, <1>8
<1>10. Booked(U) /\ SumOf(U) = SumOf(V)
  <2>1. /\ \A t \in V : change[t].amount = t.amount
        /\ \A t, u \in V : change[t] = change[u] => t = u
    BY <1>4, <1>6
  <2> QED BY <1>5, <1>9, <2>1, SumOfChanged
<1>11. PICK field, G : field = "category" /\ G = Grouped(T, field)
  OBVIOUS
<1>12. IsFiniteSet(G) /\ GroupsOf(G, T, field)
  BY <1>7, <1>11, GroupsAre
<1>13. /\ \A g \in G : g.total = Spent({u \in T : u[field] = g.name})
       /\ \A g, k \in G : g.name = k.name => g = k
  BY <1>12 DEF GroupsOf
<1>14. \A u \in T : \E g \in G : g.name = u[field]
  BY <1>12 DEF GroupsOf
<1>15. PICK R : R = {r \in G : r.name[2] = c}
  OBVIOUS
<1>16. PICK key : key = [u \in U |-> CHOOSE r \in G : r.name = u[field]]
  OBVIOUS
<1>17. PICK part : part = [r \in R |-> {u \in T : u[field] = r.name}]
  OBVIOUS
<1>18. \A u \in U : key[u] \in R /\ key[u].name = u[field]
  <2>1. ASSUME NEW u \in U PROVE key[u] \in G /\ key[u].name = u[field]
    <3>1. \E r \in G : r.name = u[field]
      BY <1>8, <1>14
    <3> QED BY <1>16, <3>1
  <2>2. \A u \in U : u[field][2] = c
    BY <1>8, <1>11
  <2> QED BY <1>15, <2>1, <2>2
<1>19. Parts(part, U, R, key)
  <2>1. \A r \in R : part[r] \in SUBSET U
    BY <1>8, <1>11, <1>15, <1>17
  <2>2. ASSUME NEW r \in R, NEW u \in U PROVE u \in part[r] <=> key[u] = r
    <3>1. key[u] \in G /\ r \in G /\ key[u].name = u[field]
      BY <1>15, <1>18
    <3>2. u \in part[r] <=> u[field] = r.name
      BY <1>8, <1>17
    <3> QED BY <1>13, <3>1, <3>2
  <2> QED BY <2>1, <2>2 DEF Parts
<1>20. IsFiniteSet(R)
  BY <1>12, <1>15, FS_Subset
<1>21. PICK h : h = [r \in R |-> r.total]
  OBVIOUS
<1>22. \A r \in R : h[r] = Spent(part[r])
  BY <1>13, <1>15, <1>17, <1>21
<1>23. SumFunctionOnSet(h, R) = Spent(U)
  <2>1. \A u \in U : key[u] \in R
    BY <1>18
  <2> QED BY <1>10, <1>19, <1>20, <1>22, <2>1, SpentByKeys
<1>24. TotalIn(R) = SumFunctionOnSet(h, R)
  BY <1>21 DEF TotalIn, SumFunction
<1>25. Spent(U) = Spent(V)
  BY <1>10 DEF Spent
<1> QED BY <1>1, <1>11, <1>15, <1>23, <1>24, <1>25 DEF RowsOf

\* The chart has rows for the categories of the list and no others.
LEMMA NamesInMonths ==
    ASSUME Fit(ledger), NEW C \in SUBSET ledger, NEW top, \A c \in top : \E t \in C : t.category = c,
           NEW T, T = Charted(C, top)
    PROVE  {r.name[2] : r \in Grouped(T, "category")} = top
<1>1. PICK field, G : field = "category" /\ G = Grouped(T, field)
  OBVIOUS
<1>2. Booked(T)
  <2>1. PICK Q, change : Q = {r \in C : r.category \in top} /\ change = [t \in Q |-> Dated(t)]
    OBVIOUS
  <2>2. T = {change[t] : t \in Q} /\ Q \in SUBSET ledger
    BY <2>1 DEF Charted
  <2>3. \A t \in Q : change[t].amount = t.amount /\ change[t].id = t.id
    BY <2>1, <2>2, DatedIs
  <2>4. Booked(Q)
    <3>1. Booked(ledger)
      BY DEF Booked, Fit
    <3> QED BY <2>2, <3>1, SumOfIs
  <2>5. \A t, u \in Q : change[t] = change[u] => t = u
    <3>1. \A t, u \in Q : t.id = u.id => t = u
      BY <2>2 DEF Fit
    <3> QED BY <2>3, <3>1
  <2> QED BY <2>2, <2>3, <2>4, <2>5, SumOfChanged
<1>3. GroupsOf(G, T, field)
  BY <1>1, <1>2, GroupsAre
<1>4. (\A g \in G : \E u \in T : u[field] = g.name) /\ (\A u \in T : \E g \in G : g.name = u[field])
  BY <1>3 DEF GroupsOf
<1>5. \A t \in ledger : Dated(t).category[2] = t.category
  BY DatedIs
<1>6. \A u \in T : u[field][2] \in top
  BY <1>1, <1>5 DEF Charted
<1>7. \A c \in top : \E u \in T : u[field][2] = c
  BY <1>1, <1>5 DEF Charted
<1>8. {r.name[2] : r \in G} = top
  <2>1. \A r \in G : r.name[2] \in top
    BY <1>4, <1>6
  <2>2. \A c \in top : \E r \in G : r.name[2] = c
    BY <1>4, <1>7
  <2> QED BY <2>1, <2>2
<1> QED BY <1>1, <1>8

\* The rows of a category add up to what the list of the period says of it.
LEMMA MonthsAre ==
    ASSUME Fit(ledger), NEW from, NEW to
    PROVE  ListMonthlyCategorySpend(ledger, pairs, Reader, from, to, 0)
              = Grouped(Charted(Categorized(from, to), NamesOf(Leading(Categorized(from, to), "category", 5))),
                        "category")
<1>1. Clamp(0, 5, 12) = 5
  BY DEF Clamp
<1>2. Categorized(from, to) = {t \in InPeriod(ledger, Reader, from, to) :
                                 t.category # 0 /\ t.amount < 0 /\ ~t.oneOff /\ ~IsTransfer(t, pairs, Reader)}
  BY LegsAre DEF Categorized, Spending, Mine
<1> QED BY <1>1, <1>2 DEF ListMonthlyCategorySpend, ListMonthlyCategorySpendInPeriod, Leading, TopOf, Sorted, Dated,
         Charted, NamesOf

\* What SpendingAddsUp asks of the two lists.
SpendingPart(from, to, spend, inMonths, N) ==
    /\ TotalOf(spend) + Spent({t \in Spending(from, to) : t.category \notin Names(spend)})
          = Cashflow(from, to).expenses
    /\ \A i \in DOMAIN spend : MerchantsPart(from, to, spend, i,
          ListMerchantSpendInCategory(ledger, pairs, Reader, from, to, spend[i].name, 0))
    /\ {r.name[2] : r \in inMonths} = {spend[i].name : i \in N}
    /\ \A i \in N : spend[i].total = TotalIn({r \in inMonths : r.name[2] = spend[i].name})

\* The queries of categories, merchants and months agree on a period.
LEMMA SpendingHolds ==
    ASSUME Fit(ledger), NEW from, NEW to
    PROVE  SpendingAddsUp(from, to)
<1>1. PICK C, spend, five, top :
         /\ C = Categorized(from, to)
         /\ spend = ListCategorySpend(ledger, pairs, Reader, from, to, 0)
         /\ five = Leading(C, "category", 5) /\ top = NamesOf(five)
  OBVIOUS
<1>2. spend = Leading(C, "category", 8)
  BY <1>1, ListsAre
<1>3. C \in SUBSET ledger /\ Booked(C) /\ \A t \in C : t["category"] \in Nat
  <2>1. C \in SUBSET Spending(from, to)
    BY <1>1 DEF Categorized
  <2>2. \A t \in ledger : t["category"] \in Nat
    BY DEF Fit
  <2> QED BY <2>1, <2>2, SpendingIs, SumOfIs
<1>4. PICK N : N = 1 .. Min({5, Len(spend)})
  OBVIOUS
<1>5. top = {spend[i].name : i \in N}
  <2>1. top = FirstNames(spend, 5)
    BY <1>1, <1>2, <1>3, TopFive
  <2> QED BY <1>4, <2>1 DEF FirstNames
<1>6. DOMAIN spend = 1 .. Len(spend) /\ Len(spend) \in Nat /\ Totalled(C, "category", spend)
  BY <1>2, <1>3, ByCategory
<1>7. \A i \in N : i \in DOMAIN spend
  BY <1>4, <1>6, LesserOf
<1>8. \A c \in top : \E t \in C : t.category = c
  BY <1>5, <1>6, <1>7 DEF Totalled
<1>9. PICK T, inMonths : T = Charted(C, top) /\ inMonths = Grouped(T, "category")
  OBVIOUS
<1>10. inMonths = ListMonthlyCategorySpend(ledger, pairs, Reader, from, to, 0)
  BY <1>1, <1>9, MonthsAre
<1>11. {r.name[2] : r \in inMonths} = {spend[i].name : i \in N}
  <2>1. {r.name[2] : r \in inMonths} = top
    BY <1>3, <1>8, <1>9, NamesInMonths
  <2> QED BY <1>5, <2>1
<1>12. ASSUME NEW i \in N
       PROVE  spend[i].total = TotalIn({r \in inMonths : r.name[2] = spend[i].name})
  <2>1. PICK c : c = spend[i].name
    OBVIOUS
  <2>2. c \in top
    BY <1>5, <2>1
  <2>3. TotalIn(RowsOf(T, c)) = Spent({t \in C : t.category = c})
    BY <1>3, <1>9, <2>2, MonthsOfCategory
  <2>4. spend[i].total = Spent({t \in C : t.category = c})
    BY <1>6, <1>7, <2>1 DEF Totalled
  <2>5. RowsOf(T, c) = {r \in inMonths : r.name[2] = spend[i].name}
    BY <1>9, <2>1 DEF RowsOf
  <2> QED BY <2>3, <2>4, <2>5
<1>13. TotalOf(spend) + Spent({t \in Spending(from, to) : t.category \notin Names(spend)})
          = Cashflow(from, to).expenses
  BY <1>1, CategoriesAddUp
<1>14. \A i \in DOMAIN spend : MerchantsPart(from, to, spend, i,
          ListMerchantSpendInCategory(ledger, pairs, Reader, from, to, spend[i].name, 0))
  BY <1>1, MerchantsAddUp
<1>15. SpendingPart(from, to, spend, inMonths, N)
  BY <1>11, <1>12, <1>13, <1>14 DEF SpendingPart
<1>16. SpendingPart(from, to, ListCategorySpend(ledger, pairs, Reader, from, to, 0),
                    ListMonthlyCategorySpend(ledger, pairs, Reader, from, to, 0),
                    1 .. Min({5, Len(ListCategorySpend(ledger, pairs, Reader, from, to, 0))}))
  BY <1>1, <1>4, <1>10, <1>15
<1> QED BY <1>16 DEF SpendingPart, MerchantsPart, SpendingAddsUp
-----------------------------------------------------------------------------
(* The baseline of a month                                                 *)

\* What bookings that cost something come to is not negative.
LEMMA SpentPositive ==
    ASSUME NEW S, Booked(S), \A t \in S : t.amount < 0
    PROVE  Spent(S) \in Nat
<1> DEFINE P == {T \in SUBSET S : Spent(T) \in Nat}
<1>1. IsFiniteSet(S)
  BY DEF Booked
<1>2. {} \in P
  <2>1. SumOf({}) = 0
    BY SumOfTyped
  <2> QED BY <2>1 DEF Spent
<1>3. ASSUME NEW T \in SUBSET S, NEW t \in S, T \in P, t \notin T PROVE T \cup {t} \in P
  <2>1. PICK U, O : U = T \cup {t} /\ O = {t}
    OBVIOUS
  <2>2. Booked(U) /\ Split(U, T, O)
    <3>1. U \in SUBSET S
      BY <2>1
    <3> QED BY <1>3, <2>1, <3>1, SumOfIs DEF Split
  <2>3. SumOf(U) = SumOf(T) + SumOf(O) /\ SumOf(T) \in Int
    BY <2>2, SumOfSplit
  <2>4. SumOf(O) = t.amount /\ t.amount \in Int /\ t.amount < 0
    BY <2>1, SumOfOne DEF Booked
  <2>5. Spent(T) \in Nat
    BY <1>3
  <2>6. Spent(U) \in Nat
    BY <2>3, <2>4, <2>5 DEF Spent
  <2> QED BY <2>1, <2>6
<1>4. S \in P
  <2>1. \A T \in SUBSET S, t \in S : T \in P /\ t \notin T => T \cup {t} \in P
    BY <1>3
  <2> HIDE DEF P
  <2> QED BY <1>1, <1>2, <2>1, FiniteInduct
<1> QED BY <1>4

\* Of no series, no cost.
LEMMA NoCosts ==
    ASSUME NEW f, DOMAIN f = {}
    PROVE  SumFunction(f) = 0
<1>1. SumFunction(f) = SumFunctionOnSet(f, {})
  BY DEF SumFunction
<1>2. IsFiniteSet({})
  BY FS_EmptySet
<1> QED BY <1>1, <1>2, SumTyped

\* A sum of whole cents is not changed by the division and the product by one month.
LEMMA WholeCents ==
    ASSUME NEW n \in Nat
    PROVE  RoundDiv(10000 * n, 10000) = n
<1>1. PICK a : a = 10000 * n
  OBVIOUS
<1>2. a \in Nat /\ ~(a < 0) /\ (2 * a + 10000) \div (2 * 10000) = n
  BY <1>1
<1>3. Magnitude(a) = a
  BY <1>2 DEF Magnitude
<1>4. RoundDiv(a, 10000) = (2 * a + 10000) \div (2 * 10000)
  BY <1>2, <1>3 DEF RoundDiv
<1> QED BY <1>1, <1>2, <1>4

\* The variable spend of a baseline without series is the expenses of the month.
LEMMA BaselineOfMonth ==
    ASSUME Fit(ledger), NEW from \in Int, NEW to \in Int, inclusiveMonthSpan(from, to) = 100
    PROVE  ComputeBaseline(ledger, pairs, Reader, {}, {[from |-> from, to |-> to]}, 60).variable
              = Cashflow(from, to).expenses
<1>1. PICK e : e = GetCashflowV2(ledger, pairs, Reader, from, to).expenses
  OBVIOUS
<1>2. e \in Nat /\ e = Cashflow(from, to).expenses
  <2>1. Cashflow(from, to).expenses = Spent(Spending(from, to)) /\ Booked(Spending(from, to))
    BY SpendingIs
  <2>2. \A t \in Spending(from, to) : t.amount < 0
    BY DEF Spending
  <2> QED BY <1>1, <2>1, <2>2, SpentPositive, CashflowIs
<1>3. ComputeBaseline(ledger, pairs, Reader, {}, {[from |-> from, to |-> to]}, 60) = Compute(from, to, {}, e)
  <2>1. (CHOOSE q \in {[from |-> from, to |-> to]} : TRUE) = [from |-> from, to |-> to]
    OBVIOUS
  <2> QED BY <1>1, <2>1 DEF ComputeBaseline
<1>4. Magnitude(e) = e
  BY <1>2 DEF Magnitude
<1>5. ASSUME NEW total, total = 0 PROVE Max({0, 10000 * e - (total + total) * 100}) = 10000 * e
  <2>1. PICK a, b : a = 10000 * e - (total + total) * 100 /\ b = 0
    OBVIOUS
  <2>2. a \in Int /\ b \in Int /\ a >= b /\ a = 10000 * e
    BY <1>2, <1>5, <2>1
  <2>3. Max({b, a}) = a
    BY <2>2, GreaterOf
  <2> QED BY <2>1, <2>2, <2>3
<1>6. Compute(from, to, {}, e).variable = RoundDiv(10000 * e, 100 * 100)
  <2>1. PICK total : total = SumFunction([s \in {} |-> monthlyEquivalent(s)])
    OBVIOUS
  <2>2. total = 0
    BY <2>1, NoCosts
  <2>3. Compute(from, to, {}, e).variable
           = RoundDiv(Max({0, 10000 * Magnitude(e) - (total + total) * 100}), 100 * 100)
    BY <2>1 DEF Compute
  <2> QED BY <1>4, <1>5, <2>2, <2>3
<1> QED BY <1>2, <1>3, <1>6, WholeCents
-----------------------------------------------------------------------------
(* Marking a booking                                                       *)

\* A booking marked as a one-off, or no longer so.
Marked(t) == [t EXCEPT !.oneOff = ~t.oneOff]

\* Marking changes nothing else of the booking.
LEMMA MarkedIs ==
    ASSUME Fit(ledger), NEW t \in ledger
    PROVE  /\ Marked(t).id = t.id /\ Marked(t).household = t.household /\ Marked(t).day = t.day
           /\ Marked(t).amount = t.amount /\ Marked(t).amount \in Int
           /\ Marked(t).oneOff = ~t.oneOff /\ t.oneOff \in BOOLEAN /\ Marked(t) \notin ledger
<1>1. t \in [id : Nat, household : Nat, day : Nat, amount : Int, oneOff : BOOLEAN,
             counterparty : Nat, category : Nat, account : {t.account}]
  BY DEF Fit
<1>2. DOMAIN t = {"id", "household", "day", "amount", "oneOff", "counterparty", "category", "account"}
      /\ t.amount \in Int /\ t.oneOff \in BOOLEAN
  BY <1>1
<1>3. /\ Marked(t).id = t.id /\ Marked(t).household = t.household /\ Marked(t).day = t.day
      /\ Marked(t).amount = t.amount /\ Marked(t).oneOff = ~t.oneOff
  BY <1>2 DEF Marked
<1>4. Marked(t) # t
  BY <1>2, <1>3
<1>5. \A u \in ledger : u.id = t.id => u = t
  BY DEF Fit
<1> QED BY <1>2, <1>3, <1>4, <1>5

\* A booking marked, or no longer marked, leaves the rest as it is.
LEMMA MarkedLedger ==
    ASSUME Fit(ledger), NEW t \in ledger, t.household = Reader
    PROVE  SetOneOff(ledger, Reader, t.id, ~t.oneOff) = (ledger \ {t}) \cup {Marked(t)}
<1>1. \A u \in ledger : u.id = t.id => u = t
  BY DEF Fit
<1> QED BY <1>1 DEF SetOneOff, Marked

\* The net without a row, and with one more.
LEMMA NetOfRow ==
    ASSUME NEW R, Booked(R), NEW x, x.amount \in Int
    PROVE  /\ x \in R => Totals(R \ {x}).net = Totals(R).net - x.amount
           /\ x \notin R => Totals(R \cup {x}).net = Totals(R).net + x.amount
<1>1. PICK f, S : S = R \cup {x} /\ f = {x}
  OBVIOUS
<1>2. Booked(S)
  <2>1. IsFiniteSet(R \cup {x})
    BY FS_AddElement DEF Booked
  <2> QED BY <1>1, <2>1 DEF Booked
<1>3. SumOf(f) = x.amount /\ Booked(f)
  <2>1. f \in SUBSET S /\ x \in S
    BY <1>1
  <2>2. SumOf({x}) = x.amount
    BY <1>2, <2>1, SumOfOne
  <2> QED BY <1>1, <1>2, <2>1, <2>2, SumOfIs
<1>4. ASSUME x \in R PROVE Totals(R \ {x}).net = Totals(R).net - x.amount
  <2>1. PICK Q : Q = R \ {x}
    OBVIOUS
  <2>2. Split(R, Q, f)
    BY <1>1, <1>4, <2>1 DEF Split
  <2>3. Booked(Q) /\ SumOf(R) = SumOf(Q) + SumOf(f) /\ SumOf(Q) \in Int /\ SumOf(f) \in Int
    BY <2>2, SumOfSplit
  <2>4. Totals(R).net = SumOf(R) /\ Totals(Q).net = SumOf(Q)
    BY <2>3, TotalsAre
  <2>5. Totals(Q).net = Totals(R).net - x.amount
    BY <1>3, <2>3, <2>4
  <2> QED BY <2>1, <2>5
<1>5. ASSUME x \notin R PROVE Totals(R \cup {x}).net = Totals(R).net + x.amount
  <2>1. Split(S, R, f)
    BY <1>1, <1>5 DEF Split
  <2>2. SumOf(S) = SumOf(R) + SumOf(f)
    BY <1>2, <2>1, SumOfSplit
  <2>3. Totals(R).net = SumOf(R) /\ Totals(S).net = SumOf(S)
    BY <1>2, TotalsAre
  <2> QED BY <1>1, <1>3, <2>2, <2>3
<1> QED BY <1>4, <1>5

\* Marking a booking moves the net by what it counts for.
LEMMA MarkingMoves ==
    ASSUME Fit(ledger), NEW from, NEW to, NEW t \in Mine(from, to)
    PROVE  LET marked == SetOneOff(ledger, Reader, t.id, ~t.oneOff)
               change == IF IsTransfer(t, pairs, Reader) THEN 0
                         ELSE IF t.oneOff THEN t.amount ELSE -t.amount
           IN  GetCashflowV2(marked, pairs, Reader, from, to).net = Cashflow(from, to).net + change
<1>1. PICK R, x : R = Rows(from, to) /\ x = Marked(t)
  OBVIOUS
<1>2. PICK marked, Q : /\ marked = SetOneOff(ledger, Reader, t.id, ~t.oneOff)
                       /\ Q = {u \in InPeriod(marked, Reader, from, to) : ~u.oneOff /\ ~IsTransfer(u, pairs, Reader)}
  OBVIOUS
<1>3. GetCashflowV2(marked, pairs, Reader, from, to) = Totals(Q)
  BY <1>2 DEF GetCashflowV2
<1>4. t \in ledger /\ t.household = Reader /\ from <= t.day /\ t.day <= to
  BY DEF Mine, InPeriod
<1>5. marked = (ledger \ {t}) \cup {x}
  BY <1>1, <1>2, <1>4, MarkedLedger
<1>6. /\ x.id = t.id /\ x.household = t.household /\ x.day = t.day /\ x.amount = t.amount
      /\ x.amount \in Int /\ x.oneOff = ~t.oneOff /\ t.oneOff \in BOOLEAN /\ x \notin ledger
  BY <1>1, <1>4, MarkedIs
<1>7. IsTransfer(x, pairs, Reader) <=> IsTransfer(t, pairs, Reader)
  BY <1>6 DEF IsTransfer
<1>8. \A u : u \in Q <=> \/ u \in R /\ u # t
                         \/ u = x /\ t.oneOff /\ ~IsTransfer(t, pairs, Reader)
  BY <1>1, <1>2, <1>4, <1>5, <1>6, <1>7 DEF Rows, Mine, InPeriod
<1>9. t \in R <=> ~t.oneOff /\ ~IsTransfer(t, pairs, Reader)
  BY <1>1 DEF Rows
<1>10. Booked(R) /\ x \notin R /\ Cashflow(from, to).net = Totals(R).net
  BY <1>1, <1>6, MineFit, CashflowIs
<1>11. Totals(R).net \in Int
  BY <1>10, TotalsAre
<1>12. CASE IsTransfer(t, pairs, Reader)
  <2>1. Q = R
    BY <1>8, <1>9, <1>12
  <2>2. Totals(Q).net = Totals(R).net + 0
    BY <1>11, <2>1
  <2> QED BY <1>2, <1>3, <1>10, <1>12, <2>2
<1>13. CASE ~IsTransfer(t, pairs, Reader) /\ t.oneOff
  <2>1. Q = R \cup {x}
    BY <1>8, <1>9, <1>13
  <2>2. Totals(R \cup {x}).net = Totals(R).net + x.amount
    BY <1>6, <1>10, NetOfRow
  <2> QED BY <1>2, <1>3, <1>6, <1>10, <1>13, <2>1, <2>2
<1>14. CASE ~IsTransfer(t, pairs, Reader) /\ ~t.oneOff
  <2>1. Q = R \ {t}
    BY <1>8, <1>9, <1>14
  <2>2. Totals(R \ {t}).net = Totals(R).net - t.amount
    BY <1>6, <1>9, <1>10, <1>14, NetOfRow
  <2>3. Totals(Q).net = Totals(R).net + (-t.amount)
    BY <1>6, <1>11, <2>1, <2>2
  <2> QED BY <1>2, <1>3, <1>10, <1>14, <2>3
<1> QED BY <1>12, <1>13, <1>14

\* The changes, the marking and the baseline agree with the expenses of a period.
LEMMA ExpensesHold ==
    ASSUME Fit(ledger), NEW from \in Nat, NEW to \in Int, from <= to
    PROVE  SameExpenses(from, to)
<1>0. PICK a : a = [from |-> from, to |-> to]
  OBVIOUS
<1>1. PICK changes : changes = runSpendingChanges(ledger, pairs, Reader, a)
  OBVIOUS
<1>2. PICK first, last : first = from - (to - from + 1) /\ last = from - 1
  OBVIOUS
<1>3. /\ changes.period = [from |-> first, to |-> last]
      /\ changes.current = GetCashflowV2(ledger, pairs, Reader, from, to).expenses
      /\ changes.previous = GetCashflowV2(ledger, pairs, Reader, first, last).expenses
  BY <1>0, <1>1, <1>2 DEF runSpendingChanges, ValidRange
<1>4. changes.period.to - changes.period.from = to - from
  BY <1>2, <1>3
<1>5. changes.current = Cashflow(from, to).expenses
  BY <1>3, CashflowIs
<1>6. changes.current + changes.previous
         = GetCashflowV2(ledger, pairs, Reader, changes.period.from, to).expenses
  <2>1. first \in Int /\ last \in first .. to - 1 /\ last + 1 = from
    BY <1>2
  <2>2. Totals(Rows(first, to))["expenses"]
           = Totals(Rows(first, last))["expenses"] + Totals(Rows(from, to))["expenses"]
    BY <2>1, HalvesAddUp
  <2>3. /\ Totals(Rows(first, last)).expenses \in Int
        /\ Totals(Rows(from, to)).expenses \in Int
    BY MineFit, TotalsAre
  <2> QED BY <1>3, <2>2, <2>3, CashflowIs
<1>7. \A t \in Mine(from, to) :
         LET marked == SetOneOff(ledger, Reader, t.id, ~t.oneOff)
             change == IF IsTransfer(t, pairs, Reader) THEN 0
                       ELSE IF t.oneOff THEN t.amount ELSE -t.amount
         IN  GetCashflowV2(marked, pairs, Reader, from, to).net = Cashflow(from, to).net + change
  BY MarkingMoves
<1>8. inclusiveMonthSpan(from, to) = 100 =>
         ComputeBaseline(ledger, pairs, Reader, {}, {[from |-> from, to |-> to]}, 60).variable
            = Cashflow(from, to).expenses
  BY BaselineOfMonth
<1> QED BY <1>0, <1>1, <1>4, <1>5, <1>6, <1>7, <1>8 DEF SameExpenses
-----------------------------------------------------------------------------
(* Months and days                                                         *)

\* The days of the years before one more are more.
LEMMA YearDays ==
    /\ DOMAIN DaysBefore = 1 .. 12
    /\ DaysBefore[1] = 0 /\ DaysBefore[2] = 31 /\ DaysBefore[3] = 59 /\ DaysBefore[4] = 90
    /\ DaysBefore[5] = 120 /\ DaysBefore[6] = 151 /\ DaysBefore[7] = 181 /\ DaysBefore[8] = 212
    /\ DaysBefore[9] = 243 /\ DaysBefore[10] = 273 /\ DaysBefore[11] = 304 /\ DaysBefore[12] = 334
BY DEF DaysBefore

\* A month begins after every month before it ends.
LEMMA DaysGrow ==
    /\ \A i \in 1 .. 12 : DaysBefore[i] \in Int /\ 0 <= DaysBefore[i] /\ DaysBefore[i] <= 334
    /\ \A i, j \in 1 .. 12 : i <= j => DaysBefore[i] <= DaysBefore[j]
    /\ \A i, j \in 1 .. 12 : i < j => DaysBefore[i] < DaysBefore[j]
<1>1. \A i \in 1 .. 12 : i = 1 \/ i = 2 \/ i = 3 \/ i = 4 \/ i = 5 \/ i = 6 \/ i = 7 \/ i = 8
                         \/ i = 9 \/ i = 10 \/ i = 11 \/ i = 12
  OBVIOUS
<1>2. \A i \in 1 .. 12 : DaysBefore[i] \in Int /\ 0 <= DaysBefore[i] /\ DaysBefore[i] <= 334
  BY <1>1, YearDays
<1>3. ASSUME NEW i \in 1 .. 11 PROVE DaysBefore[i] < DaysBefore[i + 1]
  <2>1. i = 1 \/ i = 2 \/ i = 3 \/ i = 4 \/ i = 5 \/ i = 6 \/ i = 7 \/ i = 8
        \/ i = 9 \/ i = 10 \/ i = 11
    OBVIOUS
  <2> QED BY <2>1, YearDays
<1>4. ASSUME NEW i \in 1 .. 12 PROVE \A n \in 0 .. 12 - i : DaysBefore[i] <= DaysBefore[i + n]
                                                            /\ (0 < n => DaysBefore[i] < DaysBefore[i + n])
  <2> DEFINE S == {n \in 0 .. 12 - i : DaysBefore[i] <= DaysBefore[i + n]
                                       /\ (0 < n => DaysBefore[i] < DaysBefore[i + n])}
  <2>1. 0 \in S
    <3>1. i + 0 = i /\ DaysBefore[i] \in Int /\ 0 \in 0 .. 12 - i
      BY <1>2
    <3> QED BY <3>1
  <2>2. ASSUME NEW n \in 1 .. 12 - i, n - 1 \in S PROVE n \in S
    <3>1. i + (n - 1) \in 1 .. 11 /\ (i + (n - 1)) + 1 = i + n /\ i + n \in 1 .. 12
      OBVIOUS
    <3>2. DaysBefore[i + (n - 1)] < DaysBefore[(i + (n - 1)) + 1]
      BY <1>3, <3>1
    <3>3. DaysBefore[i] <= DaysBefore[i + (n - 1)]
      BY <2>2
    <3>4. DaysBefore[i] \in Int /\ DaysBefore[i + n] \in Int /\ DaysBefore[i + (n - 1)] \in Int
      BY <1>2, <3>1
    <3>5. DaysBefore[i] < DaysBefore[i + n]
      BY <3>1, <3>2, <3>3, <3>4
    <3> QED BY <3>4, <3>5
  <2>3. 12 - i \in Nat
    OBVIOUS
  <2>4. \A n \in 0 .. 12 - i : n \in S
    <3> HIDE DEF S
    <3> QED BY <2>1, <2>2, <2>3, Induct
  <2> QED BY <2>4
<1>5. \A i, j \in 1 .. 12 : i <= j => DaysBefore[i] <= DaysBefore[j]
                                      /\ (i < j => DaysBefore[i] < DaysBefore[j])
  <2>1. SUFFICES ASSUME NEW i \in 1 .. 12, NEW j \in 1 .. 12, i <= j
                 PROVE  DaysBefore[i] <= DaysBefore[j] /\ (i < j => DaysBefore[i] < DaysBefore[j])
    OBVIOUS
  <2>2. j - i \in 0 .. 12 - i /\ i + (j - i) = j /\ (i < j => 0 < j - i)
    BY <2>1
  <2> QED BY <1>4, <2>2
<1> QED BY <1>2, <1>5

\* The month of a day begins on it or before, and the next one after it.
LEMMA MonthOfDay ==
    ASSUME NEW d \in Int
    PROVE  /\ MonthOf(d) \in Int /\ (d \in Nat => MonthOf(d) \in Nat)
           /\ MonthStart(MonthOf(d)) <= d /\ d < MonthStart(MonthOf(d) + 1)
<1>1. PICK y, r : y = d \div 365 /\ r = d % 365
  OBVIOUS
<1>2. y \in Int /\ r \in 0 .. 364 /\ d = 365 * y + r /\ (d \in Nat => y \in Nat)
  BY <1>1
<1>3. \E k \in 1 .. 12 : DaysBefore[k] <= r /\ (k < 12 => r < DaysBefore[k + 1])
  <2>1. 0 <= r /\ r <= 364
    BY <1>2
  <2>2. CASE r >= 334
    <3>1. DaysBefore[12] <= r
      BY <2>2, YearDays
    <3> QED BY <3>1
  <2>3. CASE r < 334
    <3>1. DaysBefore[1] <= r /\ r < DaysBefore[12]
      BY <2>1, <2>3, YearDays
    <3> DEFINE Fine == {i \in 0 .. 11 : DaysBefore[i + 1] <= r}
    <3>2. CASE \A i \in 1 .. 11 : i - 1 \in Fine => i \in Fine
      <4>1. 0 \in Fine
        BY <3>1
      <4>2. \A i \in 0 .. 11 : i \in Fine
        <5> HIDE DEF Fine
        <5>1. 11 \in Nat
          OBVIOUS
        <5> QED BY <3>2, <4>1, <5>1, Induct
      <4>3. 11 \in Fine
        BY <4>2
      <4>4. DaysBefore[12] <= r
        BY <4>3
      <4> QED BY <1>2, <3>1, <4>4, YearDays
    <3>3. CASE \E i \in 1 .. 11 : i - 1 \in Fine /\ i \notin Fine
      <4>1. PICK i \in 1 .. 11 : i - 1 \in Fine /\ i \notin Fine
        BY <3>3
      <4>2. DaysBefore[i] <= r /\ ~(DaysBefore[i + 1] <= r)
        BY <4>1
      <4>3. DaysBefore[i + 1] \in Int
        BY DaysGrow
      <4> QED BY <1>2, <4>2, <4>3
    <3> QED BY <3>2, <3>3
  <2> QED BY <1>2, <2>2, <2>3
<1>4. PICK k \in 1 .. 12 : DaysBefore[k] <= r /\ (k < 12 => r < DaysBefore[k + 1])
  BY <1>3
<1>5. {i \in DOMAIN DaysBefore : DaysBefore[i] <= r} = 1 .. k
  <2>1. DOMAIN DaysBefore = 1 .. 12
    BY YearDays
  <2>2. ASSUME NEW i \in 1 .. 12 PROVE DaysBefore[i] <= r <=> i <= k
    <3>1. DaysBefore[i] \in Int /\ DaysBefore[k] \in Int
      BY DaysGrow
    <3>2. CASE i <= k
      <4>1. DaysBefore[i] <= DaysBefore[k]
        BY <3>2, DaysGrow
      <4> QED BY <1>2, <1>4, <3>1, <3>2, <4>1
    <3>3. CASE k < i
      <4>1. k + 1 \in 1 .. 12 /\ k + 1 <= i /\ k < 12
        BY <3>3
      <4>2. DaysBefore[k + 1] <= DaysBefore[i] /\ DaysBefore[k + 1] \in Int
        BY <4>1, DaysGrow
      <4>3. r < DaysBefore[k + 1]
        BY <1>4, <4>1
      <4> QED BY <1>2, <3>1, <3>3, <4>2, <4>3
    <3> QED BY <3>2, <3>3
  <2> QED BY <2>1, <2>2
<1>6. Cardinality(1 .. k) = k
  <2>1. PICK a, b : a = 1 /\ b = k
    OBVIOUS
  <2>2. a \in Int /\ b \in Int /\ a <= b
    BY <2>1
  <2>3. Cardinality(a .. b) = IF a > b THEN 0 ELSE b - a + 1
    BY <2>2, FS_Interval
  <2> QED BY <2>1, <2>2, <2>3
<1>7. MonthOf(d) = 12 * y + k - 1
  BY <1>1, <1>5, <1>6 DEF MonthOf
<1>8. PICK m : m = 12 * y + k - 1
  OBVIOUS
<1>9. m \in Int /\ m \div 12 = y /\ (m % 12) + 1 = k /\ (d \in Nat => m \in Nat)
  BY <1>2, <1>8
<1>10. MonthStart(m) = 365 * y + DaysBefore[k]
  BY <1>9 DEF MonthStart
<1>11. MonthStart(m) <= d
  <2>1. DaysBefore[k] \in Int
    BY DaysGrow
  <2> QED BY <1>2, <1>4, <1>10, <2>1
<1>12. d < MonthStart(m + 1)
  <2>1. CASE k < 12
    <3>1. (m + 1) \div 12 = y /\ ((m + 1) % 12) + 1 = k + 1 /\ k + 1 \in 1 .. 12
      BY <1>2, <1>8, <2>1
    <3>2. MonthStart(m + 1) = 365 * y + DaysBefore[k + 1]
      BY <3>1 DEF MonthStart
    <3>3. DaysBefore[k + 1] \in Int /\ r < DaysBefore[k + 1]
      BY <1>4, <2>1, <3>1, DaysGrow
    <3> QED BY <1>2, <3>2, <3>3
  <2>2. CASE k = 12
    <3>1. (m + 1) \div 12 = y + 1 /\ ((m + 1) % 12) + 1 = 1
      BY <1>2, <1>8, <2>2
    <3>2. MonthStart(m + 1) = 365 * (y + 1) + DaysBefore[1]
      BY <3>1 DEF MonthStart
    <3>3. DaysBefore[1] = 0
      BY YearDays
    <3> QED BY <1>2, <3>2, <3>3
  <2> QED BY <2>1, <2>2
<1> QED BY <1>7, <1>8, <1>9, <1>11, <1>12

\* A later month does not begin earlier.
LEMMA MonthsFollow ==
    ASSUME NEW m \in Int, NEW n \in Int, m <= n
    PROVE  MonthStart(m) \in Int /\ MonthStart(m) <= MonthStart(n)
<1>1. PICK y, i, z, j : y = m \div 12 /\ i = (m % 12) + 1 /\ z = n \div 12 /\ j = (n % 12) + 1
  OBVIOUS
<1>2. /\ y \in Int /\ i \in 1 .. 12 /\ m = 12 * y + i - 1
      /\ z \in Int /\ j \in 1 .. 12 /\ n = 12 * z + j - 1
  BY <1>1
<1>3. MonthStart(m) = 365 * y + DaysBefore[i] /\ MonthStart(n) = 365 * z + DaysBefore[j]
  BY <1>1 DEF MonthStart
<1>4. /\ DaysBefore[i] \in Int /\ 0 <= DaysBefore[i] /\ DaysBefore[i] <= 334
      /\ DaysBefore[j] \in Int /\ 0 <= DaysBefore[j] /\ DaysBefore[j] <= 334
  BY <1>2, DaysGrow
<1>5. y < z \/ (y = z /\ i <= j)
  BY <1>2
<1>6. CASE y < z
  BY <1>2, <1>3, <1>4, <1>6
<1>7. CASE y = z /\ i <= j
  <2>1. DaysBefore[i] <= DaysBefore[j]
    BY <1>2, <1>7, DaysGrow
  <2> QED BY <1>2, <1>3, <1>4, <1>7, <2>1
<1> QED BY <1>5, <1>6, <1>7

\* A month is the days from its first to its last.
LEMMA DaysOfMonth ==
    ASSUME NEW d \in Int, NEW m \in Int
    PROVE  MonthOf(d) = m <=> MonthStart(m) <= d /\ d <= MonthEnd(m)
<1>1. PICK k : k = MonthOf(d)
  OBVIOUS
<1>2. k \in Int /\ MonthStart(k) <= d /\ d < MonthStart(k + 1)
  BY <1>1, MonthOfDay
<1>3. MonthStart(k) \in Int /\ MonthStart(k + 1) \in Int /\ MonthStart(m) \in Int /\ MonthStart(m + 1) \in Int
  BY <1>2, MonthsFollow
<1>4. MonthEnd(m) = MonthStart(m + 1) - 1
  BY DEF MonthEnd
<1>5. CASE m = k
  BY <1>1, <1>2, <1>3, <1>4, <1>5
<1>6. CASE m < k
  <2>1. m + 1 <= k
    BY <1>2, <1>6
  <2>2. MonthStart(m + 1) <= MonthStart(k)
    BY <1>2, <2>1, MonthsFollow
  <2> QED BY <1>1, <1>2, <1>3, <1>4, <1>6, <2>2
<1>7. CASE k < m
  <2>1. k + 1 <= m
    BY <1>2, <1>7
  <2>2. MonthStart(k + 1) <= MonthStart(m)
    BY <1>2, <2>1, MonthsFollow
  <2> QED BY <1>1, <1>2, <1>3, <1>4, <1>7, <2>2
<1> QED BY <1>2, <1>5, <1>6, <1>7
-----------------------------------------------------------------------------
(* The chat, and the reports together                                      *)

\* The fields of the first of two joined records are as they were.
LEMMA JoinedIs ==
    ASSUME NEW r, NEW s, NEW x \in DOMAIN r
    PROVE  Joined(r, s)[x] = r[x]
BY DEF Joined

\* The chat's answer for a month is its cashflow.
LEMMA ChatMonth ==
    ASSUME NEW m \in Nat, NEW field \in {"income", "expenses", "net"}
    PROVE  runMonthCashflow(ledger, pairs, Reader, [month |-> m])[field]
              = Totals(Rows(MonthStart(m), MonthEnd(m)))[field]
<1>1. PICK bounds, rest : /\ bounds = [from |-> MonthStart(m), to |-> MonthEnd(m)]
                          /\ rest = [ok |-> TRUE, link |-> {m}]
  OBVIOUS
<1>2. PICK p : p = Joined(bounds, rest)
  OBVIOUS
<1>3. p.ok /\ p.from = MonthStart(m) /\ p.to = MonthEnd(m)
  BY <1>1, <1>2 DEF Joined
<1>4. parseMonthOrRange([month |-> m]) = p
  <2>1. m # NotGiven /\ m # Malformed
    BY DEF NotGiven, Malformed
  <2> QED BY <1>1, <1>2, <2>1 DEF parseMonthOrRange, calendarMonthBounds
<1>5. PICK evidence : evidence = Cashflow(MonthStart(m), MonthEnd(m))
  OBVIOUS
<1>6. runMonthCashflow(ledger, pairs, Reader, [month |-> m]) = Joined(evidence, p)
  BY <1>3, <1>4, <1>5 DEF runMonthCashflow, Cashflow
<1>7. field \in DOMAIN evidence
  <2>1. PICK report, more : /\ report = GetCashflowV2(ledger, pairs, Reader, MonthStart(m), MonthEnd(m))
                            /\ evidence = Joined(report, more)
    BY <1>5 DEF Cashflow, GetCashflowV2Evidence
  <2>2. field \in DOMAIN report
    BY <2>1 DEF GetCashflowV2, Totals
  <2> QED BY <2>1, <2>2 DEF Joined
<1>8. evidence[field] = Totals(Rows(MonthStart(m), MonthEnd(m)))[field]
  BY <1>5, CashflowIs
<1> QED BY <1>6, <1>7, <1>8, JoinedIs

\* MonthlyCashflow and the chat agree on each month.
LEMMA MonthsHold ==
    ASSUME Fit(ledger)
    PROVE  MonthsAgree
<1>1. PICK rows : rows = MonthlyCashflow(ledger, pairs, Reader, 0)
  OBVIOUS
<1>2. PICK days, latest : /\ days = {t.day : t \in {u \in ledger : u.household = Reader}}
                          /\ latest = {d \in days : \A e \in days : e <= d}
  OBVIOUS
<1>3. latest = GetLatestBookingDate(ledger, Reader)
  BY <1>2 DEF GetLatestBookingDate
<1>4. CASE latest = {}
  <2>1. rows = <<>>
    BY <1>1, <1>3, <1>4 DEF MonthlyCashflow
  <2>2. DOMAIN rows = {}
    BY <2>1
  <2> QED BY <1>1, <2>2 DEF MonthsAgree
<1>5. CASE latest # {}
  <2>1. PICK day : day = CHOOSE d \in latest : TRUE
    OBVIOUS
  <2>2. day \in latest
    BY <1>5, <2>1
  <2>3. day \in Nat /\ \A t \in ledger : t.household = Reader => t.day <= day
    <3>1. \A t \in ledger : t.day \in Nat
      BY DEF Fit
    <3> QED BY <1>2, <2>2, <3>1
  <2>4. PICK first : first = MonthStart(MonthOf(day) - 6 + 1)
    OBVIOUS
  <2>5. rows = ListMonthlyCashflowV2(ledger, pairs, Reader, first, day)
    BY <1>1, <1>3, <1>5, <2>1, <2>4 DEF MonthlyCashflow
  <2>6. PICK S : S = Rows(first, day)
    OBVIOUS
  <2>7. rows = [m \in {MonthOf(t.day) : t \in S} |-> Totals({t \in S : MonthOf(t.day) = m})]
    BY <2>5, <2>6 DEF ListMonthlyCashflowV2, Rows, Mine
  <2>8. ASSUME NEW m \in DOMAIN rows, NEW field \in {"income", "expenses", "net"}
        PROVE  rows[m][field] = runMonthCashflow(ledger, pairs, Reader, [month |-> m])[field]
    <3>1. PICK u \in S : m = MonthOf(u.day)
      BY <2>7, <2>8
    <3>2. \A t \in ledger : t.day \in Nat
      BY DEF Fit
    <3>3. u \in ledger /\ u.day \in Nat /\ first <= u.day
      BY <2>6, <3>2 DEF Rows, Mine, InPeriod
    <3>4. m \in Nat
      BY <3>1, <3>3, MonthOfDay
    <3>5. MonthOf(day) \in Nat
      BY <2>3, MonthOfDay
    <3>6. MonthOf(day) - 6 + 1 <= m
      <4>1. PICK k : k = MonthOf(day) - 6 + 1
        OBVIOUS
      <4>2. k \in Int /\ first = MonthStart(k)
        BY <2>4, <3>5, <4>1
      <4>3. CASE m < k
        <5>1. m + 1 <= k /\ m + 1 \in Int
          BY <3>4, <4>2, <4>3
        <5>2. MonthStart(m + 1) <= MonthStart(k) /\ MonthStart(m + 1) \in Int
          BY <4>2, <5>1, MonthsFollow
        <5>3. u.day < MonthStart(m + 1)
          BY <3>1, <3>3, MonthOfDay
        <5>4. MonthStart(k) \in Int
          BY <4>2, MonthsFollow
        <5> QED BY <3>3, <4>2, <5>2, <5>3, <5>4
      <4> QED BY <3>4, <4>1, <4>2, <4>3
    <3>7. first \in Int /\ MonthStart(m) \in Int /\ first <= MonthStart(m)
      <4>1. PICK k : k = MonthOf(day) - 6 + 1
        OBVIOUS
      <4>2. k \in Int /\ k <= m /\ m \in Int /\ first = MonthStart(k)
        BY <2>4, <3>4, <3>5, <3>6, <4>1
      <4>3. MonthStart(k) \in Int /\ MonthStart(k) <= MonthStart(m) /\ MonthStart(m) \in Int
        BY <4>2, MonthsFollow
      <4> QED BY <4>2, <4>3
    <3>8. \A t \in ledger : MonthOf(t.day) = m <=> MonthStart(m) <= t.day /\ t.day <= MonthEnd(m)
      BY <3>2, <3>4, DaysOfMonth
    <3>9. {t \in S : MonthOf(t.day) = m} = Rows(MonthStart(m), MonthEnd(m))
      <4>1. ASSUME NEW t \in ledger
            PROVE  t \in S /\ MonthOf(t.day) = m <=> t \in Rows(MonthStart(m), MonthEnd(m))
        <5>1. t \in S <=> /\ t.household = Reader /\ first <= t.day /\ t.day <= day
                          /\ ~t.oneOff /\ ~IsTransfer(t, pairs, Reader)
          BY <2>6 DEF Rows, Mine, InPeriod
        <5>2. t \in Rows(MonthStart(m), MonthEnd(m))
                <=> /\ t.household = Reader /\ MonthStart(m) <= t.day /\ t.day <= MonthEnd(m)
                    /\ ~t.oneOff /\ ~IsTransfer(t, pairs, Reader)
          BY DEF Rows, Mine, InPeriod
        <5>3. MonthStart(m) <= t.day => first <= t.day
          BY <3>2, <3>7
        <5> QED BY <2>3, <3>8, <5>1, <5>2, <5>3
      <4>2. S \in SUBSET ledger /\ Rows(MonthStart(m), MonthEnd(m)) \in SUBSET ledger
        BY <2>6 DEF Rows, Mine, InPeriod
      <4> QED BY <4>1, <4>2
    <3>10. rows[m] = Totals(Rows(MonthStart(m), MonthEnd(m)))
      BY <2>7, <2>8, <3>9
    <3> QED BY <3>4, <3>10, ChatMonth
  <2> QED BY <1>1, <2>8 DEF MonthsAgree
<1> QED BY <1>4, <1>5

\* What may be booked: only such bookings, each number once.
BooksInv == ledger \subseteq Entries /\ Fit(ledger)

\* BooksInv holds at first.
LEMMA BooksInitInv == BooksInit => BooksInv
BY FS_EmptySet DEF BooksInit, BooksInv, Fit

\* A booking or a pair more leaves BooksInv true.
LEMMA BooksStepInv == BooksInv /\ [BooksNext]_books => BooksInv'
<1> SUFFICES ASSUME BooksInv, [BooksNext]_books PROVE BooksInv'
  OBVIOUS
<1>1. CASE AddBooking
  <2>1. PICK t \in Entries : (\A u \in ledger : u.id # t.id) /\ ledger' = ledger \cup {t}
    BY <1>1 DEF AddBooking
  <2>2. IsFiniteSet(ledger')
    BY <2>1, FS_AddElement DEF BooksInv, Fit
  <2>3. \A u \in ledger' :
          u \in [id : Nat, household : Nat, day : Nat, amount : Int, oneOff : BOOLEAN,
                 counterparty : Nat, category : Nat, account : {u.account}]
    BY <2>1, BookingAssumption DEF BooksInv, Fit
  <2>4. \A u, v \in ledger' : u.id = v.id => u = v
    BY <2>1 DEF BooksInv, Fit
  <2> QED BY <2>1, <2>2, <2>3, <2>4 DEF BooksInv, Fit
<1>2. CASE AddPair
  BY <1>2 DEF AddPair, BooksInv, Fit
<1>3. CASE UNCHANGED books
  BY <1>3 DEF books, BooksInv, Fit
<1> QED BY <1>1, <1>2, <1>3 DEF BooksNext

\* Whatever bookings are added (importing them gives each an id of its own), they
\* stay fit to be added up.
THEOREM BooksInvariance == BooksSpec => []BooksInv
BY BooksInitInv, BooksStepInv, PTL DEF BooksSpec

-----------------------------------------------------------------------------
(* Pages of a listing                                                      *)

\* A place on a page of so many rows, and the page and the place on it of a row.
LEMMA PlaceOnPage ==
    ASSUME NEW size \in Nat \ {0}, NEW n \in Nat
    PROVE  \E k \in 0 .. n, r \in 0 .. size - 1 : n = size * k + r
<1> DEFINE S == {i \in 0 .. n : \E k \in 0 .. i, r \in 0 .. size - 1 : i = size * k + r}
<1>1. 0 \in S
  <2>1. 0 = size * 0 + 0 /\ 0 \in 0 .. size - 1 /\ 0 \in 0 .. 0 /\ 0 \in 0 .. n
    OBVIOUS
  <2> QED BY <2>1
<1>2. ASSUME NEW i \in 1 .. n, i - 1 \in S PROVE i \in S
  <2>1. PICK k \in 0 .. i - 1, r \in 0 .. size - 1 : i - 1 = size * k + r
    BY <1>2
  <2>2. CASE r = size - 1
    <3>1. k + 1 \in 0 .. i /\ size * (k + 1) = size * k + size
      BY <2>1
    <3>2. i = size * (k + 1) + 0 /\ 0 \in 0 .. size - 1
      BY <2>1, <2>2, <3>1
    <3> QED BY <3>1, <3>2
  <2>3. CASE r # size - 1
    <3>1. r + 1 \in 0 .. size - 1 /\ k \in 0 .. i
      BY <2>3
    <3>2. i = size * k + (r + 1)
      BY <2>1
    <3> QED BY <3>1, <3>2
  <2> QED BY <2>2, <2>3
<1>3. \A i \in 0 .. n : i \in S
  <2> HIDE DEF S
  <2> QED BY <1>1, <1>2, Induct
<1>4. n \in S
  BY <1>3
<1> QED BY <1>4

\* No two places on pages are that of the same row.
LEMMA PagesApart ==
    ASSUME NEW size \in Nat \ {0}, NEW k \in Nat, NEW l \in Nat, NEW i \in 1 .. size, NEW j \in 1 .. size,
           size * k + i = size * l + j
    PROVE  k = l /\ i = j
<1>1. \A a, b \in Nat : a < b => size * a + size <= size * b
  <2>1. SUFFICES ASSUME NEW a \in Nat, NEW b \in Nat, a < b PROVE size * a + size <= size * b
    OBVIOUS
  <2>2. PICK d \in Nat : b = a + 1 + d
    <3>1. b - a - 1 \in Nat /\ b = a + 1 + (b - a - 1)
      BY <2>1
    <3> QED BY <3>1
  <2>3. size * b = size * a + size + size * d
    BY <2>2
  <2>4. size * d \in Nat /\ size * a \in Nat
    OBVIOUS
  <2> QED BY <2>3, <2>4
<1>2. size * k \in Nat /\ size * l \in Nat
  OBVIOUS
<1>3. ~(k < l)
  BY <1>1, <1>2
<1>4. ~(l < k)
  BY <1>1, <1>2
<1>5. k = l
  BY <1>3, <1>4
<1> QED BY <1>2, <1>5

\* Bookings with the largest amount first.
ByAmount(S) == {e \in S \X S : e[1] # e[2] /\ e[1].amount > e[2].amount}

\* Bookings can be listed in this order.
LEMMA AmountsOrder ==
    ASSUME NEW S, Booked(S)
    PROVE  HasFirsts(S, ByAmount(S))
<1>1. IsFiniteSet(S) /\ \A t \in S : t.amount \in Int
  BY DEF Booked
<1>2. \A x, y \in S : <<x, y>> \in ByAmount(S) <=> x # y /\ x.amount > y.amount
  BY DEF ByAmount
<1>3. \A x \in S : <<x, x>> \notin ByAmount(S)
  BY <1>2
<1>4. \A x, y, z \in S : <<x, y>> \in ByAmount(S) /\ <<y, z>> \in ByAmount(S) => <<x, z>> \in ByAmount(S)
  BY <1>1, <1>2
<1> QED BY <1>1, <1>3, <1>4, OrderHasFirsts

\* Amounts all different and within what a listing may be asked for.
Distinct(S) == \A t, u \in S : Magnitude(t.amount) <= 1000000 /\ (t.amount = u.amount => t = u)

LEMMA FilteredAre ==
    ASSUME Fit(ledger), NEW from, NEW to, Distinct(Mine(from, to)),
           NEW f, f = Everything(from, to)
    PROVE  {t \in InPeriod(ledger, Reader, f.from, f.to) :
               t.counterparty \in f.matching /\ f.least <= t.amount /\ t.amount <= f.most} = Mine(from, to)
<1>1. f.from = from /\ f.to = to /\ f.matching = Nat /\ f.least = -1000000 /\ f.most = 1000000
  BY DEF Everything
<1>2. \A t \in Mine(from, to) : t.counterparty \in Nat /\ t.amount \in Int
  BY MineFit DEF Fit
<1>3. \A t \in Mine(from, to) : -1000000 <= t.amount /\ t.amount <= 1000000
  BY <1>2 DEF Distinct, Magnitude
<1>4. Mine(from, to) = InPeriod(ledger, Reader, from, to)
  BY DEF Mine
<1> QED BY <1>1, <1>2, <1>3, <1>4

\* The rows of a list from one on, no more than fit on a page.
Stretch(part, all, a) == part = SubSeq(all, a + 1, Min({a + PageLength, Len(all)}))

\* What a page is: a stretch of the list by amount, whatever the order of equals.
LEMMA PageIs ==
    ASSUME Fit(ledger), PageLength \in 1 .. MaxListLimit, NEW from, NEW to, Distinct(Mine(from, to)), NEW k \in Nat,
           NEW S, S = Mine(from, to), NEW all, all = Ranked(S, ByAmount(S))
    PROVE  /\ Page(from, to, k).total = Cardinality(S)
           /\ Stretch(Page(from, to, k).transactions, all, PageLength * k)
<1>1. PICK request : request = [filter |-> Everything(from, to), sort |-> "amount", asc |-> FALSE, limit |-> PageLength,
                                offset |-> IF k = 0 THEN NotGiven ELSE PageLength * k]
  OBVIOUS
<1>2. PICK p : p = toListParams(request)
  OBVIOUS
<1>3. PageLength \in Nat /\ PageLength > 0 /\ PageLength <= 200 /\ PageLength * k \in Nat
  BY DEF MaxListLimit
<1>4. /\ p.filter = Everything(from, to) /\ p.sort = "amount" /\ p.asc = FALSE
      /\ p.limit = PageLength /\ p.offset = PageLength * k
  BY <1>1, <1>2, <1>3 DEF toListParams, NotGiven
<1>5. ValidListing(p) /\ request.limit # 0 /\ ~(p.limit <= 0)
  BY <1>1, <1>3, <1>4 DEF ValidListing, MaxListLimit, Everything
<1>6. PICK list, rest :
        /\ list = List(ledger, Reader, Everything(from, to), "amount", FALSE, Ties[k], PageLength, PageLength * k)
        /\ Page(from, to, k) = Joined(list, rest)
  BY <1>1, <1>2, <1>4, <1>5 DEF Page, GetTransactions
<1>7. PICK f : f = Everything(from, to)
  OBVIOUS
<1>8. S = {t \in InPeriod(ledger, Reader, f.from, f.to) :
              t.counterparty \in f.matching /\ f.least <= t.amount /\ t.amount <= f.most}
  BY <1>7, FilteredAre
<1>9. list.total = Cardinality(S)
  BY <1>6, <1>7, <1>8 DEF List, CountTransactionsFiltered
<1>10. {e \in S \X S : e[1] # e[2] /\ (IF e[1]["amount"] = e[2]["amount"] THEN Ties[k][e[1].id] < Ties[k][e[2].id]
                                        ELSE IF FALSE THEN e[1]["amount"] < e[2]["amount"]
                                        ELSE e[1]["amount"] > e[2]["amount"])} = ByAmount(S)
  <2>1. \A x, y \in S : x # y => x.amount # y.amount
    BY DEF Distinct
  <2> QED BY <2>1 DEF ByAmount
<1>11. list.transactions = SubSeq(all, PageLength * k + 1, Min({PageLength * k + PageLength, Len(all)}))
  BY <1>6, <1>7, <1>8, <1>10 DEF List, ListTransactions, Sorted
<1>12. DOMAIN list = {"total", "transactions"}
  BY <1>6 DEF List
<1>13. PICK page : page = Page(from, to, k)
  OBVIOUS
<1>14. page = [x \in (DOMAIN list) \cup (DOMAIN rest) |-> IF x \in DOMAIN list THEN list[x] ELSE rest[x]]
  BY <1>6, <1>13 DEF Joined
<1>15. "total" \in DOMAIN list /\ "transactions" \in DOMAIN list
  BY <1>12
<1>16. page.total = list.total /\ page.transactions = list.transactions
  BY <1>14, <1>15
<1> QED BY <1>9, <1>11, <1>13, <1>16 DEF Stretch

\* A place on a page and the row of the list that it shows, if any.
Placed(part, i, all, n) == /\ i \in DOMAIN part <=> n <= Len(all)
                           /\ i \in DOMAIN part => part[i] = all[n]

\* A stretch of a list.
LEMMA StretchOf ==
    ASSUME NEW S, NEW all \in Seq(S), NEW a \in Nat, NEW size \in Nat, size = PageLength,
           NEW part, Stretch(part, all, a)
    PROVE  /\ \A i \in 1 .. size : Placed(part, i, all, a + i)
           /\ Len(part) <= size
<1>1. PICK n : n = Min({a + size, Len(all)})
  OBVIOUS
<1>2. n \in Int /\ n <= a + size /\ n <= Len(all) /\ (n = a + size \/ n = Len(all)) /\ Len(all) \in Nat
  <2>1. PICK b, l : b = a + size /\ l = Len(all)
    OBVIOUS
  <2>2. b \in Int /\ l \in Int /\ l \in Nat
    BY <2>1
  <2>3. Min({b, l}) = IF b <= l THEN b ELSE l
    BY <2>2, LesserOf
  <2> QED BY <1>1, <2>1, <2>2, <2>3
<1>3. part = [i \in 1 .. (1 + n) - (a + 1) |-> all[((a + 1) + i) - 1]]
  BY <1>1, <1>2 DEF Stretch
<1>4. (1 + n) - (a + 1) = n - a
  BY <1>2
<1>5. DOMAIN part = 1 .. (n - a)
  <2>1. DOMAIN part = 1 .. (1 + n) - (a + 1)
    BY <1>3
  <2> QED BY <1>4, <2>1
<1>6. ASSUME NEW i \in 1 .. size PROVE i \in 1 .. (n - a) <=> a + i <= Len(all)
  BY <1>2
<1>7. ASSUME NEW i \in 1 .. size, i \in DOMAIN part PROVE part[i] = all[a + i]
  <2>1. ((a + 1) + i) - 1 = a + i
    OBVIOUS
  <2>2. i \in 1 .. (1 + n) - (a + 1)
    BY <1>4, <1>5, <1>7
  <2>3. part[i] = all[((a + 1) + i) - 1]
    BY <1>3, <2>2
  <2> QED BY <2>1, <2>3
<1>8. Len(part) <= size
  <2>1. PICK m : m = IF n - a \in Nat THEN n - a ELSE 0
    OBVIOUS
  <2>2. m \in Nat /\ 1 .. (n - a) = 1 .. m /\ m <= size
    BY <1>2, <2>1
  <2>3. DOMAIN part = 1 .. m
    BY <1>5, <2>2
  <2>4. \A i \in 1 .. m : part[i] \in S
    <3>1. SUFFICES ASSUME NEW i \in 1 .. m PROVE part[i] \in S
      OBVIOUS
    <3>2. ((a + 1) + i) - 1 = a + i /\ a + i \in 1 .. Len(all) /\ i \in 1 .. (n - a)
      BY <1>2, <2>2, <3>1
    <3>3. part[i] = all[a + i]
      BY <1>3, <1>4, <3>2
    <3> QED BY <3>2, <3>3
  <2>5. part = [i \in 1 .. m |-> part[i]]
    BY <1>3, <2>3
  <2>6. Len([i \in 1 .. m |-> part[i]]) = m
    BY <2>2
  <2>7. Len(part) = m
    BY <2>5, <2>6
  <2> QED BY <2>2, <2>7
<1> QED BY <1>5, <1>6, <1>7, <1>8 DEF Placed
-----------------------------------------------------------------------------
(* Listings                                                                *)

\* Rows that are those of a list, so many on a page; the places that have one.
Shows(rows, all, size) ==
    \A k \in 0 .. Len(all), i \in 1 .. size : Placed(rows[k], i, all, size * k + i)
PlacesOn(rows, N, size) == {at \in (0 .. N) \X (1 .. size) : at[2] \in DOMAIN rows[at[1]]}

\* Each member of a set at one place.
RowsCover(rows, Places, S) ==
    /\ {rows[at[1]][at[2]] : at \in Places} = S
    /\ \A a, b \in Places : rows[a[1]][a[2]] = rows[b[1]][b[2]] => a = b

\* The rows of the pages are those of the list.
LEMMA RowsOfPages ==
    ASSUME NEW S, NEW order, NEW all, Lists(all, S, order), NEW size \in Nat \ {0},
           NEW N \in Nat, N = Len(all), NEW rows,
           Shows(rows, all, size), NEW Places, Places = PlacesOn(rows, N, size)
    PROVE  RowsCover(rows, Places, S)
<1>1. \A i \in 1 .. N : all[i] \in S
  BY DEF Lists
<1>2. ASSUME NEW at \in Places
      PROVE  /\ at = <<at[1], at[2]>> /\ at[1] \in 0 .. N /\ at[2] \in 1 .. size
             /\ size * at[1] + at[2] \in 1 .. N
             /\ rows[at[1]][at[2]] = all[size * at[1] + at[2]]
  <2>1. at \in (0 .. N) \X (1 .. size) /\ at[2] \in DOMAIN rows[at[1]]
    BY DEF PlacesOn
  <2>2. PICK k \in 0 .. N, i \in 1 .. size : at = <<k, i>>
    BY <2>1
  <2>3. i \in DOMAIN rows[k]
    BY <2>1, <2>2
  <2>4. size * k + i <= N /\ rows[k][i] = all[size * k + i]
    BY <2>3 DEF Shows, Placed
  <2>5. size * k + i \in 1 .. N
    <3>1. PICK m : m = size * k
      OBVIOUS
    <3>2. size * k \in Nat
      OBVIOUS
    <3>3. m \in Nat /\ m + i <= N
      BY <2>4, <3>1, <3>2
    <3>4. m + i \in 1 .. N
      BY <3>3
    <3> QED BY <3>1, <3>4
  <2> QED BY <2>2, <2>4, <2>5
<1>3. ASSUME NEW x \in S PROVE \E at \in Places : rows[at[1]][at[2]] = x
  <2>1. PICK n \in 1 .. N : all[n] = x
    BY DEF Lists
  <2>2. PICK k \in 0 .. n - 1, r \in 0 .. size - 1 : n - 1 = size * k + r
    <3>1. n - 1 \in Nat
      OBVIOUS
    <3> QED BY <3>1, PlaceOnPage
  <2>3. PICK i : i = r + 1
    OBVIOUS
  <2>4. k \in 0 .. N /\ i \in 1 .. size
    BY <2>2, <2>3
  <2>5. size * k \in Nat /\ n = size * k + i
    BY <2>2, <2>3, <2>4
  <2>6. i \in DOMAIN rows[k] /\ rows[k][i] = all[size * k + i]
    BY <2>4, <2>5 DEF Shows, Placed
  <2>7. <<k, i>> \in Places
    BY <2>4, <2>6 DEF PlacesOn
  <2> QED BY <2>1, <2>5, <2>6, <2>7
<1>4. ASSUME NEW a \in Places, NEW b \in Places, rows[a[1]][a[2]] = rows[b[1]][b[2]] PROVE a = b
  <2>1. PICK m, n : m = size * a[1] + a[2] /\ n = size * b[1] + b[2]
    OBVIOUS
  <2>2. m \in 1 .. N /\ n \in 1 .. N /\ all[m] = all[n]
    BY <1>2, <1>4, <2>1
  <2>3. ~(m < n) /\ ~(n < m)
    BY <2>2 DEF Lists
  <2>4. m = n
    BY <2>2, <2>3
  <2>5. PICK k, l, i, j : k = a[1] /\ l = b[1] /\ i = a[2] /\ j = b[2]
    OBVIOUS
  <2>6. k = l /\ i = j
    <3>1. k \in Nat /\ l \in Nat /\ i \in 1 .. size /\ j \in 1 .. size /\ size * k + i = size * l + j
      BY <1>2, <2>1, <2>4, <2>5
    <3> QED BY <3>1, PagesApart
  <2>7. a = <<a[1], a[2]>> /\ b = <<b[1], b[2]>>
    BY <1>2
  <2> QED BY <2>5, <2>6, <2>7
<1>5. {rows[at[1]][at[2]] : at \in Places} = S
  <2>1. \A at \in Places : rows[at[1]][at[2]] \in S
    BY <1>1, <1>2
  <2>2. PICK row : row = [at \in Places |-> rows[at[1]][at[2]]]
    OBVIOUS
  <2>3. (\A at \in Places : row[at] \in S) /\ \A x \in S : \E at \in Places : row[at] = x
    BY <1>3, <2>1, <2>2
  <2>4. {row[at] : at \in Places} = S
    BY <2>3
  <2> QED BY <2>2, <2>4
<1> QED BY <1>4, <1>5 DEF RowsCover

\* GetTransactions gives every booking on one page and on one only.
LEMMA ListingsHold ==
    ASSUME Fit(ledger), PageLength \in 1 .. MaxListLimit
    PROVE  ListingsCover
<1>1. ASSUME NEW from, NEW to, Distinct(Mine(from, to)), NEW pages,
             pages = [k \in 0 .. Cardinality(Mine(from, to)) |-> Page(from, to, k)]
      PROVE  PagesCover(pages, Mine(from, to))
  <2>1. PICK S, order, all : S = Mine(from, to) /\ order = ByAmount(S) /\ all = Ranked(S, order)
    OBVIOUS
  <2>2. Booked(S) /\ IsFiniteSet(S)
    BY <2>1, MineFit DEF Booked
  <2>3. Lists(all, S, order)
    BY <2>1, <2>2, AmountsOrder, RankedLists
  <2>4. PICK N : N = Cardinality(S)
    OBVIOUS
  <2>5. N = Len(all) /\ N \in Nat /\ all \in Seq(S)
    BY <2>3, <2>4 DEF Lists
  <2>6. PICK size : size = PageLength
    OBVIOUS
  <2>7. size \in Nat \ {0}
    BY <2>6 DEF MaxListLimit
  <2>8. pages = [k \in 0 .. N |-> Page(from, to, k)]
    BY <1>1, <2>1, <2>4
  <2>9. ASSUME NEW k \in 0 .. N
        PROVE  /\ pages[k].total = N
               /\ Stretch(pages[k].transactions, all, size * k)
    <3>1. k \in Nat /\ pages[k] = Page(from, to, k)
      BY <2>5, <2>8
    <3>2. all = Ranked(S, ByAmount(S))
      BY <2>1
    <3>3. /\ Page(from, to, k).total = Cardinality(S)
          /\ Stretch(Page(from, to, k).transactions, all, PageLength * k)
      BY <1>1, <2>1, <3>1, <3>2, PageIs
    <3> QED BY <2>4, <2>6, <3>1, <3>3
  <2>10. PICK rows : rows = [k \in 0 .. N |-> pages[k].transactions]
    OBVIOUS
  <2>11. Shows(rows, all, size)
    <3>1. ASSUME NEW k \in 0 .. N
          PROVE  \A i \in 1 .. size : Placed(rows[k], i, all, size * k + i)
      <4>1. PICK a, part : a = size * k /\ part = rows[k]
        OBVIOUS
      <4>2. a \in Nat /\ size \in Nat
        BY <2>5, <2>7, <4>1
      <4>3. Stretch(part, all, a)
        BY <2>9, <2>10, <4>1
      <4>4. \A i \in 1 .. size : Placed(part, i, all, a + i)
        BY <2>5, <2>6, <4>2, <4>3, StretchOf
      <4> QED BY <4>1, <4>4
    <3> QED BY <2>5, <3>1 DEF Shows
  <2>12. PICK Places : Places = PlacesOn(rows, N, size)
    OBVIOUS
  <2>13. /\ {rows[at[1]][at[2]] : at \in Places} = S
         /\ \A a, b \in Places : rows[a[1]][a[2]] = rows[b[1]][b[2]] => a = b
    <3>1. RowsCover(rows, Places, S)
      BY <2>3, <2>5, <2>7, <2>11, <2>12, RowsOfPages
    <3> QED BY <3>1 DEF RowsCover
  <2>14. DOMAIN pages = 0 .. N
    BY <2>8
  <2>15. \A at \in (0 .. N) \X (1 .. size) : rows[at[1]] = pages[at[1]].transactions
    BY <2>10
  <2>16. Places = {at \in (DOMAIN pages) \X (1 .. PageLength) : at[2] \in DOMAIN pages[at[1]].transactions}
    BY <2>6, <2>12, <2>14, <2>15 DEF PlacesOn
  <2>17. \A at \in Places : rows[at[1]][at[2]] = pages[at[1]].transactions[at[2]]
    BY <2>12, <2>15 DEF PlacesOn
  <2>18. {pages[at[1]].transactions[at[2]] : at \in Places} = S
    BY <2>13, <2>17
  <2>19. \A a, b \in Places : pages[a[1]].transactions[a[2]] = pages[b[1]].transactions[b[2]] => a = b
    BY <2>13, <2>17
  <2>20. \A k \in DOMAIN pages : pages[k].total = Cardinality(S)
    BY <2>4, <2>9, <2>14
  <2>21. ASSUME NEW k \in DOMAIN pages PROVE Len(pages[k].transactions) <= PageLength
    <3>1. PICK a, part : a = size * k /\ part = pages[k].transactions
      OBVIOUS
    <3>2. k \in 0 .. N /\ k \in Nat /\ size \in Nat
      BY <2>5, <2>7, <2>14
    <3>3. a \in Nat /\ Stretch(part, all, a)
      BY <2>9, <3>1, <3>2
    <3>4. Len(part) <= size
      BY <2>5, <2>6, <3>2, <3>3, StretchOf
    <3> QED BY <2>6, <3>1, <3>4
  <2>22. \A k \in DOMAIN pages : /\ Len(pages[k].transactions) <= PageLength
                                 /\ pages[k].total = Cardinality(S)
    BY <2>20, <2>21
  <2>23. PagesCover(pages, S)
    BY <2>16, <2>18, <2>19, <2>22 DEF PagesCover
  <2> QED BY <2>1, <2>23
<1>2. ASSUME NEW from, NEW to, Distinct(Mine(from, to))
      PROVE  PagesCover([k \in 0 .. Cardinality(Mine(from, to)) |-> Page(from, to, k)], Mine(from, to))
  BY <1>1, <1>2
<1> QED BY <1>2 DEF ListingsCover, Distinct

\* ReportsAgree: whatever the bookings and the transfer pairs of a household are,
\* the queries of reports.sql, each with its own copy of the conditions on
\* one-offs, transfers and categories, add up to each other for every period, and
\* the pages of GET /transactions, each a query that may order equals anew, hold
\* every booking once as long as no two are equal in what they are sorted by.
THEOREM ReportsAddUp == BooksSpec => []ReportsAgree
<1>1. BooksInv => ReportsAgree
  <2> SUFFICES ASSUME BooksInv PROVE ReportsAgree
    OBVIOUS
  <2>1. Fit(ledger)
    BY DEF BooksInv
  <2>2. ASSUME NEW from \in ReportDays, NEW to \in ReportDays, from <= to
        PROVE  CashflowAddsUp(from, to) /\ SpendingAddsUp(from, to) /\ SameExpenses(from, to)
    <3>1. from \in Nat /\ from \in Int /\ to \in Int /\ EvidenceLimit \in Nat
      BY BookingAssumption
    <3> QED BY <2>1, <2>2, <3>1, CashflowHolds, SpendingHolds, ExpensesHold
  <2>3. MonthsAgree
    BY <2>1, MonthsHold
  <2>4. ListingsCover
    BY <2>1, BookingAssumption, ListingsHold
  <2> QED BY <2>2, <2>3, <2>4 DEF ReportsAgree
<1> QED BY <1>1, BooksInvariance, PTL
-----------------------------------------------------------------------------
(* Quotients that are rounded                                              *)

\* What is divided is the quotient times the divisor, and the rest.
LEMMA Quotient ==
    ASSUME NEW x \in Int, NEW z \in Nat \ {0}
    PROVE  /\ x \div z \in Int /\ z * (x \div z) <= x /\ x < z * (x \div z) + z
           /\ x >= 0 => x \div z >= 0
<1>1. z \in Int /\ z > 0
  OBVIOUS
<1>2. x \div z \in Int /\ x % z \in 0 .. z - 1 /\ x = z * (x \div z) + (x % z)
  BY <1>1
<1>3. PICK q, r, p : q = x \div z /\ r = x % z /\ p = z * q
  OBVIOUS
<1>4. q \in Int /\ p \in Int /\ r \in Int /\ 0 <= r /\ r < z /\ x = p + r
  BY <1>1, <1>2, <1>3
<1>5. ASSUME x >= 0, q < 0 PROVE FALSE
  <2>1. q <= -1
    BY <1>4, <1>5
  <2>2. z * q <= z * (-1)
    BY <1>1, <1>4, <2>1
  <2> QED BY <1>1, <1>3, <1>4, <1>5, <2>2
<1> QED BY <1>1, <1>3, <1>4, <1>5

\* A rounded quotient is off by half at most.
LEMMA Rounding ==
    ASSUME NEW a \in Int, NEW b \in Nat \ {0}
    PROVE  /\ RoundDiv(a, b) \in Int
           /\ 2 * (b * RoundDiv(a, b)) <= 2 * a + b /\ 2 * a <= 2 * (b * RoundDiv(a, b)) + b
           /\ a >= 0 => RoundDiv(a, b) >= 0
<1>1. PICK m, x, z : m = Magnitude(a) /\ x = 2 * m + b /\ z = 2 * b
  OBVIOUS
<1>2. m \in Nat /\ x \in Int /\ x >= 0 /\ z \in Nat \ {0} /\ b \in Int /\ b > 0
  BY <1>1 DEF Magnitude
<1>3. PICK up : up = x \div z
  OBVIOUS
<1>4. up \in Int /\ up >= 0 /\ z * up <= x /\ x < z * up + z
  BY <1>2, <1>3, Quotient
<1>5. PICK p : p = b * up
  OBVIOUS
<1>6. p \in Int /\ z * up = 2 * p
  BY <1>1, <1>2, <1>4, <1>5
<1>7. 2 * p <= 2 * m + b /\ 2 * m < 2 * p + b
  BY <1>1, <1>2, <1>4, <1>6
<1>8. RoundDiv(a, b) = IF a < 0 THEN -up ELSE up
  BY <1>1, <1>3 DEF RoundDiv
<1>9. CASE a < 0
  <2>1. m = -a /\ RoundDiv(a, b) = -up /\ b * (-up) = -p
    BY <1>1, <1>2, <1>4, <1>5, <1>8, <1>9 DEF Magnitude
  <2> QED BY <1>2, <1>4, <1>6, <1>7, <1>9, <2>1
<1>10. CASE ~(a < 0)
  <2>1. m = a /\ RoundDiv(a, b) = up
    BY <1>1, <1>8, <1>10 DEF Magnitude
  <2> QED BY <1>2, <1>4, <1>5, <1>6, <1>7, <2>1
<1> QED BY <1>9, <1>10
-----------------------------------------------------------------------------
(* Sums of terms that are near                                             *)

\* Sums whose terms are near each other are near each other.
LEMMA SumNear ==
    ASSUME NEW S, IsFiniteSet(S), NEW f, NEW h, NEW c \in Nat, \A x \in S : f[x] \in Int /\ h[x] \in Int,
           \A x \in S : h[x] - c <= f[x] /\ f[x] <= h[x] + c
    PROVE  /\ SumFunctionOnSet(f, S) \in Int /\ SumFunctionOnSet(h, S) \in Int /\ Cardinality(S) \in Nat
           /\ SumFunctionOnSet(h, S) - c * Cardinality(S) <= SumFunctionOnSet(f, S)
           /\ SumFunctionOnSet(f, S) <= SumFunctionOnSet(h, S) + c * Cardinality(S)
<1> DEFINE P == {T \in SUBSET S :
        /\ SumFunctionOnSet(f, T) \in Int /\ SumFunctionOnSet(h, T) \in Int /\ Cardinality(T) \in Nat
        /\ SumFunctionOnSet(h, T) - c * Cardinality(T) <= SumFunctionOnSet(f, T)
        /\ SumFunctionOnSet(f, T) <= SumFunctionOnSet(h, T) + c * Cardinality(T)}
<1>1. {} \in P
  <2>1. IsFiniteSet({}) /\ Cardinality({}) = 0
    BY FS_EmptySet
  <2>2. SumFunctionOnSet(f, {}) = 0 /\ SumFunctionOnSet(h, {}) = 0
    BY <2>1, SumTyped
  <2>3. c * 0 = 0
    OBVIOUS
  <2> QED BY <2>1, <2>2, <2>3
<1>2. ASSUME NEW T \in SUBSET S, NEW x \in S, T \in P, x \notin T PROVE T \cup {x} \in P
  <2>1. PICK a, b, n : a = SumFunctionOnSet(f, T) /\ b = SumFunctionOnSet(h, T) /\ n = Cardinality(T)
    OBVIOUS
  <2>2. a \in Int /\ b \in Int /\ n \in Nat /\ b - c * n <= a /\ a <= b + c * n
    BY <1>2, <2>1
  <2>3. SumFunctionOnSet(f, T \cup {x}) = f[x] + a /\ SumFunctionOnSet(h, T \cup {x}) = h[x] + b
    BY <1>2, <2>1, SumWith
  <2>4. Cardinality(T \cup {x}) = n + 1
    <3>1. IsFiniteSet(T)
      BY FS_Subset
    <3> QED BY <1>2, <2>1, <3>1, FS_AddElement
  <2>5. PICK k : k = c * n
    OBVIOUS
  <2>6. k \in Int /\ c * (n + 1) = k + c
    BY <2>2, <2>5
  <2>7. f[x] \in Int /\ h[x] \in Int /\ h[x] - c <= f[x] /\ f[x] <= h[x] + c /\ c \in Int
    OBVIOUS
  <2>8. PICK u, v : u = f[x] /\ v = h[x]
    OBVIOUS
  <2>9. u + a \in Int /\ v + b \in Int /\ (v + b) - (k + c) <= u + a /\ u + a <= (v + b) + (k + c)
    BY <2>2, <2>5, <2>6, <2>7, <2>8
  <2>10. n + 1 \in Nat /\ T \cup {x} \in SUBSET S
    BY <2>2
  <2> QED BY <2>3, <2>4, <2>6, <2>8, <2>9, <2>10
<1>3. S \in P
  <2>1. \A T \in SUBSET S, x \in S : T \in P /\ x \notin T => T \cup {x} \in P
    BY <1>2
  <2> HIDE DEF P
  <2> QED BY <1>1, <2>1, FiniteInduct
<1> QED BY <1>3

\* A factor of all terms is one of the sum.
LEMMA SumScaled ==
    ASSUME NEW S, IsFiniteSet(S), NEW f, NEW h, NEW c \in Int, \A x \in S : f[x] \in Int /\ h[x] = c * f[x]
    PROVE  SumFunctionOnSet(f, S) \in Int /\ SumFunctionOnSet(h, S) = c * SumFunctionOnSet(f, S)
<1> DEFINE P == {T \in SUBSET S : SumFunctionOnSet(f, T) \in Int
                                  /\ SumFunctionOnSet(h, T) = c * SumFunctionOnSet(f, T)}
<1>1. \A x \in S : h[x] \in Int
  OBVIOUS
<1>2. {} \in P
  <2>1. IsFiniteSet({})
    BY FS_EmptySet
  <2>2. SumFunctionOnSet(f, {}) = 0 /\ SumFunctionOnSet(h, {}) = 0
    BY <2>1, SumTyped
  <2>3. c * 0 = 0
    OBVIOUS
  <2> QED BY <2>2, <2>3
<1>3. ASSUME NEW T \in SUBSET S, NEW x \in S, T \in P, x \notin T PROVE T \cup {x} \in P
  <2>1. PICK a, b, u : a = SumFunctionOnSet(f, T) /\ b = SumFunctionOnSet(h, T) /\ u = f[x]
    OBVIOUS
  <2>2. a \in Int /\ b = c * a /\ u \in Int /\ h[x] = c * u
    BY <1>3, <2>1
  <2>3. SumFunctionOnSet(f, T \cup {x}) = u + a /\ SumFunctionOnSet(h, T \cup {x}) = c * u + b
    BY <1>1, <1>3, <2>1, <2>2, SumWith
  <2>4. c * (u + a) = c * u + c * a
    BY <2>2
  <2>5. u + a \in Int /\ T \cup {x} \in SUBSET S
    BY <2>2
  <2> QED BY <2>2, <2>3, <2>4, <2>5
<1>4. S \in P
  <2>1. \A T \in SUBSET S, x \in S : T \in P /\ x \notin T => T \cup {x} \in P
    BY <1>3
  <2> HIDE DEF P
  <2> QED BY <1>2, <2>1, FiniteInduct
<1> QED BY <1>4

\* Series that the baseline can add up.
Planned == IsFiniteSet(plan) /\ plan \subseteq AllSeries /\ askedOn \subseteq Todays

\* What a series comes to in a year, as the baseline and as the chat have it.
LEMMA SeriesIs ==
    ASSUME SeriesAssumption, NEW s \in AllSeries, NEW due, due = 12 \div Period[s.interval]
    PROVE  /\ due \in Nat /\ s.amount \in Int /\ Magnitude(s.amount) \in Nat
           /\ monthlyEquivalent(s) \in Nat
           /\ 100 * (due * Magnitude(s.amount)) - 6 <= 12 * monthlyEquivalent(s)
           /\ 12 * monthlyEquivalent(s) <= 100 * (due * Magnitude(s.amount)) + 6
           /\ monthlyEquivalent(s) = 0 <=> s.amount = 0
           /\ MonthlyAmount(s) = due * s.amount
           /\ ~s.income => s.amount <= 0
<1>1. /\ s.interval \in {"monthly", "quarterly", "yearly"} /\ s.amount \in Int
      /\ ~s.income => s.amount <= 0
  BY DEF SeriesAssumption, Period
<1>2. PICK a, x : a = Magnitude(s.amount) /\ x = s.amount
  OBVIOUS
<1>3. x \in Int /\ a \in Nat /\ (a = 0 <=> x = 0)
  BY <1>1, <1>2 DEF Magnitude
<1>4. CASE s.interval = "monthly"
  <2>1. monthlyEquivalent(s) = 100 * a
    BY <1>2, <1>4 DEF monthlyEquivalent
  <2>2. Period[s.interval] = 1
    BY <1>4 DEF Period
  <2>3. due = 12
    BY <2>2
  <2>4. MonthlyAmount(s) = 12 * x
    BY <1>2, <1>4 DEF MonthlyAmount
  <2> QED BY <1>1, <1>2, <1>3, <2>1, <2>3, <2>4
<1>5. CASE s.interval = "quarterly"
  <2>1. PICK m : m = RoundDiv(100 * a, 3)
    OBVIOUS
  <2>2. monthlyEquivalent(s) = m
    BY <1>2, <1>5, <2>1 DEF monthlyEquivalent
  <2>3. Period[s.interval] = 3
    BY <1>5 DEF Period
  <2>4. due = 4
    BY <2>3
  <2>5. MonthlyAmount(s) = 4 * x
    BY <1>2, <1>5 DEF MonthlyAmount
  <2>6. PICK n, d : n = 100 * a /\ d = 3
    OBVIOUS
  <2>7. m \in Int /\ 2 * (d * m) <= 2 * n + d /\ 2 * n <= 2 * (d * m) + d /\ (n >= 0 => m >= 0)
    <3>1. n \in Int /\ d \in Nat \ {0} /\ m = RoundDiv(n, d)
      BY <1>3, <2>1, <2>6
    <3> QED BY <3>1, Rounding
  <2>8. m \in Nat /\ 6 * m <= 200 * a + 3 /\ 200 * a <= 6 * m + 3
    BY <1>3, <2>6, <2>7
  <2>9. m = 0 <=> a = 0
    BY <1>3, <2>8
  <2>10. 100 * (4 * a) - 6 <= 12 * m /\ 12 * m <= 100 * (4 * a) + 6
    BY <1>3, <2>8
  <2> QED BY <1>1, <1>2, <1>3, <2>2, <2>4, <2>5, <2>8, <2>9, <2>10
<1>6. CASE s.interval = "yearly"
  <2>1. PICK m : m = RoundDiv(100 * a, 12)
    OBVIOUS
  <2>2. monthlyEquivalent(s) = m
    BY <1>2, <1>6, <2>1 DEF monthlyEquivalent
  <2>3. Period[s.interval] = 12
    BY <1>6 DEF Period
  <2>4. due = 1
    BY <2>3
  <2>5. MonthlyAmount(s) = x
    BY <1>2, <1>6 DEF MonthlyAmount
  <2>6. PICK n, d : n = 100 * a /\ d = 12
    OBVIOUS
  <2>7. m \in Int /\ 2 * (d * m) <= 2 * n + d /\ 2 * n <= 2 * (d * m) + d /\ (n >= 0 => m >= 0)
    <3>1. n \in Int /\ d \in Nat \ {0} /\ m = RoundDiv(n, d)
      BY <1>3, <2>1, <2>6
    <3> QED BY <3>1, Rounding
  <2>8. m \in Nat /\ 24 * m <= 200 * a + 12 /\ 200 * a <= 24 * m + 12
    BY <1>3, <2>6, <2>7
  <2>9. m = 0 <=> a = 0
    BY <1>3, <2>8
  <2>10. 100 * (1 * a) - 6 <= 12 * m /\ 12 * m <= 100 * (1 * a) + 6
    BY <1>3, <2>8
  <2>11. 1 * x = x
    BY <1>3
  <2> QED BY <1>1, <1>2, <1>3, <2>2, <2>4, <2>5, <2>8, <2>9, <2>10, <2>11
<1> QED BY <1>1, <1>4, <1>5, <1>6
-----------------------------------------------------------------------------
(* Months, and the period of a baseline                                    *)

\* A month ends after it begins, and has a place among the others.
LEMMA MonthDays ==
    ASSUME NEW m \in Int
    PROVE  /\ MonthStart(m) \in Int /\ MonthEnd(m) \in Int /\ MonthStart(m) < MonthEnd(m)
           /\ MonthStart(m + 1) = MonthEnd(m) + 1
           /\ MonthStart(m) + 28 <= MonthStart(m + 1)
<1>1. PICK y, i : y = m \div 12 /\ i = (m % 12) + 1
  OBVIOUS
<1>2. y \in Int /\ i \in 1 .. 12 /\ m = 12 * y + i - 1
  BY <1>1
<1>3. MonthStart(m) = 365 * y + DaysBefore[i]
  BY <1>1 DEF MonthStart
<1>4. MonthStart(m) + 28 <= MonthStart(m + 1)
  <2>1. CASE i = 12
    <3>1. (m + 1) \div 12 = y + 1 /\ ((m + 1) % 12) + 1 = 1
      BY <1>2, <2>1
    <3>2. MonthStart(m + 1) = 365 * (y + 1) + DaysBefore[1]
      BY <3>1 DEF MonthStart
    <3>3. DaysBefore[1] = 0 /\ DaysBefore[12] = 334
      BY YearDays
    <3> QED BY <1>2, <1>3, <2>1, <3>2, <3>3
  <2>2. CASE i < 12
    <3>1. (m + 1) \div 12 = y /\ ((m + 1) % 12) + 1 = i + 1 /\ i + 1 \in 1 .. 12
      BY <1>2, <2>2
    <3>2. MonthStart(m + 1) = 365 * y + DaysBefore[i + 1]
      BY <3>1 DEF MonthStart
    <3>3. DaysBefore[i] + 28 <= DaysBefore[i + 1]
      <4>1. i = 1 \/ i = 2 \/ i = 3 \/ i = 4 \/ i = 5 \/ i = 6 \/ i = 7 \/ i = 8 \/ i = 9 \/ i = 10 \/ i = 11
        BY <1>2, <2>2
      <4> QED BY <4>1, YearDays
    <3>4. DaysBefore[i] \in Int /\ DaysBefore[i + 1] \in Int
      BY <1>2, <3>1, DaysGrow
    <3> QED BY <1>2, <1>3, <3>2, <3>3, <3>4
  <2> QED BY <1>2, <2>1, <2>2
<1>5. MonthStart(m) \in Int /\ MonthStart(m + 1) \in Int
  BY MonthsFollow
<1>6. MonthEnd(m) = MonthStart(m + 1) - 1
  BY DEF MonthEnd
<1> QED BY <1>4, <1>5, <1>6

\* The period of a baseline is of days that have passed.
LEMMA PeriodIs ==
    ASSUME NEW latest \in Nat \cup {NoBooking}, NEW now \in Nat, NEW p, p = DefaultPeriod(latest, now)
    PROVE  p.from \in Int /\ p.to \in Int /\ p.from < p.to /\ p.to < now
<1>1. PICK k, m : k = MonthOf(now) /\ m = MonthOf(now) - 1
  OBVIOUS
<1>2. k \in Int /\ m \in Int /\ m + 1 = k /\ MonthStart(k) <= now /\ now \in Int
  BY <1>1, MonthOfDay
<1>3. MonthStart(m) \in Int /\ MonthEnd(m) \in Int /\ MonthStart(m) < MonthEnd(m) /\ MonthEnd(m) < now
      /\ MonthStart(k) \in Int
  <2>1. MonthStart(m + 1) = MonthEnd(m) + 1 /\ MonthStart(k) \in Int
    BY <1>2, MonthDays
  <2> QED BY <1>2, <2>1, MonthDays
<1>4. MonthStart(m - 11) \in Int /\ MonthStart(m - 11) <= MonthStart(m)
  <2>1. m - 11 \in Int /\ m - 11 <= m
    BY <1>2
  <2> QED BY <1>2, <2>1, MonthsFollow
<1>5. CASE latest = NoBooking \/ latest >= MonthStart(m)
  <2>1. p = [from |-> MonthStart(m - 11), to |-> MonthEnd(m)]
    BY <1>1, <1>5 DEF DefaultPeriod
  <2> QED BY <1>2, <1>3, <1>4, <2>1
<1>6. CASE ~(latest = NoBooking \/ latest >= MonthStart(m))
  <2>1. p = [from |-> latest - 89, to |-> latest]
    BY <1>1, <1>6 DEF DefaultPeriod
  <2>2. latest \in Nat /\ latest < MonthStart(m)
    BY <1>3, <1>6 DEF NoBooking
  <2> QED BY <1>2, <1>3, <2>1, <2>2
<1> QED BY <1>5, <1>6

\* A period has a month at least, and twelve whole months are that many.
LEMMA SpanIs ==
    ASSUME NEW from \in Int, NEW to \in Int, from <= to
    PROVE  /\ inclusiveMonthSpan(from, to) \in Nat /\ inclusiveMonthSpan(from, to) >= 100
           /\ \A m \in Int : from = MonthStart(m - 11) /\ to = MonthEnd(m) => inclusiveMonthSpan(from, to) = 1200
<1>1. PICK k, l : k = MonthOf(from) /\ l = MonthOf(to)
  OBVIOUS
<1>2. /\ k \in Int /\ l \in Int /\ MonthStart(k) <= from /\ to < MonthStart(l + 1)
      /\ MonthStart(k) \in Int /\ MonthStart(l + 1) \in Int
  <2>1. k \in Int /\ l \in Int /\ MonthStart(k) <= from /\ to < MonthStart(l + 1)
    BY <1>1, MonthOfDay
  <2> QED BY <2>1, MonthsFollow
<1>3. k <= l
  <2>1. CASE l < k
    <3>1. l + 1 \in Int /\ l + 1 <= k
      BY <1>2, <2>1
    <3>2. MonthStart(l + 1) <= MonthStart(k)
      BY <1>2, <3>1, MonthsFollow
    <3> QED BY <1>2, <3>2
  <2> QED BY <1>2, <2>1
<1>4. ~(to < from)
  OBVIOUS
<1>5. CASE from = MonthStart(k) /\ to = MonthEnd(l)
  <2>1. inclusiveMonthSpan(from, to) = 100 * (l - k + 1)
    BY <1>1, <1>4, <1>5 DEF inclusiveMonthSpan
  <2>2. ASSUME NEW m \in Int, from = MonthStart(m - 11) /\ to = MonthEnd(m) PROVE l - k + 1 = 12
    <3>1. MonthOf(to) = m
      <4>1. MonthStart(m) <= to /\ to <= MonthEnd(m)
        BY <2>2, MonthDays
      <4> QED BY <4>1, DaysOfMonth
    <3>2. PICK n : n = m - 11
      OBVIOUS
    <3>3. n \in Int /\ MonthStart(n) <= from /\ from <= MonthEnd(n)
      <4>1. n \in Int /\ from = MonthStart(n)
        BY <2>2, <3>2
      <4>2. MonthStart(n) < MonthEnd(n) /\ MonthEnd(n) \in Int
        BY <4>1, MonthDays
      <4> QED BY <4>1, <4>2
    <3>4. MonthOf(from) = n
      BY <3>3, DaysOfMonth
    <3> QED BY <1>1, <3>1, <3>2, <3>4
  <2>3. 100 * (l - k + 1) \in Nat /\ 100 * (l - k + 1) >= 100
    BY <1>2, <1>3
  <2>4. l - k + 1 = 12 => 100 * (l - k + 1) = 1200
    OBVIOUS
  <2> QED BY <2>1, <2>2, <2>3, <2>4
<1>6. CASE ~(from = MonthStart(k) /\ to = MonthEnd(l))
  <2>1. PICK n, r : n = 10000 * (to - from + 1) /\ r = RoundDiv(n, 3044)
    OBVIOUS
  <2>2. n \in Int /\ r \in Int
    <3>1. n \in Int /\ 3044 \in Nat \ {0}
      BY <2>1
    <3> QED BY <2>1, <3>1, Rounding
  <2>3. inclusiveMonthSpan(from, to) = Max({100, r})
    BY <1>1, <1>4, <1>6, <2>1 DEF inclusiveMonthSpan
  <2>4. PICK h : h = 100
    OBVIOUS
  <2>5. Max({h, r}) = IF h >= r THEN h ELSE r
    BY <2>2, <2>4, GreaterOf
  <2>6. inclusiveMonthSpan(from, to) \in Nat /\ inclusiveMonthSpan(from, to) >= 100
    BY <2>2, <2>3, <2>4, <2>5
  <2>7. ASSUME NEW m \in Int, from = MonthStart(m - 11) /\ to = MonthEnd(m) PROVE FALSE
    <3>1. MonthOf(to) = m
      <4>1. MonthStart(m) <= to /\ to <= MonthEnd(m)
        BY <2>7, MonthDays
      <4> QED BY <4>1, DaysOfMonth
    <3>2. PICK j : j = m - 11
      OBVIOUS
    <3>3. j \in Int /\ MonthStart(j) <= from /\ from <= MonthEnd(j)
      <4>1. j \in Int /\ from = MonthStart(j)
        BY <2>7, <3>2
      <4>2. MonthStart(j) < MonthEnd(j) /\ MonthEnd(j) \in Int
        BY <4>1, MonthDays
      <4> QED BY <4>1, <4>2
    <3>4. MonthOf(from) = j
      BY <3>3, DaysOfMonth
    <3> QED BY <1>1, <1>6, <2>7, <3>1, <3>2, <3>4
  <2> QED BY <2>6, <2>7
<1> QED BY <1>5, <1>6
-----------------------------------------------------------------------------
(* The numbers of a baseline                                               *)

\* Sums of natural numbers are such.
LEMMA SumNatural ==
    ASSUME NEW S, IsFiniteSet(S), NEW f, \A x \in S : f[x] \in Nat
    PROVE  SumFunctionOnSet(f, S) \in Nat
<1> DEFINE P == {T \in SUBSET S : SumFunctionOnSet(f, T) \in Nat}
<1>1. {} \in P
  <2>1. SumFunctionOnSet(f, {}) = 0
    BY FS_EmptySet, SumTyped
  <2> QED BY <2>1
<1>2. ASSUME NEW T \in SUBSET S, NEW x \in S, T \in P, x \notin T PROVE T \cup {x} \in P
  <2>1. \A y \in S : f[y] \in Int
    OBVIOUS
  <2>2. SumFunctionOnSet(f, T \cup {x}) = f[x] + SumFunctionOnSet(f, T)
    BY <1>2, <2>1, SumWith
  <2>3. f[x] \in Nat /\ SumFunctionOnSet(f, T) \in Nat
    BY <1>2
  <2> QED BY <1>2, <2>2, <2>3
<1>3. \A T \in SUBSET S, x \in S : T \in P /\ x \notin T => T \cup {x} \in P
  BY <1>2
<1>4. S \in P
  <2> HIDE DEF P
  <2> QED BY <1>1, <1>3, FiniteInduct
<1> QED BY <1>4

\* The sums of a baseline, in hundredths of a cent a month.
Included == {s \in plan : s.status # "ended" /\ monthlyEquivalent(s) # 0}
\* Those of them that are costs.
IncludedCosts == {s \in Included : ~s.income}
\* The costs that are not due every month.
Irregular == {s \in IncludedCosts : s.interval \in {"quarterly", "yearly"}}
\* What series come to in a month, each rounded.
MonthlySum(S) == SumFunction([s \in S |-> monthlyEquivalent(s)])
\* The expenses of a period that its series do not cover.
Uncovered(fixed, irregular, expense, months) ==
    Max({0, 10000 * Magnitude(expense) - (fixed + irregular) * months})

\* The numbers of a baseline from its sums.
Numbers(b, months, income, fixed, irregular, expense) ==
    /\ b.months = months /\ b.income = RoundDiv(income, 100) /\ b.fixed = RoundDiv(fixed, 100)
    /\ b.irregular = RoundDiv(irregular, 100)
    /\ b.variable = RoundDiv(Uncovered(fixed, irregular, expense, months), 100 * months)
    /\ b.free = RoundDiv(income - fixed - irregular - 100 * b.variable, 100)
    /\ b.confidence = overallConfidence(Included)

\* The numbers of Compute are these.
LEMMA ComputeIs ==
    ASSUME NEW from, NEW to, NEW expense, NEW b, b = Compute(from, to, plan, expense),
           NEW months, months = inclusiveMonthSpan(from, to),
           NEW income, income = MonthlySum(Included \ IncludedCosts),
           NEW fixed, fixed = MonthlySum(IncludedCosts \ Irregular),
           NEW irregular, irregular = MonthlySum(Irregular)
    PROVE  Numbers(b, months, income, fixed, irregular, expense)
BY DEF Numbers, Compute, MonthlySum, Included, IncludedCosts, Irregular, Uncovered

\* Sums of the months of series.
LEMMA MonthlySumIs ==
    ASSUME SeriesAssumption, Planned, NEW S \in SUBSET plan
    PROVE  /\ IsFiniteSet(S) /\ MonthlySum(S) \in Nat
           /\ MonthlySum(S) = SumFunctionOnSet([s \in plan |-> monthlyEquivalent(s)], S)
<1> DEFINE f == [s \in plan |-> monthlyEquivalent(s)]
<1>1. IsFiniteSet(plan) /\ IsFiniteSet(S) /\ \A s \in plan : f[s] \in Nat
  <2>1. IsFiniteSet(plan) /\ \A s \in plan : s \in AllSeries
    BY DEF Planned
  <2> QED BY <2>1, SeriesIs, FS_Subset
<1>2. MonthlySum(S) = SumFunctionOnSet([s \in S |-> monthlyEquivalent(s)], S)
  BY DEF MonthlySum, SumFunction
<1>3. PICK h : h = [s \in S |-> monthlyEquivalent(s)]
  OBVIOUS
<1>4. \A s \in S : f[s] \in Int /\ h[s] = f[s]
  BY <1>1, <1>3
<1>5. SumFunctionOnSet(h, S) = SumFunctionOnSet(f, S)
  <2> HIDE DEF f
  <2> QED BY <1>1, <1>4, SumSame
<1>6. SumFunctionOnSet(f, S) \in Nat
  <2>1. \A s \in S : f[s] \in Nat
    BY <1>1
  <2> HIDE DEF f
  <2> QED BY <1>1, <2>1, SumNatural
<1> QED BY <1>1, <1>2, <1>3, <1>5, <1>6

\* The fixed and the irregular costs are those of all series that are costs.
LEMMA CostsAre ==
    ASSUME SeriesAssumption, Planned
    PROVE  /\ MonthlySum(IncludedCosts \ Irregular) + MonthlySum(Irregular) = MonthlySum(Costs)
           /\ Costs \in SUBSET plan /\ Irregular \in SUBSET plan /\ IncludedCosts \ Irregular \in SUBSET plan
           /\ Included \ IncludedCosts \in SUBSET plan
<1> DEFINE f == [s \in plan |-> monthlyEquivalent(s)]
<1>1. PICK A, B, Z : A = IncludedCosts \ Irregular /\ B = Irregular /\ Z = Costs \ IncludedCosts
  OBVIOUS
<1>2. /\ A \in SUBSET plan /\ B \in SUBSET plan /\ Z \in SUBSET plan /\ Costs \in SUBSET plan
      /\ Included \ IncludedCosts \in SUBSET plan
      /\ A \cap B = {} /\ (A \cup B) \cap Z = {} /\ (A \cup B) \cup Z = Costs /\ A \cup B \in SUBSET plan
  BY <1>1 DEF IncludedCosts, Included, Irregular, Costs
<1>3. IsFiniteSet(A) /\ IsFiniteSet(B) /\ IsFiniteSet(Z) /\ IsFiniteSet(A \cup B) /\ IsFiniteSet(plan)
  BY <1>2, FS_Subset DEF Planned
<1>4. \A s \in plan : f[s] \in Nat
  <2>1. \A s \in plan : s \in AllSeries
    BY DEF Planned
  <2> QED BY <2>1, SeriesIs
<1>5. \A s \in Z : f[s] = 0
  <2>1. \A s \in Z : s \in plan /\ s.status # "ended" /\ ~s.income /\ s \notin IncludedCosts
    BY <1>1 DEF Costs
  <2> QED BY <2>1 DEF IncludedCosts, Included
<1>6. SumFunctionOnSet(f, A \cup B) = SumFunctionOnSet(f, A) + SumFunctionOnSet(f, B)
  <2>1. \A s \in A \cup B : f[s] \in Int
    BY <1>2, <1>4
  <2> HIDE DEF f
  <2> QED BY <1>2, <1>3, <2>1, SumUnion
<1>7. SumFunctionOnSet(f, (A \cup B) \cup Z) = SumFunctionOnSet(f, A \cup B) + SumFunctionOnSet(f, Z)
  <2>1. \A s \in (A \cup B) \cup Z : f[s] \in Int
    BY <1>2, <1>4
  <2> HIDE DEF f
  <2> QED BY <1>2, <1>3, <2>1, SumUnion
<1>8. SumFunctionOnSet(f, Z) = 0
  <2>1. ASSUME NEW s \in Z PROVE f[s] \in Int /\ f[s] = 0 * f[s]
    <3>1. f[s] = 0
      BY <1>5
    <3> HIDE DEF f
    <3> QED BY <3>1
  <2>2. 0 \in Int
    OBVIOUS
  <2>3. SumFunctionOnSet(f, Z) \in Int /\ SumFunctionOnSet(f, Z) = 0 * SumFunctionOnSet(f, Z)
    <3> HIDE DEF f
    <3> QED BY <1>3, <2>1, <2>2, SumScaled
  <2> QED BY <2>3
<1>9. /\ MonthlySum(A) = SumFunctionOnSet(f, A) /\ MonthlySum(B) = SumFunctionOnSet(f, B)
      /\ MonthlySum(Costs) = SumFunctionOnSet(f, Costs) /\ MonthlySum(A) \in Nat /\ MonthlySum(B) \in Nat
  BY <1>2, MonthlySumIs
<1>10. MonthlySum(A) + MonthlySum(B) = MonthlySum(Costs)
  <2> HIDE DEF f
  <2>1. (A \cup B) \cup Z = Costs
    BY <1>2
  <2>2. SumFunctionOnSet(f, Costs) = SumFunctionOnSet(f, A \cup B) + SumFunctionOnSet(f, Z)
    BY <1>7, <2>1
  <2>3. PICK a, b, c : a = SumFunctionOnSet(f, A) /\ b = SumFunctionOnSet(f, B) /\ c = SumFunctionOnSet(f, Costs)
    OBVIOUS
  <2>4. a \in Nat /\ b \in Nat /\ c = a + b
    BY <1>6, <1>8, <1>9, <2>2, <2>3
  <2> QED BY <1>9, <2>3, <2>4
<1>11. Costs \in SUBSET plan /\ Included \ IncludedCosts \in SUBSET plan
  BY <1>2
<1> QED BY <1>1, <1>2, <1>10, <1>11

\* What is paid of the costs in a year is what they come to in twelve months.
LEMMA CostsPaid ==
    ASSUME SeriesAssumption, Planned
    PROVE  /\ PaidInYear \in Int /\ Cardinality(Costs) \in Nat /\ MonthlySum(Costs) \in Nat
           /\ 100 * PaidInYear - 6 * Cardinality(Costs) <= 12 * MonthlySum(Costs)
           /\ 12 * MonthlySum(Costs) <= 100 * PaidInYear + 6 * Cardinality(Costs)
           /\ PaidInYear >= 0
           /\ CostsTold.total = -PaidInYear
<1>1. \A s \in Costs : s \in AllSeries /\ ~s.income
  BY DEF Planned, Costs
<1>2. IsFiniteSet(Costs) /\ Costs \in SUBSET plan
  <2>1. Costs \in SUBSET plan
    BY DEF Costs
  <2> QED BY <2>1, FS_Subset DEF Planned
<1> DEFINE due(s) == 12 \div Period[s.interval]
<1>3. PICK f : f = [s \in Costs |-> due(s) * Magnitude(s.amount)]
  OBVIOUS
<1>4. PICK g : g = [s \in Costs |-> monthlyEquivalent(s)]
  OBVIOUS
<1>5. PICK h : h = [s \in Costs |-> MonthlyAmount(s)]
  OBVIOUS
<1>6. PICK ff, gg : ff = [s \in Costs |-> 100 * f[s]] /\ gg = [s \in Costs |-> 12 * g[s]]
  OBVIOUS
<1>7. ASSUME NEW s \in Costs
      PROVE  /\ f[s] \in Int /\ f[s] >= 0 /\ g[s] \in Int /\ h[s] = -f[s]
             /\ ff[s] = 100 * f[s] /\ gg[s] = 12 * g[s] /\ ff[s] - 6 <= gg[s] /\ gg[s] <= ff[s] + 6
  <2>1. PICK d, x, a : d = due(s) /\ x = s.amount /\ a = Magnitude(s.amount)
    OBVIOUS
  <2>2. /\ d \in Nat /\ x \in Int /\ a \in Nat /\ monthlyEquivalent(s) \in Nat /\ x <= 0
        /\ 100 * (d * a) - 6 <= 12 * monthlyEquivalent(s)
        /\ 12 * monthlyEquivalent(s) <= 100 * (d * a) + 6
        /\ MonthlyAmount(s) = d * x
    BY <1>1, <2>1, SeriesIs
  <2>3. a = -x
    BY <2>1, <2>2 DEF Magnitude
  <2>4. f[s] = d * a /\ g[s] = monthlyEquivalent(s) /\ h[s] = d * x
    BY <1>3, <1>4, <1>5, <2>1, <2>2
  <2>5. d * x = -(d * a) /\ d * a \in Int /\ d * a >= 0
    BY <2>2, <2>3
  <2>6. ff[s] = 100 * f[s] /\ gg[s] = 12 * g[s]
    BY <1>6
  <2> QED BY <2>2, <2>4, <2>5, <2>6
<1>8. /\ PaidInYear = SumFunctionOnSet(f, Costs) /\ MonthlySum(Costs) = SumFunctionOnSet(g, Costs)
      /\ CostsTold.total = SumFunctionOnSet(h, Costs)
  BY <1>3, <1>4, <1>5 DEF PaidInYear, MonthlySum, SumFunction, CostsTold, runRecurringCosts, Scanned, NoDates, NotGiven, ValidRange, Costs
<1>9. SumFunctionOnSet(ff, Costs) = 100 * SumFunctionOnSet(f, Costs) /\ SumFunctionOnSet(f, Costs) \in Int
  <2>1. \A x \in Costs : f[x] \in Int /\ ff[x] = 100 * f[x]
    BY <1>7
  <2>2. 100 \in Int /\ IsFiniteSet(Costs)
    BY <1>2
  <2> QED BY ONLY <2>1, <2>2, SumScaled
<1>10. SumFunctionOnSet(gg, Costs) = 12 * SumFunctionOnSet(g, Costs) /\ SumFunctionOnSet(g, Costs) \in Int
  <2>1. \A x \in Costs : g[x] \in Int /\ gg[x] = 12 * g[x]
    BY <1>7
  <2>2. 12 \in Int /\ IsFiniteSet(Costs)
    BY <1>2
  <2> QED BY ONLY <2>1, <2>2, SumScaled
<1>11. /\ Cardinality(Costs) \in Nat
       /\ SumFunctionOnSet(ff, Costs) - 6 * Cardinality(Costs) <= SumFunctionOnSet(gg, Costs)
       /\ SumFunctionOnSet(gg, Costs) <= SumFunctionOnSet(ff, Costs) + 6 * Cardinality(Costs)
  <2>1. \A s \in Costs : gg[s] \in Int /\ ff[s] \in Int /\ ff[s] - 6 <= gg[s] /\ gg[s] <= ff[s] + 6
    BY <1>7
  <2>2. 6 \in Nat
    OBVIOUS
  <2> QED BY <1>2, <2>1, <2>2, SumNear
<1>12. SumFunctionOnSet(h, Costs) = -SumFunctionOnSet(f, Costs)
  BY <1>2, <1>7, SumNegated
<1>13. MonthlySum(Costs) \in Nat
  BY <1>2, MonthlySumIs
<1>14. SumFunctionOnSet(f, Costs) \in Nat
  <2>1. \A s \in Costs : f[s] \in Nat
    BY <1>7
  <2> QED BY <1>2, <2>1, SumNatural
<1> QED BY <1>8, <1>9, <1>10, <1>11, <1>12, <1>13, <1>14
-----------------------------------------------------------------------------
(* The variable spend                                                      *)

\* Half a unit of rounding, for divisors that are numbers.
LEMMA RoundedCents ==
    ASSUME NEW a \in Int
    PROVE  /\ RoundDiv(a, 100) \in Int
           /\ 100 * RoundDiv(a, 100) <= a + 50 /\ a - 50 <= 100 * RoundDiv(a, 100)
<1>1. PICK b, r : b = 100 /\ r = RoundDiv(a, 100)
  OBVIOUS
<1>2. b \in Nat \ {0} /\ r = RoundDiv(a, b)
  BY <1>1
<1>3. r \in Int /\ 2 * (b * r) <= 2 * a + b /\ 2 * a <= 2 * (b * r) + b
  BY <1>2, Rounding
<1> QED BY <1>1, <1>3

\* The variable spend is what is not covered, by the month.
ByMonth(v, paid, cost, months) ==
    /\ v \in Nat /\ cost \in Nat
    /\ 10000 * paid >= cost =>
          /\ 100 * (months * v) <= 10000 * paid - cost + 50 * months
          /\ 10000 * paid - cost - 50 * months <= 100 * (months * v)
    /\ 10000 * paid < cost => v = 0
\* The variable spend is the part not covered, by the month and rounded, or none.
LEMMA VariableIs ==
    ASSUME NEW fixed \in Nat, NEW irregular \in Nat, NEW paid \in Nat, NEW months \in Nat, months >= 100,
           NEW v, v = RoundDiv(Uncovered(fixed, irregular, paid, months), 100 * months),
           NEW cost, cost = (fixed + irregular) * months
    PROVE  ByMonth(v, paid, cost, months)
<1>1. PICK k : k = 10000 * Magnitude(paid) - (fixed + irregular) * months
  OBVIOUS
<1>2. Magnitude(paid) = paid
  BY DEF Magnitude
<1>3. cost \in Nat /\ k = 10000 * paid - cost /\ k \in Int
  BY <1>1, <1>2
<1>4. PICK n, z : n = Uncovered(fixed, irregular, paid, months) /\ z = 0
  OBVIOUS
<1>5. n = IF z >= k THEN z ELSE k
  <2>1. n = Max({z, k})
    BY <1>1, <1>4 DEF Uncovered
  <2>2. z \in Int
    BY <1>4
  <2> QED BY <1>3, <2>1, <2>2, GreaterOf
<1>6. n \in Nat /\ (k >= 0 => n = k) /\ (k < 0 => n = 0)
  BY <1>3, <1>4, <1>5
<1>7. PICK d : d = 100 * months
  OBVIOUS
<1>8. d \in Nat \ {0} /\ d \in Int /\ d >= 10000
  BY <1>7
<1>9. v = RoundDiv(n, d)
  BY <1>4, <1>7
<1>10. v \in Int /\ 2 * (d * v) <= 2 * n + d /\ 2 * n <= 2 * (d * v) + d /\ (n >= 0 => v >= 0)
  <2>1. n \in Int
    BY <1>6
  <2> QED BY <1>8, <1>9, <2>1, Rounding
<1>11. v \in Nat
  BY <1>6, <1>10
<1>12. PICK p : p = months * v
  OBVIOUS
<1>13. d * v = 100 * p /\ p \in Nat
  BY <1>7, <1>11, <1>12
<1>14. 200 * p <= 2 * n + 100 * months /\ 2 * n <= 200 * p + 100 * months
  BY <1>7, <1>10, <1>13
<1>15. ASSUME n = 0 PROVE v = 0
  <2>1. CASE v >= 1
    <3>1. months * v >= months
      <4>1. PICK w : w = v - 1
        OBVIOUS
      <4>2. w \in Nat /\ months * v = months * w + months /\ months * w >= 0
        BY <1>11, <2>1, <4>1
      <4> QED BY <4>2
    <3> QED BY <1>12, <1>13, <1>14, <1>15, <3>1
  <2> QED BY <1>11, <2>1
<1>16. 10000 * paid >= cost =>
          /\ 100 * (months * v) <= 10000 * paid - cost + 50 * months
          /\ 10000 * paid - cost - 50 * months <= 100 * (months * v)
  BY <1>3, <1>6, <1>12, <1>13, <1>14
<1>17. 10000 * paid < cost => v = 0
  BY <1>3, <1>6, <1>15
<1> QED BY <1>3, <1>11, <1>16, <1>17 DEF ByMonth
-----------------------------------------------------------------------------
(* Baselines                                                               *)

\* A factor keeps an order.
LEMMA TimesOrdered ==
    ASSUME NEW a \in Int, NEW b \in Int, a <= b, NEW m \in Nat
    PROVE  m * a \in Int /\ m * b \in Int /\ m * a <= m * b
<1>1. PICK d : d = b - a
  OBVIOUS
<1>2. d \in Nat /\ b = a + d
  BY <1>1
<1>3. m * b = m * a + m * d /\ m * d \in Nat /\ m * a \in Int
  BY <1>2
<1> QED BY <1>3

\* A number of cents a month, over some months.
LEMMA CentsOverMonths ==
    ASSUME NEW r \in Nat, NEW m \in Nat, NEW c, c = RoundDiv(r, 100)
    PROVE  /\ c \in Int /\ m * c \in Int /\ m * r \in Int
           /\ 100 * (m * c) <= m * r + 50 * m /\ m * r - 50 * m <= 100 * (m * c)
<1>1. c \in Int /\ 100 * c <= r + 50 /\ r - 50 <= 100 * c
  BY RoundedCents
<1>2. m * (100 * c) <= m * (r + 50) /\ m * (r - 50) <= m * (100 * c)
  <2>1. 100 * c \in Int /\ r + 50 \in Int /\ r - 50 \in Int
    BY <1>1
  <2> QED BY <1>1, <2>1, TimesOrdered
<1>3. /\ m * (100 * c) = 100 * (m * c) /\ m * (r + 50) = m * r + 50 * m /\ m * (r - 50) = m * r - 50 * m
      /\ m * c \in Int /\ m * r \in Int
  BY <1>1
<1> QED BY <1>1, <1>2, <1>3

\* Costs and variable spend are the expenses, or exceed them.
Covers(months, costs, v, paid) ==
    \/ Magnitude(months * (costs + v) - 100 * paid) <= 2 * months
    \/ v = 0 /\ months * (costs + 1) > 100 * paid

\* The numbers of a baseline explain the expenses of its period.
LEMMA BaselineHolds ==
    ASSUME SeriesAssumption, Planned, NEW period, period.from \in Int, period.to \in Int, period.from < period.to,
           NEW other \in Nat, NEW paid, paid = other + PaidInYear,
           NEW b, b = Compute(period.from, period.to, plan, paid)
    PROVE  Explains(period, other, paid, b)
<1>1. PICK months : months = inclusiveMonthSpan(period.from, period.to)
  OBVIOUS
<1>2. /\ months \in Nat /\ months >= 100
      /\ \A m \in Int : period.from = MonthStart(m - 11) /\ period.to = MonthEnd(m) => months = 1200
  <2>1. PICK from, to : from = period.from /\ to = period.to
    OBVIOUS
  <2>2. from \in Int /\ to \in Int /\ from <= to /\ months = inclusiveMonthSpan(from, to)
    BY <1>1, <2>1
  <2>3. /\ months \in Nat /\ months >= 100
        /\ \A m \in Int : from = MonthStart(m - 11) /\ to = MonthEnd(m) => months = 1200
    BY <2>2, SpanIs
  <2> QED BY <2>1, <2>3
<1>3. PICK income, fixed, irregular : /\ income = MonthlySum(Included \ IncludedCosts)
                                      /\ fixed = MonthlySum(IncludedCosts \ Irregular)
                                      /\ irregular = MonthlySum(Irregular)
  OBVIOUS
<1>4. income \in Nat /\ fixed \in Nat /\ irregular \in Nat
  BY <1>3, CostsAre, MonthlySumIs
<1>5. PICK year, n, all : year = PaidInYear /\ n = Cardinality(Costs) /\ all = MonthlySum(Costs)
  OBVIOUS
<1>6. /\ year \in Nat /\ n \in Nat /\ all \in Nat /\ all = fixed + irregular
      /\ 100 * year - 6 * n <= 12 * all /\ 12 * all <= 100 * year + 6 * n
      /\ CostsTold.total = -year
  <2>1. all = fixed + irregular
    BY <1>3, <1>5, CostsAre
  <2>2. /\ year \in Int /\ year >= 0 /\ n \in Nat /\ all \in Nat
        /\ 100 * year - 6 * n <= 12 * all /\ 12 * all <= 100 * year + 6 * n
        /\ CostsTold.total = -year
    BY <1>5, CostsPaid
  <2> QED BY <2>1, <2>2
<1>7. paid \in Nat /\ paid = other + year
  BY <1>5, <1>6
<1>8. PICK inc, fix, irr, v, free : inc = b.income /\ fix = b.fixed /\ irr = b.irregular /\ v = b.variable
                                    /\ free = b.free
  OBVIOUS
<1>9. /\ b.months = months /\ inc = RoundDiv(income, 100) /\ fix = RoundDiv(fixed, 100)
      /\ irr = RoundDiv(irregular, 100)
      /\ v = RoundDiv(Uncovered(fixed, irregular, paid, months), 100 * months)
      /\ free = RoundDiv(income - fixed - irregular - 100 * v, 100)
      /\ b.confidence = overallConfidence(Included)
  <2>1. PICK from, to : from = period.from /\ to = period.to
    OBVIOUS
  <2>2. Numbers(b, months, income, fixed, irregular, paid)
    <3>1. b = Compute(from, to, plan, paid) /\ months = inclusiveMonthSpan(from, to)
      BY <1>1, <2>1
    <3> QED BY <1>3, <3>1, ComputeIs
  <2> QED BY <1>8, <2>2 DEF Numbers
<1>10. PICK cost : cost = (fixed + irregular) * months
  OBVIOUS
<1>11. /\ v \in Nat /\ cost \in Nat
       /\ 10000 * paid >= cost => /\ 100 * (months * v) <= 10000 * paid - cost + 50 * months
                                  /\ 10000 * paid - cost - 50 * months <= 100 * (months * v)
       /\ 10000 * paid < cost => v = 0
  <2>1. v = RoundDiv(Uncovered(fixed, irregular, paid, months), 100 * months)
    BY <1>9
  <2>2. paid \in Nat
    BY <1>7
  <2>3. ByMonth(v, paid, cost, months)
    BY <1>2, <1>4, <1>10, <2>1, <2>2, VariableIs
  <2> QED BY <2>3 DEF ByMonth
<1>12. ASSUME NEW m \in {MonthOf(period.to)}, period = [from |-> MonthStart(m - 11), to |-> MonthEnd(m)]
       PROVE  Magnitude(1200 * v - 100 * other) <= 600 + 6 * n
  <2>1. months = 1200
    <3>1. m \in Int
      BY MonthOfDay
    <3>2. period.from = MonthStart(m - 11) /\ period.to = MonthEnd(m)
      BY <1>12
    <3> QED BY <1>2, <3>1, <3>2
  <2>2. cost = 1200 * all /\ months * v = 1200 * v
    BY <1>6, <1>10, <1>4, <2>1
  <2>3. PICK k : k = 1200 * v - 100 * other
    OBVIOUS
  <2>4. CASE 10000 * paid >= cost
    <3>1. 100 * (1200 * v) <= 10000 * paid - 1200 * all + 60000
          /\ 10000 * paid - 1200 * all - 60000 <= 100 * (1200 * v)
      BY <1>11, <2>1, <2>2, <2>4
    <3>2. k \in Int /\ k <= 600 + 6 * n /\ -(600 + 6 * n) <= k
      BY <1>6, <1>7, <1>11, <2>3, <3>1
    <3> QED BY <1>6, <2>3, <3>2 DEF Magnitude
  <2>5. CASE 10000 * paid < cost
    <3>1. v = 0 /\ 10000 * paid < 1200 * all
      BY <1>11, <2>2, <2>5
    <3>2. k \in Int /\ k <= 600 + 6 * n /\ -(600 + 6 * n) <= k
      BY <1>6, <1>7, <2>3, <3>1
    <3> QED BY <1>6, <2>3, <3>2 DEF Magnitude
  <2> QED BY <1>7, <1>11, <2>4, <2>5
<1>13. Covers(months, fix + irr, v, paid)
  <2>1. PICK mF, mI, mf, mi, mv : mF = months * fixed /\ mI = months * irregular /\ mf = months * fix
                                  /\ mi = months * irr /\ mv = months * v
    OBVIOUS
  <2>2. fix \in Int /\ mf \in Int /\ mF \in Int /\ 100 * mf <= mF + 50 * months /\ mF - 50 * months <= 100 * mf
    BY <1>2, <1>4, <1>9, <2>1, CentsOverMonths
  <2>3. irr \in Int /\ mi \in Int /\ mI \in Int /\ 100 * mi <= mI + 50 * months /\ mI - 50 * months <= 100 * mi
    BY <1>2, <1>4, <1>9, <2>1, CentsOverMonths
  <2>4. cost = mF + mI /\ mv \in Int
    BY <1>2, <1>4, <1>10, <1>11, <2>1
  <2>5. PICK w : w = 10000 * paid
    OBVIOUS
  <2>6. w \in Nat /\ cost \in Nat
    BY <1>7, <1>11, <2>5
  <2>7. CASE w >= cost
    <3>1. months * (fix + irr + v) = mf + mi + mv
      BY <1>2, <1>11, <2>1, <2>2, <2>3
    <3>2. 100 * mv <= w - cost + 50 * months /\ w - cost - 50 * months <= 100 * mv
      BY <1>11, <2>1, <2>7, <2>5
    <3>3. PICK k : k = (mf + mi + mv) - 100 * paid
      OBVIOUS
    <3>4. k \in Int /\ k <= 2 * months /\ -(2 * months) <= k
      BY <1>2, <1>7, <2>2, <2>3, <2>4, <2>5, <3>2, <3>3
    <3>5. Magnitude(k) <= 2 * months
      BY <1>2, <3>4 DEF Magnitude
    <3>6. PICK whole : whole = months * ((fix + irr) + v)
      OBVIOUS
    <3>7. whole - 100 * paid = k
      <4>1. whole = mf + mi + mv
        BY ONLY <3>1, <3>6
      <4> QED BY ONLY <3>3, <4>1
    <3>8. Magnitude(whole - 100 * paid) <= 2 * months
      BY <3>5, <3>7
    <3>9. Magnitude(months * ((fix + irr) + v) - 100 * paid) <= 2 * months
      BY ONLY <3>6, <3>8
    <3> QED BY ONLY <3>9 DEF Covers
  <2>8. CASE w < cost
    <3>1. months * (fix + irr + 1) = mf + mi + months
      BY <1>2, <2>1, <2>2, <2>3
    <3>2. mf + mi + months > 100 * paid
      BY <1>2, <1>7, <2>2, <2>3, <2>4, <2>8, <2>5
    <3>3. v = 0
      BY <1>11, <2>8, <2>5
    <3> QED BY <3>1, <3>2, <3>3 DEF Covers
  <2> QED BY <2>7, <2>8, <2>6
<1>14. Magnitude(inc - fix - irr - v - free) <= 2
  <2>1. PICK rest : rest = income - fixed - irregular - 100 * v
    OBVIOUS
  <2>2. rest \in Int /\ income \in Int /\ fixed \in Int /\ irregular \in Int
    BY <1>4, <1>11, <2>1
  <2>3. /\ inc \in Int /\ 100 * inc <= income + 50 /\ income - 50 <= 100 * inc
        /\ fix \in Int /\ 100 * fix <= fixed + 50 /\ fixed - 50 <= 100 * fix
        /\ irr \in Int /\ 100 * irr <= irregular + 50 /\ irregular - 50 <= 100 * irr
    BY <1>9, <2>2, RoundedCents
  <2>6. free \in Int /\ 100 * free <= rest + 50 /\ rest - 50 <= 100 * free
    <3>1. free = RoundDiv(rest, 100)
      BY <1>9, <2>1
    <3> QED BY <2>2, <3>1, RoundedCents
  <2>4. PICK k : k = inc - fix - irr - v - free
    OBVIOUS
  <2>5. k \in Int /\ k <= 2 /\ -2 <= k
    BY <1>11, <2>1, <2>2, <2>3, <2>4, <2>6
  <2> QED BY <2>4, <2>5 DEF Magnitude
<1>15. ASSUME b.confidence = "high" PROVE plan # {} /\ \A s \in plan : s.status = "uncertain" => s.amount = 0
  <2>1. Included # {} /\ \A s \in Included : s.status # "uncertain"
    BY <1>9, <1>15 DEF overallConfidence
  <2>2. Included \subseteq plan
    BY DEF Included
  <2>3. ASSUME NEW s \in plan, s.status = "uncertain" PROVE s.amount = 0
    <3>1. s \notin Included
      BY <2>1, <2>3
    <3>2. monthlyEquivalent(s) = 0
      BY <2>3, <3>1 DEF Included
    <3>3. s \in AllSeries
      BY DEF Planned
    <3> QED BY <3>2, <3>3, SeriesIs
  <2> QED BY <2>1, <2>2, <2>3
<1>16. CostsTold.series = Costs
  BY DEF CostsTold, runRecurringCosts, Scanned, NoDates, NotGiven, ValidRange, Costs
<1>17. Magnitude(100 * (-year) + 1200 * (fix + irr)) <= 1200 + 6 * n
  <2>1. /\ fix \in Int /\ 100 * fix <= fixed + 50 /\ fixed - 50 <= 100 * fix
        /\ irr \in Int /\ 100 * irr <= irregular + 50 /\ irregular - 50 <= 100 * irr
    BY <1>4, <1>9, RoundedCents
  <2>2. PICK k : k = 100 * (-year) + 1200 * (fix + irr)
    OBVIOUS
  <2>3. k \in Int /\ k <= 1200 + 6 * n /\ -(1200 + 6 * n) <= k
    BY <1>4, <1>6, <2>1, <2>2
  <2> QED BY <1>6, <2>2, <2>3 DEF Magnitude
<1>18. (\E m \in {MonthOf(period.to)} : period = [from |-> MonthStart(m - 11), to |-> MonthEnd(m)])
       => Magnitude(1200 * b.variable - 100 * other) <= 600 + 6 * Cardinality(Costs)
  BY <1>5, <1>8, <1>12
<1>19. \/ Magnitude(b.months * (b.fixed + b.irregular + b.variable) - 100 * paid) <= 2 * b.months
       \/ b.variable = 0 /\ b.months * (b.fixed + b.irregular + 1) > 100 * paid
  BY <1>8, <1>9, <1>13 DEF Covers
<1>20. Magnitude(b.income - b.fixed - b.irregular - b.variable - b.free) <= 2
  BY <1>8, <1>14
<1>21. Magnitude(100 * CostsTold.total + 1200 * (b.fixed + b.irregular))
          <= 1200 + 6 * Cardinality(Costs)
  BY <1>5, <1>6, <1>8, <1>17
<1> QED BY <1>15, <1>16, <1>18, <1>19, <1>20, <1>21 DEF Explains

\* So do those of every baseline asked for.
LEMMA BaselinesHold ==
    ASSUME SeriesAssumption, Planned
    PROVE  BaselineExplains
<1>1. ASSUME NEW latest \in Latests, NEW now \in askedOn, NEW other \in Others,
             NEW period, period = DefaultPeriod(latest, now), NEW paid, paid = other + PaidInYear
      PROVE  /\ period.from < period.to /\ period.to < now
             /\ Explains(period, other, paid, Compute(period.from, period.to, plan, paid))
  <2>1. latest \in Nat \cup {NoBooking} /\ now \in Nat /\ other \in Nat
    BY DEF SeriesAssumption, Planned
  <2>2. period.from \in Int /\ period.to \in Int /\ period.from < period.to /\ period.to < now
    BY <1>1, <2>1, PeriodIs
  <2> QED BY <1>1, <2>1, <2>2, BaselineHolds
<1> QED BY <1>1 DEF BaselineExplains
-----------------------------------------------------------------------------
(* The dates of a series                                                   *)

\* A month has 28 days at least.
LEMMA MonthsAhead ==
    ASSUME NEW d \in Int, NEW n \in Nat, n >= 1
    PROVE  AddMonths(d, n) \in Int /\ d + 28 <= AddMonths(d, n)
<1>1. PICK m : m = MonthOf(d)
  OBVIOUS
<1>2. m \in Int /\ m + 1 \in Int /\ m + n \in Int /\ m + 1 <= m + n
  BY <1>1, MonthOfDay
<1>3. MonthStart(m) \in Int /\ MonthStart(m) + 28 <= MonthStart(m + 1)
  BY <1>2, MonthDays
<1>4. MonthStart(m + 1) \in Int /\ MonthStart(m + 1) <= MonthStart(m + n)
  BY <1>2, MonthsFollow
<1>5. MonthStart(m + n) \in Int
  BY <1>2, MonthsFollow
<1>6. AddMonths(d, n) = MonthStart(m + n) + (d - MonthStart(m))
  BY <1>1 DEF AddMonths
<1> QED BY <1>3, <1>4, <1>5, <1>6

\* The date after a date.
LEMMA AdvanceIs ==
    ASSUME NEW interval \in DOMAIN Period, NEW d \in Int
    PROVE  /\ advance(d, interval) = AddMonths(d, Period[interval])
           /\ advance(d, interval) \in Int /\ d + 28 <= advance(d, interval)
<1>1. PICK n : n = Period[interval]
  OBVIOUS
<1>2. interval \in {"monthly", "quarterly", "yearly"}
  BY DEF Period
<1>3. n = (CASE interval = "quarterly" -> 3 [] interval = "yearly" -> 12 [] OTHER -> 1)
  BY <1>1, <1>2 DEF Period
<1>4. n \in Nat /\ n >= 1
  BY <1>2, <1>3
<1>5. advance(d, interval) = AddMonths(d, n)
  BY <1>3 DEF advance
<1> QED BY <1>1, <1>4, <1>5, MonthsAhead

\* The dates from one on, one after another.
Closed(C, interval) == \A c \in C : advance(c, interval) \in C
\* The dates every closed set with the first one has.
Reach(first, interval) == {d \in Int : \A C \in SUBSET Int : first \in C /\ Closed(C, interval) => d \in C}

\* They are the first one and those an interval after one of them.
LEMMA ReachIs ==
    ASSUME NEW interval \in DOMAIN Period, NEW first \in Int
    PROVE  /\ Reach(first, interval) = {first} \cup Reach(advance(first, interval), interval)
           /\ \A d \in Reach(first, interval) : first <= d
<1>1. PICK next : next = advance(first, interval)
  OBVIOUS
<1>2. next \in Int /\ first < next
  BY <1>1, AdvanceIs
<1>3. ASSUME NEW d \in Reach(first, interval) PROVE d \in {first} \cup Reach(next, interval)
  <2>1. PICK C : C = {first} \cup Reach(next, interval)
    OBVIOUS
  <2>2. C \in SUBSET Int /\ first \in C
    BY <2>1 DEF Reach
  <2>3. Closed(C, interval)
    <3>1. advance(first, interval) \in C
      BY <1>1, <1>2, <2>1 DEF Reach
    <3>2. ASSUME NEW c \in Reach(next, interval) PROVE advance(c, interval) \in Reach(next, interval)
      <4>1. c \in Int
        BY DEF Reach
      <4>2. advance(c, interval) \in Int
        BY <4>1, AdvanceIs
      <4>3. ASSUME NEW D \in SUBSET Int, next \in D, Closed(D, interval) PROVE advance(c, interval) \in D
        <5>1. c \in D
          BY <4>3 DEF Reach
        <5> QED BY <4>3, <5>1 DEF Closed
      <4> QED BY <4>2, <4>3 DEF Reach
    <3> QED BY <2>1, <3>1, <3>2 DEF Closed
  <2>4. d \in C
    BY <2>2, <2>3 DEF Reach
  <2> QED BY <2>1, <2>4
<1>4. first \in Reach(first, interval)
  BY DEF Reach
<1>5. ASSUME NEW d \in Reach(next, interval) PROVE d \in Reach(first, interval)
  <2>1. d \in Int
    BY DEF Reach
  <2>2. ASSUME NEW C \in SUBSET Int, first \in C, Closed(C, interval) PROVE d \in C
    <3>1. next \in C
      BY <1>1, <2>2 DEF Closed
    <3> QED BY <2>2, <3>1 DEF Reach
  <2> QED BY <2>1, <2>2 DEF Reach
<1>6. ASSUME NEW d \in Reach(first, interval) PROVE first <= d
  <2>1. PICK C : C = {e \in Int : first <= e}
    OBVIOUS
  <2>2. C \in SUBSET Int /\ first \in C
    BY <2>1
  <2>3. Closed(C, interval)
    <3>1. ASSUME NEW c \in C PROVE advance(c, interval) \in C
      <4>1. c \in Int /\ first <= c
        BY <2>1
      <4>2. advance(c, interval) \in Int /\ c + 28 <= advance(c, interval)
        BY <4>1, AdvanceIs
      <4>3. first <= advance(c, interval)
        BY <4>1, <4>2
      <4> QED BY <2>1, <4>2, <4>3
    <3> QED BY <3>1 DEF Closed
  <2>4. d \in C
    BY <2>2, <2>3 DEF Reach
  <2> QED BY <2>1, <2>4
<1> QED BY <1>1, <1>3, <1>4, <1>5, <1>6

\* A recursion over the days ahead has these dates for its value.
LEMMA DatesUntil ==
    ASSUME NEW interval \in DOMAIN Period, NEW end \in Int,
           NEW F, F = [d \in Int |-> IF d > end THEN {} ELSE {d} \cup F[advance(d, interval)]]
    PROVE  \A d \in Int : F[d] = {e \in Reach(d, interval) : e <= end}
<1> DEFINE G(d) == {e \in Reach(d, interval) : e <= end}
<1>1. ASSUME NEW d \in Int PROVE G(d) = IF d > end THEN {} ELSE {d} \cup G(advance(d, interval))
  <2>1. Reach(d, interval) = {d} \cup Reach(advance(d, interval), interval) /\ \A e \in Reach(d, interval) : d <= e
    BY ReachIs
  <2>2. \A e \in Reach(d, interval) : e \in Int
    BY DEF Reach
  <2>3. CASE d > end
    BY <2>1, <2>2, <2>3
  <2>4. CASE ~(d > end)
    BY <2>1, <2>4
  <2> QED BY <2>3, <2>4
<1> HIDE DEF G
<1>2. ASSUME NEW d \in Int PROVE F[d] = IF d > end THEN {} ELSE {d} \cup F[advance(d, interval)]
  OBVIOUS
<1>3. ASSUME NEW d \in Int PROVE F[d] = G(d)
  <2>1. CASE d > end
    BY <1>1, <1>2, <2>1
  <2>2. CASE d <= end
    <3>1. PICK N : N = end - d
      OBVIOUS
    <3>2. N \in Nat
      BY <2>2, <3>1
    <3> DEFINE Same == {n \in 0 .. N : \A x \in Int : end - x <= n => F[x] = G(x)}
    <3>3. ASSUME NEW n \in 0 .. N, NEW x \in Int, end - x <= n,
                 n # 0 => \A y \in Int : end - y <= n - 1 => F[y] = G(y)
          PROVE  F[x] = G(x)
      <4>1. advance(x, interval) \in Int /\ x + 28 <= advance(x, interval)
        BY AdvanceIs
      <4>2. CASE x > end
        BY <1>1, <1>2, <4>2
      <4>3. CASE ~(x > end) /\ n # 0
        <5>1. end - advance(x, interval) <= n - 1
          BY <3>3, <4>1
        <5>2. F[advance(x, interval)] = G(advance(x, interval))
          BY <3>3, <4>1, <4>3, <5>1
        <5> QED BY <1>1, <1>2, <4>3, <5>2
      <4>4. CASE ~(x > end) /\ n = 0
        <5>1. advance(x, interval) > end
          BY <3>3, <4>1, <4>4
        <5>2. F[advance(x, interval)] = {} /\ G(advance(x, interval)) = {}
          BY <1>1, <1>2, <4>1, <5>1
        <5> QED BY <1>1, <1>2, <4>4, <5>2
      <4> QED BY <4>2, <4>3, <4>4
    <3>4. 0 \in Same
      BY <3>2, <3>3
    <3>5. ASSUME NEW i \in 1 .. N, i - 1 \in Same PROVE i \in Same
      <4>1. i \in 0 .. N /\ i # 0
        OBVIOUS
      <4>2. \A y \in Int : end - y <= i - 1 => F[y] = G(y)
        BY <3>5
      <4>3. \A x \in Int : end - x <= i => F[x] = G(x)
        BY <3>3, <4>1, <4>2
      <4> QED BY <4>1, <4>3
    <3>6. \A i \in 1 .. N : i - 1 \in Same => i \in Same
      BY <3>5
    <3>7. N \in Same
      <4> HIDE DEF Same
      <4>1. \A i \in 0 .. N : i \in Same
        BY <3>2, <3>4, <3>6, Induct
      <4> QED BY <3>2, <4>1
    <3>8. end - d <= N
      BY <3>1, <3>2
    <3> QED BY <3>7, <3>8
  <2> QED BY <2>1, <2>2
<1> QED BY <1>3 DEF G

\* The dates of a series are those from its first on.
LEMMA ScheduledIs ==
    ASSUME NEW s, s.interval \in DOMAIN Period, s.next \in Int, NEW start \in Int, NEW end \in Int
    PROVE  scheduledOn(s, start, end)
              = {d \in Reach(FirstDue(s.next, s.interval, start), s.interval) : start <= d /\ d <= end}
<1>1. PICK interval : interval = s.interval
  OBVIOUS
<1> DEFINE From[d \in Int] == IF d > end THEN {} ELSE {d} \cup From[advance(d, s.interval)]
           G == [d \in Int |-> {e \in Reach(d, interval) : e <= end}]
           first == IF s.next = NoDate THEN start + cadenceDays[s.interval] ELSE s.next
<1>2. scheduledOn(s, start, end) = {d \in From[first] : d >= start}
  BY DEF scheduledOn
<1>3. G = [d \in Int |-> IF d > end THEN {} ELSE {d} \cup G[advance(d, s.interval)]]
  <2>1. ASSUME NEW d \in Int PROVE G[d] = IF d > end THEN {} ELSE {d} \cup G[advance(d, interval)]
    <3>1. /\ Reach(d, interval) = {d} \cup Reach(advance(d, interval), interval)
          /\ \A e \in Reach(d, interval) : d <= e
      BY <1>1, ReachIs
    <3>2. advance(d, interval) \in Int
      BY <1>1, AdvanceIs
    <3>3. \A e \in Reach(d, interval) : e \in Int
      BY DEF Reach
    <3>4. G[d] = {e \in Reach(d, interval) : e <= end}
          /\ G[advance(d, interval)] = {e \in Reach(advance(d, interval), interval) : e <= end}
      BY <3>2
    <3> HIDE DEF G
    <3>5. CASE d > end
      BY <3>1, <3>3, <3>4, <3>5
    <3>6. CASE ~(d > end)
      BY <3>1, <3>4, <3>6
    <3> QED BY <3>5, <3>6
  <2>2. G = [d \in Int |-> G[d]]
    OBVIOUS
  <2> HIDE DEF G
  <2> QED BY <1>1, <2>1, <2>2
<1>4. From = [d \in Int |-> IF d > end THEN {} ELSE {d} \cup From[advance(d, s.interval)]]
  <2>1. \E g : g = [d \in Int |-> IF d > end THEN {} ELSE {d} \cup g[advance(d, s.interval)]]
    BY <1>3
  <2> HIDE DEF G
  <2> QED BY <2>1
<1>5. first \in Int
  BY DEF cadenceDays, Period
<1>6. first = FirstDue(s.next, s.interval, start)
  BY DEF FirstDue
<1> HIDE DEF From, G, first
<1>7. From[first] = {e \in Reach(first, interval) : e <= end}
  <2>1. From = [d \in Int |-> IF d > end THEN {} ELSE {d} \cup From[advance(d, interval)]]
    BY <1>1, <1>4
  <2> QED BY <1>1, <1>5, <2>1, DatesUntil
<1>8. \A e \in Reach(first, interval) : e \in Int
  BY DEF Reach
<1> QED BY <1>1, <1>2, <1>6, <1>7, <1>8
-----------------------------------------------------------------------------
(* How often a series is due                                               *)

\* The first dates of a series, one after another.
Terms(f, n, first, interval) ==
    f = [k \in 0 .. n |-> IF k = 0 THEN first ELSE AddMonths(f[k - 1], Period[interval])]

\* The first terms exist as a function.
LEMMA TermsExist ==
    ASSUME NEW interval \in DOMAIN Period, NEW first \in Int, NEW n \in Int
    PROVE  \E f : Terms(f, n, first, interval)
<1> DEFINE Good(f, m) == f \in [0 .. m -> Int] /\ Terms(f, m, first, interval)
           Fine == {m \in Nat : \E f : Good(f, m)}
<1>1. CASE n < 0
  <2>1. PICK f : f = [k \in 0 .. n |-> first]
    OBVIOUS
  <2>2. 0 .. n = {}
    BY <1>1
  <2>3. Terms(f, n, first, interval)
    BY <2>1, <2>2 DEF Terms
  <2> QED BY <2>3
<1>2. 0 \in Fine
  <2>1. PICK f : f = [k \in 0 .. 0 |-> first]
    OBVIOUS
  <2>2. \A k \in 0 .. 0 : k = 0
    OBVIOUS
  <2>3. Good(f, 0)
    BY <2>1, <2>2 DEF Terms
  <2> QED BY <2>3
<1>3. ASSUME NEW m \in Nat \ {0}, m - 1 \in Fine PROVE m \in Fine
  <2>1. PICK f : Good(f, m - 1)
    BY <1>3
  <2>2. f \in [0 .. m - 1 -> Int] /\ m - 1 \in 0 .. m - 1
    BY <2>1
  <2>3. PICK last : last = AddMonths(f[m - 1], Period[interval])
    OBVIOUS
  <2>4. last \in Int
    <3>1. f[m - 1] \in Int
      BY <2>2
    <3> QED BY <2>3, <3>1, AdvanceIs
  <2>5. PICK g : g = [k \in 0 .. m |-> IF k = m THEN last ELSE f[k]]
    OBVIOUS
  <2>6. g \in [0 .. m -> Int]
    BY <2>2, <2>4, <2>5
  <2>7. ASSUME NEW k \in 0 .. m PROVE g[k] = IF k = 0 THEN first ELSE AddMonths(g[k - 1], Period[interval])
    <3>1. CASE k = m
      <4>1. g[k] = last /\ k # 0 /\ k - 1 \in 0 .. m /\ k - 1 # m
        BY <2>5, <3>1
      <4>2. g[k - 1] = f[m - 1]
        BY <2>5, <3>1, <4>1
      <4> QED BY <2>3, <4>1, <4>2
    <3>2. CASE k # m
      <4>1. k \in 0 .. m - 1 /\ g[k] = f[k]
        BY <2>5, <3>2
      <4>2. f[k] = IF k = 0 THEN first ELSE AddMonths(f[k - 1], Period[interval])
        BY <2>1, <4>1 DEF Terms
      <4>3. k # 0 => g[k - 1] = f[k - 1]
        <5>1. k # 0 => k - 1 \in 0 .. m /\ k - 1 # m
          BY <3>2
        <5> QED BY <2>5, <5>1
      <4> QED BY <4>1, <4>2, <4>3
    <3> QED BY <3>1, <3>2
  <2>8. g = [k \in 0 .. m |-> g[k]]
    BY <2>6
  <2>9. Good(g, m)
    BY <2>6, <2>7, <2>8 DEF Terms
  <2> QED BY <2>9
<1>4. CASE n \in Nat
  <2> HIDE DEF Fine
  <2>1. \A i \in 1 .. n : i - 1 \in Fine => i \in Fine
    BY <1>3
  <2>2. \A i \in 0 .. n : i \in Fine
    BY <1>2, <1>4, <2>1, Induct
  <2>3. n \in Fine
    BY <1>4, <2>2
  <2> QED BY <2>3 DEF Fine
<1> QED BY <1>1, <1>4

\* What the recursion over the terms of a series has for its value.
LEMMA TermsAre ==
    ASSUME NEW interval \in DOMAIN Period, NEW first \in Int, NEW n \in Nat, NEW f, Terms(f, n, first, interval)
    PROVE  /\ \A k \in 0 .. n : f[k] \in Int /\ f[k] >= first + 28 * k /\ f[k] \in Reach(first, interval)
           /\ f[0] = first /\ \A k \in 1 .. n : f[k] = advance(f[k - 1], interval)
<1>1. \A k \in 0 .. n : f[k] = IF k = 0 THEN first ELSE AddMonths(f[k - 1], Period[interval])
  BY DEF Terms
<1> DEFINE Fine == {k \in 0 .. n : /\ f[k] \in Int /\ f[k] >= first + 28 * k
                                   /\ f[k] \in Reach(first, interval)}
<1>2. f[0] = first
  BY <1>1
<1>3. 0 \in Fine
  BY <1>2, ReachIs
<1>4. ASSUME NEW i \in 1 .. n, i - 1 \in Fine
      PROVE  i \in Fine /\ f[i] = advance(f[i - 1], interval)
  <2>1. PICK d : d = f[i - 1]
    OBVIOUS
  <2>2. d \in Int /\ d >= first + 28 * (i - 1) /\ d \in Reach(first, interval)
    BY <1>4, <2>1
  <2>3. f[i] = AddMonths(d, Period[interval])
    BY <1>1, <2>1
  <2>4. f[i] = advance(d, interval) /\ f[i] \in Int /\ d + 28 <= f[i]
    BY <2>2, <2>3, AdvanceIs
  <2>5. f[i] \in Reach(first, interval)
    <3>1. ASSUME NEW C \in SUBSET Int, first \in C, Closed(C, interval) PROVE f[i] \in C
      <4>1. d \in C
        BY <2>2, <3>1 DEF Reach
      <4> QED BY <2>4, <3>1, <4>1 DEF Closed
    <3> QED BY <2>4, <3>1 DEF Reach
  <2>6. i \in 0 .. n /\ f[i] >= first + 28 * i
    BY <2>2, <2>4
  <2> QED BY <2>1, <2>4, <2>5, <2>6
<1>5. \A i \in 0 .. n : i \in Fine
  <2>1. \A i \in 1 .. n : i - 1 \in Fine => i \in Fine
    BY <1>4
  <2> HIDE DEF Fine
  <2> QED BY <1>3, <2>1, Induct
<1>6. ASSUME NEW k \in 1 .. n PROVE f[k] = advance(f[k - 1], interval)
  BY <1>4, <1>5
<1> QED BY <1>2, <1>5, <1>6

\* The dates on which a series is due since a start.
DueSince(next, interval, start, day) ==
    {d \in Reach(FirstDue(next, interval, start), interval) : start < d /\ d <= day}

\* DueUntil has the dates that can be reached, from the start to a day.
LEMMA DueIs ==
    ASSUME NEW interval \in DOMAIN Period, NEW next \in Int, NEW start \in Int, NEW day \in Int
    PROVE  DueUntil(next, interval, start, day) = DueSince(next, interval, start, day)
<1> DEFINE first == FirstDue(next, interval, start)
           most  == (day - first) \div 28
           Kth[k \in 0 .. most] == IF k = 0 THEN first ELSE AddMonths(Kth[k - 1], Period[interval])
<1>1. DueUntil(next, interval, start, day) = {d \in {Kth[k] : k \in 0 .. most} : start < d /\ d <= day}
  BY DEF DueUntil
<1>2. first \in Int
  BY DEF FirstDue, cadenceDays, Period
<1> HIDE DEF first
<1>3. most \in Int /\ 28 * most <= day - first /\ day - first < 28 * most + 28 /\ (day >= first => most >= 0)
  <2>1. PICK x, z : x = day - first /\ z = 28
    OBVIOUS
  <2>2. x \in Int /\ z \in Nat \ {0} /\ most = x \div z
    BY <1>2, <2>1
  <2>3. x \div z \in Int /\ z * (x \div z) <= x /\ x < z * (x \div z) + z /\ (x >= 0 => x \div z >= 0)
    BY <2>2, Quotient
  <2> QED BY <1>2, <2>1, <2>2, <2>3
<1> HIDE DEF most
<1>4. Terms(Kth, most, first, interval)
  <2>1. \E f : Terms(f, most, first, interval)
    BY <1>2, <1>3, TermsExist
  <2>2. \E f : f = [k \in 0 .. most |-> IF k = 0 THEN first ELSE AddMonths(f[k - 1], Period[interval])]
    BY <2>1 DEF Terms
  <2> QED BY <2>2 DEF Terms
<1> HIDE DEF Kth
<1>5. ASSUME NEW k \in 0 .. most PROVE Kth[k] \in Reach(first, interval)
  <2>1. most \in Nat
    BY <1>3
  <2> QED BY <1>2, <1>4, <2>1, TermsAre
<1>6. ASSUME NEW d \in Reach(first, interval), d <= day PROVE \E k \in 0 .. most : d = Kth[k]
  <2>1. PICK C : C = {Kth[k] : k \in 0 .. most} \cup {e \in Int : day < e}
    OBVIOUS
  <2>2. first <= d /\ d \in Int
    BY <1>2, ReachIs DEF Reach
  <2>3. most \in Nat
    BY <1>2, <1>3, <1>6, <2>2
  <2>4. /\ \A k \in 0 .. most : Kth[k] \in Int /\ Kth[k] >= first + 28 * k
        /\ Kth[0] = first /\ \A k \in 1 .. most : Kth[k] = advance(Kth[k - 1], interval)
    BY <1>2, <1>4, <2>3, TermsAre
  <2>5. C \in SUBSET Int /\ first \in C
    BY <2>1, <2>3, <2>4
  <2>6. Closed(C, interval)
    <3>1. ASSUME NEW c \in Int, day < c PROVE advance(c, interval) \in C
      <4>1. advance(c, interval) \in Int /\ c + 28 <= advance(c, interval)
        BY AdvanceIs
      <4> QED BY <2>1, <3>1, <4>1
    <3>2. ASSUME NEW k \in 0 .. most PROVE advance(Kth[k], interval) \in C
      <4>1. CASE k < most
        <5>1. k + 1 \in 1 .. most /\ (k + 1) - 1 = k /\ k + 1 \in 0 .. most
          BY <2>3, <4>1
        <5>2. Kth[k + 1] = advance(Kth[k], interval)
          BY <2>4, <5>1
        <5> QED BY <2>1, <5>1, <5>2
      <4>2. CASE k = most
        <5>1. advance(Kth[k], interval) \in Int /\ Kth[k] + 28 <= advance(Kth[k], interval)
          BY <2>4, AdvanceIs
        <5>2. Kth[k] \in Int /\ Kth[k] >= first + 28 * most
          BY <2>4, <4>2
        <5>3. day < advance(Kth[k], interval)
          BY <1>2, <1>3, <5>1, <5>2
        <5> QED BY <2>1, <5>1, <5>3
      <4> QED BY <2>3, <4>1, <4>2
    <3>3. ASSUME NEW c \in C PROVE advance(c, interval) \in C
      <4>1. CASE c \in {Kth[k] : k \in 0 .. most}
        BY <3>2, <4>1
      <4>2. CASE c \notin {Kth[k] : k \in 0 .. most}
        <5>1. c \in Int /\ day < c
          BY <2>1, <4>2
        <5> QED BY <3>1, <5>1
      <4> QED BY <4>1, <4>2
    <3> QED BY <3>3 DEF Closed
  <2>7. d \in C
    BY <2>5, <2>6 DEF Reach
  <2> QED BY <1>6, <2>1, <2>2, <2>7
<1>7. {d \in {Kth[k] : k \in 0 .. most} : start < d /\ d <= day}
         = {d \in Reach(first, interval) : start < d /\ d <= day}
  BY <1>5, <1>6
<1> QED BY <1>1, <1>7 DEF DueSince, first

\* A day more has a date more if the series is due on it.
DueNext(next, interval, start, day) ==
    TimesDue(next, interval, start, day + 1)
        = TimesDue(next, interval, start, day)
          + (IF day + 1 \in DueSince(next, interval, start, day + 1) THEN 1 ELSE 0)

\* Every day a series is due on counts once.
LEMMA DueCounts ==
    ASSUME NEW interval \in DOMAIN Period, NEW next \in Int, NEW start \in Int, NEW day \in Int
    PROVE  /\ IsFiniteSet(DueSince(next, interval, start, day))
           /\ TimesDue(next, interval, start, day) \in Nat
           /\ day <= start => TimesDue(next, interval, start, day) = 0
           /\ DueNext(next, interval, start, day)
<1>1. PICK A, B : A = DueSince(next, interval, start, day) /\ B = DueSince(next, interval, start, day + 1)
  OBVIOUS
<1>2. /\ \A d \in A : d \in Int /\ start < d /\ d <= day
      /\ \A d \in B : d \in Int /\ start < d /\ d <= day + 1
      /\ \A d \in Int : d # day + 1 => (d \in A <=> d \in B)
  <2>1. \A d \in Reach(FirstDue(next, interval, start), interval) : d \in Int
    BY DEF Reach
  <2> QED BY <1>1, <2>1 DEF DueSince
<1>3. IsFiniteSet(A)
  <2>1. A \in SUBSET (start .. day)
    BY <1>2
  <2>2. IsFiniteSet(start .. day)
    BY FS_Interval
  <2> QED BY <2>1, <2>2, FS_Subset
<1>4. TimesDue(next, interval, start, day) = Cardinality(A)
  <2>1. DueUntil(next, interval, start, day) = A
    BY <1>1, DueIs
  <2> QED BY <2>1 DEF TimesDue
<1>5. TimesDue(next, interval, start, day + 1) = Cardinality(B)
  <2>1. day + 1 \in Int
    OBVIOUS
  <2>2. DueUntil(next, interval, start, day + 1) = B
    BY <1>1, <2>1, DueIs
  <2> QED BY <2>2 DEF TimesDue
<1>6. Cardinality(A) \in Nat
  BY <1>3, FS_CardinalityType
<1>7. day <= start => Cardinality(A) = 0
  <2>1. day <= start => A = {}
    BY <1>2
  <2>2. Cardinality({}) = 0
    BY FS_EmptySet
  <2> QED BY <2>1, <2>2
<1>8. Cardinality(B) = Cardinality(A) + (IF day + 1 \in B THEN 1 ELSE 0)
  <2>1. day + 1 \notin A /\ day + 1 \in Int
    BY <1>2
  <2>2. CASE day + 1 \in B
    <3>1. B = A \cup {day + 1}
      BY <1>2, <2>2
    <3>2. Cardinality(A \cup {day + 1}) = Cardinality(A) + 1
      BY <1>3, <2>1, FS_AddElement
    <3> QED BY <2>2, <3>1, <3>2
  <2>3. CASE day + 1 \notin B
    <3>1. B = A
      BY <1>2, <2>3
    <3> QED BY <1>6, <2>3, <3>1
  <2> QED BY <2>2, <2>3
<1> QED BY <1>1, <1>3, <1>4, <1>5, <1>6, <1>7, <1>8 DEF DueNext
-----------------------------------------------------------------------------
(* The flow of series                                                      *)

\* Sums of two terms each are two sums.
LEMMA SumPlus ==
    ASSUME NEW S, IsFiniteSet(S), NEW f, NEW g, NEW h,
           \A x \in S : f[x] \in Int /\ g[x] \in Int /\ h[x] = f[x] + g[x]
    PROVE  SumFunctionOnSet(h, S) = SumFunctionOnSet(f, S) + SumFunctionOnSet(g, S)
<1> DEFINE P == {T \in SUBSET S : /\ SumFunctionOnSet(f, T) \in Int /\ SumFunctionOnSet(g, T) \in Int
                                  /\ SumFunctionOnSet(h, T) = SumFunctionOnSet(f, T) + SumFunctionOnSet(g, T)}
<1>1. \A x \in S : h[x] \in Int
  OBVIOUS
<1>2. {} \in P
  <2>1. IsFiniteSet({})
    BY FS_EmptySet
  <2>2. SumFunctionOnSet(f, {}) = 0 /\ SumFunctionOnSet(g, {}) = 0 /\ SumFunctionOnSet(h, {}) = 0
    BY <2>1, SumTyped
  <2> QED BY <2>2
<1>3. ASSUME NEW T \in SUBSET S, NEW x \in S, T \in P, x \notin T PROVE T \cup {x} \in P
  <2>1. PICK a, b, u, v : a = SumFunctionOnSet(f, T) /\ b = SumFunctionOnSet(g, T) /\ u = f[x] /\ v = g[x]
    OBVIOUS
  <2>2. a \in Int /\ b \in Int /\ u \in Int /\ v \in Int /\ h[x] = u + v /\ SumFunctionOnSet(h, T) = a + b
    BY <1>3, <2>1
  <2>3. SumFunctionOnSet(f, T \cup {x}) = u + a /\ SumFunctionOnSet(g, T \cup {x}) = v + b
    BY <1>3, <2>1, SumWith
  <2>4. SumFunctionOnSet(h, T \cup {x}) = (u + v) + (a + b)
    BY <1>1, <1>3, <2>2, SumWith
  <2>5. (u + v) + (a + b) = (u + a) + (v + b) /\ u + a \in Int /\ v + b \in Int
    BY <2>2
  <2> QED BY <2>3, <2>4, <2>5
<1>4. S \in P
  <2>1. \A T \in SUBSET S, x \in S : T \in P /\ x \notin T => T \cup {x} \in P
    BY <1>3
  <2> HIDE DEF P
  <2> QED BY <1>2, <2>1, FiniteInduct
<1> QED BY <1>4

\* Terms that are none have no sum.
LEMMA SumOfNone ==
    ASSUME NEW S, IsFiniteSet(S), NEW f, \A x \in S : f[x] = 0
    PROVE  SumFunctionOnSet(f, S) = 0
<1>1. PICK c : c = 0
  OBVIOUS
<1>2. c \in Int /\ \A x \in S : f[x] \in Int /\ f[x] = c * f[x]
  BY <1>1
<1>3. SumFunctionOnSet(f, S) \in Int /\ SumFunctionOnSet(f, S) = c * SumFunctionOnSet(f, S)
  BY <1>2, SumScaled
<1> QED BY <1>1, <1>3

\* The terms that are none may be left out.
LEMMA SumOfSome ==
    ASSUME NEW S, IsFiniteSet(S), NEW T \in SUBSET S, NEW f, \A x \in S : f[x] \in Int,
           \A x \in S \ T : f[x] = 0
    PROVE  SumFunctionOnSet(f, S) = SumFunctionOnSet(f, T)
<1>1. PICK U : U = S \ T
  OBVIOUS
<1>2. IsFiniteSet(T) /\ IsFiniteSet(U) /\ T \cap U = {}
  <2>1. U \in SUBSET S
    BY <1>1
  <2>2. IsFiniteSet(T) /\ IsFiniteSet(U)
    BY <2>1, FS_Subset
  <2> QED BY <1>1, <2>2
<1>3. T \cup U = S
  BY <1>1
<1>4. \A x \in T \cup U : f[x] \in Int
  BY <1>3
<1>5. SumFunctionOnSet(f, T \cup U) = SumFunctionOnSet(f, T) + SumFunctionOnSet(f, U)
  BY <1>2, <1>4, SumUnion
<1>6. SumFunctionOnSet(f, U) = 0
  BY <1>1, <1>2, SumOfNone
<1>7. SumFunctionOnSet(f, T) \in Int
  <2>1. \A x \in T : f[x] \in Int
    OBVIOUS
  <2> QED BY <1>2, <2>1, SumTyped
<1>8. SumFunctionOnSet(f, T) + SumFunctionOnSet(f, U) = SumFunctionOnSet(f, T)
  BY <1>6, <1>7
<1> QED BY <1>3, <1>5, <1>8

\* Members may be given other names.
LEMMA SumRenamed ==
    ASSUME NEW S, IsFiniteSet(S), NEW f, \A x \in S : f[x] \in Int,
           NEW K, NEW name, NEW of, \A x \in S : name[x] \in K /\ of[name[x]] = x,
           \A k \in K : of[k] \in S /\ name[of[k]] = k,
           NEW h, \A k \in K : h[k] = f[of[k]]
    PROVE  IsFiniteSet(K) /\ SumFunctionOnSet(h, K) = SumFunctionOnSet(f, S)
<1>1. IsFiniteSet(K)
  <2>1. K = {name[x] : x \in S}
    OBVIOUS
  <2> QED BY <2>1, FiniteImage
<1>2. PICK part : part = [k \in K |-> {of[k]}]
  OBVIOUS
<1>3. \A k \in K : part[k] = {of[k]} /\ of[k] \in S /\ name[of[k]] = k
  BY <1>2
<1>4. \A k \in K : part[k] \in SUBSET S /\ \A x \in S : x \in part[k] <=> name[x] = k
  BY <1>3
<1>5. ASSUME NEW k \in K PROVE h[k] = SumFunctionOnSet(f, part[k])
  <2>1. PICK x : x = of[k]
    OBVIOUS
  <2>2. x \in S /\ part[k] = {x} /\ h[k] = f[x]
    BY <1>3, <2>1
  <2>3. PICK none : none = {}
    OBVIOUS
  <2>4. none \in SUBSET S /\ x \notin none /\ none \cup {x} = {x}
    BY <2>3
  <2>5. SumFunctionOnSet(f, none \cup {x}) = f[x] + SumFunctionOnSet(f, none)
    BY <2>2, <2>4, SumWith
  <2>6. SumFunctionOnSet(f, none) = 0
    BY <2>3, SumTyped
  <2>7. f[x] \in Int
    BY <2>2
  <2>8. SumFunctionOnSet(f, {x}) = f[x] + 0
    BY <2>4, <2>5, <2>6
  <2>9. f[x] + 0 = f[x]
    BY <2>7
  <2> QED BY <2>2, <2>8, <2>9
<1>6. \A x \in S : name[x] \in K
  OBVIOUS
<1>7. SumFunctionOnSet(h, K) = SumFunctionOnSet(f, S)
  BY <1>1, <1>4, <1>5, <1>6, SumParts
<1> QED BY <1>1, <1>7

\* Series a projection can follow.
Datable(S) == /\ IsFiniteSet(S)
             /\ \A s \in S : s.interval \in DOMAIN Period /\ s.next \in Int /\ Delta(s) \in Int

\* What series come to from the start to a day.
FlowOf(S, start, day) ==
    SumFunction([s \in S |-> Delta(s) * TimesDue(s.next, s.interval, start, start + day)])

\* The series due on a day.
DueOn(S, day, start) == {s \in S : day \in DueSince(s.next, s.interval, start, day)}

\* What a day adds to the flow is what is due on it.
LEMMA FlowGrows ==
    ASSUME NEW S, Datable(S), NEW start \in Int, NEW t \in Nat
    PROVE  /\ FlowOf(S, start, t) \in Int
           /\ FlowOf(S, start, 0) = 0
           /\ IsFiniteSet(DueOn(S, start + (t + 1), start))
           /\ SumFunctionOnSet([s \in S |-> Delta(s)], DueOn(S, start + (t + 1), start)) \in Int
           /\ FlowOf(S, start, t + 1)
                 = FlowOf(S, start, t) + SumFunctionOnSet([s \in S |-> Delta(s)], DueOn(S, start + (t + 1), start))
<1> DEFINE h(n) == [s \in S |-> Delta(s) * TimesDue(s.next, s.interval, start, start + n)]
           T == DueOn(S, start + (t + 1), start)
           o == [s \in S |-> IF s \in T THEN Delta(s) ELSE 0]
           d == [s \in S |-> Delta(s)]
<1>1. IsFiniteSet(S) /\ \A s \in S : s.interval \in DOMAIN Period /\ s.next \in Int /\ Delta(s) \in Int
  BY DEF Datable
<1>2. ASSUME NEW n PROVE FlowOf(S, start, n) = SumFunctionOnSet(h(n), S)
  BY DEF FlowOf, SumFunction
<1>3. ASSUME NEW s \in S, NEW n \in Nat
      PROVE  /\ h(n)[s] \in Int
             /\ h(n + 1)[s] = h(n)[s] + (IF start + (n + 1) \in DueSince(s.next, s.interval, start, start + (n + 1))
                                         THEN Delta(s) ELSE 0)
             /\ h(0)[s] = 0
  <2>1. PICK k, m, x, e : /\ k = TimesDue(s.next, s.interval, start, start + n)
                          /\ m = TimesDue(s.next, s.interval, start, start + (n + 1))
                          /\ x = Delta(s)
                          /\ e = IF start + (n + 1) \in DueSince(s.next, s.interval, start, start + (n + 1))
                                 THEN 1 ELSE 0
    OBVIOUS
  <2>2. k \in Nat /\ e \in {0, 1} /\ m = k + e
    <3>1. PICK day : day = start + n
      OBVIOUS
    <3>2. day \in Int /\ day + 1 = start + (n + 1)
      BY <3>1
    <3>3. s.interval \in DOMAIN Period /\ s.next \in Int
      BY <1>1
    <3>4. TimesDue(s.next, s.interval, start, day) \in Nat /\ DueNext(s.next, s.interval, start, day)
      BY <3>2, <3>3, DueCounts
    <3> QED BY <2>1, <3>1, <3>2, <3>4 DEF DueNext
  <2>3. TimesDue(s.next, s.interval, start, start + 0) = 0
    <3>1. start + 0 = start /\ start <= start
      OBVIOUS
    <3>2. TimesDue(s.next, s.interval, start, start) = 0
      <4>1. s.interval \in DOMAIN Period /\ s.next \in Int /\ start \in Int
        BY <1>1
      <4> QED BY ONLY <3>1, <4>1, DueCounts
    <3> QED BY <3>1, <3>2
  <2>4. x \in Int /\ h(n)[s] = x * k /\ h(n + 1)[s] = x * m /\ h(0)[s] = x * 0
    BY <1>1, <2>1, <2>3
  <2>5. x * k \in Int /\ x * 0 = 0 /\ x * m = x * k + (IF e = 1 THEN x ELSE 0)
    BY <2>2, <2>4
  <2>6. e = 1 <=> start + (n + 1) \in DueSince(s.next, s.interval, start, start + (n + 1))
    BY <2>1
  <2> QED BY <2>1, <2>4, <2>5, <2>6
<1> HIDE DEF h
<1>4. SumFunctionOnSet(h(t), S) \in Int
  BY <1>1, <1>3, SumTyped
<1>5. SumFunctionOnSet(h(0), S) = 0
  BY <1>1, <1>3, SumOfNone
<1>6. T \in SUBSET S /\ IsFiniteSet(T)
  <2>1. T \in SUBSET S
    BY DEF DueOn
  <2> QED BY <1>1, <2>1, FS_Subset
<1>7. \A s \in S : s \in T <=> start + (t + 1) \in DueSince(s.next, s.interval, start, start + (t + 1))
  BY DEF DueOn
<1> HIDE DEF T
<1>8. \A s \in S : /\ d[s] = Delta(s) /\ d[s] \in Int /\ o[s] \in Int
                   /\ (s \in T => o[s] = d[s]) /\ (s \notin T => o[s] = 0)
  BY <1>1
<1>9. \A s \in S : h(t + 1)[s] = h(t)[s] + o[s] /\ h(t)[s] \in Int
  BY <1>3, <1>7
<1> HIDE DEF d, o
<1>10. SumFunctionOnSet(h(t + 1), S) = SumFunctionOnSet(h(t), S) + SumFunctionOnSet(o, S)
  BY <1>1, <1>8, <1>9, SumPlus
<1>11. SumFunctionOnSet(o, S) = SumFunctionOnSet(o, T)
  BY <1>1, <1>6, <1>8, SumOfSome
<1>12. SumFunctionOnSet(o, T) = SumFunctionOnSet(d, T) /\ SumFunctionOnSet(d, T) \in Int
  <2>1. \A s \in T : d[s] \in Int /\ o[s] = d[s]
    BY <1>6, <1>8
  <2>2. SumFunctionOnSet(o, T) = SumFunctionOnSet(d, T)
    BY <1>6, <2>1, SumSame
  <2> QED BY <1>6, <2>1, <2>2, SumTyped
<1> QED BY <1>2, <1>4, <1>5, <1>6, <1>10, <1>11, <1>12 DEF d, T
-----------------------------------------------------------------------------
(* The balances of a projection, day by day                                *)

\* The balances of the days from one to another, each after the one before.
Turn(after, balance, t) == after[balance][t]
Turnable(after) == \A x \in Int, t \in Nat : Turn(after, x, t) \in Int
\* The number of days of a path.
PathLength(from, to) == IF to <= from THEN 1 ELSE to - from + 1
\* A sequence of balances, each the turn of the one before.
IsPath(p, from, to, balance, after) ==
    /\ p \in [1 .. PathLength(from, to) -> Int]
    /\ p[1] = balance
    /\ \A i \in 1 .. PathLength(from, to) - 1 : p[i + 1] = Turn(after, p[i], from + i)

\* The number of days is positive.
LEMMA PathLengthIs ==
    ASSUME NEW from \in Nat, NEW to \in Nat
    PROVE  /\ PathLength(from, to) \in Nat /\ PathLength(from, to) >= 1
           /\ to <= from => PathLength(from, to) = 1
           /\ from <= to => PathLength(from, to) = (to - from) + 1
BY DEF PathLength

\* A path of one day, and one of a day more.
LEMMA PathBegins ==
    ASSUME NEW after, NEW from \in Nat, NEW to \in Nat, to <= from, NEW balance \in Int
    PROVE  IsPath([i \in 1 .. 1 |-> balance], from, to, balance, after)
<1>1. PICK p : p = [i \in 1 .. 1 |-> balance]
  OBVIOUS
<1>2. p \in [1 .. 1 -> Int] /\ p[1] = balance
  BY <1>1
<1>3. PathLength(from, to) = 1
  BY PathLengthIs
<1>4. \A i \in 1 .. 1 - 1 : p[i + 1] = Turn(after, p[i], from + i)
  <2>1. 1 .. 1 - 1 = {}
    OBVIOUS
  <2> QED BY <2>1
<1>5. IsPath(p, from, to, balance, after)
  BY <1>2, <1>3, <1>4 DEF IsPath
<1> QED BY <1>1, <1>5

\* A path goes on for a day.
LEMMA PathGoesOn ==
    ASSUME NEW after, Turnable(after), NEW from \in Nat, NEW n \in Nat, n >= 1, NEW balance,
           NEW p, IsPath(p, from, from + (n - 1), balance, after),
           NEW q, q = [i \in 1 .. n + 1 |-> IF i = n + 1 THEN Turn(after, p[n], from + n) ELSE p[i]]
    PROVE  IsPath(q, from, from + n, balance, after)
<1>1. PICK a, b : a = from + (n - 1) /\ b = from + n
  OBVIOUS
<1>2. a \in Nat /\ b \in Nat /\ from <= a /\ from <= b
  BY <1>1
<1>3. PathLength(from, a) = n /\ PathLength(from, b) = n + 1
  <2>1. PathLength(from, a) = (a - from) + 1 /\ PathLength(from, b) = (b - from) + 1
    BY <1>2, PathLengthIs
  <2> QED BY <1>1, <2>1
<1>4. /\ p \in [1 .. n -> Int] /\ p[1] = balance
      /\ \A i \in 1 .. n - 1 : p[i + 1] = Turn(after, p[i], from + i)
  BY <1>1, <1>3 DEF IsPath
<1>5. PICK x : x = Turn(after, p[n], from + n)
  OBVIOUS
<1>6. x \in Int
  <2>1. p[n] \in Int
    BY <1>4
  <2>2. from + n \in Nat
    OBVIOUS
  <2> QED BY <1>5, <2>1, <2>2 DEF Turnable
<1>7. q \in [1 .. n + 1 -> Int] /\ q[n + 1] = x /\ \A i \in 1 .. n : q[i] = p[i]
  <2>1. q[n + 1] = x /\ \A i \in 1 .. n : q[i] = p[i]
    BY <1>5
  <2>2. \A i \in 1 .. n + 1 : q[i] \in Int
    BY <1>4, <1>6, <2>1
  <2> QED BY <2>1, <2>2
<1>8. q[1] = balance
  BY <1>4, <1>7
<1>9. ASSUME NEW i \in 1 .. n PROVE q[i + 1] = Turn(after, q[i], from + i)
  <2>1. CASE i = n
    <3>1. q[i + 1] = x /\ q[i] = p[n]
      BY <1>7, <2>1
    <3> QED BY <1>5, <2>1, <3>1
  <2>2. CASE i # n
    <3>1. i \in 1 .. n - 1 /\ i + 1 \in 1 .. n
      BY <2>2
    <3>2. q[i + 1] = p[i + 1] /\ q[i] = p[i]
      BY <1>7, <3>1
    <3> QED BY <1>4, <3>1, <3>2
  <2> QED BY <2>1, <2>2
<1>10. (n + 1) - 1 = n
  OBVIOUS
<1>11. IsPath(q, from, b, balance, after)
  BY <1>3, <1>7, <1>8, <1>9, <1>10 DEF IsPath
<1> QED BY <1>1, <1>11

\* There is a path from any day to any other.
LEMMA PathExists ==
    ASSUME NEW after, Turnable(after), NEW from \in Nat, NEW to \in Nat, NEW balance \in Int
    PROVE  \E p : IsPath(p, from, to, balance, after)
<1>1. CASE to <= from
  BY <1>1, PathBegins
<1>2. CASE from < to
  <2>1. PICK N : N = to - from
    OBVIOUS
  <2>2. N \in Nat /\ from + N = to
    BY <1>2, <2>1
  <2> DEFINE Fine == {n \in 0 .. N : \E p : IsPath(p, from, from + n, balance, after)}
  <2>3. 0 \in Fine
    <3>1. from + 0 \in Nat /\ from + 0 <= from
      OBVIOUS
    <3>2. \E p : IsPath(p, from, from + 0, balance, after)
      BY <3>1, PathBegins
    <3> QED BY <2>2, <3>2
  <2>4. ASSUME NEW n \in 1 .. N, n - 1 \in Fine PROVE n \in Fine
    <3>1. PICK p : IsPath(p, from, from + (n - 1), balance, after)
      BY <2>4
    <3>2. n \in Nat /\ n >= 1
      BY <2>2
    <3>3. \E q : IsPath(q, from, from + n, balance, after)
      BY <3>1, <3>2, PathGoesOn
    <3> QED BY <2>2, <3>3
  <2>5. N \in Fine
    <3>1. \A n \in 1 .. N : n - 1 \in Fine => n \in Fine
      BY <2>4
    <3> HIDE DEF Fine
    <3>2. \A n \in 0 .. N : n \in Fine
      BY <2>2, <2>3, <3>1, Induct
    <3> QED BY <2>2, <3>2
  <2> QED BY <2>2, <2>5
<1> QED BY <1>1, <1>2

\* There is one only.
LEMMA PathUnique ==
    ASSUME NEW after, NEW from \in Nat, NEW to \in Nat, NEW balance,
           NEW p, IsPath(p, from, to, balance, after), NEW q, IsPath(q, from, to, balance, after)
    PROVE  p = q
<1>1. PICK n : n = PathLength(from, to)
  OBVIOUS
<1>2. n \in Nat /\ n >= 1 /\ n - 1 \in Nat
  <2>1. n \in Nat /\ n >= 1
    BY <1>1, PathLengthIs
  <2> QED BY <2>1
<1>3. /\ p \in [1 .. n -> Int] /\ q \in [1 .. n -> Int] /\ p[1] = q[1]
      /\ \A i \in 1 .. n - 1 : p[i + 1] = Turn(after, p[i], from + i) /\ q[i + 1] = Turn(after, q[i], from + i)
  BY <1>1 DEF IsPath
<1> DEFINE Same == {i \in 0 .. n - 1 : p[i + 1] = q[i + 1]}
<1>4. 0 \in Same
  BY <1>2, <1>3
<1>5. ASSUME NEW i \in 1 .. n - 1, i - 1 \in Same PROVE i \in Same
  <2>1. p[i] = q[i]
    <3>1. (i - 1) + 1 = i
      OBVIOUS
    <3> QED BY <1>5, <3>1
  <2>2. p[i + 1] = q[i + 1]
    BY <1>3, <2>1
  <2> QED BY <2>2
<1>6. \A i \in 0 .. n - 1 : i \in Same
  <2>1. \A i \in 1 .. n - 1 : i - 1 \in Same => i \in Same
    BY <1>5
  <2> HIDE DEF Same
  <2> QED BY <1>2, <1>4, <2>1, Induct
<1>7. ASSUME NEW j \in 1 .. n PROVE p[j] = q[j]
  <2>1. j - 1 \in 0 .. n - 1 /\ (j - 1) + 1 = j
    BY <1>2
  <2> QED BY <1>6, <2>1
<1>8. p = [j \in 1 .. n |-> p[j]] /\ q = [j \in 1 .. n |-> q[j]]
  BY <1>3
<1>9. [j \in 1 .. n |-> p[j]] = [j \in 1 .. n |-> q[j]]
  BY <1>7
<1> QED BY <1>8, <1>9

\* Two paths, the second from where the first ends.
JoinedAt(r, p, q, m, n) == r = [i \in 1 .. m + (n - 1) |-> IF i <= m THEN p[i] ELSE q[i - (m - 1)]]

\* Two paths, the second from where the first ends, are one.
LEMMA PathJoins ==
    ASSUME NEW after, NEW from \in Nat, NEW half \in Nat, NEW to \in Nat, from < half, half < to,
           NEW balance, NEW p, IsPath(p, from, half, balance, after),
           NEW m, m = half - from + 1, NEW n, n = to - half + 1,
           NEW q, IsPath(q, half, to, p[m], after),
           NEW r, JoinedAt(r, p, q, m, n)
    PROVE  IsPath(r, from, to, balance, after)
<1> USE DEF JoinedAt
<1>1. /\ m \in Nat /\ n \in Nat /\ m >= 2 /\ n >= 2 /\ m + (n - 1) = (to - from) + 1
      /\ from + (m - 1) = half
  OBVIOUS
<1>2. PathLength(from, half) = m /\ PathLength(half, to) = n /\ PathLength(from, to) = m + (n - 1)
  BY <1>1 DEF PathLength
<1>3. /\ p \in [1 .. m -> Int] /\ p[1] = balance
      /\ \A i \in 1 .. m - 1 : p[i + 1] = Turn(after, p[i], from + i)
  BY <1>2 DEF IsPath
<1>4. /\ q \in [1 .. n -> Int] /\ q[1] = p[m]
      /\ \A i \in 1 .. n - 1 : q[i + 1] = Turn(after, q[i], half + i)
  BY <1>2 DEF IsPath
<1>5. ASSUME NEW i \in 1 .. m PROVE r[i] = p[i]
  BY <1>1
<1>6. ASSUME NEW i \in 1 .. n PROVE r[(m - 1) + i] = q[i]
  <2>1. CASE i = 1
    <3>1. (m - 1) + i = m /\ m \in 1 .. m
      BY <1>1, <2>1
    <3> QED BY <1>4, <1>5, <2>1, <3>1
  <2>2. CASE i # 1
    <3>1. PICK k : k = (m - 1) + i
      OBVIOUS
    <3>2. k \in 1 .. m + (n - 1) /\ ~(k <= m) /\ k - (m - 1) = i
      BY <1>1, <2>2, <3>1
    <3>3. r[k] = q[i]
      BY <3>2
    <3> QED BY <3>1, <3>3
  <2> QED BY <2>1, <2>2
<1>7. r \in [1 .. m + (n - 1) -> Int]
  <2>1. ASSUME NEW k \in 1 .. m + (n - 1) PROVE r[k] \in Int
    <3>1. CASE k <= m
      <4>1. k \in 1 .. m
        BY <1>1, <3>1
      <4> QED BY <1>3, <1>5, <4>1
    <3>2. CASE ~(k <= m)
      <4>1. k - (m - 1) \in 1 .. n
        BY <1>1, <3>2
      <4> QED BY <1>4, <3>2, <4>1
    <3> QED BY <3>1, <3>2
  <2> QED BY <2>1
<1>8. ASSUME NEW i \in 1 .. (m + (n - 1)) - 1 PROVE r[i + 1] = Turn(after, r[i], from + i)
  <2>1. CASE i < m
    <3>1. i \in 1 .. m - 1 /\ i \in 1 .. m /\ i + 1 \in 1 .. m
      BY <1>1, <2>1
    <3>2. r[i] = p[i] /\ r[i + 1] = p[i + 1]
      BY <1>5, <3>1
    <3> QED BY <1>3, <3>1, <3>2
  <2>2. CASE i >= m
    <3>1. PICK k : k = i - (m - 1)
      OBVIOUS
    <3>2. /\ k \in 1 .. n - 1 /\ k \in 1 .. n /\ k + 1 \in 1 .. n
          /\ (m - 1) + k = i /\ (m - 1) + (k + 1) = i + 1 /\ half + k = from + i
      BY <1>1, <2>2, <3>1
    <3>3. r[i] = q[k] /\ r[i + 1] = q[k + 1]
      BY <1>6, <3>2
    <3>4. q[k + 1] = Turn(after, q[k], half + k)
      BY <1>4, <3>2
    <3> QED BY <3>2, <3>3, <3>4
  <2> QED BY <1>1, <2>1, <2>2
<1>9. r[1] = balance
  <2>1. 1 \in 1 .. m
    BY <1>1
  <2> QED BY <1>3, <1>5, <2>1
<1> QED BY <1>2, <1>7, <1>8, <1>9 DEF IsPath
-----------------------------------------------------------------------------
(* The balances in two parts                                               *)

\* A function on a first part of the naturals is a sequence.
LEMMA OneTerm ==
    ASSUME NEW x \in Int
    PROVE  <<x>> = [i \in 1 .. 1 |-> x]
OBVIOUS

\* So is one of two terms.
LEMMA TwoTerms ==
    ASSUME NEW x \in Int, NEW y \in Int
    PROVE  <<x, y>> = [i \in 1 .. 2 |-> IF i = 2 THEN y ELSE x]
OBVIOUS

\* The length of such a sequence.
LEMMA LengthIs ==
    ASSUME NEW m \in Nat, NEW p \in [1 .. m -> Int]
    PROVE  p \in Seq(Int) /\ Len(p) = m
OBVIOUS

\* Two sequences joined, term by term.
LEMMA Joining ==
    ASSUME NEW p \in Seq(Int), NEW s \in Seq(Int)
    PROVE  /\ p \o s \in Seq(Int) /\ Len(p \o s) = Len(p) + Len(s)
           /\ \A i \in 1 .. Len(p) + Len(s) : (p \o s)[i] = IF i <= Len(p) THEN p[i] ELSE s[i - Len(p)]
OBVIOUS

\* A function on a first part of the naturals is a sequence of its values.
LEMMA Listed ==
    ASSUME NEW p \in Seq(Int), NEW n \in Nat, Len(p) = n
    PROVE  p = [i \in 1 .. n |-> p[i]]
OBVIOUS

\* The tail of a sequence, term by term.
LEMMA TailIs ==
    ASSUME NEW q \in Seq(Int), NEW n \in Nat, n >= 1, Len(q) = n
    PROVE  Tail(q) \in Seq(Int) /\ Len(Tail(q)) = n - 1 /\ \A i \in 1 .. n - 1 : Tail(q)[i] = q[i + 1]
OBVIOUS

\* A sequence and the tail of another, term by term.
LEMMA JoinedTails ==
    ASSUME NEW m \in Nat, m >= 1, NEW n \in Nat, n >= 1, NEW p \in [1 .. m -> Int], NEW q \in [1 .. n -> Int]
    PROVE  JoinedAt(p \o Tail(q), p, q, m, n)
<1>1. p \in Seq(Int) /\ Len(p) = m /\ q \in Seq(Int) /\ Len(q) = n
  BY LengthIs
<1>2. PICK s, r : s = Tail(q) /\ r = p \o Tail(q)
  OBVIOUS
<1>3. s \in Seq(Int) /\ Len(s) = n - 1 /\ \A i \in 1 .. n - 1 : s[i] = q[i + 1]
  BY <1>1, <1>2, TailIs
<1>4. /\ r \in Seq(Int) /\ Len(r) = Len(p) + Len(s)
      /\ \A i \in 1 .. Len(p) + Len(s) : r[i] = IF i <= Len(p) THEN p[i] ELSE s[i - Len(p)]
  <2>1. r = p \o s
    BY <1>2
  <2> QED BY <1>1, <1>3, <2>1, Joining
<1>5. PICK k : k = m + (n - 1)
  OBVIOUS
<1>6. k \in Nat /\ Len(r) = k /\ \A i \in 1 .. k : r[i] = IF i <= m THEN p[i] ELSE s[i - m]
  <2>1. k \in Nat /\ Len(p) + Len(s) = k /\ Len(p) = m
    BY <1>1, <1>3, <1>5
  <2> QED BY <1>4, <2>1
<1>7. ASSUME NEW i \in 1 .. k PROVE r[i] = IF i <= m THEN p[i] ELSE q[i - (m - 1)]
  <2>1. CASE i <= m
    BY <1>6, <2>1
  <2>2. CASE ~(i <= m)
    <3>1. i - m \in 1 .. n - 1 /\ (i - m) + 1 = i - (m - 1)
      BY <1>5, <2>2
    <3>2. s[i - m] = q[i - (m - 1)]
      BY <1>3, <3>1
    <3> QED BY <1>6, <2>2, <3>2
  <2> QED BY <2>1, <2>2
<1>8. r = [i \in 1 .. k |-> r[i]]
  BY <1>4, <1>6, Listed
<1>9. [i \in 1 .. k |-> r[i]] = [i \in 1 .. k |-> IF i <= m THEN p[i] ELSE q[i - (m - 1)]]
  BY <1>7
<1> QED BY <1>2, <1>5, <1>8, <1>9 DEF JoinedAt

\* A path is as its halves are.
LEMMA PathTurns ==
    ASSUME NEW after, Turnable(after), NEW from \in Nat, NEW to \in Nat, NEW balance \in Int
    PROVE  /\ to <= from => IsPath(<<balance>>, from, to, balance, after)
           /\ to = from + 1 => IsPath(<<balance, Turn(after, balance, to)>>, from, to, balance, after)
<1>1. ASSUME to <= from PROVE IsPath(<<balance>>, from, to, balance, after)
  <2>1. IsPath([i \in 1 .. 1 |-> balance], from, to, balance, after)
    BY <1>1, PathBegins
  <2>2. <<balance>> = [i \in 1 .. 1 |-> balance]
    BY OneTerm
  <2> QED BY <2>1, <2>2
<1>2. ASSUME to = from + 1 PROVE IsPath(<<balance, Turn(after, balance, to)>>, from, to, balance, after)
  <2>1. PICK x : x = Turn(after, balance, to)
    OBVIOUS
  <2>2. x \in Int
    BY <2>1 DEF Turnable
  <2>3. PICK p : p = <<balance, x>>
    OBVIOUS
  <2>4. p \in [1 .. 2 -> Int] /\ p[1] = balance /\ p[2] = x
    BY <2>2, <2>3, TwoTerms
  <2>5. PathLength(from, to) = 2
    BY <1>2 DEF PathLength
  <2>6. ASSUME NEW i \in 1 .. 2 - 1 PROVE p[i + 1] = Turn(after, p[i], from + i)
    <3>1. i = 1 /\ from + i = to /\ i + 1 = 2
      BY <1>2
    <3> QED BY <2>1, <2>4, <3>1
  <2>7. IsPath(p, from, to, balance, after)
    BY <2>4, <2>5, <2>6 DEF IsPath
  <2> QED BY <2>1, <2>3, <2>7
<1> QED BY <1>1, <1>2

\* A path is the path to a day between and, but for the day itself, that from it.
LEMMA PathHalves ==
    ASSUME NEW after, Turnable(after), NEW from \in Nat, NEW to \in Nat, from + 1 < to, NEW balance \in Int,
           NEW half, half = (from + to) \div 2,
           NEW p, IsPath(p, from, half, balance, after),
           NEW q, p[Len(p)] \in Int => IsPath(q, half, to, p[Len(p)], after)
    PROVE  /\ half \in Nat /\ from < half /\ half < to /\ p[Len(p)] \in Int
           /\ IsPath(p \o Tail(q), from, to, balance, after)
<1>1. half \in Nat /\ from < half /\ half < to
  OBVIOUS
<1>2. PICK m, n : m = half - from + 1 /\ n = to - half + 1
  OBVIOUS
<1>3. m \in Nat /\ m >= 1 /\ n \in Nat /\ n >= 1 /\ PathLength(from, half) = m /\ PathLength(half, to) = n
  BY <1>1, <1>2 DEF PathLength
<1>4. p \in [1 .. m -> Int]
  BY <1>3 DEF IsPath
<1>5. Len(p) = m
  BY <1>3, <1>4, LengthIs
<1>6. p[Len(p)] = p[m] /\ p[m] \in Int
  BY <1>3, <1>4, <1>5
<1>7. IsPath(q, half, to, p[m], after)
  BY <1>6
<1>8. q \in [1 .. n -> Int]
  BY <1>3, <1>7 DEF IsPath
<1>9. PICK r : r = p \o Tail(q)
  OBVIOUS
<1>10. JoinedAt(r, p, q, m, n)
  BY <1>3, <1>4, <1>8, <1>9, JoinedTails
<1>11. IsPath(r, from, to, balance, after)
  BY <1>1, <1>2, <1>7, <1>10, PathJoins
<1> QED BY <1>1, <1>6, <1>9, <1>11
-----------------------------------------------------------------------------
(* The recursion by halves                                                 *)

\* The recursion by halves, and what it has for a span.
HalvesOf(T, after, from, to, balance) ==
    LET half == (from + to) \div 2
        path == T[<<from, half, balance>>]
    IN  IF to <= from THEN <<balance>>
        ELSE IF to = from + 1 THEN <<balance, Turn(after, balance, to)>>
        ELSE path \o Tail(T[<<half, to, path[Len(path)]>>])
\* A table that satisfies the recursion.
Halving(T, after) == T = [span \in Nat \X Nat \X Int |-> HalvesOf(T, after, span[1], span[2], span[3])]

\* What such a table has for a span.
LEMMA HalvingAt ==
    ASSUME NEW after, NEW T, Halving(T, after), NEW from \in Nat, NEW to \in Nat, NEW balance \in Int
    PROVE  T[<<from, to, balance>>] = HalvesOf(T, after, from, to, balance)
<1>1. PICK span : span = <<from, to, balance>>
  OBVIOUS
<1>2. span \in Nat \X Nat \X Int /\ span[1] = from /\ span[2] = to /\ span[3] = balance
  BY <1>1
<1>3. T[span] = HalvesOf(T, after, span[1], span[2], span[3])
  BY <1>2 DEF Halving
<1> QED BY <1>1, <1>2, <1>3

\* Such a table has the path of every span.
LEMMA HalvingIs ==
    ASSUME NEW after, Turnable(after), NEW T, Halving(T, after)
    PROVE  \A from, to \in Nat, balance \in Int : IsPath(T[<<from, to, balance>>], from, to, balance, after)
<1> DEFINE Fine == {n \in Nat : \A from, to \in Nat, balance \in Int :
                       to - from <= n + 1 => IsPath(T[<<from, to, balance>>], from, to, balance, after)}
<1>1. 0 \in Fine
  <2>1. ASSUME NEW from \in Nat, NEW to \in Nat, NEW balance \in Int, to - from <= 0 + 1
        PROVE  IsPath(T[<<from, to, balance>>], from, to, balance, after)
    <3>1. T[<<from, to, balance>>] = HalvesOf(T, after, from, to, balance)
      BY HalvingAt
    <3>2. CASE to <= from
      <4>1. HalvesOf(T, after, from, to, balance) = <<balance>>
        BY <3>2 DEF HalvesOf
      <4>2. IsPath(<<balance>>, from, to, balance, after)
        BY <3>2, PathTurns
      <4> QED BY <3>1, <4>1, <4>2
    <3>3. CASE to = from + 1
      <4>1. HalvesOf(T, after, from, to, balance) = <<balance, Turn(after, balance, to)>>
        BY <3>3 DEF HalvesOf
      <4>2. IsPath(<<balance, Turn(after, balance, to)>>, from, to, balance, after)
        BY <3>3, PathTurns
      <4> QED BY <3>1, <4>1, <4>2
    <3> QED BY <2>1, <3>2, <3>3
  <2> QED BY <2>1
<1>2. ASSUME NEW n \in Nat \ {0}, n - 1 \in Fine PROVE n \in Fine
  <2>1. ASSUME NEW from \in Nat, NEW to \in Nat, NEW balance \in Int, to - from <= n + 1
        PROVE  IsPath(T[<<from, to, balance>>], from, to, balance, after)
    <3>1. \A f, t \in Nat, b \in Int : t - f <= n => IsPath(T[<<f, t, b>>], f, t, b, after)
      BY <1>2
    <3>2. CASE to - from <= n
      BY <3>1, <3>2
    <3>3. CASE ~(to - from <= n)
      <4>1. from + 1 < to \/ to = from + 1
        BY <3>3
      <4>2. CASE to = from + 1
        <5>1. HalvesOf(T, after, from, to, balance) = <<balance, Turn(after, balance, to)>>
          BY <4>2 DEF HalvesOf
        <5>2. IsPath(<<balance, Turn(after, balance, to)>>, from, to, balance, after)
          BY <4>2, PathTurns
        <5>3. T[<<from, to, balance>>] = HalvesOf(T, after, from, to, balance)
          BY HalvingAt
        <5> QED BY <5>1, <5>2, <5>3
      <4>3. CASE from + 1 < to
        <5>1. PICK half, p, q : /\ half = (from + to) \div 2 /\ p = T[<<from, half, balance>>]
                                /\ q = T[<<half, to, p[Len(p)]>>]
          OBVIOUS
        <5>2. half \in Nat /\ half - from <= n /\ to - half <= n
          BY <2>1, <4>3, <5>1
        <5>3. IsPath(p, from, half, balance, after)
          BY <3>1, <5>1, <5>2
        <5>4. p[Len(p)] \in Int => IsPath(q, half, to, p[Len(p)], after)
          BY <3>1, <5>1, <5>2
        <5>5. IsPath(p \o Tail(q), from, to, balance, after)
          BY <4>3, <5>1, <5>3, <5>4, PathHalves
        <5>6. HalvesOf(T, after, from, to, balance) = p \o Tail(q)
          <6>1. ~(to <= from) /\ ~(to = from + 1)
            BY <4>3
          <6> QED BY <5>1, <6>1 DEF HalvesOf
        <5>7. T[<<from, to, balance>>] = HalvesOf(T, after, from, to, balance)
          BY HalvingAt
        <5> QED BY <5>5, <5>6, <5>7
      <4> QED BY <4>1, <4>2, <4>3
    <3> QED BY <3>2, <3>3
  <2> QED BY <2>1
<1>3. ASSUME NEW from \in Nat, NEW to \in Nat, NEW balance \in Int
      PROVE  IsPath(T[<<from, to, balance>>], from, to, balance, after)
  <2>1. PICK N : N = IF to <= from THEN 0 ELSE to - from
    OBVIOUS
  <2>2. N \in Nat /\ to - from <= N + 1
    BY <2>1
  <2>3. \A n \in 1 .. N : n - 1 \in Fine => n \in Fine
    <3>1. \A n \in 1 .. N : n \in Nat \ {0}
      BY <2>2
    <3> HIDE DEF Fine
    <3> QED BY <1>2, <3>1
  <2>4. N \in Fine
    <3> HIDE DEF Fine
    <3>1. \A n \in 0 .. N : n \in Fine
      BY <1>1, <2>2, <2>3, Induct
    <3> QED BY <2>2, <3>1
  <2> QED BY <2>2, <2>4
<1> QED BY <1>3

\* There is such a table: that of the paths.
LEMMA HalvingExists ==
    ASSUME NEW after, Turnable(after)
    PROVE  \E T : Halving(T, after)
<1>1. PICK G : G = [span \in Nat \X Nat \X Int |-> CHOOSE p : IsPath(p, span[1], span[2], span[3], after)]
  OBVIOUS
<1>2. ASSUME NEW from \in Nat, NEW to \in Nat, NEW balance \in Int
      PROVE  IsPath(G[<<from, to, balance>>], from, to, balance, after)
  <2>1. PICK span : span = <<from, to, balance>>
    OBVIOUS
  <2>2. span \in Nat \X Nat \X Int /\ span[1] = from /\ span[2] = to /\ span[3] = balance
    BY <2>1
  <2>3. G[span] = CHOOSE p : IsPath(p, from, to, balance, after)
    BY <1>1, <2>2
  <2>4. \E p : IsPath(p, from, to, balance, after)
    BY PathExists
  <2> QED BY <2>1, <2>3, <2>4
<1>3. ASSUME NEW from \in Nat, NEW to \in Nat, NEW balance \in Int
      PROVE  G[<<from, to, balance>>] = HalvesOf(G, after, from, to, balance)
  <2>1. IsPath(HalvesOf(G, after, from, to, balance), from, to, balance, after)
    <3>1. CASE to <= from
      <4>1. HalvesOf(G, after, from, to, balance) = <<balance>>
        BY <3>1 DEF HalvesOf
      <4> QED BY <3>1, <4>1, PathTurns
    <3>2. CASE to = from + 1
      <4>1. HalvesOf(G, after, from, to, balance) = <<balance, Turn(after, balance, to)>>
        BY <3>2 DEF HalvesOf
      <4> QED BY <3>2, <4>1, PathTurns
    <3>3. CASE from + 1 < to
      <4>1. PICK half, p, q : /\ half = (from + to) \div 2 /\ p = G[<<from, half, balance>>]
                              /\ q = G[<<half, to, p[Len(p)]>>]
        OBVIOUS
      <4>2. half \in Nat
        BY <4>1
      <4>3. IsPath(p, from, half, balance, after)
        BY <1>2, <4>1, <4>2
      <4>4. p[Len(p)] \in Int => IsPath(q, half, to, p[Len(p)], after)
        BY <1>2, <4>1, <4>2
      <4>5. IsPath(p \o Tail(q), from, to, balance, after)
        BY <3>3, <4>1, <4>3, <4>4, PathHalves
      <4>6. HalvesOf(G, after, from, to, balance) = p \o Tail(q)
        <5>1. ~(to <= from) /\ ~(to = from + 1)
          BY <3>3
        <5> QED BY <4>1, <5>1 DEF HalvesOf
      <4> QED BY <4>5, <4>6
    <3> QED BY <3>1, <3>2, <3>3
  <2>2. IsPath(G[<<from, to, balance>>], from, to, balance, after)
    BY <1>2
  <2> QED BY <2>1, <2>2, PathUnique
<1>4. ASSUME NEW span \in Nat \X Nat \X Int
      PROVE  G[span] = HalvesOf(G, after, span[1], span[2], span[3])
  <2>1. PICK from, to, balance : from = span[1] /\ to = span[2] /\ balance = span[3]
    OBVIOUS
  <2>2. from \in Nat /\ to \in Nat /\ balance \in Int /\ span = <<from, to, balance>>
    BY <2>1
  <2>3. G[<<from, to, balance>>] = HalvesOf(G, after, from, to, balance)
    BY <1>3, <2>2
  <2> QED BY <2>1, <2>2, <2>3
<1>5. G = [span \in Nat \X Nat \X Int |-> G[span]]
  BY <1>1
<1>6. [span \in Nat \X Nat \X Int |-> G[span]]
         = [span \in Nat \X Nat \X Int |-> HalvesOf(G, after, span[1], span[2], span[3])]
  BY <1>4
<1>7. Halving(G, after)
  BY <1>5, <1>6 DEF Halving
<1> QED BY <1>7
-----------------------------------------------------------------------------
(* What a projection takes a day                                           *)

\* What is due in a projection, what a day brings, and the turn of the loop.
AppliedTo(in) == {r \in in.series : Applies(r, in)}
\* Every date of every series.
EventsOf(in) ==
    UNION {{<<d, s>> : d \in scheduledOn(s, in.start, in.start + Horizon(in))} : s \in AppliedTo(in)}
\* The dates that are a day.
EventsOn(in, t) == {f \in EventsOf(in) : f[1] = in.start + t}
\* What is due on a day.
OnDayOf(in, t) == SumFunction([e \in EventsOn(in, t) |-> Delta(e[2])])
\* The balance after a day.
AfterOf(in, balance, t) == RoundDiv(10000 * (balance + OnDayOf(in, t)) - DailyVariable(in), 10000)
\* An input that a projection can be computed of.
Projected(in) ==
    /\ Datable(in.series) /\ in.start \in Int /\ in.horizon \in Int /\ in.balance \in Int
    /\ in.variable \in Int

\* The horizon is positive.
LEMMA HorizonIs ==
    ASSUME NEW in, in.horizon \in Int
    PROVE  Horizon(in) \in Nat /\ Horizon(in) > 0
BY DEF Horizon, DefaultHorizonDays

\* The series that apply are fit to be added up.
LEMMA AppliedIs ==
    ASSUME NEW in, Projected(in)
    PROVE  Datable(AppliedTo(in)) /\ AppliedTo(in) \in SUBSET in.series
<1>1. AppliedTo(in) \in SUBSET in.series
  BY DEF AppliedTo
<1>2. IsFiniteSet(AppliedTo(in))
  BY <1>1, FS_Subset DEF Projected, Datable
<1> QED BY <1>1, <1>2 DEF Projected, Datable

\* The events of a day are the series due on it.
LEMMA OnDayIs ==
    ASSUME NEW in, Projected(in), NEW t \in Nat, NEW A, A = AppliedTo(in)
    PROVE  /\ OnDayOf(in, t) \in Int
           /\ t \in 1 .. Horizon(in) =>
                OnDayOf(in, t) = SumFunctionOnSet([s \in A |-> Delta(s)], DueOn(A, in.start + t, in.start))
<1>1. PICK start, end, day : start = in.start /\ end = in.start + Horizon(in) /\ day = in.start + t
  OBVIOUS
<1>2. start \in Int /\ end \in Int /\ day \in Int /\ Horizon(in) \in Nat
  <2>1. in.start \in Int /\ Horizon(in) \in Nat
    BY HorizonIs DEF Projected
  <2> QED BY <1>1, <2>1
<1>3. IsFiniteSet(A) /\ \A s \in A : s.interval \in DOMAIN Period /\ s.next \in Int /\ Delta(s) \in Int
  BY AppliedIs DEF Datable
<1>4. PICK D : D = {s \in A : day \in scheduledOn(s, start, end)}
  OBVIOUS
<1>5. D \in SUBSET A /\ IsFiniteSet(D)
  <2>1. D \in SUBSET A
    BY <1>4
  <2> QED BY <1>3, <2>1, FS_Subset
<1>6. PICK K, name, of, h, f : /\ K = EventsOn(in, t) /\ name = [s \in D |-> <<day, s>>] /\ of = [k \in K |-> k[2]]
                               /\ h = [e \in K |-> Delta(e[2])] /\ f = [s \in A |-> Delta(s)]
  OBVIOUS
<1>7. K = {name[s] : s \in D}
  <2>1. ASSUME NEW s \in D PROVE name[s] \in K
    <3>1. s \in AppliedTo(in) /\ day \in scheduledOn(s, start, end)
      BY <1>4
    <3>2. <<day, s>> \in EventsOf(in)
      BY <1>1, <3>1 DEF EventsOf
    <3>3. <<day, s>> \in EventsOn(in, t)
      BY <1>1, <3>2 DEF EventsOn
    <3> QED BY <1>6, <3>3
  <2>2. ASSUME NEW k \in K PROVE \E s \in D : k = name[s]
    <3>1. k \in EventsOf(in) /\ k[1] = day
      BY <1>1, <1>6 DEF EventsOn
    <3>2. PICK s \in AppliedTo(in) : \E d \in scheduledOn(s, start, end) : k = <<d, s>>
      BY <1>1, <3>1 DEF EventsOf
    <3>3. k = <<day, s>> /\ s \in D
      BY <1>4, <3>1, <3>2
    <3> QED BY <1>6, <3>3
  <2> QED BY <2>1, <2>2
<1>8. \A s \in D : name[s] \in K /\ of[name[s]] = s
  <2>1. \A s \in D : name[s] \in K
    BY <1>7
  <2> QED BY <1>6, <2>1
<1>9. \A k \in K : of[k] \in D /\ name[of[k]] = k /\ h[k] = f[of[k]]
  <2>1. ASSUME NEW k \in K PROVE of[k] \in D /\ name[of[k]] = k /\ h[k] = f[of[k]]
    <3>1. PICK s \in D : k = name[s]
      BY <1>7
    <3>2. of[k] = s /\ k[2] = s /\ s \in A
      BY <1>5, <1>6, <1>8, <3>1
    <3>3. h[k] = f[s]
      BY <1>6, <3>2
    <3> QED BY <3>1, <3>2, <3>3
  <2> QED BY <2>1
<1>10. \A s \in D : f[s] \in Int
  BY <1>3, <1>5, <1>6
<1>11. SumFunctionOnSet(h, K) = SumFunctionOnSet(f, D)
  <2>1. \A k \in K : of[k] \in D /\ name[of[k]] = k
    BY <1>9
  <2>2. \A k \in K : h[k] = f[of[k]]
    BY <1>9
  <2>3. IsFiniteSet(D)
    BY <1>5
  <2> QED BY <1>8, <1>10, <2>1, <2>2, <2>3, SumRenamed
<1>12. OnDayOf(in, t) = SumFunctionOnSet(h, K)
  BY <1>6 DEF OnDayOf, SumFunction
<1>13. SumFunctionOnSet(f, D) \in Int
  BY <1>5, <1>10, SumTyped
<1>14. t \in 1 .. Horizon(in) => D = DueOn(A, day, start)
  <2>1. ASSUME NEW s \in A, t \in 1 .. Horizon(in)
        PROVE  day \in scheduledOn(s, start, end) <=> day \in DueSince(s.next, s.interval, start, day)
    <3>1. scheduledOn(s, start, end)
             = {d \in Reach(FirstDue(s.next, s.interval, start), s.interval) : start <= d /\ d <= end}
      BY <1>2, <1>3, ScheduledIs
    <3>2. start < day /\ day <= end /\ start <= day /\ day <= day
      BY <1>1, <1>2, <2>1
    <3> QED BY <3>1, <3>2 DEF DueSince
  <2> QED BY <1>4, <2>1 DEF DueOn
<1> QED BY <1>1, <1>6, <1>11, <1>12, <1>13, <1>14

\* The variable spend of a day is a number.
LEMMA DailyIs ==
    ASSUME NEW in, in.variable \in Int
    PROVE  DailyVariable(in) \in Int
<1>1. PICK a, b : a = Magnitude(in.variable) * 250000 /\ b = 761
  OBVIOUS
<1>2. a \in Int /\ b \in Nat \ {0}
  BY <1>1 DEF Magnitude
<1>3. RoundDiv(a, b) \in Int
  BY <1>2, Rounding
<1> QED BY <1>1, <1>3 DEF DailyVariable

\* The balances of the days are a path, turn by turn.
TurnsOf(in) == [x \in Int |-> [t \in Nat |-> AfterOf(in, x, t)]]

\* The turns of the loop are such a function.
LEMMA TurnsAre ==
    ASSUME NEW in, Projected(in)
    PROVE  /\ Turnable(TurnsOf(in))
           /\ \A x \in Int, t \in Nat : Turn(TurnsOf(in), x, t) = AfterOf(in, x, t)
<1>1. ASSUME NEW x \in Int, NEW t \in Nat PROVE AfterOf(in, x, t) \in Int
  <2>1. PICK a, b : a = 10000 * (x + OnDayOf(in, t)) - DailyVariable(in) /\ b = 10000
    OBVIOUS
  <2>2. OnDayOf(in, t) \in Int /\ DailyVariable(in) \in Int
    BY OnDayIs, DailyIs DEF Projected
  <2>3. a \in Int /\ b \in Nat \ {0}
    BY <2>1, <2>2
  <2>4. RoundDiv(a, b) \in Int
    BY <2>3, Rounding
  <2> QED BY <2>1, <2>4 DEF AfterOf
<1>2. \A x \in Int, t \in Nat : Turn(TurnsOf(in), x, t) = AfterOf(in, x, t)
  BY DEF Turn, TurnsOf
<1> QED BY <1>1, <1>2 DEF Turnable

\* What the recursion of BalancePath has for a span.
BodyOf(T, in, from, to, balance) ==
    LET half == (from + to) \div 2
        path == T[<<from, half, balance>>]
    IN  IF to <= from THEN <<balance>>
        ELSE IF to = from + 1 THEN <<balance, AfterOf(in, balance, to)>>
        ELSE path \o Tail(T[<<half, to, path[Len(path)]>>])

\* It is that of the halves.
LEMMA BodyIs ==
    ASSUME NEW in, Projected(in), NEW T
    PROVE  [span \in Nat \X Nat \X Int |-> BodyOf(T, in, span[1], span[2], span[3])]
              = [span \in Nat \X Nat \X Int |-> HalvesOf(T, TurnsOf(in), span[1], span[2], span[3])]
<1>1. ASSUME NEW span \in Nat \X Nat \X Int
      PROVE  BodyOf(T, in, span[1], span[2], span[3]) = HalvesOf(T, TurnsOf(in), span[1], span[2], span[3])
  <2>1. PICK from, to, balance : from = span[1] /\ to = span[2] /\ balance = span[3]
    OBVIOUS
  <2>2. to \in Nat /\ balance \in Int
    BY <2>1
  <2>3. Turn(TurnsOf(in), balance, to) = AfterOf(in, balance, to)
    BY <2>2, TurnsAre
  <2>4. BodyOf(T, in, from, to, balance) = HalvesOf(T, TurnsOf(in), from, to, balance)
    BY <2>3 DEF BodyOf, HalvesOf
  <2> QED BY <2>1, <2>4
<1> QED BY <1>1

\* BalancePath is the path from the first day to the last.
LEMMA BalancePathIs ==
    ASSUME NEW in, Projected(in)
    PROVE  IsPath(BalancePath(in), 0, Horizon(in), in.balance, TurnsOf(in))
<1> DEFINE Turns[span \in Nat \X Nat \X Int] == BodyOf(Turns, in, span[1], span[2], span[3])
<1>1. BalancePath(in) = Turns[<<0, Horizon(in), in.balance>>]
  BY DEF BalancePath, BodyOf, AfterOf, OnDayOf, EventsOn, EventsOf, AppliedTo
<1>2. Turnable(TurnsOf(in))
  BY TurnsAre
<1>3. \E T : T = [span \in Nat \X Nat \X Int |-> BodyOf(T, in, span[1], span[2], span[3])]
  <2>1. PICK T : Halving(T, TurnsOf(in))
    BY <1>2, HalvingExists
  <2>2. T = [span \in Nat \X Nat \X Int |-> BodyOf(T, in, span[1], span[2], span[3])]
    BY <2>1, BodyIs DEF Halving
  <2> QED BY <2>2
<1>4. Turns = [span \in Nat \X Nat \X Int |-> BodyOf(Turns, in, span[1], span[2], span[3])]
  BY <1>3
<1> HIDE DEF Turns
<1>5. Halving(Turns, TurnsOf(in))
  BY <1>4, BodyIs DEF Halving
<1>6. 0 \in Nat /\ Horizon(in) \in Nat /\ in.balance \in Int
  BY HorizonIs DEF Projected
<1>7. IsPath(Turns[<<0, Horizon(in), in.balance>>], 0, Horizon(in), in.balance, TurnsOf(in))
  BY <1>2, <1>5, <1>6, HalvingIs
<1> QED BY <1>1, <1>7
-----------------------------------------------------------------------------
(* How far rounding carries                                                *)

\* The variable spend of a month that a projection counts.
SpendOf(in) == IF in.includeVariable THEN Magnitude(in.variable) ELSE 0

\* The variable spend of a day is within half a millionth of its part of the month.
LEMMA SpendIs ==
    ASSUME NEW in, in.variable \in Int
    PROVE  SpendOf(in) \in Nat /\ DailyVariable(in) = RoundDiv(SpendOf(in) * 250000, 761)
<1>1. SpendOf(in) \in Nat
  BY DEF SpendOf, Magnitude
<1>2. CASE in.includeVariable
  BY <1>1, <1>2 DEF SpendOf, DailyVariable
<1>3. CASE ~in.includeVariable
  <2>1. SpendOf(in) = 0 /\ DailyVariable(in) = 0
    BY <1>3 DEF SpendOf, DailyVariable
  <2>2. RoundDiv(0 * 250000, 761) = 0
    <3>1. 0 * 250000 = 0 /\ Magnitude(0) = 0 /\ (2 * 0 + 761) \div (2 * 761) = 0
      BY DEF Magnitude
    <3> QED BY <3>1 DEF RoundDiv
  <2> QED BY <2>1, <2>2
<1> QED BY <1>1, <1>2, <1>3

\* The balance of a day is the one before and what the day brings, but for the
\* spend of a day and less than half a cent.
LEMMA DayNear ==
    ASSUME NEW x \in Int, NEW spend \in Nat, NEW daily, daily = RoundDiv(spend * 250000, 761),
           NEW b, b = RoundDiv(10000 * x - daily, 10000)
    PROVE  /\ b \in Int
           /\ 3044 * b <= 3044 * x - 100 * spend + 1523 /\ 3044 * x - 100 * spend - 1523 <= 3044 * b
           /\ spend % 3044 = 0 => 3044 * b = 3044 * x - 100 * spend
<1>1. PICK n, d : n = spend * 250000 /\ d = 761
  OBVIOUS
<1>2. n \in Int /\ n >= 0 /\ d \in Nat \ {0} /\ daily = RoundDiv(n, d)
  BY <1>1
<1>3. daily \in Int /\ 2 * (d * daily) <= 2 * n + d /\ 2 * n <= 2 * (d * daily) + d
  BY <1>2, Rounding
<1>4. 1522 * daily <= 500000 * spend + 761 /\ 500000 * spend <= 1522 * daily + 761
  BY <1>1, <1>2, <1>3
<1>5. PICK m, e : m = 10000 * x - daily /\ e = 10000
  OBVIOUS
<1>6. m \in Int /\ e \in Nat \ {0} /\ b = RoundDiv(m, e)
  BY <1>3, <1>5
<1>7. b \in Int /\ 2 * (e * b) <= 2 * m + e /\ 2 * m <= 2 * (e * b) + e
  BY <1>6, Rounding
<1>8. 20000 * b <= 20000 * x - 2 * daily + 10000 /\ 20000 * x - 2 * daily <= 20000 * b + 10000
  BY <1>3, <1>5, <1>7
<1>9. 3044 * b <= 3044 * x - 100 * spend + 1523
  BY <1>3, <1>4, <1>7, <1>8
<1>10. 3044 * x - 100 * spend - 1523 <= 3044 * b
  BY <1>3, <1>4, <1>7, <1>8
<1>11. ASSUME spend % 3044 = 0 PROVE 3044 * b = 3044 * x - 100 * spend
  <2>1. PICK k : k = spend \div 3044
    OBVIOUS
  <2>2. k \in Int /\ spend = 3044 * k
    BY <1>11, <2>1
  <2>3. daily = 1000000 * k
    BY <1>3, <1>4, <2>2
  <2>4. b = x - 100 * k
    <3>1. PICK y : y = b - (x - 100 * k)
      OBVIOUS
    <3>2. y \in Int /\ b = (x - 100 * k) + y
      BY <1>7, <2>2, <3>1
    <3>3. 20000 * y <= 10000 /\ 0 <= 20000 * y + 10000
      BY <1>7, <1>8, <2>2, <2>3, <3>1
    <3>4. y = 0
      BY <3>2, <3>3
    <3> QED BY <2>2, <3>2, <3>4
  <2> QED BY <2>2, <2>4
<1> QED BY <1>7, <1>9, <1>10, <1>11

\* How far a balance is from the exact one.
Exactly(in, day) ==
    3044 * (in.balance + FlowOf(AppliedTo(in), in.start, day)) - 100 * (SpendOf(in) * day)
\* A balance that is as near to it as rounding allows.
NearTo(in, n, day) == /\ 3044 * n <= Exactly(in, day) + Slack(SpendOf(in), day)
                      /\ Exactly(in, day) <= 3044 * n + Slack(SpendOf(in), day)

\* What rounding allows is a natural number, and grows with the days.
LEMMA SlackIs ==
    ASSUME NEW spend \in Nat, NEW day \in Nat
    PROVE  /\ Slack(spend, day) \in Nat /\ Slack(spend, 0) = 0
           /\ spend % 3044 = 0 => Slack(spend, day + 1) = Slack(spend, day)
           /\ spend % 3044 # 0 => Slack(spend, day + 1) = Slack(spend, day) + 1523
BY DEF Slack

\* The exact balance is a number.
LEMMA ExactlyIs ==
    ASSUME NEW in, Projected(in), NEW day \in Nat
    PROVE  Exactly(in, day) \in Int /\ FlowOf(AppliedTo(in), in.start, day) \in Int
<1>1. FlowOf(AppliedTo(in), in.start, day) \in Int
  BY AppliedIs, FlowGrows DEF Projected
<1>2. SpendOf(in) \in Nat /\ in.balance \in Int
  BY SpendIs DEF Projected
<1> QED BY <1>1, <1>2 DEF Exactly

\* Every balance of the path is near the exact one.
LEMMA PathNear ==
    ASSUME NEW in, Projected(in), NEW path, path = BalancePath(in), NEW last, last = Horizon(in)
    PROVE  /\ last \in Nat /\ last > 0 /\ path \in [1 .. last + 1 -> Int] /\ path[1] = in.balance
           /\ \A day \in 0 .. last : NearTo(in, path[day + 1], day)
<1>1. last \in Nat /\ last > 0
  BY HorizonIs DEF Projected
<1>2. IsPath(path, 0, last, in.balance, TurnsOf(in))
  BY BalancePathIs
<1>3. PathLength(0, last) = last + 1
  <2>1. ~(last <= 0) /\ last - 0 + 1 = last + 1
    BY <1>1
  <2> QED BY <2>1 DEF PathLength
<1>4. /\ path \in [1 .. last + 1 -> Int] /\ path[1] = in.balance
      /\ \A i \in 1 .. (last + 1) - 1 : path[i + 1] = Turn(TurnsOf(in), path[i], 0 + i)
  BY <1>2, <1>3 DEF IsPath
<1>5. PICK A, start, spend, bal : A = AppliedTo(in) /\ start = in.start /\ spend = SpendOf(in) /\ bal = in.balance
  OBVIOUS
<1>6. spend \in Nat /\ bal \in Int /\ start \in Int /\ Datable(A)
  BY <1>5, SpendIs, AppliedIs DEF Projected
<1>7. ASSUME NEW i \in 1 .. last, NearTo(in, path[i], i - 1) PROVE NearTo(in, path[i + 1], i)
  <2>1. PICK p, q, t, o, f, g : /\ p = path[i] /\ q = path[i + 1] /\ t = i - 1 /\ o = OnDayOf(in, i)
                                /\ f = FlowOf(A, start, t) /\ g = FlowOf(A, start, i)
    OBVIOUS
  <2>2. p \in Int /\ q = AfterOf(in, p, i) /\ i \in Nat /\ t \in Nat /\ t + 1 = i
    <3>1. i \in 1 .. (last + 1) - 1 /\ i \in 1 .. last + 1 /\ 0 + i = i /\ i \in Nat /\ i - 1 \in Nat
      BY <1>1
    <3>2. q = Turn(TurnsOf(in), p, i) /\ p \in Int
      BY <1>4, <2>1, <3>1
    <3>3. q = AfterOf(in, p, i)
      BY <3>1, <3>2, TurnsAre
    <3> QED BY <2>1, <3>1, <3>2, <3>3
  <2>3. o \in Int /\ f \in Int /\ g = f + o
    <3>1. o = SumFunctionOnSet([s \in A |-> Delta(s)], DueOn(A, start + i, start)) /\ o \in Int
      BY <1>5, <2>1, <2>2, OnDayIs
    <3>2. FlowOf(A, start, t) \in Int
          /\ FlowOf(A, start, t + 1)
               = FlowOf(A, start, t) + SumFunctionOnSet([s \in A |-> Delta(s)], DueOn(A, start + (t + 1), start))
      BY <1>6, <2>2, FlowGrows
    <3> QED BY <2>1, <2>2, <3>1, <3>2
  <2>4. PICK daily, x : daily = RoundDiv(spend * 250000, 761) /\ x = p + o
    OBVIOUS
  <2>5. x \in Int /\ q = RoundDiv(10000 * x - daily, 10000)
    <3>1. daily = DailyVariable(in)
      BY <1>5, <2>4, SpendIs DEF Projected
    <3> QED BY <2>1, <2>2, <2>3, <2>4, <3>1 DEF AfterOf
  <2>6. /\ q \in Int
        /\ 3044 * q <= 3044 * x - 100 * spend + 1523 /\ 3044 * x - 100 * spend - 1523 <= 3044 * q
        /\ spend % 3044 = 0 => 3044 * q = 3044 * x - 100 * spend
    BY <1>6, <2>4, <2>5, DayNear
  <2>7. PICK c, d, u, w : c = Slack(spend, t) /\ d = Slack(spend, i) /\ u = spend * t /\ w = spend * i
    OBVIOUS
  <2>8. /\ c \in Nat /\ (spend % 3044 = 0 => d = c) /\ (spend % 3044 # 0 => d = c + 1523)
        /\ u \in Int /\ w = u + spend
    <3>1. /\ Slack(spend, t) \in Nat
          /\ spend % 3044 = 0 => Slack(spend, t + 1) = Slack(spend, t)
          /\ spend % 3044 # 0 => Slack(spend, t + 1) = Slack(spend, t) + 1523
      BY <1>6, <2>2 DEF Slack
    <3>2. u \in Int /\ spend * (t + 1) = u + spend
      BY <1>6, <2>2, <2>7
    <3> QED BY <2>2, <2>7, <3>1, <3>2
  <2>9. 3044 * p <= 3044 * (bal + f) - 100 * u + c /\ 3044 * (bal + f) - 100 * u <= 3044 * p + c
    BY <1>5, <1>7, <2>1, <2>7 DEF NearTo, Exactly
  <2>10. 3044 * q <= 3044 * (bal + g) - 100 * w + d /\ 3044 * (bal + g) - 100 * w <= 3044 * q + d
    <3>1. CASE spend % 3044 = 0
      <4>1. 3044 * q = 3044 * x - 100 * spend /\ d = c
        BY <2>6, <2>8, <3>1
      <4> QED BY <1>6, <2>2, <2>3, <2>4, <2>6, <2>8, <2>9, <4>1
    <3>2. CASE ~(spend % 3044 = 0)
      <4>1. d = c + 1523
        BY <2>8, <3>2
      <4> QED BY <1>6, <2>2, <2>3, <2>4, <2>6, <2>8, <2>9, <4>1
    <3> QED BY <3>1, <3>2
  <2> QED BY <1>5, <2>1, <2>7, <2>10 DEF NearTo, Exactly
<1> DEFINE Fine == {day \in 0 .. last : NearTo(in, path[day + 1], day)}
<1>8. 0 \in Fine
  <2>1. FlowOf(A, start, 0) = 0 /\ Slack(spend, 0) = 0 /\ spend * 0 = 0
    <3>1. PICK none : none = 0
      OBVIOUS
    <3>2. none \in Nat
      BY <3>1
    <3>3. FlowOf(A, start, 0) = 0
      BY <1>6, <3>2, FlowGrows
    <3>4. Slack(spend, 0) = 0
      BY <1>6, <3>2, SlackIs
    <3>5. spend * 0 = 0
      BY <1>6
    <3> QED BY <3>3, <3>4, <3>5
  <2>2. path[0 + 1] = bal
    BY <1>4, <1>5
  <2>3. NearTo(in, bal, 0)
    <3>1. 3044 * bal <= 3044 * (bal + 0) - 100 * 0 + 0 /\ 3044 * (bal + 0) - 100 * 0 <= 3044 * bal + 0
      BY <1>6
    <3> QED BY <1>5, <2>1, <3>1 DEF NearTo, Exactly
  <2> QED BY <1>1, <2>2, <2>3
<1>9. ASSUME NEW i \in 1 .. last, i - 1 \in Fine PROVE i \in Fine
  <2>1. NearTo(in, path[i], i - 1)
    <3>1. (i - 1) + 1 = i
      BY <1>1
    <3> QED BY <1>9, <3>1
  <2>2. NearTo(in, path[i + 1], i)
    BY <1>7, <2>1
  <2> QED BY <1>1, <2>2
<1>10. \A day \in 0 .. last : day \in Fine
  <2>1. \A i \in 1 .. last : i - 1 \in Fine => i \in Fine
    BY <1>9
  <2> HIDE DEF Fine
  <2> QED BY <1>1, <1>8, <2>1, Induct
<1> QED BY <1>1, <1>4, <1>10
-----------------------------------------------------------------------------
(* What is kept of a projection                                            *)

\* A finite set of integers has a least.
LEMMA LeastOf ==
    ASSUME NEW S, IsFiniteSet(S), S # {}, \A x \in S : x \in Int
    PROVE  Min(S) \in S /\ \A x \in S : Min(S) <= x
<1> DEFINE P == {T \in SUBSET S : T = {} \/ \E x \in T : \A y \in T : x <= y}
<1>1. {} \in P
  OBVIOUS
<1>2. ASSUME NEW T \in SUBSET S, NEW z \in S, T \in P, z \notin T PROVE T \cup {z} \in P
  <2>1. CASE T = {}
    BY <2>1
  <2>2. CASE T # {}
    <3>1. PICK x \in T : \A y \in T : x <= y
      BY <1>2, <2>2
    <3>2. x \in Int /\ z \in Int
      OBVIOUS
    <3>3. CASE x <= z
      BY <3>1, <3>3
    <3>4. CASE ~(x <= z)
      <4>1. \A y \in T : y \in Int /\ x <= y
        BY <3>1
      <4>2. \A y \in T \cup {z} : z <= y
        BY <3>2, <3>4, <4>1
      <4> QED BY <4>2
    <3> QED BY <3>3, <3>4
  <2> QED BY <2>1, <2>2
<1>3. S \in P
  <2>1. \A T \in SUBSET S, x \in S : T \in P /\ x \notin T => T \cup {x} \in P
    BY <1>2
  <2> HIDE DEF P
  <2> QED BY <1>1, <2>1, FiniteInduct
<1>4. \E x \in S : \A y \in S : x <= y
  BY <1>3
<1> QED BY <1>4 DEF Min

\* What a projection keeps of its path.
Keeps(r, path, last) ==
    /\ r.horizon = last /\ r.ending = path[last + 1]
    /\ DOMAIN r.points = {n \in 0 .. last : n % 7 = 0 \/ n = last}
    /\ \A day \in DOMAIN r.points : r.points[day] = path[day + 1]
    /\ \E day \in 0 .. last : r.min = path[day + 1]
    /\ \A day \in 0 .. last : r.min <= path[day + 1]

\* What is kept of a path, its end and its least.
LEMMA ProjectIs ==
    ASSUME NEW in, Projected(in)
    PROVE  Keeps(Project(in), BalancePath(in), Horizon(in))
<1>1. PICK path, last, r : path = BalancePath(in) /\ last = Horizon(in) /\ r = Project(in)
  OBVIOUS
<1>2. last \in Nat /\ path \in [1 .. last + 1 -> Int]
  BY <1>1, PathNear
<1>3. /\ r.horizon = last /\ r.ending = path[last + 1] /\ r.min = Min(ToSet(path))
      /\ r.points = [t \in {n \in 0 .. last : n % 7 = 0 \/ n = last} |-> path[t + 1]]
  BY <1>1 DEF Project
<1>4. DOMAIN r.points = {n \in 0 .. last : n % 7 = 0 \/ n = last}
      /\ \A day \in DOMAIN r.points : r.points[day] = path[day + 1]
  BY <1>3
<1>5. PICK S : S = ToSet(path)
  OBVIOUS
<1>6. S = {path[i] : i \in 1 .. last + 1}
  BY <1>2, <1>5 DEF ToSet
<1>7. IsFiniteSet(S)
  <2>1. IsFiniteSet(1 .. last + 1)
    BY <1>2, FS_Interval
  <2>2. IsFiniteSet({path[i] : i \in 1 .. last + 1})
    BY <2>1, FiniteImage
  <2> QED BY <1>6, <2>2
<1>8. Min(S) \in S /\ \A x \in S : Min(S) <= x
  <2>1. path[1] \in S
    BY <1>2, <1>6
  <2>2. S # {} /\ \A x \in S : x \in Int
    BY <1>2, <1>6, <2>1
  <2> QED BY <1>7, <2>2, LeastOf
<1>9. \E day \in 0 .. last : r.min = path[day + 1]
  <2>1. PICK i \in 1 .. last + 1 : r.min = path[i]
    <3>1. r.min \in S
      BY <1>3, <1>5, <1>8
    <3>2. r.min \in {path[i] : i \in 1 .. last + 1}
      BY <1>6, <3>1
    <3> QED BY <3>2
  <2>2. i - 1 \in 0 .. last /\ (i - 1) + 1 = i
    BY <1>2
  <2> QED BY <2>1, <2>2
<1>10. ASSUME NEW day \in 0 .. last PROVE r.min <= path[day + 1]
  <2>1. day + 1 \in 1 .. last + 1
    BY <1>2
  <2>2. path[day + 1] \in S
    BY <1>6, <2>1
  <2> QED BY <1>3, <1>5, <1>8, <2>2
<1> QED BY <1>1, <1>3, <1>4, <1>9, <1>10 DEF Keeps

\* What a record does not have is the other's.
LEMMA JoinedElse ==
    ASSUME NEW r, NEW s, NEW x \in DOMAIN s, x \notin DOMAIN r
    PROVE  Joined(r, s)[x] = s[x]
BY DEF Joined

\* The fields of two joined records.
LEMMA JoinedDomain ==
    ASSUME NEW r, NEW s
    PROVE  DOMAIN Joined(r, s) = (DOMAIN r) \cup (DOMAIN s)
BY DEF Joined

\* What may be asked for.
Asking(request) ==
    request \in [balance : Int, horizon : Int, disabled : SUBSET (Nat \ {0}),
                 includeVariable : BOOLEAN, includeUncertain : BOOLEAN]
\* The horizon a request has.
AskedHorizon(request) == IF request.horizon <= 0 THEN DefaultHorizonDays ELSE request.horizon

\* What is projected for it.
InputOf(request, variable, series, start) ==
    [balance |-> request.balance, start |-> start, horizon |-> AskedHorizon(request),
     series |-> series, variable |-> variable, disabled |-> request.disabled,
     includeVariable |-> request.includeVariable, includeUncertain |-> request.includeUncertain]
\* What is stored of a request.
AskedOf(request, start) ==
    Joined([created |-> start, horizon |-> AskedHorizon(request)], request)

\* It has the fields of the request.
LEMMA AskedIs ==
    ASSUME NEW request, Asking(request), NEW start, NEW asked, asked = AskedOf(request, start)
    PROVE  /\ asked.created = start /\ asked.horizon = AskedHorizon(request)
           /\ asked.balance = request.balance /\ asked.disabled = request.disabled
           /\ asked.includeVariable = request.includeVariable
           /\ asked.includeUncertain = request.includeUncertain
           /\ DOMAIN asked = {"created", "horizon", "balance", "disabled", "includeVariable", "includeUncertain"}
<1>1. PICK own : own = [created |-> start, horizon |-> AskedHorizon(request)]
  OBVIOUS
<1>2. DOMAIN own = {"created", "horizon"} /\ own["created"] = start /\ own["horizon"] = AskedHorizon(request)
  BY <1>1
<1>3. DOMAIN request = {"balance", "horizon", "disabled", "includeVariable", "includeUncertain"}
  BY DEF Asking
<1>4. asked = Joined(own, request)
  BY <1>1 DEF AskedOf
<1>5. asked["created"] = start /\ asked["horizon"] = AskedHorizon(request)
  BY <1>2, <1>4, JoinedIs
<1>6. \A x \in {"balance", "disabled", "includeVariable", "includeUncertain"} : asked[x] = request[x]
  BY <1>2, <1>3, <1>4, JoinedElse
<1>7. DOMAIN asked = {"created", "horizon", "balance", "disabled", "includeVariable", "includeUncertain"}
  BY <1>2, <1>3, <1>4, JoinedDomain
<1> QED BY <1>5, <1>6, <1>7
-----------------------------------------------------------------------------
(* What a forecast is computed of                                          *)

\* What a forecast stores is what was asked for and what was projected.
Stores(was, request, start, r) ==
    /\ was.horizon = r.horizon /\ was.min = r.min /\ was.ending = r.ending /\ was.points = r.points
    /\ was.created = start /\ was.balance = request.balance /\ was.disabled = request.disabled
    /\ was.includeVariable = request.includeVariable /\ was.includeUncertain = request.includeUncertain

\* CreateForecast stores that.
LEMMA ForecastIs ==
    ASSUME NEW request, Asking(request), NEW start, NEW variable, NEW series,
           NEW was, was = CreateForecast(request, variable, series, start)
    PROVE  Stores(was, request, start, Project(InputOf(request, variable, series, start)))
<1>1. PICK asked, in, r : /\ asked = AskedOf(request, start) /\ in = InputOf(request, variable, series, start)
                          /\ r = Project(in)
  OBVIOUS
<1>2. /\ asked.created = start /\ asked.horizon = AskedHorizon(request)
      /\ asked.balance = request.balance /\ asked.disabled = request.disabled
      /\ asked.includeVariable = request.includeVariable
      /\ asked.includeUncertain = request.includeUncertain
      /\ DOMAIN asked = {"created", "horizon", "balance", "disabled", "includeVariable", "includeUncertain"}
  BY <1>1, AskedIs
<1>3. ForecastInput(asked, variable, series) = in
  BY <1>1, <1>2 DEF ForecastInput, InputOf
<1>4. \E options : was = Joined(Joined(Project(ForecastInput(asked, variable, series)), asked), options)
  BY <1>1 DEF CreateForecast, AskedOf, AskedHorizon
<1>5. PICK options : was = Joined(Joined(r, asked), options)
  BY <1>1, <1>3, <1>4
<1>6. PICK both : both = Joined(r, asked)
  OBVIOUS
<1>7. DOMAIN r = {"horizon", "min", "ending", "points"}
  BY <1>1 DEF Project
<1>8. \A x \in {"horizon", "min", "ending", "points"} : both[x] = r[x]
  BY <1>6, <1>7, JoinedIs
<1>9. \A x \in {"created", "balance", "disabled", "includeVariable", "includeUncertain"} : both[x] = asked[x]
  BY <1>2, <1>6, <1>7, JoinedElse
<1>10. DOMAIN both = {"horizon", "min", "ending", "points", "created", "balance", "disabled",
                      "includeVariable", "includeUncertain"}
  BY <1>2, <1>6, <1>7, JoinedDomain
<1>11. \A x \in {"horizon", "min", "ending", "points", "created", "balance", "disabled",
                 "includeVariable", "includeUncertain"} : was[x] = both[x]
  BY <1>5, <1>6, <1>10, JoinedIs
<1>12. was.horizon = r.horizon /\ was.min = r.min /\ was.ending = r.ending /\ was.points = r.points
  BY <1>8, <1>11
<1>13. /\ was.created = start /\ was.balance = request.balance /\ was.disabled = request.disabled
       /\ was.includeVariable = request.includeVariable /\ was.includeUncertain = request.includeUncertain
  BY <1>2, <1>9, <1>11
<1> QED BY <1>1, <1>12, <1>13 DEF Stores

\* The series of a household can be projected.
LEMMA SeriesDatable ==
    ASSUME SeriesAssumption, NEW s \in AllSeries
    PROVE  /\ s.interval \in DOMAIN Period /\ s.next \in Int /\ Delta(s) \in Int
           /\ s.amount = 0 => Delta(s) = 0
<1>1. s.interval \in DOMAIN Period /\ s.amount \in Int /\ s.next \in Nat \cup {NoDate}
  BY DEF SeriesAssumption
<1>2. s.next \in Int
  BY <1>1 DEF NoDate
<1>3. Delta(s) \in Int /\ (s.amount = 0 => Delta(s) = 0)
  BY <1>1 DEF Delta, Magnitude
<1> QED BY <1>1, <1>2, <1>3

\* The input of a forecast is one that can be projected.
LEMMA InputIs ==
    ASSUME SeriesAssumption, Planned, NEW request, Asking(request), NEW variable \in Int, NEW start \in Int,
           NEW in, in = InputOf(request, variable, plan, start)
    PROVE  /\ Projected(in) /\ Horizon(in) = AskedHorizon(request)
           /\ AskedHorizon(request) \in Nat /\ AskedHorizon(request) > 0
           /\ in.start = start /\ in.balance = request.balance /\ request.balance \in Int
           /\ SpendOf(in) = Monthly(request, variable)
           /\ in.series = plan /\ in.disabled = request.disabled /\ in.includeUncertain = request.includeUncertain
<1>1. /\ in.balance = request.balance /\ in.start = start /\ in.horizon = AskedHorizon(request)
      /\ in.series = plan /\ in.variable = variable /\ in.disabled = request.disabled
      /\ in.includeVariable = request.includeVariable /\ in.includeUncertain = request.includeUncertain
  BY DEF InputOf
<1>2. request.balance \in Int /\ request.horizon \in Int
  BY DEF Asking
<1>3. AskedHorizon(request) \in Nat /\ AskedHorizon(request) > 0
  BY <1>2 DEF AskedHorizon, DefaultHorizonDays
<1>4. Horizon(in) = AskedHorizon(request)
  BY <1>1, <1>3 DEF Horizon
<1>5. Datable(plan)
  <2>1. ASSUME NEW s \in plan PROVE s.interval \in DOMAIN Period /\ s.next \in Int /\ Delta(s) \in Int
    <3>1. s \in AllSeries
      BY DEF Planned
    <3> QED BY <3>1, SeriesDatable
  <2> QED BY <2>1 DEF Planned, Datable
<1>6. SpendOf(in) = Monthly(request, variable)
  BY <1>1 DEF SpendOf, Monthly
<1>7. Projected(in)
  BY <1>1, <1>2, <1>3, <1>5 DEF Projected
<1> QED BY <1>1, <1>2, <1>3, <1>4, <1>6, <1>7

\* The series that count and those that are applied come to the same.
LEMMA FlowIs ==
    ASSUME SeriesAssumption, Planned, NEW request, Asking(request), NEW variable \in Int, NEW start \in Int,
           NEW in, in = InputOf(request, variable, plan, start), NEW day \in Nat
    PROVE  Flow(request, start, day) = FlowOf(AppliedTo(in), start, day)
<1>1. PICK A, C : A = AppliedTo(in) /\ C = Counted(request)
  OBVIOUS
<1>2. A = {s \in C : s.amount # 0}
  <2>1. in.series = plan /\ in.disabled = request.disabled /\ in.includeUncertain = request.includeUncertain
    BY InputIs
  <2> QED BY <1>1, <2>1 DEF AppliedTo, Applies, Counted
<1>3. C \in SUBSET plan /\ A \in SUBSET C /\ IsFiniteSet(C) /\ IsFiniteSet(A)
  <2>1. C \in SUBSET plan
    BY <1>1 DEF Counted
  <2>2. IsFiniteSet(C)
    BY <2>1, FS_Subset DEF Planned
  <2>3. A \in SUBSET C
    BY <1>2
  <2>4. IsFiniteSet(A)
    BY <2>2, <2>3, FS_Subset
  <2> QED BY <2>1, <2>2, <2>3, <2>4
<1>4. PICK h, g : /\ h = [s \in C |-> Delta(s) * TimesDue(s.next, s.interval, start, start + day)]
                  /\ g = [s \in A |-> Delta(s) * TimesDue(s.next, s.interval, start, start + day)]
  OBVIOUS
<1>5. Flow(request, start, day) = SumFunctionOnSet(h, C)
  BY <1>1, <1>4 DEF Flow, SumFunction
<1>6. FlowOf(A, start, day) = SumFunctionOnSet(g, A)
  BY <1>4 DEF FlowOf, SumFunction
<1>7. ASSUME NEW s \in C PROVE h[s] \in Int /\ (s.amount = 0 => h[s] = 0)
  <2>1. PICK d, n : d = Delta(s) /\ n = TimesDue(s.next, s.interval, start, start + day)
    OBVIOUS
  <2>2. s \in AllSeries
    BY <1>3 DEF Planned
  <2>3. s.interval \in DOMAIN Period /\ s.next \in Int /\ d \in Int /\ (s.amount = 0 => d = 0)
    BY <2>1, <2>2, SeriesDatable
  <2>4. n \in Nat
    <3>1. PICK last : last = start + day
      OBVIOUS
    <3>2. last \in Int
      BY <3>1
    <3>3. TimesDue(s.next, s.interval, start, last) \in Nat
      BY <2>3, <3>2, DueCounts
    <3> QED BY <2>1, <3>1, <3>3
  <2>5. h[s] = d * n
    BY <1>4, <2>1
  <2>6. d * n \in Int /\ 0 * n = 0
    BY <2>3, <2>4
  <2> QED BY <2>3, <2>5, <2>6
<1>8. SumFunctionOnSet(h, C) = SumFunctionOnSet(h, A)
  <2>1. \A s \in C : h[s] \in Int
    BY <1>7
  <2>2. \A s \in C \ A : h[s] = 0
    BY <1>2, <1>7
  <2> QED BY <1>3, <2>1, <2>2, SumOfSome
<1>9. SumFunctionOnSet(g, A) = SumFunctionOnSet(h, A)
  <2>1. \A s \in A : h[s] \in Int
    BY <1>3, <1>7
  <2>2. \A s \in A : g[s] = h[s]
    BY <1>3, <1>4
  <2> QED BY <1>3, <2>1, <2>2, SumSame
<1> QED BY <1>1, <1>5, <1>6, <1>8, <1>9
-----------------------------------------------------------------------------
(* Forecasts                                                               *)

\* A forecast's balance of a day is near the exact one.
Exact(request, variable, start, day) ==
    3044 * (request.balance + Flow(request, start, day)) - 100 * Monthly(request, variable) * day
\* A balance that is as near to it as rounding allows.
NearExact(request, variable, start, n, day) ==
    Magnitude(3044 * n - Exact(request, variable, start, day)) <= Slack(Monthly(request, variable), day)

\* It is what is exact for the input of the forecast.
LEMMA ExactIs ==
    ASSUME SeriesAssumption, Planned, NEW request, Asking(request), NEW variable \in Int, NEW start \in Int,
           NEW in, in = InputOf(request, variable, plan, start), NEW day \in Nat
    PROVE  /\ Exact(request, variable, start, day) = Exactly(in, day)
           /\ Exact(request, variable, start, day) \in Int /\ Slack(Monthly(request, variable), day) \in Nat
<1>1. PICK bal, f, spend : bal = request.balance /\ f = Flow(request, start, day)
                           /\ spend = Monthly(request, variable)
  OBVIOUS
<1>2. /\ Projected(in) /\ in.start = start /\ in.balance = bal /\ bal \in Int /\ SpendOf(in) = spend
      /\ in.variable = variable
  BY <1>1, InputIs DEF InputOf
<1>3. f = FlowOf(AppliedTo(in), in.start, day)
  BY <1>1, <1>2, FlowIs
<1>4. Exactly(in, day) \in Int /\ f \in Int
  BY <1>2, <1>3, ExactlyIs
<1>5. spend \in Nat
  BY <1>2, SpendIs DEF Projected
<1>6. 100 * spend * day = 100 * (spend * day)
  BY <1>5
<1>7. Exact(request, variable, start, day) = 3044 * (bal + f) - 100 * spend * day
  BY <1>1 DEF Exact
<1>8. Exactly(in, day) = 3044 * (bal + f) - 100 * (spend * day)
  BY <1>2, <1>3 DEF Exactly
<1>9. Slack(spend, day) \in Nat
  BY <1>5, SlackIs
<1> QED BY <1>1, <1>4, <1>6, <1>7, <1>8, <1>9

\* Being near is to have an absolute difference that is small.
LEMMA NearIs ==
    ASSUME NEW a \in Int, NEW b \in Int, NEW c \in Nat, a <= b + c, b <= a + c
    PROVE  Magnitude(a - b) <= c
BY DEF Magnitude

\* What is kept of a forecast is near.
LEMMA ForecastNear ==
    ASSUME SeriesAssumption, Planned, NEW request, Asking(request), NEW variable \in Int, NEW start \in Int,
           NEW in, in = InputOf(request, variable, plan, start),
           NEW day \in 0 .. AskedHorizon(request)
    PROVE  /\ BalancePath(in)[day + 1] \in Int
           /\ NearExact(request, variable, start, BalancePath(in)[day + 1], day)
<1>1. PICK n, e, c : /\ n = BalancePath(in)[day + 1] /\ e = Exact(request, variable, start, day)
                     /\ c = Slack(Monthly(request, variable), day)
  OBVIOUS
<1>2. Projected(in) /\ Horizon(in) = AskedHorizon(request) /\ AskedHorizon(request) \in Nat
      /\ SpendOf(in) = Monthly(request, variable)
  BY InputIs
<1>3. day \in Nat /\ day + 1 \in 1 .. AskedHorizon(request) + 1
  BY <1>2
<1>4. n \in Int /\ NearTo(in, n, day)
  BY <1>1, <1>2, <1>3, PathNear
<1>5. e = Exactly(in, day) /\ e \in Int /\ c \in Nat
  BY <1>1, <1>3, ExactIs
<1>6. 3044 * n <= e + c /\ e <= 3044 * n + c
  BY <1>1, <1>2, <1>4, <1>5 DEF NearTo
<1>7. Magnitude(3044 * n - e) <= c
  <2>1. PICK m : m = 3044 * n
    OBVIOUS
  <2>2. m \in Int /\ m <= e + c /\ e <= m + c
    BY <1>4, <1>6, <2>1
  <2>3. Magnitude(m - e) <= c
    BY <1>5, <2>2, NearIs
  <2> QED BY <2>1, <2>3
<1> QED BY <1>1, <1>4, <1>7 DEF NearExact

\* A day of every week is kept, and so are the first and the last.
LEMMA WeekKept ==
    ASSUME NEW last \in Nat, NEW kept, kept = {n \in 0 .. last : n % 7 = 0 \/ n = last}
    PROVE  /\ {0, last} \subseteq kept /\ kept \subseteq 0 .. last
           /\ \A day \in 0 .. last - 6 : kept \cap (day .. day + 6) # {}
<1>1. {0, last} \subseteq kept /\ kept \subseteq 0 .. last
  <2>1. 0 % 7 = 0 /\ 0 \in 0 .. last /\ last \in 0 .. last
    OBVIOUS
  <2> QED BY <2>1
<1>2. ASSUME NEW day \in 0 .. last - 6 PROVE kept \cap (day .. day + 6) # {}
  <2>1. PICK q : q = (day + 6) \div 7
    OBVIOUS
  <2>2. q \in Int /\ 7 * q <= day + 6 /\ day + 6 < 7 * q + 7 /\ (7 * q) % 7 = 0
    BY <2>1
  <2>3. 7 * q \in 0 .. last /\ 7 * q \in day .. day + 6
    BY <2>2
  <2>4. 7 * q \in kept
    BY <2>2, <2>3
  <2> QED BY <2>3, <2>4
<1> QED BY <1>1, <1>2

\* A forecast of any request adds up.
LEMMA AddsUpHolds ==
    ASSUME SeriesAssumption, Planned, NEW request, Asking(request), NEW variable \in Int, NEW start \in Int,
           NEW r, r = CreateForecast(request, variable, plan, start)
    PROVE  AddsUp(request, variable, start, r)
<1>1. PICK in, path, last : /\ in = InputOf(request, variable, plan, start) /\ path = BalancePath(in)
                            /\ last = AskedHorizon(request)
  OBVIOUS
<1>2. Projected(in) /\ Horizon(in) = last /\ last \in Nat /\ last > 0
  BY <1>1, InputIs
<1>3. PICK p : p = Project(in)
  OBVIOUS
<1>4. Keeps(p, path, last)
  BY <1>1, <1>2, <1>3, ProjectIs
<1>5. r.horizon = p.horizon /\ r.min = p.min /\ r.ending = p.ending /\ r.points = p.points
  BY <1>1, <1>3, ForecastIs DEF Stores
<1>6. /\ r.horizon = last /\ r.ending = path[last + 1]
      /\ DOMAIN r.points = {n \in 0 .. last : n % 7 = 0 \/ n = last}
      /\ \A day \in DOMAIN r.points : r.points[day] = path[day + 1]
      /\ \E day \in 0 .. last : r.min = path[day + 1]
      /\ \A day \in 0 .. last : r.min <= path[day + 1]
  BY <1>4, <1>5 DEF Keeps
<1>7. \A day \in 0 .. last : path[day + 1] \in Int /\ NearExact(request, variable, start, path[day + 1], day)
  BY <1>1, ForecastNear
<1>8. PICK kept : kept = DOMAIN r.points
  OBVIOUS
<1>9. /\ {0, last} \subseteq kept /\ kept \subseteq 0 .. last
      /\ \A day \in 0 .. last - 6 : kept \cap (day .. day + 6) # {}
  <2>1. kept = {n \in 0 .. last : n % 7 = 0 \/ n = last}
    BY <1>6, <1>8
  <2> QED BY <1>2, <2>1, WeekKept
<1>10. r.points[last] = r.ending
  BY <1>6, <1>8, <1>9
<1>11. \A day \in kept : NearExact(request, variable, start, r.points[day], day)
  BY <1>6, <1>7, <1>8, <1>9
<1>12. \E day \in 0 .. last : NearExact(request, variable, start, r.min, day)
  BY <1>6, <1>7
<1>13. ASSUME NEW day \in 0 .. last
       PROVE  3044 * r.min <= Exact(request, variable, start, day) + Slack(Monthly(request, variable), day)
  <2>1. PICK n, e, c, m : /\ n = path[day + 1] /\ e = Exact(request, variable, start, day)
                          /\ c = Slack(Monthly(request, variable), day) /\ m = r.min
    OBVIOUS
  <2>2. n \in Int /\ Magnitude(3044 * n - e) <= c
    BY <1>7, <2>1 DEF NearExact
  <2>3. day \in Nat
    BY <1>2
  <2>4. e \in Int /\ c \in Nat
    BY <1>1, <2>1, <2>3, ExactIs
  <2>5. m \in Int /\ m <= n
    BY <1>6, <1>7, <2>1
  <2>6. 3044 * n <= e + c
    BY <2>2, <2>4 DEF Magnitude
  <2>7. 3044 * m <= e + c
    BY <2>2, <2>4, <2>5, <2>6
  <2> QED BY <2>1, <2>7
<1>14. last = (IF request.horizon <= 0 THEN DefaultHorizonDays ELSE request.horizon)
  BY <1>1 DEF AskedHorizon
<1> QED BY <1>6, <1>8, <1>9, <1>10, <1>11, <1>12, <1>13, <1>14 DEF AddsUp, NearExact, Exact
-----------------------------------------------------------------------------
(* A year of a baseline                                                    *)

\* What the chat shows of a baseline is the baseline's.
LEMMA ShownIs ==
    ASSUME NEW c, NEW b, b = runGetBaseline({c}), NEW x \in DOMAIN c
    PROVE  b[x] = c[x]
<1>1. PICK found, more : found = {c} /\ more = [ok |-> TRUE, available |-> TRUE]
  OBVIOUS
<1>2. (CHOOSE y \in found : TRUE) = c /\ found # {}
  BY <1>1
<1>3. b = Joined(c, more)
  BY <1>1, <1>2 DEF runGetBaseline, Shown
<1> QED BY <1>3, JoinedIs

\* It shows the free cashflow and the variable spend.
LEMMA BaselineShown ==
    ASSUME NEW from, NEW to, NEW series, NEW paid, NEW c, c = Compute(from, to, series, paid),
           NEW b, b = runGetBaseline({c})
    PROVE  b.variable = c.variable /\ b.free = c.free
<1>1. DOMAIN c = {"income", "fixed", "irregular", "variable", "free", "months", "confidence"}
  BY DEF Compute
<1>2. b["variable"] = c["variable"] /\ b["free"] = c["free"]
  BY <1>1, ShownIs
<1> QED BY <1>2

\* What it shows of a forecast is the first and the last balance.
LEMMA ForecastShown ==
    ASSUME NEW r, NEW f, f = runGetForecast({r})
    PROVE  f.ending = r.ending /\ f.starting = r.balance
<1>1. PICK c : c = [starting |-> r.balance, min |-> r.min, ending |-> r.ending, horizon |-> r.horizon,
                    variable |-> r.includeVariable, uncertain |-> r.includeUncertain,
                    disabled |-> Cardinality(r.disabled)]
  OBVIOUS
<1>2. PICK found : found = {c}
  OBVIOUS
<1>3. f = Shown(found)
  BY <1>1, <1>2 DEF runGetForecast
<1>4. f = runGetBaseline({c})
  BY <1>2, <1>3 DEF runGetBaseline
<1>5. DOMAIN c = {"starting", "min", "ending", "horizon", "variable", "uncertain", "disabled"}
  BY <1>1
<1>6. f["ending"] = c["ending"] /\ f["starting"] = c["starting"]
  BY <1>4, <1>5, ShownIs
<1> QED BY <1>1, <1>6

\* The series that have not ended, and those of them that are income.
Live == {s \in plan : s.status # "ended"}
\* Those that are income.
Earning == {s \in Live : s.income}
\* What a series brings in a month.
Gain(s) == IF s.income THEN monthlyEquivalent(s) ELSE -monthlyEquivalent(s)

\* What series bring in a month.
MonthGain == MonthlySum(Included \ IncludedCosts) - MonthlySum(Costs)

\* What a month brings is the income of the series less their costs.
LEMMA GainIs ==
    ASSUME SeriesAssumption, Planned, NEW g, g = [s \in Live |-> Gain(s)]
    PROVE  /\ \A s \in Live : g[s] \in Int
           /\ SumFunctionOnSet(g, Live) = MonthGain
<1>1. /\ Live \in SUBSET plan /\ Earning \in SUBSET Live /\ Costs \in SUBSET Live /\ Earning \in SUBSET plan
      /\ Earning \cup Costs = Live /\ Earning \cap Costs = {}
  BY DEF Live, Earning, Costs
<1>2. IsFiniteSet(Live) /\ IsFiniteSet(Earning) /\ IsFiniteSet(Costs)
  <2>1. IsFiniteSet(Live)
    BY <1>1, FS_Subset DEF Planned
  <2> QED BY <1>1, <2>1, FS_Subset
<1>3. PICK m : m = [s \in plan |-> monthlyEquivalent(s)]
  OBVIOUS
<1>4. \A s \in plan : m[s] = monthlyEquivalent(s) /\ m[s] \in Nat
  <2>1. \A s \in plan : s \in AllSeries
    BY DEF Planned
  <2> QED BY <1>3, <2>1, SeriesIs
<1>5. \A s \in Live : g[s] \in Int
  <2>1. ASSUME NEW s \in Live PROVE g[s] \in Int
    <3>1. g[s] = Gain(s) /\ monthlyEquivalent(s) \in Nat
      BY <1>1, <1>4
    <3> QED BY <3>1 DEF Gain
  <2> QED BY <2>1
<1>6. SumFunctionOnSet(g, Earning) = SumFunctionOnSet(m, Earning)
  <2>1. \A s \in Earning : m[s] \in Int /\ g[s] = m[s]
    <3>1. ASSUME NEW s \in Earning PROVE m[s] \in Int /\ g[s] = m[s]
      <4>1. s \in Live /\ s \in plan /\ s.income
        BY <1>1 DEF Earning
      <4>2. g[s] = Gain(s) /\ m[s] = monthlyEquivalent(s) /\ m[s] \in Nat
        BY <1>4, <4>1
      <4> QED BY <4>1, <4>2 DEF Gain
    <3> QED BY <3>1
  <2> QED BY <1>2, <2>1, SumSame
<1>7. SumFunctionOnSet(g, Costs) = -SumFunctionOnSet(m, Costs)
  <2>1. \A s \in Costs : m[s] \in Int /\ g[s] = -m[s]
    <3>1. ASSUME NEW s \in Costs PROVE m[s] \in Int /\ g[s] = -m[s]
      <4>1. s \in Live /\ s \in plan /\ ~s.income
        BY <1>1 DEF Costs
      <4>2. g[s] = Gain(s) /\ m[s] = monthlyEquivalent(s) /\ m[s] \in Nat
        BY <1>4, <4>1
      <4> QED BY <4>1, <4>2 DEF Gain
    <3> QED BY <3>1
  <2> QED BY <1>2, <2>1, SumNegated
<1>8. SumFunctionOnSet(g, Live) = SumFunctionOnSet(g, Earning) + SumFunctionOnSet(g, Costs)
  <2>1. \A s \in Earning \cup Costs : g[s] \in Int
    BY <1>1, <1>5
  <2>2. SumFunctionOnSet(g, Earning \cup Costs) = SumFunctionOnSet(g, Earning) + SumFunctionOnSet(g, Costs)
    BY <1>1, <1>2, <2>1, SumUnion
  <2> QED BY <1>1, <2>2
<1>9. PICK I : I = Included \ IncludedCosts
  OBVIOUS
<1>10. SumFunctionOnSet(m, Earning) = SumFunctionOnSet(m, I)
  <2>1. I \in SUBSET Earning
    BY <1>9 DEF Included, IncludedCosts, Earning, Live
  <2>2. \A s \in Earning : m[s] \in Int
    BY <1>1, <1>4
  <2>3. \A s \in Earning \ I : m[s] = 0
    <3>1. ASSUME NEW s \in Earning, s \notin I PROVE m[s] = 0
      <4>1. s \in plan /\ s.status # "ended" /\ s.income
        BY DEF Earning, Live
      <4>2. monthlyEquivalent(s) = 0
        BY <1>9, <3>1, <4>1 DEF Included, IncludedCosts
      <4> QED BY <1>4, <4>1, <4>2
    <3> QED BY <3>1
  <2> QED BY <1>2, <2>1, <2>2, <2>3, SumOfSome
<1>11. MonthlySum(I) = SumFunctionOnSet(m, I) /\ MonthlySum(Costs) = SumFunctionOnSet(m, Costs)
       /\ MonthlySum(I) \in Nat /\ MonthlySum(Costs) \in Nat
  <2>1. I \in SUBSET plan /\ Costs \in SUBSET plan
    BY <1>9, CostsAre
  <2> QED BY <1>3, <2>1, MonthlySumIs
<1>12. SumFunctionOnSet(g, Live) = MonthlySum(I) + (-MonthlySum(Costs))
  BY <1>6, <1>7, <1>8, <1>10, <1>11
<1>13. MonthlySum(I) + (-MonthlySum(Costs)) = MonthlySum(I) - MonthlySum(Costs)
  BY <1>11
<1> QED BY <1>5, <1>9, <1>12, <1>13 DEF MonthGain

\* A series due as often as its interval says brings in a year what twelve
\* months bring, but for the rounding of a month.
LEMMA SeriesYear ==
    ASSUME SeriesAssumption, NEW s \in AllSeries, NEW n, n = 12 \div Period[s.interval],
           NEW a, a = 100 * (Delta(s) * n), NEW b, b = 12 * Gain(s)
    PROVE  Delta(s) * n \in Int /\ a \in Int /\ b \in Int /\ b - 6 <= a /\ a <= b + 6
<1>1. PICK x, m : x = Magnitude(s.amount) /\ m = monthlyEquivalent(s)
  OBVIOUS
<1>2. /\ n \in Nat /\ s.amount \in Int /\ x \in Nat /\ m \in Nat
      /\ 100 * (n * x) - 6 <= 12 * m /\ 12 * m <= 100 * (n * x) + 6
  BY <1>1, SeriesIs
<1>3. PICK p : p = n * x
  OBVIOUS
<1>4. p \in Int /\ x * n = p /\ (-x) * n = -p
  BY <1>2, <1>3
<1>5. CASE s.income
  <2>1. Delta(s) = x /\ Gain(s) = m
    BY <1>1, <1>5 DEF Delta, Gain
  <2>2. a = 100 * p /\ b = 12 * m
    BY <1>4, <2>1
  <2> QED BY <1>2, <1>3, <1>4, <2>1, <2>2
<1>6. CASE ~s.income
  <2>1. Delta(s) = -x /\ Gain(s) = -m
    BY <1>1, <1>6 DEF Delta, Gain
  <2>2. a = 100 * (-p) /\ b = 12 * (-m)
    BY <1>4, <2>1
  <2> QED BY <1>2, <1>3, <1>4, <2>1, <2>2
<1> QED BY <1>5, <1>6

\* A year of series due as often as they should be brings twelve times that.
LEMMA YearFlow ==
    ASSUME SeriesAssumption, Planned, NEW request, Counted(request) = Live, NEW start \in Int,
           DueAsOften(Live, start), NEW flow, flow = Flow(request, start, 365),
           NEW gain, gain = MonthGain
    PROVE  /\ flow \in Int /\ gain \in Int /\ Cardinality(plan) \in Nat
           /\ 100 * flow <= 12 * gain + 6 * Cardinality(plan)
           /\ 12 * gain <= 100 * flow + 6 * Cardinality(plan)
<1>1. Live \in SUBSET plan /\ IsFiniteSet(Live) /\ IsFiniteSet(plan)
      /\ Cardinality(Live) \in 0 .. Cardinality(plan) /\ Cardinality(plan) \in Nat
  <2>1. Live \in SUBSET plan /\ IsFiniteSet(plan)
    BY DEF Live, Planned
  <2> QED BY <2>1, Smaller, FS_CardinalityType
<1>2. PICK f : f = [s \in Live |-> Delta(s) * TimesDue(s.next, s.interval, start, start + 365)]
  OBVIOUS
<1>3. PICK g : g = [s \in Live |-> Gain(s)]
  OBVIOUS
<1>4. PICK ff, gg : ff = [s \in Live |-> 100 * f[s]] /\ gg = [s \in Live |-> 12 * g[s]]
  OBVIOUS
<1>5. flow = SumFunctionOnSet(f, Live)
  BY <1>2 DEF Flow, SumFunction
<1>6. gain = SumFunctionOnSet(g, Live) /\ \A s \in Live : g[s] \in Int
  BY <1>3, GainIs
<1>7. ASSUME NEW s \in Live
      PROVE  f[s] \in Int /\ ff[s] = 100 * f[s] /\ gg[s] = 12 * g[s] /\ ff[s] \in Int /\ gg[s] \in Int
             /\ gg[s] - 6 <= ff[s] /\ ff[s] <= gg[s] + 6
  <2>1. s \in AllSeries
    BY <1>1 DEF Planned
  <2>2. PICK n : n = 12 \div Period[s.interval]
    OBVIOUS
  <2>3. f[s] = Delta(s) * n
    BY <1>2, <2>2 DEF DueAsOften
  <2>4. ff[s] = 100 * (Delta(s) * n) /\ gg[s] = 12 * Gain(s)
    BY <1>3, <1>4, <2>3
  <2>5. Delta(s) * n \in Int /\ ff[s] \in Int /\ gg[s] \in Int /\ gg[s] - 6 <= ff[s] /\ ff[s] <= gg[s] + 6
    BY <2>1, <2>2, <2>4, SeriesYear
  <2> QED BY <1>4, <2>3, <2>5
<1>8. SumFunctionOnSet(f, Live) \in Int /\ SumFunctionOnSet(ff, Live) = 100 * SumFunctionOnSet(f, Live)
  BY <1>1, <1>7, SumScaled
<1>9. SumFunctionOnSet(g, Live) \in Int /\ SumFunctionOnSet(gg, Live) = 12 * SumFunctionOnSet(g, Live)
  BY <1>1, <1>6, <1>7, SumScaled
<1>10. /\ SumFunctionOnSet(gg, Live) - 6 * Cardinality(Live) <= SumFunctionOnSet(ff, Live)
       /\ SumFunctionOnSet(ff, Live) <= SumFunctionOnSet(gg, Live) + 6 * Cardinality(Live)
  <2>1. \A s \in Live : ff[s] \in Int /\ gg[s] \in Int /\ gg[s] - 6 <= ff[s] /\ ff[s] <= gg[s] + 6
    BY <1>7
  <2>2. PICK six : six = 6
    OBVIOUS
  <2>3. six \in Nat /\ \A s \in Live : gg[s] - six <= ff[s] /\ ff[s] <= gg[s] + six
    BY <2>1, <2>2
  <2>4. /\ SumFunctionOnSet(gg, Live) - six * Cardinality(Live) <= SumFunctionOnSet(ff, Live)
        /\ SumFunctionOnSet(ff, Live) <= SumFunctionOnSet(gg, Live) + six * Cardinality(Live)
    BY <1>1, <2>1, <2>3, SumNear
  <2> QED BY <2>2, <2>4
<1>11. PICK n, k, F, G : n = Cardinality(Live) /\ k = Cardinality(plan) /\ F = flow /\ G = gain
  OBVIOUS
<1>12. n \in Int /\ k \in Nat /\ n <= k /\ F \in Int /\ G \in Int
  BY <1>1, <1>5, <1>6, <1>8, <1>9, <1>11
<1>13. 12 * G - 6 * n <= 100 * F /\ 100 * F <= 12 * G + 6 * n
  BY <1>5, <1>6, <1>8, <1>9, <1>10, <1>11
<1>14. 100 * F <= 12 * G + 6 * k /\ 12 * G <= 100 * F + 6 * k
  BY <1>12, <1>13
<1> QED BY <1>11, <1>12, <1>14

\* The ending of a year, and twelve times what a month leaves.
Balanced(d, e, bal, flow, v) ==
    d = 3044 * e - (3044 * (bal + flow) - 100 * (365 * v)) /\ d <= 1523 * 365 /\ -(1523 * 365) <= d
\* A flow that is twelve times what is gained, but for the rounding of each series.
Gained(flow, gain, n) == 100 * flow <= 12 * gain + 6 * n /\ 12 * gain <= 100 * flow + 6 * n
\* A free cashflow that is what the variable spend leaves.
Leaves(free, rest, gain, v) == rest = gain - 100 * v /\ 100 * free <= rest + 50 /\ rest - 50 <= 100 * free
\* A balance that moves by twelve times the free cashflow.
Adds(x, e, bal, free, n, v) == x = (e - bal) - 12 * free => 100 * (Magnitude(x) - 190) <= 6 * n + v

\* The balance of a year moves so.
LEMMA YearAdds ==
    ASSUME NEW e \in Int, NEW bal \in Int, NEW flow \in Int, NEW gain \in Int, NEW v \in Nat, NEW n \in Nat,
           NEW free \in Int, NEW d, Balanced(d, e, bal, flow, v), Gained(flow, gain, n),
           NEW rest, Leaves(free, rest, gain, v), NEW x
    PROVE  Adds(x, e, bal, free, n, v)
<1>1. SUFFICES ASSUME x = (e - bal) - 12 * free PROVE 100 * (Magnitude(x) - 190) <= 6 * n + v
  BY DEF Adds
<1>2. /\ d = 3044 * e - (3044 * (bal + flow) - 100 * (365 * v)) /\ d <= 1523 * 365 /\ -(1523 * 365) <= d
      /\ 100 * flow <= 12 * gain + 6 * n /\ 12 * gain <= 100 * flow + 6 * n
      /\ rest = gain - 100 * v /\ 100 * free <= rest + 50 /\ rest - 50 <= 100 * free
  BY DEF Balanced, Gained, Leaves
<1>3. x \in Int /\ d \in Int /\ rest \in Int
  BY <1>1, <1>2
<1>4. 100 * (x - 190) <= 6 * n + v
  BY <1>1, <1>2, <1>3
<1>5. 100 * ((-x) - 190) <= 6 * n + v
  BY <1>1, <1>2, <1>3
<1> QED BY <1>3, <1>4, <1>5 DEF Magnitude
-----------------------------------------------------------------------------
(* A year of a forecast                                                    *)

\* A year of all series may be asked for.
LEMMA YearlyIs ==
    ASSUME NEW balance \in Int, NEW request, request = Yearly(balance)
    PROVE  /\ Asking(request) /\ AskedHorizon(request) = 365 /\ Counted(request) = Live
           /\ request.balance = balance /\ \A v \in Nat : Monthly(request, v) = v
<1>1. /\ request.balance = balance /\ request.horizon = 365 /\ request.disabled = {}
      /\ request.includeVariable = TRUE /\ request.includeUncertain = TRUE
  BY DEF Yearly
<1>2. {} \in SUBSET (Nat \ {0})
  OBVIOUS
<1>3. 365 \in Int /\ ~(365 <= 0)
  OBVIOUS
<1>4. Asking(request)
  BY <1>2, <1>3 DEF Asking, Yearly
<1>5. AskedHorizon(request) = 365
  BY <1>1, <1>3 DEF AskedHorizon
<1>6. Counted(request) = Live
  BY <1>1 DEF Counted, Live
<1>7. \A v \in Nat : Monthly(request, v) = v
  BY <1>1 DEF Monthly, Magnitude
<1> QED BY <1>1, <1>4, <1>5, <1>6, <1>7

\* The variable spend and the rest of a baseline.
LEMMA RestIs ==
    ASSUME SeriesAssumption, Planned, NEW period, period.from \in Int, period.to \in Int, period.from < period.to,
           NEW other \in Nat, NEW c, c = Compute(period.from, period.to, plan, other + PaidInYear),
           NEW gain, gain = MonthGain
    PROVE  /\ gain \in Int /\ c.variable \in Nat /\ c.free \in Int
           /\ 100 * c.free <= (gain - 100 * c.variable) + 50
           /\ (gain - 100 * c.variable) - 50 <= 100 * c.free
<1>1. PICK from, to : from = period.from /\ to = period.to
  OBVIOUS
<1>2. PICK paid, months : paid = other + PaidInYear /\ months = inclusiveMonthSpan(from, to)
  OBVIOUS
<1>21. months \in Nat /\ months >= 100
  <2>1. from \in Int /\ to \in Int /\ from <= to
    BY <1>1
  <2>2. months = inclusiveMonthSpan(from, to)
    BY <1>2
  <2>3. /\ months \in Nat /\ months >= 100
        /\ \A m \in Int : from = MonthStart(m - 11) /\ to = MonthEnd(m) => months = 1200
    BY <2>1, <2>2, SpanIs
  <2> QED BY <2>3
<1>3. PICK income, fixed, irregular, all : /\ income = MonthlySum(Included \ IncludedCosts)
                                           /\ fixed = MonthlySum(IncludedCosts \ Irregular)
                                           /\ irregular = MonthlySum(Irregular) /\ all = MonthlySum(Costs)
  OBVIOUS
<1>4. income \in Nat /\ fixed \in Nat /\ irregular \in Nat /\ all = fixed + irregular
  <2>1. income \in Nat /\ fixed \in Nat /\ irregular \in Nat
    BY <1>3, CostsAre, MonthlySumIs
  <2> QED BY <1>3, <2>1, CostsAre
<1>5. paid \in Nat
  <2>1. PaidInYear \in Int /\ PaidInYear >= 0
    BY CostsPaid
  <2> QED BY <1>2, <2>1
<1>6. PICK v, free : v = c.variable /\ free = c.free
  OBVIOUS
<1>7. /\ v = RoundDiv(Uncovered(fixed, irregular, paid, months), 100 * months)
      /\ free = RoundDiv(income - fixed - irregular - 100 * v, 100)
  <2>1. c = Compute(from, to, plan, paid)
    BY <1>1, <1>2
  <2>2. Numbers(c, months, income, fixed, irregular, paid)
    BY <1>2, <1>3, <2>1, ComputeIs
  <2> QED BY <1>6, <2>2 DEF Numbers
<1>8. v \in Nat
  <2>1. PICK cost : cost = (fixed + irregular) * months
    OBVIOUS
  <2>2. ByMonth(v, paid, cost, months)
    BY <1>21, <1>4, <1>5, <1>7, <2>1, VariableIs
  <2> QED BY <2>2 DEF ByMonth
<1>9. PICK rest : rest = gain - 100 * v
  OBVIOUS
<1>10. gain \in Int /\ rest \in Int /\ rest = income - fixed - irregular - 100 * v
  <2>1. gain = income - all
    BY <1>3 DEF MonthGain
  <2>2. gain = income - (fixed + irregular)
    BY ONLY <1>4, <2>1
  <2>3. income - (fixed + irregular) = (income - fixed) - irregular /\ income - (fixed + irregular) \in Int
    BY ONLY <1>4
  <2>4. gain \in Int /\ gain = (income - fixed) - irregular
    BY ONLY <2>2, <2>3
  <2> QED BY ONLY <1>8, <1>9, <2>4
<1>11. free = RoundDiv(rest, 100)
  BY <1>7, <1>10
<1>12. free \in Int /\ 100 * free <= rest + 50 /\ rest - 50 <= 100 * free
  <2>1. rest \in Int
    BY <1>10
  <2> QED BY ONLY <1>11, <2>1, RoundedCents
<1> QED BY <1>6, <1>8, <1>9, <1>10, <1>12

\* A year of a forecast follows the baseline.
LEMMA FollowsHolds ==
    ASSUME SeriesAssumption, Planned, NEW start \in Nat, NEW other \in Nat, NEW balance \in Int
    PROVE  FollowsBaseline(start, other, balance)
<1>1. PICK period : period = DefaultPeriod(NoBooking, start)
  OBVIOUS
<1>2. period.from \in Int /\ period.to \in Int /\ period.from < period.to
  BY <1>1, PeriodIs
<1>3. PICK c, b, request : /\ c = Compute(period.from, period.to, plan, other + PaidInYear)
                           /\ b = runGetBaseline({c}) /\ request = Yearly(balance)
  OBVIOUS
<1>4. PICK r, f : r = CreateForecast(request, b.variable, plan, start) /\ f = runGetForecast({r})
  OBVIOUS
<1>5. PICK v, free, gain : /\ v = b.variable /\ free = b.free
                           /\ gain = MonthGain
  OBVIOUS
<1>6. /\ gain \in Int /\ v \in Nat /\ free \in Int
      /\ 100 * free <= (gain - 100 * v) + 50 /\ (gain - 100 * v) - 50 <= 100 * free
  <2>1. /\ gain \in Int /\ c.variable \in Nat /\ c.free \in Int
        /\ 100 * c.free <= (gain - 100 * c.variable) + 50 /\ (gain - 100 * c.variable) - 50 <= 100 * c.free
    BY <1>2, <1>3, <1>5, RestIs
  <2>2. b.variable = c.variable /\ b.free = c.free
    BY <1>3, BaselineShown
  <2> QED BY <1>5, <2>1, <2>2
<1>7. /\ Asking(request) /\ AskedHorizon(request) = 365 /\ Counted(request) = Live
      /\ request.balance = balance /\ Monthly(request, v) = v
  BY <1>3, <1>6, YearlyIs
<1>8. f.ending = r.ending /\ f.starting = balance
  <2>1. f.ending = r.ending /\ f.starting = r.balance
    BY <1>4, ForecastShown
  <2>2. r.balance = request.balance
    BY <1>4, <1>7, ForecastIs DEF Stores
  <2> QED BY <1>7, <2>1, <2>2
<1>9. PICK year : year = 365
  OBVIOUS
<1>10. PICK in, path : in = InputOf(request, v, plan, start) /\ path = BalancePath(in)
  OBVIOUS
<1>11. r.ending = path[year + 1] /\ path[year + 1] \in Int /\ NearExact(request, v, start, path[year + 1], year)
  <2>1. v \in Int /\ start \in Int /\ year \in 0 .. AskedHorizon(request) /\ AskedHorizon(request) = year
    BY <1>6, <1>7, <1>9
  <2>2. path[year + 1] \in Int /\ NearExact(request, v, start, path[year + 1], year)
    BY <1>7, <1>10, <2>1, ForecastNear
  <2>3. Projected(in) /\ Horizon(in) = year
    BY <1>7, <1>10, <2>1, InputIs
  <2>4. Keeps(Project(in), path, year)
    BY <1>10, <2>3, ProjectIs
  <2>5. r.ending = Project(in).ending
    BY <1>4, <1>5, <1>7, <1>10, ForecastIs DEF Stores
  <2> QED BY <2>2, <2>4, <2>5 DEF Keeps
<1>12. PICK e, flow, slack, n : /\ e = path[year + 1] /\ flow = Flow(request, start, year)
                                /\ slack = Slack(v, year) /\ n = Cardinality(plan)
  OBVIOUS
<1>13. ASSUME DueAsOften(Live, start)
       PROVE  Follows(f, b)
  <2>1. /\ flow \in Int /\ n \in Nat /\ 100 * flow <= 12 * gain + 6 * n /\ 12 * gain <= 100 * flow + 6 * n
    <3>1. flow = Flow(request, start, 365)
      BY <1>9, <1>12
    <3> QED BY <1>5, <1>7, <1>12, <1>13, <3>1, YearFlow
  <2>2. PICK d, x, rest : /\ d = 3044 * e - (3044 * (balance + flow) - 100 * (365 * v))
                          /\ x = (e - balance) - 12 * free /\ rest = gain - 100 * v
    OBVIOUS
  <2>3. e \in Int /\ d \in Int /\ d <= 1523 * 365 /\ -(1523 * 365) <= d
    <3>1. Exact(request, v, start, year) = 3044 * (balance + flow) - 100 * v * 365
      BY <1>7, <1>9, <1>12 DEF Exact
    <3>2. 100 * v * 365 = 100 * (365 * v)
      BY <1>6
    <3>3. e \in Int /\ Magnitude(3044 * e - Exact(request, v, start, year)) <= slack
      BY <1>7, <1>11, <1>12 DEF NearExact
    <3>4. slack \in Nat /\ slack <= 1523 * 365
      BY <1>6, <1>9, <1>12 DEF Slack
    <3>5. Magnitude(d) <= slack /\ d \in Int
      BY <1>6, <2>1, <2>2, <3>1, <3>2, <3>3
    <3> QED BY <3>3, <3>4, <3>5 DEF Magnitude
  <2>4. 100 * free <= rest + 50 /\ rest - 50 <= 100 * free
    BY <1>6, <2>2
  <2>5. Balanced(d, e, balance, flow, v) /\ Gained(flow, gain, n) /\ Leaves(free, rest, gain, v)
    BY <2>1, <2>2, <2>3, <2>4 DEF Balanced, Gained, Leaves
  <2>6. Adds(x, e, balance, free, n, v)
    <3>1. e \in Int /\ balance \in Int /\ flow \in Int /\ gain \in Int /\ v \in Nat /\ n \in Nat /\ free \in Int
      BY <1>6, <2>1, <2>3
    <3> QED BY ONLY <2>5, <3>1, YearAdds
  <2>7. 100 * (Magnitude(x) - 190) <= 6 * n + v
    BY <2>2, <2>6 DEF Adds
  <2>8. f.ending = e /\ f.starting = balance /\ b.free = free /\ b.variable = v /\ Cardinality(plan) = n
    BY <1>5, <1>8, <1>11, <1>12
  <2>9. (f.ending - f.starting) - 12 * b.free = x
    BY ONLY <2>2, <2>8
  <2>10. 100 * (Magnitude(x) - 190) <= 6 * Cardinality(plan) + b.variable
    BY ONLY <2>7, <2>8
  <2> QED BY ONLY <2>9, <2>10 DEF Follows
<1>14. DueAsOften(Counted(Yearly(balance)), start) => Follows(f, b)
  BY <1>3, <1>7, <1>13
<1> QED BY <1>1, <1>3, <1>4, <1>14 DEF FollowsBaseline

\* ProjectionAddsUp holds of typed series, finite in number.
LEMMA ProjectionHolds ==
    ASSUME SeriesAssumption, Planned
    PROVE  ProjectionAddsUp
<1>1. ASSUME NEW request \in Requests, NEW variable \in Variables, NEW start \in askedOn
      PROVE  AddsUp(request, variable, start, CreateForecast(request, variable, plan, start))
  <2>1. Asking(request) /\ variable \in Int /\ start \in Int
    BY DEF SeriesAssumption, Asking, Planned
  <2> QED BY <2>1, AddsUpHolds
<1>2. ASSUME NEW start \in askedOn, NEW other \in Others, NEW balance \in Sums
      PROVE  FollowsBaseline(start, other, balance)
  <2>1. start \in Nat /\ other \in Nat /\ balance \in Int
    BY DEF SeriesAssumption, Planned
  <2> QED BY <2>1, FollowsHolds
<1> QED BY <1>1, <1>2 DEF ProjectionAddsUp
-----------------------------------------------------------------------------
(* The flow of some series, and of both of two sets                        *)

\* The sum of one term, and of terms that are the same.
LEMMA SumSingle ==
    ASSUME NEW x, NEW f, f[x] \in Int, NEW S, S = {x}
    PROVE  SumFunctionOnSet(f, S) = f[x]
<1>1. PICK none : none = {}
  OBVIOUS
<1>2. IsFiniteSet(S) /\ x \in S /\ none \in SUBSET S /\ x \notin none /\ none \cup {x} = S
      /\ \A y \in S : f[y] \in Int
  <2>1. IsFiniteSet({x})
    BY FS_Singleton
  <2> QED BY <1>1, <2>1
<1>3. SumFunctionOnSet(f, none \cup {x}) = f[x] + SumFunctionOnSet(f, none)
  BY <1>2, SumWith
<1>4. SumFunctionOnSet(f, none) = 0
  BY <1>1, <1>2, SumTyped
<1>5. SumFunctionOnSet(f, S) = f[x] + 0
  BY <1>2, <1>3, <1>4
<1> QED BY <1>5

\* The sum of terms that are all the same.
LEMMA SumConstant ==
    ASSUME NEW S, IsFiniteSet(S), NEW c \in Int, NEW f, \A x \in S : f[x] = c
    PROVE  Cardinality(S) \in Nat /\ SumFunctionOnSet(f, S) = c * Cardinality(S)
<1> DEFINE P == {T \in SUBSET S : Cardinality(T) \in Nat /\ SumFunctionOnSet(f, T) = c * Cardinality(T)}
<1>1. {} \in P
  <2>1. IsFiniteSet({}) /\ Cardinality({}) = 0
    BY FS_EmptySet
  <2>2. SumFunctionOnSet(f, {}) = 0
    BY <2>1, SumTyped
  <2>3. c * 0 = 0
    OBVIOUS
  <2> QED BY <2>1, <2>2, <2>3
<1>2. ASSUME NEW T \in SUBSET S, NEW x \in S, T \in P, x \notin T PROVE T \cup {x} \in P
  <2>1. PICK n : n = Cardinality(T)
    OBVIOUS
  <2>2. n \in Nat /\ SumFunctionOnSet(f, T) = c * n
    BY <1>2, <2>1
  <2>3. SumFunctionOnSet(f, T \cup {x}) = f[x] + SumFunctionOnSet(f, T)
    <3>1. \A y \in S : f[y] \in Int
      OBVIOUS
    <3> QED BY <1>2, <3>1, SumWith
  <2>4. Cardinality(T \cup {x}) = n + 1
    <3>1. IsFiniteSet(T)
      BY FS_Subset
    <3> QED BY <1>2, <2>1, <3>1, FS_AddElement
  <2>5. c * (n + 1) = c + c * n /\ n + 1 \in Nat /\ T \cup {x} \in SUBSET S
    BY <2>2
  <2>6. f[x] = c
    OBVIOUS
  <2> QED BY <2>2, <2>3, <2>4, <2>5, <2>6
<1>3. S \in P
  <2>1. \A T \in SUBSET S, x \in S : T \in P /\ x \notin T => T \cup {x} \in P
    BY <1>2
  <2> HIDE DEF P
  <2> QED BY <1>1, <2>1, FiniteInduct
<1> QED BY <1>3

\* The flow of series is that of those whose amount is not nothing.
LEMMA FlowOfSome ==
    ASSUME NEW S, Datable(S), NEW T \in SUBSET S, \A s \in S \ T : Delta(s) = 0,
           NEW start \in Int, NEW t \in Nat
    PROVE  Datable(T) /\ FlowOf(S, start, t) = FlowOf(T, start, t)
<1>1. PICK h, g : /\ h = [s \in S |-> Delta(s) * TimesDue(s.next, s.interval, start, start + t)]
                  /\ g = [s \in T |-> Delta(s) * TimesDue(s.next, s.interval, start, start + t)]
  OBVIOUS
<1>2. FlowOf(S, start, t) = SumFunctionOnSet(h, S) /\ FlowOf(T, start, t) = SumFunctionOnSet(g, T)
  BY <1>1 DEF FlowOf, SumFunction
<1>3. IsFiniteSet(S) /\ IsFiniteSet(T)
  BY FS_Subset DEF Datable
<1>4. ASSUME NEW s \in S PROVE h[s] \in Int /\ (s \notin T => h[s] = 0)
  <2>1. PICK d, n : d = Delta(s) /\ n = TimesDue(s.next, s.interval, start, start + t)
    OBVIOUS
  <2>2. d \in Int /\ n \in Nat
    <3>1. start + t \in Int /\ s.interval \in DOMAIN Period /\ s.next \in Int /\ d \in Int
      BY <2>1 DEF Datable
    <3> QED BY <2>1, <3>1, DueCounts
  <2>3. h[s] = d * n /\ (s \notin T => d = 0)
    BY <1>1, <2>1
  <2>4. d * n \in Int /\ 0 * n = 0
    BY <2>2
  <2> QED BY <2>3, <2>4
<1>5. SumFunctionOnSet(h, S) = SumFunctionOnSet(h, T)
  <2>1. (\A s \in S : h[s] \in Int) /\ \A s \in S \ T : h[s] = 0
    BY <1>4
  <2> QED BY <1>3, <2>1, SumOfSome
<1>6. SumFunctionOnSet(g, T) = SumFunctionOnSet(h, T)
  <2>1. \A s \in T : h[s] \in Int /\ g[s] = h[s]
    BY <1>1, <1>4
  <2> QED BY <1>3, <2>1, SumSame
<1>7. Datable(T)
  BY <1>3 DEF Datable
<1> QED BY <1>2, <1>5, <1>6, <1>7

\* The flow of two sets of series is that of each.
LEMMA FlowOfBoth ==
    ASSUME NEW S, Datable(S), NEW T, Datable(T), S \cap T = {}, NEW start \in Int, NEW t \in Nat
    PROVE  /\ Datable(S \cup T) /\ FlowOf(S, start, t) \in Int /\ FlowOf(T, start, t) \in Int
           /\ FlowOf(S \cup T, start, t) = FlowOf(S, start, t) + FlowOf(T, start, t)
<1>1. PICK U : U = S \cup T
  OBVIOUS
<1>2. IsFiniteSet(S) /\ IsFiniteSet(T) /\ IsFiniteSet(U)
  BY <1>1, FS_Union DEF Datable
<1>3. Datable(U)
  BY <1>1, <1>2 DEF Datable
<1>4. PICK h, f, g : /\ h = [s \in U |-> Delta(s) * TimesDue(s.next, s.interval, start, start + t)]
                     /\ f = [s \in S |-> Delta(s) * TimesDue(s.next, s.interval, start, start + t)]
                     /\ g = [s \in T |-> Delta(s) * TimesDue(s.next, s.interval, start, start + t)]
  OBVIOUS
<1>5. /\ FlowOf(U, start, t) = SumFunctionOnSet(h, U) /\ FlowOf(S, start, t) = SumFunctionOnSet(f, S)
      /\ FlowOf(T, start, t) = SumFunctionOnSet(g, T)
  BY <1>4 DEF FlowOf, SumFunction
<1>6. ASSUME NEW s \in U PROVE h[s] \in Int
  <2>1. PICK d, n : d = Delta(s) /\ n = TimesDue(s.next, s.interval, start, start + t)
    OBVIOUS
  <2>2. d \in Int /\ n \in Nat
    <3>1. start + t \in Int /\ s.interval \in DOMAIN Period /\ s.next \in Int /\ d \in Int
      BY <1>3, <2>1 DEF Datable
    <3> QED BY <2>1, <3>1, DueCounts
  <2>3. h[s] = d * n
    BY <1>4, <2>1
  <2> QED BY <2>2, <2>3
<1>7. SumFunctionOnSet(h, S \cup T) = SumFunctionOnSet(h, S) + SumFunctionOnSet(h, T)
  <2>1. \A s \in S \cup T : h[s] \in Int
    BY <1>1, <1>6
  <2> QED BY <1>2, <2>1, SumUnion
<1>8. SumFunctionOnSet(f, S) = SumFunctionOnSet(h, S)
  <2>1. \A s \in S : h[s] \in Int /\ f[s] = h[s]
    BY <1>1, <1>4, <1>6
  <2> QED BY <1>2, <2>1, SumSame
<1>9. SumFunctionOnSet(g, T) = SumFunctionOnSet(h, T)
  <2>1. \A s \in T : h[s] \in Int /\ g[s] = h[s]
    BY <1>1, <1>4, <1>6
  <2> QED BY <1>2, <2>1, SumSame
<1>10. FlowOf(S, start, t) \in Int /\ FlowOf(T, start, t) \in Int
  BY FlowGrows
<1> QED BY <1>1, <1>3, <1>5, <1>7, <1>8, <1>9, <1>10
-----------------------------------------------------------------------------
(* Series that a scenario adds                                             *)

\* Series a scenario adds.
Overlaying(more) ==
    /\ Datable(more)
    /\ \A s \in more : /\ s.status = "active" /\ s.id \in Int /\ s.id <= 0
                       /\ s.amount = 0 => Delta(s) = 0

\* They are none of the household's, and none that a forecast switches off.
LEMMA OverlaidIs ==
    ASSUME SeriesAssumption, Planned, NEW request, Asking(request), NEW variable \in Int, NEW start \in Int,
           NEW more, Overlaying(more), NEW in, in = InputOf(request, variable, plan, start),
           NEW m, m = InputOf(request, variable, plan \cup more, start), NEW t \in Nat
    PROVE  /\ Projected(m) /\ Horizon(m) = Horizon(in) /\ m.start = start /\ m.balance = in.balance
           /\ SpendOf(m) = SpendOf(in) /\ FlowOf(more, start, t) \in Int
           /\ FlowOf(AppliedTo(m), start, t) = FlowOf(AppliedTo(in), start, t) + FlowOf(more, start, t)
<1>1. /\ in.series = plan /\ in.start = start /\ in.horizon = m.horizon /\ in.balance = m.balance
      /\ in.variable = variable /\ in.disabled = request.disabled
      /\ in.includeVariable = m.includeVariable /\ in.includeUncertain = m.includeUncertain
  BY DEF InputOf
<1>2. /\ m.series = plan \cup more /\ m.start = start /\ m.variable = variable /\ m.disabled = request.disabled
  BY DEF InputOf
<1>3. Projected(in)
  BY InputIs
<1>4. Datable(plan) /\ Datable(more)
  BY <1>1, <1>3 DEF Projected, Overlaying
<1>5. Projected(m)
  <2>1. IsFiniteSet(plan \cup more)
    BY <1>4, FS_Union DEF Datable
  <2>2. Datable(plan \cup more)
    BY <1>4, <2>1 DEF Datable
  <2> QED BY <1>1, <1>2, <1>3, <2>2 DEF Projected
<1>6. Horizon(m) = Horizon(in) /\ SpendOf(m) = SpendOf(in)
  BY <1>1, <1>2 DEF Horizon, SpendOf
<1>7. PICK some : some = {s \in more : s.amount # 0}
  OBVIOUS
<1>8. request.disabled \in SUBSET (Nat \ {0})
  BY DEF Asking
<1>9. \A s \in more : s.id \notin request.disabled /\ s.status = "active"
  BY <1>8 DEF Overlaying
<1>10. AppliedTo(m) = AppliedTo(in) \cup some
  <2>1. \A s \in plan : Applies(s, m) <=> Applies(s, in)
    BY <1>1, <1>2 DEF Applies
  <2>2. \A s \in more : Applies(s, m) <=> s.amount # 0
    BY <1>2, <1>9 DEF Applies
  <2>3. AppliedTo(m) = {s \in plan \cup more : Applies(s, m)} /\ AppliedTo(in) = {s \in plan : Applies(s, in)}
    BY <1>1, <1>2 DEF AppliedTo
  <2> QED BY <1>7, <2>1, <2>2, <2>3
<1>11. AppliedTo(in) \cap some = {}
  <2>1. \A s \in plan : s.id \in Nat \ {0}
    BY SeriesAssumption DEF Planned, SeriesAssumption
  <2>2. \A s \in more : s.id <= 0 /\ s.id \in Int
    BY DEF Overlaying
  <2>3. AppliedTo(in) \subseteq plan
    BY <1>1 DEF AppliedTo
  <2> QED BY <1>7, <2>1, <2>2, <2>3
<1>12. some \in SUBSET more /\ \A s \in more \ some : Delta(s) = 0
  BY <1>7 DEF Overlaying
<1>13. Datable(some) /\ FlowOf(more, start, t) = FlowOf(some, start, t)
  BY <1>4, <1>12, FlowOfSome
<1>14. Datable(AppliedTo(in))
  BY <1>3, AppliedIs
<1>15. /\ FlowOf(AppliedTo(in), start, t) \in Int /\ FlowOf(some, start, t) \in Int
       /\ FlowOf(AppliedTo(in) \cup some, start, t) = FlowOf(AppliedTo(in), start, t) + FlowOf(some, start, t)
  BY <1>11, <1>13, <1>14, FlowOfBoth
<1> QED BY <1>1, <1>2, <1>5, <1>6, <1>10, <1>13, <1>15

\* A balance a is near an exact one e; an exact one f is another one, moved by x; two
\* balances are as far from x apart as the rounding of both allows.
Within(a, e, s) == 3044 * a <= e + s /\ e <= 3044 * a + s
Farther(f, e, x) == f = e + 3044 * x
Differ(b, a, x, s) == 3044 * Magnitude(b - (a + x)) <= 2 * s

\* Two balances near exact ones that are x apart are near x apart.
LEMMA NearOnes ==
    ASSUME NEW a \in Int, NEW b \in Int, NEW e \in Int, NEW f \in Int, NEW s \in Nat, NEW x \in Int,
           Within(a, e, s), Within(b, f, s), Farther(f, e, x)
    PROVE  Differ(b, a, x, s)
<1>1. PICK y \in Int : y = b - (a + x)
  OBVIOUS
<1>2. 3044 * y = 3044 * b - 3044 * (a + x) /\ 3044 * (a + x) = 3044 * a + 3044 * x
  BY <1>1
<1>3. 3044 * y <= 2 * s /\ -(3044 * y) <= 2 * s
  <2>1. PICK p \in Int, q \in Int, u \in Int, v \in Int :
            p = 3044 * a /\ q = 3044 * b /\ u = 3044 * x /\ v = 3044 * y
    OBVIOUS
  <2>2. v = q - (p + u) /\ f = e + u /\ p <= e + s /\ e <= p + s /\ q <= f + s /\ f <= q + s
    BY <1>2, <2>1 DEF Within, Farther
  <2>3. v <= 2 * s /\ -v <= 2 * s
    BY <2>2
  <2> QED BY <2>1, <2>3
<1>4. 3044 * (-y) = -(3044 * y)
  OBVIOUS
<1>5. Magnitude(y) = IF y < 0 THEN -y ELSE y
  BY DEF Magnitude
<1>6. 3044 * Magnitude(y) <= 2 * s
  <2>1. CASE y < 0
    BY <1>3, <1>4, <1>5, <2>1
  <2>2. CASE ~(y < 0)
    BY <1>3, <1>5, <2>2
  <2> QED BY <2>1, <2>2
<1>7. Magnitude(b - (a + x)) = Magnitude(y)
  BY <1>1
<1> QED BY <1>6, <1>7 DEF Differ

\* The balances of two projections, of which one adds a flow or takes an amount,
\* differ by that.
Apart(in, m, day, x) ==
    /\ m.start = in.start /\ SpendOf(m) = SpendOf(in)
    /\ m.balance + FlowOf(AppliedTo(m), in.start, day)
          = (in.balance + FlowOf(AppliedTo(in), in.start, day)) + x

\* Balances near the exact ones of two such projections are as near as Close says.
LEMMA ApartClose ==
    ASSUME NEW in, Projected(in), NEW m, Projected(m), NEW day \in Nat, NEW x \in Int, Apart(in, m, day, x),
           NEW a \in Int, NearTo(in, a, day), NEW b \in Int, NearTo(m, b, day)
    PROVE  Close(b, a + x, SpendOf(in), day)
<1>1. PICK e, f, spend, g, h : /\ e = Exactly(in, day) /\ f = Exactly(m, day) /\ spend = SpendOf(in)
                               /\ g = FlowOf(AppliedTo(in), in.start, day)
                               /\ h = FlowOf(AppliedTo(m), in.start, day)
  OBVIOUS
<1>2. e \in Int /\ f \in Int /\ g \in Int /\ h \in Int
  BY <1>1, ExactlyIs DEF Apart
<1>3. spend \in Nat
  BY <1>1, SpendIs DEF Projected
<1>4. PICK s : s = Slack(spend, day)
  OBVIOUS
<1>5. s \in Nat
  BY <1>3, <1>4, SlackIs
<1>6. Within(a, e, s) /\ Within(b, f, s)
  BY <1>1, <1>4 DEF NearTo, Apart, Within
<1>7. Farther(f, e, x)
  <2>1. PICK p, q, c : p = in.balance /\ q = m.balance /\ c = spend * day
    OBVIOUS
  <2>2. e = 3044 * (p + g) - 100 * c /\ f = 3044 * (q + h) - 100 * c /\ q + h = (p + g) + x
    BY <1>1, <2>1 DEF Exactly, Apart
  <2>3. p \in Int /\ q \in Int /\ c \in Int
    <3>1. spend * day \in Int
      BY <1>3
    <3> QED BY <2>1, <3>1 DEF Projected
  <2>4. 3044 * ((p + g) + x) = 3044 * (p + g) + 3044 * x
    BY <1>2, <2>3
  <2>5. PICK u \in Int, v \in Int, w \in Int : u = 3044 * (p + g) /\ v = 3044 * x /\ w = 100 * c
    BY <1>2, <2>3
  <2>6. f = (u + v) - w /\ e = u - w
    BY <2>2, <2>4, <2>5
  <2> QED BY <2>5, <2>6 DEF Farther
<1>8. Differ(b, a, x, s)
  BY <1>2, <1>5, <1>6, <1>7, NearOnes
<1> QED BY <1>1, <1>4, <1>8 DEF Close, Differ
-----------------------------------------------------------------------------
(* What moves the balances of a forecast                                   *)

\* What a stored forecast has of its projection, and what is projected for it
\* once more, whatever the series were.
LEMMA StoredIs ==
    ASSUME SeriesAssumption, Planned, NEW request, Asking(request), NEW variable \in Int, NEW start \in Int,
           NEW old, NEW was, was = CreateForecast(request, variable, old, start),
           NEW in, in = InputOf(request, variable, plan, start), NEW last, last = Horizon(in)
    PROVE  /\ ForecastInput(was, variable, plan) = in /\ was.horizon = last
           /\ last \in Nat /\ last > 0 /\ Projected(in) /\ SpendOf(in) = Monthly(request, variable)
           /\ old = plan => was.min = Project(in).min /\ was.ending = Project(in).ending
<1>1. PICK then, r : then = InputOf(request, variable, old, start) /\ r = Project(then)
  OBVIOUS
<1>2. Stores(was, request, start, r)
  BY <1>1, ForecastIs
<1>3. Projected(in) /\ last = AskedHorizon(request) /\ last \in Nat /\ last > 0
      /\ SpendOf(in) = Monthly(request, variable)
  BY InputIs
<1>4. r.horizon = last
  <2>1. then.horizon = last /\ ~(last <= 0)
    BY <1>1, <1>3 DEF InputOf
  <2>2. Horizon(then) = last
    BY <2>1 DEF Horizon
  <2> QED BY <1>1, <2>2 DEF Project
<1>5. /\ was.horizon = last /\ was.min = r.min /\ was.ending = r.ending /\ was.created = start
      /\ was.balance = request.balance /\ was.disabled = request.disabled
      /\ was.includeVariable = request.includeVariable /\ was.includeUncertain = request.includeUncertain
  BY <1>2, <1>4 DEF Stores
<1>6. ForecastInput(was, variable, plan) = in
  BY <1>3, <1>5 DEF ForecastInput, InputOf
<1>7. old = plan => was.min = Project(in).min /\ was.ending = Project(in).ending
  BY <1>1, <1>5
<1> QED BY <1>3, <1>5, <1>6, <1>7

\* What a scenario shows is what is projected with it, and the lowest without.
Compares(r, in, m) == r.min = Project(m).min /\ r.ending = Project(m).ending /\ r.baselineMin = Project(in).min

\* The least and the last balance of a path.
LEMMA LeastAndLast ==
    ASSUME NEW in, Projected(in), NEW path, path = BalancePath(in), NEW last, last = Horizon(in)
    PROVE  Project(in).min = Min(ToSet(path)) /\ Project(in).ending = path[last + 1]
  BY DEF Project

\* Balances that are close are so whichever is the higher.
LEMMA CloseBetween ==
    ASSUME NEW b \in Int, NEW y \in Int, NEW spend, NEW day, NEW s \in Nat, s = Slack(spend, day),
           Close(b, y, spend, day)
    PROVE  3044 * y <= 3044 * b + 2 * s /\ 3044 * b <= 3044 * y + 2 * s
<1>1. PICK w \in Int : w = b - y
  OBVIOUS
<1>2. Magnitude(w) = IF w < 0 THEN -w ELSE w
  BY DEF Magnitude
<1>3. 3044 * Magnitude(w) <= 2 * s
  BY <1>1 DEF Close
<1>4. 3044 * w <= 2 * s /\ -(3044 * w) <= 2 * s
  BY <1>2, <1>3
<1> QED BY <1>1, <1>4

\* What is projected with a scenario is moved by what it adds to each day.
Adding(in, m, least, most, last) ==
    \A day \in 0 .. last : \E x \in Int : least[day] <= x /\ x <= most[day] /\ Apart(in, m, day, x)

LEMMA MovedHolds ==
    ASSUME NEW in, Projected(in), NEW m, Projected(m), NEW last, last = Horizon(in), Horizon(m) = last,
           NEW least, NEW most, \A day \in 0 .. last : least[day] \in Int /\ most[day] \in Int,
           Adding(in, m, least, most, last), NEW r, Compares(r, in, m),
           NEW path, path = BalancePath(in), NEW spend, spend = SpendOf(in)
    PROVE  Moved(r, path, least, most, spend, last)
<1>1. PICK q : q = BalancePath(m)
  OBVIOUS
<1>2. /\ last \in Nat /\ path \in [1 .. last + 1 -> Int] /\ spend \in Nat
      /\ \A day \in 0 .. last : NearTo(in, path[day + 1], day)
  <2>1. spend \in Nat
    BY SpendIs DEF Projected
  <2> QED BY <2>1, PathNear
<1>3. q \in [1 .. last + 1 -> Int] /\ \A day \in 0 .. last : NearTo(m, q[day + 1], day)
  BY <1>1, PathNear
<1>4. ASSUME NEW day \in 0 .. last
      PROVE  /\ 3044 * (path[day + 1] + least[day]) <= 3044 * q[day + 1] + 2 * Slack(spend, day)
             /\ 3044 * q[day + 1] <= 3044 * (path[day + 1] + most[day]) + 2 * Slack(spend, day)
  <2>1. PICK x \in Int : least[day] <= x /\ x <= most[day] /\ Apart(in, m, day, x)
    BY DEF Adding
  <2>2. day \in Nat
    BY <1>2
  <2>3. PICK a, b, u, v : a = path[day + 1] /\ b = q[day + 1] /\ u = least[day] /\ v = most[day]
    OBVIOUS
  <2>4. a \in Int /\ b \in Int /\ u \in Int /\ v \in Int /\ u <= x /\ x <= v
    BY <1>2, <1>3, <2>1, <2>3
  <2>5. NearTo(in, a, day) /\ NearTo(m, b, day)
    BY <1>2, <1>3, <2>3
  <2>6. Close(b, a + x, spend, day)
    BY <2>1, <2>2, <2>4, <2>5, ApartClose
  <2>7. Slack(spend, day) \in Nat
    BY <1>2, <2>2, SlackIs
  <2>8. /\ 3044 * (a + u) <= 3044 * b + 2 * Slack(spend, day)
        /\ 3044 * b <= 3044 * (a + v) + 2 * Slack(spend, day)
    <3>1. PICK s, y : s = Slack(spend, day) /\ y = a + x
      OBVIOUS
    <3>2. s \in Nat /\ y \in Int /\ Close(b, y, spend, day)
      BY <2>4, <2>6, <2>7, <3>1
    <3>3. 3044 * y <= 3044 * b + 2 * s /\ 3044 * b <= 3044 * y + 2 * s
      BY ONLY <2>4, <3>1, <3>2, CloseBetween
    <3>4. 3044 * (a + u) <= 3044 * y /\ 3044 * y <= 3044 * (a + v)
      BY <2>4, <3>1
    <3>5. 3044 * (a + u) <= 3044 * b + 2 * s /\ 3044 * b <= 3044 * (a + v) + 2 * s
      BY ONLY <2>4, <3>2, <3>3, <3>4
    <3> QED BY <3>1, <3>5
  <2> QED BY <2>3, <2>8
<1>5. Keeps(Project(m), q, last)
  BY <1>1, ProjectIs
<1>6. r.ending = q[last + 1] /\ r.baselineMin = Min(ToSet(path))
  BY <1>5, LeastAndLast DEF Compares, Keeps
<1>7. PICK e \in 0 .. last : r.min = q[e + 1]
  BY <1>5 DEF Compares, Keeps
<1>8. \A day \in 0 .. last : r.min <= q[day + 1] /\ q[day + 1] \in Int /\ r.min \in Int
  <2>1. ASSUME NEW day \in 0 .. last PROVE q[day + 1] \in Int
    <3>1. day + 1 \in 1 .. last + 1
      BY <1>2
    <3> QED BY <1>3, <3>1
  <2>2. \A day \in 0 .. last : r.min <= q[day + 1]
    BY <1>5 DEF Compares, Keeps
  <2> QED BY <1>7, <2>1, <2>2
<1>9. last \in 0 .. last
  BY <1>2
<1>10. ASSUME NEW day \in 0 .. last PROVE 3044 * r.min <= 3044 * (path[day + 1] + most[day]) + 2 * Slack(spend, day)
  <2>1. PICK a \in Int, b \in Int, c \in Int :
            a = r.min /\ b = q[day + 1] /\ c = 3044 * (path[day + 1] + most[day]) + 2 * Slack(spend, day)
    <3>1. day \in Nat /\ path[day + 1] \in Int /\ most[day] \in Int
      BY <1>2
    <3>2. Slack(spend, day) \in Nat
      BY <1>2, <3>1, SlackIs
    <3>3. 3044 * (path[day + 1] + most[day]) + 2 * Slack(spend, day) \in Int
      BY <3>1, <3>2
    <3> QED BY <1>8, <3>3
  <2>2. a <= b /\ 3044 * b <= c
    BY <1>4, <1>8, <2>1
  <2> QED BY <2>1, <2>2
<1>11. /\ 3044 * (path[last + 1] + least[last]) <= 3044 * r.ending + 2 * Slack(spend, last)
       /\ 3044 * r.ending <= 3044 * (path[last + 1] + most[last]) + 2 * Slack(spend, last)
  BY <1>4, <1>6, <1>9
<1>12. \E day \in 0 .. last : 3044 * (path[day + 1] + least[day]) <= 3044 * r.min + 2 * Slack(spend, day)
  BY <1>4, <1>7
<1> QED BY <1>6, <1>10, <1>11, <1>12 DEF Moved
-----------------------------------------------------------------------------
(* The flow of one series                                                  *)

\* The series of a scenario: its amount counts in full, one way or the other.
LEMMA OverlayIs ==
    ASSUME NEW id \in Int, NEW interval \in DOMAIN Period, NEW income \in BOOLEAN, NEW amount \in Int,
           NEW next \in Int, NEW s, s = Overlay(id, interval, income, amount, next)
    PROVE  /\ s.id = id /\ s.interval = interval /\ s.next = next /\ s.status = "active"
           /\ Delta(s) = (IF income THEN Magnitude(amount) ELSE -Magnitude(amount))
           /\ Delta(s) \in Int /\ (s.amount = 0 => Delta(s) = 0) /\ Magnitude(amount) \in Nat
<1>1. /\ s.id = id /\ s.interval = interval /\ s.next = next /\ s.status = "active"
      /\ s.income = income /\ s.amount = Magnitude(amount)
  BY DEF Overlay
<1>2. Magnitude(amount) \in Nat /\ Magnitude(Magnitude(amount)) = Magnitude(amount)
  BY DEF Magnitude
<1>3. Delta(s) = (IF income THEN Magnitude(amount) ELSE -Magnitude(amount))
  BY <1>1, <1>2 DEF Delta
<1>4. s.amount = 0 => Delta(s) = 0
  <2>1. PICK a : a = Magnitude(amount)
    OBVIOUS
  <2>2. s.amount = a /\ a \in Nat
    BY <1>1, <1>2, <2>1
  <2>3. Delta(s) \in {a, -a}
    BY <1>3, <2>1
  <2>4. PICK d : d = Delta(s)
    OBVIOUS
  <2>5. a = 0 => d = 0
    BY <2>2, <2>3, <2>4
  <2> QED BY <2>2, <2>4, <2>5
<1>5. Delta(s) \in Int
  BY <1>2, <1>3
<1> QED BY <1>1, <1>2, <1>3, <1>4, <1>5

\* The flow of one series is its amount as often as it is due.
LEMMA FlowOfOne ==
    ASSUME NEW s, s.interval \in DOMAIN Period, s.next \in Int, Delta(s) \in Int,
           NEW start \in Int, NEW t \in Nat, NEW S, S = {s}
    PROVE  Datable(S) /\ FlowOf(S, start, t) = Delta(s) * TimesDue(s.next, s.interval, start, start + t)
<1>1. Datable(S)
  <2>1. IsFiniteSet({s})
    BY FS_Singleton
  <2> QED BY <2>1 DEF Datable
<1>2. PICK f : f = [x \in S |-> Delta(x) * TimesDue(x.next, x.interval, start, start + t)]
  OBVIOUS
<1>3. FlowOf(S, start, t) = SumFunctionOnSet(f, S)
  BY <1>2 DEF FlowOf, SumFunction
<1>4. PICK d, n : d = Delta(s) /\ n = TimesDue(s.next, s.interval, start, start + t)
  OBVIOUS
<1>5. d \in Int /\ n \in Nat
  <2>1. start + t \in Int
    OBVIOUS
  <2> QED BY <1>4, <2>1, DueCounts
<1>6. f[s] = d * n /\ d * n \in Int
  BY <1>2, <1>4, <1>5
<1>7. SumFunctionOnSet(f, S) = f[s]
  BY <1>6, SumSingle
<1> QED BY <1>1, <1>3, <1>4, <1>6, <1>7
-----------------------------------------------------------------------------
(* A new obligation                                                        *)

\* A scenario that asks for a new obligation is that of a series more.
LEMMA ObligationIs ==
    ASSUME NEW was, NEW variable, NEW series, NEW in, in = ForecastInput(was, variable, series),
           NEW sum, NEW from, NEW p, p = [monthly_amount |-> sum, start_date |-> from],
           NEW cost, cost = Overlay(0, "monthly", FALSE, sum, from),
           NEW m, m = [in EXCEPT !.series = @ \cup {cost}],
           NEW kind, kind = "new_monthly_obligation", NEW r, r = RunScenario(was, variable, series, kind, p)
    PROVE  Compares(r, in, m)
<1>1. DOMAIN p = {"monthly_amount", "start_date"} /\ p.monthly_amount = sum /\ p.start_date = from
  OBVIOUS
<1>3. Valid(kind, p)
  <2>1. kind \in DOMAIN Needed /\ Needed[kind] = {"monthly_amount", "start_date"} /\ kind # "income_gap"
    BY DEF Needed
  <2> QED BY <1>1, <2>1 DEF Valid
<1>4. ApplyScenario(in, kind, p) = Obligation(in, p)
  BY <1>3 DEF ApplyScenario
<1>5. Obligation(in, p) = Result(in, m, -Magnitude(sum))
  BY <1>1 DEF Obligation
<1>6. r = Result(in, m, -Magnitude(sum))
  BY <1>4, <1>5 DEF RunScenario
<1> QED BY <1>6 DEF Result, Compares

\* A forecast of other series.
LEMMA SeriesReplaced ==
    ASSUME NEW request, NEW variable, NEW start, NEW A, NEW B, NEW in, in = InputOf(request, variable, A, start)
    PROVE  in.series = A /\ [in EXCEPT !.series = B] = InputOf(request, variable, B, start)
BY DEF InputOf

\* Series that are added move every balance by their flow.
LEMMA OverlaidApart ==
    ASSUME SeriesAssumption, Planned, NEW request, Asking(request), NEW variable \in Int, NEW start \in Int,
           NEW more, Overlaying(more), NEW in, in = InputOf(request, variable, plan, start),
           NEW m, m = InputOf(request, variable, plan \cup more, start)
    PROVE  /\ Projected(m) /\ Horizon(m) = Horizon(in)
           /\ \A day \in Nat : FlowOf(more, start, day) \in Int /\ Apart(in, m, day, FlowOf(more, start, day))
<1>1. in.start = start /\ Projected(in)
  BY InputIs
<1>2. Projected(m) /\ Horizon(m) = Horizon(in)
  <2>1. 0 \in Nat
    OBVIOUS
  <2> QED BY <2>1, OverlaidIs
<1>3. ASSUME NEW day \in Nat
      PROVE  FlowOf(more, start, day) \in Int /\ Apart(in, m, day, FlowOf(more, start, day))
  <2>1. /\ m.start = start /\ m.balance = in.balance /\ SpendOf(m) = SpendOf(in)
        /\ FlowOf(more, start, day) \in Int
        /\ FlowOf(AppliedTo(m), start, day) = FlowOf(AppliedTo(in), start, day) + FlowOf(more, start, day)
    BY OverlaidIs
  <2>2. FlowOf(AppliedTo(in), start, day) \in Int /\ in.balance \in Int
    BY <1>1, ExactlyIs DEF Projected
  <2>3. PICK f, g, b, x : /\ f = FlowOf(AppliedTo(in), start, day) /\ g = FlowOf(AppliedTo(m), start, day)
                          /\ b = in.balance /\ x = FlowOf(more, start, day)
    OBVIOUS
  <2>4. b + g = (b + f) + x
    BY <2>1, <2>2, <2>3
  <2> QED BY <1>1, <2>1, <2>3, <2>4 DEF Apart
<1> QED BY <1>2, <1>3

\* The dates until a day are those of a later one that have come by then.
LEMMA DueByDay ==
    ASSUME NEW interval \in DOMAIN Period, NEW next \in Int, NEW start \in Int, NEW day \in Int,
           NEW later \in Int, day <= later, NEW due, due = DueUntil(next, interval, start, later)
    PROVE  Cardinality({d \in due : d <= day}) = TimesDue(next, interval, start, day)
<1>1. PICK R : R = Reach(FirstDue(next, interval, start), interval)
  OBVIOUS
<1>2. due = {d \in R : start < d /\ d <= later}
  BY <1>1, DueIs DEF DueSince
<1>3. DueUntil(next, interval, start, day) = {d \in R : start < d /\ d <= day}
  BY <1>1, DueIs DEF DueSince
<1>4. R \subseteq Int
  BY <1>1 DEF Reach
<1>5. {d \in due : d <= day} = DueUntil(next, interval, start, day)
  <2>1. ASSUME NEW d \in R PROVE d <= day => d <= later
    <3>1. d \in Int
      BY <1>4
    <3> QED BY <3>1
  <2>2. {d \in due : d <= day} = {d \in R : start < d /\ d <= day}
    BY ONLY <1>2, <2>1
  <2> QED BY <1>3, <2>2
<1> QED BY <1>5 DEF TimesDue

\* What a new obligation costs is its amount as often as it is due.
LEMMA ObligationHolds ==
    ASSUME SeriesAssumption, Planned, NEW request, Asking(request), NEW variable \in Int, NEW start \in Int,
           NEW old, NEW was, was = CreateForecast(request, variable, old, start),
           NEW path, path = BalancePath(ForecastInput(was, variable, plan)),
           NEW spend, spend = Monthly(request, variable), NEW sum \in Int, NEW from \in Int
    PROVE  ObligationCosts(was, path, variable, start, spend, sum, from)
<1>1. PICK in, last : in = InputOf(request, variable, plan, start) /\ last = Horizon(in)
  OBVIOUS
<1>2. /\ ForecastInput(was, variable, plan) = in /\ was.horizon = last
      /\ last \in Nat /\ last > 0 /\ Projected(in) /\ SpendOf(in) = spend
  BY <1>1, StoredIs
<1>3. PICK monthly, income, id : monthly = "monthly" /\ income = FALSE /\ id = 0
  OBVIOUS
<1>31. PICK cost : cost = Overlay(id, monthly, income, sum, from)
  OBVIOUS
<1>4. PICK more : more = {cost}
  OBVIOUS
<1>5. PICK m : m = InputOf(request, variable, plan \cup more, start)
  OBVIOUS
<1>6. m = [in EXCEPT !.series = @ \cup {cost}]
  <2>1. PICK B : B = plan \cup more
    OBVIOUS
  <2>2. in.series = plan /\ [in EXCEPT !.series = B] = InputOf(request, variable, B, start)
    BY <1>1, SeriesReplaced
  <2> QED BY <1>4, <1>5, <2>1, <2>2
<1>7. monthly \in DOMAIN Period
  BY <1>3 DEF Period
<1>8. /\ cost.id = 0 /\ cost.interval = monthly /\ cost.next = from /\ cost.status = "active"
      /\ Delta(cost) = -Magnitude(sum) /\ Delta(cost) \in Int /\ (cost.amount = 0 => Delta(cost) = 0)
      /\ Magnitude(sum) \in Nat
  <2>1. id \in Int /\ monthly \in DOMAIN Period
    BY <1>3, <1>7
  <2>2. income \in BOOLEAN
    BY <1>3
  <2>3. /\ cost.id = id /\ cost.interval = monthly /\ cost.next = from /\ cost.status = "active"
        /\ Delta(cost) = (IF income THEN Magnitude(sum) ELSE -Magnitude(sum))
        /\ Delta(cost) \in Int /\ (cost.amount = 0 => Delta(cost) = 0) /\ Magnitude(sum) \in Nat
    BY <1>31, <2>1, <2>2, OverlayIs
  <2> QED BY <1>3, <2>3
<1>9. PICK k : k = -Magnitude(sum)
  OBVIOUS
<1>10. k \in Int /\ cost.interval \in DOMAIN Period /\ cost.next \in Int /\ Delta(cost) = k
  BY <1>7, <1>8, <1>9
<1>11. \A t \in Nat : Datable(more) /\ FlowOf(more, start, t) = k * TimesDue(from, monthly, start, start + t)
  BY <1>4, <1>8, <1>10, FlowOfOne
<1>12. Overlaying(more)
  <2>1. Datable(more)
    <3>1. 0 \in Nat
      OBVIOUS
    <3> QED BY <1>11, <3>1
  <2>2. ASSUME NEW s \in more
        PROVE  s.status = "active" /\ s.id \in Int /\ s.id <= 0 /\ (s.amount = 0 => Delta(s) = 0)
    <3>1. s = cost /\ 0 \in Int /\ 0 <= 0
      BY <1>4
    <3> QED BY <1>8, <3>1
  <2> QED BY <2>1, <2>2 DEF Overlaying
<1>13. /\ Projected(m) /\ Horizon(m) = last
       /\ \A day \in Nat : FlowOf(more, start, day) \in Int /\ Apart(in, m, day, FlowOf(more, start, day))
  BY <1>1, <1>5, <1>12, OverlaidApart
<1>14. PICK due, costs : /\ due = DueUntil(from, monthly, start, start + last)
                         /\ costs = [day \in 0 .. last |-> k * Cardinality({d \in due : d <= start + day})]
  OBVIOUS
<1>15. ASSUME NEW day \in 0 .. last PROVE costs[day] = FlowOf(more, start, day) /\ day \in Nat
  <2>1. day \in Nat /\ start + day \in Int /\ start + last \in Int /\ start + day <= start + last
    BY <1>2
  <2>2. Cardinality({d \in due : d <= start + day}) = TimesDue(from, monthly, start, start + day)
    BY <1>7, <1>14, <2>1, DueByDay
  <2> QED BY <1>11, <1>14, <2>1, <2>2
<1>16. \A day \in 0 .. last : costs[day] \in Int
  BY <1>13, <1>15
<1>17. Adding(in, m, costs, costs, last)
  <2>1. ASSUME NEW day \in 0 .. last PROVE \E x \in Int : costs[day] <= x /\ x <= costs[day] /\ Apart(in, m, day, x)
    <3>1. PICK x : x = costs[day]
      OBVIOUS
    <3>2. x \in Int /\ Apart(in, m, day, x) /\ x <= x
      BY <1>13, <1>15, <3>1
    <3> QED BY <3>1, <3>2
  <2> QED BY <2>1 DEF Adding
<1>20. PICK p, kind : /\ p = [monthly_amount |-> sum, start_date |-> from] /\ kind = "new_monthly_obligation"
  OBVIOUS
<1>21. PICK r : r = RunScenario(was, variable, plan, kind, p)
  OBVIOUS
<1>22. Compares(r, in, m)
  <2>1. /\ in = ForecastInput(was, variable, plan) /\ m = [in EXCEPT !.series = @ \cup {cost}]
        /\ r = RunScenario(was, variable, plan, kind, p)
    BY <1>2, <1>6, <1>21
  <2>2. p = [monthly_amount |-> sum, start_date |-> from] /\ kind = "new_monthly_obligation"
    BY <1>20
  <2>3. cost = Overlay(0, "monthly", FALSE, sum, from)
    BY <1>3, <1>31
  <2> QED BY ONLY <2>1, <2>2, <2>3, ObligationIs
<1>23. Moved(r, path, costs, costs, spend, last)
  BY <1>1, <1>2, <1>13, <1>16, <1>17, <1>22, MovedHolds
<1>24. PICK c : c = [day \in 0 .. last |->
                       (-Magnitude(sum)) * Cardinality({d \in DueUntil(from, "monthly", start, start + last) : d <= start + day})]
  OBVIOUS
<1>25. c = costs
  <2>1. DueUntil(from, "monthly", start, start + last) = due /\ -Magnitude(sum) = k
    BY <1>3, <1>9, <1>14
  <2>2. ASSUME NEW day \in 0 .. last PROVE c[day] = costs[day]
    <3>1. c[day] = (-Magnitude(sum)) *
                   Cardinality({d \in DueUntil(from, "monthly", start, start + last) : d <= start + day})
      BY ONLY <1>24, day \in 0 .. last
    <3>2. costs[day] = k * Cardinality({d \in due : d <= start + day})
      BY ONLY <1>14, day \in 0 .. last
    <3>3. {d \in DueUntil(from, "monthly", start, start + last) : d <= start + day} =
          {d \in due : d <= start + day}
      BY ONLY <2>1, Zenon
    <3>4. c[day] = (-Magnitude(sum)) * Cardinality({d \in due : d <= start + day})
      BY ONLY <3>1, <3>3, Zenon
    <3> QED BY ONLY <2>1, <3>2, <3>4, Zenon
  <2>3. c = [day \in 0 .. last |-> c[day]] /\ costs = [day \in 0 .. last |-> costs[day]]
    BY ONLY <1>14, <1>24
  <2> QED BY ONLY <2>2, <2>3
<1>26. r = RunScenario(was, variable, plan, "new_monthly_obligation", [monthly_amount |-> sum, start_date |-> from])
  BY <1>20, <1>21
<1>27. Moved(r, path, c, c, spend, last)
  BY <1>23, <1>25
<1> QED BY ONLY <1>2, <1>24, <1>26, <1>27 DEF ObligationCosts
-----------------------------------------------------------------------------
(* A series of a gap                                                       *)

\* The days of a year after a date.
LEMMA YearAhead ==
    ASSUME NEW d \in Int
    PROVE  AddMonths(d, 0) = d /\ AddMonths(d, 12) = d + 365
<1>1. PICK m : m = MonthOf(d)
  OBVIOUS
<1>2. m \in Int
  BY <1>1, MonthOfDay
<1>3. PICK u : u = MonthStart(m)
  OBVIOUS
<1>4. u \in Int
  BY <1>2, <1>3, MonthDays
<1>5. MonthStart(m + 0) = u /\ MonthStart(m + 12) = u + 365
  <2>1. (m + 12) \div 12 = (m \div 12) + 1 /\ (m + 12) % 12 = m % 12 /\ m + 0 = m
    BY <1>2
  <2>2. PICK y, b : y = m \div 12 /\ b = DaysBefore[(m % 12) + 1]
    OBVIOUS
  <2>3. u = 365 * y + b /\ MonthStart(m + 12) = 365 * (y + 1) + b
    BY <1>3, <2>1, <2>2 DEF MonthStart
  <2>4. y \in Int /\ b \in Int
    <3>1. y \in Int /\ (m % 12) + 1 \in 1 .. 12
      BY <1>2, <2>2
    <3> QED BY <2>2, <3>1, YearDays
  <2>5. 365 * (y + 1) + b = (365 * y + b) + 365
    BY <2>4
  <2>6. MonthStart(m + 12) = u + 365
    BY <2>3, <2>5
  <2>7. m + 0 = m
    BY <1>2
  <2>8. MonthStart(m + 0) = u
    BY ONLY <1>3, <2>7
  <2> QED BY <2>6, <2>8
<1>6. AddMonths(d, 0) = u + (d - u) /\ AddMonths(d, 12) = (u + 365) + (d - u)
  BY <1>1, <1>3, <1>5 DEF AddMonths
<1> QED BY <1>4, <1>6

\* A series that is due once, or not yet.
DueOnce(next, interval, start, day) ==
    TimesDue(next, interval, start, day) = IF start < next /\ next <= day THEN 1 ELSE 0

\* A yearly series is due once in less than a year, if it is due by then.
LEMMA YearlyDue ==
    ASSUME NEW next \in Nat, NEW start \in Int, NEW last \in Nat, last < 365, start <= next,
           NEW yearly, yearly = "yearly"
    PROVE  DueOnce(next, yearly, start, start + last)
<1>1. PICK day : day = start + last
  OBVIOUS
<1>2. day \in Int
  BY <1>1
<1>3. yearly \in DOMAIN Period /\ Period[yearly] = 12
  BY DEF Period
<1>4. FirstDue(next, yearly, start) = next
  BY DEF FirstDue, NoDate
<1>5. DueSince(next, yearly, start, day) = {d \in Reach(next, yearly) : start < d /\ d <= day}
  BY <1>4 DEF DueSince
<1>6. PICK after : after = advance(next, yearly)
  OBVIOUS
<1>7. after = next + 365 /\ after \in Int /\ day < after
  <2>1. after = AddMonths(next, 12)
    BY <1>3, <1>6, AdvanceIs
  <2>2. AddMonths(next, 12) = next + 365
    BY YearAhead
  <2> QED BY <1>1, <2>1, <2>2
<1>8. Reach(next, yearly) = {next} \cup Reach(after, yearly)
  BY <1>3, <1>6, ReachIs
<1>9. \A d \in Reach(after, yearly) : after <= d /\ d \in Int
  <2>1. \A d \in Reach(after, yearly) : after <= d
    BY <1>3, <1>7, ReachIs
  <2> QED BY <2>1 DEF Reach
<1>10. DueUntil(next, yearly, start, day) = DueSince(next, yearly, start, day)
  BY <1>2, <1>3, DueIs
<1>11. TimesDue(next, yearly, start, day) = Cardinality(DueSince(next, yearly, start, day))
  BY <1>10 DEF TimesDue
<1>12. CASE start < next /\ next <= day
  <2>1. DueSince(next, yearly, start, day) = {next}
    BY <1>2, <1>5, <1>7, <1>8, <1>9, <1>12
  <2>2. Cardinality({next}) = 1
    BY FS_Singleton
  <2> QED BY <1>1, <1>11, <1>12, <2>1, <2>2 DEF DueOnce
<1>13. CASE ~(start < next /\ next <= day)
  <2>1. DueSince(next, yearly, start, day) = {}
    BY <1>2, <1>5, <1>7, <1>8, <1>9, <1>13
  <2>2. Cardinality({}) = 0
    BY FS_EmptySet
  <2> QED BY <1>1, <1>11, <1>13, <2>1, <2>2 DEF DueOnce
<1> QED BY <1>1, <1>12, <1>13 DEF DueOnce

\* The series of an income gap, one for each month.
GapOf(start, sum, i) == Overlay(-i, "yearly", sum >= 0, sum, AddMonths(start, i))

\* What the series of a month is.
IsGap(s, interval, next, start, sum, i) ==
    /\ s.id = -i /\ s.interval = interval /\ s.next = next /\ s.status = "active"
    /\ Delta(s) = sum /\ (s.amount = 0 => Delta(s) = 0)
    /\ next \in Nat /\ start <= next /\ (i >= 1 <=> start < next)

\* It is due i months from the start, and not before the start.
LEMMA GapIs ==
    ASSUME NEW start \in Nat, NEW sum \in Int, NEW i \in Nat, NEW s, s = GapOf(start, sum, i),
           NEW yearly, yearly = "yearly"
    PROVE  IsGap(s, yearly, AddMonths(start, i), start, sum, i)
<1>1. PICK next : next = AddMonths(start, i)
  OBVIOUS
<1>2. next \in Nat /\ start <= next /\ (i >= 1 <=> start < next)
  <2>1. CASE i = 0
    <3>1. next = start
      BY <1>1, <2>1, YearAhead
    <3> QED BY <2>1, <3>1
  <2>2. CASE i >= 1
    <3>1. next \in Int /\ start + 28 <= next
      BY <1>1, <2>2, MonthsAhead
    <3> QED BY <2>2, <3>1
  <2> QED BY <2>1, <2>2
<1>3. PICK income, id : income = (sum >= 0) /\ id = -i
  OBVIOUS
<1>4. s = Overlay(id, yearly, income, sum, next)
  BY <1>1, <1>3 DEF GapOf
<1>5. income \in BOOLEAN /\ id \in Int /\ yearly \in DOMAIN Period
  <2>1. yearly \in DOMAIN Period
    BY DEF Period
  <2>2. income \in BOOLEAN
    BY <1>3
  <2>3. id \in Int
    BY <1>3
  <2> QED BY <2>1, <2>2, <2>3
<1>6. /\ s.id = id /\ s.interval = yearly /\ s.next = next /\ s.status = "active"
      /\ Delta(s) = (IF income THEN Magnitude(sum) ELSE -Magnitude(sum))
      /\ Delta(s) \in Int /\ (s.amount = 0 => Delta(s) = 0) /\ Magnitude(sum) \in Nat
  BY <1>2, <1>4, <1>5, OverlayIs
<1>7. Delta(s) = sum
  <2>1. CASE sum >= 0
    <3>1. income
      BY <1>3, <2>1
    <3>2. Magnitude(sum) = sum
      BY <2>1 DEF Magnitude
    <3>3. Delta(s) = Magnitude(sum)
      BY <1>6, <3>1
    <3> QED BY <3>2, <3>3
  <2>2. CASE ~(sum >= 0)
    <3>1. ~income
      BY <1>3, <2>2
    <3>2. Magnitude(sum) = -sum
      BY <2>2 DEF Magnitude
    <3>3. Delta(s) = -Magnitude(sum)
      BY <1>6, <3>1
    <3> QED BY <3>2, <3>3
  <2> QED BY <2>1, <2>2
<1> QED BY <1>1, <1>2, <1>3, <1>6, <1>7 DEF IsGap
-----------------------------------------------------------------------------
(* The series of a gap                                                     *)

\* The series of a gap are told apart by their months.
GapsOf(start, sum, months) == {GapOf(start, sum, i) : i \in 0 .. months - 1}

\* A scenario may add them.
LEMMA GapsOverlay ==
    ASSUME NEW start \in Nat, NEW sum \in Int, NEW months \in Nat, NEW more, more = GapsOf(start, sum, months)
    PROVE  Overlaying(more)
<1>1. PICK S, of, name, f : /\ S = 0 .. months - 1 /\ of = [s \in more |-> -s.id]
                            /\ name = [i \in S |-> GapOf(start, sum, i)] /\ f = [i \in S |-> 0]
  OBVIOUS
<1>2. PICK yearly : yearly = "yearly"
  OBVIOUS
<1>3. ASSUME NEW i \in S, NEW s, s = GapOf(start, sum, i)
      PROVE  /\ s.id = -i /\ s.interval = yearly /\ s.next \in Nat /\ s.status = "active"
             /\ Delta(s) = sum /\ (s.amount = 0 => Delta(s) = 0) /\ i \in Nat /\ -s.id = i
  <2>1. i \in Nat
    BY <1>1
  <2>2. /\ s.id = -i /\ s.interval = yearly /\ s.next = AddMonths(start, i) /\ s.status = "active"
        /\ Delta(s) = sum /\ (s.amount = 0 => Delta(s) = 0) /\ AddMonths(start, i) \in Nat
    <3>1. IsGap(s, yearly, AddMonths(start, i), start, sum, i)
      BY <1>2, <1>3, <2>1, GapIs
    <3> QED BY <3>1 DEF IsGap
  <2> QED BY <2>1, <2>2
<1>4. \A i \in S : name[i] \in more /\ of[name[i]] = i
  BY <1>1, <1>3 DEF GapsOf
<1>5. \A s \in more : of[s] \in S /\ name[of[s]] = s
  BY <1>1, <1>3 DEF GapsOf
<1>6. IsFiniteSet(more)
  <2>1. IsFiniteSet(S) /\ \A i \in S : f[i] \in Int
    <3>1. 0 \in Int /\ months - 1 \in Int
      OBVIOUS
    <3> QED BY <1>1, <3>1, FS_Interval
  <2>2. PICK h : h = [s \in more |-> f[of[s]]]
    OBVIOUS
  <2>3. \A s \in more : h[s] = f[of[s]]
    BY <2>2
  <2> QED BY <1>4, <1>5, <2>1, <2>3, SumRenamed
<1>7. ASSUME NEW s \in more
      PROVE  /\ s.interval \in DOMAIN Period /\ s.next \in Int /\ Delta(s) \in Int
             /\ s.status = "active" /\ s.id \in Int /\ s.id <= 0 /\ (s.amount = 0 => Delta(s) = 0)
  <2>1. PICK i \in S : s = GapOf(start, sum, i)
    BY <1>1 DEF GapsOf
  <2>2. yearly \in DOMAIN Period
    BY <1>2 DEF Period
  <2>3. /\ s.id = -i /\ s.interval = yearly /\ s.next \in Nat /\ s.status = "active"
        /\ Delta(s) = sum /\ (s.amount = 0 => Delta(s) = 0) /\ i \in Nat
    BY <1>3, <2>1
  <2> QED BY <2>2, <2>3
<1>8. Datable(more)
  BY <1>6, <1>7 DEF Datable
<1> QED BY <1>7, <1>8 DEF Overlaying

\* The months of a gap that are due by the last day, and what they come to.
GapMonths(start, months, last) == {i \in 1 .. months - 1 : AddMonths(start, i) <= start + last}

Short(last) == last < 365
GapComes(more, start, last, sum, I) ==
    Cardinality(I) \in Nat /\ FlowOf(more, start, last) = sum * Cardinality(I)

\* In less than a year the gap is its amount in every month after the first.
LEMMA GapFlow ==
    ASSUME NEW start \in Nat, NEW sum \in Int, NEW months \in Nat, NEW more, more = GapsOf(start, sum, months),
           NEW last \in Nat, Short(last), NEW I, I = GapMonths(start, months, last)
    PROVE  GapComes(more, start, last, sum, I)
<1>0. I = {i \in 1 .. months - 1 : AddMonths(start, i) <= start + last}
  BY DEF GapMonths
<1>1. PICK f : f = [s \in more |-> Delta(s) * TimesDue(s.next, s.interval, start, start + last)]
  OBVIOUS
<1>2. FlowOf(more, start, last) = SumFunctionOnSet(f, more)
  BY <1>1 DEF FlowOf, SumFunction
<1>3. IsFiniteSet(more)
  BY GapsOverlay DEF Overlaying, Datable
<1>4. PICK yearly : yearly = "yearly"
  OBVIOUS
<1>5. ASSUME NEW i \in 0 .. months - 1, NEW s, s = GapOf(start, sum, i)
      PROVE  s \in more /\ -s.id = i /\ f[s] = (IF i \in I THEN sum ELSE 0)
  <2>1. i \in Nat
    OBVIOUS
  <2>2. PICK next : next = AddMonths(start, i)
    OBVIOUS
  <2>3. /\ s.id = -i /\ s.interval = yearly /\ s.next = next /\ Delta(s) = sum
        /\ next \in Nat /\ start <= next /\ (i >= 1 <=> start < next)
    <3>1. IsGap(s, yearly, AddMonths(start, i), start, sum, i)
      BY <1>4, <1>5, <2>1, GapIs
    <3> QED BY <2>2, <3>1 DEF IsGap
  <2>4. s \in more
    BY <1>5 DEF GapsOf
  <2>5. TimesDue(next, yearly, start, start + last) = IF start < next /\ next <= start + last THEN 1 ELSE 0
    <3>1. DueOnce(next, yearly, start, start + last)
      <4>1. next \in Nat /\ start \in Int /\ start <= next
        BY <2>3
      <4>2. last \in Nat /\ last < 365
        BY DEF Short
      <4> QED BY ONLY <1>4, <4>1, <4>2, YearlyDue
    <3> QED BY <3>1 DEF DueOnce
  <2>6. i \in I <=> start < next /\ next <= start + last
    BY <1>0, <2>1, <2>2, <2>3
  <2>7. f[s] = sum * TimesDue(next, yearly, start, start + last)
    BY <1>1, <2>3, <2>4
  <2>8. sum * 1 = sum /\ sum * 0 = 0
    OBVIOUS
  <2>9. CASE i \in I
    <3>1. TimesDue(next, yearly, start, start + last) = 1
      BY <2>5, <2>6, <2>9
    <3> QED BY <2>1, <2>3, <2>4, <2>7, <2>8, <2>9, <3>1
  <2>10. CASE i \notin I
    <3>1. TimesDue(next, yearly, start, start + last) = 0
      BY <2>5, <2>6, <2>10
    <3> QED BY <2>1, <2>3, <2>4, <2>7, <2>8, <2>10, <3>1
  <2> QED BY <2>9, <2>10
<1>6. PICK T : T = {s \in more : -s.id \in I}
  OBVIOUS
<1>7. ASSUME NEW s \in more
      PROVE  f[s] = (IF s \in T THEN sum ELSE 0) /\ s = GapOf(start, sum, -s.id)
  <2>1. PICK i \in 0 .. months - 1 : s = GapOf(start, sum, i)
    BY DEF GapsOf
  <2>2. -s.id = i /\ f[s] = (IF i \in I THEN sum ELSE 0)
    BY <1>5, <2>1
  <2>3. s \in T <=> i \in I
    BY <1>6, <2>2
  <2> QED BY <2>1, <2>2, <2>3
<1>8. SumFunctionOnSet(f, more) = SumFunctionOnSet(f, T)
  <2>1. T \in SUBSET more /\ (\A s \in more : f[s] \in Int) /\ \A s \in more \ T : f[s] = 0
    BY <1>6, <1>7
  <2> QED BY <1>3, <2>1, SumOfSome
<1>9. PICK name, of, h : /\ name = [s \in T |-> -s.id] /\ of = [i \in I |-> GapOf(start, sum, i)]
                         /\ h = [i \in I |-> sum]
  OBVIOUS
<1>10. IsFiniteSet(T) /\ \A s \in T : f[s] \in Int /\ f[s] = sum
  <2>1. T \in SUBSET more
    BY <1>6
  <2>2. IsFiniteSet(T)
    BY <1>3, <2>1, FS_Subset
  <2> QED BY <1>7, <2>1, <2>2
<1>11. ASSUME NEW s \in T PROVE name[s] \in I /\ of[name[s]] = s
  BY <1>6, <1>7, <1>9
<1>12. ASSUME NEW i \in I PROVE of[i] \in T /\ name[of[i]] = i
  <2>1. i \in 0 .. months - 1
    BY <1>0
  <2>2. of[i] \in more /\ -of[i].id = i
    BY <1>5, <1>9, <2>1
  <2>3. of[i] \in T
    BY <1>6, <2>2
  <2> QED BY <1>9, <2>2, <2>3
<1>13. \A i \in I : h[i] = f[of[i]] /\ h[i] = sum
  BY <1>9, <1>10, <1>12
<1>14. IsFiniteSet(I) /\ SumFunctionOnSet(h, I) = SumFunctionOnSet(f, T)
  <2>1. /\ \A s \in T : name[s] \in I /\ of[name[s]] = s
        /\ \A i \in I : of[i] \in T /\ name[of[i]] = i
    BY <1>11, <1>12
  <2>2. \A i \in I : h[i] = f[of[i]]
    BY <1>13
  <2>3. \A s \in T : f[s] \in Int
    BY <1>10
  <2>4. IsFiniteSet(T)
    BY <1>10
  <2> QED BY ONLY <2>1, <2>2, <2>3, <2>4, SumRenamed
<1>15. Cardinality(I) \in Nat /\ SumFunctionOnSet(h, I) = sum * Cardinality(I)
  BY <1>13, <1>14, SumConstant
<1> QED BY <1>2, <1>8, <1>14, <1>15 DEF GapComes
-----------------------------------------------------------------------------
(* An income gap                                                           *)

\* A scenario that asks for an income gap is that of its series more.
LEMMA IncomeGapIs ==
    ASSUME NEW was, NEW variable, NEW series, NEW in, in = ForecastInput(was, variable, series),
           NEW sum, NEW months \in Nat, months > 0, NEW p, p = [monthly_income_delta |-> sum, months |-> months],
           NEW start, in.start = start, NEW more, more = GapsOf(start, sum, months),
           NEW m, m = [in EXCEPT !.series = @ \cup more],
           NEW kind, kind = "income_gap", NEW r, r = RunScenario(was, variable, series, kind, p)
    PROVE  Compares(r, in, m)
<1>1. DOMAIN p = {"monthly_income_delta", "months"} /\ p.monthly_income_delta = sum /\ p.months = months
  OBVIOUS
<1>2. Valid(kind, p)
  <2>1. kind \in DOMAIN Needed /\ Needed[kind] = {"monthly_income_delta", "months"}
    BY DEF Needed
  <2> QED BY <1>1, <2>1 DEF Valid
<1>3. ApplyScenario(in, kind, p) = IncomeGap(in, p)
  BY <1>2 DEF ApplyScenario
<1>4. more = {Overlay(-i, "yearly", sum >= 0, sum, AddMonths(start, i)) : i \in 0 .. months - 1}
  BY DEF GapsOf, GapOf
<1>5. IncomeGap(in, p) = Result(in, m, sum)
  BY <1>1, <1>4 DEF IncomeGap
<1>6. r = Result(in, m, sum)
  BY <1>3, <1>5 DEF RunScenario
<1> QED BY <1>6 DEF Result, Compares

\* The months that have begun are the first and those of which the gap comes.
LEMMA BegunIs ==
    ASSUME NEW start \in Nat, NEW months \in Nat \ {0}, NEW day \in Nat, NEW I, I = GapMonths(start, months, day),
           IsFiniteSet(I)
    PROVE  Begun(start, months, day) = Cardinality(I) + 1 /\ Cardinality(I) \in Nat
<1>1. PICK B : B = {i \in 0 .. months - 1 : AddMonths(start, i) <= start + day}
  OBVIOUS
<1>2. AddMonths(start, 0) = start
  BY YearAhead
<1>3. B = I \cup {0} /\ 0 \notin I
  <2>1. 0 \in B
    BY <1>1, <1>2
  <2>2. I = {i \in 1 .. months - 1 : AddMonths(start, i) <= start + day}
    BY DEF GapMonths
  <2>3. \A i : i \in 0 .. months - 1 <=> i = 0 \/ i \in 1 .. months - 1
    OBVIOUS
  <2> QED BY <1>1, <2>1, <2>2, <2>3
<1>4. Cardinality(B) = Cardinality(I) + 1
  BY <1>3, FS_AddElement
<1>5. Cardinality(I) \in Nat
  BY FS_CardinalityType
<1> QED BY <1>1, <1>4, <1>5 DEF Begun

\* A product by a number, and by one more, on either side of zero.
LEMMA GapBounds ==
    ASSUME NEW sum \in Int, NEW c \in Nat, NEW b, b = c + 1, NEW n \in 0 .. 1
    PROVE  /\ sum * (b - n) \in Int
           /\ sum * (b - (IF sum < 0 THEN 0 ELSE 1)) <= sum * c
           /\ sum * c <= sum * (b - (IF sum < 0 THEN 1 ELSE 0))
<1>1. b - 1 = c /\ b - 0 = c + 1
  OBVIOUS
<1>2. sum * (c + 1) = sum * c + sum /\ sum * c \in Int
  OBVIOUS
<1>3. sum * (b - 1) = sum * c /\ sum * (b - 0) = sum * c + sum
  BY <1>1, <1>2
<1>4. n = 0 \/ n = 1
  OBVIOUS
<1>5. sum * (b - n) \in Int
  BY <1>2, <1>3, <1>4
<1>6. CASE sum < 0
  <2>1. (IF sum < 0 THEN 0 ELSE 1) = 0 /\ (IF sum < 0 THEN 1 ELSE 0) = 1
    BY <1>6
  <2>2. sum * c + sum <= sum * c
    BY <1>2, <1>6
  <2> QED BY <1>2, <1>3, <1>5, <2>1, <2>2
<1>7. CASE ~(sum < 0)
  <2>1. (IF sum < 0 THEN 0 ELSE 1) = 1 /\ (IF sum < 0 THEN 1 ELSE 0) = 0
    BY <1>7
  <2>2. sum * c <= sum * c + sum
    BY <1>2, <1>7
  <2> QED BY <1>2, <1>3, <1>5, <2>1, <2>2
<1> QED BY <1>6, <1>7

\* What an income gap comes to is its amount in every month, the first left open.
LEMMA GapHolds ==
    ASSUME SeriesAssumption, Planned, NEW request, Asking(request), NEW variable \in Int, NEW start \in Int, start >= 0,
           NEW old, NEW was, was = CreateForecast(request, variable, old, start),
           NEW path, path = BalancePath(ForecastInput(was, variable, plan)),
           NEW spend, spend = Monthly(request, variable), NEW sum \in Int, NEW months \in Nat \ {0}
    PROVE  GapCosts(was, path, variable, start, spend, sum, months)
<1>1. PICK in, last : in = InputOf(request, variable, plan, start) /\ last = Horizon(in)
  OBVIOUS
<1>2. /\ ForecastInput(was, variable, plan) = in /\ was.horizon = last
      /\ last \in Nat /\ Projected(in) /\ SpendOf(in) = spend
  BY <1>1, StoredIs
<1>3. PICK more : more = GapsOf(start, sum, months)
  OBVIOUS
<1>4. PICK m : m = InputOf(request, variable, plan \cup more, start)
  OBVIOUS
<1>5. m = [in EXCEPT !.series = @ \cup more] /\ in.start = start
  <2>1. PICK B : B = plan \cup more
    OBVIOUS
  <2>2. in.series = plan /\ [in EXCEPT !.series = B] = InputOf(request, variable, B, start)
    BY <1>1, SeriesReplaced
  <2>3. in.start = start
    BY <1>1 DEF InputOf
  <2> QED BY <1>4, <2>1, <2>2, <2>3
<1>6. months \in Nat /\ months > 0 /\ start \in Nat
  OBVIOUS
<1>7. Overlaying(more)
  BY <1>3, <1>6, GapsOverlay
<1>8. /\ Projected(m) /\ Horizon(m) = last
      /\ \A day \in Nat : FlowOf(more, start, day) \in Int /\ Apart(in, m, day, FlowOf(more, start, day))
  BY <1>1, <1>4, <1>7, OverlaidApart
<1>12. PICK p, kind : p = [monthly_income_delta |-> sum, months |-> months] /\ kind = "income_gap"
  OBVIOUS
<1>13. PICK r : r = RunScenario(was, variable, plan, kind, p)
  OBVIOUS
<1>14. Compares(r, in, m)
  <2>1. in = ForecastInput(was, variable, plan)
    BY <1>2
  <2> QED BY ONLY <1>3, <1>5, <1>6, <1>12, <1>13, <2>1, IncomeGapIs
<1>15. PICK low, high : low = (IF sum < 0 THEN 0 ELSE 1) /\ high = (IF sum < 0 THEN 1 ELSE 0)
  OBVIOUS
<1>16. PICK least, most : /\ least = [day \in 0 .. last |-> sum * (Begun(start, months, day) - low)]
                          /\ most = [day \in 0 .. last |-> sum * (Begun(start, months, day) - high)]
  OBVIOUS
<1>17. ASSUME last < 365, NEW day \in 0 .. last
       PROVE  /\ least[day] \in Int /\ most[day] \in Int
              /\ least[day] <= FlowOf(more, start, day) /\ FlowOf(more, start, day) <= most[day] /\ day \in Nat
  <2>1. day \in Nat /\ Short(day)
    BY <1>2, <1>17 DEF Short
  <2>2. PICK I : I = GapMonths(start, months, day)
    OBVIOUS
  <2>3. GapComes(more, start, day, sum, I)
    BY <1>3, <1>6, <2>1, <2>2, GapFlow
  <2>4. IsFiniteSet(I)
    <3>1. IsFiniteSet(1 .. months - 1)
      <4>1. 1 \in Int /\ months - 1 \in Int
        OBVIOUS
      <4> QED BY <4>1, FS_Interval
    <3>2. I \in SUBSET (1 .. months - 1)
      BY <2>2 DEF GapMonths
    <3> QED BY <3>1, <3>2, FS_Subset
  <2>5. PICK b, c : b = Begun(start, months, day) /\ c = Cardinality(I)
    OBVIOUS
  <2>6. b = c + 1 /\ c \in Nat
    BY <1>6, <2>1, <2>2, <2>4, <2>5, BegunIs
  <2>7. FlowOf(more, start, day) = sum * c
    BY <2>3, <2>5 DEF GapComes
  <2>8. least[day] = sum * (b - low) /\ most[day] = sum * (b - high)
    BY <1>16, <2>5
  <2>9. low \in 0 .. 1 /\ high \in 0 .. 1
    BY <1>15
  <2>10. sum * (b - low) \in Int /\ sum * (b - high) \in Int
    BY <2>6, <2>9, GapBounds
  <2>11. sum * (b - low) <= sum * c /\ sum * c <= sum * (b - high)
    <3>1. 0 \in 0 .. 1
      OBVIOUS
    <3> QED BY <1>15, <2>6, <3>1, GapBounds
  <2> QED BY <2>1, <2>7, <2>8, <2>10, <2>11
<1>18. last < 365 => Moved(r, path, least, most, spend, last)
  <2>1. SUFFICES ASSUME last < 365 PROVE Moved(r, path, least, most, spend, last)
    OBVIOUS
  <2>2. \A day \in 0 .. last : least[day] \in Int /\ most[day] \in Int
    BY <1>17, <2>1
  <2>3. Adding(in, m, least, most, last)
    BY <1>8, <1>17, <2>1 DEF Adding
  <2> QED BY <1>1, <1>2, <1>8, <1>14, <2>2, <2>3, MovedHolds
<1>19. r.baselineMin = Min(ToSet(path))
  BY <1>1, <1>2, <1>14, LeastAndLast DEF Compares
<1> QED BY <1>2, <1>12, <1>13, <1>15, <1>16, <1>18, <1>19 DEF GapCosts
-----------------------------------------------------------------------------
(* Another balance to begin with                                           *)

\* A projection that begins with another balance.
Shifted(in, m, x) ==
    /\ m.start = in.start /\ m.series = in.series /\ m.variable = in.variable /\ m.disabled = in.disabled
    /\ m.includeVariable = in.includeVariable /\ m.includeUncertain = in.includeUncertain
    /\ m.horizon \in Int /\ m.balance = in.balance + x

\* It is apart from the other by the difference, every day.
LEMMA ShiftedApart ==
    ASSUME NEW in, Projected(in), NEW x \in Int, NEW m, Shifted(in, m, x)
    PROVE  Projected(m) /\ \A day \in Nat : Apart(in, m, day, x)
<1>1. Projected(m)
  BY DEF Projected, Shifted
<1>2. PICK A : A = AppliedTo(in)
  OBVIOUS
<1>3. AppliedTo(m) = A
  <2>1. \A s \in in.series : Applies(s, m) <=> Applies(s, in)
    BY DEF Shifted, Applies
  <2>2. m.series = in.series
    BY DEF Shifted
  <2> QED BY <1>2, <2>1, <2>2 DEF AppliedTo
<1>4. SpendOf(m) = SpendOf(in) /\ m.start = in.start
  BY DEF Shifted, SpendOf
<1>5. ASSUME NEW day \in Nat PROVE Apart(in, m, day, x)
  <2>1. PICK f, b, start : f = FlowOf(A, start, day) /\ b = in.balance /\ start = in.start
    OBVIOUS
  <2>2. f \in Int /\ b \in Int
    BY <1>2, <2>1, ExactlyIs DEF Projected
  <2>3. m.balance = b + x
    BY <2>1 DEF Shifted
  <2>4. (b + x) + f = (b + f) + x
    BY <2>2
  <2> QED BY <1>2, <1>3, <1>4, <2>1, <2>3, <2>4 DEF Apart
<1> QED BY <1>1, <1>5

\* A projection of other length.
Fields == {"balance", "start", "horizon", "series", "variable", "disabled", "includeVariable", "includeUncertain"}

\* Its length does not matter to that.
LEMMA HorizonReplaced ==
    ASSUME NEW m, DOMAIN m = Fields, NEW d \in Int, NEW near, near = [m EXCEPT !.horizon = d],
           NEW in, NEW x, Shifted(in, m, x)
    PROVE  Shifted(in, near, x) /\ near.horizon = d
<1>1. \A k \in Fields : near[k] = IF k = "horizon" THEN d ELSE m[k]
  OBVIOUS
<1>2. near.horizon = d
  <2>1. "horizon" \in Fields
    BY DEF Fields
  <2> QED BY <1>1, <2>1
<1>3. ASSUME NEW k \in Fields, k # "horizon" PROVE near[k] = m[k]
  BY <1>1, <1>3
<1>4. /\ near.start = m.start /\ near.series = m.series /\ near.variable = m.variable
      /\ near.disabled = m.disabled /\ near.includeVariable = m.includeVariable
      /\ near.includeUncertain = m.includeUncertain /\ near.balance = m.balance
  BY <1>3 DEF Fields
<1> QED BY <1>2, <1>4 DEF Shifted

\* A balance a scenario reports for a day to come.
LEMMA BalanceOn ==
    ASSUME NEW in, Projected(in), NEW x \in Int, NEW m, Shifted(in, m, x), DOMAIN m = Fields,
           NEW last, last = Horizon(in), Horizon(m) = last, NEW by \in Int, by > in.start,
           NEW until, until = by - in.start, NEW day, day = Min({until, last}),
           NEW a, a = BalancePath(in)[day + 1], NEW b, b = balanceOnOrAfter(m, by)
    PROVE  Close(b, a + x, SpendOf(in), day) /\ a \in Int /\ day \in 0 .. last
<1>1. last \in Nat /\ last > 0 /\ until \in Int /\ until > 0
  <2>1. last \in Nat /\ last > 0
    BY HorizonIs DEF Projected
  <2>2. until \in Int /\ until > 0
    BY DEF Projected
  <2> QED BY <2>1, <2>2
<1>2. day \in Nat /\ day > 0 /\ day <= last
  <2>1. day = IF until <= last THEN until ELSE last
    BY <1>1, LesserOf
  <2> QED BY ONLY <1>1, <2>1
<1>3. Max({0, day}) = day
  <2>1. PICK z : z = 0
    OBVIOUS
  <2>2. z \in Int /\ day \in Int /\ z <= day
    BY <1>2, <2>1
  <2> QED BY <2>1, <2>2, GreaterOf
<1>4. PICK near : near = [m EXCEPT !.horizon = day]
  OBVIOUS
<1>5. b = Project(near).ending
  <2>1. m.start = in.start
    BY DEF Shifted
  <2>2. Max({0, Min({by - m.start, Horizon(m)})}) = day
    BY <1>3, <2>1
  <2> QED BY <1>4, <2>2 DEF balanceOnOrAfter
<1>6. Shifted(in, near, x) /\ near.horizon = day
  <2>1. day \in Int
    BY <1>2
  <2> QED BY <1>4, <2>1, HorizonReplaced
<1>7. Projected(near) /\ Apart(in, near, day, x)
  <2>1. Projected(near) /\ \A d \in Nat : Apart(in, near, d, x)
    BY <1>6, ShiftedApart
  <2> QED BY <1>2, <2>1
<1>8. Horizon(near) = day
  <2>1. ~(day <= 0)
    BY <1>2
  <2> QED BY <1>6, <2>1 DEF Horizon
<1>9. PICK q : q = BalancePath(near)
  OBVIOUS
<1>10. b \in Int /\ NearTo(near, b, day)
  <2>1. q \in [1 .. day + 1 -> Int] /\ \A d \in 0 .. day : NearTo(near, q[d + 1], d)
    BY <1>7, <1>8, <1>9, PathNear
  <2>2. b = q[day + 1]
    BY <1>5, <1>7, <1>8, <1>9, ProjectIs DEF Keeps
  <2>3. day \in 0 .. day /\ day + 1 \in 1 .. day + 1
    BY <1>2
  <2> QED BY <2>1, <2>2, <2>3
<1>11. a \in Int /\ NearTo(in, a, day) /\ day \in 0 .. last
  <2>1. PICK p : p = BalancePath(in)
    OBVIOUS
  <2>2. p \in [1 .. last + 1 -> Int] /\ \A d \in 0 .. last : NearTo(in, p[d + 1], d)
    BY <2>1, PathNear
  <2>3. day \in 0 .. last /\ day + 1 \in 1 .. last + 1
    BY <1>1, <1>2
  <2> QED BY <2>1, <2>2, <2>3
<1>12. Close(b, a + x, SpendOf(in), day)
  BY <1>2, <1>7, <1>10, <1>11, ApartClose
<1> QED BY <1>11, <1>12
-----------------------------------------------------------------------------
(* A one-off and a goal                                                    *)

\* What a scenario with a goal shows.
GoalOutcome(r, in, m, goal, by) ==
    /\ Compares(r, in, m)
    /\ r.projected_at_by_date = balanceOnOrAfter(m, by)
    /\ r.goal_feasible <=> r.projected_at_by_date >= Magnitude(goal)

\* It is a forecast from a balance less the amount.
LEMMA GoalIs ==
    ASSUME NEW was, NEW variable, NEW series, NEW in, in = ForecastInput(was, variable, series),
           NEW sum, NEW goal, NEW by,
           NEW p, p = [one_off_amount |-> sum, goal_amount |-> goal, by_date |-> by],
           NEW m, m = [in EXCEPT !.balance = @ - Magnitude(sum)],
           NEW kind, kind = "one_off_plus_goal", NEW r, r = RunScenario(was, variable, series, kind, p)
    PROVE  GoalOutcome(r, in, m, goal, by)
<1>1. DOMAIN p = {"one_off_amount", "goal_amount", "by_date"}
      /\ p.one_off_amount = sum /\ p.goal_amount = goal /\ p.by_date = by
  OBVIOUS
<1>2. Valid(kind, p)
  <2>1. kind \in DOMAIN Needed /\ Needed[kind] = {"one_off_amount", "goal_amount", "by_date"}
        /\ kind # "income_gap"
    BY DEF Needed
  <2> QED BY <1>1, <2>1 DEF Valid
<1>3. ApplyScenario(in, kind, p) = OneOffPlusGoal(in, p)
  BY <1>2 DEF ApplyScenario
<1>4. PICK result, atBy : result = Result(in, m, 0) /\ atBy = balanceOnOrAfter(m, by)
  OBVIOUS
<1>5. OneOffPlusGoal(in, p)
         = [min |-> result.min, ending |-> result.ending, delta |-> 0, baselineMin |-> result.baselineMin,
            projected_at_by_date |-> atBy, goal_feasible |-> atBy >= Magnitude(goal)]
  BY <1>1, <1>4 DEF OneOffPlusGoal
<1>6. result.min = Project(m).min /\ result.ending = Project(m).ending /\ result.baselineMin = Project(in).min
  BY <1>4 DEF Result
<1>7. r = OneOffPlusGoal(in, p)
  BY <1>3 DEF RunScenario
<1>8. /\ r.min = result.min /\ r.ending = result.ending /\ r.baselineMin = result.baselineMin
      /\ r.projected_at_by_date = atBy /\ r.goal_feasible = (atBy >= Magnitude(goal))
  BY <1>5, <1>7
<1> QED BY <1>4, <1>6, <1>8 DEF GoalOutcome, Compares

\* What a one-off costs is its amount, once.
LEMMA OneOffHolds ==
    ASSUME SeriesAssumption, Planned, NEW request, Asking(request), NEW variable \in Int, NEW start \in Int,
           NEW old, NEW was, was = CreateForecast(request, variable, old, start),
           NEW path, path = BalancePath(ForecastInput(was, variable, plan)),
           NEW spend, spend = Monthly(request, variable), NEW sum \in Int, NEW goal \in Int,
           NEW by \in Int, by > start
    PROVE  OneOffCosts(was, path, variable, start, spend, sum, goal, by)
<1>1. PICK in, last : in = InputOf(request, variable, plan, start) /\ last = Horizon(in)
  OBVIOUS
<1>2. /\ ForecastInput(was, variable, plan) = in /\ was.horizon = last
      /\ last \in Nat /\ last > 0 /\ Projected(in) /\ SpendOf(in) = spend
  BY <1>1, StoredIs
<1>3. PICK x : x = -Magnitude(sum)
  OBVIOUS
<1>4. x \in Int /\ \A n \in Int : n + x = n - Magnitude(sum)
  BY <1>3 DEF Magnitude
<1>5. PICK m : m = [in EXCEPT !.balance = @ - Magnitude(sum)]
  OBVIOUS
<1>6. DOMAIN in = Fields /\ in.start = start
  BY <1>1 DEF InputOf, Fields
<1>7. DOMAIN m = Fields /\ Shifted(in, m, x) /\ m.horizon = in.horizon
  <2>1. \A k \in Fields : m[k] = IF k = "balance" THEN in[k] - Magnitude(sum) ELSE in[k]
    BY <1>5, <1>6 DEF Fields
  <2>2. m.balance = in.balance - Magnitude(sum)
    BY <1>5, <1>6 DEF Fields
  <2>3. ASSUME NEW k \in Fields, k # "balance" PROVE m[k] = in[k]
    BY <2>1, <2>3
  <2>4. /\ m.start = in.start /\ m.series = in.series /\ m.variable = in.variable
        /\ m.disabled = in.disabled /\ m.includeVariable = in.includeVariable
        /\ m.includeUncertain = in.includeUncertain /\ m.horizon = in.horizon
    BY <2>3 DEF Fields
  <2>5. m.balance = in.balance + x /\ m.horizon \in Int
    BY <1>2, <1>4, <2>2, <2>4 DEF Projected
  <2>6. DOMAIN m = Fields
    BY <1>5, <1>6
  <2> QED BY <2>4, <2>5, <2>6 DEF Shifted
<1>8. Horizon(m) = last
  BY <1>1, <1>7 DEF Horizon
<1>9. Projected(m) /\ \A day \in Nat : Apart(in, m, day, x)
  BY <1>2, <1>4, <1>7, ShiftedApart
<1>10. PICK cost : cost = [day \in 0 .. last |-> -Magnitude(sum)]
  OBVIOUS
<1>11. \A day \in 0 .. last : cost[day] = x /\ cost[day] \in Int /\ day \in Nat
  BY <1>2, <1>3, <1>4, <1>10
<1>12. PICK until, day : until = by - start /\ day = Min({until, last})
  OBVIOUS
<1>13. PICK a, b : a = path[day + 1] /\ b = balanceOnOrAfter(m, by)
  OBVIOUS
<1>14. Close(b, a + x, spend, day) /\ a \in Int
  <2>1. until = by - in.start /\ by > in.start
    BY <1>6, <1>12
  <2>2. Close(b, a + x, SpendOf(in), day) /\ a \in Int /\ day \in 0 .. last
    BY <1>1, <1>2, <1>4, <1>7, <1>8, <1>12, <1>13, <2>1, BalanceOn
  <2> QED BY <1>2, <2>2
<1>15. Adding(in, m, cost, cost, last)
  <2>1. ASSUME NEW d \in 0 .. last PROVE \E y \in Int : cost[d] <= y /\ y <= cost[d] /\ Apart(in, m, d, y)
    <3>1. Apart(in, m, d, x) /\ cost[d] = x /\ x \in Int /\ x <= x
      BY <1>4, <1>9, <1>11
    <3> QED BY <3>1
  <2> QED BY <2>1 DEF Adding
<1>16. a + x = a - Magnitude(sum)
  BY <1>4, <1>14
<1>17. PICK p, kind : /\ p = [one_off_amount |-> sum, goal_amount |-> goal, by_date |-> by]
                      /\ kind = "one_off_plus_goal"
  OBVIOUS
<1>18. PICK r : r = RunScenario(was, variable, plan, kind, p)
  OBVIOUS
<1>19. GoalOutcome(r, in, m, goal, by)
  <2>1. in = ForecastInput(was, variable, plan)
    BY <1>2
  <2> QED BY ONLY <1>5, <1>17, <1>18, <2>1, GoalIs
<1>20. Moved(r, path, cost, cost, spend, last)
  <2>1. Compares(r, in, m)
    BY <1>19 DEF GoalOutcome
  <2>2. \A d \in 0 .. last : cost[d] \in Int /\ cost[d] \in Int
    BY <1>11
  <2> QED BY <1>1, <1>2, <1>8, <1>9, <1>15, <2>1, <2>2, MovedHolds
<1>21. /\ Close(r.projected_at_by_date, path[day + 1] - Magnitude(sum), spend, day)
       /\ r.goal_feasible <=> r.projected_at_by_date >= Magnitude(goal)
  BY <1>13, <1>14, <1>16, <1>19 DEF GoalOutcome
<1> QED BY <1>2, <1>10, <1>12, <1>17, <1>18, <1>20, <1>21 DEF OneOffCosts
-----------------------------------------------------------------------------
(* Scenarios                                                               *)

\* ScenarioAddsUp holds of typed series, finite in number.
LEMMA ScenarioHolds ==
    ASSUME SeriesAssumption, Planned
    PROVE  ScenarioAddsUp
<1>1. ASSUME NEW request \in Requests, NEW variable \in Variables, NEW start \in askedOn, NEW old,
             NEW was, was = CreateForecast(request, variable, old, start),
             NEW path, path = BalancePath(ForecastInput(was, variable, plan)),
             NEW spend, spend = Monthly(request, variable), NEW sum \in Sums
      PROVE  /\ \A from \in ScenarioDays : ObligationCosts(was, path, variable, start, spend, sum, from)
             /\ \A months \in Gaps : GapCosts(was, path, variable, start, spend, sum, months)
             /\ \A goal \in Sums, by \in {d \in ScenarioDays : d > start} :
                   OneOffCosts(was, path, variable, start, spend, sum, goal, by)
  <2>1. Asking(request) /\ variable \in Int /\ start \in Int /\ start >= 0 /\ sum \in Int
    BY DEF SeriesAssumption, Asking, Planned
  <2>2. ASSUME NEW from \in ScenarioDays PROVE ObligationCosts(was, path, variable, start, spend, sum, from)
    <3>1. from \in Int
      BY DEF SeriesAssumption
    <3> QED BY <1>1, <2>1, <3>1, ObligationHolds
  <2>3. ASSUME NEW months \in Gaps PROVE GapCosts(was, path, variable, start, spend, sum, months)
    <3>1. months \in Nat \ {0}
      BY DEF SeriesAssumption
    <3> QED BY <1>1, <2>1, <3>1, GapHolds
  <2>4. ASSUME NEW goal \in Sums, NEW by \in ScenarioDays, by > start
        PROVE  OneOffCosts(was, path, variable, start, spend, sum, goal, by)
    <3>1. goal \in Int /\ by \in Int
      BY DEF SeriesAssumption
    <3> QED BY <1>1, <2>1, <2>4, <3>1, OneOffHolds
  <2> QED BY <2>2, <2>3, <2>4
<1>2. ASSUME NEW request \in Requests, NEW variable \in Variables, NEW start \in askedOn, NEW old,
             NEW was, was = CreateForecast(request, variable, old, start),
             NEW path, path = BalancePath(ForecastInput(was, variable, plan))
      PROVE  /\ old = plan => was.min = Min(ToSet(path)) /\ was.ending = path[was.horizon + 1]
             /\ Overlays(was, path, variable, start, Monthly(request, variable))
  <2>1. PICK spend, in, last : /\ spend = Monthly(request, variable)
                               /\ in = InputOf(request, variable, plan, start) /\ last = Horizon(in)
    OBVIOUS
  <2>2. Overlays(was, path, variable, start, spend)
    BY <1>1, <1>2, <2>1 DEF Overlays
  <2>3. Asking(request) /\ variable \in Int /\ start \in Int
    BY DEF SeriesAssumption, Asking, Planned
  <2>4. /\ ForecastInput(was, variable, plan) = in /\ was.horizon = last /\ Projected(in)
        /\ old = plan => was.min = Project(in).min /\ was.ending = Project(in).ending
    BY <1>2, <2>1, <2>3, StoredIs
  <2>5. Project(in).min = Min(ToSet(path)) /\ Project(in).ending = path[last + 1]
    BY <1>2, <2>1, <2>4, LeastAndLast
  <2> QED BY <2>1, <2>2, <2>4, <2>5
<1> QED BY <1>2 DEF ScenarioAddsUp
-----------------------------------------------------------------------------
(* Any series                                                              *)

\* The series of a household are finitely many, and have ids of their own.
PlanInv ==
    /\ Planned
    /\ \A r, s \in plan : r.id = s.id => r = s

\* Series are added one at a time, each with an id that is new: they stay typed,
\* finite in number, and known by their ids.
THEOREM PlanInvariance == PlanSpec => []PlanInv
<1>1. PlanInit => PlanInv
  <2>1. IsFiniteSet({})
    BY FS_EmptySet
  <2> QED BY <2>1 DEF PlanInit, PlanInv, Planned
<1>2. PlanInv /\ [AddSeries \/ Ask]_figures => PlanInv'
  <2>1. SUFFICES ASSUME PlanInv, [AddSeries \/ Ask]_figures PROVE PlanInv'
    OBVIOUS
  <2>2. CASE AddSeries
    <3>1. PICK s \in AllSeries : (\A r \in plan : r.id # s.id) /\ plan' = plan \cup {s}
      BY <2>2 DEF AddSeries
    <3>2. IsFiniteSet(plan \cup {s})
      BY <2>1, FS_AddElement DEF PlanInv, Planned
    <3>3. plan' \subseteq AllSeries /\ askedOn' \subseteq Todays
      BY <2>1, <2>2, <3>1 DEF PlanInv, Planned, AddSeries
    <3>4. \A q, r \in plan' : q.id = r.id => q = r
      BY <2>1, <3>1 DEF PlanInv
    <3> QED BY <3>1, <3>2, <3>3, <3>4 DEF PlanInv, Planned
  <2>3. CASE Ask
    <3>1. PICK today \in Todays : askedOn' = askedOn \cup {today}
      BY <2>3 DEF Ask
    <3>2. plan' = plan
      BY <2>3 DEF Ask
    <3> QED BY <2>1, <3>1, <3>2 DEF PlanInv, Planned
  <2>4. CASE UNCHANGED figures
    BY <2>1, <2>4 DEF PlanInv, Planned, figures
  <2> QED BY <2>1, <2>2, <2>3, <2>4
<1> QED BY <1>1, <1>2, PTL DEF PlanSpec

\* BaselineExplains: whatever the series and whatever the expenses of the period
\* are, the numbers that Compute shows (finance/baseline.go) explain the expenses
\* to the cent that each is rounded by, and the chat adds up the same costs.
THEOREM BaselinesExplained == PlanSpec => []BaselineExplains
<1>1. PlanInv => BaselineExplains
  BY SeriesAssumption, BaselinesHold DEF PlanInv
<1> QED BY <1>1, PlanInvariance, PTL

\* ProjectionAddsUp: whatever the series, the balance, the horizon and the options
\* are, the balances that Project keeps (forecast/project.go) are the start, less
\* the variable spend, and each series as often as it was due, with every
\* rounding bounded; and a year of a forecast follows the baseline it rests on.
THEOREM ProjectionsAddUp == PlanSpec => []ProjectionAddsUp
<1>1. PlanInv => ProjectionAddsUp
  BY SeriesAssumption, ProjectionHolds DEF PlanInv
<1> QED BY <1>1, PlanInvariance, PTL

\* ScenarioAddsUp: whatever the series of today and of the forecast, the forecast and
\* the parameters are, a new obligation, an income gap and a one-off
\* (forecast/project.go, RunScenario of service/forecast.go) move each balance of
\* the path that today's series have by what they take by then, but for the rounding
\* of two balances, and are compared with the lowest of that path.
THEOREM ScenariosAddUp == PlanSpec => []ScenarioAddsUp
<1>1. PlanInv => ScenarioAddsUp
  BY SeriesAssumption, ScenarioHolds DEF PlanInv
<1> QED BY <1>1, PlanInvariance, PTL

-----------------------------------------------------------------------------
(* Decisions                                                               *)

\* A row whose verified_at agrees with its status.
Agrees(row) == row.verified <=> row.status \in Outcome

IInv ==
    /\ TypeOK
    /\ \A d \in DecisionId : Agrees(action[d])
    /\ \A p \in Request : call[p].at = "update" =>
          /\ Agrees(call[p].row)
          /\ CanTransition(call[p].row.status, call[p].to)
          /\ Stored(call[p].decision)
    /\ \A p \in Request : call[p].at = "create" =>
          /\ ~Stored(call[p].decision)
          /\ \A q \in Request :
                call[q].at = "create" /\ call[q].decision = call[p].decision
                   => q = p

\* What UpdateActionStatus writes agrees, if what it read did: a verified row
\* has an outcome already, and an outcome can only be followed by itself.
LEMMA WriteAgrees ==
    ASSUME NEW row \in Row, NEW to \in ValidStatuses,
           Agrees(row), CanTransition(row.status, to)
    PROVE  Verified(row, to) <=> to \in Outcome
  BY DEF Row, ValidStatuses, Agrees, CanTransition, Verified, Outcome

LEMMA InitInv == Init => IInv
  BY DEF Init, IInv, TypeOK, NoAction, Agrees, Outcome, Idle

LEMMA StepInv == IInv /\ [Next]_vars => IInv'
<1> SUFFICES ASSUME IInv, [Next]_vars PROVE IInv'
  OBVIOUS
<1> USE DEF IInv, Agrees, Stored
<1>1. CASE StoreSource
  BY <1>1 DEF StoreSource, TypeOK
<1>2. ASSUME NEW p \in Request, CheckSource(p) PROVE IInv'
  <2>1. TypeOK'
    BY <1>2 DEF CheckSource, TypeOK, Create
  <2> QED
    BY <2>1, <1>2 DEF CheckSource, TypeOK
<1>3. ASSUME NEW p \in Request, InsertDecision(p) PROVE IInv'
  <2>1. call[p] \in Create
    BY <1>3 DEF InsertDecision, TypeOK, Idle, Create, Update
  <2>2. TypeOK'
    BY <1>3, <2>1
    DEF InsertDecision, TypeOK, Create, InsertAction, Row, ValidStatuses
  <2> QED
    BY <2>1, <2>2, <1>3
    DEF InsertDecision, TypeOK, Create, InsertAction, Outcome, Idle
<1>4. ASSUME NEW p \in Request, GetAction(p) PROVE IInv'
  <2>1. PICK d \in DecisionId, to \in ValidStatuses, n \in Note \cup {NoNote} :
          /\ Stored(d)
          /\ CanTransition(action[d].status, to)
          /\ call' = [call EXCEPT ![p] =
                [at |-> "update", decision |-> d, row |-> action[d],
                 to |-> to, note |-> n]]
    BY <1>4 DEF GetAction
  <2>2. action[d] \in Row
    BY <2>1 DEF TypeOK, Stored, NoAction
  <2>3. TypeOK'
    BY <1>4, <2>1, <2>2 DEF GetAction, TypeOK, Update
  <2>4. \A q \in Request : call'[q] = IF q = p
            THEN [at |-> "update", decision |-> d, row |-> action[d],
                  to |-> to, note |-> n]
            ELSE call[q]
    BY <2>1 DEF TypeOK
  <2> QED
    BY <2>1, <2>2, <2>3, <2>4, <1>4 DEF GetAction
<1>5. ASSUME NEW p \in Request, UpdateActionStatus(p) PROVE IInv'
  <2>1. call[p] \in Update
    BY <1>5 DEF UpdateActionStatus, TypeOK, Idle, Create, Update
  <2> DEFINE new == [status   |-> call[p].to,
                     note     |-> OutcomeNote(call[p].row, call[p].note),
                     verified |-> Verified(call[p].row, call[p].to)]
  <2>2. Verified(call[p].row, call[p].to) <=> call[p].to \in Outcome
    BY <2>1, <1>5, WriteAgrees DEF UpdateActionStatus, Update
  <2>3. new \in Row /\ Agrees(new)
    BY <2>1, <2>2 DEF Update, Row, OutcomeNote, Verified
  <2>4. /\ action' = [action EXCEPT ![call[p].decision] = new]
        /\ call' = [call EXCEPT ![p] = Idle]
        /\ sources' = sources
    BY <1>5 DEF UpdateActionStatus
  <2>5. call[p].decision \in DecisionId
    BY <2>1 DEF Update
  <2> HIDE DEF new
  <2>6. TypeOK'
    BY <2>3, <2>4, <2>5 DEF TypeOK
  <2>7. \A d \in DecisionId :
            action'[d] = IF d = call[p].decision THEN new ELSE action[d]
    BY <2>4 DEF TypeOK
  <2>8. \A q \in Request : call'[q] = IF q = p THEN Idle ELSE call[q]
    BY <2>4 DEF TypeOK
  <2>9. \A q \in Request : call'[q].at = "create" =>
           /\ action'[call'[q].decision] = action[call[q].decision]
           /\ call'[q] = call[q] /\ call[q].at = "create"
    <3> TAKE q \in Request
    <3> HAVE call'[q].at = "create"
    <3>1. call'[q] = call[q] /\ call[q] \in Create
      BY <2>8 DEF Idle, TypeOK, Create, Update
    <3>2. Stored(call[p].decision)
      BY <1>5 DEF UpdateActionStatus
    <3> QED
      BY <3>1, <3>2, <2>7 DEF Create
  <2>10. \A q \in Request : call'[q].at = "create" =>
            /\ ~Stored(call[q].decision)'
            /\ \A r \in Request :
                  call'[r].at = "create" /\ call'[r].decision = call'[q].decision
                     => r = q
    BY <2>9
  <2>11. \A q \in Request : call'[q].at = "update" =>
            /\ call'[q] = call[q] /\ call[q] \in Update
            /\ Stored(call[q].decision)'
    <3> TAKE q \in Request
    <3> HAVE call'[q].at = "update"
    <3>1. call'[q] = call[q] /\ call[q] \in Update
      BY <2>8 DEF Idle, TypeOK, Create, Update
    <3>2. new.status # "none"
      BY <2>3 DEF Row, ValidStatuses
    <3> QED
      BY <3>1, <3>2, <2>7 DEF Update
  <2>12. \A d \in DecisionId : Agrees(action[d])'
    BY <2>3, <2>7
  <2> QED
    BY <2>6, <2>10, <2>11, <2>12
<1>6. ASSUME NEW p \in Request, Abort(p) PROVE IInv'
  BY <1>6 DEF Abort, TypeOK, Idle
<1>7. CASE UNCHANGED vars
  BY <1>7 DEF vars, TypeOK
<1> QED
  BY <1>1, <1>2, <1>3, <1>4, <1>5, <1>6, <1>7 DEF Next

\* The inductive invariant holds throughout.
THEOREM Invariance == Spec => []IInv
  BY InitInv, StepInv, PTL DEF Spec

\* Every action row and every pending request has the type stated.
THEOREM TypeCorrect == Spec => []TypeOK
<1>1. IInv => TypeOK
  BY DEF IInv
<1> QED
  BY <1>1, Invariance, PTL

\* verified_at is set exactly on the actions done or skipped, whatever the
\* requests that overlap (decision.go:274-279).
THEOREM VerifiedOutcomes == Spec => []VerifiedIffOutcome
<1>1. IInv => VerifiedIffOutcome
  BY DEF IInv, VerifiedIffOutcome, Agrees
<1> QED
  BY <1>1, Invariance, PTL

\* A step that unfixes a terminal status or blanks a note is the update of a
\* request whose row is no longer the one stored.
Unseen(d) ==
    \E p \in Request : /\ call[p].at = "update" /\ call[p].decision = d
                       /\ call[p].row # action[d]
                       /\ call'[p] = Idle
Unfixed(d) == Terminal(d) /\ action'[d].status # action[d].status

LEMMA StepOverwrites ==
    IInv /\ [Next]_vars
        => \A d \in DecisionId : Unfixed(d) \/ Blanked(d) => Unseen(d)
<1> SUFFICES ASSUME IInv, [Next]_vars, NEW d \in DecisionId, Unfixed(d) \/ Blanked(d)
             PROVE  Unseen(d)
  OBVIOUS
<1>1. action' # action
  BY DEF Unfixed, Blanked
<1>2. ASSUME NEW p \in Request, InsertDecision(p) PROVE FALSE
  <2>1. ~Stored(call[p].decision) /\ call[p] \in Create
    BY <1>2 DEF InsertDecision, IInv, TypeOK, Idle, Create, Update
  <2>2. action[call[p].decision] = NoAction
    BY <2>1 DEF IInv, TypeOK, Create, Stored, Row, ValidStatuses
  <2>3. action'[d] = action[d] \/ action[d] = NoAction
    BY <1>2, <2>1, <2>2 DEF InsertDecision, IInv, TypeOK
  <2> QED
    BY <2>3 DEF Unfixed, Blanked, Terminal, NoAction, ValidStatuses
<1>3. ASSUME NEW p \in Request, UpdateActionStatus(p) PROVE Unseen(d)
  <2>1. call[p] \in Update /\ CanTransition(call[p].row.status, call[p].to)
    BY <1>3 DEF UpdateActionStatus, IInv, TypeOK, Idle, Create, Update
  <2>2. /\ action' = [action EXCEPT ![call[p].decision] =
             [status   |-> call[p].to,
              note     |-> OutcomeNote(call[p].row, call[p].note),
              verified |-> Verified(call[p].row, call[p].to)]]
        /\ call'[p] = Idle
    BY <1>3 DEF UpdateActionStatus, IInv, TypeOK
  <2>3. d = call[p].decision
    BY <2>2 DEF Unfixed, Blanked, IInv, TypeOK
  <2>4. /\ action'[d].status = call[p].to
        /\ action'[d].note = OutcomeNote(call[p].row, call[p].note)
    BY <2>2, <2>3 DEF IInv, TypeOK
  <2>5. call[p].row # action[d]
    BY <2>1, <2>4
    DEF Unfixed, Blanked, Terminal, CanTransition, OutcomeNote, ValidStatuses
  <2> QED
    BY <1>3, <2>2, <2>3, <2>5 DEF Unseen, UpdateActionStatus
<1> QED
  BY <1>1, <1>2, <1>3
  DEF Next, vars, StoreSource, CheckSource, GetAction, Abort

\* Terminal statuses are fixed and notes stay, but for requests that did not
\* see what another one wrote (decision.go:251-286).
THEOREM OverwritesAreStale == Spec => OverwritesOnlyUnseen
<1>1. IInv /\ [Next]_vars => [\A d \in DecisionId :
          (Terminal(d) /\ action'[d].status # action[d].status) \/ Blanked(d)
             => \E p \in Request : /\ call[p].at = "update"
                                  /\ call[p].decision = d
                                  /\ call[p].row # action[d]
                                  /\ call'[p] = Idle]_vars
  BY StepOverwrites DEF Unfixed, Unseen
<1> QED
  BY <1>1, Invariance, PTL DEF Spec, OverwritesOnlyUnseen
=============================================================================
