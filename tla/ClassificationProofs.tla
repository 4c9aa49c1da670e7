------------------------ MODULE ClassificationProofs ------------------------
(***************************************************************************)
(* That merchants stay in their household, corrections stand and runs      *)
(* cover what they read, for any households, bookings, labels, rules and   *)
(* number of overlapping calls.                                            *)
(*                                                                         *)
(* The first two do not depend on where the calls are: an alias is never   *)
(* given to a second household, and every row that is written takes its    *)
(* merchant from the aliases of the household of its own transaction.      *)
(***************************************************************************)
EXTENDS Classification, TLAPS

\* The row of transaction i is tied to no merchant, or to the one of its
\* label, which owner gives to its household.
Tied(row, i, owner) ==
    row # Unclassified /\ row.merchant # NoLabel
    => /\ row.merchant = TransactionOf(i).label
       /\ TransactionOf(i).label \in Label
       /\ owner[TransactionOf(i).label] = TransactionOf(i).household

IInv ==
    /\ ledger \subseteq Transaction
    /\ class = [i \in Id |-> class[i]]
    /\ alias = [l \in Label |-> alias[l]]
    /\ \A i \in Id : Tied(class[i], i, alias)

\* An id names one transaction.
LEMMA IdNamesTransaction ==
    /\ \A t \in Transaction : t.id \in Id /\ TransactionOf(t.id) = t
    /\ \A i \in Id : TransactionOf(i) \in Transaction /\ TransactionOf(i).id = i
<1>1. \A i \in Id : \E t \in Transaction : t.id = i
  BY DEF Id
<1>2. \A i \in Id : TransactionOf(i) \in Transaction /\ TransactionOf(i).id = i
  BY <1>1 DEF TransactionOf
<1>3. \A t \in Transaction : t.id \in Id
  BY DEF Id
<1> QED
  BY <1>2, <1>3, ClassificationAssumption

\* Every row takes its merchant from the aliases of the booking's household.
LEMMA MerchantOfTies ==
    ASSUME NEW i \in Id, NEW row, row.merchant = MerchantOf(TransactionOf(i))
    PROVE  Tied(row, i, alias)
<1>1. TransactionOf(i).label \in Label \cup {NoLabel}
  BY IdNamesTransaction, ClassificationAssumption
<1> QED
  BY <1>1 DEF Tied, MerchantOf, GetMerchantAlias

\* The row a run writes.
LEMMA ClassifiedRow ==
    ASSUME NEW t, NEW seen
    PROVE  /\ Classified(t, seen).merchant = MerchantOf(t)
           /\ Classified(t, seen) # Unclassified
           /\ MerchantOf(t) # NoLabel /\ seen.byMerchant[MerchantOf(t)] # NoCategory
              => Classified(t, seen).source = "user_rule"
<1>1. \A category, merchant, source, confidence :
         /\ Row(category, merchant, source, confidence).merchant = merchant
         /\ Row(category, merchant, source, confidence).source = source
  BY DEF Row
<1>2. \A merchant, isTransfer :
         LET row == SuggestCategory(t, merchant, isTransfer)
         IN  row.merchant = merchant /\ row.source \in {"heuristic", "merchant", "unresolved"}
  BY <1>1 DEF SuggestCategory
<1>3. /\ Classified(t, seen).merchant = MerchantOf(t)
      /\ Classified(t, seen).source # "none"
  BY <1>1, <1>2 DEF Classified
<1>4. Unclassified.source = "none"
  BY DEF Unclassified
<1>5. MerchantOf(t) # NoLabel /\ seen.byMerchant[MerchantOf(t)] # NoCategory
      => Classified(t, seen).source = "user_rule"
  BY <1>1 DEF Classified
<1> QED
  BY <1>3, <1>4, <1>5

\* What a step may do to the row of a transaction: leave it, lose it with the
\* transaction, write what a run found unless a user decided, correct it.
RowStep(i) ==
    \/ class'[i] = class[i]
    \/ class'[i] = Unclassified /\ ~Stored(i)'
    \/ \E c \in Caller :
          /\ ~Ruled(i) /\ call[c].at = "classify" /\ Stored(i)
          /\ class'[i] = Classified(TransactionOf(i), call[c])
    \/ \E c \in Caller :
          /\ call[c].at = "force" /\ call[c].tx = i /\ Stored(i)
          /\ class'[i] = Row(call[c].category, MerchantOf(TransactionOf(i)),
                             "user_rule", "high")

\* The rows after a step.
LEMMA RowsStep ==
    ASSUME IInv, [Next]_vars
    PROVE  /\ class' = [i \in Id |-> class'[i]]
           /\ \A i \in Id : RowStep(i)
<1> USE DEF IInv
<1>1. ASSUME UNCHANGED class
      PROVE  /\ class' = [i \in Id |-> class'[i]]
             /\ \A i \in Id : RowStep(i)
  BY <1>1 DEF RowStep
<1>2. ASSUME NEW f, CommitRollback(f)
      PROVE  /\ class' = [i \in Id |-> class'[i]]
             /\ \A i \in Id : RowStep(i)
  <2>1. class' = Cascade(f) /\ ledger' = ledger \ InFile(f)
    BY <1>2 DEF CommitRollback
  <2>2. class' = [i \in Id |-> class'[i]]
    BY <2>1 DEF Cascade
  <2>3. ASSUME NEW i \in Id PROVE RowStep(i)
    <3>1. CASE TransactionOf(i) \in InFile(f)
      <4>1. class'[i] = Unclassified
        BY <2>1, <3>1 DEF Cascade
      <4>2. ~Stored(i)'
        BY <2>1, <3>1 DEF Stored
      <4> QED
        BY <4>1, <4>2 DEF RowStep
    <3>2. CASE TransactionOf(i) \notin InFile(f)
      BY <2>1, <3>2 DEF Cascade, RowStep
    <3> QED
      BY <3>1, <3>2
  <2> QED
    BY <2>2, <2>3
<1>3. ASSUME NEW c \in Caller, ClassifyNext(c)
      PROVE  /\ class' = [i \in Id |-> class'[i]]
             /\ \A i \in Id : RowStep(i)
  <2>1. CASE UNCHANGED class
    BY <1>1, <2>1
  <2>2. ASSUME NEW n, Stored(n),
               class' = [class EXCEPT ![n] = UpsertTransactionClassification(
                                  n, Classified(TransactionOf(n), call[c]))]
        PROVE  /\ class' = [i \in Id |-> class'[i]]
               /\ \A i \in Id : RowStep(i)
    <3>1. class' = [i \in Id |-> class'[i]]
      BY <2>2
    <3>2. \A i \in Id : i # n => class'[i] = class[i]
      BY <2>2
    <3>3. n \in Id => class'[n] = UpsertTransactionClassification(
                                  n, Classified(TransactionOf(n), call[c]))
      BY <2>2
    <3>4. n \in Id => RowStep(n)
      BY <1>3, <2>2, <3>3 DEF RowStep, UpsertTransactionClassification, Ruled, ClassifyNext
    <3>5. \A i \in Id : i # n => RowStep(i)
      BY <3>2 DEF RowStep
    <3> QED
      BY <3>1, <3>4, <3>5
  <2> QED
    BY <1>3, <2>1, <2>2 DEF ClassifyNext
<1>4. ASSUME NEW c \in Caller, ForceUpsert(c)
      PROVE  /\ class' = [i \in Id |-> class'[i]]
             /\ \A i \in Id : RowStep(i)
  <2> DEFINE n == call[c].tx
             row == Row(call[c].category, MerchantOf(TransactionOf(n)), "user_rule", "high")
  <2>1. CASE UNCHANGED class
    BY <1>1, <2>1
  <2>2. CASE Stored(n) /\ class' = [class EXCEPT ![n] = row]
    <3>1. class' = [i \in Id |-> class'[i]]
      BY <2>2
    <3>2. \A i \in Id : i # n => class'[i] = class[i]
      BY <2>2
    <3>3. n \in Id => class'[n] = row
      BY <2>2
    <3>4. n \in Id => RowStep(n)
      BY <1>4, <2>2, <3>3 DEF RowStep, ForceUpsert
    <3>5. \A i \in Id : i # n => RowStep(i)
      BY <3>2 DEF RowStep
    <3> QED
      BY <3>1, <3>4, <3>5
  <2> QED
    BY <1>4, <2>1, <2>2 DEF ForceUpsert, ForceUpsertTransactionClassification
<1>5. \/ UNCHANGED class
      \/ \E f : CommitRollback(f)
      \/ \E c \in Caller : ClassifyNext(c) \/ ForceUpsert(c)
  <2>1. CASE UNCHANGED vars
    BY <2>1 DEF vars, tables
  <2>2. ASSUME NEW file, CommitImport(file) PROVE UNCHANGED class
    BY <2>2 DEF CommitImport
  <2>3. ASSUME NEW t, ConfirmTransfer(t) \/ SetOneOff(t) PROVE UNCHANGED class
    BY <2>3 DEF ConfirmTransfer, SetOneOff
  <2>4. ASSUME NEW row, ImportPatternRule(row) PROVE UNCHANGED class
    BY <2>4 DEF ImportPatternRule
  <2>5. ASSUME NEW c, NEW h, NEW kind, StartRun(c, kind, h) PROVE UNCHANGED class
    BY <2>5 DEF StartRun, tables
  <2>6. ASSUME NEW c, NEW t, NEW category, NEW everywhere, StartCorrection(c, t, category, everywhere)
        PROVE  UNCHANGED class
    BY <2>6 DEF StartCorrection, tables
  <2>7. ASSUME NEW c \in Caller, Step(c), ~ClassifyNext(c), ~ForceUpsert(c) PROVE UNCHANGED class
    BY <2>7 DEF Step, tables, CreateMerchant, CreateMerchantAlias, Rebuilt, ReadRules,
       ReadTransfers, ReadTransactions, ListQueue, SuggestCategories, ApplySuggestion, FindLabels,
       FindRule, WriteRule, SetDefault
  <2>8. ASSUME NEW c, Abandon(c) PROVE UNCHANGED class
    BY <2>8 DEF Abandon, tables
  <2> QED
    BY <2>1, <2>2, <2>3, <2>4, <2>5, <2>6, <2>7, <2>8 DEF Next
<1> QED
  BY <1>1, <1>2, <1>3, <1>4, <1>5

\* An alias stays in its household, and the ledger holds known bookings.
LEMMA AliasStep ==
    ASSUME IInv, [Next]_vars
    PROVE  /\ ledger' \subseteq Transaction
           /\ alias' = [l \in Label |-> alias'[l]]
           /\ \A l \in Label : alias[l] # Nobody => alias'[l] = alias[l]
<1> USE DEF IInv
<1>1. ledger' \subseteq Transaction
  <2>1. CASE UNCHANGED vars
    BY <2>1 DEF vars, tables
  <2>2. ASSUME NEW file, CommitImport(file) PROVE ledger' \subseteq Transaction
    BY <2>2 DEF CommitImport, InFile
  <2>3. ASSUME NEW t, ConfirmTransfer(t) \/ SetOneOff(t) PROVE ledger' \subseteq Transaction
    BY <2>3 DEF ConfirmTransfer, SetOneOff
  <2>4. ASSUME NEW row, ImportPatternRule(row) PROVE ledger' \subseteq Transaction
    BY <2>4 DEF ImportPatternRule
  <2>5. ASSUME NEW c, NEW h, NEW kind, StartRun(c, kind, h) PROVE ledger' \subseteq Transaction
    BY <2>5 DEF StartRun, tables
  <2>6. ASSUME NEW c, NEW t, NEW category, NEW everywhere, StartCorrection(c, t, category, everywhere)
        PROVE  ledger' \subseteq Transaction
    BY <2>6 DEF StartCorrection, tables
  <2>7. ASSUME NEW c \in Caller, Step(c) PROVE ledger' \subseteq Transaction
    BY <2>7 DEF Step, tables, CreateMerchant, CreateMerchantAlias, Rebuilt, ReadRules,
       ReadTransfers, ReadTransactions, ClassifyNext, ListQueue, SuggestCategories, ApplySuggestion,
       FindLabels, ForceUpsert, FindRule, WriteRule, SetDefault
  <2>8. ASSUME NEW c, Abandon(c) PROVE ledger' \subseteq Transaction
    BY <2>8 DEF Abandon, tables
  <2>9. ASSUME NEW file, CommitRollback(file) PROVE ledger' \subseteq Transaction
    BY <2>9 DEF CommitRollback, InFile
  <2> QED
    BY <2>1, <2>2, <2>3, <2>4, <2>5, <2>6, <2>7, <2>8, <2>9 DEF Next
<1>2. \/ UNCHANGED alias
      \/ \E c \in Caller : CreateMerchantAlias(c)
  <2>1. CASE UNCHANGED vars
    BY <2>1 DEF vars, tables
  <2>2. ASSUME NEW file, CommitImport(file) PROVE UNCHANGED alias
    BY <2>2 DEF CommitImport
  <2>3. ASSUME NEW t, ConfirmTransfer(t) \/ SetOneOff(t) PROVE UNCHANGED alias
    BY <2>3 DEF ConfirmTransfer, SetOneOff
  <2>4. ASSUME NEW row, ImportPatternRule(row) PROVE UNCHANGED alias
    BY <2>4 DEF ImportPatternRule
  <2>5. ASSUME NEW c, NEW h, NEW kind, StartRun(c, kind, h) PROVE UNCHANGED alias
    BY <2>5 DEF StartRun, tables
  <2>6. ASSUME NEW c, NEW t, NEW category, NEW everywhere, StartCorrection(c, t, category, everywhere)
        PROVE  UNCHANGED alias
    BY <2>6 DEF StartCorrection, tables
  <2>7. ASSUME NEW c \in Caller, Step(c), ~CreateMerchantAlias(c) PROVE UNCHANGED alias
    BY <2>7 DEF Step, tables, CreateMerchant, Rebuilt, ReadRules, ReadTransfers, ReadTransactions,
       ClassifyNext, ListQueue, SuggestCategories, ApplySuggestion, FindLabels,
       ForceUpsert, FindRule, WriteRule, SetDefault
  <2>8. ASSUME NEW c, Abandon(c) PROVE UNCHANGED alias
    BY <2>8 DEF Abandon, tables
  <2>9. ASSUME NEW file, CommitRollback(file) PROVE UNCHANGED alias
    BY <2>9 DEF CommitRollback
  <2> QED
    BY <2>1, <2>2, <2>3, <2>4, <2>5, <2>6, <2>7, <2>8, <2>9 DEF Next
<1>3. ASSUME NEW c \in Caller, CreateMerchantAlias(c)
      PROVE  /\ alias' = [l \in Label |-> alias'[l]]
             /\ \A l \in Label : alias[l] # Nobody => alias'[l] = alias[l]
  BY <1>3 DEF CreateMerchantAlias
<1> QED
  BY <1>1, <1>2, <1>3

LEMMA InitInv == Init => IInv
<1> SUFFICES ASSUME Init PROVE IInv
  OBVIOUS
<1>1. class = [i \in Id |-> Unclassified]
  BY DEF Init
<1> QED
  BY <1>1 DEF Init, IInv, Tied

LEMMA StepInv == IInv /\ [Next]_vars => IInv'
<1> SUFFICES ASSUME IInv, [Next]_vars PROVE IInv'
  OBVIOUS
<1>1. ASSUME NEW i \in Id PROVE Tied(class'[i], i, alias)
  <2>1. CASE class'[i] = class[i]
    BY <2>1 DEF IInv
  <2>2. CASE class'[i] = Unclassified
    BY <2>2 DEF Tied
  <2>3. CASE \E c \in Caller : class'[i] = Classified(TransactionOf(i), call[c])
    BY <2>3, ClassifiedRow, MerchantOfTies
  <2>4. CASE \E category : class'[i] = Row(category, MerchantOf(TransactionOf(i)),
                                           "user_rule", "high")
    BY <2>4, MerchantOfTies DEF Row
  <2> QED
    BY <2>1, <2>2, <2>3, <2>4, RowsStep DEF RowStep
<1>2. ASSUME NEW i \in Id PROVE Tied(class'[i], i, alias')
  <2>1. TransactionOf(i).household # Nobody
    BY IdNamesTransaction, ClassificationAssumption
  <2> QED
    BY <1>1, <2>1, AliasStep DEF Tied
<1> QED
  BY <1>2, RowsStep, AliasStep DEF IInv

\* Every row is tied to the merchant of its booking.
THEOREM Invariance == Spec => []IInv
  BY InitInv, StepInv, PTL DEF Spec

\* Merchants stay in their household: a classified transaction is tied to the
\* merchant of its own label and household (GetMerchantAlias looks an alias up
\* by label and household, CreateMerchantAlias never takes one over).
THEOREM MerchantsOwned == Spec => []OwnMerchants
<1>1. IInv => OwnMerchants
  BY IdNamesTransaction DEF IInv, OwnMerchants, Tied
<1> QED
  BY Invariance, <1>1, PTL

\* A correction stands: no run, however old what it read, changes the row of a
\* transaction a user or a merchant's rule decided about (the WHERE clause of
\* UpsertTransactionClassification); only another correction of it does.
THEOREM CorrectionsStand == Spec => CorrectionStands
<1>1. ASSUME IInv, [Next]_vars, NEW i \in Id, Ruled(i), class'[i] # class[i]
      PROVE  \/ ~Stored(i)'
             \/ \E c \in Caller : /\ call[c].at = "force" /\ call[c].tx = i
                                  /\ class'[i].category = call[c].category
  <2>1. RowStep(i)
    BY <1>1, RowsStep
  <2>2. \A category, merchant, source, confidence :
           Row(category, merchant, source, confidence).category = category
    BY DEF Row
  <2> QED
    BY <1>1, <2>1, <2>2 DEF RowStep
<1>2. IInv /\ [Next]_vars =>
        [\A i \in Id :
          Ruled(i) /\ class'[i] # class[i]
          => \/ ~Stored(i)'
             \/ \E c \in Caller : /\ call[c].at = "force" /\ call[c].tx = i
                                  /\ class'[i].category = call[c].category]_vars
  BY <1>1
<1> QED
  BY Invariance, <1>2, PTL DEF Spec, CorrectionStands

-----------------------------------------------------------------------------
(* What a run has covered                                                  *)

Field == {"at", "kind", "household", "labels", "label", "rules", "byMerchant", "transfers",
          "read", "todo", "queue", "tx", "category", "everywhere", "update"}
Made(r) == r = [f \in Field |-> r[f]]

\* A row the run r has done with: of some category, and not of a pattern or a
\* fallback if r saw a rule of the merchant.
Covered(i, r) ==
    LET l == TransactionOf(i).label IN
    /\ class[i] # Unclassified
    /\ l # NoLabel /\ r.byMerchant[l] # NoCategory => Ruled(i)

\* What is so of a call r: the rules it read are of merchants its household
\* still has, the transactions are of imported files, and those it has done
\* with are covered or gone.
Reads(r) ==
    /\ r = Idle \/ Made(r)
    /\ r.at \in {"read", "list", "classify"} /\ r.household # Nobody =>
          \A l \in Label : r.byMerchant[l] # NoCategory => alias[l] = r.household
    /\ r.at = "classify" =>
          /\ r.todo \subseteq r.read
          /\ \A i \in r.read : /\ i \in Id
                               /\ TransactionOf(i).household = r.household
                               /\ TransactionOf(i).file \in imported
          /\ \A i \in r.read \ r.todo : Stored(i) => Covered(i, r)

RunInv ==
    /\ \A t \in ledger : t.file \in imported
    /\ call = [c \in Caller |-> call[c]]
    /\ \A c \in Caller : Reads(call[c])

LEMMA FieldNames ==
    /\ "at" \in Field /\ "kind" \in Field /\ "household" \in Field /\ "labels" \in Field
    /\ "label" \in Field /\ "rules" \in Field /\ "byMerchant" \in Field
    /\ "transfers" \in Field /\ "read" \in Field /\ "todo" \in Field /\ "queue" \in Field
    /\ "tx" \in Field /\ "category" \in Field /\ "everywhere" \in Field /\ "update" \in Field
  BY DEF Field

\* A call as it starts.
LEMMA StartMade ==
    ASSUME NEW kind, NEW h, NEW at
    PROVE  Made(Start(kind, h, at)) /\ Start(kind, h, at).at = at
  BY DEF Start, Made, Field

\* A call moved on, one field after the other.
LEMMA MadeExcept ==
    ASSUME NEW r, Made(r), NEW f \in Field, NEW v
    PROVE  /\ Made([r EXCEPT ![f] = v]) /\ [r EXCEPT ![f] = v][f] = v
           /\ \A g \in Field \ {f} : [r EXCEPT ![f] = v][g] = r[g]
  BY DEF Made

\* A file is imported once, and what is stored is of an imported file.
LEMMA FilesStep ==
    ASSUME RunInv, [Next]_vars
    PROVE  /\ imported \subseteq imported'
           /\ \A t \in ledger' : t.file \in imported'
           /\ \A t \in ledger' : t \in ledger \/ t.file \notin imported
<1>1. ASSUME NEW f, CommitImport(f)
      PROVE  /\ imported \subseteq imported'
             /\ \A t \in ledger' : t.file \in imported'
             /\ \A t \in ledger' : t \in ledger \/ t.file \notin imported
  BY <1>1 DEF CommitImport, InFile, RunInv
<1>2. ASSUME NEW f, CommitRollback(f)
      PROVE  imported' = imported /\ ledger' \subseteq ledger
  BY <1>2 DEF CommitRollback
<1>3. ASSUME NEW x, ConfirmTransfer(x) \/ SetOneOff(x) \/ ImportPatternRule(x) PROVE UNCHANGED <<imported, ledger>>
  BY <1>3 DEF ConfirmTransfer, SetOneOff, ImportPatternRule
<1>4. ASSUME NEW c, NEW kind, NEW h, StartRun(c, kind, h) PROVE UNCHANGED <<imported, ledger>>
  BY <1>4 DEF StartRun, tables
<1>5. ASSUME NEW c, NEW t, NEW category, NEW everywhere,
             StartCorrection(c, t, category, everywhere)
      PROVE  UNCHANGED <<imported, ledger>>
  BY <1>5 DEF StartCorrection, tables
<1>6. ASSUME NEW c, Step(c) \/ Abandon(c) PROVE UNCHANGED <<imported, ledger>>
  BY <1>6 DEF tables, Step, Abandon, CreateMerchant, CreateMerchantAlias, Rebuilt,
     ReadRules, ReadTransfers, ReadTransactions, ClassifyNext, ListQueue, SuggestCategories, ApplySuggestion,
     FindLabels, ForceUpsert, FindRule, WriteRule, SetDefault
<1>7. UNCHANGED vars => UNCHANGED <<imported, ledger>>
  BY DEF vars, tables
<1> QED
  BY <1>1, <1>2, <1>3, <1>4, <1>5, <1>6, <1>7 DEF RunInv, Next

\* Where a call that moves reads rules or classifies next, it has just read
\* the rules, has just read the transactions or is classifying.
LEMMA CallStep ==
    ASSUME RunInv, [Next]_vars
    PROVE  /\ call' = [c \in Caller |-> call'[c]]
           /\ \A c \in Caller :
                 \/ call'[c] = call[c]
                 \/ call'[c] = Idle
                 \/ Made(call'[c]) /\ call'[c].at \notin {"read", "list", "classify"}
                 \/ Made(call'[c]) /\ (ReadRules(c) \/ ReadTransfers(c) \/ ReadTransactions(c) \/ ClassifyNext(c))
<1> DEFINE Good(c) ==
              \/ call'[c] = call[c]
              \/ call'[c] = Idle
              \/ Made(call'[c]) /\ call'[c].at \notin {"read", "list", "classify"}
              \/ Made(call'[c]) /\ (ReadRules(c) \/ ReadTransfers(c) \/ ReadTransactions(c) \/ ClassifyNext(c))
<1>0. call = [c \in Caller |-> call[c]] /\ \A c \in Caller : call[c] = Idle \/ Made(call[c])
  BY DEF RunInv, Reads
<1>1. ASSUME UNCHANGED call
      PROVE  call' = [c \in Caller |-> call'[c]] /\ \A c \in Caller : Good(c)
  BY <1>0, <1>1
<1>2. ASSUME NEW c \in Caller, NEW r, call' = [call EXCEPT ![c] = r],
             \/ r = Idle
             \/ Made(r) /\ r.at \notin {"read", "list", "classify"}
             \/ Made(r) /\ (ReadRules(c) \/ ReadTransfers(c) \/ ReadTransactions(c) \/ ClassifyNext(c))
      PROVE  call' = [d \in Caller |-> call'[d]] /\ \A d \in Caller : Good(d)
  <2>1. call' = [d \in Caller |-> call'[d]]
    BY <1>0, <1>2
  <2>2. call'[c] = r /\ \A d \in Caller : d # c => call'[d] = call[d]
    BY <1>0, <1>2
  <2> QED
    BY <1>2, <2>1, <2>2
<1>3. ASSUME NEW c \in Caller, NEW kind, NEW h, StartRun(c, kind, h)
      PROVE  call' = [d \in Caller |-> call'[d]] /\ \A d \in Caller : Good(d)
  <2> DEFINE r == [Start(kind, h, "labels") EXCEPT !.labels = ListMerchantSourceLabels(h)]
  <2>1. Made(r) /\ r.at = "labels"
    BY StartMade, MadeExcept DEF Field
  <2> QED
    BY <1>2, <1>3, <2>1 DEF StartRun
<1>4. ASSUME NEW c \in Caller, NEW t, NEW category, NEW everywhere,
             StartCorrection(c, t, category, everywhere)
      PROVE  call' = [d \in Caller |-> call'[d]] /\ \A d \in Caller : Good(d)
  <2> DEFINE r0 == Start("correct", t.household, "found")
             r1 == [r0 EXCEPT !.tx = t.id]
             r2 == [r1 EXCEPT !.category = category]
             r3 == [r2 EXCEPT !.everywhere = everywhere]
  <2>1. Made(r1) /\ r1.at = "found"
    BY StartMade, MadeExcept DEF Field
  <2> HIDE DEF r1
  <2>2. Made(r2) /\ r2.at = "found"
    BY <2>1, MadeExcept DEF Field
  <2> HIDE DEF r2
  <2>3. Made(r3) /\ r3.at = "found"
    BY <2>2, MadeExcept DEF Field
  <2> QED
    BY <1>2, <1>4, <2>3 DEF StartCorrection, r1, r2
<1>5. ASSUME NEW c \in Caller, CreateMerchant(c)
      PROVE  call' = [d \in Caller |-> call'[d]] /\ \A d \in Caller : Good(d)
  <2>1. Made(call[c]) /\ call[c].at = "labels"
    BY <1>0, <1>5 DEF CreateMerchant, Idle
  <2>2. \E at \in {"labels", "alias"} : \E l, m :
           call' = [call EXCEPT ![c].at = at, ![c].labels = @ \ {l}, ![c].label = m]
    BY <1>5, <2>1, FieldNames DEF CreateMerchant, Made
  <2>3. PICK at \in {"labels", "alias"} : \E l, m :
           call' = [call EXCEPT ![c].at = at, ![c].labels = @ \ {l}, ![c].label = m]
    BY <2>2
  <2>4. PICK l, m : call' = [call EXCEPT ![c].at = at, ![c].labels = @ \ {l}, ![c].label = m]
    BY <2>3
  <2>5. Made(call'[c]) /\ call'[c].at = at
    BY <1>0, <2>1, <2>4, FieldNames DEF Made
  <2>6. call' = [call EXCEPT ![c] = call'[c]]
    BY <1>0, <2>4
  <2> QED
    BY <1>2, <2>5, <2>6
<1>6. ASSUME NEW c \in Caller, CreateMerchantAlias(c)
      PROVE  call' = [d \in Caller |-> call'[d]] /\ \A d \in Caller : Good(d)
  <2>1. Made(call[c])
    BY <1>0, <1>6 DEF CreateMerchantAlias, Idle
  <2>2. call'[c] = Idle \/ (Made(call'[c]) /\ call'[c].at = "labels")
    BY <1>0, <1>6, <2>1 DEF CreateMerchantAlias, Made, Field, Fail
  <2>3. call' = [call EXCEPT ![c] = call'[c]]
    BY <1>0, <1>6 DEF CreateMerchantAlias, Fail
  <2> QED
    BY <1>2, <2>2, <2>3
<1>7. ASSUME NEW c \in Caller, Rebuilt(c)
      PROVE  call' = [d \in Caller |-> call'[d]] /\ \A d \in Caller : Good(d)
  <2>1. Made(call[c])
    BY <1>0, <1>7 DEF Rebuilt, Idle
  <2>2. call'[c] = Idle \/ (Made(call'[c]) /\ call'[c].at \notin {"read", "list", "classify"})
    BY <1>0, <1>7, <2>1 DEF Rebuilt, Made, Field
  <2>3. call' = [call EXCEPT ![c] = call'[c]]
    BY <1>0, <1>7 DEF Rebuilt
  <2> QED
    BY <1>2, <2>2, <2>3
<1>8. ASSUME NEW c \in Caller, SuggestCategories(c)
      PROVE  call' = [d \in Caller |-> call'[d]] /\ \A d \in Caller : Good(d)
  <2>1. Made(call[c])
    BY <1>0, <1>8 DEF SuggestCategories, Idle
  <2>2. call'[c] = Idle \/ (Made(call'[c]) /\ call'[c].at = "apply")
    BY <1>0, <1>8, <2>1 DEF SuggestCategories, Made, Field
  <2>3. call' = [call EXCEPT ![c] = call'[c]]
    BY <1>0, <1>8 DEF SuggestCategories
  <2> QED
    BY <1>2, <2>2, <2>3
<1>9. ASSUME NEW c \in Caller, ApplySuggestion(c)
      PROVE  call' = [d \in Caller |-> call'[d]] /\ \A d \in Caller : Good(d)
  <2>0. call[c].at = "apply"
    BY <1>9 DEF ApplySuggestion
  <2>1. Made(call[c])
    BY <1>0, <2>0 DEF Idle
  <2>2. ASSUME NEW i, NEW k,
               call' = [call EXCEPT ![c].at = "found", ![c].queue = @ \ {i}, ![c].tx = i,
                                    ![c].category = k, ![c].everywhere = TRUE]
        PROVE  /\ Made(call'[c]) /\ call'[c].at = "found"
               /\ call' = [call EXCEPT ![c] = call'[c]]
    BY <1>0, <2>1, <2>2, FieldNames DEF Made
  <2>3. ASSUME NEW i, call' = [call EXCEPT
                    ![c].at = "found", ![c].queue = @ \ {i}, ![c].tx = i,
                    ![c].category =
                        MatchPattern(TransactionOf(i), call[c].rules).category,
                    ![c].everywhere = TRUE]
        PROVE  call' = [d \in Caller |-> call'[d]] /\ \A d \in Caller : Good(d)
    BY <1>2, <2>2, <2>3
  <2>4. ASSUME Fail(c)
        PROVE  call' = [d \in Caller |-> call'[d]] /\ \A d \in Caller : Good(d)
    BY <1>2, <2>4 DEF Fail
  <2> HIDE DEF Good
  <2> QED
    BY <1>9, <2>3, <2>4 DEF ApplySuggestion
<1>10. ASSUME NEW c \in Caller, FindLabels(c)
      PROVE  call' = [d \in Caller |-> call'[d]] /\ \A d \in Caller : Good(d)
  <2>1. Made(call[c])
    BY <1>0, <1>10 DEF FindLabels, Idle
  <2>2. call'[c] = Idle \/ (Made(call'[c]) /\ call'[c].at \in {"force", "labels"})
    BY <1>0, <1>10, <2>1 DEF FindLabels, Made, Field
  <2>3. call' = [call EXCEPT ![c] = call'[c]]
    BY <1>0, <1>10 DEF FindLabels
  <2> QED
    BY <1>2, <2>2, <2>3
<1>11. ASSUME NEW c \in Caller, FindRule(c)
      PROVE  call' = [d \in Caller |-> call'[d]] /\ \A d \in Caller : Good(d)
  <2>1. Made(call[c])
    BY <1>0, <1>11 DEF FindRule, Idle
  <2>2. call'[c] = Idle \/ (Made(call'[c]) /\ call'[c].at = "write")
    BY <1>0, <1>11, <2>1 DEF FindRule, Made, Field
  <2>3. call' = [call EXCEPT ![c] = call'[c]]
    BY <1>0, <1>11 DEF FindRule
  <2> QED
    BY <1>2, <2>2, <2>3
<1>12. ASSUME NEW c \in Caller, WriteRule(c)
      PROVE  call' = [d \in Caller |-> call'[d]] /\ \A d \in Caller : Good(d)
  <2>1. Made(call[c])
    BY <1>0, <1>12 DEF WriteRule, Idle
  <2>2. call'[c] = Idle \/ (Made(call'[c]) /\ call'[c].at = "default")
    BY <1>0, <1>12, <2>1 DEF WriteRule, Made, Field, Fail
  <2>3. call' = [call EXCEPT ![c] = call'[c]]
    BY <1>0, <1>12 DEF WriteRule, Fail
  <2> QED
    BY <1>2, <2>2, <2>3
<1>13. ASSUME NEW c \in Caller, ReadRules(c)
      PROVE  call' = [d \in Caller |-> call'[d]] /\ \A d \in Caller : Good(d)
  <2>1. Made(call[c])
    BY <1>0, <1>13 DEF ReadRules, Idle
  <2>2. call'[c] = Idle \/ Made(call'[c])
    BY <1>0, <1>13, <2>1 DEF ReadRules, Made, Field
  <2>3. call' = [call EXCEPT ![c] = call'[c]]
    BY <1>0, <1>13 DEF ReadRules
  <2> QED
    BY <1>2, <1>13, <2>2, <2>3
<1>21. ASSUME NEW c \in Caller, ReadTransfers(c)
      PROVE  call' = [d \in Caller |-> call'[d]] /\ \A d \in Caller : Good(d)
  <2>1. Made(call[c])
    BY <1>0, <1>21 DEF ReadTransfers, Idle
  <2>2. call'[c] = Idle \/ Made(call'[c])
    BY <1>0, <1>21, <2>1 DEF ReadTransfers, Made, Field
  <2>3. call' = [call EXCEPT ![c] = call'[c]]
    BY <1>0, <1>21 DEF ReadTransfers
  <2> QED
    BY <1>2, <1>21, <2>2, <2>3
<1>14. ASSUME NEW c \in Caller, ReadTransactions(c)
      PROVE  call' = [d \in Caller |-> call'[d]] /\ \A d \in Caller : Good(d)
  <2>1. Made(call[c])
    BY <1>0, <1>14 DEF ReadTransactions, Idle
  <2>2. call'[c] = Idle \/ Made(call'[c])
    BY <1>0, <1>14, <2>1 DEF ReadTransactions, Made, Field
  <2>3. call' = [call EXCEPT ![c] = call'[c]]
    BY <1>0, <1>14 DEF ReadTransactions
  <2> QED
    BY <1>2, <1>14, <2>2, <2>3
<1>15. ASSUME NEW c \in Caller, ClassifyNext(c)
      PROVE  call' = [d \in Caller |-> call'[d]] /\ \A d \in Caller : Good(d)
  <2>1. Made(call[c])
    BY <1>0, <1>15 DEF ClassifyNext, Idle
  <2>2. call'[c] = Idle \/ Made(call'[c])
    BY <1>0, <1>15, <2>1 DEF ClassifyNext, Made, Field, Fail
  <2>3. call' = [call EXCEPT ![c] = call'[c]]
    BY <1>0, <1>15 DEF ClassifyNext, Fail
  <2> QED
    BY <1>2, <1>15, <2>2, <2>3
<1>16. ASSUME NEW c \in Caller, ListQueue(c) \/ ForceUpsert(c) \/ SetDefault(c) \/ Abandon(c)
      PROVE  call' = [d \in Caller |-> call'[d]] /\ \A d \in Caller : Good(d)
  <2>1. call[c] # Idle /\ Made(call[c])
    BY <1>0, <1>16 DEF ListQueue, ForceUpsert, SetDefault, Abandon, Idle
  <2>2. ASSUME ListQueue(c)
        PROVE  \E r : /\ call' = [call EXCEPT ![c] = r]
                      /\ r = Idle \/ (Made(r) /\ r.at \notin {"read", "list", "classify"})
    <3> DEFINE r == [Start("apply", call[c].household, "patterns") EXCEPT
                        !.queue = ListClassificationQueue(call[c].household)]
    <3>1. Made(r) /\ r.at = "patterns"
      BY StartMade, MadeExcept DEF Field
    <3> QED
      BY <2>2, <3>1 DEF ListQueue, Fail
  <2>3. Corrected(c) = Idle \/ (Made(Corrected(c)) /\ Corrected(c).at = "apply")
    BY <2>1, MadeExcept DEF Corrected, Field
  <2>4. ASSUME ForceUpsert(c)
        PROVE  \E r : /\ call' = [call EXCEPT ![c] = r]
                      /\ r = Idle \/ (Made(r) /\ r.at \notin {"read", "list", "classify"})
    <3> DEFINE r(m) == [call[c] EXCEPT !.at = "rule", !.label = m]
    <3>1. \A m : Made(r(m)) /\ r(m).at = "rule"
      BY <2>1 DEF Made, Field
    <3> QED
      BY <1>0, <2>3, <2>4, <3>1 DEF ForceUpsert, Fail
  <2>5. ASSUME SetDefault(c) \/ Abandon(c)
        PROVE  \E r : /\ call' = [call EXCEPT ![c] = r]
                      /\ r = Idle \/ (Made(r) /\ r.at \notin {"read", "list", "classify"})
    BY <2>3, <2>5 DEF SetDefault, Abandon, Fail
  <2> QED
    BY <1>2, <1>16, <2>2, <2>4, <2>5
<1>17. ASSUME NEW f, CommitImport(f) \/ CommitRollback(f) PROVE UNCHANGED call
  BY <1>17 DEF CommitImport, CommitRollback
<1>18. ASSUME NEW x, ConfirmTransfer(x) \/ SetOneOff(x) \/ ImportPatternRule(x) PROVE UNCHANGED call
  BY <1>18 DEF ConfirmTransfer, SetOneOff, ImportPatternRule
<1>19. UNCHANGED vars => UNCHANGED call
  BY DEF vars
<1> HIDE DEF Good
<1>20. call' = [d \in Caller |-> call'[d]] /\ \A d \in Caller : Good(d)
  BY <1>1, <1>3, <1>4, <1>5, <1>6, <1>7, <1>8, <1>9, <1>10, <1>11, <1>12, <1>13, <1>14, <1>15, <1>16, <1>17, <1>18, <1>19, <1>21 DEF Next, Step
<1> QED
  BY <1>20 DEF Good

\* A row that is covered stays so, whichever run or correction writes it, until
\* its transaction is gone for good.
LEMMA CoveredStays ==
    ASSUME IInv, RunInv, [Next]_vars, NEW i \in Id, NEW r,
           TransactionOf(i).file \in imported, Stored(i) => Covered(i, r), Stored(i)'
    PROVE  LET l == TransactionOf(i).label IN
           /\ class'[i] # Unclassified
           /\ l # NoLabel /\ r.byMerchant[l] # NoCategory => class'[i].source = "user_rule"
<1>1. Covered(i, r)
  BY FilesStep DEF Stored
<1>2. CASE class'[i] = class[i]
  BY <1>1, <1>2 DEF Covered, Ruled
<1>3. ASSUME NEW c \in Caller, ~Ruled(i), class'[i] = Classified(TransactionOf(i), call[c])
      PROVE  LET l == TransactionOf(i).label IN
             /\ class'[i] # Unclassified
             /\ l # NoLabel => r.byMerchant[l] = NoCategory
  BY <1>1, <1>3, ClassifiedRow DEF Covered
<1>4. ASSUME NEW category, class'[i] = Row(category, MerchantOf(TransactionOf(i)), "user_rule", "high")
      PROVE  class'[i].source = "user_rule" /\ class'[i] # Unclassified
  BY <1>4 DEF Row, Unclassified
<1> QED
  BY <1>2, <1>3, <1>4, RowsStep DEF RowStep

\* The row a run has just written, or left to a user's decision, is covered.
LEMMA NextIsCovered ==
    ASSUME IInv, RunInv, NEW c \in Caller, ClassifyNext(c), NEW i \in call[c].read,
           i \in call[c].todo, i \notin call'[c].todo, Made(call'[c]),
           call'[c].at = "classify"
    PROVE  /\ class'[i] # Unclassified
           /\ TransactionOf(i).label # NoLabel
              /\ call[c].byMerchant[TransactionOf(i).label] # NoCategory
              => class'[i].source = "user_rule"
<1> DEFINE t == TransactionOf(i)
           row == Classified(t, call[c])
<1>1. call[c].at = "classify" /\ Made(call[c]) /\ Reads(call[c])
  BY DEF ClassifyNext, RunInv, Reads, Idle
<1>2. i \in Id /\ t.household = call[c].household
  BY <1>1 DEF Reads
<1>3. class'[i] = UpsertTransactionClassification(i, row)
  <2> DEFINE n == CHOOSE j \in call[c].todo : \A k \in call[c].todo : j <= k
  <2>1. CASE Stored(n) /\ call' = [call EXCEPT ![c].todo = Remaining(c, n)]
    <3>1. call'[c].todo = call[c].todo \ {n}
      BY <1>1, <2>1, FieldNames DEF Remaining, Made, RunInv
    <3>2. n = i
      BY <3>1
    <3>3. class' = [class EXCEPT ![n] = UpsertTransactionClassification(
                                         n, Classified(TransactionOf(n), call[c]))]
      BY <2>1 DEF ClassifyNext
    <3> HIDE DEF n
    <3> QED
      BY <1>2, <3>2, <3>3 DEF IInv
  <2>2. CASE ~Stored(n)
    <3>1. call'[c] = Idle
      BY <2>2 DEF ClassifyNext, Fail, RunInv
    <3> QED
      BY <3>1 DEF Idle
  <2> QED
    BY <2>1, <2>2 DEF ClassifyNext
<1>4. CASE class[i].source = "user_rule"
  BY <1>3, <1>4 DEF UpsertTransactionClassification, Unclassified
<1>5. CASE class[i].source # "user_rule"
  <2>1. class'[i] = row
    BY <1>3, <1>5 DEF UpsertTransactionClassification
  <2>2. t.label # NoLabel /\ call[c].byMerchant[t.label] # NoCategory => MerchantOf(t) = t.label
    <3>1. t.label \in Label \cup {NoLabel} /\ t.household # Nobody
      BY <1>2, IdNamesTransaction, ClassificationAssumption
    <3> QED
      BY <1>1, <1>2, <3>1 DEF Reads, MerchantOf, GetMerchantAlias
  <2> QED
    BY <2>1, <2>2, ClassifiedRow
<1> QED
  BY <1>4, <1>5

LEMMA RunStep == IInv /\ RunInv /\ [Next]_vars => RunInv'
<1> SUFFICES ASSUME IInv, RunInv, [Next]_vars PROVE RunInv'
  OBVIOUS
<1>0. /\ \A l \in Label : alias[l] # Nobody => alias'[l] = alias[l]
      /\ imported \subseteq imported'
  BY AliasStep, FilesStep
<1>1. ASSUME NEW c \in Caller PROVE Reads(call[c])'
  <2>0. Reads(call[c])
    BY DEF RunInv
  <2>1. CASE call'[c] = call[c]
    <3> DEFINE r == call[c]
    <3>1. r.at \in {"read", "list", "classify"} /\ r.household # Nobody =>
             \A l \in Label : r.byMerchant[l] # NoCategory => alias'[l] = r.household
      BY <1>0, <2>0 DEF Reads
    <3>2. r.at = "classify" => \A i \in r.read : TransactionOf(i).file \in imported'
      BY <1>0, <2>0 DEF Reads
    <3>3. ASSUME r.at = "classify", NEW i \in r.read \ r.todo, Stored(i)'
          PROVE  LET l == TransactionOf(i).label IN
                 /\ class'[i] # Unclassified
                 /\ l # NoLabel /\ r.byMerchant[l] # NoCategory => class'[i].source = "user_rule"
      BY <2>0, <3>3, CoveredStays DEF Reads
    <3> QED
      BY <2>0, <2>1, <3>1, <3>2, <3>3 DEF Reads, Covered, Ruled
  <2>2. CASE call'[c] = Idle \/ (Made(call'[c]) /\ call'[c].at \notin {"read", "list", "classify"})
    BY <2>2 DEF Reads, Idle
  <2>3. CASE Made(call'[c]) /\ ReadRules(c)
    <3>1. Made(call[c])
      BY <2>0, <2>3 DEF ReadRules, Reads, Idle
    <3>2. /\ call'[c].at = "read" /\ call'[c].household = call[c].household
          /\ call'[c].byMerchant = ListClassificationRules(call[c].household).merchants
          /\ UNCHANGED alias
      BY <2>3, <3>1, FieldNames DEF ReadRules, Made, RunInv, tables
    <3>3. \A l \in Label : call'[c].byMerchant[l] # NoCategory => alias[l] = call[c].household
      BY <3>2 DEF ListClassificationRules
    <3> QED
      BY <2>3, <3>2, <3>3 DEF Reads
  <2>4. CASE Made(call'[c]) /\ ReadTransactions(c)
    <3>1. Made(call[c]) /\ call[c].at = "list"
      BY <2>0, <2>4 DEF ReadTransactions, Reads, Idle
    <3>2. /\ call'[c].at = "classify" /\ call'[c].household = call[c].household
          /\ call'[c].byMerchant = call[c].byMerchant
          /\ call'[c].read = ListTransactionsForClassify(call[c].household)
          /\ call'[c].todo = ListTransactionsForClassify(call[c].household)
          /\ UNCHANGED <<alias, imported>>
      BY <2>4, <3>1, FieldNames DEF ReadTransactions, Made, RunInv, tables
    <3>3. \A i \in ListTransactionsForClassify(call[c].household) :
             /\ i \in Id
             /\ TransactionOf(i).household = call[c].household
             /\ TransactionOf(i).file \in imported
      BY IdNamesTransaction DEF ListTransactionsForClassify, Of, IInv, RunInv
    <3>4. call[c].household # Nobody =>
             \A l \in Label : call[c].byMerchant[l] # NoCategory => alias[l] = call[c].household
      BY <2>0, <3>1 DEF Reads
    <3> QED
      BY <2>4, <3>2, <3>3, <3>4 DEF Reads
  <2>6. CASE Made(call'[c]) /\ ReadTransfers(c)
    <3>1. Made(call[c]) /\ call[c].at = "read"
      BY <2>0, <2>6 DEF ReadTransfers, Reads, Idle
    <3>2. /\ call'[c].at = "list" /\ call'[c].household = call[c].household
          /\ call'[c].byMerchant = call[c].byMerchant /\ UNCHANGED alias
      BY <2>6, <3>1, FieldNames DEF ReadTransfers, Made, RunInv, tables
    <3>3. call[c].household # Nobody =>
             \A l \in Label : call[c].byMerchant[l] # NoCategory => alias[l] = call[c].household
      BY <2>0, <3>1 DEF Reads
    <3> QED
      BY <2>6, <3>2, <3>3 DEF Reads
  <2>5. CASE Made(call'[c]) /\ ClassifyNext(c)
    <3>1. Made(call[c]) /\ call[c].at = "classify"
      BY <2>0, <2>5 DEF ClassifyNext, Reads, Idle
    <3> DEFINE n == CHOOSE j \in call[c].todo : \A k \in call[c].todo : j <= k
    <3>2. CASE Stored(n)
      <4>1. call' = [call EXCEPT ![c].todo = Remaining(c, n)]
        BY <2>5, <3>2 DEF ClassifyNext
      <4> HIDE DEF n
      <4>2. /\ call'[c].at = "classify" /\ call'[c].household = call[c].household
            /\ call'[c].byMerchant = call[c].byMerchant
            /\ call'[c].read = call[c].read /\ call'[c].todo = call[c].todo \ {n}
        BY <3>1, <4>1, FieldNames DEF Made, RunInv, Remaining
      <4>3. UNCHANGED <<alias, imported>>
        BY <2>5 DEF ClassifyNext
      <4>4. ASSUME NEW i \in call[c].read \ call'[c].todo, Stored(i)'
            PROVE  LET l == TransactionOf(i).label IN
                   /\ class'[i] # Unclassified
                   /\ l # NoLabel /\ call[c].byMerchant[l] # NoCategory
                      => class'[i].source = "user_rule"
        <5>1. CASE i \in call[c].todo
          BY <2>5, <4>2, <4>4, <5>1, NextIsCovered
        <5>2. CASE i \notin call[c].todo
          BY <2>0, <3>1, <4>4, <5>2, CoveredStays DEF Reads
        <5> QED
          BY <5>1, <5>2
      <4> QED
        BY <2>0, <2>5, <3>1, <4>2, <4>3, <4>4 DEF Reads, Covered, Ruled
    <3>3. CASE ~Stored(n)
      <4>1. call' = [call EXCEPT ![c] = Idle]
        BY <2>5, <3>3 DEF ClassifyNext, Fail
      <4> QED
        BY <4>1 DEF RunInv, Reads, Idle
    <3> QED
      BY <3>2, <3>3
  <2> QED
    BY <2>1, <2>2, <2>3, <2>4, <2>5, <2>6, CallStep
<1> QED
  BY <1>1, CallStep, FilesStep DEF RunInv

\* A run leaves nothing it read, and that is still stored, unclassified or
\* against a rule it saw, whatever other runs, corrections and rollbacks do
\* meanwhile (classifyAll over its snapshot, transaction by transaction).
THEOREM RunsCover == Spec => []RunCovers
<1>1. Init => RunInv
  BY DEF Init, RunInv, Reads, Idle
<1>2. RunInv => RunCovers
  BY DEF RunInv, Reads, Covered, RunCovers
<1> QED
  BY <1>1, <1>2, RunStep, Invariance, PTL DEF Spec
=============================================================================
