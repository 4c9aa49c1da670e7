--------------------------- MODULE Classification ---------------------------
(***************************************************************************)
(* Categories of the transactions of several households                    *)
(* (internal/service/classify.go, merchants.go, internal/classify): runs   *)
(* over a snapshot, the inbox that runs first, corrections that become     *)
(* rules of the merchant, and suggestions applied in bulk.                 *)
(*                                                                         *)
(* Every call is a sequence of statements that commit one by one; it stops *)
(* at the first error and leaves what it stored.  The text of a booking is *)
(* abstracted to its merchant label and to the rule patterns it contains.  *)
(***************************************************************************)
EXTENDS Naturals, FiniteSets

CONSTANTS
    Caller,         \* concurrent calls
    Calls,          \* Calls[c]: what c calls, pairs of a kind and a household
    Household,
    Label,          \* normalized merchant labels
    Word,           \* patterns of pattern rules
    Transaction,    \* bookings that may be imported: [id, household, file,
                    \* label, words, positive, rank, leg, mark], rank: its
                    \* place by size, leg: may be confirmed as a leg of a
                    \* transfer, mark: may be marked as a one-off
    UserCategory,   \* categories users choose from
    RuleRow,        \* rows of rule files: [household, word, priority,
                    \* category, confidence]
    QueueLimit,     \* suggestions the queue shows
    MaxAbandoned    \* bound on calls that are cut off

Kind == {"queue", "apply", "correct"}
NoLabel == "no label"
NoRule == [category |-> "no rule"]
NoCategory == "no category"
Unclassified == [source |-> "none"]
Nobody == "nobody"

ASSUME ClassificationAssumption ==
    /\ Calls \in [Caller -> SUBSET (Kind \X Household)]
    /\ QueueLimit \in Nat \ {0} /\ MaxAbandoned \in Nat
    /\ NoLabel \notin Label /\ Nobody \notin Household
    /\ \A s, t \in Transaction : s.id = t.id \/ s.rank = t.rank => s = t
    /\ \A t \in Transaction :
          /\ t.id \in Nat
          /\ t.household \in Household /\ t.label \in Label \cup {NoLabel}
          /\ t.words \subseteq Word /\ t.positive \in BOOLEAN /\ t.rank \in Nat
    /\ NoCategory \notin UserCategory
    /\ \A row \in RuleRow : /\ row.household \in Household /\ row.word \in Word
                            /\ row.priority \in Nat

VARIABLES
    ledger,     \* transactions stored
    imported,   \* files stored so far; their transactions never come back
    transfers,  \* ids in confirmed transfer pairs
    oneOff,     \* ids marked as one-offs
    merchants,  \* <<household, label>> of the merchants created
    alias,      \* alias[l]: the household whose merchant has the label
    rule,       \* rule[l]: category of the rule of the merchant
    default,    \* default[l]: default category of the merchant
    patterns,   \* patterns[w]: the pattern rule for w, or NoRule
    class,      \* class[i]: the classification of transaction i
    call,       \* call[c]: where the call is and what it read
    abandoned   \* number of calls cut off

tables == <<ledger, imported, transfers, oneOff, merchants, alias, rule,
            default, patterns, class>>
vars == <<tables, call, abandoned>>

Id == {t.id : t \in Transaction}
TransactionOf(i) == CHOOSE t \in Transaction : t.id = i
Stored(i) == TransactionOf(i) \in ledger
Of(h) == {t \in ledger : t.household = h}

Idle == [at |-> "idle"]

Init ==
    /\ ledger = {} /\ imported = {} /\ transfers = {} /\ oneOff = {}
    /\ merchants = {}
    /\ alias = [l \in Label |-> Nobody]
    /\ rule = [l \in Label |-> NoCategory]
    /\ default = [l \in Label |-> NoCategory]
    /\ patterns = [w \in Word |-> NoRule]
    /\ class = [i \in Id |-> Unclassified]
    /\ call = [c \in Caller |-> Idle]
    /\ abandoned = 0

Fail(c) == call' = [call EXCEPT ![c] = Idle]

-----------------------------------------------------------------------------
(* Imports, rollbacks, transfer pairs                                      *)

InFile(f) == {t \in Transaction : t.file = f}

CommitImport(f) ==
    /\ f \notin imported
    /\ imported' = imported \cup {f}
    /\ ledger' = ledger \cup InFile(f)
    /\ UNCHANGED <<transfers, oneOff, merchants, alias, rule, default,
                   patterns, class, call, abandoned>>

Cascade(f) == [i \in Id |-> IF TransactionOf(i) \in InFile(f)
                            THEN Unclassified ELSE class[i]]
\* The classifications, pairs and marks go with the transactions.
CommitRollback(f) ==
    /\ InFile(f) \subseteq ledger
    /\ ledger' = ledger \ InFile(f)
    /\ transfers' = transfers \ {t.id : t \in InFile(f)}
    /\ oneOff' = oneOff \ {t.id : t \in InFile(f)}
    /\ class' = Cascade(f)
    /\ UNCHANGED <<imported, merchants, alias, rule, default,
                   patterns, call, abandoned>>

ConfirmTransfer(t) ==
    /\ t \in ledger /\ t.leg
    /\ transfers' = transfers \cup {t.id}
    /\ UNCHANGED <<ledger, imported, oneOff, merchants, alias, rule, default,
                   patterns, class, call, abandoned>>

\* A user marks the booking as a one-off, or no longer.
SetOneOff(t) ==
    /\ t \in ledger /\ t.mark
    /\ \E marked \in BOOLEAN :
          oneOff' = IF marked THEN oneOff \cup {t.id} ELSE oneOff \ {t.id}
    /\ UNCHANGED <<ledger, imported, transfers, merchants, alias, rule,
                   default, patterns, class, call, abandoned>>

-----------------------------------------------------------------------------
(* Pattern rules                                                           *)

KnownWords == {w \in Word : patterns[w] # NoRule}

\* A row of a rule file, of household h: the pattern is unique over all
\* households, the update leaves the household and the creation time of the
\* row.  ImportPatternRulesCSV takes the rows one by one and may stop after
\* any of them.
UpsertSystemPatternRule(row) ==
    LET w == row.word
        known == patterns[w] # NoRule
    IN  [household |-> IF known THEN patterns[w].household ELSE row.household,
         priority |-> row.priority, category |-> row.category,
         confidence |-> row.confidence,
         since |-> IF known THEN patterns[w].since
                   ELSE Cardinality(KnownWords)]
ImportPatternRule(row) ==
    /\ patterns' = [patterns EXCEPT ![row.word] = UpsertSystemPatternRule(row)]
    /\ UNCHANGED <<ledger, imported, transfers, oneOff, merchants, alias,
                   rule, default, class, call, abandoned>>

\* The rules of a household: those of patterns, those of merchants.
ListClassificationRules(h) ==
    [patterns |-> [w \in Word |->
        IF patterns[w] # NoRule /\ patterns[w].household = h
        THEN patterns[w] ELSE NoRule],
     merchants |-> [l \in Label |->
        IF alias[l] = h THEN rule[l] ELSE NoCategory]]
loadPatternRules(h) == ListClassificationRules(h).patterns
\* They are listed by priority, then by age.
Before(a, b) ==
    a.priority < b.priority \/ (a.priority = b.priority /\ a.since <= b.since)

\* The first rule whose pattern the text contains.
MatchPattern(t, rules) ==
    LET hits == {rules[w] : w \in t.words} \ {NoRule}
    IN  IF hits = {} THEN NoRule
        ELSE CHOOSE a \in hits : \A b \in hits : Before(a, b)

ShouldAutoApply(match) ==
    /\ match # NoRule
    /\ match.category # "other"
    /\ match.confidence \in {"high", "medium"}

-----------------------------------------------------------------------------
(* Queries of a household                                                  *)

ListTransactionsForClassify(h) == {t.id : t \in Of(h)}
ListConfirmedTransferTransactionIDs(h) ==
    transfers \cap ListTransactionsForClassify(h)
ListMerchantSourceLabels(h) == {t.label : t \in Of(h)} \ {NoLabel}
GetTransactionForClassify(i, h) == TransactionOf(i) \in Of(h)

-----------------------------------------------------------------------------
(* What a run decides about a transaction                                  *)

Row(category, merchant, source, confidence) ==
    [category |-> category, merchant |-> merchant,
     source |-> source, confidence |-> confidence]

SuggestCategory(t, merchant, isTransfer) ==
    CASE isTransfer -> Row("transfer", merchant, "heuristic", "high")
      [] ~isTransfer /\ t.label = "PAYPAL" ->
            Row("other", merchant, "merchant", "low")
      [] ~isTransfer /\ t.label # "PAYPAL" /\ t.positive ->
            Row("income", merchant, "heuristic", "medium")
      [] OTHER -> Row("other", merchant, "unresolved", "low")

\* Bug: the alias is looked up by its label only.
AnyAlias(l, h) == IF alias[l] # Nobody THEN l ELSE NoLabel
\* The merchant of a label, among the merchants of the household.
GetMerchantAlias(l, h) == IF alias[l] = h THEN l ELSE NoLabel
MerchantOf(t) ==
    IF t.label = NoLabel THEN NoLabel
    ELSE GetMerchantAlias(t.label, t.household)

\* First the rule of the merchant, then the patterns, then the fallback.
Classified(t, seen) ==
    LET merchant == MerchantOf(t)
        match == MatchPattern(t, seen.rules)
    IN  IF merchant # NoLabel /\ seen.byMerchant[merchant] # NoCategory
        THEN Row(seen.byMerchant[merchant], merchant, "user_rule", "high")
        ELSE IF match # NoRule
        THEN Row(match.category, merchant, "exact_rule", match.confidence)
        ELSE SuggestCategory(t, merchant, t.id \in seen.transfers)

\* Bug: the ON CONFLICT clause has no WHERE.
UpsertAlways(i, row) == row
\* ... ON CONFLICT DO UPDATE ... WHERE source <> 'user_rule'.
UpsertTransactionClassification(i, row) ==
    IF class[i].source = "user_rule" THEN class[i] ELSE row

\* The largest of those that no rule is sure of.
ListClassificationQueue(h) ==
    LET open == {t \in Of(h) :
                   /\ class[t.id] # Unclassified
                   /\ class[t.id].source # "user_rule"
                   /\ class[t.id].category # "transfer"
                   /\ t.id \notin oneOff
                   /\ class[t.id].source = "unresolved" \/ class[t.id].confidence = "low"}
    IN  {t.id : t \in {u \in open :
            Cardinality({v \in open : v.rank < u.rank}) < QueueLimit}}

-----------------------------------------------------------------------------
(* Calls.  A call record holds what the call has read so far:              *)
(*   labels: merchant labels to see to,  label: the one without an alias,  *)
(*   rules, byMerchant, transfers, read: the snapshot of a run,            *)
(*   todo: the transactions of read that are still to be classified,       *)
(*   queue: suggestions to apply,  tx, category, everywhere: a correction, *)
(*   update: whether the merchant had a rule.                              *)

Start(kind, h, at) ==
    [at |-> at, kind |-> kind, household |-> h, labels |-> {},
     label |-> NoLabel, rules |-> [w \in Word |-> NoRule],
     byMerchant |-> [l \in Label |-> NoCategory], transfers |-> {},
     read |-> {}, todo |-> {}, queue |-> {}, tx |-> 0, category |-> NoCategory,
     everywhere |-> FALSE, update |-> FALSE]

\* ListQueue, SuggestCategories and ApplySuggestions begin with Run, which
\* begins with Rebuild.  (Run on its own ends where they read the queue.)
StartRun(c, kind, h) ==
    /\ call[c] = Idle /\ <<kind, h>> \in Calls[c]
    /\ call' = [call EXCEPT ![c] =
                  [Start(kind, h, "labels") EXCEPT !.labels = ListMerchantSourceLabels(h)]]
    /\ UNCHANGED <<tables, abandoned>>

\* Correct, having found the transaction.
StartCorrection(c, t, category, everywhere) ==
    /\ call[c] = Idle /\ <<"correct", t.household>> \in Calls[c]
    /\ GetTransactionForClassify(t.id, t.household)
    /\ call' = [call EXCEPT ![c] =
          [Start("correct", t.household, "found") EXCEPT
              !.tx = t.id, !.category = category, !.everywhere = everywhere]]
    /\ UNCHANGED <<tables, abandoned>>

\* Merchants.Rebuild: the labels of the household, then for each one without
\* a merchant a merchant and its alias.
CreateMerchant(c) ==
    /\ call[c].at = "labels"
    /\ \E l \in call[c].labels :
          LET h == call[c].household
              found == GetMerchantAlias(l, h) # NoLabel
          IN  /\ call' = [call EXCEPT
                    ![c].at = IF found THEN @ ELSE "alias",
                    ![c].labels = @ \ {l},
                    ![c].label = IF found THEN @ ELSE l]
              /\ merchants' = IF found THEN merchants
                              ELSE merchants \cup {<<h, l>>}
    /\ UNCHANGED <<ledger, imported, transfers, oneOff, alias, rule, default,
                   patterns, class, abandoned>>

\* A label is the alias of one merchant, over all households: if another
\* call or household was first, Rebuild fails and its merchant stays.
CreateMerchantAlias(c) ==
    /\ call[c].at = "alias"
    /\ IF alias[call[c].label] = Nobody
       THEN /\ alias' = [alias EXCEPT ![call[c].label] = call[c].household]
            /\ call' = [call EXCEPT ![c].at = "labels"]
       ELSE Fail(c) /\ UNCHANGED alias
    /\ UNCHANGED <<ledger, imported, transfers, oneOff, merchants, rule,
                   default, patterns, class, abandoned>>

Rebuilt(c) ==
    /\ call[c].at = "labels" /\ call[c].labels = {}
    /\ call' = [call EXCEPT ![c].at =
                  IF call[c].tx = 0 THEN "rules" ELSE "force"]
    /\ UNCHANGED <<tables, abandoned>>

ReadRules(c) ==
    /\ call[c].at = "rules"
    /\ call' = [call EXCEPT
          ![c].at = "read",
          ![c].rules = ListClassificationRules(call[c].household).patterns,
          ![c].byMerchant =
              ListClassificationRules(call[c].household).merchants]
    /\ UNCHANGED <<tables, abandoned>>

ReadTransfers(c) ==
    /\ call[c].at = "read"
    /\ call' = [call EXCEPT
          ![c].at = "list",
          ![c].transfers = ListConfirmedTransferTransactionIDs(call[c].household)]
    /\ UNCHANGED <<tables, abandoned>>

ReadTransactions(c) ==
    /\ call[c].at = "list"
    /\ LET h == call[c].household IN
          call' = [call EXCEPT
            ![c].at = "classify",
            ![c].read = ListTransactionsForClassify(h),
            ![c].todo = ListTransactionsForClassify(h)]
    /\ UNCHANGED <<tables, abandoned>>

\* Bug: a row a user decided about ends the run.
StopAtUserRule(c, i) ==
    IF class[i].source = "user_rule" THEN {} ELSE call[c].todo \ {i}
Remaining(c, i) == call[c].todo \ {i}

\* The next transaction in list order; once it is rolled back, the foreign
\* key ends the run.
ClassifyNext(c) ==
    /\ call[c].at = "classify" /\ call[c].todo # {}
    /\ LET i == CHOOSE j \in call[c].todo : \A k \in call[c].todo : j <= k
           row == Classified(TransactionOf(i), call[c])
       IN  IF Stored(i)
           THEN /\ class' = [class EXCEPT ![i] =
                               UpsertTransactionClassification(i, row)]
                /\ call' = [call EXCEPT ![c].todo = Remaining(c, i)]
           ELSE Fail(c) /\ UNCHANGED class
    /\ UNCHANGED <<ledger, imported, transfers, oneOff, merchants, alias,
                   rule, default, patterns, abandoned>>

ListQueue(c) ==
    /\ call[c].at = "classify" /\ call[c].todo = {}
    /\ IF call[c].kind = "apply"
       THEN LET h == call[c].household IN
              call' = [call EXCEPT ![c] = [Start("apply", h, "patterns") EXCEPT
                         !.queue = ListClassificationQueue(h)]]
       ELSE Fail(c)
    /\ UNCHANGED <<tables, abandoned>>

\* SuggestCategories, with the rules read anew.
SuggestCategories(c) ==
    /\ call[c].at = "patterns"
    /\ LET rules == loadPatternRules(call[c].household) IN
          call' = [call EXCEPT
            ![c].at = "apply", ![c].rules = rules,
            ![c].queue = {i \in @ : ShouldAutoApply(
                                MatchPattern(TransactionOf(i), rules))}]
    /\ UNCHANGED <<tables, abandoned>>

\* ApplySuggestions corrects one suggestion after the other, the largest first.
NextSuggestion(queue, i) ==
    \A j \in queue : TransactionOf(i).rank <= TransactionOf(j).rank
ApplySuggestion(c) ==
    /\ call[c].at = "apply"
    /\ \/ \E i \in {j \in call[c].queue : NextSuggestion(call[c].queue, j)} :
             IF GetTransactionForClassify(i, call[c].household)
             THEN call' = [call EXCEPT
                    ![c].at = "found", ![c].queue = @ \ {i}, ![c].tx = i,
                    ![c].category =
                        MatchPattern(TransactionOf(i), call[c].rules).category,
                    ![c].everywhere = TRUE]
             ELSE Fail(c)
       \/ call[c].queue = {} /\ Fail(c)
    /\ UNCHANGED <<tables, abandoned>>

-----------------------------------------------------------------------------
(* Correct                                                                 *)

\* What follows a correction: the next suggestion, or the end.
Corrected(c) ==
    IF call[c].kind = "apply" THEN [call[c] EXCEPT !.at = "apply"] ELSE Idle

\* With a label the merchants are rebuilt first.
FindLabels(c) ==
    /\ call[c].at = "found"
    /\ call' = [call EXCEPT
          ![c].at = IF TransactionOf(call[c].tx).label = NoLabel
                    THEN "force" ELSE "labels",
          ![c].labels = ListMerchantSourceLabels(call[c].household)]
    /\ UNCHANGED <<tables, abandoned>>

\* ... ON CONFLICT DO UPDATE, whatever the source of the row.
ForceUpsertTransactionClassification(i, category, merchant) ==
    [class EXCEPT ![i] = Row(category, merchant, "user_rule", "high")]

ForceUpsert(c) ==
    /\ call[c].at = "force"
    /\ LET i == call[c].tx
           merchant == MerchantOf(TransactionOf(i))
       IN  IF Stored(i)
           THEN /\ class' = ForceUpsertTransactionClassification(
                               i, call[c].category, merchant)
                /\ call' = [call EXCEPT ![c] =
                      IF call[c].everywhere /\ merchant # NoLabel
                      THEN [@ EXCEPT !.at = "rule", !.label = merchant]
                      ELSE Corrected(c)]
           ELSE Fail(c) /\ UNCHANGED class
    /\ UNCHANGED <<ledger, imported, transfers, oneOff, merchants, alias,
                   rule, default, patterns, abandoned>>

GetClassificationRuleByMerchant(l) == rule[l] # NoCategory
FindRule(c) ==
    /\ call[c].at = "rule"
    /\ call' = [call EXCEPT ![c].at = "write",
          ![c].update = GetClassificationRuleByMerchant(call[c].label)]
    /\ UNCHANGED <<tables, abandoned>>

\* An UPDATE of the rule found, or an INSERT, which fails if the merchant
\* has got a rule meanwhile.  Both name the transaction the rule comes from:
\* once it is rolled back, the foreign key ends the call.
MayCreateRule(l) == rule[l] = NoCategory
UpdateClassificationRuleCategory(l, category) == [rule EXCEPT ![l] = category]
WriteRule(c) ==
    /\ call[c].at = "write"
    /\ IF Stored(call[c].tx) /\ (call[c].update \/ MayCreateRule(call[c].label))
       THEN /\ rule' = UpdateClassificationRuleCategory(
                          call[c].label, call[c].category)
            /\ call' = [call EXCEPT ![c].at = "default"]
       ELSE Fail(c) /\ UNCHANGED rule
    /\ UNCHANGED <<ledger, imported, transfers, oneOff, merchants, alias,
                   default, patterns, class, abandoned>>

UpdateMerchantDefaultCategory(l, category) == [default EXCEPT ![l] = category]
SetDefault(c) ==
    /\ call[c].at = "default"
    /\ default' = UpdateMerchantDefaultCategory(
                     call[c].label, call[c].category)
    /\ call' = [call EXCEPT ![c] = Corrected(c)]
    /\ UNCHANGED <<ledger, imported, transfers, oneOff, merchants, alias,
                   rule, patterns, class, abandoned>>

\* A cancelled request or a crash between two statements.
Abandon(c) ==
    /\ call[c] # Idle /\ abandoned < MaxAbandoned
    /\ Fail(c)
    /\ abandoned' = abandoned + 1
    /\ UNCHANGED tables

Step(c) ==
    \/ CreateMerchant(c) \/ CreateMerchantAlias(c) \/ Rebuilt(c)
    \/ ReadRules(c) \/ ReadTransfers(c) \/ ReadTransactions(c) \/ ClassifyNext(c)
    \/ ListQueue(c) \/ SuggestCategories(c) \/ ApplySuggestion(c)
    \/ FindLabels(c) \/ ForceUpsert(c) \/ FindRule(c) \/ WriteRule(c)
    \/ SetDefault(c)

Next ==
    \/ \E f \in {t.file : t \in Transaction} : CommitImport(f) \/ CommitRollback(f)
    \/ \E t \in ledger : ConfirmTransfer(t) \/ SetOneOff(t)
    \/ \E row \in RuleRow : ImportPatternRule(row)
    \/ \E c \in Caller, h \in Household, kind \in {"queue", "apply"} :
          StartRun(c, kind, h)
    \/ \E c \in Caller, t \in Transaction, category \in UserCategory,
          everywhere \in BOOLEAN : StartCorrection(c, t, category, everywhere)
    \/ \E c \in Caller : Step(c) \/ Abandon(c)

Spec == Init /\ [][Next]_vars

-----------------------------------------------------------------------------
(* Properties                                                              *)

Ruled(i) == class[i].source = "user_rule"

\* A transaction is tied to the merchant of its own label, and to a merchant
\* of its own household, whoever created the merchants in which order: rules
\* that users make of a merchant never reach another household.
OwnMerchants ==
    \A t \in ledger :
        LET row == class[t.id] IN
        row # Unclassified /\ row.merchant # NoLabel
        => row.merchant = t.label /\ alias[t.label] = t.household

\* What a user or a rule of a merchant has decided about a transaction is
\* changed by a correction of that transaction only, not by a run, however
\* old what the run has read, and until the transaction is rolled back.
CorrectionStands ==
    [][\A i \in Id :
          Ruled(i) /\ class'[i] # class[i]
          => \/ ~Stored(i)'
             \/ \E c \in Caller : /\ call[c].at = "force" /\ call[c].tx = i
                                  /\ class'[i].category = call[c].category]_vars

\* A run that comes to its end has left no transaction it read, and that is
\* still stored, without a category, and none to patterns and fallbacks whose
\* merchant has a rule it saw, whatever other runs wrote meanwhile.
RunCovers ==
    \A c \in Caller :
        call[c].at = "classify" /\ call[c].todo = {} =>
            \A i \in call[c].read : Stored(i) =>
                LET l == TransactionOf(i).label IN
                /\ class[i] # Unclassified
                /\ l # NoLabel /\ call[c].byMerchant[l] # NoCategory => Ruled(i)
=============================================================================
