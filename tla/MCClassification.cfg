SPECIFICATION MCSpec
CONSTANTS
    Caller = {"inbox", "user"}
    Calls <- MCCalls
    Household = {"h1", "h2"}
    Label = {"SHOP"}
    Word = {"SHOP"}
    Transaction <- SharedPayee
    UserCategory = {"fun"}
    RuleRow <- ShopRow
    QueueLimit = 1
    MaxAbandoned = 1
INVARIANTS
    OwnMerchants
    RunCovers
PROPERTIES
    CorrectionStands
