SPECIFICATION Spec
CONSTANTS
    Caller = {c1, c2}
    Subject = {"anna", "ben"}
    Seeds = 1
    ClaimExistingData = TRUE
    OauthStateTTL = 1
    IdleTime = 2
    AbsoluteTime = 3
    Budgets <- MCBudgets
INVARIANTS
    SeedClaimedOnce
    HouseholdUnlessCut
PROPERTIES
    IdentityKept
    RevokedIsFinal
    WithinLifetime
SYMMETRY Symmetry
CHECK_DEADLOCK FALSE
