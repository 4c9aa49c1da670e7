SPECIFICATION MCSpec
CONSTANTS
    Specs <- MCSpecs
    Group <- MCGroup
    Scanner = {p1, p2}
    Household = {"h1", "h2"}
    Payment <- SameLandlord
    FirstDay = 1
    MaxDay = 2
CHECK_DEADLOCK FALSE
SYMMETRY MCSymmetry
INVARIANTS
    MembersBelong
PROPERTIES
    VerdictStands
    MembershipKept
