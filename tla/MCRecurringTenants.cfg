SPECIFICATION Spec
CONSTANTS
    Specs <- MCSpecs
    Group <- MCGroup
    Scanner = {p1}
    Household = {"h1", "h2"}
    Payment <- SameLandlord
    FirstDay = 1
    MaxDay = 2
CHECK_DEADLOCK FALSE
PROPERTIES
    InboxPopulated
