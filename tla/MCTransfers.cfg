SPECIFICATION OverlapSpec
CONSTANTS
    bank = bank  giro = giro  depot = depot
    Transaction <- MCTransaction
    ScanOrder <- MCScanOrder
    Scanner = {s1, s2}
    Decider = {d1, d2}
INVARIANTS
    SharedOnlyUnknown
    PairsAreTransfers
    NetMovesByOverlap
PROPERTIES
    DecisionsStand
    ScanLeavesNoCandidate
SYMMETRY Symmetry
