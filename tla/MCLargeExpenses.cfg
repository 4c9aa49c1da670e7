SPECIFICATION AllSpec
CONSTANTS
    Account = {bank, giro}
    Days = {0, 1, 4}
    Amounts <- CentEach
    MaxList = 4
    Specs <- MCSpecs
    Group <- MCGroup
    LastDay = 13
    MaxPayments = 5
    MaxLedger = 3
    Entries <- MCEntries
    Pairs <- MCPairs
    Reader = 1
    ReportDays <- BookingDays
    PageLength = 2
    Ties <- MCTies
    AllSeries <- MCSeriesSet
    Todays <- MCTodays
    Latests <- MCLatests
    Others = {0, 600, 36528}
    Requests <- MCRequests
    Variables = {100}
    Sums <- MCSums
    ScenarioDays = {389, 395, 449}
    Gaps = {1, 3}
    SeriesBefore <- MCSeriesBefore
    EvidenceLimit = 3
    LargeLimit = 2
    LargeMinimum = 100
    MaxFindings = 3
    Request = {r1, r2}
    Source = {review, scenario}
    DecisionId = {d1}
    Note = {n1, n2}
    NoNote = NoNote
CHECK_DEADLOCK FALSE
INVARIANTS
    LargeExpensesAreSpending
