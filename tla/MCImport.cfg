SPECIFICATION MCSpec
CONSTANTS
    b1 = b1  b2 = b2  b3 = b3
    fa = fa  fb = fb  fc = fc  fbad = fbad
    p1 = p1  p2 = p2  q1 = q1  q2 = q2  h1 = h1  h2 = h2
    Booking = {b1, b2, b3}
    OrderOf <- MCOrderOf
    File = {fa, fb, fc, fbad}
    RowsOf <- MCRowsOf
    Unreadable = {fbad}
    Household = {h1, h2}
    Upload = {p1, p2}
    Undo = {q1, q2}
    None = None
INVARIANTS
    CountsMatchRows
    RolledBackOnce
PROPERTIES
    ImplementsLedger
    CallsEnd
