SPECIFICATION Spec
CONSTANTS
    t1 = t1
    t2 = t2
    p1 = p1
    p2 = p2
    s1 = s1
    dated = dated
    latest = latest
    realtime = realtime
    Threads = {t1, t2}
    Processes = {p1, p2}
    Keys = {dated, latest, realtime}
    KindOf <- MCKindOf
    Stripes = {s1}
    StripeOf <- MCStripeOf
    Size <- MCSize
    MaxEntries = 2
    MaxBytes = 2
    Day = 2
    Completion = 1
    ShortTTL = 2
    HistoricalTTL = 2
    MaxTime = 2
    None = None
SYMMETRY Symmetry
INVARIANTS TypeOK L1Accounting
PROPERTIES OneFetchPerMiss 
CHECK_DEADLOCK FALSE
