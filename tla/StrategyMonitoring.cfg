SPECIFICATION MCSpec
CONSTANTS
    d1 = d1  d2 = d2  s1 = s1  s2 = s2  s3 = s3  o1 = o1  o2 = o2  o3 = o3  c1 = c1  c2 = c2  a = a  b = b
    DraftIds = {d1, d2}
    StrategyIds = {s1, s2, s3}
    RowLists <- Lists
    Ops = {o1, o2, o3}
    Scans = {c1, c2}
    CardRows = 1
    MaxFaults = 2
    None = None
INVARIANTS MarkedWasDelivered MarkedIsNotRepeated GoodScansAreComplete OnlyRacesUndoWork
CHECK_DEADLOCK FALSE
