SPECIFICATION MCSpec
CONSTANTS
    q1 = q1
    st = st
    rt = rt
    sw = sw
    se = se
    Events = {q1, rt, st, se, sw}
    KindOf <- MCKindOf
    Handlers = {h1, h2, h3}
    Default = Default
    MaxTurns = 1
    MaxCuts = 1
    None = None
SYMMETRY HandlerSymmetry
INVARIANTS   ContextAgrees  
PROPERTY LeaseExclusive
CHECK_DEADLOCK FALSE
