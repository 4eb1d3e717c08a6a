SPECIFICATION MCSpec
CONSTANTS
    v1 = v1
    g1 = g1
    RuleIds = {v1}
    Chats = {g1}
    ChatOf <- OneChat
    up = up
    Conditions = {up}
    Exits = {"vix_below"}
    Markets <- HighOrLow
    Scans = {c1, c2}
    Commands = {k1}
    MaxDay = 2
    ExitDays = 1
    NoRule = NoRule
    NoPosition = NoPosition
SYMMETRY ScanSymmetry
INVARIANTS AlertOncePerDay ClaimsAreDeliveredOrLost  
PROPERTY NoAlertWhileOpen
CHECK_DEADLOCK FALSE
