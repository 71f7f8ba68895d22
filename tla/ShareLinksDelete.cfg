CONSTANTS
    Shares = {s1}
    Keys = {k1}
    Reqs = {r1, r2}
    MaxLimit = 1
    MaxViews = 1
    Life = 1
    SessionTTL = 1
    TicketTTL = 1
    None = None
SPECIFICATION Spec
CHECK_DEADLOCK TRUE
INVARIANTS DeletionRevokes
