CONSTANTS
    t1 = t1
    t2 = t2
    t3 = t3
    Threads <- MCThreads
    General = {t3}
    Initial <- MCInitial
    Loads = {l1, l2}
    PinLimit = 1
    MaxActs = 2
    None = None
SPECIFICATION MCSpec
CHECK_DEADLOCK FALSE
INVARIANTS TypeOK ListFresh ReportsCurrent
PROPERTIES PinsSettle
