CONSTANTS
    Names = {default, n1}
    Default = default
    MaxThemes = 2
    Procs = {p1}
    Reqs = {r1, r2}
    TTL = 1
    MaxRev = 3
    None = None
SPECIFICATION Spec
CHECK_DEADLOCK TRUE
INVARIANTS ActiveThemeSaved
