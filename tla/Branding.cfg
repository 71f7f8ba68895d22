CONSTANTS
    Names = {default, n1, n2}
    Default = default
    MaxThemes = 2
    Procs = {p1, p2}
    Reqs = {r1, r2}
    TTL = 1
    MaxRev = 2
    None = None
SPECIFICATION Spec
SYMMETRY Symmetry
CHECK_DEADLOCK TRUE
INVARIANTS TypeOK ThemeLimit CacheFresh
PROPERTIES CacheMonotone
