CONSTANTS
    x = x
    c = c
    Plain = {x}
    Prefixed = {c}
    Configs <- Deployments
    Logins = {l1}
    Cookies = {k1, k2}
    Reqs = {r1, r2}
    Artifacts = {a1}
    StateTTL = 1
    SessionTTL = 1
    None = None
SPECIFICATION Spec
SYMMETRY Symmetry
CHECK_DEADLOCK TRUE
INVARIANTS IInv LoginOnce NoInheritance ServiceSees PublisherGranted
