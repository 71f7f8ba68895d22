CONSTANTS
    Threads = {t1}
    Comments = {c1, c2, c3}
    Users = {owner, viewer}
    Moderators = {owner}
    Reqs = {r1, r2}
    MaxComments = 3
    None = None
SPECIFICATION Spec
CHECK_DEADLOCK FALSE
PROPERTIES HiddenStaysHidden
