CONSTANTS
    Threads = {t1, t2}
    Comments = {c1, c2, c3}
    Users = {owner, viewer}
    Moderators = {owner}
    Reqs = {r1, r2, r3}
    MaxComments = 2
    None = None
SPECIFICATION Spec
SYMMETRY Symmetry
CHECK_DEADLOCK FALSE
INVARIANTS TypeOK CommentLimit
PROPERTIES DeletedForGood FirstResolverKept NoPostToDeleted
